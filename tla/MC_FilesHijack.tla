---------------------------- MODULE MC_FilesHijack ----------------------------
(***************************************************************************)
(* Three clients on three descriptors: a offers f1 to b and sends its    *)
(* data, b accepts, and c offers a file with the same fileId to a.         *)
(***************************************************************************)
EXTENDS Server

CONSTANTS a, b, c, n1, n2, n3, f1

MCClientIds == {a, b, c}
MCNicks == {n1, n2, n3}
MCFileIds == {f1}

MCClientMsgs ==
  {[type |-> "LOGIN_REQ", cid |-> a, nick |-> n1],
   [type |-> "LOGIN_REQ", cid |-> b, nick |-> n2],
   [type |-> "LOGIN_REQ", cid |-> c, nick |-> n3],
   [type |-> "FILE_OFFER", fid |-> f1, to |-> b],
   [type |-> "FILE_OFFER", fid |-> f1, to |-> a],
   [type |-> "FILE_OFFER_RSP", fid |-> f1, result |-> "ACCEPT"],
   [type |-> "FILE_DATA", fid |-> f1]}
LoginAs(id, n) == [type |-> "LOGIN_REQ", cid |-> id, nick |-> n]
Data == [type |-> "FILE_DATA", fid |-> f1]

\* The k-th accepted connection is the client a, b or c.
MCMsgsOf(k) ==
  CASE k = 1 -> {LoginAs(a, n1), [type |-> "FILE_OFFER", fid |-> f1, to |-> b], Data}
    [] k = 2 -> {LoginAs(b, n2), [type |-> "FILE_OFFER_RSP", fid |-> f1, result |-> "ACCEPT"]}
    [] OTHER -> {LoginAs(c, n3), [type |-> "FILE_OFFER", fid |-> f1, to |-> a]}
=============================================================================
