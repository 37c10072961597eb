----------------------------- MODULE MC_Files -----------------------------
(***************************************************************************)
(* File transfer negotiation and relay, private chat and user-list         *)
(* requests on two descriptors and three connections: the third           *)
(* connection can take over the descriptor of a closed one.               *)
(***************************************************************************)
EXTENDS Server

CONSTANTS a, b, n1, n2, f1

MCClientIds == {a, b}
MCNicks == {n1, n2}
MCFileIds == {f1}

MCClientMsgs ==
  {[type |-> "LOGIN_REQ", cid |-> a, nick |-> n1],
   [type |-> "LOGIN_REQ", cid |-> b, nick |-> n2],
   [type |-> "FILE_OFFER", fid |-> f1, to |-> b],
   [type |-> "FILE_OFFER_RSP", fid |-> f1, result |-> "ACCEPT"],
   [type |-> "FILE_OFFER_RSP", fid |-> f1, result |-> "DECLINE"],
   [type |-> "FILE_DATA", fid |-> f1]}
\* Every client may write any of them.
MCMsgsOf(k) == MCClientMsgs
=============================================================================
