---------------------------- MODULE MC_Sessions ----------------------------
(***************************************************************************)
(* Logins, logouts, chat and user lists on three descriptors and four     *)
(* connections, with peer closes, a stop, and the fourth connection       *)
(* reusing a closed descriptor.  Three clients with distinct ids and      *)
(* nicknames can each pass the id and nickname checks, so the third       *)
(* login meets the online limit of 2; the others collide on a nickname    *)
(* (b as n1) or on an id (a as n2, and a again on the fourth connection). *)
(***************************************************************************)
EXTENDS Server

CONSTANTS a, b, c, n1, n2, n3

MCClientIds == {a, b, c}
MCNicks == {n1, n2, n3}

Login(id, n) == [type |-> "LOGIN_REQ", cid |-> id, nick |-> n]
Logout == [type |-> "LOGOUT_REQ"]
List == [type |-> "USER_LIST_REQ"]
Group == [type |-> "CHAT_MSG", scope |-> "GROUP", to |-> Empty]
ToB == [type |-> "CHAT_MSG", scope |-> "PRIVATE", to |-> b]
Bogus == [type |-> "BOGUS"]

\* What the client of the k-th accepted connection may write.
MCMsgsOf(k) ==
  CASE k = 1 -> {Login(a, n1), Logout, List, Group, Bogus}
    [] k = 2 -> {Login(b, n1), Login(b, n2), Logout, ToB}
    [] k = 3 -> {Login(c, n3), Login(a, n2), List}
    [] OTHER -> {Login(a, n1), List}

MCClientMsgs == UNION {MCMsgsOf(k) : k \in 1 .. 4}
=============================================================================
