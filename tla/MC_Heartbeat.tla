--------------------------- MODULE MC_Heartbeat ---------------------------
(***************************************************************************)
(* Heartbeats, timeouts, logout, peer close and shutdown with the          *)
(* heartbeat thread racing the reactor, on one descriptor shared by two connections.                *)
(***************************************************************************)
EXTENDS Server

CONSTANTS a, n1

MCClientIds == {a}
MCNicks == {n1}

MCClientMsgs ==
  {[type |-> "LOGIN_REQ", cid |-> a, nick |-> n1],
   [type |-> "HEARTBEAT_REQ"],
   [type |-> "LOGOUT_REQ"]}
\* Every client may write any of them.
MCMsgsOf(k) == MCClientMsgs
=============================================================================
