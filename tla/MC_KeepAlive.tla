---------------------------- MODULE MC_KeepAlive ----------------------------
(***************************************************************************)
(* One user who uploads one file of seven chunks over a link of one chunk  *)
(* per second, with the code's 5 s timer, 5 s heartbeat thread and 10 s   *)
(* timeout, and no faults: only the upload can delay the heartbeats.       *)
(***************************************************************************)
EXTENDS ClientApp
=============================================================================
