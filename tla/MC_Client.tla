------------------------------ MODULE MC_Client ------------------------------
(***************************************************************************)
(* The client, in two independent parts of one model.  In the part         *)
(* "transfer", one file offer between two clients through the server's    *)
(* relay (FileTransfer).  In the part "app", the client application of one *)
(* user against the server's entries for that user's connections, in       *)
(* seconds (ClientApp).  A state belongs to one part; the variables of the *)
(* other part keep their initial values, and each part's fairness applies  *)
(* only within it.                                                         *)
(***************************************************************************)
EXTENDS FileTransfer

CONSTANTS Slots, Interval, HbPeriod, Timeout, Bandwidth, FileChunks,
          MaxUploads, MayRefuse, MaxFailures

VARIABLES part, sock, cur, timerOn, timerLeft, btn, loginShown, chat, inbox,
          slot, hbLeft, budget, uploads, failures

App == INSTANCE ClientApp

appVars == <<sock, cur, timerOn, timerLeft, btn, loginShown, chat, inbox, slot,
             hbLeft, budget, uploads, failures>>
allVars == <<part, vars, appVars>>

ClientInit == part \in {"transfer", "app"} /\ Init /\ App!Init

TransferStep(A) == part = "transfer" /\ A /\ UNCHANGED <<part, appVars>>
AppStep(A) == part = "app" /\ A /\ UNCHANGED <<part, vars>>

ClientNext == TransferStep(Next) \/ AppStep(App!Next)

ClientFairness ==
  /\ \A c \in Clients : /\ WF_allVars(TransferStep(Relay(c)))
                        /\ WF_allVars(TransferStep(Handle(c)))
  /\ SF_allVars(AppStep(App!Tick))
  /\ WF_allVars(AppStep(App!HbWake)) /\ WF_allVars(AppStep(App!TimerFire))
  /\ WF_allVars(AppStep(App!Accept)) /\ WF_allVars(AppStep(App!ClientRecv))
  /\ WF_allVars(AppStep(App!ClosingDone))
  /\ \A s \in Slots : WF_allVars(AppStep(App!SrvRecv(s)))
  /\ WF_allVars(AppStep(App!ClickConnect))

ClientSpec == ClientInit /\ [][ClientNext]_allVars /\ ClientFairness

-----------------------------------------------------------------------------
(* App: the types of the client application's and the server's variables. *)
AppTypeOK == App!TypeOK

(* App: the server never reaps the entry of a client whose heartbeat timer *)
(* runs (onHeartbeatTimeout every 5 s against checkTimeout's 10 s).        *)
KeptAliveNotReaped == App!KeptAliveNotReaped

(* App: after Connect is clicked, btn_connect is enabled again or the      *)
(* ChatWindow is shown, on every path of connect, login and disconnect.    *)
ConnectAttemptResolves == App!ConnectAttemptResolves

(* App: a user who keeps clicking Connect is logged in, even while a dead  *)
(* earlier connection still holds the clientId online.                     *)
RetryLogsIn == (part = "app" /\ loginShown) ~> chat = "Shown"
=============================================================================
