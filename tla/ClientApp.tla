------------------------------ MODULE ClientApp ------------------------------
(***************************************************************************)
(* The client application (TcpClient, LoginWindow, ChatWindow) of one      *)
(* user against the server's view of that user's connections, in whole     *)
(* seconds.  The client's heartbeat QTimer fires every Interval seconds;   *)
(* the server's heartbeat thread wakes every HbPeriod seconds and reaps a  *)
(* connection whose last heartbeat is more than Timeout seconds old.       *)
(*                                                                         *)
(* What the client has written to a connection and the server has not yet *)
(* read is that connection's pipe, in order.  A FILE_DATA chunk takes one  *)
(* unit of the link's Bandwidth units per second; control frames are small *)
(* enough to take none, but still wait behind the chunks queued before     *)
(* them.  The chunks stand for the bytes still in Qt's write buffer, so a  *)
(* socket closed with chunks queued goes to ClosingState until they are    *)
(* gone.  A link may fail without a FIN reaching the server.               *)
(***************************************************************************)
EXTENDS Integers, Sequences, SequencesExt

CONSTANTS
  Slots,        \* the server's connection entries (fds) this user may hold
  Interval,     \* heartbeatTimer_ interval (5000 ms)
  HbPeriod,     \* kHeartbeatIntervalSec
  Timeout,      \* kHeartbeatTimeoutSec
  Bandwidth,    \* FILE_DATA chunks the link carries per second
  FileChunks,   \* the sizes, in chunks, of the files the user sends
  MaxUploads,   \* bound on the files sent in a behaviour
  MayRefuse,    \* whether a connection attempt may be refused
  MaxFailures   \* bound on refused attempts and failed links

ASSUME /\ Interval \in Nat \ {0} /\ HbPeriod \in Nat \ {0} /\ Timeout \in Nat
       /\ Bandwidth \in Nat \ {0} /\ FileChunks \subseteq Nat \ {0}

NoSlot == 0

VARIABLES
  sock,        \* socket_->state()
  cur,         \* the server entry of the client's socket, or NoSlot
  timerOn,     \* heartbeatTimer_ is active
  timerLeft,   \* seconds until it fires
  btn,         \* btn_connect is enabled
  loginShown,  \* the LoginWindow is visible
  chat,        \* chatWindow_: "None", or created and "Hidden" or "Shown"
  inbox,       \* what the server sent to the client's socket, unread
  slot,        \* the server's entry for each fd: state, heartbeat age, pipe
  hbLeft,      \* seconds until the heartbeat thread wakes
  budget,      \* chunks the link may still carry this second
  uploads,     \* files sent so far
  failures     \* refusals and link failures so far

vars == <<sock, cur, timerOn, timerLeft, btn, loginShown, chat, inbox, slot,
          hbLeft, budget, uploads, failures>>

Frames == {"LOGIN", "HB", "LOGOUT", "ULREQ", "DATA"}
Replies == {"LOGIN_OK", "LOGIN_FAIL", "USER_LIST", "FIN"}
Size(f) == IF f = "DATA" THEN 1 ELSE 0
FreeEntry == [st |-> "Free", age |-> 0, pipe |-> <<>>]

-----------------------------------------------------------------------------
(***************************************************************************)
(* TcpClient helpers.                                                      *)
(***************************************************************************)
\* sendData: written to the socket only while it is connected; once the
\* server has closed its side, what is written is lost.
Live == sock = "Connected" /\ slot[cur].st # "Free"

SendAll(fs) ==
  IF Live
  THEN [slot EXCEPT ![cur].pipe = @ \o fs]
  ELSE slot

HasChunks(p) == \E i \in 1 .. Len(p) : p[i] = "DATA"

(* disconnectFromServer: stop the timer, send LOGOUT when connected, then  *)
(* disconnectFromHost: closed at once when the write buffer is empty, else *)
(* ClosingState until it drains.  The server reads the rest up to LOGOUT  *)
(* and disconnects; the EOF that follows finds the fd gone.               *)
(* Closing at once emits disconnected (onDisconnected), which the caller's *)
(* btn_connect update covers.                                              *)
DisconnectFromServer(ib) ==
  LET sl == IF Live
            THEN [slot EXCEPT ![cur].pipe = Append(@, "LOGOUT")] ELSE slot
  IN /\ timerOn' = FALSE
     /\ IF sock \in {"Connected", "Closing"}
        THEN /\ slot' = sl
             /\ IF HasChunks(sl[cur].pipe)
                THEN sock' = "Closing" /\ cur' = cur /\ inbox' = ib
                ELSE sock' = "Unconnected" /\ cur' = NoSlot /\ inbox' = <<>>
        ELSE UNCHANGED <<slot, sock, cur, inbox>>

-----------------------------------------------------------------------------
(***************************************************************************)
(* The user and the client.                                                *)
(***************************************************************************)
\* LoginWindow::onConnectClicked and connectToServer: connectToHost is a
\* no-op (a warning) unless the socket is unconnected.
ClickConnect ==
  /\ loginShown /\ btn
  /\ btn' = FALSE
  /\ sock' = IF sock = "Unconnected" THEN "Connecting" ELSE sock
  /\ UNCHANGED <<cur, timerOn, timerLeft, loginShown, chat, inbox, slot,
                 hbLeft, budget, uploads, failures>>

\* LoginWindow::onConnected sends the login request.
LoginWindowOnConnected == <<"LOGIN">>

\* ChatWindow::onConnected, once the ChatWindow exists, requests the list.
ChatWindowOnConnected == IF chat = "None" THEN <<>> ELSE <<"ULREQ">>

(* The server accepts: ClientManager::addClient stamps the heartbeat.      *)
(* TcpClient::onConnected starts the timer; LoginWindow::onConnected sends *)
(* LOGIN, then an existing ChatWindow's onConnected requests the list.     *)
Accept ==
  /\ sock = "Connecting"
  /\ \E s \in Slots :
       /\ slot[s].st = "Free"
       /\ slot' = [slot EXCEPT ![s] =
                    [FreeEntry EXCEPT !.st = "Anon",
                       !.pipe = LoginWindowOnConnected \o ChatWindowOnConnected]]
       /\ cur' = s
  /\ sock' = "Connected"
  /\ timerOn' = TRUE /\ timerLeft' = Interval
  /\ inbox' = <<>>
  /\ UNCHANGED <<btn, loginShown, chat, hbLeft, budget, uploads, failures>>

\* Mutant: onConnectError leaves btn_connect disabled.
RefuseNoEnable ==
  /\ MayRefuse /\ failures < MaxFailures
  /\ sock = "Connecting"
  /\ sock' = "Unconnected" /\ btn' = btn
  /\ failures' = failures + 1
  /\ UNCHANGED <<cur, timerOn, timerLeft, loginShown, chat, inbox, slot,
                 hbLeft, budget, uploads>>

\* onError, then LoginWindow::onConnectError re-enables btn_connect.
Refuse ==
  /\ MayRefuse /\ failures < MaxFailures
  /\ sock = "Connecting"
  /\ sock' = "Unconnected" /\ btn' = TRUE
  /\ failures' = failures + 1
  /\ UNCHANGED <<cur, timerOn, timerLeft, loginShown, chat, inbox, slot,
                 hbLeft, budget, uploads>>

\* Mutant: the timer is re-armed with one second too many.
TimerFireLate ==
  /\ timerOn /\ timerLeft = 0
  /\ slot' = SendAll(<<"HB">>)
  /\ timerLeft' = Interval + 1
  /\ UNCHANGED <<sock, cur, timerOn, btn, loginShown, chat, inbox, hbLeft,
                 budget, uploads, failures>>

\* onHeartbeatTimeout: sendHeartbeat; the QTimer repeats.
TimerFire ==
  /\ timerOn /\ timerLeft = 0
  /\ slot' = SendAll(<<"HB">>)
  /\ timerLeft' = Interval
  /\ UNCHANGED <<sock, cur, timerOn, btn, loginShown, chat, inbox, hbLeft,
                 budget, uploads, failures>>

(* A peer accepted an offer: startFileSend reads the whole file and writes *)
(* every chunk in one loop, without returning to the event loop.  Only a   *)
(* logged-in client has a shown ChatWindow on a connected socket.          *)
StartFileSend ==
  /\ chat = "Shown" /\ sock = "Connected"
  /\ uploads < MaxUploads
  /\ \E k \in FileChunks : slot' = SendAll([i \in 1 .. k |-> "DATA"])
  /\ uploads' = uploads + 1
  /\ UNCHANGED <<sock, cur, timerOn, timerLeft, btn, loginShown, chat, inbox,
                 hbLeft, budget, failures>>

\* The socket is closed: TcpClient::onDisconnected stops the timer, and
\* LoginWindow::onDisconnected enables btn_connect.
OnDisconnected ==
  /\ sock' = "Unconnected" /\ cur' = NoSlot /\ inbox' = <<>>
  /\ timerOn' = FALSE /\ btn' = TRUE

(* LoginWindow::onLoginResponse.  A success shows the ChatWindow, creating *)
(* it (its constructor requests the user list) only the first time, and    *)
(* hides the LoginWindow; a failure disconnects and enables btn_connect.   *)
OnLoginResponse(success, ib) ==
  IF success
  THEN /\ chat' = "Shown" /\ loginShown' = FALSE
       /\ slot' = IF chat = "None" THEN SendAll(<<"ULREQ">>) ELSE slot
       /\ inbox' = ib
       /\ UNCHANGED <<sock, cur, timerOn, btn>>
  ELSE /\ DisconnectFromServer(ib)
       /\ btn' = TRUE
       /\ UNCHANGED <<loginShown, chat>>

(* onReadyRead hands one reply to processMessage: a login response goes  *)
(* to the LoginWindow, a user list only refreshes the view, and a FIN      *)
(* (RemoteHostClosedError is ignored) ends in onDisconnected.              *)
ClientRecv ==
  /\ inbox # <<>>
  /\ LET r == Head(inbox) IN
     CASE r \in {"LOGIN_OK", "LOGIN_FAIL"} ->
            OnLoginResponse(r = "LOGIN_OK", Tail(inbox))
       [] r = "FIN" ->
            OnDisconnected /\ UNCHANGED <<loginShown, chat, slot>>
       [] OTHER ->
            /\ inbox' = Tail(inbox)
            /\ UNCHANGED <<sock, cur, timerOn, btn, loginShown, chat, slot>>
  /\ UNCHANGED <<timerLeft, hbLeft, budget, uploads, failures>>

\* ChatWindow::closeEvent: disconnectFromServer, then windowClosed shows the
\* LoginWindow and enables btn_connect.
CloseChat ==
  /\ chat = "Shown"
  /\ DisconnectFromServer(inbox)
  /\ chat' = "Hidden" /\ loginShown' = TRUE /\ btn' = TRUE
  /\ UNCHANGED <<timerLeft, hbLeft, budget, uploads, failures>>

\* The write buffer has drained: the socket closes and emits disconnected.
ClosingDone ==
  /\ sock = "Closing"
  /\ ~HasChunks(slot[cur].pipe)
  /\ OnDisconnected
  /\ UNCHANGED <<timerLeft, loginShown, chat, slot, hbLeft, budget,
                 uploads, failures>>

(* The link fails: onError (NetworkError) enables btn_connect and the      *)
(* socket is closed (onDisconnected).  Nothing reaches the server: what is *)
(* in flight is lost and no FIN arrives, the entry stays until reaped.     *)
LinkFail ==
  /\ failures < MaxFailures
  /\ sock = "Connected"
  /\ slot' = [slot EXCEPT ![cur].pipe = <<>>]
  /\ OnDisconnected
  /\ failures' = failures + 1
  /\ UNCHANGED <<timerLeft, loginShown, chat, hbLeft, budget, uploads>>

-----------------------------------------------------------------------------
(***************************************************************************)
(* The server's side of the user's connections.                            *)
(***************************************************************************)
\* sendResponse to fd s reaches the client while its socket is on s.
Reply(s, rs) ==
  IF cur = s /\ sock \in {"Connected", "Closing"} THEN inbox \o rs ELSE inbox

\* Mutant: updateHeartbeat misses the entry.
TouchMissing(e) == e

\* ClientManager::updateHeartbeat: the last heartbeat is now.
Touch(e) == [e EXCEPT !.age = 0]

(* The reactor reads the next frame of fd s and Server::handleMessage runs *)
(* it: HEARTBEAT_REQ refreshes the entry (updateHeartbeat); LOGIN fails    *)
(* with ALREADY_ONLINE while another fd is online with this clientId,      *)
(* else sets the identity, replies and broadcasts the list; LOGOUT queues  *)
(* the disconnect, which the reactor carries out; USER_LIST_REQ is         *)
(* answered only when logged in; FILE_DATA is relayed.                     *)
SrvRecv(s) ==
  /\ slot[s].st # "Free" /\ slot[s].pipe # <<>>
  /\ LET f == Head(slot[s].pipe)
         e == [slot[s] EXCEPT !.pipe = Tail(@)]
         Set(x) == [slot EXCEPT ![s] = x]
     IN /\ Size(f) <= budget
        /\ budget' = budget - Size(f)
        /\ CASE f = "HB" ->
                  slot' = Set(Touch(e)) /\ UNCHANGED inbox
             [] f = "LOGIN" /\ \E t \in Slots \ {s} : slot[t].st = "Online" ->
                  slot' = Set(e) /\ inbox' = Reply(s, <<"LOGIN_FAIL">>)
             [] f = "LOGIN" ->
                  /\ slot' = Set([e EXCEPT !.st = "Online"])
                  /\ inbox' = Reply(s, <<"LOGIN_OK", "USER_LIST">>)
             [] f = "LOGOUT" ->
                  slot' = Set(FreeEntry) /\ inbox' = Reply(s, <<"FIN">>)
             [] f = "ULREQ" /\ e.st = "Online" ->
                  slot' = Set(e) /\ inbox' = Reply(s, <<"USER_LIST">>)
             [] OTHER ->
                  slot' = Set(e) /\ UNCHANGED inbox
  /\ UNCHANGED <<sock, cur, timerOn, timerLeft, btn, loginShown, chat, hbLeft,
                 uploads, failures>>

(* heartbeatLoop wakes, checkTimeout lists every entry, anonymous or       *)
(* online, whose last heartbeat is more than Timeout seconds old, and each *)
(* is disconnected (queueDisconnect, then the reactor's teardown within    *)
(* its one-second poll, taken here as one step).                           *)
\* Mutant: checkTimeout passes over logged-in entries.
StaleAnonOnly == {s \in Slots : slot[s].st = "Anon" /\ slot[s].age > Timeout}

Stale == {s \in Slots : slot[s].st # "Free" /\ slot[s].age > Timeout}

HbWake ==
  /\ hbLeft = 0
  /\ hbLeft' = HbPeriod
  /\ slot' = [s \in Slots |-> IF s \in Stale THEN FreeEntry ELSE slot[s]]
  /\ inbox' = IF cur \in Stale THEN Reply(cur, <<"FIN">>) ELSE inbox
  /\ UNCHANGED <<sock, cur, timerOn, timerLeft, btn, loginShown, chat, budget,
                 uploads, failures>>

(* One second passes.  It cannot pass over a due timer, a due wake of the  *)
(* heartbeat thread, or a frame the link could still carry this second: a *)
(* frame waits only behind chunks beyond the link's bandwidth.  The ages   *)
(* stop one past the timeout, which the check cannot tell from older.      *)
Tick ==
  /\ hbLeft > 0
  /\ timerOn => timerLeft > 0
  /\ \A s \in Slots :
       slot[s].st # "Free" /\ slot[s].pipe # <<>> => Size(Head(slot[s].pipe)) > budget
  /\ slot' = [s \in Slots |->
                IF slot[s].st = "Free" THEN slot[s]
                ELSE [slot[s] EXCEPT !.age = IF @ > Timeout THEN @ ELSE @ + 1]]
  /\ timerLeft' = IF timerOn THEN timerLeft - 1 ELSE timerLeft
  /\ hbLeft' = hbLeft - 1
  /\ budget' = Bandwidth
  /\ UNCHANGED <<sock, cur, timerOn, btn, loginShown, chat, inbox, uploads,
                 failures>>

-----------------------------------------------------------------------------
\* The application has started; the heartbeat thread's phase is arbitrary.
Init ==
  /\ sock = "Unconnected" /\ cur = NoSlot
  /\ timerOn = FALSE /\ timerLeft = Interval
  /\ btn = TRUE /\ loginShown = TRUE /\ chat = "None"
  /\ inbox = <<>>
  /\ slot = [s \in Slots |-> FreeEntry]
  /\ hbLeft \in 1 .. HbPeriod
  /\ budget = Bandwidth
  /\ uploads = 0 /\ failures = 0

Next ==
  \/ ClickConnect \/ Accept \/ Refuse \/ TimerFire \/ StartFileSend
  \/ ClientRecv \/ CloseChat \/ ClosingDone \/ LinkFail
  \/ \E s \in Slots : SrvRecv(s)
  \/ HbWake \/ Tick

(***************************************************************************)
(* Time passes (strong fairness of Tick: a behaviour in which it is        *)
(* enabled again and again takes it); the event loop, the reactor, the     *)
(* heartbeat thread and the network do their work.  The user is persistent *)
(* only in clicking Connect when it is enabled; closing the ChatWindow and *)
(* sending files are never forced, nor are faults.                         *)
(***************************************************************************)
Fairness ==
  /\ SF_vars(Tick)
  /\ WF_vars(HbWake) /\ WF_vars(TimerFire) /\ WF_vars(Accept)
  /\ WF_vars(ClientRecv) /\ WF_vars(ClosingDone)
  /\ \A s \in Slots : WF_vars(SrvRecv(s))
  /\ WF_vars(ClickConnect)

Spec == Init /\ [][Next]_vars /\ Fairness

-----------------------------------------------------------------------------
(* The types of the variables.                                             *)
TypeOK ==
  /\ sock \in {"Unconnected", "Connecting", "Connected", "Closing"}
  /\ cur \in Slots \cup {NoSlot}
  /\ timerOn \in BOOLEAN /\ timerLeft \in 0 .. Interval
  /\ btn \in BOOLEAN /\ loginShown \in BOOLEAN
  /\ chat \in {"None", "Hidden", "Shown"}
  /\ inbox \in Seq(Replies)
  /\ \A s \in Slots :
       /\ slot[s].st \in {"Free", "Anon", "Online"}
       /\ slot[s].age \in 0 .. Timeout + 1
       /\ slot[s].pipe \in Seq(Frames)
  /\ hbLeft \in 0 .. HbPeriod /\ budget \in 0 .. Bandwidth

(* A client whose heartbeat timer runs is never reaped: when the heartbeat *)
(* thread wakes, the entry of the client's connected socket is not stale.  *)
(* This is what the 5 s timer against the 10 s threshold is for; it fails *)
(* if heartbeats are not sent, not read, or wait too long in the pipe.     *)
KeptAliveNotReaped ==
  [][HbWake => ~(timerOn /\ cur \in Stale)]_vars

(* Connect never leaves the LoginWindow stuck: after a click, the button   *)
(* is enabled again or the ChatWindow is shown, whether the attempt is     *)
(* refused, the login fails, the socket was still closing, the link fails  *)
(* or the server drops the connection.                                     *)
ConnectAttemptResolves ==
  (loginShown /\ ~btn) ~> (btn \/ chat = "Shown")

(* A user who keeps clicking Connect gets logged in, even when an earlier  *)
(* connection of theirs died without a FIN and its entry still holds the   *)
(* clientId online (ALREADY_ONLINE until the heartbeat thread reaps it).   *)
RetryLogsIn ==
  loginShown ~> chat = "Shown"

=============================================================================
