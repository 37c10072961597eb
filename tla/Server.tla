------------------------------- MODULE Server -------------------------------
(***************************************************************************)
(* The IM relay server of src/server/src/server.cpp: the reactor thread   *)
(* (Server::run, ListenHandler, ClientHandler read path, the router        *)
(* Server::handleMessage and its handlers, the deferred-disconnect queue), *)
(* the roster (ClientManager), the file-session table and the heartbeat    *)
(* thread (Server::heartbeatLoop), with the connected clients as the       *)
(* environment.                                                            *)
(*                                                                         *)
(* Bytes are abstracted to whole messages: the framer (protocol.cpp        *)
(* parseData) is modelled on its own in module Framer, so a socket's       *)
(* receive side is the sequence of messages the client has written.  The  *)
(* outbound buffer is abstracted: a send to a connection either reaches it *)
(* or, when its peer has closed, may fail (ClientHandler::queueSend).      *)
(*                                                                         *)
(* Connections are named by descriptor numbers, as in the code, and the    *)
(* kernel hands out the lowest free descriptor on accept.  The ghost       *)
(* variable conn records which accepted connection a descriptor currently  *)
(* stands for, so that properties can tell a connection from a later one   *)
(* that reuses its descriptor.                                             *)
(***************************************************************************)
EXTENDS Integers, Sequences, FiniteSets, SequencesExt

CONSTANTS
  Fds,         \* descriptor numbers the kernel can give accepted sockets
  MaxConns,    \* bound: connections accepted over a behaviour
  ClientIds,   \* client identifiers clients may claim
  Nicks,       \* nicknames clients may claim
  FileIds,     \* file identifiers used in offers
  Empty,       \* the empty string
  ClientMsgs,  \* the messages a client may write to its socket
  MsgsOf(_),   \* those the client of the k-th accepted connection writes
  MaxSends,    \* bound: messages written by all clients together
  MaxOnline,   \* kMaxOnlineClients
  MayGoSilent, \* whether clients may miss heartbeats (TRUE or FALSE)
  MayStop,     \* whether the stop signal may arrive (TRUE or FALSE)
  MayClose,    \* whether clients may close their sockets (TRUE or FALSE)
  None         \* no connection / no session / nothing received

ASSUME Fds \subseteq Nat /\ Fds # {}
ASSUME MaxConns \in Nat /\ MaxSends \in Nat /\ MaxOnline \in Nat \ {0}
ASSUME Empty \notin ClientIds \cup Nicks \cup FileIds

ConnIds == 1 .. MaxConns

\* Result codes of message.h.
LoginResults == {"SUCCESS", "INVALID_PARAM", "SERVER_FULL", "ALREADY_ONLINE", "NICKNAME_TAKEN"}
OfferResults == {"ACCEPT", "DECLINE", "BUSY"}

\* The fd field of FileSession for "no receiver" (server.h: receiverFd = -1).
NoFd == -1

VARIABLES
  conn,        \* ghost: fd -> accepted connection it stands for, or None
  nextConn,    \* ghost: number of connections accepted so far
  closing,     \* ClientHandler::closing_
  roster,      \* ClientManager::clients_ (ClientInfo per fd)
  inbox,       \* messages the client wrote and the server has not read
  peerClosed,  \* the client has closed its end of the socket
  pending,     \* Server::pendingDisconnects_ (drained sorted and deduplicated)
  batch,       \* the local copy drained by processPendingDisconnects
  rpc,         \* the reactor thread's place in Server::run
  reading,     \* fd whose ClientHandler::handleRead loop is running, or None
  files,       \* Server::fileSessions_
  hpc,         \* the heartbeat thread's place in Server::heartbeatLoop
  htodo,       \* the fds checkTimeout returned, still to be queued
  running,     \* Server::running_
  sends,       \* bound counter: messages written by clients
  requested,   \* ghost: connections some code asked to disconnect
  killed,      \* ghost: connections torn down by processPendingDisconnects
  offers,      \* ghost: <<fileId, from, to>> offers the server forwarded
  accepted,    \* ghost: <<fileId, from, to>> acceptances the server forwarded
  relayed,     \* ghost: <<fileId, from, to>> file frames the server relayed
  lastList     \* ghost: fd -> last user list the server sent on it

vars == <<conn, nextConn, closing, roster, inbox, peerClosed, pending, batch,
          rpc, reading, files, hpc, htodo, running, sends, requested, killed,
          offers, accepted, relayed, lastList>>

ghosts == <<requested, killed, offers, accepted, relayed, lastList>>

\* A ClientInfo as addClient creates it: anonymous, heartbeat just now.
NewClient == [online |-> FALSE, cid |-> Empty, nick |-> Empty, stale |-> FALSE]

Open   == {f \in Fds : conn[f] # None}
Online == {f \in Open : roster[f].online}

\* getOnlineClients as the user list carries it (UserInfo per online client).
UserView(r, online) == {<<r[f].cid, r[f].nick>> : f \in online}

\* getFdByClientId: the online fd with that clientId, or NoFd.
FdByClientId(id) ==
  IF \E f \in Online : roster[f].cid = id
  THEN CHOOSE f \in Online : roster[f].cid = id
  ELSE NoFd

-----------------------------------------------------------------------------
(***************************************************************************)
(* Sending (Server::sendResponse over ClientHandler::queueSend).  A send   *)
(* to an fd with no handler does nothing; to a closing handler it fails   *)
(* and queues the fd for disconnect again; to a socket whose peer closed  *)
(* it may fail, which requestClose turns into closing plus a queued       *)
(* disconnect.  A handler's sends are one step; F is the set of targets   *)
(* whose send fails on a closed peer.                                      *)
(***************************************************************************)
MayFail(T)  == {t \in T \cap Open : ~closing[t] /\ peerClosed[t]}
Refused(T)  == {t \in T \cap Open : closing[t]}
Reached(T, F) == (T \cap Open) \ (Refused(T) \cup F)

\* A failed send that is not turned into requestClose.
SendEffectNoClose(T, F, baseClosing) ==
  /\ closing'   = baseClosing
  /\ pending'   = pending \cup Refused(T)
  /\ requested' = requested

SendEffect(T, F, baseClosing) ==
  /\ closing'   = [f \in Fds |-> baseClosing[f] \/ f \in F]
  /\ pending'   = pending \cup Refused(T) \cup F
  /\ requested' = requested \cup {conn[t] : t \in F}

\* ClientHandler::requestClose: the first call marks closing and queues.
RequestClose(f) ==
  IF closing[f]
  THEN UNCHANGED <<closing, pending, requested>>
  ELSE /\ closing'   = [closing EXCEPT ![f] = TRUE]
       /\ pending'   = pending \cup {f}
       /\ requested' = requested \cup {conn[f]}

-----------------------------------------------------------------------------
(***************************************************************************)
(* Teardown (Server::handleClientDisconnect) and the drain of the         *)
(* disconnect queue (Server::processPendingDisconnects).                   *)
(***************************************************************************)

\* cleanupFileSessionsForFd: erase every session with fd at either end.
SessionsAfterCleanupKeepAll(fd) == files
SessionsAfterCleanup(fd) ==
  [id \in FileIds |->
     IF files[id] # None /\ fd \in {files[id].sender, files[id].receiver}
     THEN None ELSE files[id]]

\* broadcastUserList: the list of the online clients r2/online2 reaches the
\* online clients whose send succeeds (F: those whose send fails).
BroadcastUserList(r2, online2, F) ==
  [g \in Fds |-> IF g \in Reached(online2, F) THEN UserView(r2, online2)
                ELSE lastList[g]]

\* if (running_) broadcastUserList(): whether teardown notifies the others.
TeardownNotifiesNever == FALSE
TeardownNotifies == running

\* clientMgr_->removeClient: the fd's entry leaves the roster.
RosterAfterRemoveKept(fd) == roster
RosterAfterRemove(fd) == [roster EXCEPT ![fd] = NewClient]

Teardown(fd) ==
  LET r2      == RosterAfterRemove(fd)
      online2 == {f \in Online : f # fd}
      T       == IF TeardownNotifies THEN online2 ELSE {}
  IN
  /\ conn'       = [conn EXCEPT ![fd] = None]
  /\ roster'     = r2
  /\ inbox'      = [inbox EXCEPT ![fd] = <<>>]
  /\ peerClosed' = [peerClosed EXCEPT ![fd] = FALSE]
  /\ files'      = SessionsAfterCleanup(fd)
  /\ killed'     = IF conn[fd] # None THEN killed \cup {conn[fd]} ELSE killed
  /\ \E F \in SUBSET MayFail(T) :
       /\ SendEffect(T, F, [closing EXCEPT ![fd] = FALSE])
       /\ lastList' = [BroadcastUserList(r2, T, F) EXCEPT ![fd] = None]

\* The swapped-out queue, sorted and deduplicated.
DrainBatchOffByOne(S) == SubSeq(SetToSortSeq(S, <), 1, Cardinality(S) - 1)
DrainBatch(S) == SetToSortSeq(S, <)

DrainPhases == {"Top", "Bottom"}
TearPhase == [p \in DrainPhases |-> p \o "Tear"]
AfterDrain(p) ==
  CASE p = "TopTear"    -> "Poll"
    [] p = "BottomTear" -> IF running THEN "Top" ELSE "Exit"

\* Swap the queue out under pendingMutex_ (an empty queue returns at once).
DrainSwap ==
  /\ rpc \in DrainPhases
  /\ IF pending = {}
     THEN /\ rpc' = AfterDrain(TearPhase[rpc])
          /\ UNCHANGED batch
     ELSE /\ batch' = DrainBatch(pending)
          /\ rpc' = TearPhase[rpc]
  /\ pending' = {}
  /\ UNCHANGED <<conn, nextConn, closing, roster, inbox, peerClosed, reading,
                 files, hpc, htodo, running, sends, requested, killed, offers,
                 accepted, relayed, lastList>>

DrainOne ==
  /\ rpc \in {"TopTear", "BottomTear"}
  /\ batch # <<>>
  /\ Teardown(Head(batch))
  /\ batch' = Tail(batch)
  /\ UNCHANGED <<nextConn, rpc, reading, hpc, htodo, running, sends, offers,
                 accepted, relayed>>

DrainDone ==
  /\ rpc \in {"TopTear", "BottomTear"}
  /\ batch = <<>>
  /\ rpc' = AfterDrain(rpc)
  /\ UNCHANGED <<conn, nextConn, closing, roster, inbox, peerClosed, pending,
                 batch, reading, files, hpc, htodo, running, sends, ghosts>>

-----------------------------------------------------------------------------
(***************************************************************************)
(* The router, Server::handleMessage: one action per message type, each    *)
(* the whole handler including its replies and broadcasts.                 *)
(***************************************************************************)

\* isClientIdOnline / isNicknameOnline, excluding the caller's own fd.
IdTaken(f, id) == \E g \in Online \ {f} : roster[g].cid = id
NickTaken(f, nick) == \E g \in Online \ {f} : roster[g].nick = nick

\* getOnlineCount: the entries marked online.
GetOnlineCount == Cardinality(Online)

\* setClientIdentity: bind clientId and nickname and mark the entry online.
SetClientIdentity(fd, id, nick) ==
  [roster EXCEPT ![fd].online = TRUE, ![fd].cid = id, ![fd].nick = nick]

\* The capacity check of the login: getOnlineCount() >= kMaxOnlineClients.
ServerFullOffByOne == GetOnlineCount > MaxOnline
ServerFull == GetOnlineCount >= MaxOnline

\* The checks of the MSG_LOGIN_REQ case, in the code's order.
LoginResult(f, m) ==
  CASE m.cid = Empty \/ m.nick = Empty      -> "INVALID_PARAM"
    [] IdTaken(f, m.cid)                    -> "ALREADY_ONLINE"
    [] NickTaken(f, m.nick)                 -> "NICKNAME_TAKEN"
    [] ServerFull                           -> "SERVER_FULL"
    [] OTHER                                -> "SUCCESS"

RouterState == <<roster, files, offers, accepted, relayed, lastList>>

OnHeartbeat(f, m) ==
  /\ m.type = "HEARTBEAT_REQ"
  /\ roster' = [roster EXCEPT ![f].stale = FALSE]
  /\ \E F \in SUBSET MayFail({f}) : SendEffect({f}, F, closing)
  /\ UNCHANGED <<files, offers, accepted, relayed, lastList>>

\* Reply to the caller; on success bind the identity and broadcast the list.
OnLogin(f, m) ==
  LET ok      == LoginResult(f, m) = "SUCCESS"
      r2      == IF ok THEN SetClientIdentity(f, m.cid, m.nick) ELSE roster
      online2 == IF ok THEN Online \cup {f} ELSE Online
      T       == IF ok THEN online2 ELSE {f}
  IN
  /\ m.type = "LOGIN_REQ"
  /\ roster' = r2
  /\ \E F \in SUBSET MayFail(T) :
       /\ SendEffect(T, F, closing)
       /\ lastList' = IF ok THEN BroadcastUserList(r2, online2, F) ELSE lastList
  /\ UNCHANGED <<files, offers, accepted, relayed>>

\* queueDisconnect only: the handler is not marked closing.
OnLogout(f, m) ==
  /\ m.type = "LOGOUT_REQ"
  /\ pending'   = pending \cup {f}
  /\ requested' = requested \cup {conn[f]}
  /\ UNCHANGED <<closing, roster, files, offers, accepted, relayed, lastList>>

\* handleChatMessage: group to every other online client, private to toId.
ChatTargets(f, m) ==
  IF f \notin Online THEN {}
  ELSE IF m.scope = "GROUP" THEN Online \ {f}
  ELSE IF m.to = Empty \/ FdByClientId(m.to) = NoFd THEN {}
  ELSE {FdByClientId(m.to)}

OnChat(f, m) ==
  /\ m.type = "CHAT_MSG"
  /\ \E F \in SUBSET MayFail(ChatTargets(f, m)) :
       SendEffect(ChatTargets(f, m), F, closing)
  /\ UNCHANGED RouterState

\* handleUserListRequest / sendUserList: the snapshot, to online callers.
OnUserListReq(f, m) ==
  LET T == IF f \in Online THEN {f} ELSE {}
  IN
  /\ m.type = "USER_LIST_REQ"
  /\ \E F \in SUBSET MayFail(T) :
       /\ SendEffect(T, F, closing)
       /\ lastList' = [g \in Fds |-> IF g \in Reached(T, F)
                                     THEN UserView(roster, Online)
                                     ELSE lastList[g]]
  /\ UNCHANGED <<roster, files, offers, accepted, relayed>>

\* handleFileOffer: forward to the online target and install the session
\* {sender, target}; otherwise answer DECLINE or BUSY to the sender.
OnFileOffer(f, m) ==
  LET target == FdByClientId(m.to)
      ok     == f \in Online /\ m.fid # Empty /\ m.to # Empty /\ target # NoFd
      T      == IF f \notin Online THEN {} ELSE IF ok THEN {target} ELSE {f}
  IN
  /\ m.type = "FILE_OFFER"
  /\ \E F \in SUBSET MayFail(T) : SendEffect(T, F, closing)
  /\ files'  = IF ok THEN [files EXCEPT ![m.fid] = [sender |-> f, receiver |-> target]]
                     ELSE files
  /\ offers' = IF ok THEN offers \cup {<<m.fid, conn[f], conn[target]>>} ELSE offers
  /\ UNCHANGED <<roster, accepted, relayed, lastList>>

\* handleFileOfferResponse: only the bound receiver (or anyone while none is
\* bound) may answer; ACCEPT binds, anything else erases; forward to sender.
OnFileOfferRsp(f, m) ==
  LET s     == files[m.fid]
      valid == m.fid # Empty /\ files[m.fid] # None
               /\ (s.receiver = NoFd \/ s.receiver = f)
      recv2 == IF s.receiver = NoFd /\ m.result = "ACCEPT" THEN f ELSE s.receiver
      erase == m.result # "ACCEPT" /\ (recv2 = NoFd \/ recv2 = f)
      T     == IF valid THEN {s.sender} ELSE {}
  IN
  /\ m.type = "FILE_OFFER_RSP"
  /\ files' = IF ~valid THEN files
              ELSE IF erase THEN [files EXCEPT ![m.fid] = None]
              ELSE [files EXCEPT ![m.fid].receiver = recv2]
  /\ accepted' = IF valid /\ m.result = "ACCEPT"
                 THEN accepted \cup {<<m.fid, conn[s.sender], conn[f]>>}
                 ELSE accepted
  /\ \E F \in SUBSET MayFail(T) : SendEffect(T, F, closing)
  /\ UNCHANGED <<roster, offers, relayed, lastList>>

\* handleFileData: relay FILE_DATA / FILE_DATA_ACK to the session's other end.
DataTarget(f, m) ==
  IF m.fid = Empty \/ files[m.fid] = None THEN NoFd
  ELSE IF f = files[m.fid].sender THEN files[m.fid].receiver
  ELSE IF f = files[m.fid].receiver THEN files[m.fid].sender
  ELSE NoFd

OnFileData(f, m) ==
  LET T == IF DataTarget(f, m) = NoFd THEN {} ELSE {DataTarget(f, m)}
  IN
  /\ m.type \in {"FILE_DATA", "FILE_DATA_ACK"}
  /\ \E F \in SUBSET MayFail(T) :
       /\ SendEffect(T, F, closing)
       /\ relayed' = relayed \cup {<<m.fid, conn[f], conn[t]>> : t \in Reached(T, F)}
  /\ UNCHANGED <<roster, files, offers, accepted, lastList>>

OnUnknown(f, m) ==
  /\ m.type \notin {"HEARTBEAT_REQ", "LOGIN_REQ", "LOGOUT_REQ", "CHAT_MSG",
                    "USER_LIST_REQ", "FILE_OFFER", "FILE_OFFER_RSP",
                    "FILE_DATA", "FILE_DATA_ACK"}
  /\ UNCHANGED <<closing, pending, requested, roster, files, offers, accepted,
                 relayed, lastList>>

HandleMessage(f, m) ==
  \/ OnHeartbeat(f, m)
  \/ OnLogin(f, m)
  \/ OnLogout(f, m)
  \/ OnChat(f, m)
  \/ OnUserListReq(f, m)
  \/ OnFileOffer(f, m)
  \/ OnFileOfferRsp(f, m)
  \/ OnFileData(f, m)
  \/ OnUnknown(f, m)

-----------------------------------------------------------------------------
(***************************************************************************)
(* The poll phase: ListenHandler::handleRead and the ClientHandler        *)
(* callbacks the reactor dispatches (Reactor::poll).  Error/HUP events go  *)
(* to handleError and skip the read; handleRead loops recv until EAGAIN    *)
(* (or 0, peer closed) and hands every complete message to the router,    *)
(* without looking at closing_ again inside the loop.                      *)
(***************************************************************************)
PollStep == rpc = "Poll" /\ reading = None

\* accept + registerClient: the new socket gets the lowest free descriptor.
Accept ==
  /\ PollStep
  /\ nextConn < MaxConns
  /\ Open # Fds
  /\ LET f == Min(Fds \ Open)
     IN /\ conn'   = [conn EXCEPT ![f] = nextConn + 1]
        /\ roster' = [roster EXCEPT ![f] = NewClient]
  /\ nextConn' = nextConn + 1
  /\ UNCHANGED <<closing, inbox, peerClosed, pending, batch, rpc, reading, files,
                 hpc, htodo, running, sends, ghosts>>

HandleError(f) ==
  /\ PollStep
  /\ f \in Open
  /\ peerClosed[f]
  /\ ~closing[f]
  /\ RequestClose(f)
  /\ UNCHANGED <<conn, nextConn, roster, inbox, peerClosed, batch, rpc, reading,
                 files, hpc, htodo, running, sends, killed, offers, accepted,
                 relayed, lastList>>

ReadStart(f) ==
  /\ PollStep
  /\ f \in Open
  /\ ~closing[f]
  /\ inbox[f] # <<>>
  /\ reading' = f
  /\ UNCHANGED <<conn, nextConn, closing, roster, inbox, peerClosed, pending,
                 batch, rpc, files, hpc, htodo, running, sends, ghosts>>

\* One message of the recv loop through parseData to handleMessage.
Dispatch(f) ==
  /\ reading = f
  /\ inbox[f] # <<>>
  /\ inbox' = [inbox EXCEPT ![f] = Tail(@)]
  /\ HandleMessage(f, Head(inbox[f]))
  /\ UNCHANGED <<conn, nextConn, peerClosed, batch, rpc, reading, hpc, htodo,
                 running, sends, killed>>

\* recv reports EAGAIN, or 0 when the peer has closed.
ReadEnd ==
  /\ reading # None
  /\ inbox[reading] = <<>>
  /\ IF peerClosed[reading] THEN RequestClose(reading)
     ELSE UNCHANGED <<closing, pending, requested>>
  /\ reading' = None
  /\ UNCHANGED <<conn, nextConn, roster, inbox, peerClosed, batch, rpc, files,
                 hpc, htodo, running, sends, killed, offers, accepted, relayed,
                 lastList>>

EndPoll ==
  /\ PollStep
  /\ rpc' = "Bottom"
  /\ UNCHANGED <<conn, nextConn, closing, roster, inbox, peerClosed, pending,
                 batch, reading, files, hpc, htodo, running, sends, ghosts>>

-----------------------------------------------------------------------------
(***************************************************************************)
(* The heartbeat thread (Server::heartbeatLoop over                        *)
(* ClientManager::checkTimeout).  An entry is stale once its last          *)
(* heartbeat is more than kHeartbeatTimeoutSec old; the thread takes the   *)
(* stale fds under the roster lock and queues them one by one later.       *)
(* htodo keeps, beside each fd, the connection it named when it was read.  *)
(* A wake that finds nothing stale is a step that changes no state.       *)
(***************************************************************************)
TimedOutOnlineOnly == {f \in Online : roster[f].stale}
TimedOut == {f \in Open : roster[f].stale}

HbCheck ==
  /\ hpc = "Sleep"
  /\ CASE ~running        -> hpc' = "Done" /\ UNCHANGED htodo
       [] TimedOut = {}    -> UNCHANGED <<hpc, htodo>>
       [] OTHER            ->
            /\ htodo' = SetToSortSeq({[fd |-> f, conn |-> conn[f]] : f \in TimedOut},
                                     LAMBDA x, y : x.fd < y.fd)
            /\ hpc' = "Queue"
  /\ UNCHANGED <<conn, nextConn, closing, roster, inbox, peerClosed, pending,
                 batch, rpc, reading, files, running, sends, ghosts>>

HbQueue ==
  /\ hpc = "Queue"
  /\ htodo # <<>>
  /\ pending'   = pending \cup {Head(htodo).fd}
  /\ requested' = requested \cup {Head(htodo).conn}
  /\ htodo'     = Tail(htodo)
  /\ UNCHANGED <<conn, nextConn, closing, roster, inbox, peerClosed, batch, rpc,
                 reading, files, hpc, running, sends, killed, offers, accepted,
                 relayed, lastList>>

HbDone ==
  /\ hpc = "Queue"
  /\ htodo = <<>>
  /\ hpc' = "Sleep"
  /\ UNCHANGED <<conn, nextConn, closing, roster, inbox, peerClosed, pending,
                 batch, rpc, reading, files, htodo, running, sends, ghosts>>

-----------------------------------------------------------------------------
(***************************************************************************)
(* Shutdown: the signal handler's Server::stop, and the end of run():      *)
(* join the heartbeat thread, then cleanupAllClients tears every client    *)
(* down with running_ false (no broadcast).                                *)
(***************************************************************************)
Stop ==
  /\ MayStop
  /\ running
  /\ running' = FALSE
  /\ UNCHANGED <<conn, nextConn, closing, roster, inbox, peerClosed, pending,
                 batch, rpc, reading, files, hpc, htodo, sends, ghosts>>

CleanupAll ==
  /\ rpc = "Exit"
  /\ hpc = "Done"
  /\ conn'       = [f \in Fds |-> None]
  /\ roster'     = [f \in Fds |-> NewClient]
  /\ closing'    = [f \in Fds |-> FALSE]
  /\ inbox'      = [f \in Fds |-> <<>>]
  /\ peerClosed' = [f \in Fds |-> FALSE]
  /\ files'      = [id \in FileIds |->
                      IF files[id] # None
                         /\ {files[id].sender, files[id].receiver} \cap Open # {}
                      THEN None ELSE files[id]]
  /\ lastList'   = [f \in Fds |-> None]
  /\ rpc'        = "Done"
  /\ UNCHANGED <<nextConn, pending, batch, reading, hpc, htodo, running, sends,
                 requested, killed, offers, accepted, relayed>>

\* The process has exited.
Terminated ==
  /\ rpc = "Done"
  /\ UNCHANGED vars

-----------------------------------------------------------------------------
(***************************************************************************)
(* The clients: write a message, close the socket, or fall silent for     *)
(* longer than the heartbeat timeout.                                      *)
(***************************************************************************)
ClientWrite(f, m) ==
  /\ f \in Open
  /\ ~peerClosed[f]
  /\ sends < MaxSends
  /\ inbox' = [inbox EXCEPT ![f] = Append(@, m)]
  /\ sends' = sends + 1
  /\ UNCHANGED <<conn, nextConn, closing, roster, peerClosed, pending, batch,
                 rpc, reading, files, hpc, htodo, running, ghosts>>

ClientClose(f) ==
  /\ MayClose
  /\ f \in Open
  /\ ~peerClosed[f]
  /\ peerClosed' = [peerClosed EXCEPT ![f] = TRUE]
  /\ UNCHANGED <<conn, nextConn, closing, roster, inbox, pending, batch, rpc,
                 reading, files, hpc, htodo, running, sends, ghosts>>

Silence(f) ==
  /\ MayGoSilent
  /\ f \in Open
  /\ ~roster[f].stale
  /\ roster' = [roster EXCEPT ![f].stale = TRUE]
  /\ UNCHANGED <<conn, nextConn, closing, inbox, peerClosed, pending, batch, rpc,
                 reading, files, hpc, htodo, running, sends, ghosts>>

-----------------------------------------------------------------------------
Init ==
  /\ conn       = [f \in Fds |-> None]
  /\ nextConn   = 0
  /\ closing    = [f \in Fds |-> FALSE]
  /\ roster     = [f \in Fds |-> NewClient]
  /\ inbox      = [f \in Fds |-> <<>>]
  /\ peerClosed = [f \in Fds |-> FALSE]
  /\ pending    = {}
  /\ batch      = <<>>
  /\ rpc        = "Top"
  /\ reading    = None
  /\ files      = [id \in FileIds |-> None]
  /\ hpc        = "Sleep"
  /\ htodo      = <<>>
  /\ running    = TRUE
  /\ sends      = 0
  /\ requested  = {}
  /\ killed     = {}
  /\ offers     = {}
  /\ accepted   = {}
  /\ relayed    = {}
  /\ lastList   = [f \in Fds |-> None]

Reactor ==
  \/ DrainSwap \/ DrainOne \/ DrainDone
  \/ Accept \/ EndPoll \/ ReadEnd
  \/ \E f \in Fds : HandleError(f) \/ ReadStart(f) \/ Dispatch(f)
  \/ CleanupAll

Heartbeat == HbCheck \/ HbQueue \/ HbDone

Clients ==
  \E f \in Fds :
    \/ \E m \in MsgsOf(conn[f]) : ClientWrite(f, m)
    \/ ClientClose(f)
    \/ Silence(f)

Next == Reactor \/ Heartbeat \/ Clients \/ Stop \/ Terminated

(***************************************************************************)
(* The reactor thread never blocks for long (epoll_wait times out after   *)
(* 1 s) and the heartbeat thread wakes every 5 s, so each keeps taking     *)
(* its steps; readiness events, the clients and the stop signal come from *)
(* outside and get no fairness.                                            *)
(***************************************************************************)
Fairness ==
  /\ WF_vars(DrainSwap) /\ WF_vars(DrainOne) /\ WF_vars(DrainDone)
  /\ WF_vars(EndPoll) /\ WF_vars(ReadEnd) /\ WF_vars(CleanupAll)
  /\ \A f \in Fds : WF_vars(Dispatch(f))
  /\ WF_vars(HbCheck) /\ WF_vars(HbQueue) /\ WF_vars(HbDone)

Spec == Init /\ [][Next]_vars /\ Fairness

-----------------------------------------------------------------------------
(***************************************************************************)
(* Properties.                                                             *)
(***************************************************************************)
Session == [online : BOOLEAN, cid : ClientIds \cup {Empty},
            nick : Nicks \cup {Empty}, stale : BOOLEAN]
FileSession == [sender : Fds, receiver : Fds \cup {NoFd}]

(* The types of the variables; ClientManager holds an entry only for the   *)
(* descriptors that have a ClientHandler, as addClient and removeClient    *)
(* are called beside registerClient and handleClientDisconnect.            *)
TypeOK ==
  /\ conn \in [Fds -> ConnIds \cup {None}]
  /\ closing \in [Fds -> BOOLEAN]
  /\ roster \in [Fds -> Session]
  /\ inbox \in [Fds -> Seq(ClientMsgs)]
  /\ peerClosed \in [Fds -> BOOLEAN]
  /\ pending \subseteq Fds
  /\ rpc \in {"Top", "TopTear", "Poll", "Bottom", "BottomTear", "Exit", "Done"}
  /\ reading \in Fds \cup {None}
  /\ files \in [FileIds -> FileSession \cup {None}]
  /\ hpc \in {"Sleep", "Queue", "Done"}
  /\ running \in BOOLEAN
  /\ requested \cup killed \subseteq ConnIds
  /\ \A f \in Fds \ Open : roster[f] = NewClient

(* The roster invariants of the spec (section 3): the online sessions have *)
(* pairwise distinct client ids and nicknames, and there are at most       *)
(* kMaxOnlineClients of them.  The login handler checks these with three   *)
(* separate roster calls before setClientIdentity, each excluding the      *)
(* caller's own fd so that an online client can log in again.              *)
RosterInvariants ==
  /\ \A f, g \in Online :
       f # g => roster[f].cid # roster[g].cid /\ roster[f].nick # roster[g].nick
  /\ Cardinality(Online) <= MaxOnline

(* Every online client that is not being closed was last sent the user    *)
(* list that matches the roster: each login broadcasts the new list, and   *)
(* each teardown (handleClientDisconnect) broadcasts it to those left,     *)
(* while the server runs.                                                  *)
UserListsConverge ==
  running =>
    \A f \in Online : ~closing[f] => lastList[f] = UserView(roster, Online)

(* FILE_DATA / FILE_DATA_ACK frames are relayed only between the two      *)
(* connections of an offer of that file id, never to a later connection    *)
(* that reuses the descriptor of one of them: sessions are keyed by fd and *)
(* teardown must erase them (cleanupFileSessionsForFd).                    *)
FileRelayParties ==
  \A r \in relayed :
    \E o \in offers : o[1] = r[1] /\ {o[2], o[3]} = {r[2], r[3]}

(* The spec (sections 3 and 4.6): an offer installs {sender, UNASSIGNED}  *)
(* and the receiver is bound only when it accepts, so file frames are      *)
(* relayed only on a transfer the receiver accepted.                       *)
RelayOnlyAfterAccept ==
  \A r \in relayed :
    <<r[1], r[2], r[3]>> \in accepted \/ <<r[1], r[3], r[2]>> \in accepted

(* The spec (sections 1 and 9): a FileSession authorizes file frames      *)
(* between two specific connections.  While both parties of a transfer the *)
(* receiver accepted are connected, its session still names one of them as *)
(* sender: a FILE_OFFER of a third client with the same fileId must not    *)
(* take the session over and have the parties' frames relayed to itself.  *)
TransferNotRedirected ==
  \A t \in accepted :
    /\ files[t[1]] # None
    /\ {t[2], t[3]} \subseteq {conn[f] : f \in Open}
    => conn[files[t[1]].sender] \in {t[2], t[3]}

(* processPendingDisconnects tears down only connections that some code    *)
(* asked to disconnect (requestClose, logout, a failed send, a heartbeat   *)
(* timeout), never another connection that now holds the same descriptor. *)
TeardownOnlyRequested == killed \subseteq requested

(* The spec (section 8): a connection queued for disconnect receives no    *)
(* further router dispatch, even if more bytes arrive before the drain.    *)
NoDispatchAfterDisconnectRequest ==
  [][\A f \in Fds :
       (conn'[f] = conn[f] /\ conn[f] # None /\ Len(inbox'[f]) < Len(inbox[f]))
         => conn[f] \notin requested]_vars

(* A disconnect asked for (by any path) is carried out: the reactor drains *)
(* the queue at the top and bottom of every loop iteration.                *)
DisconnectRequestHonoured ==
  \A c \in ConnIds :
    c \in requested ~> \A f \in Fds : conn[f] # c

(* A connection that has sent no heartbeat for longer than the timeout is  *)
(* eventually disconnected, unless it sends one first: the heartbeat       *)
(* thread finds it with checkTimeout and queues it, and the reactor drains *)
(* the queue.                                                              *)
StaleConnectionReaped ==
  \A f \in Fds, c \in ConnIds :
    (conn[f] = c /\ roster[f].stale) ~> (conn[f] # c \/ ~roster[f].stale)

=============================================================================
