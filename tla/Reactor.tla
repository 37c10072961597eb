------------------------------- MODULE Reactor -------------------------------
(***************************************************************************)
(* The server's event loop (Server::run) over the Reactor and its         *)
(* edge-triggered epoll set: the handler table keyed by fd                *)
(* (registerHandler, removeHandler, findHandler), the conversion of event  *)
(* bits, poll's dispatch of a batch (error or hang-up to handleError and   *)
(* no read, else handleRead), the ListenHandler's accept loop with         *)
(* registerClient, the ClientHandler's recv loop and handleError, and the  *)
(* teardown of queued fds in the drains before and after each poll.        *)
(*                                                                         *)
(* The kernel is modelled as far as the reactor sees it: a connection      *)
(* completed by the kernel waits in the listen backlog; accept gives it    *)
(* the lowest free descriptor or fails with EMFILE; data and the peer's    *)
(* FIN sit in the socket until read; epoll reports an fd once per change   *)
(* of its readiness (EPOLLET), and an fd added while already readable is   *)
(* reported.  close() removes an fd from the epoll set.  What a client     *)
(* sends is a count of chunks: the router is modelled in Server.           *)
(***************************************************************************)
EXTENDS Integers, FiniteSets, Sequences

CONSTANTS
  Fds,        \* descriptors the process may give to clients
  ListenFd,   \* the listening socket's descriptor
  Conns,      \* the client connections that may be attempted, in order
  MaxData     \* chunks each client writes at most

None == 0
Listener == -1

VARIABLES
  st,        \* each connection: Idle, Queued (backlog), Open, Refused, Closed
  backlog,   \* completed connections not yet accepted, oldest first
  fdOf,      \* the descriptor of each accepted connection
  handlers,  \* handlers_: fd -> the connection of its handler, or None
  epset,     \* the fds in the kernel's epoll interest list
  edge,      \* readiness changes of each fd not yet reported by epoll_wait
  rcv,       \* chunks in each connection's socket, unread
  fin,       \* the peer's FIN has arrived
  sent,      \* chunks each client has written
  closing,   \* each handler's closing_
  queued,    \* pendingDisconnects_
  phase,     \* where Server::run is: Top, Wait, Dispatch, Accept, Bottom
  batch      \* the events of the current epoll_wait not dispatched yet

vars == <<st, backlog, fdOf, handlers, epset, edge, rcv, fin, sent, closing,
          queued, phase, batch>>

AllFds == Fds \cup {ListenFd}

-----------------------------------------------------------------------------
(***************************************************************************)
(* Event bits (reactor.cpp, toEpollEvents and fromEpollEvents).  READ      *)
(* interest also asks for EPOLLRDHUP, which comes back as HUP.            *)
(***************************************************************************)
ToEpoll == [READ |-> {"IN", "RDHUP"}, WRITE |-> {"OUT"}, ERROR |-> {"ERR"},
            HUP |-> {"HUP"}]
FromEpoll == [IN |-> "READ", OUT |-> "WRITE", ERR |-> "ERROR", HUP |-> "HUP",
              RDHUP |-> "HUP"]

ToEpollEvents(E) == UNION {ToEpoll[e] : e \in E} \cup {"ET"}

\* Mutant: the epoll bits are passed on unconverted.
FromEpollEventsRaw(ev) == ev \cap DOMAIN FromEpoll

FromEpollEvents(ev) == {FromEpoll[x] : x \in ev \cap DOMAIN FromEpoll}

\* Every handler is registered for EVENT_READ; EPOLLERR and EPOLLHUP are
\* always reported.
Mask == ToEpollEvents({"READ"}) \cup {"ERR", "HUP"}

\* The readiness of a connection's socket.
Readiness(c) == (IF rcv[c] > 0 \/ fin[c] THEN {"IN"} ELSE {})
                \cup (IF fin[c] THEN {"RDHUP"} ELSE {})

\* The connection whose socket is on fd f.
OnFd(f) == {c \in Conns : st[c] = "Open" /\ fdOf[c] = f}

FreeFds == {f \in Fds : OnFd(f) = {}}

LowestFree == CHOOSE f \in FreeFds : \A g \in FreeFds : f <= g

-----------------------------------------------------------------------------
(***************************************************************************)
(* Reactor::registerHandler for a client fd.  An fd already in handlers_   *)
(* is re-pointed and EPOLL_CTL_MOD'ed, which fails if the fd is not in the *)
(* epoll set; a new one is EPOLL_CTL_ADD'ed.  On failure registerClient    *)
(* closes the socket.                                                      *)
(***************************************************************************)
RegisterHandlerOk(f) == handlers[f] = None \/ f \in epset

RegisterClient(c, f) ==
  LET ok == RegisterHandlerOk(f)
  IN /\ st' = [st EXCEPT ![c] = IF ok THEN "Open" ELSE "Refused"]
     /\ fdOf' = [fdOf EXCEPT ![c] = f]
     /\ handlers' = IF ok THEN [handlers EXCEPT ![f] = c] ELSE handlers
     /\ epset' = IF ok THEN epset \cup {f} ELSE epset
     /\ edge' = IF ok /\ handlers[f] = None
                THEN [edge EXCEPT ![f] = Readiness(c)] ELSE edge

\* Mutant: the teardown leaves the fd in handlers_.
RemoveHandlerKept(f) == /\ epset' = epset \ {f} /\ UNCHANGED handlers

\* Reactor::removeHandler: EPOLL_CTL_DEL and erase from handlers_.
RemoveHandler(f) ==
  /\ epset' = epset \ {f}
  /\ handlers' = [handlers EXCEPT ![f] = None]

\* ClientHandler::requestClose: the first call marks closing_ and queues.
RequestClose(f) ==
  IF closing[f] THEN UNCHANGED <<closing, queued>>
  ELSE /\ closing' = [closing EXCEPT ![f] = TRUE]
       /\ queued' = queued \cup {f}

-----------------------------------------------------------------------------
(***************************************************************************)
(* Server::run: drain, poll(1000), drain.  processPendingDisconnects tears *)
(* the queued fds down in ascending order with handleClientDisconnect:    *)
(* removeHandler, then close, which takes the fd out of the epoll set and *)
(* frees it for the next accept.                                           *)
(***************************************************************************)
TearDown(p) ==
  /\ phase = p
  /\ queued # {}
  /\ LET f == CHOOSE g \in queued : \A h \in queued : g <= h
     IN /\ RemoveHandler(f)
        /\ st' = [c \in Conns |-> IF c \in OnFd(f) THEN "Closed" ELSE st[c]]
        /\ queued' = queued \ {f}
        /\ closing' = [closing EXCEPT ![f] = FALSE]
        /\ edge' = [edge EXCEPT ![f] = {}]
  /\ UNCHANGED <<backlog, fdOf, rcv, fin, sent, phase, batch>>

DrainDone(p, next) ==
  /\ phase = p /\ queued = {}
  /\ phase' = next
  /\ UNCHANGED <<st, backlog, fdOf, handlers, epset, edge, rcv, fin, sent,
                 closing, queued, batch>>

(***************************************************************************)
(* Reactor::poll: epoll_wait returns every fd of the set whose readiness   *)
(* changed in a bit of its mask since it was last reported, and forgets    *)
(* the change; with none it times out after 1000 ms and poll returns 0.   *)
(***************************************************************************)
Wait ==
  /\ phase = "Wait"
  /\ LET R == {f \in epset : edge[f] \cap Mask # {}}
     IN /\ batch' = {[fd |-> f, ev |-> FromEpollEvents(edge[f] \cap Mask)] : f \in R}
        /\ edge' = [f \in AllFds |-> IF f \in R THEN edge[f] \ Mask ELSE edge[f]]
        /\ phase' = IF R = {} THEN "Bottom" ELSE "Dispatch"
  /\ UNCHANGED <<st, backlog, fdOf, handlers, epset, rcv, fin, sent, closing,
                 queued>>

\* Mutant: handleError ignores the hang-up.
HandleErrorIgnore(f) == UNCHANGED <<closing, queued>>

\* ClientHandler::handleError: requestClose unless already closing.  The
\* ListenHandler's only logs.
HandleError(f) ==
  IF f = ListenFd THEN UNCHANGED <<closing, queued>> ELSE RequestClose(f)

\* Mutant: the recv loop returns after one chunk.
ClientReadOnce(f) ==
  LET c == CHOOSE x \in OnFd(f) : TRUE
  IN IF closing[f] THEN UNCHANGED <<rcv, closing, queued>>
     ELSE IF rcv[c] > 0
          THEN rcv' = [rcv EXCEPT ![c] = @ - 1] /\ UNCHANGED <<closing, queued>>
          ELSE /\ UNCHANGED rcv
               /\ IF fin[c] THEN RequestClose(f) ELSE UNCHANGED <<closing, queued>>

(* ClientHandler::handleRead: nothing once closing_; else recv until       *)
(* EAGAIN, handing every chunk to onClientData, and requestClose when recv *)
(* returns 0 after the peer's FIN.                                         *)
ClientRead(f) ==
  LET c == CHOOSE x \in OnFd(f) : TRUE
  IN IF closing[f] THEN UNCHANGED <<rcv, closing, queued>>
     ELSE /\ rcv' = [rcv EXCEPT ![c] = 0]
          /\ IF fin[c] THEN RequestClose(f) ELSE UNCHANGED <<closing, queued>>

(* One event of the batch: findHandler; no handler, skip; ERROR or HUP,    *)
(* handleError and no read; READ, handleRead (the listen socket's enters   *)
(* the accept loop).  WRITE interest belongs to the write path.            *)
Dispatch ==
  /\ phase = "Dispatch"
  /\ \E e \in batch :
       /\ batch' = batch \ {e}
       /\ CASE handlers[e.fd] = None ->
                 UNCHANGED <<rcv, closing, queued, phase>>
            [] e.ev \cap {"ERROR", "HUP"} # {} ->
                 HandleError(e.fd) /\ UNCHANGED <<rcv, phase>>
            [] "READ" \in e.ev /\ e.fd = ListenFd ->
                 phase' = "Accept" /\ UNCHANGED <<rcv, closing, queued>>
            [] "READ" \in e.ev ->
                 ClientRead(e.fd) /\ UNCHANGED phase
            [] OTHER -> UNCHANGED <<rcv, closing, queued, phase>>
  /\ UNCHANGED <<st, backlog, fdOf, handlers, epset, edge, fin, sent>>

EndBatch ==
  /\ phase = "Dispatch" /\ batch = {}
  /\ phase' = "Bottom"
  /\ UNCHANGED <<st, backlog, fdOf, handlers, epset, edge, rcv, fin, sent,
                 closing, queued, batch>>

(***************************************************************************)
(* ListenHandler::handleRead: accept until EAGAIN.  Each accepted socket   *)
(* gets the lowest free descriptor and goes through registerClient; a     *)
(* failed registration is closed and the loop goes on.  accept failing     *)
(* with EMFILE (no descriptor free) ends the loop as any other error does. *)
(***************************************************************************)
\* Mutant: the loop stops after the first accepted connection.
AcceptOneStop ==
  /\ phase = "Accept"
  /\ backlog # <<>> /\ FreeFds # {}
  /\ RegisterClient(Head(backlog), LowestFree)
  /\ backlog' = Tail(backlog)
  /\ phase' = "Dispatch"
  /\ UNCHANGED <<rcv, fin, sent, closing, queued, batch>>

AcceptOne ==
  /\ phase = "Accept"
  /\ backlog # <<>> /\ FreeFds # {}
  /\ RegisterClient(Head(backlog), LowestFree)
  /\ backlog' = Tail(backlog)
  /\ UNCHANGED <<rcv, fin, sent, closing, queued, phase, batch>>

AcceptEnd ==
  /\ phase = "Accept"
  /\ backlog = <<>> \/ FreeFds = {}
  /\ phase' = "Dispatch"
  /\ UNCHANGED <<st, backlog, fdOf, handlers, epset, edge, rcv, fin, sent,
                 closing, queued, batch>>

-----------------------------------------------------------------------------
(***************************************************************************)
(* The clients and the kernel: a connection completes into the backlog    *)
(* (the listen socket becomes readable); a client writes a chunk or shuts  *)
(* its side; either makes its socket readable.                             *)
(***************************************************************************)
\* The fd of c, if c has one the reactor watches.
Watched(c) == IF st[c] = "Open" /\ fdOf[c] \in epset THEN {fdOf[c]} ELSE {}

Connect(c) ==
  /\ st[c] = "Idle"
  /\ \A d \in Conns : d < c => st[d] # "Idle"
  /\ st' = [st EXCEPT ![c] = "Queued"]
  /\ backlog' = Append(backlog, c)
  /\ edge' = [edge EXCEPT ![ListenFd] = @ \cup {"IN"}]
  /\ UNCHANGED <<fdOf, handlers, epset, rcv, fin, sent, closing, queued, phase,
                 batch>>

PeerSend(c) ==
  /\ st[c] \in {"Queued", "Open"} /\ ~fin[c] /\ sent[c] < MaxData
  /\ rcv' = [rcv EXCEPT ![c] = @ + 1]
  /\ sent' = [sent EXCEPT ![c] = @ + 1]
  /\ edge' = [f \in AllFds |-> IF f \in Watched(c) THEN edge[f] \cup {"IN"} ELSE edge[f]]
  /\ UNCHANGED <<st, backlog, fdOf, handlers, epset, fin, closing, queued,
                 phase, batch>>

PeerClose(c) ==
  /\ st[c] \in {"Queued", "Open"} /\ ~fin[c]
  /\ fin' = [fin EXCEPT ![c] = TRUE]
  /\ edge' = [f \in AllFds |->
                IF f \in Watched(c) THEN edge[f] \cup {"IN", "RDHUP"} ELSE edge[f]]
  /\ UNCHANGED <<st, backlog, fdOf, handlers, epset, rcv, sent, closing, queued,
                 phase, batch>>

-----------------------------------------------------------------------------
\* Server::start has registered the ListenHandler for EVENT_READ.
Init ==
  /\ st = [c \in Conns |-> "Idle"]
  /\ backlog = <<>>
  /\ fdOf = [c \in Conns |-> None]
  /\ handlers = [f \in AllFds |-> IF f = ListenFd THEN Listener ELSE None]
  /\ epset = {ListenFd}
  /\ edge = [f \in AllFds |-> {}]
  /\ rcv = [c \in Conns |-> 0] /\ fin = [c \in Conns |-> FALSE]
  /\ sent = [c \in Conns |-> 0]
  /\ closing = [f \in Fds |-> FALSE]
  /\ queued = {}
  /\ phase = "Top" /\ batch = {}

Loop ==
  \/ TearDown("Top") \/ DrainDone("Top", "Wait")
  \/ Wait \/ Dispatch \/ EndBatch \/ AcceptOne \/ AcceptEnd
  \/ TearDown("Bottom") \/ DrainDone("Bottom", "Top")

Peers == \E c \in Conns : Connect(c) \/ PeerSend(c) \/ PeerClose(c)

Next == Loop \/ Peers

\* The reactor thread never blocks for more than the poll timeout; the
\* clients are not forced to do anything.
Spec == Init /\ [][Next]_vars /\ WF_vars(Loop)

-----------------------------------------------------------------------------
(* The types of the variables.                                             *)
TypeOK ==
  /\ st \in [Conns -> {"Idle", "Queued", "Open", "Refused", "Closed"}]
  /\ fdOf \in [Conns -> Fds \cup {None}]
  /\ handlers \in [AllFds -> Conns \cup {None, Listener}]
  /\ epset \subseteq AllFds
  /\ queued \subseteq Fds
  /\ batch \subseteq [fd : AllFds, ev : SUBSET {"READ", "WRITE", "ERROR", "HUP"}]

(* The handler table, the kernel's descriptors and the epoll set agree     *)
(* across descriptor reuse: findHandler(f) gives the handler of the       *)
(* connection now on f, and f is watched exactly while a connection holds *)
(* it, so that registerClient never meets a stale entry for a reused fd.  *)
HandlerTableExact ==
  /\ handlers[ListenFd] = Listener /\ ListenFd \in epset
  /\ \A f \in Fds :
       /\ handlers[f] = (IF OnFd(f) = {} THEN None ELSE CHOOSE c \in OnFd(f) : TRUE)
       /\ f \in epset <=> OnFd(f) # {}
  /\ \A c \in Conns : st[c] # "Refused"

(* Edge triggering loses no connection: every connection in the backlog is *)
(* eventually accepted, because the accept loop runs until EAGAIN.        *)
AcceptServed == \A c \in Conns : st[c] = "Queued" ~> st[c] # "Queued"

(* Edge triggering loses no data: what a client wrote is eventually read, *)
(* because the recv loop runs until EAGAIN, unless the connection is torn *)
(* down first (a hang-up reported with the data skips the read).          *)
ReadinessServed ==
  \A c \in Conns : (st[c] = "Open" /\ rcv[c] > 0) ~> (rcv[c] = 0 \/ st[c] = "Closed")

(* A client that closes its side is torn down, whether its FIN is reported *)
(* as a hang-up (handleError) or read as recv returning 0 (handleRead).    *)
PeerCloseReaped ==
  \A c \in Conns : (st[c] = "Open" /\ fin[c]) ~> st[c] = "Closed"

=============================================================================
