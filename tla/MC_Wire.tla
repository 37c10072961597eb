------------------------------- MODULE MC_Wire -------------------------------
(***************************************************************************)
(* The wire, in three independent parts of one model.  In the part        *)
(* "framer", a stream of up to two well-formed frames with bodies of up to *)
(* MaxBody bytes (so that a body of exactly the limit occurs) reaches      *)
(* parseData split in every way.  In the part "codec", one case of Codec   *)
(* is checked: arguments packed on one host and parsed on another, a raw   *)
(* body from a peer, a user list or a FILE_DATA body.  In the part "conn", *)
(* one connection's outbound path (Connection) sends frames of the Sizes   *)
(* through a kernel buffer of Cap bytes, so that they go in part, are     *)
(* buffered, flushed in several rounds and compacted, and empty frames     *)
(* take queueSend's early return.  A state belongs to one part; the        *)
(* variables of the other parts keep their initial values, in which the    *)
(* other parts' properties hold.  In the part "reactor", the event loop   *)
(* (Reactor) serves clients that connect, write and close, with one      *)
(* descriptor per connection; accept takes the lowest free one, so a       *)
(* second connection reuses the first one's if it has closed.  With fewer  *)
(* descriptors, accept meets EMFILE and AcceptServed fails (README).       *)
(* In the part "client", the same streams as in "framer" reach the        *)
(* client's onReadyRead (ClientFramer) in every split.                     *)
(***************************************************************************)
EXTENDS Codec

CONSTANTS HeaderLen, MaxBody, Magic, Sizes, Cap, TrimThreshold, MaxBytes,
          Fds, ListenFd, Conns, MaxData

\* input is the Codec case; the framer's own variables are renamed.
VARIABLES part, rest, buffer, out, stream,
          outbuf, outOffset, wantWrite, closing, destroyed, kbuf, got,
          peerClosed, nextByte,
          st, backlog, fdOf, handlers, epset, edge, rcv, fin, sent, rclosing,
          queued, phase, batch,
          crest, crecv, cgot, cstream

connVars == <<outbuf, outOffset, wantWrite, closing, destroyed, kbuf, got,
              peerClosed, nextByte>>
reactorVars == <<st, backlog, fdOf, handlers, epset, edge, rcv, fin, sent,
                 rclosing, queued, phase, batch>>
clientVars == <<crest, crecv, cgot, cstream>>
wireVars == <<part, rest, buffer, out, stream, input, connVars, reactorVars,
              clientVars>>

Conn == INSTANCE Connection
R == INSTANCE Reactor WITH closing <- rclosing

BodyBytes == {0, 1}
FrameBodies == UNION {[1 .. n -> BodyBytes] : n \in 0 .. MaxBody}

\* The sender's framing, which does not depend on Streams.
Sender == INSTANCE Framer WITH Streams <- {}, input <- rest
FrameStreams ==
  {Sender!EncodeAll(ms) : ms \in UNION {[1 .. n -> FrameBodies] : n \in 0 .. 2}}

F == INSTANCE Framer WITH Streams <- FrameStreams, input <- rest

CF == INSTANCE ClientFramer WITH Streams <- FrameStreams, input <- crest,
        recvBuffer <- crecv, got <- cgot, stream <- cstream

NoCase == "none"

WireInit ==
  /\ Conn!Init /\ R!Init
  /\ \/ /\ part = "framer"
        /\ F!Init
        /\ input = NoCase
        /\ crest = <<>> /\ crecv = <<>> /\ cgot = <<>> /\ cstream = <<>>
     \/ /\ part \in {"codec", "conn", "reactor", "client"}
        /\ IF part = "codec" THEN Init ELSE input = NoCase
        /\ rest = <<>> /\ buffer = <<>> /\ out = <<>> /\ stream = <<>>
        /\ IF part = "client" THEN CF!Init
           ELSE crest = <<>> /\ crecv = <<>> /\ cgot = <<>> /\ cstream = <<>>

\* A step of the connection part.
ConnStep(A) ==
  /\ part = "conn" /\ A
  /\ UNCHANGED <<part, input, rest, buffer, out, stream, reactorVars, clientVars>>

\* A step of the reactor part.
ReactorStep(A) ==
  /\ part = "reactor" /\ A
  /\ UNCHANGED <<part, input, rest, buffer, out, stream, connVars, clientVars>>

WireNext ==
  \/ part = "framer" /\ F!Next /\ UNCHANGED <<part, input, connVars, reactorVars, clientVars>>
  \/ part = "client" /\ CF!Next
     /\ UNCHANGED <<part, input, rest, buffer, out, stream, connVars, reactorVars>>
  \/ ConnStep(Conn!Next)
  \/ ReactorStep(R!Next)

\* The fairness of Connection and of the event loop, within their parts.
WireSpec ==
  /\ WireInit /\ [][WireNext]_wireVars
  /\ WF_wireVars(ConnStep(Conn!HandleWrite)) /\ WF_wireVars(ConnStep(Conn!PeerRead))
  /\ WF_wireVars(ReactorStep(R!Loop))

-----------------------------------------------------------------------------
(* Framer: between two calls of parseData the accumulator holds less than  *)
(* a header or a valid header whose frame is not complete yet.             *)
FramerTypeOK == part = "framer" => F!TypeOK

(* Framer: however TCP splits a stream of well-formed frames, parseData    *)
(* hands the router exactly the frames sent, in order, losing or inventing *)
(* no byte, and leaves nothing behind once the stream has arrived.         *)
FramingExact == part = "framer" => F!FramingExact

(* Client framer: however TCP splits the server's stream of well-formed   *)
(* frames into readyRead signals, onReadyRead hands processMessage exactly *)
(* the frames sent, in order, and keeps only the start of the next one.   *)
ClientFramingExact == part = "client" => CF!FramingExact

(* Codec: a parse function reads back what the pack function was given,    *)
(* through htonl and swap64, whatever the byte orders of the two hosts.    *)
CodecRoundTrip == part = "codec" => RoundTrip

(* Codec: on any body a peer sends, every parsed string lies within its    *)
(* own field, because the parse forces the field's last byte to NUL.      *)
CodecFieldsBounded == part = "codec" => FieldsBounded

(* Codec: the user list of sendUserList reaches the client whole.         *)
CodecUserListRoundTrip == part = "codec" => UserListRoundTrip

(* Codec: parseFileData gives the receiver the sent fileId, offset and     *)
(* payload, and extractFileId gives the relay the same fileId.            *)
CodecFileDataRoundTrip == part = "codec" => FileDataRoundTrip

(* Connection: the types of its variables.                                 *)
ConnTypeOK == Conn!TypeOK

(* Connection: the sent prefix kept in outbuf_ stays below                 *)
(* kWriteTrimThreshold and a drained buffer holds nothing.                 *)
ConnBufferCompact == Conn!BufferCompact

(* Connection: an open handler waits for EPOLLOUT exactly when it has      *)
(* bytes buffered.                                                         *)
ConnWriteInterestMatches == Conn!WriteInterestMatches

(* Connection: the bytes of queueSend reach the peer in order, none lost,  *)
(* duplicated or invented (the connection implements ByteChannel).         *)
ConnChannelRefined == Conn!ChannelRefined

(* Connection: every byte queued on an open connection whose peer keeps    *)
(* reading is eventually received, unless the connection closes first.    *)
ConnAllDelivered == Conn!AllDelivered

(* Reactor: the types of its variables, the events of a batch in the       *)
(* reactor's own bits.                                                     *)
ReactorTypeOK == R!TypeOK

(* Reactor: across descriptor reuse, findHandler(f) gives the handler of   *)
(* the connection now on f, f is in the epoll set exactly while a          *)
(* connection holds it, and registerClient never refuses a connection.    *)
HandlerTableExact == R!HandlerTableExact

(* Reactor: under edge-triggered epoll every connection in the backlog is  *)
(* eventually accepted (the accept loop runs until EAGAIN).                *)
AcceptServed == R!AcceptServed

(* Reactor: under edge-triggered epoll every chunk a client writes is      *)
(* eventually read (the recv loop runs until EAGAIN), unless the          *)
(* connection is torn down first.                                          *)
ReadinessServed == R!ReadinessServed

(* Reactor: a client that closes its side is torn down, whether its FIN    *)
(* comes as a hang-up (handleError) or as recv returning 0.               *)
PeerCloseReaped == R!PeerCloseReaped
=============================================================================
