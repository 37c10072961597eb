----------------------------- MODULE Connection -----------------------------
(***************************************************************************)
(* The outbound side of one ClientHandler (server.cpp): queueSend tries    *)
(* to send at once when nothing is buffered and keeps the rest in outbuf_; *)
(* handleWrite, on EPOLLOUT, runs flushOut, which advances outOffset_,     *)
(* clears the buffer when drained and cuts off the sent prefix once it     *)
(* reaches kWriteTrimThreshold.  A failed send calls requestClose.         *)
(*                                                                         *)
(* The kernel send buffer holds at most Cap bytes; a non-blocking send     *)
(* takes what fits and the next one returns EAGAIN.  Once the peer has     *)
(* closed, a send may still be taken or may fail (EPIPE) after taking part *)
(* of its bytes.  Every byte queued is a distinct number so that loss,     *)
(* duplication and reordering show.                                        *)
(***************************************************************************)
EXTENDS Integers, Sequences, SequencesExt

CONSTANTS
  Sizes,          \* the lengths of the frames the router sends
  Cap,            \* the free space of an empty kernel send buffer
  TrimThreshold,  \* kWriteTrimThreshold
  MaxBytes        \* bound on the bytes queued in a behaviour

ASSUME Sizes \subseteq Nat /\ Cap \in Nat \ {0} /\ TrimThreshold \in Nat \ {0}

VARIABLES
  outbuf,      \* outbuf_
  outOffset,   \* outOffset_
  wantWrite,   \* EVENT_WRITE is in the handler's epoll interest
  closing,     \* closing_
  destroyed,   \* handleClientDisconnect has run
  kbuf,        \* bytes in the kernel send buffer
  got,         \* bytes the peer has read
  peerClosed,  \* the peer has closed its socket
  nextByte     \* the bytes queued so far are 1 .. nextByte

vars == <<outbuf, outOffset, wantWrite, closing, destroyed, kbuf, got,
          peerClosed, nextByte>>

-----------------------------------------------------------------------------
\* pending(): the buffered bytes not yet sent.
Pending == Len(outbuf) - outOffset
PendingBytes == SubSeq(outbuf, outOffset + 1, Len(outbuf))

Space == Cap - Len(kbuf)
MinOf(x, y) == IF x < y THEN x ELSE y

\* appendOut: a drained buffer is reset before the bytes are added.
AppendOut(data) ==
  IF Pending = 0 THEN <<data, 0>> ELSE <<outbuf \o data, outOffset>>

\* modifyHandler(this, EVENT_READ | EVENT_WRITE) after buffering.
ArmWriteNever == FALSE
ArmWrite == TRUE

\* The buffer after flushOut has advanced the offset to off.
CompactKeepOffset(off) ==
  IF off = Len(outbuf) THEN <<<<>>, 0>>
  ELSE IF off >= TrimThreshold THEN <<SubSeq(outbuf, off + 1, Len(outbuf)), off>>
  ELSE <<outbuf, off>>
CompactLate(off) ==
  IF off = Len(outbuf) THEN <<<<>>, 0>>
  ELSE IF off > TrimThreshold THEN <<SubSeq(outbuf, off + 1, Len(outbuf)), 0>>
  ELSE <<outbuf, off>>
CompactOffByOne(off) ==
  IF off = Len(outbuf) THEN <<<<>>, 0>>
  ELSE IF off >= TrimThreshold THEN <<SubSeq(outbuf, off, Len(outbuf)), 0>>
  ELSE <<outbuf, off>>
Compact(off) ==
  IF off = Len(outbuf) THEN <<<<>>, 0>>
  ELSE IF off >= TrimThreshold THEN <<SubSeq(outbuf, off + 1, Len(outbuf)), 0>>
  ELSE <<outbuf, off>>

\* The bytes one send() of flushOut hands to the kernel: what fits.
FlushSentWhole == IF Pending <= Space THEN Pending ELSE 0
FlushSent == MinOf(Pending, Space)

\* handleWrite: back to EVENT_READ once the buffer is drained.
WriteInterestAfterFlushKept(c) == TRUE
WriteInterestAfterFlush(c) == Len(c[1]) - c[2] > 0

\* requestClose: the first call marks the handler closing (and queues it).
RequestClose ==
  /\ ~destroyed
  /\ ~closing
  /\ closing' = TRUE
  /\ UNCHANGED <<outbuf, outOffset, wantWrite, destroyed, kbuf, got,
                 peerClosed, nextByte>>

(***************************************************************************)
(* queueSend(data) for a frame of L bytes, the whole call.                 *)
(***************************************************************************)
QueueSend(L) ==
  LET d    == [i \in 1 .. L |-> nextByte + i]
      k    == MinOf(L, Space)
      rest == AppendOut(SubSeq(d, k + 1, L))
  IN
  /\ ~destroyed
  /\ nextByte + L <= MaxBytes
  /\ nextByte' = nextByte + L
  /\ UNCHANGED <<destroyed, got, peerClosed>>
  /\ CASE closing \/ L = 0 ->
            UNCHANGED <<outbuf, outOffset, wantWrite, closing, kbuf>>
       [] Pending > 0 ->
            /\ outbuf' = outbuf \o d
            /\ wantWrite' = (wantWrite \/ ArmWrite)
            /\ UNCHANGED <<outOffset, closing, kbuf>>
       [] OTHER ->
            \/ /\ kbuf' = kbuf \o SubSeq(d, 1, k)
               /\ IF k = L
                  THEN UNCHANGED <<outbuf, outOffset, wantWrite>>
                  ELSE /\ outbuf' = rest[1]
                       /\ outOffset' = rest[2]
                       /\ wantWrite' = (wantWrite \/ ArmWrite)
               /\ UNCHANGED closing
            \/ /\ peerClosed
               /\ \E j \in 0 .. k : kbuf' = kbuf \o SubSeq(d, 1, j)
               /\ closing' = TRUE
               /\ UNCHANGED <<outbuf, outOffset, wantWrite>>

(***************************************************************************)
(* handleWrite on EPOLLOUT (the kernel buffer has room): flushOut sends    *)
(* what fits, the next send returns EAGAIN or the buffer is drained; when  *)
(* it is drained the handler goes back to EVENT_READ.  A send failing on a *)
(* closed peer requests close.  A closing handler returns at once.         *)
(***************************************************************************)
HandleWrite ==
  LET n  == FlushSent
      c  == Compact(outOffset + n)
  IN
  /\ ~destroyed
  /\ ~closing
  /\ wantWrite
  /\ Space > 0
  /\ UNCHANGED <<destroyed, got, peerClosed, nextByte>>
  /\ \/ /\ kbuf' = kbuf \o SubSeq(outbuf, outOffset + 1, outOffset + n)
        /\ outbuf' = c[1]
        /\ outOffset' = c[2]
        /\ wantWrite' = WriteInterestAfterFlush(c)
        /\ UNCHANGED closing
     \/ /\ peerClosed
        /\ closing' = TRUE
        /\ UNCHANGED <<outbuf, outOffset, wantWrite, kbuf>>

\* handleClientDisconnect: the handler and its buffer go; close() lets the
\* kernel go on sending what it holds.
Teardown ==
  /\ closing
  /\ ~destroyed
  /\ destroyed' = TRUE
  /\ outbuf' = <<>>
  /\ outOffset' = 0
  /\ wantWrite' = FALSE
  /\ UNCHANGED <<closing, kbuf, got, peerClosed, nextByte>>

\* The peer reads some of what the kernel holds, or closes its socket.
PeerRead ==
  /\ ~peerClosed
  /\ \E n \in 1 .. Len(kbuf) :
       /\ got' = got \o SubSeq(kbuf, 1, n)
       /\ kbuf' = SubSeq(kbuf, n + 1, Len(kbuf))
  /\ UNCHANGED <<outbuf, outOffset, wantWrite, closing, destroyed, peerClosed,
                 nextByte>>

PeerClose ==
  /\ ~peerClosed
  /\ peerClosed' = TRUE
  /\ UNCHANGED <<outbuf, outOffset, wantWrite, closing, destroyed, kbuf, got,
                 nextByte>>

Init ==
  /\ outbuf = <<>>
  /\ outOffset = 0
  /\ wantWrite = FALSE
  /\ closing = FALSE
  /\ destroyed = FALSE
  /\ kbuf = <<>>
  /\ got = <<>>
  /\ peerClosed = FALSE
  /\ nextByte = 0

Next ==
  \/ \E L \in Sizes : QueueSend(L)
  \/ HandleWrite
  \/ RequestClose
  \/ Teardown
  \/ PeerRead
  \/ PeerClose

(***************************************************************************)
(* The reactor serves every EPOLLOUT; delivery is promised only to a peer  *)
(* that keeps reading, so the peer's reads are fair as well.               *)
(***************************************************************************)
Spec == Init /\ [][Next]_vars /\ WF_vars(HandleWrite) /\ WF_vars(PeerRead)

-----------------------------------------------------------------------------
(***************************************************************************)
(* Refinement: the connection implements ByteChannel.  The bytes written   *)
(* are those the peer has, those in the kernel and those still buffered;  *)
(* the channel is open while the handler is not closing.                   *)
(***************************************************************************)
Written == got \o kbuf \o PendingBytes

Channel == INSTANCE ByteChannel WITH
             sent <- Written, recv <- got, open <- ~closing

-----------------------------------------------------------------------------
(* The types of the variables; outOffset_ never passes the end of outbuf_. *)
TypeOK ==
  /\ outbuf \in Seq(1 .. MaxBytes)
  /\ outOffset \in 0 .. Len(outbuf)
  /\ kbuf \in Seq(1 .. MaxBytes) /\ got \in Seq(1 .. MaxBytes)
  /\ {wantWrite, closing, destroyed, peerClosed} \subseteq BOOLEAN

(* The sent prefix kept in outbuf_ stays below kWriteTrimThreshold and a   *)
(* drained buffer holds nothing: flushOut's compaction bounds the memory a *)
(* slow reader can pin beyond what is still to be sent.                    *)
BufferCompact ==
  /\ outOffset < TrimThreshold
  /\ Pending = 0 => outbuf = <<>>

(* An open handler waits for EPOLLOUT exactly when it has bytes buffered:  *)
(* queueSend arms EVENT_WRITE when it buffers, handleWrite disarms it when *)
(* drained; a lost arm would strand the buffer, a kept one spin the loop.  *)
WriteInterestMatches ==
  ~closing /\ ~destroyed => (wantWrite <=> Pending > 0)

(* The bytes of queueSend reach the peer in order, none lost, duplicated   *)
(* or invented, through the immediate send, the buffer, the partial sends  *)
(* and the compaction of flushOut.                                         *)
ChannelRefined == Channel!Spec

(* Every byte queued on an open connection whose peer keeps reading is     *)
(* eventually received, unless the connection is closed first.             *)
AllDelivered ==
  \A n \in 1 .. MaxBytes :
    (Len(Written) >= n /\ ~closing) ~> (Len(got) >= n \/ closing \/ peerClosed)

=============================================================================
