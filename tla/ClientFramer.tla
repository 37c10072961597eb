---------------------------- MODULE ClientFramer ----------------------------
(***************************************************************************)
(* The client's frame buffer, TcpClient::onReadyRead: readAll() appends    *)
(* what the socket holds to recvBuffer_, and the loop cuts complete frames *)
(* off its front with the client's own ProtocolParser::validateHeader      *)
(* (client/network/protocol.cpp).  The header is abstracted as in Framer,  *)
(* whose sender-side framing (Encode) is the reference here.               *)
(***************************************************************************)
EXTENDS Integers, Sequences

CONSTANTS HeaderLen, MaxBody, Magic, Streams

VARIABLES
  input,       \* the bytes the server sent that the socket has not read yet
  recvBuffer,  \* recvBuffer_
  got,         \* the bodies passed to processMessage, in order
  stream       \* the whole stream (kept for the properties)

vars == <<input, recvBuffer, got, stream>>

Ref == INSTANCE Framer WITH buffer <- recvBuffer, out <- got

-----------------------------------------------------------------------------
\* The client's validateHeader: magic and version right, body <= 1 MiB.
ValidateHeaderStrict(h) == h.magic = Magic /\ h.bodyLength < MaxBody
ValidateHeader(h) == h.magic = Magic /\ h.bodyLength <= MaxBody

(* The while loop of onReadyRead: a header that fails validation clears    *)
(* recvBuffer_ and ends the loop; an incomplete frame ends it; a complete *)
(* one goes to processMessage and is removed.                             *)
RECURSIVE ReadLoop(_, _)
ReadLoop(buf, frames) ==
  IF Len(buf) < HeaderLen THEN <<frames, buf>>
  ELSE LET h        == Ref!HeaderOf(buf)
           totalLen == HeaderLen + h.bodyLength
       IN IF ~ValidateHeader(h) THEN <<frames, <<>>>>
          ELSE IF Len(buf) < totalLen THEN <<frames, buf>>
          ELSE ReadLoop(SubSeq(buf, totalLen + 1, Len(buf)),
                        Append(frames, SubSeq(buf, HeaderLen + 1, totalLen)))

(* One readyRead: readAll() returns the k bytes that have arrived.         *)
OnReadyRead(k) ==
  LET r == ReadLoop(recvBuffer \o SubSeq(input, 1, k), <<>>)
  IN /\ got'        = got \o r[1]
     /\ recvBuffer' = r[2]
     /\ input'      = SubSeq(input, k + 1, Len(input))
     /\ UNCHANGED stream

\* onConnected clears recvBuffer_ before the first byte of a connection.
Init ==
  /\ stream \in Streams
  /\ input = stream
  /\ recvBuffer = <<>>
  /\ got = <<>>

Next == \E k \in 1 .. Len(input) : OnReadyRead(k)

Spec == Init /\ [][Next]_vars

-----------------------------------------------------------------------------
(* The types of the variables.                                             *)
TypeOK ==
  /\ input \in Seq(Nat) /\ recvBuffer \in Seq(Nat) /\ got \in Seq(Seq(Nat))
  /\ stream \in Streams

(* However TCP splits the server's stream of well-formed frames into       *)
(* readyRead signals, processMessage receives exactly the frames the       *)
(* server packed, in order, and recvBuffer_ holds only the start of the    *)
(* next one; nothing is left once the stream has arrived.  The largest     *)
(* body validateHeader allows is among the frames.                        *)
FramingExact ==
  /\ Ref!EncodeAll(got) \o recvBuffer \o input = stream
  /\ input = <<>> => recvBuffer = <<>>
=============================================================================
