------------------------------ MODULE Framer ------------------------------
(***************************************************************************)
(* The per-connection framer, ProtocolParser::parseData: bytes are         *)
(* appended to the connection's accumulator and complete frames are cut    *)
(* off its front.  A byte stream arrives split into chunks in any way TCP  *)
(* may split it; each chunk is one call of parseData.                      *)
(*                                                                         *)
(* The 16-byte MessageHeader is abstracted to HeaderLen bytes: byte 1      *)
(* stands for magic and version (equal to Magic when both are right),      *)
(* byte 2 for bodyLength, and any further header bytes for msgType and     *)
(* sequence, which the framer does not look at.  A frame handed to the     *)
(* router is its body.                                                     *)
(***************************************************************************)
EXTENDS Integers, Sequences, SequencesExt

CONSTANTS
  HeaderLen,   \* sizeof(MessageHeader)
  MaxBody,     \* the bodyLength limit of validateHeader (1 MiB)
  Magic,       \* the byte value standing for a right magic and version
  Streams      \* the byte streams a peer may send on one connection

ASSUME HeaderLen >= 2 /\ MaxBody \in Nat

VARIABLES
  input,    \* the bytes of the stream not yet received
  buffer,   \* recvBuffers_[fd]
  out,      \* the frame bodies passed to the callback, in order
  stream    \* the whole stream (kept for the properties)

vars == <<input, buffer, out, stream>>

-----------------------------------------------------------------------------
\* The fields validateHeader and the loop read, after ntohl/ntohs.
HeaderOf(buf) == [magic |-> buf[1], bodyLength |-> buf[2]]

\* validateHeader: magic and version right, bodyLength at most 1 MiB.
ValidateHeaderStrict(h) == h.magic = Magic /\ h.bodyLength < MaxBody
ValidateHeader(h) == h.magic = Magic /\ h.bodyLength <= MaxBody

\* totalLen = sizeof(MessageHeader) + bodyLength.
TotalLenLong(h) == HeaderLen + h.bodyLength + 1
TotalLen(h) == HeaderLen + h.bodyLength

(* The while loop of parseData over the accumulator buf: returns the       *)
(* bodies handed to the callback and the accumulator left behind.  A       *)
(* header that fails validation clears the whole accumulator.             *)
\* A loop that breaks after the first frame.
ConsumeOnce(buf, frames) ==
  IF Len(buf) < HeaderLen THEN <<frames, buf>>
  ELSE LET h == HeaderOf(buf) IN
       IF ~ValidateHeader(h) THEN <<frames, <<>>>>
       ELSE IF Len(buf) < TotalLen(h) THEN <<frames, buf>>
       ELSE <<Append(frames, SubSeq(buf, HeaderLen + 1, TotalLen(h))),
              SubSeq(buf, TotalLen(h) + 1, Len(buf))>>

RECURSIVE Consume(_, _)
Consume(buf, frames) ==
  IF Len(buf) < HeaderLen THEN <<frames, buf>>
  ELSE LET h == HeaderOf(buf) IN
       IF ~ValidateHeader(h) THEN <<frames, <<>>>>
       ELSE IF Len(buf) < TotalLen(h) THEN <<frames, buf>>
       ELSE Consume(SubSeq(buf, TotalLen(h) + 1, Len(buf)),
                    Append(frames, SubSeq(buf, HeaderLen + 1, TotalLen(h))))

(* One recv of k bytes passed to parseData: append, then consume.          *)
ParseData(k) ==
  LET r == Consume(buffer \o SubSeq(input, 1, k), <<>>)
  IN /\ out'    = out \o r[1]
     /\ buffer' = r[2]
     /\ input'  = SubSeq(input, k + 1, Len(input))
     /\ UNCHANGED stream

Init ==
  /\ stream \in Streams
  /\ input  = stream
  /\ buffer = <<>>
  /\ out    = <<>>

\* The stream ends once all of it has arrived.
Next == \E k \in 1 .. Len(input) : ParseData(k)

Spec == Init /\ [][Next]_vars

-----------------------------------------------------------------------------
(***************************************************************************)
(* The frames a sender produces: each body after a header that carries     *)
(* Magic and the body's length; the remaining header bytes are zero.       *)
(***************************************************************************)
Encode(body) ==
  <<Magic, Len(body)>> \o [i \in 1 .. HeaderLen - 2 |-> 0] \o body

EncodeAll(bodies) == FoldLeft(LAMBDA acc, b : acc \o Encode(b), <<>>, bodies)

-----------------------------------------------------------------------------
(* The types of the variables; between two calls of parseData the         *)
(* accumulator holds less than a header or a valid header whose frame is   *)
(* not complete yet.                                                       *)
TypeOK ==
  /\ input \in Seq(Nat) /\ buffer \in Seq(Nat) /\ out \in Seq(Seq(Nat))
  /\ stream \in Streams
  /\ Len(buffer) >= HeaderLen =>
       /\ ValidateHeader(HeaderOf(buffer))
       /\ Len(buffer) < TotalLen(HeaderOf(buffer))

(* For a stream of well-formed frames, however TCP splits it, parseData    *)
(* hands the router exactly the frames sent, in order, and loses or        *)
(* invents no byte: the frames delivered, the accumulator and the bytes    *)
(* still to come make up the stream, and once all of it has arrived the    *)
(* accumulator is empty.  This is where an off-by-one in totalLen or in    *)
(* the bodyLength limit of validateHeader would show.                      *)
FramingExact ==
  /\ EncodeAll(out) \o buffer \o input = stream
  /\ input = <<>> => buffer = <<>>

(* The spec (section 8): feeding any byte stream in chunks yields the      *)
(* same messages as feeding it whole.  The resync of parseData clears the  *)
(* whole accumulator, whose contents depend on where the chunks ended.     *)
SplitInvariant ==
  input = <<>> => out = Consume(stream, <<>>)[1]

=============================================================================
