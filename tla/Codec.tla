------------------------------- MODULE Codec -------------------------------
(***************************************************************************)
(* The body codec both ends share (server/src/protocol.cpp,                *)
(* client/network/protocol.cpp, the packed structs of message.h): every    *)
(* body is a fixed layout of fields; a string field of w bytes is zeroed   *)
(* and filled by strncpy(field, s, w - 1), and read back by forcing its    *)
(* last byte to NUL; integers are stored in network order by htonl and by  *)
(* hostToNetwork64, whose swap64 puts htonl of the low word above htonl of *)
(* the high word.  The bytes a host's memcpy copies are its memory image   *)
(* of the integer, which depends on the host's byte order.                 *)
(*                                                                         *)
(* Widths are scaled down: a byte takes Base values, a uint32_t has        *)
(* WordBytes bytes, a uint64_t twice as many, and the string fields have   *)
(* the widths IdWidth (clientId, toId, fromId), NickWidth, FileIdWidth     *)
(* (room for a UUID and its NUL) and TextWidth (message, fileName).  The   *)
(* operators are the code's; the single variable ranges over the inputs    *)
(* the invariants check them on.                                           *)
(***************************************************************************)
EXTENDS Integers, Sequences, SequencesExt

CONSTANTS
  Base,         \* the values of a byte
  RawBytes,     \* the byte values of the bodies a peer may send
  RawLayouts,   \* the structs such bodies are parsed as
  WordBytes,    \* sizeof(uint32_t)
  IdWidth, NickWidth, FileIdWidth, TextWidth,
  Hosts         \* the byte orders a build may have: subset of {"LE", "BE"}

ASSUME Base >= 2 /\ WordBytes >= 1 /\ Hosts \subseteq {"LE", "BE"}

VARIABLE input   \* the case being checked

U32 == WordBytes
U64 == 2 * WordBytes
Word == Base ^ WordBytes

-----------------------------------------------------------------------------
(* Integers in memory and on the wire.                                     *)
BigEndian(v, n) == [i \in 1 .. n |-> (v \div Base ^ (n - i)) % Base]
ValueOf(bytes) == FoldLeft(LAMBDA acc, b : acc * Base + b, 0, bytes)

\* The n bytes memcpy copies out of (or into) a host integer.
Image(v, n, host) ==
  IF host = "BE" THEN BigEndian(v, n) ELSE Reverse(BigEndian(v, n))
FromImage(bytes, host) ==
  IF host = "BE" THEN ValueOf(bytes) ELSE ValueOf(Reverse(bytes))

\* htonl / ntohl: the identity on a big-endian host, a byte swap otherwise.
Htonl(x, host) ==
  IF host = "BE" THEN x ELSE ValueOf(Reverse(BigEndian(x, U32)))

\* swap64: (htonl(low word) << 32) | htonl(high word).
Swap64Halves(v, host) == (v % Word) * Word + (v \div Word)
Swap64(v, host) == Htonl(v % Word, host) * Word + Htonl(v \div Word, host)

HostToNetwork64(v, host) == IF host = "BE" THEN v ELSE Swap64(v, host)
NetworkToHost64(v, host) == IF host = "BE" THEN v ELSE Swap64(v, host)

-----------------------------------------------------------------------------
(* Fixed-width strings.                                                    *)
\* s.c_str() as strncpy reads it, or a field as a C string: up to the first NUL.
CString(s) ==
  LET k == SelectInSeq(s, LAMBDA c : c = 0)
  IN IF k = 0 THEN s ELSE SubSeq(s, 1, k - 1)

\* memset(&field, 0, w); strncpy(field, s.c_str(), w - 1).
PackStr(s, w) ==
  LET c == CString(s)
      n == IF Len(c) < w - 1 THEN Len(c) ELSE w - 1
  IN [i \in 1 .. w |-> IF i <= n THEN c[i] ELSE 0]

\* The field of w bytes at pos after field[w - 1] = '\0', read as a C string.
ParseStrUnterminated(body, pos, w) == CString(SubSeq(body, pos + 1, Len(body)))
ParseStr(body, pos, w) == CString(SubSeq(body, pos + 1, pos + w - 1))

-----------------------------------------------------------------------------
(* The packed structs of message.h, field by field.                        *)
Str(w) == [kind |-> "str", w |-> w]
U8 == [kind |-> "u8", w |-> 1]
U32F == [kind |-> "u32", w |-> U32]
U64F == [kind |-> "u64", w |-> U64]

Layouts ==
  [LoginRequest      |-> <<Str(IdWidth), Str(NickWidth)>>,
   LoginResponse     |-> <<U32F, Str(TextWidth)>>,
   ChatMessage       |-> <<U8, Str(IdWidth), Str(NickWidth), Str(IdWidth), U64F,
                           Str(TextWidth)>>,
   UserInfo          |-> <<Str(IdWidth), Str(NickWidth)>>,
   FileOffer         |-> <<Str(FileIdWidth), Str(IdWidth), Str(NickWidth),
                           Str(IdWidth), U64F, Str(TextWidth)>>,
   FileOfferResponse |-> <<Str(FileIdWidth), U32F, Str(TextWidth)>>,
   FileDataHeader    |-> <<Str(FileIdWidth), U64F, U32F>>]

\* The offset of field i, and sizeof the struct.
Offset(L, i) == FoldLeft(LAMBDA acc, f : acc + f.w, 0, SubSeq(L, 1, i - 1))
SizeOf(L) == Offset(L, Len(L) + 1)

\* One field of a pack function, and the conversion its parse applies.
EncodeField(f, v, host) ==
  CASE f.kind = "str" -> PackStr(v, f.w)
    [] f.kind = "u8"  -> <<v>>
    [] f.kind = "u32" -> Image(Htonl(v, host), U32, host)
    [] f.kind = "u64" -> Image(HostToNetwork64(v, host), U64, host)

DecodeField(f, body, pos, host) ==
  LET raw == SubSeq(body, pos + 1, pos + f.w) IN
  CASE f.kind = "str" -> ParseStr(body, pos, f.w)
    [] f.kind = "u8"  -> raw[1]
    [] f.kind = "u32" -> Htonl(FromImage(raw, host), host)
    [] f.kind = "u64" -> NetworkToHost64(FromImage(raw, host), host)

\* pack*: the fields in struct order; vals holds the arguments in that order.
Pack(L, vals, host) ==
  FoldLeft(LAMBDA acc, i : acc \o EncodeField(L[i], vals[i], host), <<>>,
           [i \in 1 .. Len(L) |-> i])

\* The result of a parse function: false, or true with the fields read.
Fail == [ok |-> FALSE]
Ok(v) == [ok |-> TRUE, val |-> v]

\* parse*: a body shorter than the struct is refused.
Parse(L, body, host) ==
  IF Len(body) < SizeOf(L) THEN Fail
  ELSE Ok([i \in 1 .. Len(L) |-> DecodeField(L[i], body, Offset(L, i), host)])

\* The reference: what the other side should read for each argument.  A
\* string is cut at its first NUL and holds at most w - 1 characters.
Truncated(s, n) == IF Len(s) <= n THEN s ELSE SubSeq(s, 1, n)
Normal(L, vals) ==
  [i \in 1 .. Len(L) |->
     IF L[i].kind = "str" THEN Truncated(CString(vals[i]), L[i].w - 1)
     ELSE vals[i]]

-----------------------------------------------------------------------------
(* packUserListResponse / parseUserListResponse: a count, then count       *)
(* UserInfo structs, each built by sendUserList with strncpy.              *)
UserAtNoCount(i) == (i - 1) * SizeOf(Layouts.UserInfo)
UserAt(i) == U32 + (i - 1) * SizeOf(Layouts.UserInfo)

PackUserList(users, host) ==
  Image(Htonl(Len(users), host), U32, host)
  \o FoldLeft(LAMBDA acc, u : acc \o Pack(Layouts.UserInfo, u, host), <<>>, users)

ParseUserList(body, host) ==
  IF Len(body) < U32 THEN Fail
  ELSE LET count == Htonl(FromImage(SubSeq(body, 1, U32), host), host)
       IN IF Len(body) < U32 + count * SizeOf(Layouts.UserInfo) THEN Fail
          ELSE Ok([i \in 1 .. count |->
                  Parse(Layouts.UserInfo,
                        SubSeq(body, UserAt(i) + 1, UserAt(i) + SizeOf(Layouts.UserInfo)),
                        host).val])

(* packFileData / parseFileData: the FileDataHeader, then chunkSize bytes;  *)
(* the relay keys the transfer by extractFileId of the same body.          *)
PackFileData(fileId, offset, data, host) ==
  Pack(Layouts.FileDataHeader, <<fileId, offset, Len(data)>>, host) \o data

PayloadFitsLate(body, hdr) ==
  Len(body) > SizeOf(Layouts.FileDataHeader) + hdr.val[3]
PayloadFits(body, hdr) ==
  Len(body) >= SizeOf(Layouts.FileDataHeader) + hdr.val[3]

ParseFileData(body, host) ==
  LET H   == Layouts.FileDataHeader
      hdr == Parse(H, body, host)
  IN IF ~hdr.ok \/ ~PayloadFits(body, hdr) THEN Fail
     ELSE Ok(<<hdr.val[1], hdr.val[2],
               SubSeq(body, SizeOf(H) + 1, SizeOf(H) + hdr.val[3])>>)

\* extractFileId: the first FileIdWidth bytes, last one forced to NUL.
ExtractFileId(body) ==
  IF Len(body) < FileIdWidth THEN <<>> ELSE ParseStr(body, 0, FileIdWidth)

-----------------------------------------------------------------------------
(***************************************************************************)
(* The inputs.  A string argument of field i is made of the letter         *)
(* 1 + i % (Base - 1), so that neighbouring fields differ: empty, as long  *)
(* as the field holds, one longer, and with an embedded NUL.  An integer  *)
(* is 0, 1, the largest value, or one whose bytes all differ.             *)
(***************************************************************************)
Letter(i) == 1 + (i % (Base - 1))
Fill(c, n) == [j \in 1 .. n |-> c]
StrSamples(w, c) == {<<>>, Fill(c, w - 1), Fill(c, w), <<c, 0, c>>}
IntSamples(n) ==
  {0, 1, Base ^ n - 1, ValueOf([j \in 1 .. n |-> (j - 1) % Base])}

Samples(f, i) ==
  CASE f.kind = "str" -> StrSamples(f.w, Letter(i))
    [] f.kind = "u8"  -> {0, 1}
    [] f.kind = "u32" -> IntSamples(U32)
    [] f.kind = "u64" -> IntSamples(U64)

RECURSIVE ArgTuples(_, _)
ArgTuples(L, i) ==
  IF i > Len(L) THEN {<<>>}
  ELSE {<<v>> \o t : v \in Samples(L[i], i), t \in ArgTuples(L, i + 1)}

\* Any body of a layout's size: the bytes a peer may send (0 is NUL).
Bodies(L, bytes) == [1 .. SizeOf(L) -> bytes]

\* The user lists: none, one of any kind, two different ones.
UserLists ==
  {<<>>} \cup {<<u>> : u \in ArgTuples(Layouts.UserInfo, 1)}
  \cup {<<<<Fill(1, IdWidth), <<>>>>, <<<<2>>, Fill(3, NickWidth)>>>>}

DataSamples == {<<>>, <<1>>, <<2, 0>>}

Case(k, n, a, b, h1, h2) ==
  [kind |-> k, layout |-> n, args |-> a, body |-> b, packHost |-> h1, parseHost |-> h2]

Cases ==
  UNION {{Case("msg", n, a, <<>>, h1, h2) :
            a \in ArgTuples(Layouts[n], 1), h1 \in Hosts, h2 \in Hosts} :
         n \in DOMAIN Layouts}
  \cup UNION {{Case("raw", n, <<>>, b, h, h) : b \in Bodies(Layouts[n], RawBytes),
               h \in Hosts} : n \in RawLayouts}
  \cup {Case("users", "UserInfo", u, <<>>, h1, h2) : u \in UserLists, h1, h2 \in Hosts}
  \cup {Case("data", "FileDataHeader", <<id, off, d>>, <<>>, h1, h2) :
          id \in StrSamples(FileIdWidth, 1), off \in IntSamples(U64),
          d \in DataSamples, h1, h2 \in Hosts}

Init == input \in Cases
Next == UNCHANGED input
Spec == Init /\ [][Next]_input

-----------------------------------------------------------------------------
L == Layouts[input.layout]
Sent == Pack(L, input.args, input.packHost)

(* The inputs are the cases above, and every pack function produces         *)
(* exactly sizeof its struct, the bodyLength its header announces.          *)
TypeOK ==
  /\ input \in Cases
  /\ input.kind = "msg" => Len(Sent) = SizeOf(L)

(* Whatever the byte orders of sender and receiver, a parse function reads  *)
(* back what the pack function was given: every integer, through htonl and  *)
(* swap64, and every string cut at its first NUL and at its field's width   *)
(* less one.                                                                *)
RoundTrip ==
  input.kind = "msg" =>
    Parse(L, Sent, input.parseHost) = Ok(Normal(L, input.args))

(* On any body a peer sends, each string a parse function returns lies      *)
(* within its own field and leaves room for the NUL: forcing the last byte  *)
(* of the field to NUL keeps a read from running into the next field.      *)
FieldsBounded ==
  input.kind = "raw" =>
    LET r == Parse(L, input.body, input.packHost) IN
    \A i \in 1 .. Len(L) : L[i].kind = "str" =>
      /\ Len(r.val[i]) < L[i].w
      /\ IsPrefix(r.val[i], SubSeq(input.body, Offset(L, i) + 1, Offset(L, i) + L[i].w))

(* A user list built by sendUserList reaches the client whole: the count    *)
(* and every UserInfo at its place, across byte orders.                    *)
UserListRoundTrip ==
  input.kind = "users" =>
    ParseUserList(PackUserList(input.args, input.packHost), input.parseHost)
      = Ok([i \in 1 .. Len(input.args) |-> Normal(Layouts.UserInfo, input.args[i])])

(* A FILE_DATA body from packFileData gives the receiver's parseFileData    *)
(* the sent fileId, offset and payload, and gives the relay's extractFileId *)
(* the same fileId, so the relay finds the transfer the receiver expects.   *)
FileDataRoundTrip ==
  input.kind = "data" =>
    LET id   == input.args[1]
        body == PackFileData(id, input.args[2], input.args[3], input.packHost)
        want == Truncated(CString(id), FileIdWidth - 1)
    IN /\ ParseFileData(body, input.parseHost) = Ok(<<want, input.args[2], input.args[3]>>)
       /\ ExtractFileId(body) = want

====
