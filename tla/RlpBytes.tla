------------------------------ MODULE RlpBytes ------------------------------
(* Package common/rlp without its types: integers, strings and list headers   *)
(* as bytes, the buffer of the encoder, the Stream of the decoder and the     *)
(* functions on slices that read one value.                                   *)
(*                                                                            *)
(* A byte is a number below Radix. The code's tags split the bytes in five    *)
(* ranges; the constants are the lengths of the ranges, so that               *)
(* Single = 128, Short = 56, Long = 8, IntBuf = 32 is the code and smaller    *)
(* values keep its structure with few bytes.                                  *)
EXTENDS Integers, Sequences, SequencesExt

CONSTANTS
    Single,     \* bytes that are their own encoding: 0 .. 0x7F
    Short,      \* lengths that fit in the tag: 0 .. 55
    Long,       \* lengths of a length, and the bytes of a uint64: 1 .. 8
    IntBuf      \* bytes of uintbuf and of a uint256

ASSUME RlpAssumption ==
    /\ {Single, Short, Long, IntBuf} \subseteq Nat \ {0}
    /\ Long < Short /\ Short <= Single

StringTag == Single                     \* 0x80
LongStringTag == StringTag + Short - 1  \* 0xB7
ListTag == LongStringTag + Long + 1     \* 0xC0
LongListTag == ListTag + Short - 1      \* 0xF7
Radix == LongListTag + Long + 1         \* 0x100

\* what n bytes can hold
Capacity[n \in 0 .. Long] == IF n = 0 THEN 1 ELSE Capacity[n - 1] * Radix
Uint64 == Capacity[Long]                \* 2^64
Byte == 0 .. Radix - 1

-----------------------------------------------------------------------------
(* Integers in big endian order with the least number of bytes.              *)

putint(i) ==
    LET digits[n \in 0 .. i] == IF n < Radix THEN <<n>> ELSE Append(digits[n \div Radix], n % Radix)
    IN  digits[i]

intsize(i) == Len(putint(i))

BigEndian(b) ==
    LET value[n \in 0 .. Len(b)] == IF n = 0 THEN 0 ELSE value[n - 1] * Radix + b[n]
    IN  value[Len(b)]

headsize(n) == IF n < Short THEN 1 ELSE 1 + intsize(n)

puthead(smalltag, largetag, n) ==
    IF n < Short THEN <<smalltag + n>> ELSE <<largetag + intsize(n)>> \o putint(n)

-----------------------------------------------------------------------------
(* encBuffer: the strings in one buffer, the list headers beside it, put in   *)
(* when the bytes are made. A header keeps the size of the headers before it  *)
(* while its list is open, and the size of its content afterwards.            *)

EmptyBuffer == [str |-> <<>>, lheads |-> <<>>, lhsize |-> 0, err |-> "nil"]

\* a writer returns an error: the others are not called, and the buffer is thrown away
Fails(buf, err) == [buf EXCEPT !.err = err]

BufSize(buf) == Len(buf.str) + buf.lhsize

Write(buf, b) == [buf EXCEPT !.str = @ \o b]

writeUint64(buf, i) ==
    Write(buf, CASE i = 0 -> <<StringTag>>
                 [] i \in 1 .. Single - 1 -> <<i>>
                 [] OTHER -> <<StringTag + intsize(i)>> \o putint(i))

encodeStringHeader(n) == puthead(StringTag, LongStringTag, n)

writeBytes(buf, b) ==
    Write(buf, IF Len(b) = 1 /\ b[1] < Single THEN b ELSE encodeStringHeader(Len(b)) \o b)

\* writeBigInt and writeUint256: above a uint64 a string header and all bytes
writeBigInt(buf, i) ==
    IF intsize(i) <= Long THEN writeUint64(buf, i)
    ELSE Write(buf, encodeStringHeader(intsize(i)) \o putint(i))

list(buf) ==
    [buf EXCEPT !.lheads = Append(@, [offset |-> Len(buf.str), size |-> buf.lhsize])]


listEnd(buf, index) ==
    LET lh == buf.lheads[index]
        content == BufSize(buf) - lh.offset - lh.size
    IN  [buf EXCEPT !.lheads[index].size = content, !.lhsize = @ + headsize(content)]

\* copyTo and writeTo produce the same pieces in the same order
makeBytes(buf) ==
    LET Piece(out, head) ==
            [pos |-> head.offset,
             bytes |-> out.bytes \o SubSeq(buf.str, out.pos + 1, head.offset)
                                 \o puthead(ListTag, LongListTag, head.size)]
        out == FoldLeft(Piece, [pos |-> 0, bytes |-> <<>>], buf.lheads)
    IN  out.bytes \o SubSeq(buf.str, out.pos + 1, Len(buf.str))

-----------------------------------------------------------------------------
(* Stream. kind = "none" is the code's -1: the tag ahead was not read yet.    *)
(* Every operation returns the stream, a value and an error ("nil" is nil).    *)

NewStream(input, limit) ==
    [in |-> input, remaining |-> limit, limited |-> limit > 0, stack |-> <<>>,
     kind |-> "none", size |-> 0, kinderr |-> "nil", byteval |-> 0]

NewListStream(input, n) == [NewStream(input, n) EXCEPT !.kind = "List", !.size = n]

Result(s, v, err) == [s |-> s, v |-> v, err |-> err]

\* what the code does next with a result, unless it returns its error
Then(r, none, Rest(_)) == IF r.err # "nil" THEN Result(r.s, none, r.err) ELSE Rest(r)

InList(s) == s.stack # <<>>
listLimit(s) == IF InList(s) THEN Last(s.stack) ELSE 0

Rearm(s) == [s EXCEPT !.kind = "none"]

\* the limits are lowered one after the other, the list first
willRead(s, n) ==
    LET armed == [s EXCEPT !.kind = "none"]
        counted == IF InList(s) THEN [armed EXCEPT !.stack[Len(s.stack)] = @ - n] ELSE armed
    IN  CASE InList(s) /\ n > listLimit(s) -> Result(armed, 0, "ElemTooLarge")
          [] (~InList(s) \/ n <= listLimit(s)) /\ s.limited /\ n > s.remaining ->
                 Result(counted, 0, "ValueTooLarge")
          [] OTHER -> Result(IF s.limited THEN [counted EXCEPT !.remaining = @ - n] ELSE counted, 0, "nil")

readFull(s, n) ==
    Then(willRead(s, n), <<>>, LAMBDA w :
        IF n > Len(w.s.in) THEN Result([w.s EXCEPT !.in = <<>>], <<>>, "UnexpectedEOF")
        ELSE Result([w.s EXCEPT !.in = SubSeq(@, n + 1, Len(@))], SubSeq(w.s.in, 1, n), "nil"))

readByte(s) == Then(readFull(s, 1), 0, LAMBDA r : Result(r.s, r.v[1], "nil"))

readUint(s, n) ==
    CASE n = 0 -> Result(Rearm(s), 0, "nil")
      [] n = 1 -> readByte(s)
      [] OTHER -> Then(readFull(s, n), 0, LAMBDA r :
             IF r.v[1] = 0 THEN Result(r.s, 0, "CanonSize") ELSE Result(r.s, BigEndian(r.v), "nil"))

SetKind(s, kind, size, byteval, err) ==
    [s EXCEPT !.kind = kind, !.size = size, !.byteval = byteval, !.kinderr = err]

\* the size u, read after the tag, of a long string or list
longSize(kind, u) ==
    SetKind(u.s, kind, u.v, 0, IF u.err = "nil" /\ u.v < Short THEN "CanonSize" ELSE u.err)

tagKind(s, b) ==
    CASE b < Single -> SetKind(s, "Byte", 0, b, "nil")
      [] b \in StringTag .. LongStringTag -> SetKind(s, "String", b - StringTag, 0, "nil")
      [] b \in LongStringTag + 1 .. ListTag - 1 ->
             longSize("String", readUint(s, b - LongStringTag))
      [] b \in ListTag .. LongListTag -> SetKind(s, "List", b - ListTag, 0, "nil")
      [] b > LongListTag -> longSize("List", readUint(s, b - LongListTag))

\* a read error leaves kind 0 = Byte, so that Kind repeats the error
tagError(s, r) ==
    SetKind(r.s, "Byte", 0, s.byteval,
            IF s.stack = <<>> /\ r.err \in {"UnexpectedEOF", "ValueTooLarge"} THEN "EOF" ELSE r.err)

\* the tag of the stream s was read with the result r
readKindFrom(s, r) == IF r.err = "nil" THEN tagKind(r.s, r.v) ELSE tagError(s, r)

readKind(s) == readKindFrom(s, readByte(s))

sizeError_NoRemaining(s, r) ==
    CASE r.kinderr # "nil" -> r.kinderr
      [] r.kinderr = "nil" /\ InList(s) /\ r.size > listLimit(s) -> "ElemTooLarge"
      [] OTHER -> "nil"

\* the limit of the list is read before the tag, in s, and compared after it, in r
sizeError(s, r) ==
    CASE r.kinderr # "nil" -> r.kinderr
      [] r.kinderr = "nil" /\ InList(s) /\ r.size > listLimit(s) -> "ElemTooLarge"
      [] r.kinderr = "nil" /\ ~(InList(s) /\ r.size > listLimit(s))
             /\ s.limited /\ r.size > r.remaining -> "ValueTooLarge"
      [] OTHER -> "nil"

KindFrom(r, err) == Result([r EXCEPT !.kinderr = err], 0, err)

newKind(s, r) == KindFrom(r, sizeError(s, r))

\* The value of Kind is the cached kind and size of the stream it returns.
Kind(s) ==
    CASE s.kind # "none" -> Result(s, 0, s.kinderr)
      [] s.kind = "none" /\ InList(s) /\ listLimit(s) = 0 -> Result(s, 0, "EOL")
      [] OTHER -> newKind(s, readKind(s))

\* The methods on a value: what each does with the stream s when Kind found no error.

\* a string of one byte that needed no tag
shortByte(s, b) == s.size = 1 /\ b[1] < Single

\* Bytes, ReadBytes and decodeByteArray: Want is the set of lengths accepted
StringAt(s, Want(_)) ==
    CASE s.kind = "List" -> Result(s, <<>>, "ExpectedString")
      [] s.kind = "Byte" -> IF Want(1) THEN Result(Rearm(s), <<s.byteval>>, "nil")
                            ELSE Result(s, <<>>, "WrongSize")
      [] s.kind = "String" ->
             IF ~Want(s.size) THEN Result(s, <<>>, "WrongSize")
             ELSE Then(readFull(s, s.size), <<>>, LAMBDA r :
                      IF shortByte(s, r.v) THEN Result(r.s, <<>>, "CanonSize") ELSE r)

Bytes(s) == Then(Kind(s), <<>>, LAMBDA k : StringAt(k.s, LAMBDA n : TRUE))
ReadBytes(s, n) == Then(Kind(s), <<>>, LAMBDA k : StringAt(k.s, LAMBDA m : m = n))

rawHead(s) ==
    IF s.kind = "String" THEN encodeStringHeader(s.size) ELSE puthead(ListTag, LongListTag, s.size)

RawAt(s) ==
    IF s.kind = "Byte" THEN Result(Rearm(s), <<s.byteval>>, "nil")
    ELSE Then(readFull(s, s.size), <<>>, LAMBDA r : Result(r.s, rawHead(s) \o r.v, "nil"))

Raw(s) == Then(Kind(s), <<>>, LAMBDA k : RawAt(k.s))

\* r is what readUint returned for the stream s
checkUint(s, r) ==
    CASE r.err = "CanonSize" -> Result(r.s, 0, "CanonInt")
      [] r.err = "nil" /\ s.size > 0 /\ r.v < Single -> Result(r.s, 0, "CanonSize")
      [] OTHER -> r

UintAt(s, n) ==
    CASE s.kind = "List" -> Result(s, 0, "ExpectedString")
      [] s.kind = "Byte" -> IF s.byteval = 0 THEN Result(s, 0, "CanonInt")
                            ELSE Result(Rearm(s), s.byteval, "nil")
      [] s.kind = "String" -> IF s.size > n THEN Result(s, 0, "UintOverflow")
                              ELSE checkUint(s, readUint(s, s.size))

\* Uint64 .. Uint8: n is the bytes of the type
Uint(s, n) == Then(Kind(s), 0, LAMBDA k : UintAt(k.s, n))

bigNumber(s, b) ==
    IF b # <<>> /\ b[1] = 0 THEN Result(s, 0, "CanonInt") ELSE Result(s, BigEndian(b), "nil")

BigIntAt(s, bounded) ==
    CASE s.kind = "List" -> Result(s, 0, "ExpectedString")
      [] s.kind = "Byte" -> bigNumber(Rearm(s), <<s.byteval>>)
      [] s.kind = "String" ->
             CASE s.size = 0 -> Result(Rearm(s), 0, "nil")
               [] s.size > IntBuf /\ bounded -> Result(s, 0, "Uint256Large")
               [] s.size > 0 /\ ~(s.size > IntBuf /\ bounded) ->
                    Then(readFull(s, s.size), 0, LAMBDA r :
                        IF shortByte(s, r.v) THEN Result(r.s, 0, "CanonSize")
                        ELSE bigNumber(r.s, r.v))

\* decodeBigInt (max is unbounded) and ReadUint256 (max is IntBuf)
BigInt(s, bounded) == Then(Kind(s), 0, LAMBDA k : BigIntAt(k.s, bounded))

Bool(s) ==
    Then(Uint(s, 1), FALSE, LAMBDA r :
        IF r.v \in {0, 1} THEN Result(r.s, r.v = 1, "nil") ELSE Result(r.s, FALSE, "BadBool"))

\* the outer limit is a uint64 and the subtraction is not checked
outerLimits(s) ==
    IF InList(s) THEN [s.stack EXCEPT ![Len(s.stack)] = (@ - s.size) % Uint64] ELSE <<>>

List(s) ==
    Then(Kind(s), 0, LAMBDA k :
        IF k.s.kind # "List" THEN Result(k.s, 0, "ExpectedList")
        ELSE Result([k.s EXCEPT !.stack = Append(outerLimits(k.s), k.s.size),
                                !.kind = "none", !.size = 0], k.s.size, "nil"))

ListEnd(s) ==
    CASE ~InList(s) -> Result(s, 0, "NotInList")
      [] InList(s) /\ listLimit(s) > 0 -> Result(s, 0, "NotAtEOL")
      [] OTHER -> Result([s EXCEPT !.stack = Front(@), !.kind = "none", !.size = 0], 0, "nil")

-----------------------------------------------------------------------------
(* raw.go: the same grammar on slices.                                        *)

readSize(b, slen) ==
    LET n == BigEndian(SubSeq(b, 1, slen))
    IN  CASE slen > Len(b) -> [v |-> 0, err |-> "UnexpectedEOF"]
          [] slen <= Len(b) /\ (n < Short \/ b[1] = 0) -> [v |-> 0, err |-> "CanonSize"]
          [] OTHER -> [v |-> n, err |-> "nil"]

foundKind(b, kind, tagsize, size, err) ==
    [kind |-> kind, tagsize |-> tagsize, size |-> size,
     err |-> IF err = "nil" /\ size > Len(b) - tagsize THEN "ValueTooLarge" ELSE err]

\* n is the size read behind the tag
longKind(b, kind, length, n) == foundKind(b, kind, length + 1, n.v, n.err)

tagKindOf(b, tag) ==
    CASE tag < Single -> foundKind(b, "Byte", 0, 1, "nil")
      [] tag \in StringTag .. LongStringTag ->
             foundKind(b, "String", 1, tag - StringTag,
                       IF tag = StringTag + 1 /\ Len(b) > 1 /\ b[2] < Single THEN "CanonSize" ELSE "nil")
      [] tag \in LongStringTag + 1 .. ListTag - 1 ->
             longKind(b, "String", tag - LongStringTag, readSize(Tail(b), tag - LongStringTag))
      [] tag \in ListTag .. LongListTag -> foundKind(b, "List", 1, tag - ListTag, "nil")
      [] tag > LongListTag ->
             longKind(b, "List", tag - LongListTag, readSize(Tail(b), tag - LongListTag))

\* readKind of raw.go
SliceKind(b) ==
    IF b = <<>> THEN [kind |-> "Byte", tagsize |-> 0, size |-> 0, err |-> "UnexpectedEOF"]
    ELSE tagKindOf(b, b[1])

Split(b) ==
    LET At(k) ==
            [kind |-> k.kind, err |-> k.err,
             content |-> IF k.err = "nil" THEN SubSeq(b, k.tagsize + 1, k.tagsize + k.size) ELSE <<>>,
             rest |-> IF k.err = "nil" THEN SubSeq(b, k.tagsize + k.size + 1, Len(b)) ELSE b]
    IN  At(SliceKind(b))

SplitUint64(b) ==
    LET No(err) == [v |-> 0, rest |-> b, err |-> err]
        Number(c, rest) ==
            CASE c = <<>> -> [v |-> 0, rest |-> rest, err |-> "nil"]
              [] Len(c) > Long -> No("UintOverflow")
              [] Len(c) \in 1 .. Long ->
                     IF c[1] = 0 \/ (Len(c) > 1 /\ readSize(c, Len(c)).err # "nil") THEN No("CanonInt")
                     ELSE [v |-> BigEndian(c), rest |-> rest, err |-> "nil"]
        Of(p) == IF p.err # "nil" THEN No(p.err)
                 ELSE IF p.kind = "List" THEN No("ExpectedString") ELSE Number(p.content, p.rest)
    IN  Of(Split(b))

\* the values after the first one, whose kind is k
restAfter(b, k) == SubSeq(b, k.tagsize + k.size + 1, Len(b))
=============================================================================
