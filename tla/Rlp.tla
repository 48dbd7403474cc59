-------------------------------- MODULE Rlp --------------------------------
(* Package common/rlp with its types: the writers and the decoders of the     *)
(* types, the reader of an encoding, and the functions on slices that walk    *)
(* through a list (CountValues, listIterator).                                *)
EXTENDS RlpBytes, FiniteSetsExt

CONSTANT NilSlice    \* a slice that is nil

\* encReader: the pieces one by one, for a caller that reads with a buffer of any size. A
\* piece is never empty, so <<>> is nil.
EncodeToReader(buf) == [buf |-> buf, lhpos |-> 0, strpos |-> 0, piece |-> <<>>]

encReaderNext(r) ==
    LET str == r.buf.str
        before == r.lhpos < Len(r.buf.lheads)
        head == r.buf.lheads[r.lhpos + 1]
        upTo == IF before THEN head.offset ELSE Len(str)
    IN  IF r.piece # <<>> THEN r
        ELSE IF before /\ r.strpos >= head.offset
        THEN [r EXCEPT !.piece = puthead(ListTag, LongListTag, head.size), !.lhpos = @ + 1]
        ELSE [r EXCEPT !.piece = SubSeq(str, r.strpos + 1, upTo), !.strpos = upTo]

\* one call with room for size bytes, of which out are filled
RECURSIVE encReaderRead(_, _, _)
encReaderRead(r, size, out) ==
    LET n == encReaderNext(r)
        taken == SubSeq(n.piece, 1, size - Len(out))
    IN  IF n.piece = <<>> THEN [reader |-> n, out |-> out, eof |-> TRUE]
        ELSE IF size - Len(out) < Len(n.piece)
        THEN [reader |-> [n EXCEPT !.piece = SubSeq(@, Len(taken) + 1, Len(@))],
              out |-> out \o taken, eof |-> FALSE]
        ELSE encReaderRead([n EXCEPT !.piece = <<>>], size, out \o n.piece)

-----------------------------------------------------------------------------
(* Types and their values. A pointer is <<>> (nil) or <<value>>. A slice is a *)
(* sequence, or NilSlice, which has no elements either. An interface holds a  *)
(* byte slice, [bytes |-> ...], a slice of interfaces, [list |-> ...], or is  *)
(* nil.                                                                       *)

TUint(n) == [k |-> "uint", len |-> n]           \* n bytes
TBool == [k |-> "bool"]
TBigInt == [k |-> "bigint"]
TUint256 == [k |-> "u256"]
TString == [k |-> "string"]
TBytes == [k |-> "bytes"]                       \* []byte
TByteArray(n) == [k |-> "bytearray", len |-> n]
TRaw == [k |-> "raw"]
TSlice(t) == [k |-> "slice", elem |-> t]
TArray(n, t) == [k |-> "array", len |-> n, elem |-> t]
TPtr(t) == [k |-> "ptr", elem |-> t, nilOK |-> FALSE, nilKind |-> "default"]
TInterface == [k |-> "interface"]
NilInterface == [nil |-> TRUE]

Content(slice) == IF slice = NilSlice THEN <<>> ELSE slice

\* DefaultNilValue: what a nil pointer to t looks like. A RawValue is a byte slice.
DefaultNilValue(t) ==
    IF t.k \in {"uint", "bool", "string", "bytes", "bytearray", "raw"} THEN "String" ELSE "List"

typeNilKind(ptr) == IF ptr.nilOK THEN ptr.nilKind ELSE DefaultNilValue(ptr.elem)

\* an exported field of a struct, with the parts of its rlp tag
Tagged(t, tag) == [type |-> t, tag |-> tag]
Plain(t) == Tagged(t, <<>>)
Optional(t) == Tagged(t, <<"optional">>)

NilTags == {"nil", "nilString", "nilList"}

\* what parseTag refuses; []byte and RawValue are slices to it
badTag(fields, i) ==
    LET tag == ToSet(fields[i].tag)
        kind == fields[i].type.k
    IN  \/ ~(tag \subseteq NilTags \cup {"", "-", "optional", "tail"})
        \/ tag \cap NilTags # {} /\ kind # "ptr"
        \/ {"optional", "tail"} \subseteq tag
        \/ "tail" \in tag /\ (i # Len(fields) \/ kind \notin {"slice", "bytes", "raw"})

\* parseTag: the last of several nil tags counts. What it says of nil goes into the type.
parseTag(fields, i) ==
    LET t == fields[i].type
        tag == ToSet(fields[i].tag)
        nils == SelectSeq(fields[i].tag, LAMBDA part : part \in NilTags)
        nilKind == CASE Last(nils) = "nil" -> DefaultNilValue(t.elem)
                     [] Last(nils) = "nilString" -> "String"
                     [] Last(nils) = "nilList" -> "List"
    IN  [at |-> i, ignored |-> "-" \in tag, optional |-> "optional" \in tag, tail |-> "tail" \in tag,
         type |-> IF nils = <<>> THEN t ELSE [t EXCEPT !.nilOK = TRUE, !.nilKind = nilKind]]

\* ProcessFields: the fields that are encoded; nothing but optional fields and a tail
\* may follow an optional one
ProcessFields(fields) ==
    LET kept == SelectSeq([i \in DOMAIN fields |-> parseTag(fields, i)], LAMBDA f : ~f.ignored)
        May(i) == kept[i].optional \/ kept[i].tail
    IN  IF \E i \in DOMAIN fields : badTag(fields, i) THEN [valid |-> FALSE, fields |-> <<>>]
        ELSE [valid |-> \A i, j \in DOMAIN kept : (i < j /\ May(i)) => May(j), fields |-> kept]

\* structFields: the types of all the fields, and the ones that are encoded
TStruct(fields) ==
    LET processed == ProcessFields(fields)
    IN  [k |-> "struct", types |-> [i \in DOMAIN fields |-> fields[i].type],
         valid |-> processed.valid, fields |-> processed.fields]

\* makeWriter and makeDecoder return no error
RECURSIVE Serializable(_)
Serializable(t) ==
    CASE t.k = "struct" -> t.valid /\ \A i \in DOMAIN t.fields : Serializable(t.fields[i].type)
      [] t.k \in {"ptr", "slice", "array"} -> Serializable(t.elem)
      [] OTHER -> TRUE

RECURSIVE IsZero(_, _)
IsZero(t, v) ==
    CASE t.k \in {"uint", "bigint", "u256"} -> v = 0
      [] t.k = "bool" -> ~v
      [] t.k \in {"bytes", "slice", "raw"} -> v = NilSlice
      [] t.k \in {"ptr", "string"} -> v = <<>>
      [] t.k = "bytearray" -> \A i \in DOMAIN v : v[i] = 0
      [] t.k = "array" -> \A i \in DOMAIN v : IsZero(t.elem, v[i])
      [] t.k = "struct" -> \A i \in DOMAIN v : IsZero(t.types[i], v[i])
      [] t.k = "interface" -> v = NilInterface

\* makeStructWriter: from the first optional field on, what is zero at the end is left out
LastField(fields, v) ==
    LET optional == {i \in DOMAIN fields : fields[i].optional}
        kept == {i \in DOMAIN fields : \/ \A o \in optional : i < o
                                      \/ ~IsZero(fields[i].type, v[fields[i].at])}
    IN  Max(kept \cup {0})

RECURSIVE encode(_, _, _)

\* what Write does to an open list becomes its content
inList(buf, Write1(_)) == listEnd(Write1(list(buf)), Len(buf.lheads) + 1)

writeElems(t, s, buf) == FoldLeft(LAMBDA acc, e : encode(t, e, acc), buf, s)

\* an array of length zero is an empty list as well
makeSliceWriter(t, v, buf) ==
    IF Content(v) = <<>> THEN Write(buf, <<ListTag>>)
    ELSE inList(buf, LAMBDA b : writeElems(t.elem, v, b))

\* a tail of bytes is written and read as a string
isTail(f) == f.tail /\ f.type.k = "slice"

makeStructWriter(fields, v, buf) ==
    LET Field(acc, i) ==
            IF isTail(fields[i]) THEN writeElems(fields[i].type.elem, Content(v[fields[i].at]), acc)
            ELSE encode(fields[i].type, v[fields[i].at], acc)
    IN  inList(buf, LAMBDA b : FoldLeft(Field, b, [i \in 1 .. LastField(fields, v) |-> i]))

makePtrWriter(t, v, buf) ==
    IF v # <<>> THEN encode(t.elem, v[1], buf)
    ELSE Write(buf, IF typeNilKind(t) = "String" THEN <<StringTag>> ELSE <<ListTag>>)

\* a uint256 is never negative
writeBigIntNoPtr(v, buf) == IF v < 0 THEN Fails(buf, "NegativeBigInt") ELSE writeBigInt(buf, v)

\* writeBigIntPtr and writeU256IntPtr: nil is zero, whatever the tag
writeBigIntPtr(v, buf) ==
    IF v = <<>> THEN Write(buf, <<StringTag>>) ELSE writeBigIntNoPtr(v[1], buf)

writeInterface(v, buf) ==
    CASE v = NilInterface -> Write(buf, <<ListTag>>)
      [] "bytes" \in DOMAIN v -> writeBytes(buf, v.bytes)
      [] "list" \in DOMAIN v -> encode(TSlice(TInterface), v.list, buf)

writeBool(v, buf) == Write(buf, IF v THEN <<1>> ELSE <<StringTag>>)

\* makeWriter
encode(t, v, buf) ==
    CASE t.k = "raw" -> Write(buf, Content(v))
      [] t.k = "uint" -> writeUint64(buf, v)
      [] t.k \in {"bigint", "u256"} -> writeBigIntNoPtr(v, buf)
      [] t.k = "bool" -> writeBool(v, buf)
      [] t.k \in {"string", "bytes", "bytearray"} -> writeBytes(buf, Content(v))
      [] t.k \in {"slice", "array"} -> makeSliceWriter(t, v, buf)
      [] t.k = "ptr" -> IF t.elem.k \in {"bigint", "u256"} THEN writeBigIntPtr(v, buf)
                        ELSE makePtrWriter(t, v, buf)
      [] t.k = "struct" -> makeStructWriter(t.fields, v, buf)
      [] t.k = "interface" -> writeInterface(v, buf)

EncodeToBytes(t, v) ==
    LET Returned(buf) == [out |-> IF buf.err = "nil" THEN makeBytes(buf) ELSE <<>>, err |-> buf.err]
    IN  Returned(IF Serializable(t) THEN encode(t, v, EmptyBuffer) ELSE Fails(EmptyBuffer, "TagError"))

-----------------------------------------------------------------------------
(* makeDecoder and the decoders it returns, into a zero value.                *)

RECURSIVE ZeroOf(_)
ZeroOf(t) ==
    CASE t.k \in {"uint", "bigint", "u256"} -> 0
      [] t.k = "bool" -> FALSE
      [] t.k = "bytearray" -> [i \in 1 .. t.len |-> 0]
      [] t.k = "array" -> [i \in 1 .. t.len |-> ZeroOf(t.elem)]
      [] t.k = "struct" -> [i \in DOMAIN t.types |-> ZeroOf(t.types[i])]
      [] t.k \in {"bytes", "slice", "raw"} -> NilSlice
      [] t.k \in {"string", "ptr"} -> <<>>
      [] t.k = "interface" -> NilInterface

\* the struct v with the fields from number i on zeroed
zeroFields(fields, i, v) ==
    [at \in DOMAIN v |-> IF \E j \in i .. Len(fields) : fields[j].at = at
                         THEN ZeroOf(fields[CHOOSE j \in i .. Len(fields) : fields[j].at = at].type)
                         ELSE v[at]]

RECURSIVE Decode(_, _), SliceElems(_, _, _, _), StructFields(_, _, _, _)

\* the result r of an element, after those in got
SliceElem(t, r, max, got) ==
    CASE r.err = "EOL" -> Result(r.s, got, "nil")
      [] r.err = "nil" -> SliceElems(t, r.s, max, Append(got, r.v))
      [] OTHER -> Result(r.s, got, r.err)

\* decodeSliceElems (max < 0) and the loop of decodeListArray (max elements)
SliceElems(t, s, max, got) ==
    IF Len(got) = max THEN Result(s, got, "nil") ELSE SliceElem(t, Decode(t, s), max, got)

\* field i of the struct v has the result r
StructField(fields, i, r, v) ==
    CASE r.err = "nil" -> StructFields(fields, i + 1, r.s, [v EXCEPT ![fields[i].at] = r.v])
      [] r.err = "EOL" /\ fields[i].optional -> Result(r.s, zeroFields(fields, i, v), "nil")
      [] r.err = "EOL" /\ ~fields[i].optional -> Result(r.s, v, "TooFewElements")
      [] OTHER -> Result(r.s, v, r.err)

\* the loop of makeStructDecoder, from field i on
StructFields(fields, i, s, v) ==
    IF i > Len(fields) THEN Result(s, v, "nil")
    ELSE StructField(fields, i,
                     IF isTail(fields[i]) THEN SliceElems(fields[i].type.elem, s, -1, <<>>)
                     ELSE Decode(fields[i].type, s), v)

closeList(v, end) == Result(end.s, v, end.err)

\* the elements were read with the result e: s.ListEnd
Elements(e) == IF e.err # "nil" THEN e ELSE closeList(e.v, ListEnd(e.s))

decodeListSlice(t, s) ==
    Then(List(s), <<>>, LAMBDA l : Elements(SliceElems(t, l.s, -1, <<>>)))

allOf(n, e) ==
    IF e.err = "nil" /\ Len(e.v) < n THEN Result(e.s, e.v, "TooFewElements") ELSE e

decodeListArray(t, n, s) ==
    Then(List(s), <<>>, LAMBDA l : Elements(allOf(n, SliceElems(t, l.s, n, <<>>))))

makeStructDecoder(t, s) ==
    Then(List(s), ZeroOf(t), LAMBDA l : Elements(StructFields(t.fields, 1, l.s, ZeroOf(t))))

makeSimplePtrDecoder(t, s) ==
    Then(Decode(t, s), <<>>, LAMBDA r : Result(r.s, <<r.v>>, "nil"))

\* an empty value of the right kind is nil
makeNilPtrDecoder(ptr, s) ==
    Then(Kind(s), <<>>, LAMBDA k :
        CASE k.s.kind = "Byte" \/ k.s.size > 0 -> makeSimplePtrDecoder(ptr.elem, k.s)
          [] k.s.kind # "Byte" /\ k.s.size = 0 ->
                 IF k.s.kind = typeNilKind(ptr) THEN Result(Rearm(k.s), <<>>, "nil")
                 ELSE Result(k.s, <<>>, "WrongEmpty"))

interfaceList(r) == Result(r.s, [list |-> r.v], r.err)
interfaceBytes(r) == Result(r.s, [bytes |-> r.v], r.err)

decodeInterface(s) ==
    Then(Kind(s), <<>>, LAMBDA k :
        IF k.s.kind = "List" THEN interfaceList(decodeListSlice(TInterface, k.s))
        ELSE interfaceBytes(Bytes(k.s)))

\* an array of bytes takes a string of exactly its length
decodeByteArray(t, s) == ReadBytes(s, t.len)

\* makeDecoder
Decode(t, s) ==
    CASE t.k = "raw" -> Raw(s)
      [] t.k = "uint" -> Uint(s, t.len)
      [] t.k = "bigint" -> BigInt(s, FALSE)
      [] t.k = "u256" -> BigInt(s, TRUE)
      [] t.k = "bool" -> Bool(s)
      [] t.k \in {"string", "bytes"} -> Bytes(s)
      [] t.k = "bytearray" -> decodeByteArray(t, s)
      [] t.k = "slice" -> decodeListSlice(t.elem, s)
      [] t.k = "array" -> decodeListArray(t.elem, t.len, s)
      [] t.k = "struct" -> makeStructDecoder(t, s)
      [] t.k = "ptr" -> IF t.nilOK /\ t.elem.k \notin {"bigint", "u256"}
                        THEN makeNilPtrDecoder(t, s) ELSE makeSimplePtrDecoder(t.elem, s)
      [] t.k = "interface" -> decodeInterface(s)

\* DecodeBytes: one value and nothing after it
onlyValue(r) ==
    IF r.err = "nil" /\ r.s.in # <<>> THEN Result(r.s, r.v, "MoreThanOneValue") ELSE r

DecodeBytes(t, b) ==
    LET s == NewStream(b, Len(b))
    IN  IF Serializable(t) THEN onlyValue(Decode(t, s)) ELSE Result(s, ZeroOf(t), "TagError")

-----------------------------------------------------------------------------
(* raw.go: more than one value.                                               *)

RECURSIVE CountValues(_)
CountValues(b) ==
    LET Plus1(n) == IF n < 0 THEN -1 ELSE n + 1     \* -1 is an error
        From(k) == IF k.err # "nil" THEN -1 ELSE Plus1(CountValues(restAfter(b, k)))
    IN  IF b = <<>> THEN 0 ELSE From(SliceKind(b))

\* listIterator: the values in the content of a list, up to the first malformed one
RECURSIVE listItems(_)
listItems(b) ==
    LET From(k) == IF k.err # "nil" THEN <<>>
                   ELSE <<SubSeq(b, 1, k.tagsize + k.size)>> \o listItems(restAfter(b, k))
    IN  IF b = <<>> THEN <<>> ELSE From(SliceKind(b))

\* AppendUint64 and EncoderBuffer.WriteUint64 without a buffer
AppendUint64(b, i) ==
    b \o (CASE i = 0 -> <<StringTag>>
            [] i \in 1 .. Single - 1 -> <<i>>
            [] OTHER -> <<StringTag + intsize(i)>> \o putint(i))

\* StringSize, BytesSize
BytesSize(b) ==
    CASE b = <<>> -> 1
      [] Len(b) = 1 -> IF b[1] < Single THEN 1 ELSE 2
      [] OTHER -> headsize(Len(b)) + Len(b)

ListSize(n) == headsize(n) + n

IntSize(x) == IF x < Single THEN 1 ELSE 1 + intsize(x)
=============================================================================
