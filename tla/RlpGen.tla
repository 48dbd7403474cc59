------------------------------- MODULE RlpGen -------------------------------
(* common/rlp/rlpgen: the generator of EncodeRLP and DecodeRLP. The generated *)
(* text is modelled by what it does when it runs: makeOp chooses the code for *)
(* a type, genWrite is the effect of the statements generated to write a      *)
(* value and genDecode of those to read one. Names of temporaries, imports    *)
(* and conversions of named types are left out.                               *)
EXTENDS Rlp

\* a struct that has methods of its own, generated by an earlier run
TOwn(fields) == [own |-> TRUE] @@ TStruct(fields)

isOwn(t) == "own" \in DOMAIN t
isBig(t) == t.k \in {"bigint", "u256"}

Unhandled == [op |-> "unhandled"]
Unset == [out |-> <<>>]

-----------------------------------------------------------------------------
(* The operations on an EncoderBuffer and a Stream that the code may call.    *)

\* EncoderBuffer. A writer is [buf |-> b], the buffer of an encoder further out, which is
\* written to directly, or [out |-> bytes], which gets everything at the end.
NewEncoderBuffer(dst) ==
    IF "buf" \in DOMAIN dst THEN [buf |-> dst.buf, dst |-> Unset, ownBuffer |-> FALSE]
    ELSE [buf |-> EmptyBuffer, dst |-> dst, ownBuffer |-> TRUE]

Flush(w) ==
    IF w.ownBuffer THEN [out |-> w.dst.out \o makeBytes(w.buf), err |-> "nil"] ELSE [buf |-> w.buf]

\* its methods named Write...
writeMethod(name, buf, v) ==
    CASE name = "WriteBool" -> writeBool(v, buf)
      [] name = "WriteUint64" -> writeUint64(buf, v)
      [] name \in {"WriteBytes", "WriteString"} -> writeBytes(buf, Content(v))
      [] name = "Write" -> Write(buf, Content(v))

\* n is the bytes of the type, for Uint8 .. Uint64
decMethod(name, s, n) ==
    CASE name = "Bool" -> Bool(s)
      [] name = "Uint" -> Uint(s, n)
      [] name \in {"Bytes", "String"} -> Bytes(s)
      [] name = "Raw" -> Raw(s)

MoreDataInList(s) == listLimit(s) > 0

-----------------------------------------------------------------------------
(* makeOp and the constructors of the operations.                             *)

makeBasicOp(t) ==
    LET Basic(write, dec, n) == [op |-> "basic", write |-> write, dec |-> dec, len |-> n]
    IN  CASE t.k = "bool" -> Basic("WriteBool", "Bool", 0)
          [] t.k = "uint" -> Basic("WriteUint64", "Uint", t.len)
          [] t.k = "string" -> Basic("WriteString", "String", 0)
          [] t.k = "bytes" -> Basic("WriteBytes", "Bytes", 0)
          [] t.k = "raw" -> Basic("Write", "Raw", 0)

makeByteArrayOp(t) == [op |-> "bytearray", len |-> t.len]

bigIntOp(t, pointer) == [op |-> "bigint", bounded |-> t.k = "u256", pointer |-> pointer]

RECURSIVE makeOp(_)

encoderDecoderOp(t) == [op |-> "methods", own |-> makeOp(t)]

makePtrOp(t) ==
    LET elem == makeOp(t.elem)
    IN  IF elem = Unhandled THEN Unhandled
        ELSE [op |-> "ptr", elem |-> elem, nilOK |-> t.nilOK, nilValue |-> typeNilKind(t)]

\* a field whose type has no code, or whose tag is wrong or "tail", is an error. zero is
\* what the variable of the type holds at first.
makeStructOp(t) ==
    LET ops == [i \in DOMAIN t.fields |-> [at |-> t.fields[i].at, type |-> t.fields[i].type,
                                          optional |-> t.fields[i].optional,
                                          elem |-> makeOp(t.fields[i].type)]]
        Split2(optional) == SelectSeq(ops, LAMBDA f : f.optional = optional)
    IN  IF ~t.valid \/ \E i \in DOMAIN t.fields : t.fields[i].tail \/ ops[i].elem = Unhandled
        THEN Unhandled
        ELSE [op |-> "struct", zero |-> ZeroOf(t), fields |-> Split2(FALSE), optionalFields |-> Split2(TRUE)]

makeSliceOp(t) ==
    LET elem == makeOp(t.elem)
    IN  IF elem = Unhandled THEN Unhandled ELSE [op |-> "slice", elem |-> elem]

makeOp(t) ==
    CASE isBig(t) -> bigIntOp(t, FALSE)
      [] t.k = "ptr" -> CASE isBig(t.elem) -> bigIntOp(t.elem, TRUE)
                          [] isOwn(t.elem) -> encoderDecoderOp(t.elem)
                          [] OTHER -> makePtrOp(t)
      [] t.k \in {"bool", "uint", "string", "bytes", "raw"} -> makeBasicOp(t)
      [] t.k = "struct" -> makeStructOp(t)
      [] t.k = "slice" -> makeSliceOp(t)
      [] t.k = "bytearray" -> makeByteArrayOp(t)
      [] OTHER -> Unhandled

-----------------------------------------------------------------------------
(* genWrite: the code that writes v.                                          *)

nonZeroCheck(t, v) ==
    CASE t.k = "bool" -> v
      [] t.k = "uint" -> v # 0
      [] t.k = "ptr" -> v # <<>>                        \* v != nil
      [] t.k \in {"string", "bytes", "raw", "slice"} -> Len(Content(v)) > 0
      [] t.k \in {"struct", "bytearray"} -> v # ZeroOf(t)

RECURSIVE genWrite(_, _, _)

bigIntWrite(op, v, buf) ==
    LET Checked(n) == IF n < 0 THEN Fails(buf, "NegativeBigInt") ELSE writeBigInt(buf, n)
    IN  IF ~op.pointer THEN Checked(v)
        ELSE IF v = <<>> THEN Write(buf, <<StringTag>>) ELSE Checked(v[1])

ptrWrite(op, v, buf) ==
    IF v = <<>> THEN Write(buf, IF op.nilValue = "List" THEN <<ListTag>> ELSE <<StringTag>>)
    ELSE genWrite(op.elem, v[1], buf)

\* a field is written if it or one after it is not zero
writeOptionalFields(fields, v, buf) ==
    LET Field(acc, i) ==
            IF \E j \in i .. Len(fields) : nonZeroCheck(fields[j].type, v[fields[j].at])
            THEN genWrite(fields[i].elem, v[fields[i].at], acc) ELSE acc
    IN  FoldLeft(Field, buf, [i \in DOMAIN fields |-> i])

structWrite(op, v, buf) ==
    inList(buf, LAMBDA b :
        writeOptionalFields(op.optionalFields, v,
            FoldLeft(LAMBDA acc, f : genWrite(f.elem, v[f.at], acc), b, op.fields)))

sliceWrite(op, v, buf) ==
    inList(buf, LAMBDA b : FoldLeft(LAMBDA acc, e : genWrite(op.elem, e, acc), b, Content(v)))

\* EncodeRLP: at an error it returns before Flush, and the buffer of an encoder further
\* out holds the error
EncodeRLP(op, v, dst) ==
    LET Returned(w) ==
            IF w.ownBuffer /\ w.buf.err # "nil" THEN [out |-> w.dst.out, err |-> w.buf.err] ELSE Flush(w)
        w == NewEncoderBuffer(dst)
    IN  Returned([w EXCEPT !.buf = genWrite(op, v, @)])

\* an own type's EncodeRLP is given the buffer, and is not called on nil
genWrite(op, v, buf) ==
    CASE op.op = "basic" -> writeMethod(op.write, buf, v)
      [] op.op = "bytearray" -> writeBytes(buf, v)
      [] op.op = "bigint" -> bigIntWrite(op, v, buf)
      [] op.op = "methods" -> EncodeRLP(op.own, v[1], [buf |-> buf]).buf
      [] op.op = "ptr" -> ptrWrite(op, v, buf)
      [] op.op = "struct" -> structWrite(op, v, buf)
      [] op.op = "slice" -> sliceWrite(op, v, buf)

-----------------------------------------------------------------------------
(* genDecode: the code that reads a value from the Stream s, and returns at   *)
(* the first error.                                                           *)

RECURSIVE genDecode(_, _), sliceLoop(_, _, _)

Pointer(r) == Result(r.s, <<r.v>>, r.err)

bigIntDecode(op, s) ==
    IF op.pointer THEN Pointer(BigInt(s, op.bounded)) ELSE BigInt(s, op.bounded)

\* with a nil tag an empty value of the tag's kind is nil, and stays ahead of the Stream; an
\* empty value of the other kind is left to the code of the element
ptrDecode(op, s) ==
    IF ~op.nilOK THEN Pointer(genDecode(op.elem, s))
    ELSE Then(Kind(s), <<>>, LAMBDA k :
             IF k.s.size = 0 /\ k.s.kind = op.nilValue THEN Result(k.s, <<>>, "nil")
             ELSE Pointer(genDecode(op.elem, k.s)))

\* reads field f into the struct that acc holds
decodeField(acc, f) ==
    IF acc.err # "nil" THEN acc
    ELSE Then(genDecode(f.elem, acc.s), acc.v, LAMBDA r :
             Result(r.s, [acc.v EXCEPT ![f.at] = r.v], "nil"))

\* nested conditions: when the list ends at a field, the later ones are not looked at
decodeOptionalFields(fields, acc) ==
    FoldLeft(LAMBDA a, f : IF a.err = "nil" /\ MoreDataInList(a.s) THEN decodeField(a, f) ELSE a,
             acc, fields)

structDecode(op, s) ==
    Then(List(s), op.zero, LAMBDA l :
        Elements(decodeOptionalFields(op.optionalFields,
                     FoldLeft(decodeField, Result(l.s, op.zero, "nil"), op.fields))))

sliceLoop(op, s, got) ==
    IF ~MoreDataInList(s) THEN Result(s, got, "nil")
    ELSE Then(genDecode(op.elem, s), got, LAMBDA r : sliceLoop(op, r.s, Append(got, r.v)))

\* the variable is nil until an element is appended
sliceDecode(op, s) ==
    LET AsSlice(r) == Result(r.s, IF r.v = <<>> THEN NilSlice ELSE r.v, r.err)
    IN  Then(List(s), NilSlice, LAMBDA l : AsSlice(Elements(sliceLoop(op, l.s, <<>>))))

genDecode(op, s) ==
    CASE op.op = "basic" -> decMethod(op.dec, s, op.len)
      [] op.op = "bytearray" -> ReadBytes(s, op.len)
      [] op.op = "bigint" -> bigIntDecode(op, s)
      [] op.op = "methods" -> Pointer(genDecode(op.own, s))
      [] op.op = "ptr" -> ptrDecode(op, s)
      [] op.op = "struct" -> structDecode(op, s)
      [] op.op = "slice" -> sliceDecode(op, s)

-----------------------------------------------------------------------------
\* EncodeRLP of a type, flushed into an empty writer
generateEncoder(t, v) == EncodeRLP(makeOp(t), v, [out |-> <<>>])

\* DecodeRLP of a type, called for one value and nothing after it
generateDecoder(t, b) == onlyValue(genDecode(makeOp(t), NewStream(b, Len(b))))
=============================================================================
