----------------------------- MODULE Algorithms -----------------------------
(* The pure parts of the program, each checked against what it promises: RLP, *)
(* the curve and its signatures, signed transactions, mnemonics and           *)
(* hierarchical keys, numbers, amounts and addresses as text, call data, the  *)
(* JSON of a node, the index of addresses. A step takes one input and runs    *)
(* the code on it; job holds the input and what came out.                     *)
(* While there is no job, a Stream is read by any sequence of calls, or an    *)
(* index of addresses is built and searched.                                  *)
EXTENDS RlpStream, RlpGen, EthTxSigner, HdWallet, EthJson, FastStore

CONSTANTS
    RlpValues,      \* [type, value]
    RlpTypes,       \* types that arbitrary bytes are decoded into
    GenValues,      \* [type, value] of structs that code is generated for
    GenTypes,       \* structs that arbitrary bytes are decoded into by generated code
    Curves,         \* curves of prime order
    TxCurve,        \* the curve of signed transactions
    Transactions,   \* sequences of the fields of a transaction
    ChainIds,
    Nonces,         \* blocks of the generator of RFC 6979
    Entropies,      \* sequences of bytes of any length
    Sentences,      \* sequences of numbers of words
    Seeds, Indexes, \* of the master keys and of the children of BIP-32
    Texts,          \* sequences of characters
    Numbers,        \* of the number codecs
    Payloads,       \* bytes for base58 and addresses
    CallData,       \* bytes for the ABI decoder
    NodeBlocks,     \* sequences of the transactions of a node
    Amounts,        \* texts of amounts
    Decimals

VARIABLE job

vars == <<streamVars, indexVars, job>>

Idle == [alg |-> "idle"]

Init == StreamInit /\ IndexInit /\ job = Idle

Take(new) == job' = new /\ UNCHANGED <<streamVars, indexVars>>

Keys(c) == 1 .. c.N - 1
Points(c) == {q \in (0 .. c.P - 1) \X (0 .. c.P - 1) : IsOnCurve(c, q)}

EncodeValue ==
    \E x \in RlpValues :
        Take([alg |-> "encode", type |-> x.type, value |-> x.value,
              out |-> EncodeToBytes(x.type, x.value)])

DecodeValue ==
    \E t \in RlpTypes, b \in Inputs :
        Take([alg |-> "decode", type |-> t, bytes |-> b, out |-> DecodeBytes(t, b)])

RunGeneratedEncoder ==
    \E x \in GenValues :
        Take([alg |-> "genencode", type |-> x.type, value |-> x.value,
              out |-> generateEncoder(x.type, x.value)])

RunGeneratedDecoder ==
    \E t \in GenTypes, b \in Inputs :
        Take([alg |-> "gendecode", type |-> t, bytes |-> b, out |-> generateDecoder(t, b)])

AddPoints ==
    \E c \in Curves : \E p, q \in Points(c) \cup {Infinity}, z \in {1, 2, c.P - 1} :
        Take([alg |-> "add", curve |-> c, p |-> p, q |-> q, out |-> Add(c, p, q),
              \* the first point in another representation
              scaled |-> affineFromJacobian(c, addJacobian(c,
                  <<(p[1] * z * z) % c.P, (p[2] * z * z * z) % c.P, (zForAffine(p) * z) % c.P>>,
                  Jacobian(q)))])

Multiply ==
    \E c \in Curves : \E k \in 0 .. 2 * c.N :
        Take([alg |-> "multiply", curve |-> c, k |-> k,
              out |-> ScalarBaseMult(c, FillBytes(k, Size(c) + 1))])

SignHash ==
    \E c \in Curves : \E d \in Keys(c), h \in {1, c.N \div 2, c.N}, k \in Keys(c) :
        LET hash == FillBytes(h, Size(c))
        IN  Take([alg |-> "sign", curve |-> c, d |-> d, hash |-> hash,
                  out |-> SignEthereum(c, hash, d, <<k, k + 1>>)])

SignTransaction ==
    \E tx \in Transactions, id \in ChainIds, d \in {1, 2, TxCurve.N - 1}, k \in Nonces :
        \E signed \in {SignTx(TxCurve, tx, id, d, k)} :
            Take([alg |-> "transaction", tx |-> tx, id |-> id, d |-> d,
                  out |-> IF signed = Nothing THEN <<>> ELSE EncodeRPL(signed)])

MakeMnemonic ==
    \E words \in WordLists, e \in Entropies :
        Take([alg |-> "mnemonic", list |-> words, entropy |-> e, out |-> NewMnemonic(words, e)])

ReadMnemonic ==
    \E words \in {english, japanese}, s \in Sentences :
        LET sentence == [i \in DOMAIN s |-> IF s[i] = 0 THEN "" ELSE words[s[i]]]
        IN  Take([alg |-> "sentence", list |-> words, sentence |-> sentence,
                  out |-> EntropyFromMnemonic(words, sentence)])

DeriveChild ==
    \E seed \in Seeds, i \in Indexes :
        \E key \in {NewMasterKey(seed)} \ {Nothing} :
            Take([alg |-> "child", key |-> key, i |-> i, out |-> NewChildKey(key, i)])

CreateAddress ==
    \E e \in Entropies, coin \in {"Ether", "Bitcoin", "Unknown"} :
        Take([alg |-> "wallet", entropy |-> e, coin |-> CoinType(coin),
              out |-> createNewBIP44Address(english, 3 * (Len(e) \div GroupBytes), CoinType(coin), e)])

WriteNumber == \E n \in Numbers : Take([alg |-> "number", n |-> n, out |-> Int64ToHex(n)])

ReadText == \E s \in Texts : Take([alg |-> "text", text |-> s, out |-> ParseHexInt64(s)])

WriteBytes == \E b \in Payloads : Take([alg |-> "bytes", bytes |-> b, out |-> B58Encode(b)])

DecodeCall ==
    \E e \in DOMAIN erc20Entries, d \in CallData :
        LET data == GetSignature(erc20Entries[e]) \o d
        IN  Take([alg |-> "call", entry |-> erc20Entries[e], args |-> d,
                  out |-> Erc20DecodeIfTransfer(data)])

\* a transaction as a node prints it: pending ones have no block, old ones no chain
\* and no access list, and the quantities have no leading zeros
Quantity(n) == JsonString(Prefix \o HexDigits(n))
Data(b) == JsonString(BytesToHex(b))

NodeJson(t, i) ==
    LET pending == t.blockNumber = 0
        all == [blockHash |-> IF pending THEN JsonNull ELSE Data(<<t.blockNumber>>),
                blockNumber |-> IF pending THEN JsonNull ELSE Quantity(t.blockNumber),
                transactionIndex |-> IF pending THEN JsonNull ELSE Quantity(i - 1),
                hash |-> Data(<<i>>), from |-> Data(<<1, i % 2>>),
                to |-> IF t.to = <<>> THEN JsonNull ELSE Data(t.to), gas |-> Quantity(2),
                gasPrice |-> Quantity(5), nonce |-> Quantity(i), value |-> Quantity(t.value),
                input |-> Data(t.entry \o t.args), type |-> Quantity(IF t.legacy THEN 0 ELSE 2),
                chainId |-> Quantity(1), accessList |-> JsonOther,
                v |-> Quantity(1), r |-> Quantity(9), s |-> Quantity(3)]
    IN  Restrict(all, IF t.legacy THEN DOMAIN all \ {"chainId", "accessList"} ELSE DOMAIN all)

NodeBlock(txs) ==
    [head |-> [number |-> Quantity(7), hash |-> Data(<<7>>), parentHash |-> Data(<<6>>),
               nonce |-> Data(<<0, 0, 0>>), difficulty |-> Quantity(0), timestamp |-> Quantity(33),
               gasLimit |-> Quantity(90), uncles |-> JsonOther, withdrawals |-> JsonOther],
     txs |-> [i \in DOMAIN txs |-> NodeJson(txs[i], i)]]

ReadBlock ==
    \E txs \in NodeBlocks : \E block \in {UnmarshalBlock(NodeBlock(txs), TRUE)} :
    \E pending \in 0 .. Len(txs) :
    \E pool \in IF block = Nothing THEN {Nothing}
                ELSE MemPoolContent({block.txs[i] : i \in 1 .. pending},
                                    {block.txs[i] : i \in pending + 1 .. Len(txs)}) :
        Take([alg |-> "block", txs |-> txs, pending |-> pending, block |-> block, pool |-> pool,
              out |-> IF block = Nothing THEN Nothing ELSE blockDecode(block, TRUE)])

ReadAmount ==
    \E s \in Amounts, d \in Decimals :
        Take([alg |-> "amount", text |-> s, decimals |-> d, out |-> _parseAmountToBigInt(s, d)])

EchoId == \E n \in 0 .. 1000 : Take([alg |-> "id", text |-> DecimalDigits(n),
                                     out |-> RequestIdMarshal(RequestIdUnmarshal(DecimalDigits(n)))])

Finish == job # Idle /\ job' = Idle /\ UNCHANGED <<streamVars, indexVars>>

NoIndex == indexed = {} /\ lookup = NoLookup

ReadStream == job = Idle /\ NoIndex /\ StreamNext /\ UNCHANGED <<job, indexVars>>

UseIndex == job = Idle /\ input = <<>> /\ IndexNext /\ UNCHANGED <<job, streamVars>>

\* one job at a time, and none while a stream is read or an index is used
Compute ==
    /\ job = Idle /\ input = <<>> /\ NoIndex
    /\ \/ EncodeValue \/ DecodeValue \/ RunGeneratedEncoder \/ RunGeneratedDecoder \/ AddPoints \/ Multiply \/ SignHash \/ SignTransaction
       \/ MakeMnemonic \/ ReadMnemonic \/ DeriveChild \/ CreateAddress
       \/ WriteNumber \/ ReadText \/ WriteBytes \/ DecodeCall
       \/ ReadBlock \/ ReadAmount \/ EchoId

Next == Compute \/ Finish \/ ReadStream \/ UseIndex

Spec == Init /\ [][Next]_vars

-----------------------------------------------------------------------------
(* RLP                                                                        *)

\* the fields that a list of a struct with optional fields ends before
LeftOut(t, v) ==
    {i \in DOMAIN t.fields :
        /\ \E o \in 1 .. i : t.fields[o].optional
        /\ \A j \in i .. Len(t.fields) : IsZero(t.fields[j].type, v[t.fields[j].at])}

\* The encoding of a value written out from the definition of RLP: a header in
\* front of the encodings of the elements.
RECURSIVE Rlp(_, _)
Rlp(t, v) ==
    LET AsString(b) ==
            IF Len(b) = 1 /\ b[1] < Single THEN b
            ELSE (IF Len(b) < Short THEN <<StringTag + Len(b)>>
                  ELSE <<LongStringTag + intsize(Len(b))>> \o putint(Len(b))) \o b
        AsList(parts) ==
            LET b == FlattenSeq(parts)
            IN  (IF Len(b) < Short THEN <<ListTag + Len(b)>>
                 ELSE <<LongListTag + intsize(Len(b))>> \o putint(Len(b))) \o b
        Number(n) == AsString(IF n = 0 THEN <<>> ELSE putint(n))
        NilOf(kind) == IF kind = "String" THEN AsString(<<>>) ELSE AsList(<<>>)
        Each(type, s) == [i \in DOMAIN s |-> Rlp(type, s[i])]
        Field(f) == IF isTail(f) THEN FlattenSeq(Each(f.type.elem, Content(v[f.at])))
                    ELSE Rlp(f.type, v[f.at])
    IN  CASE t.k \in {"uint", "bigint", "u256"} -> Number(v)
          [] t.k = "bool" -> Number(IF v THEN 1 ELSE 0)
          [] t.k \in {"string", "bytes", "bytearray"} -> AsString(Content(v))
          [] t.k = "raw" -> Content(v)
          [] t.k \in {"slice", "array"} -> AsList(Each(t.elem, Content(v)))
          [] t.k = "struct" ->
                 AsList([i \in 1 .. Len(t.fields) - Cardinality(LeftOut(t, v)) |-> Field(t.fields[i])])
          [] t.k = "ptr" -> IF v # <<>> THEN Rlp(t.elem, v[1])
                            ELSE NilOf(IF isBig(t.elem) THEN "String" ELSE typeNilKind(t))
          [] t.k = "interface" -> CASE v = NilInterface -> AsList(<<>>)
                                    [] "bytes" \in DOMAIN v -> AsString(v.bytes)
                                    [] "list" \in DOMAIN v -> AsList(Each(TInterface, v.list))

\* some number in v, where the encoder gets to it, is negative
RECURSIVE HasNegative(_, _)
HasNegative(t, v) ==
    CASE t.k = "bigint" -> v < 0
      [] t.k \in {"slice", "array"} -> \E i \in DOMAIN Content(v) : HasNegative(t.elem, v[i])
      [] t.k = "ptr" -> v # <<>> /\ HasNegative(t.elem, v[1])
      [] t.k = "struct" -> \E i \in DOMAIN t.fields : HasNegative(t.fields[i].type, v[t.fields[i].at])
      [] OTHER -> FALSE

\* The encoder collects strings and list headers apart and puts them together at
\* the end: what it produces is the RLP of the value, nested and long lists,
\* optional, tail and ignored fields, the three nil tags, nil pointers, slices and
\* interfaces included (encBuffer). There is an error, and no encoding, exactly for a
\* negative number and for a struct whose tags contradict each other or their types.
\* The sizes computed beforehand are those of the encodings (raw.go).
EncodingIsRlp ==
    job.alg = "encode" =>
        /\ (job.out.err = "nil") = (Serializable(job.type) /\ ~HasNegative(job.type, job.value))
        /\ job.out.out = IF job.out.err = "nil" THEN Rlp(job.type, job.value) ELSE <<>>
        /\ job.type = TUint(Long) => /\ AppendUint64(<<>>, job.value) = job.out.out
                                     /\ IntSize(job.value) = Len(job.out.out)
        /\ job.type = TSlice(TBytes) =>
              LET content == FlattenSeq([i \in DOMAIN Content(job.value) |-> Rlp(TBytes, job.value[i])])
              IN  Len(job.out.out) = ListSize(Len(content))

RECURSIVE ReadAll(_, _)
ReadAll(reader, size) ==
    LET r == encReaderRead(reader, size, <<>>)
    IN  IF r.eof THEN r.out ELSE r.out \o ReadAll(r.reader, size)

\* A caller of EncodeToReader gets the encoding, whatever the size of its buffer: a header
\* or a string that does not fit is continued by the next call (encReader.Read).
ReaderGivesEncoding ==
    (job.alg = "encode" /\ job.out.err = "nil") =>
        \A size \in 1 .. 4 :
            ReadAll(EncodeToReader(encode(job.type, job.value, EmptyBuffer)), size) = job.out.out

\* a pointer that may come back nil: a nil tag counts for every type but the big numbers
MayBeNil(ptr) == ptr.nilOK /\ ~isBig(ptr.elem)
IsEmpty(b, kind) == b = (IF kind = "String" THEN <<StringTag>> ELSE <<ListTag>>)
OtherKind(kind) == IF kind = "String" THEN "List" ELSE "String"

\* The value that comes back. Not told apart in an encoding are: a nil slice and an empty
\* one, a nil interface and an empty list, under a nil tag a nil pointer and one to an empty
\* value of the tag's kind, without one a nil pointer and one to the empty value. A field
\* that was ignored comes back zero, and so do those from the optional one on at which the
\* list ends.
RECURSIVE Reread(_, _)
Reread(t, v) ==
    LET Each(s) == [i \in DOMAIN s |-> Reread(t.elem, s[i])]
        Zeroed == IF \E i \in LeftOut(t, v) : t.fields[i].optional THEN LeftOut(t, v) ELSE {}
        FieldAt(i) == {j \in DOMAIN t.fields \ Zeroed : t.fields[j].at = i}
        Field(i) == IF FieldAt(i) = {} THEN ZeroOf(t.types[i])
                    ELSE Reread(t.fields[CHOOSE j \in FieldAt(i) : TRUE].type, v[i])
        Items(s) == [i \in DOMAIN s |-> Reread(TInterface, s[i])]
        \* the empty value that a nil pointer was written as
        Blank(type) == CASE type.k \in {"bytes", "slice"} -> <<>>
                         [] type.k = "raw" -> <<StringTag>>
                         [] OTHER -> ZeroOf(type)
    IN  CASE t.k \in {"bytes", "raw"} -> Content(v)
          [] t.k \in {"slice", "array"} -> Each(Content(v))
          [] t.k = "struct" -> [i \in DOMAIN v |-> Field(i)]
          [] t.k = "ptr" ->
                 IF v = <<>> THEN IF MayBeNil(t) THEN <<>> ELSE <<Blank(t.elem)>>
                 ELSE IF MayBeNil(t) /\ IsEmpty(Rlp(t.elem, v[1]), typeNilKind(t)) THEN <<>>
                 ELSE <<Reread(t.elem, v[1])>>
          [] t.k = "interface" -> (CASE v = NilInterface -> [list |-> <<>>]
                                     [] "bytes" \in DOMAIN v -> v
                                     [] "list" \in DOMAIN v -> [list |-> Items(v.list)])
          [] OTHER -> v

\* The values whose encoding the decoder refuses: under a nil tag a pointer to an empty
\* value of the other kind, without one a nil pointer to a type that has no empty value.
RECURSIVE Refused(_, _)
Refused(t, v) ==
    CASE t.k \in {"slice", "array"} -> \E i \in DOMAIN Content(v) : Refused(t.elem, v[i])
      [] t.k = "struct" -> \E i \in DOMAIN t.fields \ LeftOut(t, v) :
                               Refused(t.fields[i].type, v[t.fields[i].at])
      [] t.k = "ptr" ->
             IF v # <<>>
             THEN \/ Refused(t.elem, v[1])
                  \/ MayBeNil(t) /\ IsEmpty(Rlp(t.elem, v[1]), OtherKind(typeNilKind(t)))
             ELSE ~MayBeNil(t) /\ \/ t.elem.k = "ptr" /\ Refused(t.elem, <<>>)
                                  \/ t.elem.k = "bytearray" /\ t.elem.len > 0
                                  \/ t.elem.k = "array" /\ t.elem.len > 0
                                  \/ t.elem.k = "struct" /\ \E i \in DOMAIN t.elem.fields :
                                         ~t.elem.fields[i].optional /\ ~t.elem.fields[i].tail
      [] OTHER -> FALSE

\* Decoding what the encoder wrote gives the value back, up to what an encoding does not
\* tell apart (Reread), and fails for the values whose encoding is that of another kind
\* of empty value (Refused), and for no others (Encode and DecodeBytes).
DecodingInvertsEncoding ==
    (job.alg = "encode" /\ job.out.err = "nil") =>
        LET Same(r) == IF Refused(job.type, job.value) THEN r.err # "nil"
                       ELSE r.err = "nil" /\ r.v = Reread(job.type, job.value)
        IN  Same(DecodeBytes(job.type, job.out.out))

HasOptional(t) == t.k = "struct" /\ \E i \in DOMAIN t.fields : t.fields[i].optional

\* Every value has one encoding that the decoder accepts: bytes are decoded only
\* if encoding the result gives the same bytes (ErrCanonSize, ErrCanonInt, EOL).
\* A zero in an optional field is the exception.
OnlyCanonicalAccepted ==
    (job.alg = "decode" /\ job.out.err = "nil" /\ ~HasOptional(job.type)) =>
        EncodeToBytes(job.type, job.out.v).out = job.bytes

\* v with nil in place of every empty slice
RECURSIVE Nilled(_, _)
Nilled(t, v) ==
    CASE t.k \in {"bytes", "raw"} -> IF Content(v) = <<>> THEN NilSlice ELSE v
      [] t.k = "slice" -> IF Content(v) = <<>> THEN NilSlice ELSE [i \in DOMAIN v |-> Nilled(t.elem, v[i])]
      [] t.k = "ptr" -> IF v = <<>> THEN <<>> ELSE <<Nilled(t.elem, v[1])>>
      [] t.k = "struct" -> [i \in DOMAIN v |-> Nilled(t.types[i], v[i])]
      [] OTHER -> v

\* A generated EncodeRLP writes what the reflecting encoder writes for the same type,
\* nil pointers, nil tags, ignored and optional fields included, and fails as it does
\* (rlpgen's genWrite). It takes an empty slice in an optional field for a zero,
\* where the reflecting encoder takes a nil slice only.
GeneratedEncodesAlike ==
    job.alg = "genencode" => job.out = EncodeToBytes(job.type, Nilled(job.type, job.value))

RECURSIVE NilsLast(_)
NilsLast(t) ==
    CASE t.k = "struct" ->
             \A i \in DOMAIN t.fields :
                 LET f == t.fields[i].type
                 IN  NilsLast(f) /\ ((f.k = "ptr" /\ f.nilOK) => (isBig(f.elem) \/ i = Len(t.fields)))
      [] t.k \in {"ptr", "slice"} -> NilsLast(t.elem)
      [] OTHER -> TRUE

\* A generated DecodeRLP accepts the bytes that the reflecting decoder accepts, and gives
\* the same value up to nil for an empty slice (rlpgen's genDecode), if no field follows a
\* pointer with a nil tag: the generated code does not consume the empty value that stands
\* for nil. It accepts more only where the other one finds the wrong kind of empty value
\* under a nil tag, which the generated code leaves to the type pointed to.
GeneratedDecodesAlike ==
    (job.alg = "gendecode" /\ NilsLast(job.type)) =>
        LET Alike(r) == /\ (job.out.err = "nil") => r.err \in {"nil", "WrongEmpty"}
                        /\ (r.err = "nil") => /\ job.out.err = "nil"
                                              /\ Nilled(job.type, job.out.v) = Nilled(job.type, r.v)
        IN  Alike(DecodeBytes(job.type, job.bytes))

\* The functions on slices and the Stream read the same grammar: Split accepts
\* exactly the strings the Stream accepts, with the same content, and SplitUint64
\* the numbers; the iterator visits the elements that CountValues counts and the
\* Stream decodes (raw.go, iterator.go, decode.go).
SplitAgreesWithStream ==
    job.alg = "decode" =>
        LET ok == job.out.err = "nil"
            Listed(items, content) ==
                /\ Len(items) = Len(job.out.v.list)
                /\ CountValues(content) = Len(job.out.v.list)
                /\ FlattenSeq(items) = content
            Agrees(p) ==
                /\ job.type = TBytes =>
                      /\ ok = (p.err = "nil" /\ p.kind # "List" /\ p.rest = <<>>)
                      /\ ok => p.content = job.out.v /\ BytesSize(job.out.v) = Len(job.bytes)
                /\ (job.type = TUint(Long) /\ ok) =>
                      SplitUint64(job.bytes) = [v |-> job.out.v, rest |-> <<>>, err |-> "nil"]
                /\ (job.type = TInterface /\ ok /\ "list" \in DOMAIN job.out.v) =>
                      Listed(listItems(p.content), p.content)
        IN  Agrees(Split(job.bytes))

-----------------------------------------------------------------------------
(* The curve                                                                  *)

\* The group law in affine coordinates: chord and tangent.
AffineSum(c, p, q) ==
    LET slope == (IF p = q THEN (3 * p[1] * p[1] + c.A) * ModInverse((2 * p[2]) % c.P, c.P)
                  ELSE (q[2] - p[2]) * ModInverse((q[1] - p[1]) % c.P, c.P)) % c.P
        x == (slope * slope - p[1] - q[1]) % c.P
    IN  CASE p = Infinity -> q
          [] p # Infinity /\ q = Infinity -> p
          [] p # Infinity /\ q # Infinity /\ p[1] = q[1] /\ (p[2] + q[2]) % c.P = 0 -> Infinity
          [] OTHER -> <<x, (slope * (p[1] - x) - p[2]) % c.P>>

\* Addition in Jacobian coordinates is the group law, for every pair of points:
\* equal points, opposite points, infinity and any z (addJacobian, doubleJacobian).
AddIsGroupLaw ==
    job.alg = "add" =>
        LET sum == AffineSum(job.curve, job.p, job.q)
        IN  job.out = sum /\ job.scaled = sum
            /\ (job.p = job.q => Double(job.curve, job.p) = sum)

RECURSIVE Multiple(_, _)
Multiple(c, k) == IF k = 0 THEN Infinity ELSE AffineSum(c, Multiple(c, k - 1), <<c.Gx, c.Gy>>)

\* ScalarBaseMult is repeated addition, for scalars with leading zeros and
\* beyond the order; its points survive compression (unmarshalCompressed).
MultiplicationIsRepeatedAddition ==
    job.alg = "multiply" =>
        /\ job.out = Multiple(job.curve, job.k % job.curve.N)
        /\ job.out # Infinity =>
              unmarshalCompressed(job.curve, MarshalCompressed(job.curve, job.out)) = job.out

\* A signature of SignEthereum is accepted by VerifyEthereum for the key, with the
\* low s of homestead, and RecoverEthereum finds the key from it, also when the X of
\* the nonce's point exceeds the order.
SignatureRecovers ==
    (job.alg = "sign" /\ job.out # Nothing) =>
        LET c == job.curve
            KeyIs(q) ==
                /\ \A key \in {Marshal(c, q), MarshalCompressed(c, q)} :
                       VerifyEthereum(c, key, job.hash, SubSeq(job.out, 1, 2 * Size(c)), TRUE)
                /\ RecoverEthereum(c, job.hash, job.out) = Marshal(c, q)
        IN  KeyIs(ScalarBaseMult(c, MinBytes(job.d)))

\* what a node makes of a signed transaction: V holds the chain id and the parity, the
\* hash is over the fields, the chain id and two zeros
Received == DecodeBytes(TxStruct, job.out)
SixOf(fields) == [i \in 1 .. 6 |-> fields[i]]
NodeV == Received.v[7] - 35
NodeR == Received.v[8]
NodeHash(id) ==
    hashToInt(TxCurve, Keccak256(Rlp(TxStruct, SixOf(Received.v) \o <<id, 0, 0>>), Size(TxCurve)))
NodeFinds(r, recid) ==
    recoverPubkey(TxCurve, NodeHash(NodeV \div 2), computePointFromX(TxCurve, r, recid), Received.v[9])
        = ScalarBaseMult(TxCurve, MinBytes(job.d))

\* The bytes of a signed transaction decode to the transaction, where an empty To comes
\* back nil, and hold the signer of the hash that was made (EIP-155). Two cases are not as
\* EIP-155 has them. r is the X of the nonce's point and not reduced, and V has its parity
\* only: from an X of at least N the signer is found with r - N and a recovery id that V
\* does not hold (SignEcdsaRfc6979). And without a chain id the hash is made over a zero
\* but V says 1: the signer is found only if the two hashes agree (EthTxSigner.Sign).
TransactionRecovers ==
    (job.alg = "transaction" /\ job.out # <<>>) =>
        LET unreduced == NodeR >= TxCurve.N
            agree == job.id # Nothing \/ (NodeHash(0) - NodeHash(1)) % TxCurve.N = 0
        IN  /\ Received.err = "nil"
            /\ SixOf(Received.v) = SixOf(Reread(TxStruct, job.tx \o <<0, 0, 0>>))
            /\ NodeV \div 2 = IF job.id = Nothing THEN 1 ELSE job.id
            /\ NodeFinds(NodeR % TxCurve.N, (NodeV % 2) + (IF unreduced THEN 2 ELSE 0)) = agree

-----------------------------------------------------------------------------
(* Mnemonics and hierarchical keys                                            *)

\* Every entropy of an accepted length, leading zeros included, has a sentence in
\* every language that gives it back, and both packages write the same one.
MnemonicRoundTrip ==
    (job.alg = "mnemonic" /\ job.out # Nothing) =>
        /\ EntropyFromMnemonic(job.list, job.out) = job.entropy
        /\ job.list = english => /\ Bytes2Mnemonic(job.entropy) = job.out
                                 /\ Mnemonic2Bytes(job.out) = job.entropy

\* A sentence is accepted only if it is the sentence of its entropy up to spaces
\* (a wrong checksum, number of words or word is refused); bip39 and seedphrase agree on
\* the sentences long enough for bip39 (seedphrase itself has no shortest length).
AcceptedSentenceIsTheMnemonic ==
    job.alg = "sentence" =>
        LET words == splitMnemonicWords(job.sentence)
        IN  /\ job.out # Nothing => NewMnemonic(job.list, job.out) = words
            /\ (job.list = english /\ Len(words) >= 3 * MinGroups) =>
                   Mnemonic2Bytes(words) = job.out

\* A child of a public key is the public key of the child, unless the child is
\* hardened, which is refused, or one of the two has no valid key (NewChildKey).
PublicDerivationCommutes ==
    job.alg = "child" =>
        LET Commutes(public) ==
                IF job.i >= FirstHardenedChild THEN public = Nothing
                ELSE (job.out # Nothing /\ public # Nothing) => public = PublicKey(job.out)
        IN  Commutes(NewChildKey(PublicKey(job.key), job.i))

\* Extended keys, private and public, survive Serialize and Deserialize.
SerializedKeyIsKept ==
    (job.alg = "child" /\ job.out # Nothing) =>
        \A key \in {job.out, PublicKey(job.out)} : Deserialize(Serialize(key)) = key

\* The address made from entropy is found again from its mnemonic, whatever
\* spaces the sentence has got, with the same private key (bip44support.go), and
\* the mnemonic gives the same key by way of NewKeyFromMnemonic.
WalletRecovers ==
    (job.alg = "wallet" /\ job.out # Nothing) =>
        LET m == job.out.Bip39Mnemonic
        IN  /\ \A spaces \in {<<>>, <<"">>} :
                   recoverBIP44AddressFromMnemonic(english, spaces \o m, job.coin) = job.out
            /\ NewKeyFromMnemonic(english, m, job.coin, FirstHardenedChild, 0, 0).Key
                   = job.out.PrivateKey

-----------------------------------------------------------------------------
(* Text                                                                       *)

\* Numbers survive their hex form, big integers as well, with one zero at most.
NumbersRoundTrip ==
    job.alg = "number" =>
        /\ ParseHexInt64(job.out) = job.n
        /\ job.n >= 0 =>
              /\ ParseBigInt(BigIntToHex(job.n)) = job.n
              /\ BigIntToHex(job.n) = Uint64ToHex(job.n)
              /\ ParseHexUint64(Uint64ToHex(job.n)) = job.n

\* A text is read as an int64 only if its value, with its sign, is in the range of the
\* type, and the texts with a prefix are read as those without.
ParsedInRange ==
    (job.alg = "text" /\ job.out # Nothing) =>
        LET t == TrimPrefix(job.text, Prefix)
        IN  /\ job.out \in -MaxInt64 - 1 .. MaxInt64
            /\ job.out = IF Head(t) = Minus THEN -HexValue(Tail(t)) ELSE HexValue(Unsigned(t))

\* Bytes survive base58 with all their leading zeros, with and without version and
\* checksum.
Base58RoundTrip ==
    job.alg = "bytes" =>
        /\ B58Decode(job.out) = job.bytes
        /\ \A version \in {0, 1} :
              CheckDecode(CheckEncode(job.bytes, version))
                  = [version |-> version, payload |-> job.bytes]

\* An address of the right length survives its checksummed text, in which only
\* letters are changed, and the text in lower case is the same address. The second
\* implementation (types_address.go) accepts the text and notices every letter
\* whose case was changed.
AddressRoundTrip ==
    (job.alg = "bytes" /\ Len(job.bytes) = AddressLen) =>
        LET text == EncodeBytesToAddress(job.bytes)
        IN  /\ DecodeAddressToBytes(text) = job.bytes
            /\ [i \in DOMAIN text |-> IF text[i] >= Upper THEN text[i] - Upper ELSE text[i]]
                   = BytesToHex(job.bytes)
            /\ addressIsValid(text) /\ addressCheckSumIsValid(text)
            /\ \A i \in 3 .. Len(text) :
                   LET other == IF text[i] < Upper THEN text[i] + Upper ELSE text[i] - Upper
                   IN  {text[i], other} \cap Letters # {} =>
                           ~addressCheckSumIsValid([text EXCEPT ![i] = other])

-----------------------------------------------------------------------------
(* Call data                                                                  *)

\* Call data is taken for a transfer exactly if the method is transfer and both
\* words are there, with the recipient and the amount of the words: no other method
\* with the same parameters (approve) or a similar name (Transfer, transferFrom)
\* is; what the encoder writes is read back (Erc20DecodeIfTransfer).
OnlyTransfersAreTransfers ==
    job.alg = "call" =>
        /\ (job.out # Nothing) = (job.entry.Name = "transfer" /\ Len(job.args) >= 2 * WordLen)
        /\ job.out # Nothing =>
              LET to == SubSeq(job.args, WordLen - AddressLen + 1, WordLen)
                  sent == encodeInputs(job.entry, <<to, SetBigInt(job.out.amount)>>)
              IN  /\ DecodeAddressToBytes(job.out.address) = to
                  /\ Erc20DecodeIfTransfer(sent) = job.out

-----------------------------------------------------------------------------
(* JSON                                                                       *)

\* Every transaction a node prints is read with its values: pending ones, whose block is
\* null, contract creations, whose recipient is null, old ones without the later fields
\* (Transaction.UnmarshalJSON, Block.UnmarshalJSON).
NodeJsonDecodes ==
    job.alg = "block" =>
        /\ job.block # Nothing
        /\ job.block.head.number = 7 /\ job.block.head.timestamp = 33
        /\ job.block.hashes = [i \in DOMAIN job.txs |-> BytesToHex(<<i>>)]
        /\ \A i \in DOMAIN job.txs :
              LET t == job.txs[i]
                  tx == job.block.txs[i]
              IN  /\ tx.blockNumber = t.blockNumber /\ tx.nonce = i
                  /\ tx.transactionIndex = IF t.blockNumber = 0 THEN 0 ELSE i - 1
                  /\ tx.value = t.value /\ tx.gas * tx.gasPrice = 10
                  /\ DecodeAddressToBytes(tx.to) = t.to
                  /\ tx.input = BytesToHex(t.entry \o t.args)

\* The transactions that move money, and no others, come out of a block and of the pool with
\* an amount, each of them once: coins sent without call data, and positive amounts of a
\* transfer call to a known token, to the recipient that the call names (transactionDecode).
\* Those of a block come in the order of the block; those of the pool come in any order in
\* which the two maps are ranged over, but the pending ones before the queued ones.
OnlyTransfersReported ==
    (job.alg = "block" /\ job.out # Nothing) =>
        LET transfer == GetSignature(Entry("transfer", "Function", <<"address", "uint256">>))
            amount(t) == IF t.entry = <<>> THEN t.value
                         ELSE IF /\ t.entry = transfer /\ Len(t.args) >= 2 * WordLen
                                 /\ \E k \in KnownTokens : DecodeAddressToBytes(k.address) = t.to
                         THEN SetBytes(SubSeq(t.args, WordLen + 1, 2 * WordLen)) ELSE 0
            to(t) == IF t.entry = <<>> THEN t.to ELSE SubSeq(t.args, WordLen - AddressLen + 1, WordLen)
            moved == SelectSeq([i \in DOMAIN job.txs |-> [i |-> i, t |-> job.txs[i]]],
                               LAMBDA x : amount(x.t) > 0)
            reported(infos) == SelectSeq(infos, LAMBDA info : info.Amount # Nothing)
            tells(info, x) == /\ info.TxID = BytesToHex(<<x.i>>) /\ info.Amount = amount(x.t)
                              /\ DecodeAddressToBytes(info.To) = to(x.t)
            inOrder(infos) == Len(infos) = Len(moved) /\ \A j \in DOMAIN moved : tells(infos[j], moved[j])
            each(infos) == Len(infos) = Len(moved) /\ \A j \in DOMAIN moved : \E n \in DOMAIN infos :
                               /\ tells(infos[n], moved[j])
                               /\ moved[j].i <= job.pending <=>
                                      n <= Len(SelectSeq(moved, LAMBDA x : x.i <= job.pending))
        IN  /\ inOrder(reported(job.out.Transactions)) /\ each(reported(job.pool))
            /\ \A j \in DOMAIN job.out.Transactions : job.out.Transactions[j].BlockNum = 7
            /\ \A j \in DOMAIN job.pool : job.pool[j].InPool

\* An amount is never read as more than it says, whatever its sign: what the decimals cannot
\* hold is cut off, and a printed amount that is not negative is read back as it was
\* (_parseAmountToBigInt, _formatBigIntToString). A text with its sign behind the point is
\* left out: the code reads ".+5" as "+5".
AmountRoundTrip ==
    (job.alg = "amount" /\ job.out # Nothing) =>
        LET d == job.decimals
            signed == SelectSeq(job.text, LAMBDA ch : ch # Space)
            text == Unsigned(signed)
            whole == SelectSeq(text, LAMBDA ch : ch \in 0 .. 9)
            fraction == Len(whole) + 1 - (IF Len(whole) = Len(text) THEN Len(whole) + 1
                                          ELSE CHOOSE i \in DOMAIN text : text[i] \in {Dot, Comma})
            scaled == SetDecimal(whole \o DecimalZeros(d))     \* the amount times 10^(d + fraction)
            value == scaled \div 10 ^ fraction
        IN  (text = <<>> \/ {Minus, Plus} \cap Range(text) = {}) =>
            /\ job.out = IF signed # <<>> /\ Head(signed) = Minus THEN -value ELSE value
            /\ job.out >= 0 => _parseAmountToBigInt(_formatBigIntToString(job.out, d), d) = job.out

\* The id of a request comes back as it was sent, if it is a number without a sign
\* (RequestId keeps the digits only: -5 comes back as 5).
RequestIdEchoed == job.alg = "id" => job.out = job.text

-----------------------------------------------------------------------------
(* What the parts promise together                                            *)


\* packages crypto and secp256k1: whoever gets a signature or a signed transaction finds
\* the signer, on a curve whose arithmetic is the group's.
SignaturesRecover ==
    /\ AddIsGroupLaw /\ MultiplicationIsRepeatedAddition
    /\ SignatureRecovers /\ TransactionRecovers

\* packages bip39, bip32, bip44 and seedphrase: what a wallet writes down, as a sentence or
\* as an extended key, gives the same keys again, and no other sentence does.
KeysRecover ==
    /\ MnemonicRoundTrip /\ AcceptedSentenceIsTheMnemonic
    /\ PublicDerivationCommutes /\ SerializedKeyIsKept /\ WalletRecovers

\* packages hexnum and base58, addresses, amounts and request ids: what is printed is read
\* back as it was.
TextsRoundTrip ==
    /\ NumbersRoundTrip /\ ParsedInRange /\ Base58RoundTrip
    /\ AddressRoundTrip /\ AmountRoundTrip /\ RequestIdEchoed

\* packages abi and ethclient: from what a node prints, the transfers of coins and tokens
\* are recognised, all of them and nothing else.
TransfersRecognised == OnlyTransfersAreTransfers /\ NodeJsonDecodes /\ OnlyTransfersReported
=============================================================================
