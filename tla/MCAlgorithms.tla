---------------------------- MODULE MCAlgorithms ----------------------------
(* Small instances: bytes of 4 bits for the keys and the texts, 13 bytes      *)
(* for RLP, curves of prime order below 2^8, words of 3 bits.                 *)
EXTENDS Algorithms

MCCurves ==
    {[P |-> 13, A |-> 0, B |-> 7, N |-> 7, Gx |-> 7, Gy |-> 5, BitSize |-> 4],
     [P |-> 43, A |-> 0, B |-> 7, N |-> 31, Gx |-> 2, Gy |-> 12, BitSize |-> 6],
     [P |-> 17, A |-> -3, B |-> 3, N |-> 23, Gx |-> 1, Gy |-> 1, BitSize |-> 5]}

\* y^2 = x^3 + 7, as secp256k1
MCWalletCurve == [P |-> 211, A |-> 0, B |-> 7, N |-> 199, Gx |-> 3, Gy |-> 33, BitSize |-> 8]

\* The tags of RLP: 0 .. 2 bytes, 3 .. 5 short strings, 6, 7 long strings,
\* 8 .. 10 short lists, 11, 12 long lists. The long forms get the headers they need.
Heads == {<<6, 3>>, <<6, 4>>, <<7, 0, 3>>, <<11, 3>>, <<11, 4>>, <<12, 0, 3>>}
MCInputs == BoundedSeq({0, 1, 3, 4, 5, 8, 9, 11}, 3)
            \cup {<<5>> \o s : s \in BoundedSeq({0, 1, 12}, 2)}
            \cup {h \o s : h \in Heads, s \in BoundedSeq({0, 1, 3, 4, 8, 10}, 4)}

Strings == {<<>>, <<1>>, <<2>>, <<5>>, <<1, 0>>, <<3, 1, 7>>, <<3, 1, 7, 12>>}

OptionalStruct == TStruct(<<Plain(TUint(2)), Optional(TBytes), Optional(TUint(1))>>)
TailStruct == TStruct(<<Plain(TBool), Tagged(TSlice(TUint(2)), <<"tail">>)>>)
OptionalTail == TStruct(<<Optional(TUint(1)), Tagged(TSlice(TString), <<"tail">>)>>)
NilStruct == TStruct(<<Tagged(TPtr(TBytes), <<"nil">>), Tagged(TPtr(TSlice(TBytes)), <<"nil">>)>>)
\* the kind of the tag against the kind of the type, and a field that is ignored
TagStruct == TStruct(<<Tagged(TPtr(TSlice(TUint(1))), <<"nil", "nilString">>), Tagged(TBool, <<"-">>),
                       Tagged(TPtr(TUint(2)), <<"nilList">>)>>)
\* without tags, and a RawValue
BareStruct == TStruct(<<Plain(TPtr(TRaw)), Plain(TPtr(TByteArray(1)))>>)
RawPtrStruct == TStruct(<<Plain(TInterface), Tagged(TPtr(TRaw), <<"nil">>)>>)

\* tags that contradict each other or their types
BadStructs == {TStruct(<<Tagged(TBytes, <<"nil">>)>>), TStruct(<<Optional(TBool), Plain(TBool)>>),
               TStruct(<<Tagged(TSlice(TBool), <<"tail">>), Tagged(TBool, <<"-">>)>>),
               TStruct(<<Tagged(TSlice(TBool), <<"tail", "optional">>)>>),
               TStruct(<<Tagged(TBool, <<"tail">>)>>), TStruct(<<Tagged(TBool, <<"omitempty">>)>>)}
Slices(s) == {NilSlice} \cup s

Value(type, values) == {[type |-> type, value |-> v] : v \in values}

MCRlpValues ==
    Value(TUint(2), {0, 1, 2, 9, 10, 99}) \cup Value(TBigInt, {-1, 0, 1, 9, 99, 100, 9999})
    \cup Value(TUint256, {0, 2, 999}) \cup Value(TBool, BOOLEAN) \cup Value(TBytes, Slices(Strings)) \cup Value(TString, Strings)
    \cup Value(TByteArray(1), {<<0>>, <<7>>}) \cup Value(TInterface, {[bytes |-> <<3>>], NilInterface,
             [list |-> <<>>], [list |-> <<[bytes |-> <<>>], NilInterface, [list |-> <<[bytes |-> <<1>>]>>]>>]})
    \cup Value(TSlice(TBytes), Slices(BoundedSeq(Strings, 2) \cup {<<NilSlice, <<>>>>}))
    \cup Value(TSlice(TSlice(TUint(2))), BoundedSeq({<<>>, <<1>>, <<4, 12>>}, 3))
    \cup Value(TArray(2, TUint(1)), {0, 1, 7} \X {0, 9})
    \cup Value(OptionalStruct, {0, 11} \X {NilSlice, <<>>, <<4>>} \X {0, 3})
    \cup Value(TailStruct, BOOLEAN \X Slices(BoundedSeq({0, 13}, 2)))
    \cup Value(OptionalTail, {0, 2} \X {NilSlice, <<>>, <<<<1>>>>})
    \cup Value(NilStruct, {<<>>, <<NilSlice>>, <<<<>>>>, <<<<3>>>>, <<<<1, 2>>>>}
                          \X {<<>>, <<<<>>>>, <<<<<<>>>>>>, <<<<<<1>>, <<2, 2>>>>>>})
    \cup Value(TagStruct, {<<>>, <<<<>>>>, <<<<0>>>>} \X BOOLEAN \X {<<>>, <<0>>, <<9>>})
    \cup Value(BareStruct, {<<>>, <<<<2>>>>, <<<<8>>>>} \X {<<>>, <<<<7>>>>})
    \cup Value(RawPtrStruct, {NilInterface, [bytes |-> <<>>]} \X {<<>>, <<<<3>>>>, <<<<8>>>>, <<<<4, 9>>>>})
    \cup Value(TPtr(TUint(1)), {<<>>, <<0>>}) \cup Value(TPtr(TBigInt), {<<>>, <<0>>, <<-3>>})
    \cup Value(TPtr(OptionalStruct), {<<>>}) \cup Value(TPtr(OptionalTail), {<<>>})
    \cup {[type |-> t, value |-> ZeroOf(t)] : t \in BadStructs}

MCRlpTypes == {TUint(2), TBigInt, TUint256, TBool, TString, TBytes, TByteArray(1), TRaw, TInterface,
               TSlice(TUint(1)), TArray(2, TUint(1)), NilStruct, TagStruct, BareStruct, RawPtrStruct,
               OptionalStruct, OptionalTail, TailStruct} \cup BadStructs

\* structs that code is generated for
InnerStruct == TStruct(<<Plain(TUint(1)), Optional(TBytes)>>)
OwnStruct == TOwn(<<Plain(TUint(1))>>)
SliceStruct == TStruct(<<Plain(TSlice(InnerStruct)), Optional(TBool), Tagged(TPtr(TBytes), <<"optional", "nil">>)>>)
BigStruct == TStruct(<<Tagged(TPtr(TBigInt), <<"nilList">>), Plain(TUint256), Optional(TPtr(TUint256))>>)
PtrStruct == TStruct(<<Plain(TPtr(OwnStruct)), Optional(TByteArray(1)), Optional(TPtr(InnerStruct))>>)
RawStruct == TStruct(<<Plain(TRaw), Tagged(TPtr(TSlice(TUint(2))), <<"nil">>)>>)
\* the other kind of nil in the last field
LastStruct == TStruct(<<Plain(TString), Tagged(TBigInt, <<"-">>), Tagged(TPtr(TUint(1)), <<"nilList">>)>>)

MCGenTypes == {OptionalStruct, SliceStruct, BigStruct, PtrStruct, RawStruct, NilStruct, LastStruct}

MCGenValues ==
    Value(OptionalStruct, {0, 11} \X {NilSlice, <<>>, <<4>>} \X {0, 3})
    \cup Value(SliceStruct, Slices(BoundedSeq({<<0, <<>>>>, <<9, <<1, 2>>>>}, 2)) \X BOOLEAN \X {<<>>, <<<<>>>>, <<<<3, 1>>>>})
    \cup Value(LastStruct, {<<>>, <<7>>} \X {-1, 4} \X {<<>>, <<0>>, <<9>>})
    \cup Value(BigStruct, {<<>>, <<-2>>, <<0>>, <<700>>} \X {0, 12} \X {<<>>, <<0>>, <<5>>})
    \cup Value(PtrStruct, {<<<<0>>>>, <<<<9>>>>} \X {<<0>>, <<7>>} \X {<<>>, <<<<0, <<>>>>>>, <<<<4, <<1>>>>>>})
    \cup Value(RawStruct, {<<1>>, <<4, 9>>, <<8>>} \X {<<>>, <<<<>>>>, <<<<0, 14>>>>})

\* NewEthTxSigner takes the address of To, so that To is never nil
MCTransactions == {0, 3} \X {1, 50} \X {2} \X {<<<<>>>>, <<<<3, 1>>>>} \X {-1, 0, 700} \X {<<>>, <<4, 5>>}
MCChainIds == {Nothing, 1, 3}

\* the last nonce of every sequence is in range
MCNonces == {<<FillBytes(k, 2), FillBytes(5, 2)>> : k \in {1, 2, 7, 100, 150, 210}}

MCEntropies == {<<>>, <<1>>, <<1, 2, 3>>} \cup (0 .. 15) \X (0 .. 15)
                   \cup {<<0, 0, 0, 1>>, <<0, 7, 9, 15>>, <<12, 0, 0, 0>>, <<15, 15, 15, 15>>}

MCSentences == BoundedSeq(0 .. 8, 3) \cup {<<1, 0, 2>> \o s : s \in (1 .. 8) \X (1 .. 2)}

MCSeeds == (0 .. 15) \X {0, 5, 11}
MCIndexes == {0, 1, 2, 60, 127, 128, 172}

MCTexts == {p \o s : p \in {<<>>, Prefix, <<Minus>>, Prefix \o <<Minus>>, <<Plus>>, Prefix \o <<Plus>>, <<Minus, Plus>>},
                     s \in BoundedSeq({0, 1, 2, 3, 7, LetterX}, 3) \cup {<<2, 0, 0, 0>>, <<3, 3, 3, 3>>}}
MCNumbers == -128 .. 127
MCPayloads == BoundedSeq({0, 1, 11, 15}, 3)
MCCallData == BoundedSeq({0, 9}, 6) \cup {<<0, 0, 0, 0, 0, 0, 1>>, <<1, 2, 3, 4, 5, 6>>}

\* one known token, with its address in lower case
MCTokens == {[address |-> BytesToHex(<<9, 12>>), symbol |-> "TOK", decimals |-> 1]}

NodeTx(blockNumber, to, value, entry, args, legacy) ==
    [blockNumber |-> blockNumber, to |-> to, value |-> value, entry |-> entry, args |-> args, legacy |-> legacy]

Transfers == {GetSignature(erc20Entries[i]) : i \in {j \in DOMAIN erc20Entries :
                  erc20Entries[j].Name \in {"transfer", "approve"}}}

MCNodeTransactions ==
    {NodeTx(b, to, v, <<>>, <<>>, legacy) : b \in {0, 7}, to \in {<<>>, <<3, 11>>}, v \in {0, 4}, legacy \in BOOLEAN}
    \cup {NodeTx(7, to, v, e, args, FALSE) : to \in {<<>>, <<9, 12>>, <<3, 11>>}, v \in {0, 4}, e \in Transfers,
              args \in {<<>>, <<0, 3, 11, 0, 0, 0>>, <<0, 3, 11, 0, 1, 2>>}}

Second == {NodeTx(7, <<3, 11>>, v, <<>>, <<>>, FALSE) : v \in {0, 4}} \cup {NodeTx(0, <<>>, 0, <<7>>, <<>>, TRUE)}

\* up to four transactions, two of each account
MCNodeBlocks == {<<>>} \cup {<<t>> : t \in MCNodeTransactions} \cup (MCNodeTransactions \X Second)
                    \cup (Second \X Second \X Second \X Second)

MCAmounts == {a \o b : a \in BoundedSeq({0, 1, 9}, 2), b \in {<<>>, <<Dot>>, <<Comma, 5>>, <<Dot, 0, 7>>,
                 <<Space, 3, Dot, 9, 9, 9>>, <<Dot, 1, Dot>>}} \cup {<<Minus>>, <<Plus>>}
             \cup {<<sign>> \o s : sign \in {Minus, Plus}, s \in {<<3>>, <<Dot, 7>>, <<1, Dot, 9, 9, 9>>, <<Plus, 1>>}}
             \cup {<<Dot, Plus, 5>>, <<1, Dot, Minus, 5>>}

MCProbes == BoundedSeq({0, 1, 3, 4, 11}, 2) \cup {<<1, 1, 1>>, <<3, 4, 1>>}
MCKeySets ==
    LET strings == BoundedSeq({1, 3, 4, 11}, 2)
    IN  {{a, b, c} : a, b, c \in strings} \cup {{}, strings}
=============================================================================
