------------------------------ MODULE EthJson ------------------------------
(* What goes through JSON: the transactions and blocks of a node              *)
(* (ethclient/types_*.go) and the transfers found in them                     *)
(* (ethclient/decode_*.go), amounts and request ids of the endpoint. A JSON   *)
(* object is a function from the names of its fields to values; a string is a *)
(* text of TextCodecs.                                                        *)
EXTENDS Abi

CONSTANTS KnownTokens      \* the tokens of the client's configuration: [address, symbol, decimals]

JsonString(text) == [kind |-> "string", text |-> text]
JsonNull == [kind |-> "null", text |-> <<>>]
JsonOther == [kind |-> "other", text |-> <<>>]

\* json.Unmarshal into a string: null leaves it empty
unmarshalString(v) == IF v.kind = "other" THEN Nothing ELSE v.text

\* A field of Transaction or Block as UnmarshalJSON reads it
UnmarshalField(rule, v) ==
    LET s == unmarshalString(v)
    IN  IF rule = "raw" THEN v.text
        ELSE IF s = Nothing THEN Nothing
        ELSE CASE rule = "string" -> s
               [] rule = "blockNumber" -> IF s = <<>> THEN 0 ELSE ParseHexInt64(s)
               [] rule = "quantityOrEmpty" -> IF s \in {<<>>, Prefix} THEN 0 ELSE ParseHexInt64(s)
               [] rule = "quantity" -> ParseHexInt64(s)
               [] rule = "unsigned" -> ParseHexUint64(s)
               [] rule = "big" -> ParseBigInt(s)

ZeroValue(rule) == IF rule \in {"string", "raw"} THEN <<>> ELSE IF rule = "big" THEN Nothing ELSE 0

TransactionFields ==
    [blockHash |-> "string", blockNumber |-> "blockNumber", from |-> "string", gas |-> "quantityOrEmpty",
     gasPrice |-> "big", hash |-> "string", input |-> "string", nonce |-> "quantityOrEmpty", to |-> "string",
     transactionIndex |-> "quantityOrEmpty", value |-> "big", type |-> "quantity", chainId |-> "quantity",
     accessList |-> "raw", v |-> "string", r |-> "string", s |-> "string"]

BlockFields ==
    [number |-> "quantity", hash |-> "string", parentHash |-> "string", parentBeaconBlockRoot |-> "string",
     nonce |-> "unsigned", sha3Uncles |-> "string", logsBloom |-> "string", transactionsRoot |-> "string",
     stateRoot |-> "string", receiptsRoot |-> "string", miner |-> "string", baseFeePerGas |-> "big",
     difficulty |-> "quantity", totalDifficulty |-> "string", extraData |-> "string", size |-> "quantity",
     gasLimit |-> "quantity", gasUsed |-> "quantity", timestamp |-> "quantity", blobGasUsed |-> "string",
     excessBlobGas |-> "string", mixHash |-> "string", uncles |-> "raw", withdrawals |-> "raw",
     withdrawalsRoot |-> "string"]

\* The fields that are there, the rest with the zero of their type; Nothing is an error
UnmarshalObject(rules, object) ==
    LET Checked(fields) == IF \E f \in DOMAIN fields : fields[f].bad THEN Nothing
                           ELSE [f \in DOMAIN fields |-> fields[f].v]
        Read(v) == [v |-> v, bad |-> v = Nothing]
    IN  Checked([f \in DOMAIN rules |->
            IF f \in DOMAIN object THEN Read(UnmarshalField(rules[f], object[f]))
            ELSE [v |-> ZeroValue(rules[f]), bad |-> FALSE]])

UnmarshalTransaction(object) == UnmarshalObject(TransactionFields, object)

\* [head, txs]: with full transactions, and without, when txs are hashes
UnmarshalBlock(object, full) ==
    LET Block(head, txs) ==
            IF head = Nothing \/ \E i \in DOMAIN txs : txs[i] = Nothing THEN Nothing
            ELSE [head |-> head, txs |-> txs,
                  hashes |-> [i \in DOMAIN txs |-> IF full THEN txs[i].hash ELSE txs[i]]]
    IN  Block(UnmarshalObject(BlockFields, object.head),
              [i \in DOMAIN object.txs |-> IF full THEN UnmarshalTransaction(object.txs[i])
                                           ELSE unmarshalString(object.txs[i])])

-----------------------------------------------------------------------------
(* Transfers                                                                  *)

\* an address that does not decode, or has another length, becomes ""
_addressToNormal(address) ==
    LET b == DecodeAddressToBytes(address)
        text == IF b = Nothing THEN Nothing ELSE EncodeBytesToAddress(b)
    IN  IF text = Nothing THEN <<>> ELSE text

LowerCase(text) == [i \in DOMAIN text |-> IF text[i] >= Upper THEN text[i] - Upper ELSE text[i]]

tokenGetIfExistByAddress(address) ==
    LET found == {t \in KnownTokens : LowerCase(t.address) = LowerCase(address)}
    IN  IF found = {} THEN Nothing ELSE CHOOSE t \in found : TRUE

_isZeroBigInt(n) == n = 0

transferInfo(tx) ==
    [TxID |-> tx.hash, BlockNum |-> tx.blockNumber, From |-> _addressToNormal(tx.from),
     To |-> _addressToNormal(tx.to), Fee |-> tx.gasPrice * tx.gas, Transfer |-> FALSE,
     SmartContract |-> FALSE, Amount |-> Nothing, Symbol |-> Nothing, InPool |-> FALSE,
     Timestamp |-> Nothing]

\* call is what Erc20DecodeIfTransfer found in the call data
tokenTransfer(info, token, call) ==
    IF call = Nothing THEN Nothing
    ELSE IF call.address = <<>> \/ _isZeroBigInt(call.amount) THEN Nothing
    ELSE [info EXCEPT !.SmartContract = TRUE, !.To = _addressToNormal(call.address),
                      !.Amount = call.amount, !.Symbol = token.symbol]

tokenCall(info, token, data) ==
    IF token = Nothing THEN Nothing
    ELSE IF data = Nothing THEN Nothing
    ELSE tokenTransfer(info, token, Erc20DecodeIfTransfer(data))

\* Nothing is ErrUnsupportedTransactionType or ErrUnsupportedTransactionFormat
transactionDecode(tx) ==
    CASE tx.input \in {<<>>, Prefix} /\ tx.value > 0 ->
             [transferInfo(tx) EXCEPT !.Transfer = TRUE, !.Amount = tx.value, !.Symbol = "ETH"]
      [] tx.input = Prefix /\ tx.value <= 0 -> transferInfo(tx)
      [] OTHER -> IF tx.to \in {<<>>, Prefix} THEN Nothing
                  ELSE tokenCall(transferInfo(tx), tokenGetIfExistByAddress(_addressToNormal(tx.to)),
                                 ParseHexBytes(tx.input))

\* Transactions that are no transfers are left out
decodeAll(txs) ==
    SelectSeq([i \in DOMAIN txs |-> transactionDecode(txs[i])], LAMBDA info : info # Nothing)

inBlock(infos, head) ==
    [i \in DOMAIN infos |-> [infos[i] EXCEPT !.InPool = FALSE, !.Timestamp = head.timestamp,
                                             !.BlockNum = head.number]]

inPool(infos) == [i \in DOMAIN infos |-> [infos[i] EXCEPT !.InPool = TRUE]]

blockDecode(block, full) ==
    [Number |-> block.head.number, BlockID |-> block.head.hash, ParentHash |-> block.head.parentHash,
     Timestamp |-> block.head.timestamp,
     Transactions |-> IF full THEN inBlock(decodeAll(block.txs), block.head) ELSE block.hashes]

\* The orders in which a map from accounts to maps of their transactions is ranged
\* over: any order of the accounts, and any of the transactions of one account
Ranged(txs) ==
    {p \in SetToSeqs(txs) :
        \A i, j, k \in DOMAIN p : (i < j /\ j < k /\ p[i].from = p[k].from) => p[j].from = p[i].from}

\* What may come out: pending transactions first, then queued ones
MemPoolContent(pending, queued) ==
    {inPool(decodeAll(p \o q)) : p \in Ranged(pending), q \in Ranged(queued)}

-----------------------------------------------------------------------------
(* Amounts and ids: digits are decimal here                                   *)

Dot == -4
Comma == -5
Space == -6

RECURSIVE DecimalDigits(_)
DecimalDigits(n) == IF n < 10 THEN <<n>> ELSE Append(DecimalDigits(n \div 10), n % 10)

\* big.Int.SetString
SetDecimal(s) ==
    LET digits == Unsigned(s)
        n == FoldLeft(LAMBDA v, d : v * 10 + d, 0, digits)
    IN  IF digits = <<>> \/ \E i \in DOMAIN digits : digits[i] \notin 0 .. 9 THEN Nothing
        ELSE IF Head(s) = Minus THEN -n ELSE n

DecimalZeros(n) == [i \in 1 .. n |-> 0]

_parseAmountToBigInt_PadLeft(amount, decimals) ==
    LET text == [i \in DOMAIN amount |-> IF amount[i] = Comma THEN Dot ELSE amount[i]]
        clean == SelectSeq(text, LAMBDA ch : ch # Space)
        dot == CHOOSE i \in DOMAIN clean : clean[i] = Dot
        lo == SubSeq(clean, dot + 1, Len(clean))
    IN  IF Dot \notin Range(clean) THEN SetDecimal(clean \o DecimalZeros(decimals))
        ELSE SetDecimal(SubSeq(clean, 1, dot - 1)
                        \o (IF Len(lo) < decimals THEN DecimalZeros(decimals - Len(lo)) \o lo
                            ELSE SubSeq(lo, 1, decimals)))

\* more digits than decimals are cut off
_parseAmountToBigInt(amount, decimals) ==
    LET text == [i \in DOMAIN amount |-> IF amount[i] = Comma THEN Dot ELSE amount[i]]
        clean == SelectSeq(text, LAMBDA ch : ch # Space)
        dots == {i \in DOMAIN clean : clean[i] = Dot}
        dot == CHOOSE i \in dots : TRUE
        lo == SubSeq(clean, dot + 1, Len(clean))
    IN  IF dots = {} THEN SetDecimal(clean \o DecimalZeros(decimals))
        ELSE IF Cardinality(dots) > 1 THEN Nothing
        ELSE SetDecimal(SubSeq(clean, 1, dot - 1)
                        \o (IF Len(lo) < decimals THEN lo \o DecimalZeros(decimals - Len(lo))
                            ELSE SubSeq(lo, 1, decimals)))

_formatBigIntToString(n, decimals) ==
    LET str == DecimalDigits(n)
        point == Len(str) - decimals
    IN  IF point > 0 THEN SubSeq(str, 1, point) \o <<Dot>> \o SubSeq(str, point + 1, Len(str))
        ELSE <<0, Dot>> \o DecimalZeros(-point) \o str

\* RequestId.UnmarshalJSON: the digits of the text without leading zeros, whatever is between
RequestIdUnmarshal(text) ==
    LET digits == SelectSeq(text, LAMBDA ch : ch \in 0 .. 9)
        id == SubSeq(digits, LeadingZeros(digits) + 1, Len(digits))
    IN  IF id = <<>> THEN <<0>> ELSE id

RequestIdMarshal(id) == IF id = <<>> THEN <<0>> ELSE id
=============================================================================
