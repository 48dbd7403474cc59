-------------------------------- MODULE Abi --------------------------------
(* Package abi: the method templates, call data and the ERC-20 helpers, pure. *)
(* (The registry of known contracts is in SmartContracts.) Call data is a     *)
(* sequence of bytes: SigLen bytes of method id, then words.                  *)
EXTENDS TextCodecs

CONSTANTS WordLen, SigLen      \* bytes of a word and of a method id, 32 and 4 in the code

ASSUME AbiAssumption == WordLen >= AddressLen /\ SigLen >= 2

Entry(name, type, inputs) == [Name |-> name, Type |-> type, Inputs |-> inputs]

\* the entries of erc20tpl, with the types of the inputs
erc20Entries ==
    << Entry("name", "Function", <<>>), Entry("deprecated", "Function", <<>>),
       Entry("addBlackList", "Function", <<"address">>), Entry("upgradedAddress", "Function", <<>>),
       Entry("decimals", "Function", <<>>), Entry("maximumFee", "Function", <<>>),
       Entry("_totalSupply", "Function", <<>>), Entry("unpause", "Function", <<>>),
       Entry("getBlackListStatus", "Function", <<"address">>), Entry("paused", "Function", <<>>),
       Entry("calcFee", "Function", <<"uint256">>), Entry("pause", "Function", <<>>),
       Entry("owner", "Function", <<>>), Entry("symbol", "Function", <<>>),
       Entry("setParams", "Function", <<"uint256", "uint256">>),
       Entry("basisPointsRate", "Function", <<>>), Entry("isBlackListed", "Function", <<"address">>),
       Entry("removeBlackList", "Function", <<"address">>), Entry("MAX_UINT", "Function", <<>>),
       Entry("transferOwnership", "Function", <<"address">>),
       Entry("", "Constructor", <<"uint256", "string", "string", "uint8">>),
       Entry("DestroyedBlackFunds", "Event", <<"address", "uint256">>),
       Entry("Issue", "Event", <<"uint256">>), Entry("Redeem", "Event", <<"uint256">>),
       Entry("Deprecate", "Event", <<"address">>), Entry("AddedBlackList", "Event", <<"address">>),
       Entry("RemovedBlackList", "Event", <<"address">>),
       Entry("Params", "Event", <<"uint256", "uint256">>), Entry("Pause", "Event", <<>>),
       Entry("Unpause", "Event", <<>>),
       Entry("OwnershipTransferred", "Event", <<"address", "address">>),
       Entry("Approval", "Event", <<"address", "address", "uint256">>),
       Entry("Transfer", "Event", <<"address", "address", "uint256">>),
       Entry("transfer", "Function", <<"address", "uint256">>),
       Entry("transferFrom", "Function", <<"address", "address", "uint256">>),
       Entry("balanceOf", "Function", <<"address">>), Entry("oldBalanceOf", "Function", <<"address">>),
       Entry("approve", "Function", <<"address", "uint256">>),
       Entry("increaseApproval", "Function", <<"address", "uint256">>),
       Entry("decreaseApproval", "Function", <<"address", "uint256">>),
       Entry("allowance", "Function", <<"address", "address">>),
       Entry("deprecate", "Function", <<"address">>), Entry("totalSupply", "Function", <<>>),
       Entry("issue", "Function", <<"uint256">>), Entry("redeem", "Function", <<"uint256">>),
       Entry("destroyBlackFunds", "Function", <<"address">>) >>

\* the one known contract of a cold start: its ABI has the same entries, and it
\* has no contract address
rawKnownContractTpl ==
    << [Name |-> "erc20token", Symbol |-> "ERC20", ContractAddress |-> "",
        Decimals |-> 6, Entries |-> erc20Entries] >>

\* the first bytes of Keccak256 of name(types): different for the entries at hand
MethodHash(name, types) ==
    LET same == {i \in DOMAIN erc20Entries : erc20Entries[i].Name = name
                                             /\ erc20Entries[i].Inputs = types}
    IN  FillBytes(Base ^ 2 + (CHOOSE i \in same : \A j \in same : i <= j), SigLen)

\* GetSignature and updateSignature: of any type of entry
GetSignature(e) == MethodHash(e.Name, e.Inputs)

checkSignature(e, signature) == GetSignature(e) = signature

FirstEntry(entries, Test(_)) ==
    LET found == {i \in DOMAIN entries : Test(entries[i])}
    IN  IF found = {} THEN Nothing ELSE entries[CHOOSE i \in found : \A j \in found : i <= j]

GetMethodById(entries, signature) == FirstEntry(entries, LAMBDA e : checkSignature(e, signature))

GetMethodByName(entries, name) == FirstEntry(entries, LAMBDA e : e.Name = name)

_extractMethodId(data) == IF Len(data) < SigLen THEN Nothing ELSE SubSeq(data, 1, SigLen)

\* the last bytes, or padded on the left
bytePad(src, n) ==
    IF Len(src) >= n THEN SubSeq(src, Len(src) - n + 1, Len(src))
    ELSE [i \in 1 .. n - Len(src) |-> 0] \o src

\* a slice of zeros keeps its last one
bytesTrimZero(src) ==
    LET first == LeadingZeros(src) + 1
    IN  SubSeq(src, IF first > Len(src) THEN Len(src) ELSE first, Len(src))

-----------------------------------------------------------------------------
(* paramInput: a value of a parameter as bytes                                *)

SetAddress(b) == bytePad(b, WordLen)
SetBigInt(n) == bytePad(MinBytes(n), WordLen)
SetBool(v) == FillBytes(IF v THEN 1 ELSE 0, WordLen)
GetBigInt(data) == SetBytes(data)
GetBool(data) == data # <<>> /\ Last(data) # 0

\* _byteToInt64: the last bytes, in two's complement; n is 8 in the code
GetInt64(data, n) ==
    LET v == SetBytes(bytePad(data, n)) IN IF v * 2 >= Base ^ n THEN v - Base ^ n ELSE v
SetInt64(v, n) == bytePad(FillBytes(v % Base ^ n, n), WordLen)

\* what is kept of a word for a type
Kept(type) == CASE type \in {"uint256", "int256"} -> WordLen
                [] type = "address" -> AddressLen
                [] type = "bool" -> 1
                [] OTHER -> 0

_parseParam(type, data) ==
    IF Kept(type) = 0 \/ Len(data) < WordLen THEN Nothing
    ELSE SubSeq(data, WordLen - Kept(type) + 1, WordLen)

RECURSIVE parseParams(_, _)
parseParams(types, data) ==
    LET first == _parseParam(Head(types), data)
        rest == parseParams(Tail(types), SubSeq(data, WordLen + 1, Len(data)))
    IN  IF types = <<>> THEN <<>>
        ELSE IF first = Nothing THEN Nothing
        ELSE IF rest = Nothing THEN Nothing ELSE <<first>> \o rest

DecodeInputs(e, data) ==
    IF Len(data) < SigLen THEN Nothing
    ELSE parseParams(e.Inputs, SubSeq(data, SigLen + 1, Len(data)))

\* encodeInputs and encodeInputsBytes: the bytes of a uint256 are taken as they are,
\* a parameter of any other type adds nothing
encodeInputs(e, params) ==
    IF Len(e.Inputs) # Len(params) THEN Nothing
    ELSE GetSignature(e) \o FlattenSeq(
            [i \in DOMAIN params |->
                CASE e.Inputs[i] = "address" -> SetAddress(params[i])
                  [] e.Inputs[i] = "uint256" -> params[i]
                  [] e.Inputs[i] = "bool" -> SetBool(params[i])
                  [] OTHER -> <<>>])

-----------------------------------------------------------------------------
(* erc20.go                                                                   *)

Erc20CallGetBalance(address) ==
    LET b == DecodeAddressToBytes(address)
        data == encodeInputs(GetMethodByName(erc20Entries, "balanceOf"), <<b>>)
    IN  IF b = Nothing THEN Nothing ELSE BytesToHex(data)

Erc20IsTransfer_ByInputs(data) ==
    LET id == _extractMethodId(data)
        e == GetMethodById(erc20Entries, id)
    IN  IF id = Nothing THEN FALSE
        ELSE IF e = Nothing THEN FALSE ELSE e.Inputs = <<"address", "uint256">>
Erc20IsTransfer(data) ==
    LET id == _extractMethodId(data)
    IN  IF id = Nothing THEN FALSE
        ELSE checkSignature(GetMethodByName(erc20Entries, "transfer"), id)

Erc20DecodeAmount(data) == GetBigInt(data)

Erc20DecodeIfTransfer(data) ==
    LET params == DecodeInputs(GetMethodByName(erc20Entries, "transfer"), data)
    IN  IF ~Erc20IsTransfer(data) THEN Nothing
        ELSE IF params = Nothing THEN Nothing
        ELSE [address |-> EncodeBytesToAddress(params[1]), amount |-> GetBigInt(params[2])]
=============================================================================
