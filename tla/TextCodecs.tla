----------------------------- MODULE TextCodecs -----------------------------
(* Numbers and bytes as text: packages common/hexnum and common/base58, and   *)
(* clients/ethclient/address_encoder.go. A text is a sequence of characters:  *)
(* digits are numbers, the letters of an upper-case digit are Upper higher,   *)
(* and signs, "x" and everything else are negative. A byte is two digits.     *)
EXTENDS Secp256k1

CONSTANTS
    B58,            \* size of the base58 alphabet, 58 in the code
    IntDigits,      \* digits of an int64, 16 in the code
    AddressLen,     \* bytes of an address, 20 in the code
    CheckLen        \* bytes of a base58 checksum, 4 in the code

ASSUME TextAssumption == ByteBits % 2 = 0 /\ {B58, IntDigits, AddressLen, CheckLen} \subseteq Nat \ {0}

HexBase == 2 ^ (ByteBits \div 2)
Upper == HexBase
Minus == -1
LetterX == -2
Other == -3
Plus == -7
Prefix == <<0, LetterX>>        \* "0x"
Letters == HexBase \div 2 + 1 .. HexBase - 1     \* the digits written as letters

\* strings.TrimPrefix, once
TrimPrefix(s, p) == IF IsPrefix(p, s) THEN SubSeq(s, Len(p) + 1, Len(s)) ELSE s

\* without the one sign that strconv and math/big take
Unsigned(s) == IF s # <<>> /\ Head(s) \in {Minus, Plus} THEN Tail(s) ELSE s

IsHex(s) == \A i \in DOMAIN s : s[i] \in 0 .. HexBase - 1 \/ s[i] - Upper \in Letters
Digit(ch) == ch % Upper

\* fmt %x of a number: no leading zeros
RECURSIVE HexDigits(_)
HexDigits(n) == IF n < HexBase THEN <<n>> ELSE Append(HexDigits(n \div HexBase), n % HexBase)

\* fmt %x of bytes
HexOfBytes(b) == FlattenSeq([i \in DOMAIN b |-> <<b[i] \div HexBase, b[i] % HexBase>>])

\* hex.DecodeString
DecodeString(s) ==
    IF Len(s) % 2 # 0 \/ ~IsHex(s) THEN Nothing
    ELSE [i \in 1 .. Len(s) \div 2 |-> Digit(s[2 * i - 1]) * HexBase + Digit(s[2 * i])]

HexValue(s) == FoldLeft(LAMBDA n, ch : n * HexBase + Digit(ch), 0, s)

-----------------------------------------------------------------------------
(* hexnum                                                                     *)

MaxInt64 == HexBase ^ IntDigits \div 2 - 1

\* Int64ToHex, IntToHex: the sign stands behind the prefix
Int64ToHex(n) == Prefix \o (IF n < 0 THEN <<Minus>> \o HexDigits(-n) ELSE HexDigits(n))

\* Uint64ToHex, UintToHex
Uint64ToHex(n) == Prefix \o HexDigits(n)

\* one zero at most stands before the first digit of the bytes; nil is 0
BigIntToHex(n) ==
    IF n = 0 THEN Prefix \o <<0>>
    ELSE Prefix \o TrimPrefix(HexOfBytes(MinBytes(IF n < 0 THEN -n ELSE n)), <<0>>)

BytesToHex(b) == Prefix \o HexOfBytes(b)

\* ParseHexInt64, ParseHexInt: strconv.ParseInt takes a sign and checks the range
ParseHexInt64(s) ==
    LET t == TrimPrefix(s, Prefix)
        body == Unsigned(t)
        n == HexValue(body)
    IN  IF body = <<>> \/ ~IsHex(body) THEN Nothing
        ELSE IF Head(t) = Minus THEN (IF n > MaxInt64 + 1 THEN Nothing ELSE -n)
        ELSE IF n > MaxInt64 THEN Nothing ELSE n

\* strconv.ParseUint takes no sign
ParseHexUint64(s) ==
    LET t == TrimPrefix(s, Prefix)
    IN  IF t = <<>> \/ ~IsHex(t) THEN Nothing
        ELSE IF HexValue(t) > 2 * MaxInt64 + 1 THEN Nothing ELSE HexValue(t)

\* of any length; the empty text is 0
ParseBigInt(s) ==
    LET t == TrimPrefix(s, Prefix)
        b == DecodeString(IF Len(t) % 2 # 0 THEN <<0>> \o t ELSE t)
    IN  IF b = Nothing THEN Nothing ELSE SetBytes(b)

ParseHexBytes(s) == DecodeString(TrimPrefix(s, Prefix))

-----------------------------------------------------------------------------
(* base58: digits below B58, and Other for a character outside the alphabet   *)

RECURSIVE B58Digits(_)
B58Digits(n) == IF n = 0 THEN <<>> ELSE Append(B58Digits(n \div B58), n % B58)

LeadingZeros(s) ==
    LET nonzero == {i \in DOMAIN s : s[i] # 0}
    IN  IF nonzero = {} THEN Len(s) ELSE (CHOOSE i \in nonzero : \A j \in nonzero : i <= j) - 1

Zeros(n) == [i \in 1 .. n |-> 0]

B58Encode(b) == Zeros(LeadingZeros(b)) \o B58Digits(SetBytes(b))

B58Decode(s) ==
    IF \E i \in DOMAIN s : s[i] \notin 0 .. B58 - 1 THEN <<>>
    ELSE Zeros(LeadingZeros(s)) \o MinBytes(FoldLeft(LAMBDA n, d : n * B58 + d, 0, s))

\* first bytes of sha256 twice
B58Sum(b) == FillBytes(FoldLeft(LAMBDA h, d : (h * 3 + d + 2) % 509, 5, b), CheckLen)

CheckEncode(input, version) ==
    LET b == <<version>> \o input IN B58Encode(b \o B58Sum(b))

CheckDecode(s) ==
    LET d == B58Decode(s)
        body == SubSeq(d, 1, Len(d) - CheckLen)
    IN  IF Len(d) < CheckLen + 1 THEN Nothing
        ELSE IF B58Sum(body) # SubSeq(d, Len(d) - CheckLen + 1, Len(d)) THEN Nothing
        ELSE [version |-> d[1], payload |-> Tail(body)]

-----------------------------------------------------------------------------
(* AddressCodec                                                               *)

AddressHash(hex) == FillBytes(FoldLeft(LAMBDA h, d : (h * 5 + d + 1) % 8191, 3, hex), AddressLen)

\* EIP-55: a letter is a capital if the top bit of its digit in the hash is set
Capital(hash, i) ==
    LET b == hash[(i + 1) \div 2]
        digit == IF i % 2 = 1 THEN b \div HexBase ELSE b % HexBase
    IN  digit * 2 >= HexBase

_addressCheckSum(hex) ==
    [i \in DOMAIN hex |->
        IF hex[i] \in Letters /\ Capital(AddressHash(hex), i) THEN hex[i] + Upper ELSE hex[i]]

EncodeBytesToAddress(b) ==
    IF Len(b) # AddressLen THEN Nothing ELSE Prefix \o _addressCheckSum(HexOfBytes(b))

\* neither the length nor the case is looked at
DecodeAddressToBytes(s) == ParseHexBytes(s)
IsValidAddress(s) == DecodeAddressToBytes(s) # Nothing

\* types_address.go: the regular expression, and the checksum of an address as it was typed
ToLower(s) == [i \in DOMAIN s |-> IF s[i] - Upper \in Letters THEN s[i] - Upper ELSE s[i]]

addressIsValid(s) ==
    /\ Len(s) = 2 + 2 * AddressLen /\ SubSeq(s, 1, 2) = Prefix
    /\ \A i \in 3 .. Len(s) : ToLower(s)[i] \in 0 .. HexBase - 1

addressCheckSumCreate(s) == Prefix \o _addressCheckSum(SubSeq(ToLower(s), 3, Len(s)))

addressCheckSumIsValid(s) == s = addressCheckSumCreate(s)
=============================================================================
