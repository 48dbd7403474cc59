------------------------------ MODULE HdWallet ------------------------------
(* Mnemonics and hierarchical keys: packages common/bip39, common/seedphrase, *)
(* common/bip32, common/bip44 and address/bip44support.go. A sentence is a    *)
(* sequence of words in which "" stands for a superfluous space.              *)
(*                                                                            *)
(* The code has words of 11 bits, groups of 32 bits of entropy (3 words carry *)
(* a group and one bit of checksum), sentences of 4 to 8 groups, and 4 bytes  *)
(* in an index, a version, a fingerprint and a checksum. The constants scale  *)
(* these numbers and keep their relations.                                    *)
EXTENDS Secp256k1

CONSTANTS
    WordBits, GroupBits,    \* 11, 32
    MinGroups, MaxGroups,   \* 4, 8
    IndexBytes,             \* 4
    WalletCurve             \* curve of bip32/utils.go

ASSUME HdAssumption ==
    /\ 3 * WordBits = GroupBits + 1
    /\ GroupBits % ByteBits = 0
    /\ MinGroups \in 1 .. MaxGroups /\ MaxGroups <= ByteBits
    /\ WalletCurve.A = 0

GroupBytes == GroupBits \div ByteBits
Words == 0 .. 2 ^ WordBits - 1

-----------------------------------------------------------------------------
(* The hash functions are any functions of their input; what is used of them  *)
(* is how many bytes are taken.                                               *)

Digest(data, size) ==
    FillBytes(FoldLeft(LAMBDA h, d : (h * 5 + d + 3) % 8191, 7, data) , size)

sha256(data) == Digest(data, 2)
hmac512(key, data) == Digest(key \o <<1>> \o data, Size(WalletCurve))
                      \o Digest(data \o <<2>> \o key, Size(WalletCurve))
hash160(data) == Digest(sha256(data), IndexBytes)
pbkdf2(mnemonic) == Digest([i \in DOMAIN mnemonic |-> mnemonic[i]], 3)

-----------------------------------------------------------------------------
(* The lists: the first words of each list of common/bip39/wordlists and of   *)
(* common/seedphrase/words.go. What the lists have in common (simplified and  *)
(* traditional Chinese at the same places, English and French at other        *)
(* places) is in their first words as well.                                   *)

chineseSimplified == <<"U7684", "U4E00", "U662F", "U5728", "U4E0D", "U4E86", "U6709", "U548C">>
chineseTraditional == <<"U7684", "U4E00", "U662F", "U5728", "U4E0D", "U4E86", "U6709", "U548C">>
czech == <<"abdikace", "abeceda", "adresa", "agrese", "akce", "aktovka", "alej", "alkohol">>
english == <<"abandon", "ability", "able", "about", "above", "absent", "absorb", "abstract">>
french == <<"abaisser", "abandon", "abdiquer", "abeille", "abolir", "aborder", "aboutir", "aboyer">>
italian == <<"abaco", "abbaglio", "abbinato", "abete", "abisso", "abolire", "abrasivo", "abrogato">>
japanese == <<"aikokushin", "aisatsu", "aida", "aozora", "akachan", "akiru", "akegata", "akeru">>
korean == <<"gagyeok", "gakkeum", "ganan", "ganeung", "gadeuk", "gareuchim", "gamum", "gabang">>
spanish == <<"abaco_", "abdomen", "abeja", "abierto", "abogado", "abono", "aborto", "abrazo">>
seedWords == <<"abandon", "ability", "able", "about", "above", "absent", "absorb", "abstract">>

WordLists == {chineseSimplified, chineseTraditional, czech, english, french, italian,
              japanese, korean, spanish}

\* SetWordList: the reverse map, the last of equal words wins
wordMap(list) ==
    [w \in {list[i] : i \in DOMAIN list} |->
        (CHOOSE i \in DOMAIN list : list[i] = w /\ \A j \in DOMAIN list : list[j] = w => j <= i) - 1]

-----------------------------------------------------------------------------
(* bip39.go                                                                   *)

validateEntropyBitSize(bits) ==
    bits % GroupBits = 0 /\ bits \in MinGroups * GroupBits .. MaxGroups * GroupBits

padByteSlice_Short(b, length) == b
padByteSlice(b, length) == IF Len(b) >= length THEN b ELSE [i \in 1 .. length - Len(b) |-> 0] \o b

\* the first groups bits of the digest, behind the data
addChecksum(data) ==
    LET groups == Len(data) \div GroupBytes
        first == sha256(data)[1]
    IN  MinBytes(SetBytes(data) * 2 ^ groups + (first \div 2 ^ (ByteBits - groups)))

NewMnemonic(list, entropy) ==
    LET bits == Len(entropy) * ByteBits
        sentence == (bits + (bits \div GroupBits)) \div WordBits
        n == SetBytes(addChecksum(entropy))
    IN  IF ~validateEntropyBitSize(bits) THEN Nothing
        ELSE [i \in 1 .. sentence |->
                 list[((n \div 2 ^ (WordBits * (sentence - i))) % 2 ^ WordBits) + 1]]

\* strings.Fields
splitMnemonicWords(mnemonic) == SelectSeq(mnemonic, LAMBDA w : w # "")

EntropyFromMnemonic(list, mnemonic) ==
    LET words == splitMnemonicWords(mnemonic)
        groups == Len(words) \div 3
        n == FoldLeft(LAMBDA acc, w : acc * 2 ^ WordBits + wordMap(list)[w], 0, words)
        entropy == padByteSlice(MinBytes(n \div 2 ^ groups), groups * GroupBytes)
    IN  IF ~(Len(words) % 3 = 0 /\ groups \in MinGroups .. MaxGroups) THEN Nothing
        ELSE IF \E i \in DOMAIN words : words[i] \notin DOMAIN wordMap(list) THEN Nothing
        ELSE IF n % 2 ^ groups # sha256(entropy)[1] \div 2 ^ (ByteBits - groups) THEN Nothing
        ELSE entropy

\* the sizes are those of the unnormalised sentence
MnemonicToByteArray(list, mnemonic) ==
    LET bits == Len(mnemonic) * WordBits
        full == (bits - (bits % GroupBits)) \div ByteBits + 1
        raw == EntropyFromMnemonic(list, mnemonic)
    IN  IF raw = Nothing THEN Nothing ELSE padByteSlice(addChecksum(raw), full)

\* of the sentence as it was written
NewSeed(list, mnemonic) ==
    pbkdf2([i \in DOMAIN mnemonic |-> IF mnemonic[i] = "" THEN 0 ELSE wordMap(list)[mnemonic[i]] + 1])

NewSeedWithErrorChecking(list, mnemonic) ==
    IF MnemonicToByteArray(list, mnemonic) = Nothing THEN Nothing ELSE NewSeed(list, mnemonic)

-----------------------------------------------------------------------------
(* seedphrase: the same sentences by way of arrays of bits.                   *)

BitsOf(n, w) == [i \in 1 .. w |-> (n \div 2 ^ (w - i)) % 2]
FromBits(bits) == FoldLeft(LAMBDA n, b : 2 * n + b, 0, bits)

bytesToBitArray(data) == FlattenSeq([i \in DOMAIN data |-> BitsOf(data[i], ByteBits)])

bitArrayToBytes(bits) ==
    [i \in 1 .. Len(bits) \div ByteBits |-> FromBits(SubSeq(bits, (i - 1) * ByteBits + 1, i * ByteBits))]

addChecksumBits(data) ==
    bytesToBitArray(data) \o SubSeq(BitsOf(sha256(data)[1], ByteBits), 1, Len(data) \div GroupBytes)

Bytes2Mnemonic(data) ==
    LET bits == addChecksumBits(data)
    IN  IF ~validateEntropyBitSize(Len(data) * ByteBits) \/ Len(bits) % WordBits # 0 THEN Nothing
        ELSE [i \in 1 .. Len(bits) \div WordBits |->
                 seedWords[FromBits(SubSeq(bits, (i - 1) * WordBits + 1, i * WordBits)) + 1]]

\* no lower limit, so that sentences shorter than bip39's pass
validateMnemonicWordCount(n) ==
    LET bits == n * WordBits IN bits % GroupBits = bits \div GroupBits

validateChecksumBits(bits) ==
    LET n == Len(bits) \div GroupBits
        data == SubSeq(bits, 1, Len(bits) - n)
    IN  /\ Len(data) % ByteBits = 0
        /\ SubSeq(bits, Len(data) + 1, Len(bits))
               = SubSeq(BitsOf(sha256(bitArrayToBytes(data))[1], ByteBits), 1, n)

Mnemonic2Bytes(words) ==
    LET bits == FlattenSeq([i \in DOMAIN words |-> BitsOf(wordMap(seedWords)[words[i]], WordBits)])
        n == Len(bits) \div GroupBits
    IN  IF ~validateMnemonicWordCount(Len(words)) THEN Nothing
        ELSE IF \E i \in DOMAIN words : words[i] \notin DOMAIN wordMap(seedWords) THEN Nothing
        ELSE IF ~validateChecksumBits(bits) THEN Nothing
        ELSE bitArrayToBytes(SubSeq(bits, 1, Len(bits) - n))

-----------------------------------------------------------------------------
(* bip32                                                                      *)

FirstHardenedChild == Base ^ IndexBytes \div 2
PrivateWalletVersion == FillBytes(5, IndexBytes)
PublicWalletVersion == FillBytes(6, IndexBytes)

curveSize == Size(WalletCurve)

\* compressPublicKey: infinity becomes 02 00 .. 00
publicKeyForPrivateKey(key) == MarshalCompressed(WalletCurve, ScalarBaseMult(WalletCurve, key))

\* no root leaves 0, and 0 may become P
expandPublicKey(key) ==
    LET x == SetBytes(Tail(key))
        root == ModSqrt(polynomial(WalletCurve, x), WalletCurve.P)
        y == IF root = Nothing THEN 0 ELSE root
    IN  <<x, IF key[1] - 2 # y % 2 THEN WalletCurve.P - y ELSE y>>

addPublicKeys(k1, k2) ==
    MarshalCompressed(WalletCurve, Add(WalletCurve, expandPublicKey(k1), expandPublicKey(k2)))

addPrivateKeys(k1, k2) == FillBytes((SetBytes(k1) + SetBytes(k2)) % WalletCurve.N, curveSize)

validatePrivateKey(key) ==
    SetBytes(key) # 0 /\ SetBytes(key) < WalletCurve.N /\ Len(key) = curveSize

validateChildPublicKey(key) == 0 \notin Range(expandPublicKey(key))

NewMasterKey(seed) ==
    LET i == hmac512(<<0>>, seed)
    IN  IF ~validatePrivateKey(SubSeq(i, 1, curveSize)) THEN Nothing
        ELSE [Version |-> PrivateWalletVersion, Key |-> SubSeq(i, 1, curveSize),
              ChainCode |-> SubSeq(i, curveSize + 1, 2 * curveSize), Depth |-> 0,
              ChildNumber |-> FillBytes(0, IndexBytes), FingerPrint |-> FillBytes(0, IndexBytes),
              IsPrivate |-> TRUE]

\* what a child is derived from: hardened children need the private key
childData(key, idx) ==
    CASE idx >= FirstHardenedChild -> <<0>> \o key.Key
      [] idx < FirstHardenedChild /\ key.IsPrivate -> publicKeyForPrivateKey(key.Key)
      [] OTHER -> key.Key

getIntermediary(key, idx) ==
    hmac512(key.ChainCode, childData(key, idx) \o FillBytes(idx, IndexBytes))

\* i is the intermediary; Depth is a byte and wraps
childOf(key, idx, i, version, parent, k) ==
    [Version |-> version, Key |-> k, ChainCode |-> SubSeq(i, curveSize + 1, 2 * curveSize),
     Depth |-> (key.Depth + 1) % Base, ChildNumber |-> FillBytes(idx, IndexBytes),
     FingerPrint |-> hash160(parent), IsPrivate |-> key.IsPrivate]

privateChild(key, idx, i, k) ==
    IF ~validatePrivateKey(k) THEN Nothing
    ELSE childOf(key, idx, i, PrivateWalletVersion, publicKeyForPrivateKey(key.Key), k)

\* the sum of two public keys is not validated
publicChild(key, idx, i, point) ==
    IF ~validateChildPublicKey(point) THEN Nothing
    ELSE childOf(key, idx, i, PublicWalletVersion, key.Key, addPublicKeys(point, key.Key))

childFrom(key, idx, i) ==
    IF key.IsPrivate THEN privateChild(key, idx, i, addPrivateKeys(SubSeq(i, 1, curveSize), key.Key))
    ELSE publicChild(key, idx, i, publicKeyForPrivateKey(SubSeq(i, 1, curveSize)))

NewChildKey(key, idx) ==
    IF ~key.IsPrivate /\ idx >= FirstHardenedChild THEN Nothing
    ELSE childFrom(key, idx, getIntermediary(key, idx))

PublicKey(key) ==
    [key EXCEPT !.Version = PublicWalletVersion, !.IsPrivate = FALSE,
                !.Key = IF key.IsPrivate THEN publicKeyForPrivateKey(@) ELSE @]

checksum(data) == SubSeq(sha256(sha256(data)), 1, IndexBytes)

Serialize(key) ==
    LET body == key.Version \o <<key.Depth>> \o key.FingerPrint \o key.ChildNumber
                    \o key.ChainCode \o (IF key.IsPrivate THEN <<0>> ELSE <<>>) \o key.Key
    IN  body \o checksum(body)

\* the version is not looked at: a key is private if the byte before it is 0
Deserialize(data) ==
    LET at == 3 * IndexBytes + 1
        body == at + 2 * curveSize + 1
        private == data[at + curveSize + 1] = 0
    IN  IF Len(data) # body + IndexBytes THEN Nothing
        ELSE IF checksum(SubSeq(data, 1, body)) # SubSeq(data, body + 1, Len(data)) THEN Nothing
        ELSE [Version |-> SubSeq(data, 1, IndexBytes), Depth |-> data[IndexBytes + 1],
              FingerPrint |-> SubSeq(data, IndexBytes + 2, 2 * IndexBytes + 1),
              ChildNumber |-> SubSeq(data, 2 * IndexBytes + 2, at),
              ChainCode |-> SubSeq(data, at + 1, at + curveSize), IsPrivate |-> private,
              Key |-> SubSeq(data, at + curveSize + (IF private THEN 2 ELSE 1), body)]

-----------------------------------------------------------------------------
(* bip44 and address/bip44support.go                                          *)

Purpose == FirstHardenedChild + 44
TypeBitcoin == FirstHardenedChild
TypeEther == FirstHardenedChild + 60

\* some of the names of bip44cointype.go
coinTypes == [Bitcoin |-> TypeBitcoin, Testnet |-> TypeBitcoin + 1, Ether |-> TypeEther,
              EtherClassic |-> TypeEther + 1]

CoinType(coin) == IF coin \in DOMAIN coinTypes THEN coinTypes[coin] ELSE TypeEther

NewKeyFromMasterKey(masterKey, coin, account, chain, address) ==
    FoldLeft(LAMBDA k, i : IF k = Nothing THEN Nothing ELSE NewChildKey(k, i), masterKey,
             <<Purpose, coin, account, chain, address>>)

NewKeyFromMnemonic(list, mnemonic, coin, account, chain, address) ==
    LET Master(seed) == IF seed = Nothing THEN Nothing ELSE NewMasterKey(seed)
    IN  NewKeyFromMasterKey(Master(NewSeedWithErrorChecking(list, mnemonic)),
                            coin, account, chain, address)

\* crypto.PubKeyToAddressBytes by the address codec: the last bytes of a hash
PrivateKeyToAddress(key) ==
    Digest(Tail(Marshal(WalletCurve, ScalarBaseMult(WalletCurve, key))), 2)

masterKeyOf(list, mnemonic) ==
    IF mnemonic = Nothing THEN Nothing ELSE NewMasterKey(NewSeed(list, mnemonic))

addressRecord(mnemonic, key) ==
    IF key = Nothing THEN Nothing
    ELSE [Address |-> PrivateKeyToAddress(key.Key), PrivateKey |-> key.Key, Bip39Mnemonic |-> mnemonic]

mnemonicRecord(list, mnemonic, coinType) ==
    addressRecord(mnemonic, NewKeyFromMasterKey(masterKeyOf(list, mnemonic), coinType,
                                                FirstHardenedChild, 0, 0))

bip44EntropyToAddressRecord(list, entropy, coinType) ==
    mnemonicRecord(list, NewMnemonic(list, entropy), coinType)

\* only the shortest and the longest sentences are made; entropy is random
createNewBIP44Address(list, mnemonicLen, coinType, entropy) ==
    IF mnemonicLen \notin {3 * MinGroups, 3 * MaxGroups} THEN Nothing
    ELSE bip44EntropyToAddressRecord(list, entropy, coinType)

recoverBIP44AddressFromMnemonic(list, mnemonic, coinType) ==
    LET From(entropy) == IF entropy = Nothing THEN Nothing
                         ELSE bip44EntropyToAddressRecord(list, entropy, coinType)
    IN  From(EntropyFromMnemonic(list, mnemonic))
=============================================================================
