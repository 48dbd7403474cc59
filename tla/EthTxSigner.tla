---------------------------- MODULE EthTxSigner ----------------------------
(* crypto/eth_tx_signer.go: a transaction with the signature of EIP-155, from *)
(* common/rlp and the deterministic signatures. A transaction is the sequence *)
(* of the struct's fields; its signature is V, R, S.                          *)
EXTENDS Rlp, Secp256k1

\* Nonce, GasPrice, Gas, To, Value, Data
Fields == <<Plain(TUint(Long)), Plain(TBigInt), Plain(TUint(Long)), Tagged(TPtr(TBytes), <<"nil">>),
            Plain(TBigInt), Plain(TBytes)>>

\* the struct has V, R, S behind them
TxStruct == TStruct(Fields \o <<Plain(TBigInt), Plain(TBigInt), Plain(TBigInt)>>)

\* golang.org/x/crypto/sha3: a function of the bytes
Keccak256(data, size) ==
    FillBytes(FoldLeft(LAMBDA h, d : (h * 7 + d + 1) % 8191, 11, data), size)

\* rlpHash of a list with the chain id and two zeros; a nil chain id is a zero. Nothing is
\* the panic at a negative number.
Hash(c, tx, chainId) ==
    LET Unsigned == TStruct(Fields \o <<Plain(TBigInt), Plain(TUint(Long)), Plain(TUint(Long))>>)
        id == IF chainId = Nothing THEN 0 ELSE chainId
        Of(enc) == IF enc.err = "nil" THEN Keccak256(enc.out, Size(c)) ELSE Nothing
    IN  Of(EncodeToBytes(Unsigned, tx \o <<id, 0, 0>>))

\* Sign: the hash is made before a missing chain id becomes 1
SignTx(c, tx, chainId, d, blocks) ==
    LET id == IF chainId = Nothing THEN 1 ELSE chainId
        WithSignature(sig) ==
            IF sig = Nothing THEN Nothing ELSE tx \o <<sig.v + 35 + 2 * id, sig.r, sig.s>>
        Over(hash) == IF hash = Nothing THEN Nothing ELSE SignEcdsaRfc6979(c, d, hash, blocks)
    IN  WithSignature(Over(Hash(c, tx, chainId)))

EncodeRPL(signed) == EncodeToBytes(TxStruct, signed).out
=============================================================================
