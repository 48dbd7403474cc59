----------------------------- MODULE Secp256k1 -----------------------------
(* Packages crypto/secp256k1 and crypto: the curve arithmetic in Jacobian     *)
(* coordinates, ECDSA with recovery ids, deterministic signatures (RFC 6979)  *)
(* and keys as bytes. A curve is a record c with P, A, B, N, Gx, Gy and the   *)
(* BitSize of its field; the code's curve and any small curve differ only in  *)
(* these numbers. Points are affine pairs, <<0, 0>> is the point at infinity. *)
(* A byte has ByteBits bits.                                                  *)
EXTENDS Integers, Sequences, SequencesExt

CONSTANTS
    ByteBits,   \* 8 in the code
    Nothing     \* nil: no value, or an error

ASSUME SecpAssumption == ByteBits \in Nat \ {0, 1}

Base == 2 ^ ByteBits
Infinity == <<0, 0>>

-----------------------------------------------------------------------------
(* math/big and crypto/elliptic.                                              *)

SetBytes(b) == FoldLeft(LAMBDA n, d : n * Base + d, 0, b)

FillBytes(n, size) == [i \in 1 .. size |-> (n \div Base ^ (size - i)) % Base]

BitLen(n) == CHOOSE w \in 0 .. 30 : n < 2 ^ w /\ (w = 0 \/ n >= 2 ^ (w - 1))

\* big.Int.Bytes: no leading zeros
MinBytes(n) == FillBytes(n, (BitLen(n) + ByteBits - 1) \div ByteBits)

ModInverse(n, m) == CHOOSE i \in 0 .. m - 1 : (i * n) % m = 1

\* some root of n, if there is one
ModSqrt(n, p) ==
    IF \E y \in 0 .. p - 1 : (y * y) % p = n % p
    THEN CHOOSE y \in 0 .. p - 1 : (y * y) % p = n % p ELSE Nothing

Size(c) == (c.BitSize + ByteBits - 1) \div ByteBits

Marshal(c, q) == <<4>> \o FillBytes(q[1], Size(c)) \o FillBytes(q[2], Size(c))

MarshalCompressed(c, q) == <<2 + (q[2] % 2)>> \o FillBytes(q[1], Size(c))

-----------------------------------------------------------------------------
(* elliptic.go                                                                *)

polynomial(c, x) == ((x * x + c.A) * x + c.B) % c.P

IsOnCurve(c, q) == polynomial(c, q[1]) = (q[2] * q[2]) % c.P

\* elliptic.Unmarshal
Unmarshal(c, data) ==
    LET x == SetBytes(SubSeq(data, 2, Size(c) + 1))
        y == SetBytes(SubSeq(data, Size(c) + 2, 2 * Size(c) + 1))
    IN  IF Len(data) # 2 * Size(c) + 1 THEN Nothing
        ELSE IF data[1] # 4 \/ x >= c.P \/ y >= c.P \/ ~IsOnCurve(c, <<x, y>>) THEN Nothing
        ELSE <<x, y>>

zForAffine(q) == IF q = Infinity THEN 0 ELSE 1

affineFromJacobian(c, j) ==
    LET Scaled(zinv) == <<(j[1] * ((zinv * zinv) % c.P)) % c.P,
                          (j[2] * ((zinv * zinv * zinv) % c.P)) % c.P>>
    IN  IF j[3] = 0 THEN Infinity ELSE Scaled(ModInverse(j[3], c.P))

doubleJacobian(c, j) ==
    LET x == j[1]
        y == j[2]
        z == j[3]
        delta == (z * z) % c.P
        gamma == (y * y) % c.P
        alpha == (IF c.A = -3 THEN 3 * (x - delta) * (x + delta)
                  ELSE 3 * x * x + (IF c.A # 0 THEN c.A * delta * delta ELSE 0)) % c.P
        beta4 == (4 * x * gamma) % c.P
        x3 == (alpha * alpha - 2 * beta4) % c.P
    IN  <<x3, (alpha * (beta4 - x3) - 8 * gamma * gamma) % c.P, (2 * y * z) % c.P>>

\* xEqual && yEqual: the general formula fails on a doubling
SamePoint(u1, s1, u2, s2) == u1 = u2 /\ s1 = s2

addJacobian(c, j1, j2) ==
    LET z1 == j1[3]
        z2 == j2[3]
        z1z1 == (z1 * z1) % c.P
        z2z2 == (z2 * z2) % c.P
        u1 == (j1[1] * z2z2) % c.P
        u2 == (j2[1] * z1z1) % c.P
        h == (u2 - u1) % c.P
        i == (4 * h * h) % c.P
        jj == (h * i) % c.P
        s1 == (j1[2] * z2 * z2z2) % c.P
        s2 == (j2[2] * z1 * z1z1) % c.P
        r == (2 * (s2 - s1)) % c.P
        v == (u1 * i) % c.P
        x3 == (r * r - jj - 2 * v) % c.P
    IN  CASE z1 = 0 -> j2
          [] z1 # 0 /\ z2 = 0 -> j1
          [] z1 # 0 /\ z2 # 0 /\ SamePoint(u1, s1, u2, s2) -> doubleJacobian(c, j1)
          [] OTHER -> <<x3, (r * (v - x3) - 2 * s1 * jj) % c.P,
                        (((z1 + z2) * (z1 + z2) - z1z1 - z2z2) * h) % c.P>>

Jacobian(q) == <<q[1], q[2], zForAffine(q)>>

Add(c, p, q) == affineFromJacobian(c, addJacobian(c, Jacobian(p), Jacobian(q)))

Double(c, p) == affineFromJacobian(c, doubleJacobian(c, Jacobian(p)))

ScalarBits(k) ==
    FlattenSeq([i \in DOMAIN k |-> [j \in 1 .. ByteBits |-> (k[i] \div 2 ^ (ByteBits - j)) % 2]])

\* from the most significant bit; the base always gets z = 1
ScalarMult(c, p, k) ==
    LET AddIf(bit, d) == IF bit = 1 THEN addJacobian(c, <<p[1], p[2], 1>>, d) ELSE d
        Step(acc, bit) == AddIf(bit, doubleJacobian(c, acc))
    IN  affineFromJacobian(c, FoldLeft(Step, <<0, 0, 0>>, ScalarBits(k)))

ScalarBaseMult(c, k) == ScalarMult(c, <<c.Gx, c.Gy>>, k)

\* the root with the parity of the prefix
RootOf(c, root, prefix) == IF root % 2 = prefix % 2 THEN root ELSE (-root) % c.P

unmarshalCompressed(c, data) ==
    LET x == SetBytes(Tail(data))
        root == ModSqrt(polynomial(c, x), c.P)
        y == RootOf(c, root, data[1])
    IN  IF Len(data) # Size(c) + 1 THEN Nothing
        ELSE CASE data[1] \notin {2, 3} \/ x >= c.P -> Nothing
               [] data[1] \in {2, 3} /\ x < c.P ->
                    IF root = Nothing THEN Nothing
                    ELSE IF IsOnCurve(c, <<x, y>>) THEN <<x, y>> ELSE Nothing

-----------------------------------------------------------------------------
(* ecdsa.go. The generator of a signature is the stream of values it reads.   *)

Half(c) == c.N \div 2

\* randFieldElement: 1 .. N - 1
randFieldElement(c, random) == (random % (c.N - 1)) + 1

hashToInt(c, hash) ==
    LET orderBits == BitLen(c.N)
        orderBytes == (orderBits + ByteBits - 1) \div ByteBits
        h == IF Len(hash) > orderBytes THEN SubSeq(hash, 1, orderBytes) ELSE hash
        excess == Len(h) * ByteBits - orderBits
    IN  IF excess > 0 THEN SetBytes(h) \div 2 ^ excess ELSE SetBytes(h)

RECURSIVE Power(_, _, _)
Power(k, n, m) == IF n = 0 THEN 1 % m ELSE (k * Power(k, n - 1, m)) % m

fermatInverse(k, n) == Power(k, n - 2, n)

\* bit 1: X exceeds N, bit 0: the parity of Y
recoveryId_NoHigh(c, R) == R[2] % 2
recoveryId(c, R) == (IF R[1] > c.N THEN 2 ELSE 0) + (R[2] % 2)

\* one round of the loops of sign; ok is FALSE where the code takes another k
signWith(c, d, hash, k) ==
    LET Signature(R, r, s) == [r |-> r, s |-> s, v |-> recoveryId(c, R), ok |-> r # 0 /\ s # 0]
        Of(R, r) == Signature(R, r, ((d * r + hashToInt(c, hash)) * fermatInverse(k, c.N)) % c.N)
        At(R) == Of(R, R[1] % c.N)
    IN  At(ScalarBaseMult(c, MinBytes(k)))

\* Sign: the stream is deterministic in the key and the hash, here any stream
Sign(c, d, hash, stream) ==
    LET rounds == [i \in DOMAIN stream |-> signWith(c, d, hash, randFieldElement(c, stream[i]))]
        FirstOk(sigs) == IF sigs = <<>> THEN Nothing ELSE sigs[1]
    IN  FirstOk(SelectSeq(rounds, LAMBDA sig : sig.ok))

Verify(c, pub, hash, r, s) ==
    LET IsSigned(q) == q # Infinity /\ q[1] % c.N = r
        Sum(w) == Add(c, ScalarBaseMult(c, MinBytes((hashToInt(c, hash) * w) % c.N)),
                         ScalarMult(c, pub, MinBytes((r * w) % c.N)))
    IN  /\ r \in 1 .. c.N - 1
        /\ s \in 1 .. c.N - 1
        /\ IsSigned(Sum(ModInverse(s, c.N)))

\* LowerS: (r, N - s) with the other parity is a signature as well
Lower(c, sig) ==
    IF sig.s > Half(c) THEN [sig EXCEPT !.s = c.N - sig.s, !.v = @ + 1 - 2 * (@ % 2)] ELSE sig

\* SignBytes with the flags LowerS and RecID
SignBytes(c, d, hash, stream, lowerS, recID) ==
    LET AsBytes(sig) == FillBytes(sig.r, Size(c)) \o FillBytes(sig.s, Size(c))
                            \o (IF recID THEN <<sig.v>> ELSE <<>>)
        Finish(sig) == IF sig = Nothing THEN Nothing
                       ELSE AsBytes(IF lowerS THEN Lower(c, sig) ELSE sig)
    IN  Finish(Sign(c, d, hash, stream))

\* 16 for no recovery id, 255 for another length
decodeSigBytes(c, sig) ==
    [r |-> SetBytes(SubSeq(sig, 1, Size(c))),
     s |-> SetBytes(SubSeq(sig, Size(c) + 1, 2 * Size(c))),
     v |-> IF Len(sig) = 2 * Size(c) THEN 16
           ELSE IF Len(sig) = 2 * Size(c) + 1 THEN Last(sig) ELSE 255]

\* the code ends with the Verify of the standard library, which is the same check as
\* this package's on any curve without an implementation of its own there
VerifyBytes(c, pub, hash, bytes, lowerS, recID) ==
    LET sig == decodeSigBytes(c, bytes)
    IN  /\ IF recID THEN sig.v <= 3 ELSE sig.v = 16
        /\ lowerS => sig.s <= Half(c)
        /\ Verify(c, pub, hash, sig.r, sig.s)

-----------------------------------------------------------------------------
(* ecdsa_recover.go                                                           *)

computePointFromX(c, r, v) ==
    LET x == IF v >= 2 THEN c.N + r ELSE r
        y == ModSqrt(polynomial(c, x), c.P)
    IN  IF v >= 2 /\ x >= c.P THEN Nothing
        ELSE IF y = Nothing THEN Nothing
        ELSE <<x, IF y % 2 = v % 2 THEN y ELSE c.P - y>>

recoverPubkey(c, e, R, s) ==
    LET Key(q) == IF q[1] <= 0 \/ q[2] <= 0 THEN Nothing ELSE q
        Sum(w) == Add(c, ScalarBaseMult(c, MinBytes(((c.N - e) * w) % c.N)),
                         ScalarMult(c, R, MinBytes((s * w) % c.N)))
    IN  Key(Sum(ModInverse(R[1], c.N)))

RecoverPubkey(c, hash, bytes) ==
    LET From(sig, R) == IF R = Nothing THEN Nothing ELSE recoverPubkey(c, hashToInt(c, hash), R, sig.s)
        Recover(sig) ==
            IF sig.v > 3 \/ sig.r \notin 1 .. c.N - 1 \/ sig.s \notin 1 .. c.N - 1 THEN Nothing
            ELSE From(sig, computePointFromX(c, sig.r, sig.v))
    IN  IF Len(bytes) # 2 * Size(c) + 1 THEN Nothing ELSE Recover(decodeSigBytes(c, bytes))

-----------------------------------------------------------------------------
(* ethereum.go: hashes of a fixed length; HashLen(c) is 32 in the code.       *)

HashLen(c) == Size(c)

SignEthereum(c, hash, d, stream) ==
    IF Len(hash) # HashLen(c) THEN Nothing ELSE SignBytes(c, d, hash, stream, TRUE, TRUE)

VerifyEthereum(c, pubkey, hash, sig, isHomestead) ==
    LET q == IF Len(pubkey) = Size(c) + 1 THEN unmarshalCompressed(c, pubkey)
             ELSE Unmarshal(c, pubkey)
    IN  /\ Len(hash) = HashLen(c) /\ Len(sig) = 2 * Size(c)
        /\ q # Nothing
        /\ VerifyBytes(c, q, hash, sig, isHomestead, FALSE)

RecoverEthereum(c, hash, sig) ==
    LET AsBytes(q) == IF q = Nothing THEN Nothing ELSE Marshal(c, q)
    IN  IF Len(hash) # HashLen(c) \/ Len(sig) # 2 * Size(c) + 1 THEN Nothing
        ELSE AsBytes(RecoverPubkey(c, hash, sig))

-----------------------------------------------------------------------------
(* crypto/rfc6979.go, signecdsa.go, ecdsa.go                                  *)

bits2int(in, qlen) ==
    IF Len(in) * ByteBits > qlen THEN SetBytes(in) \div 2 ^ (Len(in) * ByteBits - qlen)
    ELSE SetBytes(in)

\* padded, or without its most significant bytes
int2octets(v, rolen) == FillBytes(v, rolen)

bits2octets(in, q, qlen, rolen) ==
    LET z1 == bits2int(in, qlen)
    IN  int2octets(IF z1 - q < 0 THEN z1 ELSE z1 - q, rolen)

\* The candidates in range among the blocks of the HMAC chain, which is keyed by the key
\* and the hash and here any sequence of blocks; the caller's test takes the first it likes.
generateSecret(q, blocks) ==
    SelectSeq([i \in DOMAIN blocks |-> bits2int(blocks[i], BitLen(q))], LAMBDA secret : secret \in 1 .. q - 1)

\* the lower of s and N - s, which changes the parity of Y
Lowered(c, r, s, v) ==
    IF s > Half(c) THEN [r |-> r, s |-> (-s) % c.N, v |-> 1 - v] ELSE [r |-> r, s |-> s, v |-> v]

\* the test of SignEcdsaRfc6979: r stays the X coordinate, which may exceed N
rfc6979With(c, d, hash, k) ==
    LET At(R) == Lowered(c, R[1], ((d * R[1] + hashToInt(c, hash)) * ModInverse(k, c.N)) % c.N, R[2] % 2)
    IN  At(ScalarBaseMult(c, MinBytes(k)))

SignEcdsaRfc6979(c, d, hash, blocks) ==
    LET FirstOk(sigs) == IF sigs = <<>> THEN Nothing ELSE sigs[1]
        Tried(secrets) == [i \in DOMAIN secrets |-> rfc6979With(c, d, hash, secrets[i])]
    IN  FirstOk(SelectSeq(Tried(generateSecret(c.N, blocks)), LAMBDA sig : sig.r # 0 /\ sig.s # 0))

SignEcdsaRfc6979Bytes(c, sig) == FillBytes(sig.r, Size(c)) \o FillBytes(sig.s, Size(c)) \o <<sig.v>>

ECDSAKeysFromPrivateKeyBytes(c, pk) == [D |-> SetBytes(pk), Q |-> ScalarBaseMult(c, pk)]

\* paddedBigBytes: of the bit size rounded down, longer if the number is
BytesFromECDSAPrivateKey(c, d) ==
    IF BitLen(d) \div ByteBits >= c.BitSize \div ByteBits THEN MinBytes(d)
    ELSE FillBytes(d, c.BitSize \div ByteBits)

ECDSAPublicKeyToBytes(c, q) == Marshal(c, q)
ECDSAPublicKeyCompressedToBytes(c, q) == MarshalCompressed(c, q)
=============================================================================
