--------------------------- MODULE TxCacheProofs ---------------------------
(***************************************************************************)
(* Theorems about the transaction cache, for every set of transfers, every *)
(* window and every number of confirmations.                               *)
(***************************************************************************)
EXTENDS TxCache, TLAPS

\* What the cache says of a transfer that is in block p of a chain of height h.
Modest(r, h, p) ==
    /\ r.inPool <=> r.block = 0
    /\ r.inPool => r.confirmations = 0 /\ ~r.confirmed
    /\ ~r.inPool => r.block = p /\ r.confirmations \in 1 .. h - r.block + 1
    /\ r.confirmed => h - r.block >= Confirmations

\* The chain holds no transfer above its height: without it the first
\* confirmation of a transfer could be one too many.
PlacedInChain == \A t \in Tx : place[t] <= head
ModestInv ==
    /\ PlacedInChain
    /\ \A t \in Tx : cache[t] # NoRec => Modest(cache[t], head, place[t])

CacheInv == TypeOK /\ ModestInv

\* A record made from an event that is true of the chain is modest.
LEMMA LoadedIsModest ==
    ASSUME NEW b \in 0 .. MaxBlock, NEW h \in Nat, NEW p \in Int, p <= h,
           b = 0 \/ p = b
    PROVE  /\ loadFromTransferInfo(b) \in Rec
           /\ Modest(loadFromTransferInfo(b), h, p)
<1> DEFINE r == loadFromTransferInfo(b)
<1>1. /\ r.block = b /\ r.inPool = (b = 0) /\ r.confirmed = FALSE
      /\ r.confirmations = IF b = 0 THEN 0 ELSE 1
  BY DEF loadFromTransferInfo
<1>2. MaxBlock >= 1 \/ b = 0
  BY TxCacheAssumption
<1>3. loadFromTransferInfo(b) \in Rec
  BY <1>2, TxCacheAssumption DEF loadFromTransferInfo, Rec
<1>4. (r.inPool <=> b = 0) /\ ~r.confirmed
  BY <1>1
<1>5. b = 0 \/ (b = p /\ r.confirmations \in 1 .. h - b + 1)
  BY <1>1
<1>6. Modest(r, h, p)
  <2>1. CASE b = 0
    BY <1>1, <1>4, <2>1 DEF Modest
  <2>2. CASE b # 0
    BY <1>1, <1>4, <1>5, <2>2 DEF Modest
  <2>3. QED
    BY <2>1, <2>2
<1>7. QED
  BY <1>3, <1>6

\* An update at a block of the chain keeps a mined record modest.
LEMMA UpdatedIsModest ==
    ASSUME NEW r \in Rec, NEW b \in 1 .. MaxBlock, NEW h \in Nat, NEW p \in Int,
           Modest(r, h, p), ~r.inPool, b - r.block > 1, b <= h
    PROVE  Updated(r, b) \in Rec /\ Modest(Updated(r, b), h, p)
<1> DEFINE u == Updated(r, b)
<1>1. /\ u.block = r.block /\ u.inPool = r.inPool
      /\ u.confirmed = (r.block <= b - Confirmations)
      /\ u.confirmations = b - r.block
  BY DEF Updated, Rec
<1>2. r.block \in 0 .. MaxBlock
  BY DEF Rec
<1>3. u \in Rec
  <2>1. b - r.block \in 0 .. MaxBlock /\ (r.block <= b - Confirmations) \in BOOLEAN
    BY <1>2, TxCacheAssumption
  <2>2. QED
    BY <2>1 DEF Updated, Rec
<1>4. ~u.inPool
  BY <1>1
<1>5. r.block > 0 /\ r.block = p
  BY <1>2 DEF Modest
<1>6. u.confirmations \in 1 .. h - r.block + 1
  BY <1>1, <1>2, <1>5
<1>7. u.confirmed => h - r.block >= Confirmations
  <2>1. r.block <= b - Confirmations => h - r.block >= Confirmations
    BY <1>2, TxCacheAssumption
  <2>2. u.confirmed => r.block <= b - Confirmations
    BY <1>1, Zenon
  <2>3. QED
    BY <2>1, <2>2
<1>8. QED
  BY <1>1, <1>3, <1>4, <1>5, <1>6, <1>7 DEF Modest

\* The chain grows: nothing becomes immodest.
LEMMA ModestGrows ==
    ASSUME NEW r \in Rec, NEW h \in Nat, NEW k \in Nat, h <= k,
           NEW p \in Int, NEW q \in Int, p > 0 => q = p, Modest(r, h, p)
    PROVE  Modest(r, k, q)
<1>1. r.block \in Nat /\ r.confirmations \in Nat
  BY DEF Rec
<1>2. ~r.inPool => r.block > 0
  BY <1>1 DEF Modest
<1>3. QED
  BY <1>1, <1>2, TxCacheAssumption DEF Modest

\* Every step keeps the types and the modesty of the cache.
LEMMA CacheNext == CacheInv /\ [Next]_vars => CacheInv'
<1> SUFFICES ASSUME CacheInv, [Next]_vars PROVE CacheInv'
  OBVIOUS
<1> USE DEF CacheInv, ModestInv, PlacedInChain
<1>n. head \in 0 .. MaxBlock /\ head \in Nat /\ MaxBlock \in Nat
      /\ place \in [Tx -> -1 .. MaxBlock]
      /\ cache \in [Tx -> Rec \cup {NoRec}]
  BY TxCacheAssumption DEF TypeOK
<1>1. CASE UNCHANGED vars
  BY <1>1 DEF vars, TypeOK
<1>2. ASSUME NEW h \in 0 .. MaxBlock, NEW w \in [Tx -> -1 .. MaxBlock],
             head <= h, \A t \in Tx : w[t] <= h /\ (place[t] > 0 => w[t] = place[t]),
             head' = h, place' = w, cache' = cache
      PROVE  CacheInv'
  <2>1. ASSUME NEW t \in Tx, cache[t] # NoRec
        PROVE  Modest(cache[t], h, w[t])
    BY <1>n, <1>2, <2>1, ModestGrows
  <2>2. QED
    BY <1>n, <1>2, <2>1 DEF TypeOK
<1>3. ASSUME NEW t \in Tx, Submit(t) PROVE CacheInv'
  <2>1. /\ head' = head /\ cache' = cache
        /\ place' \in [Tx -> -1 .. MaxBlock]
        /\ \A u \in Tx : place'[u] <= head /\ (place[u] > 0 => place'[u] = place[u])
    BY <1>n, <1>3 DEF Submit
  <2>2. QED
    BY <1>n, <1>2, <2>1
<1>4. CASE Mine
  <2>1. /\ head' \in 0 .. MaxBlock /\ head <= head' /\ cache' = cache
        /\ place' \in [Tx -> -1 .. MaxBlock]
        /\ \A u \in Tx : place'[u] <= head' /\ (place[u] > 0 => place'[u] = place[u])
    BY <1>n, <1>4 DEF Mine
  <2>2. QED
    BY <1>2, <2>1
<1>5. ASSUME NEW t \in Tx, NEW b \in 0 .. MaxBlock, TransactionEvent(t, b)
      PROVE  CacheInv'
  <2>1. /\ loadFromTransferInfo(b) \in Rec
        /\ Modest(loadFromTransferInfo(b), head, place[t])
    BY <1>n, <1>5, LoadedIsModest DEF TransactionEvent
  <2>2. QED
    BY <1>n, <1>5, <2>1 DEF TransactionEvent, TypeOK
<1>6. ASSUME NEW b \in 1 .. MaxBlock, blockUpdateEvent(b) PROVE CacheInv'
  <2>1. b <= head
    BY <1>n, <1>6 DEF blockUpdateEvent
  <2>2. ASSUME NEW t \in txToUpdate(b)
        PROVE  /\ Updated(cache[t], b) \in Rec
               /\ Modest(Updated(cache[t], b), head, place[t])
    BY <1>n, <2>1, <2>2, UpdatedIsModest DEF txToUpdate
  <2>3. PICK S \in SUBSET txToUpdate(b) :
            cache' = [t \in Tx |-> IF t \in S THEN Updated(cache[t], b) ELSE cache[t]]
    BY <1>6 DEF blockUpdateEvent
  <2>4. head' = head /\ place' = place
    BY <1>6 DEF blockUpdateEvent
  <2>5. QED
    BY <1>n, <2>2, <2>3, <2>4 DEF TypeOK
<1>7. QED
  BY <1>1, <1>3, <1>4, <1>5, <1>6 DEF Next

\* The inductive invariant holds initially.
LEMMA CacheInit == Init => CacheInv
  BY TxCacheAssumption DEF Init, CacheInv, TypeOK, ModestInv, PlacedInChain

\* The cache's records keep their types for any window and any number of events
\* (txcache/recordmodel.go, api.go).
THEOREM TypeCorrect == Spec => []TypeOK
<1>1. CacheInv => TypeOK
  BY DEF CacheInv
<1>2. QED
  BY <1>1, CacheInit, CacheNext, PTL DEF Spec

\* Whatever the order and number of events, the cache never reports more
\* confirmations than the chain has, nor a wrong block, nor calls confirmed
\* what is not deep enough (txcache/api.go:44-62, blockupdate.go:10-36).
THEOREM CacheIsModest == Spec => []NeverOverstates
<1>1. CacheInv => NeverOverstates
  BY DEF CacheInv, ModestInv, Modest, NeverOverstates
<1>2. QED
  BY <1>1, CacheInit, CacheNext, PTL DEF Spec
=============================================================================
