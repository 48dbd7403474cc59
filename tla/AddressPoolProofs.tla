------------------------- MODULE AddressPoolProofs -------------------------
(***************************************************************************)
(* Theorems about the address manager, for every set of addresses and      *)
(* requests and every configuration.                                       *)
(***************************************************************************)
EXTENDS AddressPool, FiniteSetTheorems, TLAPS

\* The counts of checkFreeAddressPool are numbers.
LEMMA CountsAreNumbers == CountFree \in Nat /\ CountTotal \in Nat
<1>1. IsFiniteSet({a \in Addr : InAll(a) /\ Owner(a) = NoOne})
  BY FS_Subset, AddressAssumption
<1>2. IsFiniteSet({a \in Addr : InAll(a)})
  BY FS_Subset, AddressAssumption
<1>3. QED
  BY <1>1, <1>2, FS_CardinalityType DEF CountFree, CountTotal

\* The amount checkFreeAddressPool asks for is never negative.
LEMMA RefillAmountIsNumber == RefillAmount \in Nat
<1>1. QED
  BY CountsAreNumbers, AddressAssumption DEF RefillAmount

\* Insert keeps the types of the three pieces of state it writes.
LEMMA InsertType ==
    ASSUME TypeOK, NEW a \in Addr, NEW r \in Rec, Insert(a, r)
    PROVE  /\ allAddresses' \in [Addr -> Ptr]
           /\ freeAddresses' \in [Addr -> Ptr]
           /\ rec' \in [Addr -> [1 .. MaxVersion -> Rec]]
           /\ used' \in [Addr -> Ptr]
<1>1. used[a] + 1 \in 1 .. MaxVersion /\ used[a] + 1 \in Ptr
  BY AddressAssumption DEF TypeOK, Insert, Ptr
<1>2. QED
  BY <1>1 DEF TypeOK, Insert

\* A save writes a record or leaves the database alone.
LEMMA SaveType ==
    ASSUME TypeOK, NEW a \in Addr, NEW r \in Rec, NEW ok, Save(a, r, ok)
    PROVE  db' \in [Addr -> Rec \cup {NoRec}]
<1>1. QED
  BY DEF TypeOK, Save

\* The records the entry points build are records.
LEMMA NewRecordsType ==
    ASSUME NEW r \in Requests
    PROVE  NewRecords(r) \subseteq Rec
<1>1. QED
  BY DEF NewRecords, Rec

\* addAddressUnsafe keeps the types of all it writes.
LEMMA AddAddressUnsafeType ==
    ASSUME TypeOK, NEW r \in Requests, NEW a \in Addr, NEW ok,
           addAddressUnsafe(r, a, ok)
    PROVE  /\ allAddresses' \in [Addr -> Ptr]
           /\ freeAddresses' \in [Addr -> Ptr]
           /\ fastPool' \in [Addr -> Ptr]
           /\ rec' \in [Addr -> [1 .. MaxVersion -> Rec]]
           /\ used' \in [Addr -> Ptr]
           /\ db' \in [Addr -> Rec \cup {NoRec}]
           /\ updates' \in Nat
<1>1. PICK new \in NewRecords(r) :
          Insert(a, new) /\ fastPool' = fastPool /\ updates' = updates + 1
          /\ Save(a, new, ok)
  BY DEF addAddressUnsafe
<1>2. new \in Rec
  BY NewRecordsType
<1>3. fastPool' \in [Addr -> Ptr] /\ updates' \in Nat
  BY <1>1 DEF TypeOK
<1>4. QED
  BY <1>1, <1>2, <1>3, InsertType, SaveType

\* Clients name addresses.
LEMMA NameableType == TypeOK => Nameable \subseteq Addr
<1>1. QED
  BY AddressAssumption DEF TypeOK, Nameable

-----------------------------------------------------------------------------
\* A call that has passed its look-up is about an address: what the types of
\* pc and arg do not say, and AddInsert needs.
ArgNamed == \A r \in Requests : pc[r] \in {"check", "insert"} => arg[r] \in Addr

TypeInv == TypeOK /\ ArgNamed

\* The initial state has its types.
LEMMA TypeInit == Init => TypeInv
<1>1. QED
  BY AddressAssumption, DistinctAssumption
  DEF Init, TypeInv, TypeOK, ArgNamed, Ptr, Rec, Blank, Checkers

\* Every step keeps the types.
LEMMA TypeNext == TypeInv /\ [Next]_vars => TypeOK'
<1> SUFFICES ASSUME TypeOK, ArgNamed, [Next]_vars PROVE TypeOK'
  BY DEF TypeInv
<1> USE AddressAssumption, DistinctAssumption
<1>1. CASE preLoadAddresses
  <2>1. allAddresses' \in [Addr -> Ptr] /\ freeAddresses' \in [Addr -> Ptr]
    BY <1>1 DEF preLoadAddresses, Ptr
  <2>2. rec' \in [Addr -> [1 .. MaxVersion -> Rec]]
    BY <1>1 DEF preLoadAddresses, TypeOK, Blank, Rec
  <2>3. chk' \in [Checkers -> {"idle", "count", "refill", "generate"}]
    BY <1>1 DEF preLoadAddresses, TypeOK
  <2>4. QED
    BY <1>1, <2>1, <2>2, <2>3 DEF preLoadAddresses, TypeOK, clients
<1>2. CASE NewManagerReturns
  BY <1>2 DEF NewManagerReturns, TypeOK, memory, clients, checkers
<1>3. CASE Crash
  <2>1. /\ allAddresses' \in [Addr -> Ptr] /\ freeAddresses' \in [Addr -> Ptr]
        /\ fastPool' \in [Addr -> Ptr] /\ used' \in [Addr -> Ptr]
        /\ rec' \in [Addr -> [1 .. MaxVersion -> Rec]]
    BY <1>3 DEF Crash, Ptr, Blank, Rec
  <2>2. /\ pc' \in [Requests -> {"idle", "check", "insert", "bulk", "done"}]
        /\ todo' \in [Requests -> SUBSET Addr]
        /\ chk' \in [Checkers -> {"idle", "count", "refill", "generate"}]
        /\ left' \in [Checkers -> Nat]
    BY <1>3 DEF Crash
  <2>3. phase' = "down" /\ mux' = NoOne /\ updates' \in Nat /\ crashes' \in Nat
    BY <1>3 DEF Crash, TypeOK
  <2>4. UNCHANGED <<db, arg, given, marked>>
    BY <1>3 DEF Crash
  <2>5. QED
    BY <2>1, <2>2, <2>3, <2>4 DEF TypeOK
<1>4. ASSUME NEW r \in Requests, GetFreeAddressAndSubscribe(r) PROVE TypeOK'
  <2>1. r \in Checkers
    BY DEF Checkers
  <2>2. /\ pc' \in [Requests -> {"idle", "check", "insert", "bulk", "done"}]
        /\ chk' \in [Checkers -> {"idle", "count", "refill", "generate"}]
    BY <1>4, <2>1 DEF GetFreeAddressAndSubscribe, SpawnCheck, TypeOK
  <2>3. CASE NoFreeAddresses(r)
    BY <1>4, <2>2, <2>3
    DEF GetFreeAddressAndSubscribe, NoFreeAddresses, TypeOK, memory
  <2>4. ASSUME NEW a \in FreeSet, updateAddressUnsafe(r, a),
               given' = [given EXCEPT ![r] = a]
        PROVE  TypeOK'
    <3>1. a \in Addr
      BY DEF FreeSet
    <3>2. given' \in [Requests -> Addr \cup {NoAddr}]
      BY <2>4, <3>1 DEF TypeOK
    <3>3. CASE ~IsAddressKnown(a)
      BY <1>4, <2>2, <2>4, <3>2, <3>3
      DEF GetFreeAddressAndSubscribe, updateAddressUnsafe, TypeOK, memory
    <3>4. CASE IsAddressKnown(a)
      <4> DEFINE p == fastPool[a]
                 new == [rec[a][p] EXCEPT !.owner = r]
      <4>1. p \in 1 .. MaxVersion
        BY <3>1, <3>4 DEF TypeOK, IsAddressKnown, Ptr
      <4>2. rec[a][p] \in Rec
        BY <3>1, <4>1 DEF TypeOK
      <4>3. new \in Rec
        BY <4>2 DEF Rec
      <4>4. /\ rec' = [rec EXCEPT ![a][p] = new]
            /\ freeAddresses' = [freeAddresses EXCEPT ![a] = 0]
            /\ marked' = [marked EXCEPT ![r] = TRUE]
            /\ UNCHANGED <<allAddresses, fastPool, used>>
            /\ \E ok \in SaveResults : Save(a, new, ok)
        BY <2>4, <3>4 DEF updateAddressUnsafe, FreeAfterUpdate
      <4>5. db' \in [Addr -> Rec \cup {NoRec}]
        BY <3>1, <4>3, <4>4, SaveType
      <4> HIDE DEF p, new
      <4>6. /\ rec' \in [Addr -> [1 .. MaxVersion -> Rec]]
            /\ freeAddresses' \in [Addr -> Ptr]
            /\ marked' \in [Requests -> BOOLEAN]
        BY <3>1, <4>1, <4>3, <4>4 DEF TypeOK, Ptr
      <4>7. QED
        BY <1>4, <2>2, <3>2, <4>4, <4>5, <4>6
        DEF GetFreeAddressAndSubscribe, TypeOK
    <3>5. QED
      BY <3>3, <3>4
  <2>5. QED
    BY <1>4, <2>3, <2>4 DEF GetFreeAddressAndSubscribe
<1>5. ASSUME NEW r \in Requests, AddAddressFill(r) \/ AddCheck(r) PROVE TypeOK'
  <2>1. PICK a \in Nameable, q \in {"done", "check", "insert"} :
          /\ arg' = [arg EXCEPT ![r] = a]
          /\ pc' = [pc EXCEPT ![r] = q]
          /\ UNCHANGED <<phase, memory, db, mux, todo, given, marked, checkers,
                         updates, crashes>>
    BY <1>5 DEF AddAddressFill, AddCheck
  <2>2. a \in Addr
    BY NameableType
  <2>3. QED
    BY <2>1, <2>2 DEF TypeOK, memory, checkers
<1>6. ASSUME NEW r \in Requests, AddAddressRecordCheck(r) PROVE TypeOK'
  BY <1>6 DEF AddAddressRecordCheck, TypeOK, memory, checkers
<1>7. ASSUME NEW r \in Requests, AddInsert(r) PROVE TypeOK'
  <2>1. arg[r] \in Addr
    BY <1>7 DEF AddInsert, ArgNamed
  <2>2. PICK ok \in SaveResults : addAddressUnsafe(r, arg[r], ok)
    BY <1>7 DEF AddInsert
  <2>3. QED
    BY <1>7, <2>1, <2>2, AddAddressUnsafeType DEF AddInsert, TypeOK, checkers
<1>8. ASSUME NEW r \in Requests, BulkLock(r) PROVE TypeOK'
  BY <1>8, NameableType DEF BulkLock, TypeOK, memory, checkers, Checkers
<1>9. ASSUME NEW r \in Requests, BulkNext(r) PROVE TypeOK'
  <2>1. PICK a \in todo[r] :
          \/ /\ todo' = [todo EXCEPT ![r] = @ \ {a}]
             /\ UNCHANGED <<memory, db, updates>>
          \/ \E ok \in SaveResults :
                /\ addAddressUnsafe(r, a, ok)
                /\ todo' = [todo EXCEPT ![r] = IF ok THEN @ \ {a} ELSE {}]
    BY <1>9 DEF BulkNext
  <2>2. a \in Addr
    BY DEF TypeOK
  <2>3. todo' \in [Requests -> SUBSET Addr]
    <3>1. todo[r] \ {a} \in SUBSET Addr
      BY DEF TypeOK
    <3>2. QED
      BY <2>1, <3>1 DEF TypeOK
  <2>4. CASE UNCHANGED <<memory, db, updates>>
    BY <1>9, <2>3, <2>4 DEF BulkNext, TypeOK, memory, checkers
  <2>5. ASSUME NEW ok \in SaveResults, addAddressUnsafe(r, a, ok) PROVE TypeOK'
    BY <1>9, <2>2, <2>3, <2>5, AddAddressUnsafeType
    DEF BulkNext, TypeOK, checkers
  <2>6. QED
    BY <2>1, <2>4, <2>5
<1>10. ASSUME NEW r \in Requests, BulkUnlock(r) PROVE TypeOK'
  BY <1>10 DEF BulkUnlock, TypeOK, memory, checkers
<1>11. ASSUME NEW g \in Checkers, checkFreeAddressPool(g) PROVE TypeOK'
  BY <1>11, RefillAmountIsNumber
  DEF checkFreeAddressPool, TypeOK, memory, clients
<1>12. ASSUME NEW g \in Checkers, RefillLock(g) PROVE TypeOK'
  BY <1>12 DEF RefillLock, TypeOK, memory, clients
<1>13. ASSUME NEW g \in Checkers, RefillOne(g) PROVE TypeOK'
  <2> DEFINE new == [key |-> TRUE, owner |-> NoOne]
  <2>1. PICK a \in Fresh, ok \in SaveResults :
          /\ Insert(a, new)
          /\ Save(a, new, ok)
          /\ left' = [left EXCEPT ![g] = IF ok THEN @ - 1 ELSE 0]
          /\ chk' = [chk EXCEPT ![g] = IF ok THEN "generate" ELSE "idle"]
          /\ mux' = IF ok THEN mux ELSE NoOne
    BY <1>13 DEF RefillOne
  <2>2. a \in Addr /\ new \in Rec
    BY DEF Fresh, Rec
  <2> HIDE DEF new
  <2>3. left' \in [Checkers -> Nat]
    BY <1>13, <2>1 DEF RefillOne, MoreToGenerate, TypeOK
  <2>4. QED
    BY <1>13, <2>1, <2>2, <2>3, InsertType, SaveType
    DEF RefillOne, TypeOK, clients
<1>14. ASSUME NEW g \in Checkers, RefillGenerateFails(g) \/ RefillDone(g)
       PROVE  TypeOK'
  <2>1. /\ chk' = [chk EXCEPT ![g] = "idle"] /\ mux' = NoOne
        /\ UNCHANGED <<phase, memory, db, clients, crashes>>
    BY <1>14 DEF RefillGenerateFails, RefillDone
  <2>2. left' \in [Checkers -> Nat] /\ updates' \in Nat
    <3>1. CASE RefillGenerateFails(g)
      BY <3>1 DEF RefillGenerateFails, TypeOK
    <3>2. CASE RefillDone(g)
      BY <3>2 DEF RefillDone, TypeOK
    <3>3. QED
      BY <1>14, <3>1, <3>2
  <2>3. QED
    BY <2>1, <2>2 DEF TypeOK, memory, clients
<1>15. CASE updatePool
  BY <1>15 DEF updatePool, TypeOK, clients, checkers
<1>16. CASE AtRest \/ UNCHANGED vars
  BY <1>16 DEF AtRest, vars, TypeOK, memory, clients, checkers
<1>17. QED
  BY <1>1, <1>2, <1>3, <1>4, <1>5, <1>6, <1>7, <1>8, <1>9, <1>10, <1>11,
     <1>12, <1>13, <1>14, <1>15, <1>16
  DEF Next, Request, Checker

\* Every step keeps the address of a call that has passed its look-up.
LEMMA ArgNext == TypeInv /\ [Next]_vars => ArgNamed'
<1> SUFFICES ASSUME TypeOK, ArgNamed, [Next]_vars,
                    NEW q \in Requests, pc'[q] \in {"check", "insert"}
             PROVE  arg'[q] \in Addr
  BY DEF TypeInv, ArgNamed
<1>1. CASE UNCHANGED <<pc, arg>>
  BY <1>1 DEF ArgNamed
<1>2. CASE Crash
  BY <1>2 DEF Crash
<1>3. ASSUME NEW r \in Requests, AddAddressFill(r) \/ AddCheck(r)
      PROVE  arg'[q] \in Addr
  BY <1>3, NameableType DEF AddAddressFill, AddCheck, ArgNamed, TypeOK
<1>4. ASSUME NEW r \in Requests, AddAddressRecordCheck(r) PROVE arg'[q] \in Addr
  BY <1>4 DEF AddAddressRecordCheck, ArgNamed, TypeOK
<1>5. ASSUME NEW r \in Requests,
             GetFreeAddressAndSubscribe(r) \/ AddInsert(r) \/ BulkLock(r) \/ BulkUnlock(r)
      PROVE  arg'[q] \in Addr
  <2>1. arg' = arg /\ \E c \in {"done", "bulk"} : pc' = [pc EXCEPT ![r] = c]
    BY <1>5 DEF GetFreeAddressAndSubscribe, AddInsert, BulkLock, BulkUnlock
  <2>2. QED
    BY <2>1 DEF ArgNamed, TypeOK
<1>6. ASSUME NEW r \in Requests, BulkNext(r) PROVE UNCHANGED <<pc, arg>>
  BY <1>6 DEF BulkNext
<1>7. ASSUME NEW g \in Checkers, Checker(g) PROVE UNCHANGED <<pc, arg>>
  BY <1>7 DEF Checker, checkFreeAddressPool, RefillLock, RefillOne,
              RefillGenerateFails, RefillDone, clients
<1>8. CASE preLoadAddresses \/ NewManagerReturns \/ updatePool \/ AtRest \/ UNCHANGED vars
  BY <1>1, <1>8
  DEF preLoadAddresses, NewManagerReturns, updatePool, AtRest, vars, clients
<1>9. QED
  BY <1>1, <1>2, <1>3, <1>4, <1>5, <1>6, <1>7, <1>8 DEF Next, Request

\* TypeOK holds in every reachable state of every instance.
THEOREM TypeCorrect == Spec => []TypeOK
<1>1. TypeInv /\ [Next]_vars => TypeInv'
  BY TypeNext, ArgNext DEF TypeInv
<1>2. TypeInv => TypeOK
  BY DEF TypeInv
<1>3. QED
  BY TypeInit, <1>1, <1>2, PTL DEF Spec

-----------------------------------------------------------------------------
(***************************************************************************)
(* FreeRecordsUnsubscribed.  The free list points into records that other  *)
(* calls overwrite through the index, and a new record of the same address *)
(* is allocated without looking at the free list.  What makes it safe is   *)
(* that a new record is a new pointer: the free list only holds pointers   *)
(* that were allocated before.                                             *)
(***************************************************************************)
FreeBelowUsed == \A a \in Addr : freeAddresses[a] <= used[a]

FreeInv == FreeBelowUsed /\ FreeRecordsUnsubscribed

\* A new record leaves the free list pointing at unsubscribed records.
LEMMA InsertKeepsFree ==
    ASSUME TypeOK, FreeInv, NEW a \in Addr, NEW r \in Rec, Insert(a, r)
    PROVE  FreeInv'
<1> SUFFICES ASSUME NEW b \in Addr
             PROVE  /\ freeAddresses'[b] <= used'[b]
                    /\ freeAddresses'[b] # 0 => rec'[b][freeAddresses'[b]].owner = NoOne
  BY DEF FreeInv, FreeBelowUsed, FreeRecordsUnsubscribed, FreeSet
<1>1. /\ used[a] \in 0 .. MaxVersion /\ used[a] + 1 \in 1 .. MaxVersion
      /\ freeAddresses[b] \in 0 .. MaxVersion /\ used[b] \in 0 .. MaxVersion
      /\ freeAddresses[b] <= used[b]
      /\ freeAddresses[b] # 0 => rec[b][freeAddresses[b]].owner = NoOne
  BY AddressAssumption
  DEF TypeOK, Ptr, Insert, FreeInv, FreeBelowUsed, FreeRecordsUnsubscribed, FreeSet
<1>2. CASE b # a
  BY <1>1, <1>2 DEF Insert, TypeOK
<1>3. CASE b = a
  <2>1. used'[a] = used[a] + 1 /\ rec'[a] = [rec[a] EXCEPT ![used[a] + 1] = r]
    BY DEF Insert, TypeOK
  <2>2. CASE r.owner = NoOne
    <3>1. freeAddresses'[a] = used[a] + 1
      BY <2>2 DEF Insert, TypeOK
    <3>2. rec'[a][used[a] + 1] = r
      BY <1>1, <2>1 DEF TypeOK
    <3>3. QED
      BY <1>1, <1>3, <2>1, <2>2, <3>1, <3>2
  <2>3. CASE r.owner # NoOne
    <3>1. freeAddresses' = freeAddresses
      BY <2>3 DEF Insert
    <3>2. freeAddresses[a] # 0 => rec'[a][freeAddresses[a]] = rec[a][freeAddresses[a]]
      BY <1>1, <1>3, <2>1 DEF TypeOK
    <3>3. QED
      BY <1>1, <1>3, <2>1, <3>1, <3>2
  <2>4. QED
    BY <2>2, <2>3
<1>4. QED
  BY <1>2, <1>3

\* The free list starts empty.
LEMMA FreeInit == Init => FreeInv
<1>1. QED
  BY DEF Init, FreeInv, FreeBelowUsed, FreeRecordsUnsubscribed, FreeSet

\* Every step keeps the free list free.
LEMMA FreeNext == TypeInv /\ FreeInv /\ [Next]_vars => FreeInv'
<1> SUFFICES ASSUME TypeOK, ArgNamed, FreeInv, [Next]_vars PROVE FreeInv'
  BY DEF TypeInv
<1>1. CASE UNCHANGED <<freeAddresses, used, rec>>
  BY <1>1 DEF FreeInv, FreeBelowUsed, FreeRecordsUnsubscribed, FreeSet
<1>2. CASE preLoadAddresses
  <2> SUFFICES ASSUME NEW a \in Addr
               PROVE  /\ freeAddresses'[a] <= used'[a]
                      /\ freeAddresses'[a] # 0 => rec'[a][freeAddresses'[a]].owner = NoOne
    BY DEF FreeInv, FreeBelowUsed, FreeRecordsUnsubscribed, FreeSet
  <2>1. 1 \in 1 .. MaxVersion
    BY AddressAssumption
  <2>2. CASE LoadedFree(a)
    <3>1. freeAddresses'[a] = 1 /\ used'[a] = 1
      BY <1>2, <2>2 DEF preLoadAddresses, LoadedFree, LoadedAll
    <3>2. rec'[a][1] = db[a]
      BY <1>2, <2>1, <2>2 DEF preLoadAddresses, LoadedFree
    <3>3. QED
      BY <2>2, <3>1, <3>2 DEF LoadedFree
  <2>3. CASE ~LoadedFree(a)
    BY <1>2, <2>3 DEF preLoadAddresses
  <2>4. QED
    BY <2>2, <2>3
<1>3. CASE Crash
  BY <1>3 DEF Crash, FreeInv, FreeBelowUsed, FreeRecordsUnsubscribed, FreeSet
<1>4. ASSUME NEW r \in Requests, GetFreeAddressAndSubscribe(r) PROVE FreeInv'
  <2>1. CASE UNCHANGED memory
    BY <1>1, <2>1 DEF memory
  <2>2. ASSUME NEW a \in FreeSet, IsAddressKnown(a), updateAddressUnsafe(r, a)
        PROVE  FreeInv'
    <3> SUFFICES ASSUME NEW b \in Addr
                 PROVE  /\ freeAddresses'[b] <= used'[b]
                        /\ freeAddresses'[b] # 0 => rec'[b][freeAddresses'[b]].owner = NoOne
      BY DEF FreeInv, FreeBelowUsed, FreeRecordsUnsubscribed, FreeSet
    <3>1. /\ used' = used
          /\ freeAddresses' = [freeAddresses EXCEPT ![a] = 0]
          /\ \E new : rec' = [rec EXCEPT ![a][fastPool[a]] = new]
      BY <2>2 DEF updateAddressUnsafe, FreeAfterUpdate
    <3>2. CASE b = a
      BY <3>1, <3>2 DEF TypeOK, Ptr
    <3>3. CASE b # a
      BY <3>1, <3>3
      DEF TypeOK, FreeInv, FreeBelowUsed, FreeRecordsUnsubscribed, FreeSet
    <3>4. QED
      BY <3>2, <3>3
  <2>3. QED
    BY <1>4, <2>1, <2>2
    DEF GetFreeAddressAndSubscribe, NoFreeAddresses, updateAddressUnsafe
<1>5. ASSUME NEW r \in Requests, NEW a \in Addr, NEW ok,
             addAddressUnsafe(r, a, ok)
      PROVE  FreeInv'
  BY <1>5, NewRecordsType, InsertKeepsFree DEF addAddressUnsafe
<1>6. ASSUME NEW r \in Requests, AddInsert(r) PROVE FreeInv'
  BY <1>5, <1>6 DEF AddInsert, ArgNamed
<1>7. ASSUME NEW r \in Requests, BulkNext(r) PROVE FreeInv'
  <2>1. PICK a \in todo[r] :
            UNCHANGED memory \/ \E ok \in SaveResults : addAddressUnsafe(r, a, ok)
    BY <1>7 DEF BulkNext
  <2>2. a \in Addr
    BY DEF TypeOK
  <2>3. QED
    BY <1>1, <1>5, <2>1, <2>2 DEF memory
<1>8. ASSUME NEW g \in Checkers, RefillOne(g) PROVE FreeInv'
  <2>1. PICK a \in Fresh : Insert(a, [key |-> TRUE, owner |-> NoOne])
    BY <1>8 DEF RefillOne
  <2>2. a \in Addr /\ [key |-> TRUE, owner |-> NoOne] \in Rec
    BY DEF Fresh, Rec
  <2>3. QED
    BY <2>1, <2>2, InsertKeepsFree
<1>9. ASSUME NEW r \in Requests,
             AddAddressFill(r) \/ AddAddressRecordCheck(r) \/ AddCheck(r)
             \/ BulkLock(r) \/ BulkUnlock(r)
      PROVE  FreeInv'
  BY <1>1, <1>9
  DEF AddAddressFill, AddAddressRecordCheck, AddCheck, BulkLock, BulkUnlock, memory
<1>10. ASSUME NEW g \in Checkers,
              checkFreeAddressPool(g) \/ RefillLock(g) \/ RefillGenerateFails(g)
              \/ RefillDone(g)
       PROVE  FreeInv'
  BY <1>1, <1>10
  DEF checkFreeAddressPool, RefillLock, RefillGenerateFails, RefillDone, memory
<1>11. CASE NewManagerReturns \/ updatePool \/ AtRest \/ UNCHANGED vars
  BY <1>1, <1>11 DEF NewManagerReturns, updatePool, AtRest, vars, memory
<1>12. QED
  BY <1>2, <1>3, <1>4, <1>6, <1>7, <1>8, <1>9, <1>10, <1>11
  DEF Next, Request, Checker

\* The record the free list holds for an address is never a subscribed one.
THEOREM FreeListIsFree == Spec => []FreeRecordsUnsubscribed
<1>1. TypeInv /\ FreeInv /\ [Next]_vars => (TypeInv /\ FreeInv)'
  BY TypeNext, ArgNext, FreeNext DEF TypeInv
<1>2. FreeInv => FreeRecordsUnsubscribed
  BY DEF FreeInv
<1>3. QED
  BY TypeInit, FreeInit, <1>1, <1>2, PTL DEF Spec

-----------------------------------------------------------------------------
\* The lock order of the two loops is inductive by itself.
LEMMA OneWriterNext == TypeOK /\ OneWriter /\ [Next]_vars => OneWriter'
<1> SUFFICES ASSUME TypeOK, OneWriter, [Next]_vars PROVE OneWriter'
  OBVIOUS
<1> USE DistinctAssumption DEF Checkers
<1>1. CASE UNCHANGED <<chk, pc, mux>>
  BY <1>1 DEF OneWriter
<1>2. CASE Crash
  BY <1>2 DEF Crash, OneWriter, TypeOK
<1>3. CASE preLoadAddresses
  BY <1>3 DEF preLoadAddresses, OneWriter, TypeOK, clients
<1>4. ASSUME NEW r \in Requests, GetFreeAddressAndSubscribe(r) PROVE OneWriter'
  BY <1>4 DEF GetFreeAddressAndSubscribe, SpawnCheck, OneWriter, TypeOK
<1>5. ASSUME NEW r \in Requests,
             AddAddressFill(r) \/ AddAddressRecordCheck(r) \/ AddCheck(r) \/ AddInsert(r)
      PROVE  OneWriter'
  <2>1. /\ \E c \in {"done", "check", "insert"} : pc' = [pc EXCEPT ![r] = c]
        /\ UNCHANGED <<chk, mux>>
    BY <1>5 DEF AddAddressFill, AddAddressRecordCheck, AddCheck, AddInsert, checkers
  <2>2. QED
    BY <2>1 DEF OneWriter, TypeOK
<1>6. ASSUME NEW r \in Requests, BulkLock(r) PROVE OneWriter'
  BY <1>6 DEF BulkLock, Unlocked, OneWriter, TypeOK, checkers
<1>7. ASSUME NEW r \in Requests, BulkUnlock(r) PROVE OneWriter'
  BY <1>7 DEF BulkUnlock, OneWriter, TypeOK, checkers
<1>8. ASSUME NEW r \in Requests, BulkNext(r) PROVE UNCHANGED <<chk, pc, mux>>
  BY <1>8 DEF BulkNext, checkers
<1>9. ASSUME NEW g \in Checkers, checkFreeAddressPool(g) PROVE OneWriter'
  BY <1>9 DEF checkFreeAddressPool, OneWriter, TypeOK, clients
<1>10. ASSUME NEW g \in Checkers, RefillLock(g) PROVE OneWriter'
  BY <1>10 DEF RefillLock, Unlocked, OneWriter, TypeOK, clients
<1>11. ASSUME NEW g \in Checkers, RefillOne(g) PROVE OneWriter'
  <2>1. PICK ok \in SaveResults :
          /\ chk' = [chk EXCEPT ![g] = IF ok THEN "generate" ELSE "idle"]
          /\ mux' = IF ok THEN mux ELSE NoOne
    BY <1>11 DEF RefillOne
  <2>2. chk[g] = "generate" /\ pc' = pc
    BY <1>11 DEF RefillOne, clients
  <2>3. CASE ok
    BY <2>1, <2>2, <2>3 DEF OneWriter, TypeOK
  <2>4. CASE ~ok
    BY <2>1, <2>2, <2>4 DEF OneWriter, TypeOK
  <2>5. QED
    BY <2>3, <2>4
<1>12. ASSUME NEW g \in Checkers, RefillGenerateFails(g) \/ RefillDone(g)
       PROVE  OneWriter'
  BY <1>12 DEF RefillGenerateFails, RefillDone, OneWriter, TypeOK, clients
<1>13. CASE NewManagerReturns \/ updatePool \/ AtRest \/ UNCHANGED vars
  BY <1>1, <1>13
  DEF NewManagerReturns, updatePool, AtRest, vars, clients, checkers
<1>14. QED
  BY <1>1, <1>2, <1>3, <1>4, <1>5, <1>6, <1>7, <1>8, <1>9, <1>10, <1>11,
     <1>12, <1>13
  DEF Next, Request, Checker

\* A loop that saves record after record under the write lock is alone.
THEOREM LoopsExclude == Spec => []OneWriter
<1>1. Init => OneWriter
  BY DEF Init, OneWriter, Checkers
<1>2. TypeInv /\ OneWriter /\ [Next]_vars => (TypeInv /\ OneWriter)'
  BY TypeNext, ArgNext, OneWriterNext DEF TypeInv
<1>3. QED
  BY TypeInit, <1>1, <1>2, PTL DEF Spec

-----------------------------------------------------------------------------
\* Insert and Save on the same address keep everything inside allAddresses.
LEMMA InsertKeepsInside ==
    ASSUME TypeOK, NothingOutsideAll, phase' = phase, fastPool' = fastPool,
           NEW a \in Addr, NEW r, NEW ok, Insert(a, r), Save(a, r, ok)
    PROVE  NothingOutsideAll'
<1> SUFFICES ASSUME phase # "down", NEW b \in Addr,
                    db'[b] # NoRec \/ freeAddresses'[b] # 0 \/ fastPool'[b] # 0
             PROVE  allAddresses'[b] # 0
  BY DEF NothingOutsideAll, InAll
<1>1. CASE b = a
  BY <1>1 DEF Insert, TypeOK, Ptr
<1>2. CASE b # a
  BY <1>2 DEF Insert, Save, TypeOK, NothingOutsideAll, InAll
<1>3. QED
  BY <1>1, <1>2

\* Every step keeps disk, free list and index inside allAddresses.
LEMMA InsideNext == TypeInv /\ NothingOutsideAll /\ [Next]_vars => NothingOutsideAll'
<1> SUFFICES ASSUME TypeOK, ArgNamed, NothingOutsideAll, [Next]_vars
             PROVE  NothingOutsideAll'
  BY DEF TypeInv
<1>1. CASE UNCHANGED <<phase, allAddresses, freeAddresses, fastPool, db>>
  BY <1>1 DEF NothingOutsideAll, InAll
<1>2. CASE preLoadAddresses
  <2> SUFFICES ASSUME NEW a \in Addr,
                      db'[a] # NoRec \/ freeAddresses'[a] # 0 \/ fastPool'[a] # 0
               PROVE  allAddresses'[a] # 0
    BY DEF NothingOutsideAll, InAll
  <2>1. QED
    BY <1>2 DEF preLoadAddresses, LoadedAll, LoadedFree
<1>3. CASE Crash
  BY <1>3 DEF Crash, NothingOutsideAll
<1>4. CASE NewManagerReturns
  BY <1>4 DEF NewManagerReturns, NothingOutsideAll, InAll, memory
<1>5. ASSUME NEW r \in Requests, GetFreeAddressAndSubscribe(r)
      PROVE  NothingOutsideAll'
  <2>1. phase' = phase
    BY <1>5 DEF GetFreeAddressAndSubscribe
  <2>2. CASE UNCHANGED <<memory, db>>
    BY <1>1, <2>1, <2>2 DEF memory
  <2>3. ASSUME NEW a \in FreeSet, IsAddressKnown(a), updateAddressUnsafe(r, a)
        PROVE  NothingOutsideAll'
    <3>1. /\ UNCHANGED <<allAddresses, fastPool>>
          /\ freeAddresses' = [freeAddresses EXCEPT ![a] = 0]
          /\ \E new, ok : Save(a, new, ok)
      BY <2>3 DEF updateAddressUnsafe, FreeAfterUpdate
    <3>2. QED
      BY <2>1, <2>3, <3>1
      DEF Save, NothingOutsideAll, InAll, IsAddressKnown, TypeOK, FreeSet
  <2>4. QED
    BY <1>5, <2>2, <2>3
    DEF GetFreeAddressAndSubscribe, NoFreeAddresses, updateAddressUnsafe
<1>6. ASSUME NEW r \in Requests, NEW a \in Addr, NEW ok,
             addAddressUnsafe(r, a, ok), phase' = phase
      PROVE  NothingOutsideAll'
  BY <1>6, InsertKeepsInside DEF addAddressUnsafe
<1>7. ASSUME NEW r \in Requests, AddInsert(r) PROVE NothingOutsideAll'
  BY <1>6, <1>7 DEF AddInsert, ArgNamed
<1>8. ASSUME NEW r \in Requests, BulkNext(r) PROVE NothingOutsideAll'
  <2>1. PICK a \in todo[r] :
            UNCHANGED <<memory, db>> \/ \E ok \in SaveResults : addAddressUnsafe(r, a, ok)
    BY <1>8 DEF BulkNext
  <2>2. a \in Addr /\ phase' = phase
    BY <1>8 DEF TypeOK, BulkNext
  <2>3. QED
    BY <1>1, <1>6, <2>1, <2>2 DEF memory
<1>9. ASSUME NEW g \in Checkers, RefillOne(g) PROVE NothingOutsideAll'
  <2>1. PICK a \in Fresh, ok \in SaveResults :
            /\ Insert(a, [key |-> TRUE, owner |-> NoOne])
            /\ Save(a, [key |-> TRUE, owner |-> NoOne], ok)
    BY <1>9 DEF RefillOne
  <2>2. a \in Addr /\ phase' = phase /\ fastPool' = fastPool
    BY <1>9 DEF Fresh, RefillOne
  <2>3. QED
    BY <2>1, <2>2, InsertKeepsInside
<1>10. ASSUME NEW r \in Requests,
              AddAddressFill(r) \/ AddAddressRecordCheck(r) \/ AddCheck(r)
              \/ BulkLock(r) \/ BulkUnlock(r)
       PROVE  NothingOutsideAll'
  BY <1>1, <1>10
  DEF AddAddressFill, AddAddressRecordCheck, AddCheck, BulkLock, BulkUnlock, memory
<1>11. ASSUME NEW g \in Checkers,
              checkFreeAddressPool(g) \/ RefillLock(g) \/ RefillGenerateFails(g)
              \/ RefillDone(g)
       PROVE  NothingOutsideAll'
  BY <1>1, <1>11
  DEF checkFreeAddressPool, RefillLock, RefillGenerateFails, RefillDone, memory
<1>12. CASE updatePool
  BY <1>12 DEF updatePool, NothingOutsideAll, InAll
<1>13. CASE AtRest \/ UNCHANGED vars
  BY <1>1, <1>13 DEF AtRest, vars, memory
<1>14. QED
  BY <1>2, <1>3, <1>4, <1>5, <1>7, <1>8, <1>9, <1>10, <1>11, <1>12, <1>13
  DEF Next, Request, Checker

\* What a running manager has on disk, free or indexed is in allAddresses.
THEOREM AllIsAll == Spec => []NothingOutsideAll
<1>1. Init => NothingOutsideAll
  BY DEF Init, NothingOutsideAll
<1>2. TypeInv /\ NothingOutsideAll /\ [Next]_vars => (TypeInv /\ NothingOutsideAll)'
  BY TypeNext, ArgNext, InsideNext DEF TypeInv
<1>3. QED
  BY TypeInit, <1>1, <1>2, PTL DEF Spec

\* The maps, the disk and the lock agree in every instance (api.go, fillpool.go).
THEOREM PoolIsSound == Spec => []PoolSound
<1>1. FreeRecordsUnsubscribed /\ NothingOutsideAll /\ OneWriter => PoolSound
  BY DEF PoolSound
<1>2. QED
  BY FreeListIsFree, AllIsAll, LoopsExclude, <1>1, PTL

-----------------------------------------------------------------------------
(***************************************************************************)
(* FreeListExact, DiskMatchesMemory, FinalHandout and SubscriptionKept.    *)
(* The look-up before an insertion reads the index, in a critical section  *)
(* of its own, so a call may insert an address that has become managed     *)
(* since (api.go, AddAddressRecord).  What follows shows that this late    *)
(* insertion is the only thing that can break the four properties: they    *)
(* hold as long as every late insertion is a second subscription of an     *)
(* address that is subscribed already, whatever the index misses.          *)
(***************************************************************************)
LateInsertsSubscribe ==
    \A r \in Requests :
        pc[r] = "insert" /\ InAll(arg[r]) =>
            Kind[r] = "subscribe" /\ Owner(arg[r]) # NoOne

\* The usual state of an address: it has one record at most, the index has
\* that one or none, and it is free exactly while it is unsubscribed.
OneRecord(a) ==
    /\ used[a] \in {0, 1}
    /\ allAddresses[a] = used[a]
    /\ fastPool[a] \in {0, used[a]}
    /\ freeAddresses[a] = IF used[a] = 1 /\ rec[a][1].owner = NoOne THEN 1 ELSE 0

\* What a late insertion leaves behind: the index may hold an older record,
\* but the address is not free, so getNew never writes through the index.
Resubscribed(a) ==
    /\ allAddresses[a] # 0
    /\ freeAddresses[a] = 0
    /\ rec[a][allAddresses[a]].owner # NoOne

ListInv == \A a \in Addr : OneRecord(a) \/ Resubscribed(a)

\* A record made by addAddressUnsafe or by the refill keeps ListInv, unless
\* it is late and not a second subscription.
LEMMA InsertKeepsList ==
    ASSUME TypeOK, ListInv, NEW a \in Addr, NEW r \in Rec, Insert(a, r),
           fastPool' = fastPool,
           InAll(a) => Owner(a) # NoOne /\ r.owner # NoOne
    PROVE  ListInv'
<1> SUFFICES ASSUME NEW b \in Addr PROVE (OneRecord(b) \/ Resubscribed(b))'
  BY DEF ListInv
<1>1. OneRecord(b) \/ Resubscribed(b)
  BY DEF ListInv
<1>2. CASE b # a
  <2>1. /\ used'[b] = used[b] /\ rec'[b] = rec[b] /\ fastPool'[b] = fastPool[b]
        /\ allAddresses'[b] = allAddresses[b] /\ freeAddresses'[b] = freeAddresses[b]
    BY <1>2 DEF Insert, TypeOK
  <2>2. QED
    BY <1>1, <2>1 DEF OneRecord, Resubscribed
<1>3. CASE b = a
  <2> DEFINE n == used[a] + 1
  <2>1. used[a] \in 0 .. MaxVersion /\ n \in 1 .. MaxVersion
    BY AddressAssumption DEF TypeOK, Ptr, Insert
  <2>2. /\ used'[a] = n /\ allAddresses'[a] = n /\ fastPool'[a] = fastPool[a]
        /\ rec'[a][n] = r
        /\ freeAddresses'[a] = IF r.owner = NoOne THEN n ELSE freeAddresses[a]
    BY <2>1 DEF Insert, TypeOK
  <2>3. CASE InAll(a)
    <3>1. freeAddresses[a] = 0
      <4>1. CASE OneRecord(a)
        BY <2>3, <4>1 DEF OneRecord, InAll, Owner
      <4>2. CASE Resubscribed(a)
        BY <4>2 DEF Resubscribed
      <4>3. QED
        BY <4>1, <4>2 DEF ListInv
    <3>2. allAddresses'[a] # 0 /\ freeAddresses'[a] = 0
          /\ rec'[a][allAddresses'[a]].owner # NoOne
      BY <2>1, <2>2, <2>3, <3>1
    <3>3. QED
      BY <1>3, <3>2 DEF Resubscribed
  <2>4. CASE ~InAll(a)
    <3>1. used[a] = 0 /\ fastPool[a] = 0 /\ freeAddresses[a] = 0
      BY <1>1, <1>3, <2>4 DEF OneRecord, Resubscribed, InAll
    <3>2. /\ used'[a] = 1 /\ allAddresses'[a] = 1 /\ fastPool'[a] = 0
          /\ rec'[a][1] = r
          /\ freeAddresses'[a] = IF r.owner = NoOne THEN 1 ELSE 0
      BY <2>2, <3>1
    <3>3. QED
      BY <1>3, <3>2 DEF OneRecord
  <2>5. QED
    BY <2>3, <2>4
<1>4. QED
  BY <1>2, <1>3

\* A request has subscribed an address that was free: it keeps ListInv, and
\* the record it wrote is the one allAddresses has.
LEMMA UpdateKeepsList ==
    ASSUME TypeOK, ListInv, NEW r \in Requests, NEW a \in FreeSet,
           IsAddressKnown(a), updateAddressUnsafe(r, a)
    PROVE  /\ ListInv'
           /\ fastPool[a] = allAddresses[a] /\ InAll(a) /\ Owner(a) = NoOne
<1>1. a \in Addr /\ freeAddresses[a] # 0 /\ fastPool[a] # 0
  BY DEF FreeSet, IsAddressKnown
<1>2. OneRecord(a)
  BY <1>1 DEF ListInv, Resubscribed
<1>3. used[a] = 1 /\ fastPool[a] = 1 /\ allAddresses[a] = 1 /\ rec[a][1].owner = NoOne
  BY <1>1, <1>2 DEF OneRecord
<1> DEFINE new == [rec[a][1] EXCEPT !.owner = r]
<1>4. /\ UNCHANGED <<allAddresses, fastPool, used>>
      /\ freeAddresses' = [freeAddresses EXCEPT ![a] = 0]
      /\ rec' = [rec EXCEPT ![a][1] = new]
  BY <1>3, IsAddressKnown(a) DEF updateAddressUnsafe, FreeAfterUpdate
<1>5. 1 \in 1 .. MaxVersion /\ rec[a][1] \in Rec
  BY <1>1, AddressAssumption DEF TypeOK
<1>6. new.owner = r
  BY <1>5 DEF Rec
<1> HIDE DEF new
<1>7. ASSUME NEW b \in Addr PROVE (OneRecord(b) \/ Resubscribed(b))'
  <2>1. CASE b = a
    <3>1. rec'[a][1] = new /\ freeAddresses'[a] = 0
      BY <1>1, <1>4, <1>5 DEF TypeOK
    <3>2. new.owner # NoOne
      BY <1>6, DistinctAssumption
    <3>3. QED
      BY <1>3, <1>4, <2>1, <3>1, <3>2 DEF OneRecord
  <2>2. CASE b # a
    <3>1. rec'[b] = rec[b] /\ freeAddresses'[b] = freeAddresses[b]
      BY <1>4, <2>2 DEF TypeOK
    <3>2. OneRecord(b) \/ Resubscribed(b)
      BY DEF ListInv
    <3>3. QED
      BY <1>4, <3>1, <3>2 DEF OneRecord, Resubscribed
  <2>3. QED
    BY <2>1, <2>2
<1>8. QED
  BY <1>3, <1>7 DEF ListInv, InAll, Owner

\* What an insertion does: a new record in the maps and, unless the save
\* fails, on disk.  It is late when a call made its look-up too early.
Inserts(a, new) ==
    /\ Insert(a, new)
    /\ \E ok \in SaveResults : Save(a, new, ok)
    /\ UNCHANGED <<phase, fastPool, given, marked>>
    /\ InAll(a) => \E r \in Requests :
                      /\ pc[r] = "insert" /\ arg[r] = a /\ new \in NewRecords(r)
                      /\ pc'[r] = "done"
    /\ a \in Ext => \E r \in Requests :
                      /\ new \in NewRecords(r)
                      /\ pc[r] = "bulk" \/ (pc[r] = "insert" /\ pc'[r] = "done")
    /\ phase = "up" \/ db[a] = NoRec

\* What most steps do not touch.
pool == <<memory, db, given, marked>>

\* The steps, by what they do to the pool.
LEMMA PoolSteps ==
    ASSUME TypeOK, ArgNamed, [Next]_vars
    PROVE  \/ UNCHANGED pool /\ (phase' = phase \/ (phase = "boot" /\ phase' = "up"))
           \/ preLoadAddresses \/ Crash \/ updatePool
           \/ \E r \in Requests : GetFreeAddressAndSubscribe(r)
           \/ \E a \in Addr, new \in Rec : Inserts(a, new)
<1>1. ASSUME NEW r \in Requests, AddInsert(r)
      PROVE  \E a \in Addr, new \in Rec : Inserts(a, new)
  <2>1. PICK ok \in SaveResults : addAddressUnsafe(r, arg[r], ok)
    BY <1>1 DEF AddInsert
  <2>2. PICK new \in NewRecords(r) :
            Insert(arg[r], new) /\ fastPool' = fastPool /\ Save(arg[r], new, ok)
    BY <2>1 DEF addAddressUnsafe
  <2>3. arg[r] \in Addr /\ new \in Rec
    BY <1>1, NewRecordsType DEF AddInsert, ArgNamed
  <2>4. pc[r] = "insert" /\ phase = "up" /\ UNCHANGED <<phase, given, marked>>
    BY <1>1 DEF AddInsert, Serving
  <2>5. pc'[r] = "done"
    BY <1>1 DEF AddInsert, TypeOK
  <2>6. Inserts(arg[r], new)
    BY <2>2, <2>4, <2>5 DEF Inserts
  <2>7. QED
    BY <2>3, <2>6
<1>2. ASSUME NEW r \in Requests, BulkNext(r)
      PROVE  \/ UNCHANGED pool /\ phase' = phase
             \/ \E a \in Addr, new \in Rec : Inserts(a, new)
  <2>1. pc[r] = "bulk" /\ UNCHANGED <<phase, given, marked>>
    BY <1>2 DEF BulkNext
  <2>2. CASE UNCHANGED <<memory, db>>
    BY <2>1, <2>2 DEF pool
  <2>3. ASSUME NEW a \in todo[r], NEW ok \in SaveResults, ~InAll(a), db[a] = NoRec,
               addAddressUnsafe(r, a, ok)
        PROVE  \E b \in Addr, new \in Rec : Inserts(b, new)
    <3>1. PICK new \in NewRecords(r) :
              Insert(a, new) /\ fastPool' = fastPool /\ Save(a, new, ok)
      BY <2>3 DEF addAddressUnsafe
    <3>2. a \in Addr /\ new \in Rec
      BY NewRecordsType DEF TypeOK
    <3>3. Inserts(a, new)
      BY <2>1, <2>3, <3>1 DEF Inserts
    <3>4. QED
      BY <3>2, <3>3
  <2>4. QED
    BY <1>2, <2>2, <2>3 DEF BulkNext
<1>3. ASSUME NEW g \in Checkers, RefillOne(g)
      PROVE  \E a \in Addr, new \in Rec : Inserts(a, new)
  <2> DEFINE new == [key |-> TRUE, owner |-> NoOne]
  <2>1. PICK a \in Fresh, ok \in SaveResults : Insert(a, new) /\ Save(a, new, ok)
    BY <1>3 DEF RefillOne
  <2>2. a \in Addr \ Ext /\ ~InAll(a) /\ db[a] = NoRec /\ new \in Rec
    BY DEF Fresh, Rec
  <2>3. UNCHANGED <<phase, fastPool, given, marked>>
    BY <1>3 DEF RefillOne, clients
  <2> HIDE DEF new
  <2>4. Inserts(a, new)
    BY <2>1, <2>2, <2>3 DEF Inserts
  <2>5. QED
    BY <2>2, <2>4
<1>4. ASSUME NEW r \in Requests,
             AddAddressFill(r) \/ AddAddressRecordCheck(r) \/ AddCheck(r)
             \/ BulkLock(r) \/ BulkUnlock(r)
      PROVE  UNCHANGED pool /\ phase' = phase
  BY <1>4
  DEF AddAddressFill, AddAddressRecordCheck, AddCheck, BulkLock, BulkUnlock, pool
<1>5. ASSUME NEW g \in Checkers,
             checkFreeAddressPool(g) \/ RefillLock(g) \/ RefillGenerateFails(g)
             \/ RefillDone(g)
      PROVE  UNCHANGED pool /\ phase' = phase
  BY <1>5
  DEF checkFreeAddressPool, RefillLock, RefillGenerateFails, RefillDone, clients, pool
<1>6. ASSUME NewManagerReturns
      PROVE  UNCHANGED pool /\ phase = "boot" /\ phase' = "up"
  BY <1>6 DEF NewManagerReturns, clients, pool
<1>7. ASSUME AtRest \/ UNCHANGED vars PROVE UNCHANGED pool /\ phase' = phase
  BY <1>7 DEF AtRest, vars, clients, pool
<1>8. CASE \E r \in Requests : Request(r)
  BY <1>1, <1>2, <1>4, <1>8 DEF Request
<1>9. CASE \E g \in Checkers : Checker(g)
  BY <1>3, <1>5, <1>9 DEF Checker
<1>10. QED
  BY <1>6, <1>7, <1>8, <1>9 DEF Next

\* A second subscription is late at worst.
LEMMA LateIsSubscribed ==
    ASSUME LateInsertsSubscribe, NEW a \in Addr, NEW new \in Rec, Inserts(a, new),
           InAll(a)
    PROVE  Owner(a) # NoOne /\ new.owner # NoOne
<1>1. PICK r \in Requests : pc[r] = "insert" /\ arg[r] = a /\ new \in NewRecords(r)
  BY DEF Inserts
<1>2. Kind[r] = "subscribe" /\ Owner(a) # NoOne
  BY <1>1 DEF LateInsertsSubscribe
<1>3. new \in [key : BOOLEAN, owner : {r}]
  BY <1>1, <1>2 DEF NewRecords
<1>4. QED
  BY <1>2, <1>3, DistinctAssumption

\* Every step keeps ListInv while the late insertions are second subscriptions.
LEMMA ListNext ==
    TypeInv /\ ListInv /\ LateInsertsSubscribe /\ [Next]_vars => ListInv'
<1> SUFFICES ASSUME TypeOK, ArgNamed, ListInv, LateInsertsSubscribe, [Next]_vars
             PROVE  ListInv'
  BY DEF TypeInv
<1>1. CASE UNCHANGED memory
  <2>1. UNCHANGED <<allAddresses, freeAddresses, fastPool, rec, used>>
    BY <1>1 DEF memory
  <2>2. QED
    BY <2>1 DEF ListInv, OneRecord, Resubscribed
<1>2. CASE preLoadAddresses
  <2> SUFFICES ASSUME NEW a \in Addr PROVE OneRecord(a)'
    BY DEF ListInv
  <2>1. /\ used'[a] = (IF LoadedAll(a) THEN 1 ELSE 0)
        /\ allAddresses'[a] = used'[a] /\ fastPool'[a] = used'[a]
        /\ freeAddresses'[a] = IF LoadedFree(a) THEN 1 ELSE 0
    BY <1>2 DEF preLoadAddresses
  <2>2. 1 \in 1 .. MaxVersion
    BY AddressAssumption
  <2>3. LoadedAll(a) => rec'[a][1] = db[a]
    BY <1>2, <2>2 DEF preLoadAddresses, LoadedAll
  <2>4. QED
    BY <2>1, <2>3 DEF OneRecord, LoadedAll, LoadedFree
<1>3. CASE Crash
  <2>1. ASSUME NEW a \in Addr PROVE OneRecord(a)'
    BY <1>3 DEF Crash, OneRecord
  <2>2. QED
    BY <2>1 DEF ListInv
<1>4. CASE updatePool
  <2> SUFFICES ASSUME NEW a \in Addr PROVE (OneRecord(a) \/ Resubscribed(a))'
    BY DEF ListInv
  <2>1. /\ UNCHANGED <<allAddresses, freeAddresses, rec, used>>
        /\ fastPool'[a] \in {fastPool[a], allAddresses[a]}
    BY <1>4 DEF updatePool
  <2>2. OneRecord(a) \/ Resubscribed(a)
    BY DEF ListInv
  <2>3. QED
    BY <2>1, <2>2 DEF OneRecord, Resubscribed
<1>5. ASSUME NEW r \in Requests, GetFreeAddressAndSubscribe(r) PROVE ListInv'
  <2>1. \/ UNCHANGED memory
        \/ \E a \in FreeSet : IsAddressKnown(a) /\ updateAddressUnsafe(r, a)
    BY <1>5 DEF GetFreeAddressAndSubscribe, NoFreeAddresses, updateAddressUnsafe
  <2>2. QED
    BY <1>1, <2>1, UpdateKeepsList
<1>6. ASSUME NEW a \in Addr, NEW new \in Rec, Inserts(a, new) PROVE ListInv'
  BY <1>6, LateIsSubscribed, InsertKeepsList DEF Inserts
<1>7. QED
  BY <1>1, <1>2, <1>3, <1>4, <1>5, <1>6, PoolSteps DEF pool

\* The pool starts empty.
LEMMA ListInit == Init => ListInv
<1>1. QED
  BY DEF Init, ListInv, OneRecord

\* ListInv is FreeListExact and more.
LEMMA ListExact == ListInv => FreeListExact
<1> SUFFICES ASSUME ListInv, NEW a \in Addr
             PROVE  freeAddresses[a] # 0 <=> InAll(a) /\ Owner(a) = NoOne
  BY DEF FreeListExact
<1>1. CASE OneRecord(a)
  BY <1>1 DEF OneRecord, InAll, Owner
<1>2. CASE Resubscribed(a)
  BY <1>2 DEF Resubscribed, InAll, Owner
<1>3. QED
  BY <1>1, <1>2 DEF ListInv

\* The free list is exact in every instance, whatever fails, as long as the
\* late insertions are second subscriptions (api.go, AddAddressRecord).
THEOREM FreeListIsExact == Spec /\ []LateInsertsSubscribe => []FreeListExact
<1>1. TypeInv /\ ListInv /\ LateInsertsSubscribe /\ [Next]_vars
      => (TypeInv /\ ListInv)'
  BY TypeNext, ArgNext, ListNext DEF TypeInv
<1>2. QED
  BY TypeInit, ListInit, ListExact, <1>1, PTL DEF Spec

-----------------------------------------------------------------------------
\* What a subscription through the index writes, memory and disk.
LEMMA UpdateEffect ==
    ASSUME TypeOK, ListInv, NEW r \in Requests, NEW a \in FreeSet,
           IsAddressKnown(a), updateAddressUnsafe(r, a)
    PROVE  \E new \in Rec :
              /\ new.owner = r
              /\ rec' = [rec EXCEPT ![a][allAddresses[a]] = new]
              /\ allAddresses' = allAddresses
              /\ \E ok \in SaveResults : Save(a, new, ok)
<1>1. a \in Addr /\ fastPool[a] # 0 /\ fastPool[a] = allAddresses[a]
  BY UpdateKeepsList DEF FreeSet, IsAddressKnown
<1>2. fastPool[a] \in 1 .. MaxVersion
  BY <1>1, AddressAssumption DEF TypeOK, Ptr
<1> DEFINE new == [rec[a][fastPool[a]] EXCEPT !.owner = r]
<1>3. new \in Rec /\ new.owner = r
  <2>1. rec[a][fastPool[a]] \in Rec
    BY <1>1, <1>2 DEF TypeOK
  <2>2. QED
    BY <2>1 DEF Rec
<1>4. /\ rec' = [rec EXCEPT ![a][fastPool[a]] = new]
      /\ allAddresses' = allAddresses
      /\ \E ok \in SaveResults : Save(a, new, ok)
  BY IsAddressKnown(a) DEF updateAddressUnsafe
<1> HIDE DEF new
<1>5. QED
  BY <1>1, <1>3, <1>4

\* Without failing saves every step leaves the disk as the memory is.
LEMMA DiskNext ==
    ASSUME SaveMayFail = FALSE
    PROVE  TypeInv /\ ListInv /\ LateInsertsSubscribe /\ DiskMatchesMemory
           /\ [Next]_vars => DiskMatchesMemory'
<1> SUFFICES ASSUME TypeOK, ArgNamed, ListInv, LateInsertsSubscribe,
                    DiskMatchesMemory, [Next]_vars
             PROVE  DiskMatchesMemory'
  BY DEF TypeInv
<1>1. \A ok \in SaveResults : ok = TRUE
  BY DEF SaveResults
<1>2. ASSUME UNCHANGED pool, phase' = phase \/ (phase = "boot" /\ phase' = "up")
      PROVE  DiskMatchesMemory'
  <2>1. UNCHANGED <<allAddresses, rec, db>>
    BY <1>2 DEF pool, memory
  <2>2. phase' # "down" => phase # "down"
    BY <1>2
  <2>3. QED
    BY <2>1, <2>2 DEF DiskMatchesMemory, InAll
<1>3. CASE preLoadAddresses
  <2> SUFFICES ASSUME NEW a \in Addr
               PROVE  db'[a] = IF allAddresses'[a] # 0 THEN rec'[a][allAddresses'[a]]
                               ELSE NoRec
    BY DEF DiskMatchesMemory, InAll
  <2>1. 1 \in 1 .. MaxVersion
    BY AddressAssumption
  <2>2. db' = db /\ allAddresses'[a] = (IF db[a] # NoRec THEN 1 ELSE 0)
    BY <1>3 DEF preLoadAddresses, LoadedAll
  <2>3. db[a] # NoRec => rec'[a][1] = db[a]
    BY <1>3, <2>1 DEF preLoadAddresses
  <2>4. QED
    BY <2>2, <2>3
<1>4. CASE Crash
  BY <1>4 DEF Crash, DiskMatchesMemory
<1>5. CASE updatePool
  BY <1>5 DEF updatePool, DiskMatchesMemory, InAll
<1>6. ASSUME NEW r \in Requests, GetFreeAddressAndSubscribe(r)
      PROVE  DiskMatchesMemory'
  <2>1. phase' = phase
    BY <1>6 DEF GetFreeAddressAndSubscribe
  <2>2. CASE UNCHANGED <<memory, db>>
    BY <2>1, <2>2 DEF DiskMatchesMemory, InAll, memory
  <2>3. ASSUME NEW a \in FreeSet, IsAddressKnown(a), updateAddressUnsafe(r, a)
        PROVE  DiskMatchesMemory'
    <3>1. PICK new \in Rec :
              /\ rec' = [rec EXCEPT ![a][allAddresses[a]] = new]
              /\ allAddresses' = allAddresses
              /\ \E ok \in SaveResults : Save(a, new, ok)
      BY <2>3, UpdateEffect
    <3>2. db' = [db EXCEPT ![a] = new]
      BY <1>1, <3>1 DEF Save
    <3>3. a \in Addr /\ InAll(a)
      BY <2>3, UpdateKeepsList DEF FreeSet
    <3>4. allAddresses[a] \in 1 .. MaxVersion
      BY <3>3, AddressAssumption DEF TypeOK, Ptr, InAll
    <3>5. rec'[a][allAddresses[a]] = new /\ db'[a] = new
      BY <3>1, <3>2, <3>3, <3>4 DEF TypeOK
    <3>6. \A b \in Addr : b # a => rec'[b] = rec[b] /\ db'[b] = db[b]
      BY <3>1, <3>2 DEF TypeOK
    <3>7. QED
      BY <2>1, <3>1, <3>3, <3>5, <3>6 DEF DiskMatchesMemory, InAll
  <2>4. QED
    BY <1>6, <2>2, <2>3
    DEF GetFreeAddressAndSubscribe, NoFreeAddresses, updateAddressUnsafe
<1>7. ASSUME NEW a \in Addr, NEW new \in Rec, Inserts(a, new)
      PROVE  DiskMatchesMemory'
  <2>1. /\ used[a] + 1 \in 1 .. MaxVersion
        /\ rec' = [rec EXCEPT ![a][used[a] + 1] = new]
        /\ allAddresses' = [allAddresses EXCEPT ![a] = used[a] + 1]
        /\ phase' = phase
    BY <1>7, AddressAssumption DEF Inserts, Insert, TypeOK, Ptr
  <2>2. db' = [db EXCEPT ![a] = new]
    BY <1>1, <1>7 DEF Inserts, Save
  <2>3. /\ allAddresses'[a] = used[a] + 1 /\ rec'[a][used[a] + 1] = new
        /\ db'[a] = new
    BY <2>1, <2>2 DEF TypeOK
  <2>4. \A b \in Addr : b # a =>
            rec'[b] = rec[b] /\ db'[b] = db[b] /\ allAddresses'[b] = allAddresses[b]
    BY <2>1, <2>2 DEF TypeOK
  <2>5. used[a] + 1 # 0
    BY <2>1
  <2>6. QED
    BY <2>1, <2>3, <2>4, <2>5 DEF DiskMatchesMemory, InAll
<1>8. QED
  BY <1>2, <1>3, <1>4, <1>5, <1>6, <1>7, PoolSteps

DiskInv == TypeInv /\ ListInv /\ DiskMatchesMemory

\* Without failing saves the disk has every record as it is in memory, as
\* long as the late insertions are second subscriptions: a crash between two
\* critical sections loses neither a key nor a subscription.
THEOREM DiskIsMemory ==
    ASSUME SaveMayFail = FALSE
    PROVE  Spec /\ []LateInsertsSubscribe => []DiskMatchesMemory
<1>1. Init => DiskInv
  BY TypeInit, ListInit DEF DiskInv, Init, DiskMatchesMemory
<1>2. DiskInv /\ LateInsertsSubscribe /\ [Next]_vars => DiskInv'
  BY TypeNext, ArgNext, ListNext, DiskNext DEF DiskInv, TypeInv
<1>3. DiskInv => DiskMatchesMemory
  BY DEF DiskInv
<1>4. QED
  BY <1>1, <1>2, <1>3, PTL DEF Spec

-----------------------------------------------------------------------------
\* A subscription that reached the disk is a subscription in memory: the disk
\* may be behind when saves fail, but never ahead.
SubscribedInMemory ==
    phase # "down" =>
        \A a \in Addr : db[a] # NoRec /\ db[a].owner # NoOne
                        => InAll(a) /\ Owner(a) # NoOne

\* An address handed out and marked has its subscription on disk.
MarkedOnDisk ==
    \A r \in Requests :
        marked[r] => /\ pc[r] = "done" /\ given[r] \in Addr
                     /\ db[given[r]] # NoRec /\ db[given[r]].owner # NoOne

\* Every step keeps a subscription found on disk in memory, too.
LEMMA SubscribedNext ==
    TypeInv /\ ListInv /\ LateInsertsSubscribe /\ SubscribedInMemory
    /\ [Next]_vars => SubscribedInMemory'
<1> SUFFICES ASSUME TypeOK, ArgNamed, ListInv, LateInsertsSubscribe,
                    SubscribedInMemory, [Next]_vars,
                    phase' # "down", NEW b \in Addr,
                    db'[b] # NoRec, db'[b].owner # NoOne
             PROVE  allAddresses'[b] # 0 /\ rec'[b][allAddresses'[b]].owner # NoOne
  BY DEF TypeInv, SubscribedInMemory, InAll, Owner
<1> DEFINE Goal == allAddresses'[b] # 0 /\ rec'[b][allAddresses'[b]].owner # NoOne
<1>1. ASSUME phase # "down", allAddresses'[b] = allAddresses[b], rec'[b] = rec[b],
             db'[b] = db[b]
      PROVE  Goal
  BY <1>1 DEF SubscribedInMemory, InAll, Owner
<1>2. ASSUME UNCHANGED pool, phase' = phase \/ (phase = "boot" /\ phase' = "up")
      PROVE  Goal
  BY <1>1, <1>2 DEF pool, memory
<1>3. CASE preLoadAddresses
  <2>1. 1 \in 1 .. MaxVersion
    BY AddressAssumption
  <2>2. db' = db /\ allAddresses'[b] = 1
    BY <1>3 DEF preLoadAddresses, LoadedAll
  <2>3. rec'[b][1] = db[b]
    BY <1>3, <2>1, <2>2 DEF preLoadAddresses
  <2>4. QED
    BY <2>2, <2>3
<1>4. CASE Crash
  BY <1>4 DEF Crash
<1>5. CASE updatePool
  BY <1>1, <1>5 DEF updatePool
<1>6. ASSUME NEW r \in Requests, GetFreeAddressAndSubscribe(r) PROVE Goal
  <2>1. phase' = phase
    BY <1>6 DEF GetFreeAddressAndSubscribe
  <2>2. CASE UNCHANGED <<memory, db>>
    BY <1>1, <2>1, <2>2 DEF memory
  <2>3. ASSUME NEW a \in FreeSet, IsAddressKnown(a), updateAddressUnsafe(r, a)
        PROVE  Goal
    <3>1. PICK new \in Rec :
              /\ new.owner = r
              /\ rec' = [rec EXCEPT ![a][allAddresses[a]] = new]
              /\ allAddresses' = allAddresses
              /\ \E ok \in SaveResults : Save(a, new, ok)
      BY <2>3, UpdateEffect
    <3>2. a \in Addr /\ InAll(a)
      BY <2>3, UpdateKeepsList DEF FreeSet
    <3>3. CASE b = a
      <4>1. allAddresses[a] \in 1 .. MaxVersion
        BY <3>2, AddressAssumption DEF TypeOK, Ptr, InAll
      <4>2. rec'[a][allAddresses[a]] = new
        BY <3>1, <3>2, <4>1 DEF TypeOK
      <4>3. QED
        BY <3>1, <3>2, <3>3, <4>2, DistinctAssumption DEF InAll
    <3>4. CASE b # a
      BY <1>1, <2>1, <3>1, <3>4 DEF Save, TypeOK
    <3>5. QED
      BY <3>3, <3>4
  <2>4. QED
    BY <1>6, <2>2, <2>3
    DEF GetFreeAddressAndSubscribe, NoFreeAddresses, updateAddressUnsafe
<1>7. ASSUME NEW a \in Addr, NEW new \in Rec, Inserts(a, new) PROVE Goal
  <2>1. /\ used[a] + 1 \in 1 .. MaxVersion
        /\ rec' = [rec EXCEPT ![a][used[a] + 1] = new]
        /\ allAddresses' = [allAddresses EXCEPT ![a] = used[a] + 1]
        /\ phase' = phase
        /\ db'[b] = db[b] \/ (b = a /\ db'[b] = new)
    BY <1>7, AddressAssumption DEF Inserts, Insert, Save, TypeOK, Ptr
  <2>2. CASE b = a
    <3>1. allAddresses'[a] = used[a] + 1 /\ rec'[a][used[a] + 1] = new
      BY <2>1 DEF TypeOK
    <3>2. used[a] + 1 # 0
      BY <2>1
    <3>3. new.owner # NoOne
      <4>1. CASE db'[b] = new
        BY <4>1
      <4>2. CASE db'[b] = db[b]
        <5>1. InAll(a)
          BY <2>1, <2>2, <4>2 DEF SubscribedInMemory
        <5>2. QED
          BY <1>7, <5>1, LateIsSubscribed
      <4>3. QED
        BY <2>1, <4>1, <4>2
    <3>4. QED
      BY <2>2, <3>1, <3>2, <3>3
  <2>3. CASE b # a
    BY <1>1, <2>1, <2>3 DEF TypeOK
  <2>4. QED
    BY <2>2, <2>3
<1>8. QED
  BY <1>2, <1>3, <1>4, <1>5, <1>6, <1>7, PoolSteps

\* The subscriptions on disk stay there, unless one is made a second time.
LEMMA DiskSubscriptionStays ==
    ASSUME TypeOK, ArgNamed, ListInv, NothingOutsideAll, SubscribedInMemory,
           LateInsertsSubscribe, [Next]_vars,
           NEW b \in Addr, db[b] # NoRec, db[b].owner # NoOne
    PROVE  /\ db'[b] # NoRec /\ db'[b].owner # NoOne
           /\ db'[b] = db[b] \/ \E r \in Requests : LateSubscribe(r, b)
<1> DEFINE Goal == /\ db'[b] # NoRec /\ db'[b].owner # NoOne
                   /\ db'[b] = db[b] \/ \E r \in Requests : LateSubscribe(r, b)
<1>1. ASSUME db' = db PROVE Goal
  BY <1>1
<1>2. ASSUME NEW r \in Requests, GetFreeAddressAndSubscribe(r) PROVE Goal
  <2>1. phase # "down"
    BY <1>2 DEF GetFreeAddressAndSubscribe, Serving
  <2>2. CASE db' = db
    BY <2>2
  <2>3. ASSUME NEW a \in FreeSet, IsAddressKnown(a), updateAddressUnsafe(r, a)
        PROVE  Goal
    <3>1. a \in Addr /\ Owner(a) = NoOne
      BY <2>3, UpdateKeepsList DEF FreeSet
    <3>2. a # b
      BY <2>1, <3>1 DEF SubscribedInMemory
    <3>3. \E new, ok : Save(a, new, ok)
      BY <2>3 DEF updateAddressUnsafe
    <3>4. db'[b] = db[b]
      BY <3>2, <3>3 DEF Save, TypeOK
    <3>5. QED
      BY <3>4
  <2>4. QED
    BY <1>2, <2>2, <2>3
    DEF GetFreeAddressAndSubscribe, NoFreeAddresses, updateAddressUnsafe
<1>3. ASSUME NEW a \in Addr, NEW new \in Rec, Inserts(a, new) PROVE Goal
  <2>1. db' = db \/ db' = [db EXCEPT ![a] = new]
    BY <1>3 DEF Inserts, Save
  <2>2. CASE db'[b] = db[b]
    BY <2>2
  <2>3. CASE b = a /\ db'[b] = new
    <3>1. InAll(a) /\ phase = "up"
      BY <1>3, <2>3 DEF Inserts, NothingOutsideAll
    <3>2. PICK r \in Requests : /\ pc[r] = "insert" /\ arg[r] = a
                                /\ new \in NewRecords(r) /\ pc'[r] = "done"
      BY <1>3, <3>1 DEF Inserts
    <3>3. LateSubscribe(r, b)
      <4>1. Kind[r] = "subscribe"
        BY <3>1, <3>2 DEF LateInsertsSubscribe
      <4>2. new.owner = r
        BY <3>2, <4>1 DEF NewRecords
      <4>3. QED
        BY <2>3, <3>2, <4>1, <4>2 DEF LateSubscribe
    <3>4. new.owner # NoOne /\ new # NoRec
      BY <1>3, <3>1, LateIsSubscribed, DistinctAssumption DEF Rec
    <3>5. QED
      BY <2>3, <3>3, <3>4
  <2>4. QED
    BY <2>1, <2>2, <2>3 DEF TypeOK
<1>4. CASE UNCHANGED pool \/ preLoadAddresses \/ Crash \/ updatePool
  <2>1. db' = db
    BY <1>4 DEF pool, preLoadAddresses, Crash, updatePool
  <2>2. QED
    BY <1>1, <2>1
<1>5. QED
  BY <1>2, <1>3, <1>4, PoolSteps

KeptInv == TypeInv /\ ListInv /\ NothingOutsideAll /\ SubscribedInMemory

\* The state the two action properties start from is kept by every step.
LEMMA KeptInductive ==
    /\ Init => KeptInv
    /\ KeptInv /\ LateInsertsSubscribe /\ [Next]_vars => KeptInv'
<1>1. Init => NothingOutsideAll /\ SubscribedInMemory
  BY DEF Init, NothingOutsideAll, SubscribedInMemory
<1>2. QED
  BY <1>1, TypeInit, ListInit, TypeNext, ArgNext, ListNext, InsideNext,
     SubscribedNext
  DEF KeptInv, TypeInv

\* A subscription on disk is only ever replaced by another one whose look-up
\* came first, whatever the index misses and whichever saves fail (api.go,
\* addAddressUnsafe): no hand-out, refill, bulk insertion, rebuild or reload
\* takes it.
THEOREM SubscriptionIsKept == Spec /\ []LateInsertsSubscribe => SubscriptionKept
<1>1. KeptInv /\ LateInsertsSubscribe /\ [Next]_vars
      => [\A a \in Addr : db[a] # NoRec /\ db[a].owner # NoOne =>
             db'[a] = db[a] \/ \E r \in Requests : LateSubscribe(r, a)]_vars
  BY DiskSubscriptionStays DEF KeptInv, TypeInv
<1>2. QED
  BY <1>1, KeptInductive, PTL DEF Spec, SubscriptionKept

\* An answered call is not taken up again.
LEMMA DoneStays ==
    ASSUME TypeOK, [Next]_vars, NEW q \in Requests, pc[q] = "done"
    PROVE  pc'[q] = "done"
<1>1. ASSUME NEW r \in Requests, Request(r) PROVE pc'[q] = "done"
  <2>1. pc' = pc \/ \E c \in {"check", "insert", "bulk", "done"} :
                      pc' = [pc EXCEPT ![r] = c] /\ (pc[r] # "done" \/ c = "done")
    BY <1>1
    DEF Request, GetFreeAddressAndSubscribe, AddAddressFill, AddAddressRecordCheck,
        AddCheck, AddInsert, BulkLock, BulkNext, BulkUnlock
  <2>2. QED
    BY <2>1 DEF TypeOK
<1>2. ASSUME NEW g \in Checkers, Checker(g) PROVE pc' = pc
  BY <1>2 DEF Checker, checkFreeAddressPool, RefillLock, RefillOne,
              RefillGenerateFails, RefillDone, clients
<1>3. CASE Crash
  BY <1>3 DEF Crash
<1>4. ASSUME preLoadAddresses \/ NewManagerReturns \/ updatePool \/ AtRest
             \/ UNCHANGED vars
      PROVE  pc' = pc
  BY <1>4 DEF preLoadAddresses, NewManagerReturns, updatePool, AtRest, vars, clients
<1>5. QED
  BY <1>1, <1>2, <1>3, <1>4 DEF Next

\* Without failing saves, a step keeps the marked addresses subscribed on disk.
LEMMA MarkedNext ==
    ASSUME SaveMayFail = FALSE
    PROVE  KeptInv /\ MarkedOnDisk /\ LateInsertsSubscribe /\ [Next]_vars
           => MarkedOnDisk'
<1> SUFFICES ASSUME KeptInv, TypeOK, ArgNamed, ListInv, MarkedOnDisk,
                    LateInsertsSubscribe, [Next]_vars,
                    NEW q \in Requests, marked'[q]
             PROVE  /\ pc'[q] = "done" /\ given'[q] \in Addr
                    /\ db'[given'[q]] # NoRec /\ db'[given'[q]].owner # NoOne
  BY DEF MarkedOnDisk, KeptInv, TypeInv
<1> DEFINE Goal == /\ pc'[q] = "done" /\ given'[q] \in Addr
                   /\ db'[given'[q]] # NoRec /\ db'[given'[q]].owner # NoOne
<1>1. ASSUME marked[q], given'[q] = given[q] PROVE Goal
  BY <1>1, DoneStays, DiskSubscriptionStays DEF MarkedOnDisk, KeptInv
<1>2. ASSUME NEW r \in Requests, GetFreeAddressAndSubscribe(r) PROVE Goal
  <2>1. CASE UNCHANGED <<given, marked>>
    BY <1>1, <2>1
  <2>2. ASSUME NEW a \in FreeSet, updateAddressUnsafe(r, a),
               given' = [given EXCEPT ![r] = a]
        PROVE  Goal
    <3>1. CASE q # r
      <4>1. given'[q] = given[q] /\ marked'[q] = marked[q]
        BY <2>2, <3>1 DEF updateAddressUnsafe, TypeOK
      <4>2. QED
        BY <1>1, <4>1
    <3>2. CASE q = r /\ IsAddressKnown(a)
      <4>1. given'[q] = a /\ a \in Addr
        BY <2>2, <3>2 DEF TypeOK, FreeSet
      <4>2. PICK new \in Rec : new.owner = r /\ \E ok \in SaveResults : Save(a, new, ok)
        BY <2>2, <3>2, UpdateEffect
      <4>3. db'[a] = new
        BY <4>1, <4>2 DEF Save, SaveResults, TypeOK
      <4>4. new # NoRec /\ new.owner # NoOne
        BY <4>2, DistinctAssumption DEF Rec
      <4>5. pc'[q] = "done"
        BY <1>2, <3>2 DEF GetFreeAddressAndSubscribe, TypeOK
      <4>6. QED
        BY <4>1, <4>3, <4>4, <4>5
    <3>3. CASE q = r /\ ~IsAddressKnown(a)
      <4>1. marked[q] /\ pc[q] = "idle"
        BY <1>2, <2>2, <3>3 DEF updateAddressUnsafe, GetFreeAddressAndSubscribe
      <4>2. QED
        BY <4>1 DEF MarkedOnDisk
    <3>4. QED
      BY <3>1, <3>2, <3>3
  <2>3. QED
    BY <1>2, <2>1, <2>2 DEF GetFreeAddressAndSubscribe, NoFreeAddresses
<1>3. CASE UNCHANGED <<given, marked>>
  BY <1>1, <1>3
<1>4. ASSUME UNCHANGED pool \/ preLoadAddresses \/ Crash \/ updatePool
      PROVE  UNCHANGED <<given, marked>>
  BY <1>4 DEF pool, preLoadAddresses, Crash, updatePool, clients
<1>5. ASSUME NEW a \in Addr, NEW new \in Rec, Inserts(a, new)
      PROVE  UNCHANGED <<given, marked>>
  BY <1>5 DEF Inserts
<1>6. QED
  BY <1>2, <1>3, <1>4, <1>5, PoolSteps

\* With saves that do not fail, a marked address is never handed out again, not
\* even after a crash and a reload, as long as the late insertions are second
\* subscriptions (api.go, GetFreeAddressAndSubscribe).
THEOREM HandoutIsFinal ==
    ASSUME SaveMayFail = FALSE
    PROVE  Spec /\ []LateInsertsSubscribe => FinalHandout
<1> DEFINE Inv == KeptInv /\ MarkedOnDisk
           Final == \A r, q \in Requests :
                        marked[r] /\ given[q] = NoAddr => given'[q] # given[r]
<1>1. Init => Inv
  BY KeptInductive DEF Init, MarkedOnDisk
<1>2. Inv /\ LateInsertsSubscribe /\ [Next]_vars => Inv'
  BY KeptInductive, MarkedNext
<1>3. Inv /\ LateInsertsSubscribe /\ [Next]_vars => [Final]_vars
  <2> SUFFICES ASSUME KeptInv, TypeOK, ArgNamed, ListInv, SubscribedInMemory,
                      MarkedOnDisk, LateInsertsSubscribe, [Next]_vars,
                      NEW r \in Requests, NEW q \in Requests,
                      marked[r], given[q] = NoAddr
               PROVE  given'[q] # given[r]
    BY DEF KeptInv, TypeInv
  <2>1. /\ given[r] \in Addr /\ given[r] # NoAddr
        /\ db[given[r]] # NoRec /\ db[given[r]].owner # NoOne
    BY DistinctAssumption DEF MarkedOnDisk
  <2>2. CASE given' = given
    BY <2>1, <2>2
  <2>3. ASSUME NEW p \in Requests, GetFreeAddressAndSubscribe(p)
        PROVE  given'[q] # given[r]
    <3>1. phase # "down"
      BY <2>3 DEF GetFreeAddressAndSubscribe, Serving
    <3>2. given[r] \notin FreeSet
      <4>1. InAll(given[r]) /\ Owner(given[r]) # NoOne
        BY <2>1, <3>1 DEF SubscribedInMemory
      <4>2. QED
        BY <2>1, <4>1, ListExact DEF FreeListExact, FreeSet
    <3>3. given' = given \/ \E a \in FreeSet : given' = [given EXCEPT ![p] = a]
      BY <2>3 DEF GetFreeAddressAndSubscribe, NoFreeAddresses
    <3>4. QED
      BY <2>1, <3>2, <3>3 DEF TypeOK
  <2>4. ASSUME NEW a \in Addr, NEW new \in Rec, Inserts(a, new) PROVE given' = given
    BY <2>4 DEF Inserts
  <2>5. ASSUME UNCHANGED pool \/ preLoadAddresses \/ Crash \/ updatePool
        PROVE  given' = given
    BY <2>5 DEF pool, preLoadAddresses, Crash, updatePool, clients
  <2>6. QED
    BY <2>2, <2>3, <2>4, <2>5, PoolSteps
<1>4. QED
  BY <1>1, <1>2, <1>3, PTL DEF Spec, FinalHandout


-----------------------------------------------------------------------------
(***************************************************************************)
(* The hypotheses above are about states.  They hold in every state when   *)
(* the calls are the two a service makes, address.getNew and               *)
(* address.subscribe, in any number, and services only name addresses of   *)
(* their own: a client's address is then always a subscribed one.          *)
(***************************************************************************)
OwnAddressesOnly ==
    /\ NameIssued = FALSE
    /\ \A r \in Requests : Kind[r] \in {"getNew", "subscribe"}

SubscribesOwn ==
    \A r \in Requests :
        /\ pc[r] # "bulk"
        /\ pc[r] \in {"check", "insert"} => Kind[r] = "subscribe" /\ arg[r] \in Ext

OwnAreSubscribed ==
    \A a \in Ext : /\ InAll(a) => Owner(a) # NoOne
                   /\ db[a] # NoRec => db[a].owner # NoOne

\* A call that is neither getNew nor subscribe is never under way.
LEMMA SubscribesOwnNext ==
    ASSUME OwnAddressesOnly
    PROVE  TypeOK /\ SubscribesOwn /\ [Next]_vars => SubscribesOwn'
<1> SUFFICES ASSUME TypeOK, SubscribesOwn, [Next]_vars, NEW q \in Requests
             PROVE  /\ pc'[q] # "bulk"
                    /\ pc'[q] \in {"check", "insert"}
                       => Kind[q] = "subscribe" /\ arg'[q] \in Ext
  BY DEF SubscribesOwn
<1> DEFINE Goal == /\ pc'[q] # "bulk"
                   /\ pc'[q] \in {"check", "insert"}
                      => Kind[q] = "subscribe" /\ arg'[q] \in Ext
<1>1. ASSUME UNCHANGED <<pc, arg>> PROVE Goal
  BY <1>1 DEF SubscribesOwn
<1>2. ASSUME NEW r \in Requests, AddAddressFill(r) PROVE Goal
  BY <1>2 DEF AddAddressFill, Nameable, OwnAddressesOnly, SubscribesOwn, TypeOK
<1>3. ASSUME NEW r \in Requests, AddAddressRecordCheck(r) PROVE Goal
  BY <1>3 DEF AddAddressRecordCheck, SubscribesOwn, TypeOK
<1>4. ASSUME NEW r \in Requests,
             GetFreeAddressAndSubscribe(r) \/ AddInsert(r) \/ BulkUnlock(r)
      PROVE  Goal
  <2>1. pc' = [pc EXCEPT ![r] = "done"] /\ arg' = arg
    BY <1>4 DEF GetFreeAddressAndSubscribe, AddInsert, BulkUnlock
  <2>2. QED
    BY <2>1 DEF SubscribesOwn, TypeOK
<1>5. ASSUME NEW r \in Requests, AddCheck(r) \/ BulkLock(r) PROVE FALSE
  BY <1>5 DEF AddCheck, BulkLock, OwnAddressesOnly
<1>6. ASSUME NEW r \in Requests, BulkNext(r) PROVE UNCHANGED <<pc, arg>>
  BY <1>6 DEF BulkNext
<1>7. ASSUME NEW g \in Checkers, Checker(g) PROVE UNCHANGED <<pc, arg>>
  BY <1>7 DEF Checker, checkFreeAddressPool, RefillLock, RefillOne,
              RefillGenerateFails, RefillDone, clients
<1>8. CASE Crash
  BY <1>8 DEF Crash, SubscribesOwn
<1>9. ASSUME preLoadAddresses \/ NewManagerReturns \/ updatePool \/ AtRest
             \/ UNCHANGED vars
      PROVE  UNCHANGED <<pc, arg>>
  BY <1>9 DEF preLoadAddresses, NewManagerReturns, updatePool, AtRest, vars, clients
<1>10. QED
  BY <1>1, <1>2, <1>3, <1>4, <1>5, <1>6, <1>7, <1>8, <1>9 DEF Next, Request

\* A step leaves the clients' addresses subscribed, in memory and on disk.
LEMMA OwnNext ==
    ASSUME OwnAddressesOnly
    PROVE  TypeInv /\ SubscribesOwn /\ OwnAreSubscribed /\ [Next]_vars
           => OwnAreSubscribed'
<1> SUFFICES ASSUME TypeOK, ArgNamed, SubscribesOwn, OwnAreSubscribed, [Next]_vars,
                    NEW b \in Ext
             PROVE  /\ allAddresses'[b] # 0 => rec'[b][allAddresses'[b]].owner # NoOne
                    /\ db'[b] # NoRec => db'[b].owner # NoOne
  BY DEF TypeInv, OwnAreSubscribed, InAll, Owner
<1> DEFINE Goal == /\ allAddresses'[b] # 0 => rec'[b][allAddresses'[b]].owner # NoOne
                   /\ db'[b] # NoRec => db'[b].owner # NoOne
<1>1. b \in Addr
  BY AddressAssumption
<1>2. ASSUME allAddresses'[b] = allAddresses[b], rec'[b] = rec[b], db'[b] = db[b]
      PROVE  Goal
  BY <1>2 DEF OwnAreSubscribed, InAll, Owner
<1>3. CASE UNCHANGED pool
  BY <1>2, <1>3 DEF pool, memory
<1>4. CASE preLoadAddresses
  <2>1. 1 \in 1 .. MaxVersion
    BY AddressAssumption
  <2>2. db' = db /\ allAddresses'[b] = (IF db[b] # NoRec THEN 1 ELSE 0)
    BY <1>1, <1>4 DEF preLoadAddresses, LoadedAll
  <2>3. db[b] # NoRec => rec'[b][1] = db[b]
    BY <1>1, <1>4, <2>1 DEF preLoadAddresses
  <2>4. QED
    BY <2>2, <2>3 DEF OwnAreSubscribed
<1>5. CASE Crash
  BY <1>1, <1>5 DEF Crash, OwnAreSubscribed
<1>6. CASE updatePool
  BY <1>2, <1>6 DEF updatePool
<1>7. ASSUME NEW r \in Requests, GetFreeAddressAndSubscribe(r) PROVE Goal
  <2>1. CASE UNCHANGED <<memory, db>>
    BY <1>2, <2>1 DEF memory
  <2>2. ASSUME NEW a \in FreeSet, IsAddressKnown(a), updateAddressUnsafe(r, a)
        PROVE  Goal
    <3> DEFINE new == [rec[a][fastPool[a]] EXCEPT !.owner = r]
    <3>1. a \in Addr /\ fastPool[a] \in 1 .. MaxVersion
      BY <2>2, AddressAssumption DEF FreeSet, IsAddressKnown, TypeOK, Ptr
    <3>2. /\ allAddresses' = allAddresses
          /\ rec' = [rec EXCEPT ![a][fastPool[a]] = new]
          /\ db' = db \/ db' = [db EXCEPT ![a] = new]
      BY <2>2 DEF updateAddressUnsafe, Save
    <3>3. new.owner # NoOne
      <4>1. rec[a][fastPool[a]] \in Rec
        BY <3>1 DEF TypeOK
      <4>2. new.owner = r
        BY <4>1 DEF Rec
      <4>3. QED
        BY <4>2, DistinctAssumption
    <3> HIDE DEF new
    <3>4. CASE b # a
      <4>1. rec'[b] = rec[b] /\ db'[b] = db[b]
        BY <1>1, <3>2, <3>4 DEF TypeOK
      <4>2. QED
        BY <1>2, <3>2, <4>1
    <3>5. CASE b = a
      <4>1. /\ db'[b] = db[b] \/ db'[b] = new
            /\ rec'[b] = [rec[b] EXCEPT ![fastPool[b]] = new]
        BY <3>1, <3>2, <3>5 DEF TypeOK
      <4>2. allAddresses[b] # 0 =>
                \/ rec'[b][allAddresses[b]] = rec[b][allAddresses[b]]
                \/ rec'[b][allAddresses[b]] = new
        BY <1>1, <3>1, <3>5, <4>1, AddressAssumption DEF TypeOK, Ptr
      <4>3. QED
        BY <3>2, <3>3, <4>1, <4>2 DEF OwnAreSubscribed, InAll, Owner
    <3>6. QED
      BY <3>4, <3>5
  <2>3. QED
    BY <1>7, <2>1, <2>2
    DEF GetFreeAddressAndSubscribe, NoFreeAddresses, updateAddressUnsafe
<1>8. ASSUME NEW a \in Addr, NEW new \in Rec, Inserts(a, new) PROVE Goal
  <2>1. /\ used[a] + 1 \in 1 .. MaxVersion
        /\ rec' = [rec EXCEPT ![a][used[a] + 1] = new]
        /\ allAddresses' = [allAddresses EXCEPT ![a] = used[a] + 1]
        /\ db' = db \/ db' = [db EXCEPT ![a] = new]
    BY <1>8, AddressAssumption DEF Inserts, Insert, Save, TypeOK, Ptr
  <2>2. CASE b # a
    <3>1. rec'[b] = rec[b] /\ db'[b] = db[b] /\ allAddresses'[b] = allAddresses[b]
      BY <1>1, <2>1, <2>2 DEF TypeOK
    <3>2. QED
      BY <1>2, <3>1
  <2>3. CASE b = a
    <3>1. PICK r \in Requests : new \in NewRecords(r) /\ pc[r] \in {"bulk", "insert"}
      BY <1>8, <2>3 DEF Inserts
    <3>2. Kind[r] = "subscribe"
      BY <3>1 DEF SubscribesOwn
    <3>3. new.owner # NoOne
      BY <3>1, <3>2, DistinctAssumption DEF NewRecords
    <3>4. allAddresses'[b] = used[a] + 1 /\ rec'[b][used[a] + 1] = new
          /\ (db'[b] = db[b] \/ db'[b] = new)
      BY <2>1, <2>3 DEF TypeOK
    <3>5. QED
      BY <3>3, <3>4 DEF OwnAreSubscribed
  <2>4. QED
    BY <2>2, <2>3
<1>9. QED
  BY <1>3, <1>4, <1>5, <1>6, <1>7, <1>8, PoolSteps

OwnInv == TypeInv /\ SubscribesOwn /\ OwnAreSubscribed

\* When services only name addresses of their own, every late insertion is a
\* second subscription.
LEMMA OwnIsEnough ==
    ASSUME OwnAddressesOnly
    PROVE  Spec => []LateInsertsSubscribe
<1>1. Init => OwnInv
  BY TypeInit, AddressAssumption
  DEF OwnInv, Init, SubscribesOwn, OwnAreSubscribed, InAll
<1>2. OwnInv /\ [Next]_vars => OwnInv'
  BY TypeNext, ArgNext, SubscribesOwnNext, OwnNext DEF OwnInv, TypeInv
<1>3. OwnInv => LateInsertsSubscribe
  BY DEF OwnInv, SubscribesOwn, OwnAreSubscribed, LateInsertsSubscribe
<1>4. QED
  BY <1>1, <1>2, <1>3, PTL DEF Spec

\* With services that only name addresses of their own, and any number of
\* concurrent calls of address.getNew and address.subscribe, the free list is
\* exact, whatever fails.
THEOREM OwnKeepsFreeList ==
    ASSUME OwnAddressesOnly
    PROVE  Spec => []FreeListExact
<1>1. QED
  BY OwnIsEnough, FreeListIsExact, PTL

\* ... and, when saves do not fail, the disk is as the memory and a marked
\* address is never handed out again.
THEOREM OwnKeepsDisk ==
    ASSUME OwnAddressesOnly, SaveMayFail = FALSE
    PROVE  Spec => []DiskMatchesMemory /\ FinalHandout
<1>1. QED
  BY OwnIsEnough, DiskIsMemory, HandoutIsFinal, PTL

\* With services that only name addresses of their own, and any number of
\* concurrent calls of address.getNew and address.subscribe, a subscription is
\* only ever replaced by another one whose look-up came first, whatever fails.
THEOREM OwnKeepsSubscription ==
    ASSUME OwnAddressesOnly
    PROVE  Spec => SubscriptionKept
<1>1. QED
  BY OwnIsEnough, SubscriptionIsKept, PTL
=============================================================================
