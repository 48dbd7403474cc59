---------------------------- MODULE AddressPool ----------------------------
(***************************************************************************)
(* The address manager of package address: the pool of managed addresses,  *)
(* its list of free (unsubscribed) ones, the read-only lookup index that   *)
(* every IsAddressKnown consults, and the records on disk.                 *)
(*                                                                         *)
(* All of the state is guarded by Manager.mux, so a critical section is    *)
(* one step, except the two loops that save many records under the lock    *)
(* (refillFreeAddressPool and AddAddressRecordsBulk): these hold mux over  *)
(* one step per record.  What is concurrent is everything between two      *)
(* critical sections: the check before the lock, the goroutines that       *)
(* rebuild the index, and the goroutines that refill the free list.        *)
(*                                                                         *)
(* A Go map holds pointers.  The pointers to the records of address a are  *)
(* the versions 1..MaxVersion; rec[a][p] is what pointer p points to, and  *)
(* 0 is nil.  The three maps hold pointers, so they may alias or diverge.  *)
(***************************************************************************)
EXTENDS Naturals, FiniteSets

CONSTANTS
    Addr,                \* the addresses of the model
    Ext,                 \* the addresses clients bring with them
    Requests,            \* the API calls; each is made at most once
    Kind,                \* the operation each request calls
    EnableAddressGenerate, MinFreePoolSize, GeneratePoolUpTo,  \* Config
    NameIssued,          \* may clients name addresses the pool gave them?
    SaveMayFail,         \* may db.Save return an error?
    GenerateMayFail,     \* may the generation of an address fail?
    MaxVersion,          \* bound: records ever allocated for an address
    MaxCrashes,          \* bound: number of crashes
    Main,                \* the start-up goroutine, a model value
    NoOne,               \* not a request: owner of an unsubscribed record
    NoRec, NoAddr        \* nothing in the database, no address

Kinds == {"getNew", "subscribe", "addRecord", "addKey", "addKeyFill", "bulk"}

ASSUME AddressAssumption ==
    /\ Ext \subseteq Addr
    /\ IsFiniteSet(Addr)
    /\ Kind \in [Requests -> Kinds]
    /\ EnableAddressGenerate \in BOOLEAN
    /\ MinFreePoolSize \in Nat
    /\ GeneratePoolUpTo \in Nat
    /\ NameIssued \in BOOLEAN
    /\ SaveMayFail \in BOOLEAN
    /\ GenerateMayFail \in BOOLEAN
    /\ MaxVersion \in Nat \ {0}
    /\ MaxCrashes \in Nat

ASSUME DistinctAssumption ==
    /\ NoOne \notin Requests
    /\ Main \notin Requests \cup {NoOne}
    /\ NoAddr \notin Addr
    /\ NoRec \notin [key : BOOLEAN, owner : Requests \cup {NoOne}]

\* The goroutines that may run checkFreeAddressPool: the one NewManager runs
\* and the one each GetFreeAddressAndSubscribe spawns.
Checkers == Requests \cup {Main}

Ptr == 0 .. MaxVersion

\* What the properties tell apart in an Address: whether there is a private
\* key, and the subscription (Subscribed, ServiceId, UserId, InvoiceId),
\* identified by the request that made it.
Rec == [key : BOOLEAN, owner : Requests \cup {NoOne}]

Blank == [key |-> FALSE, owner |-> NoOne]

VARIABLES
    phase,          \* "down", "boot" (in NewManager) or "up"
    allAddresses,   \* Addr -> Ptr
    freeAddresses,  \* Addr -> Ptr
    fastPool,       \* Addr -> Ptr, the lookup index
    rec,            \* the records the pointers point to
    used,           \* Addr -> the last pointer allocated
    db,             \* Addr -> record on disk, or NoRec
    mux,            \* the goroutine holding the write lock, or NoOne
    pc,             \* control state of each request
    arg,            \* the address a request is about
    todo,           \* addresses a bulk request has still to add
    given,          \* history: the address a getNew request returned
    marked,         \* history: did that request find it in the index?
    chk,            \* control state of each checker
    left,           \* addresses a checker has still to generate
    updates,        \* number of updatePool goroutines not yet run
    crashes

memory == <<allAddresses, freeAddresses, fastPool, rec, used>>
clients == <<pc, arg, todo, given, marked>>
checkers == <<chk, left>>
vars == <<phase, memory, db, mux, clients, checkers, updates, crashes>>

-----------------------------------------------------------------------------
(* Helpers                                                                  *)

InAll(a) == allAddresses[a] # 0
FreeSet == {a \in Addr : freeAddresses[a] # 0}
Owner(a) == rec[a][allAddresses[a]].owner

\* IsAddressKnown and GetAddress read the index, not the map.
IsAddressKnown(a) == fastPool[a] # 0

\* What checkFreeAddressPool counts: unsubscribed records of allAddresses.
CountFree == Cardinality({a \in Addr : InAll(a) /\ Owner(a) = NoOne})
CountTotal == Cardinality({a \in Addr : InAll(a)})

\* A generated address is new to the world: random keys do not collide.
Fresh == {a \in Addr \ Ext : ~InAll(a) /\ db[a] = NoRec
                             /\ \A r \in Requests : given[r] # a}

\* The addresses a client can name: its own, and those it was given.
Nameable == Ext \cup (IF NameIssued
                      THEN {given[r] : r \in Requests} \ {NoAddr} ELSE {})

SaveResults == IF SaveMayFail THEN BOOLEAN ELSE {TRUE}
\* db.Save: on an error the stored record is the old one.
Save(a, r, ok) == db' = IF ok THEN [db EXCEPT ![a] = r] ELSE db

\* A new record for a, put in allAddresses and, unless subscribed, in
\* freeAddresses; a record already there loses its map entry only.
Insert(a, r) ==
    /\ used[a] < MaxVersion
    /\ used' = [used EXCEPT ![a] = @ + 1]
    /\ rec' = [rec EXCEPT ![a][used[a] + 1] = r]
    /\ allAddresses' = [allAddresses EXCEPT ![a] = used[a] + 1]
    /\ freeAddresses' = IF r.owner = NoOne
                        THEN [freeAddresses EXCEPT ![a] = used[a] + 1]
                        ELSE freeAddresses

Serving == phase = "up"
Unlocked == mux = NoOne

-----------------------------------------------------------------------------
Init ==
    /\ phase = "down"
    /\ allAddresses = [a \in Addr |-> 0]
    /\ freeAddresses = [a \in Addr |-> 0]
    /\ fastPool = [a \in Addr |-> 0]
    /\ rec = [a \in Addr |-> [p \in 1 .. MaxVersion |-> Blank]]
    /\ used = [a \in Addr |-> 0]
    /\ db = [a \in Addr |-> NoRec]
    /\ mux = NoOne
    /\ pc = [r \in Requests |-> "idle"]
    /\ arg = [r \in Requests |-> NoAddr]
    /\ todo = [r \in Requests |-> {}]
    /\ given = [r \in Requests |-> NoAddr]
    /\ marked = [r \in Requests |-> FALSE]
    /\ chk = [g \in Checkers |-> "idle"]
    /\ left = [g \in Checkers |-> 0]
    /\ updates = 0
    /\ crashes = 0

\* preLoadAddresses puts the unsubscribed records in the free list; mutant:
\* it puts all of them there.
LoadedFree_All(a) == db[a] # NoRec
LoadedFree(a) == db[a] # NoRec /\ db[a].owner = NoOne

\* ... and every record in the map; mutant: only the unsubscribed ones.
LoadedAll(a) == db[a] # NoRec

\* NewManager up to preLoadAddresses, which ends with a synchronous
\* updatePool; the free pool is then checked before anything is served.
preLoadAddresses ==
    /\ phase = "down"
    /\ phase' = "boot"
    /\ allAddresses' = [a \in Addr |-> IF LoadedAll(a) THEN 1 ELSE 0]
    /\ freeAddresses' = [a \in Addr |-> IF LoadedFree(a) THEN 1 ELSE 0]
    /\ fastPool' = allAddresses'
    /\ used' = allAddresses'
    /\ rec' = [a \in Addr |-> [p \in 1 .. MaxVersion |->
            IF p = 1 /\ db[a] # NoRec THEN db[a] ELSE Blank]]
    /\ chk' = [chk EXCEPT ![Main] = "count"]
    /\ UNCHANGED <<db, mux, clients, left, updates, crashes>>

\* NewManager returns once its own checkFreeAddressPool has.
NewManagerReturns ==
    /\ phase = "boot" /\ chk[Main] = "idle"
    /\ phase' = "up"
    /\ UNCHANGED <<memory, db, mux, clients, checkers, updates, crashes>>

\* The process dies: memory, goroutines and calls in progress are gone.
Crash ==
    /\ phase # "down" /\ crashes < MaxCrashes
    /\ phase' = "down"
    /\ allAddresses' = [a \in Addr |-> 0]
    /\ freeAddresses' = [a \in Addr |-> 0]
    /\ fastPool' = [a \in Addr |-> 0]
    /\ rec' = [a \in Addr |-> [p \in 1 .. MaxVersion |-> Blank]]
    /\ used' = [a \in Addr |-> 0]
    /\ mux' = NoOne
    /\ pc' = [r \in Requests |-> IF pc[r] = "idle" THEN "idle" ELSE "done"]
    /\ todo' = [r \in Requests |-> {}]
    /\ chk' = [g \in Checkers |-> "idle"]
    /\ left' = [g \in Checkers |-> 0]
    /\ updates' = 0
    /\ crashes' = crashes + 1
    /\ UNCHANGED <<db, arg, given, marked>>

-----------------------------------------------------------------------------
(* address.getNew: one critical section.  The free address is looked up in  *)
(* the index; when the index does not have it yet, updateAddressUnsafe      *)
(* returns ErrAddressUnknown, which is dropped, as is an error of db.Save:  *)
(* the caller gets the address either way.                                  *)

NoFreeAddresses(r) ==
    /\ FreeSet = {}
    /\ UNCHANGED <<memory, db, given, marked>>

\* A subscribed record leaves the free list; mutant: it stays there.
FreeAfterUpdate_Kept(a) == freeAddresses
FreeAfterUpdate(a) == [freeAddresses EXCEPT ![a] = 0]

\* The deferred `go checkFreeAddressPool()`; mutant: it is not started.
SpawnCheck_Forgotten(r) == chk' = chk
SpawnCheck(r) == chk' = [chk EXCEPT ![r] = "count"]

updateAddressUnsafe(r, a) ==
    \/ /\ ~IsAddressKnown(a)
       /\ marked' = marked
       /\ UNCHANGED <<memory, db>>
    \/ /\ IsAddressKnown(a)
       /\ LET p == fastPool[a]
              new == [rec[a][p] EXCEPT !.owner = r]
          IN  /\ rec' = [rec EXCEPT ![a][p] = new]
              /\ freeAddresses' = FreeAfterUpdate(a)
              /\ \E ok \in SaveResults : Save(a, new, ok)
       /\ marked' = [marked EXCEPT ![r] = TRUE]
       /\ UNCHANGED <<allAddresses, fastPool, used>>

GetFreeAddressAndSubscribe(r) ==
    /\ Serving /\ Unlocked
    /\ Kind[r] = "getNew" /\ pc[r] = "idle"
    /\ \/ NoFreeAddresses(r)
       \/ \E a \in FreeSet :
            /\ updateAddressUnsafe(r, a)
            /\ given' = [given EXCEPT ![r] = a]
    /\ pc' = [pc EXCEPT ![r] = "done"]
    /\ SpawnCheck(r)
    /\ UNCHANGED <<phase, mux, arg, todo, left, updates, crashes>>

-----------------------------------------------------------------------------
(* Adding a named address.  address.subscribe calls AddAddressFill, which   *)
(* looks the address up and then calls AddAddressRecord, which looks it up  *)
(* again; the insertion is a later critical section of its own.             *)

\* AddAddressFill, up to its own look-up.
AddAddressFill(r) ==
    /\ Serving /\ Unlocked
    /\ Kind[r] = "subscribe" /\ pc[r] = "idle"
    /\ \E a \in Nameable :
        /\ arg' = [arg EXCEPT ![r] = a]
        /\ pc' = [pc EXCEPT ![r] = IF IsAddressKnown(a)
                                   THEN "done" ELSE "check"]
    /\ UNCHANGED <<phase, memory, db, mux, todo, given, marked, checkers,
                   updates, crashes>>

\* The look-up of AddAddressRecord, for a record made by AddAddressFill.
AddAddressRecordCheck(r) ==
    /\ Serving /\ Unlocked
    /\ pc[r] = "check"
    /\ pc' = [pc EXCEPT ![r] = IF IsAddressKnown(arg[r])
                               THEN "done" ELSE "insert"]
    /\ UNCHANGED <<phase, memory, db, mux, arg, todo, given, marked, checkers,
                   updates, crashes>>

\* AddAddressRecord called by itself, AddPrivateKey, AddPrivateKeyHexFill:
\* one look-up, then the insertion.
AddCheck(r) ==
    /\ Serving /\ Unlocked
    /\ Kind[r] \in {"addRecord", "addKey", "addKeyFill"} /\ pc[r] = "idle"
    /\ \E a \in Nameable :
        /\ arg' = [arg EXCEPT ![r] = a]
        /\ pc' = [pc EXCEPT ![r] = IF IsAddressKnown(a)
                                   THEN "done" ELSE "insert"]
    /\ UNCHANGED <<phase, memory, db, mux, todo, given, marked, checkers,
                   updates, crashes>>

\* The records the entry points build.  A subscription carries a key or is
\* watch-only (isRecordValid); AddPrivateKey leaves it unsubscribed.
NewRecords(r) ==
    CASE Kind[r] = "subscribe"  -> [key : BOOLEAN, owner : {r}]
      [] Kind[r] = "addKey"     -> [key : {TRUE}, owner : {NoOne}]
      [] Kind[r] = "addKeyFill" -> [key : {TRUE}, owner : {r, NoOne}]
      [] OTHER                  -> [key : BOOLEAN, owner : {r, NoOne}]

\* addAddressUnsafe: the maps, `go updatePool()`, then db.Save; mutant: the
\* save is left out.
addAddressUnsafe_NoSave(r, a, ok) ==
    \E new \in NewRecords(r) :
        /\ Insert(a, new)
        /\ fastPool' = fastPool
        /\ updates' = updates + 1
        /\ db' = db

addAddressUnsafe(r, a, ok) ==
    \E new \in NewRecords(r) :
        /\ Insert(a, new)
        /\ fastPool' = fastPool
        /\ updates' = updates + 1
        /\ Save(a, new, ok)

AddInsert(r) ==
    /\ Serving /\ Unlocked
    /\ pc[r] = "insert"
    /\ \E ok \in SaveResults : addAddressUnsafe(r, arg[r], ok)
    /\ pc' = [pc EXCEPT ![r] = "done"]
    /\ UNCHANGED <<phase, mux, arg, todo, given, marked, checkers, crashes>>

-----------------------------------------------------------------------------
(* AddAddressRecordsBulk: the whole batch under one write lock.             *)

BulkLock(r) ==
    /\ Serving /\ Unlocked
    /\ Kind[r] = "bulk" /\ pc[r] = "idle"
    /\ \E batch \in SUBSET Nameable \ {{}} : todo' = [todo EXCEPT ![r] = batch]
    /\ mux' = r
    /\ pc' = [pc EXCEPT ![r] = "bulk"]
    /\ UNCHANGED <<phase, memory, db, arg, given, marked, checkers, updates,
                   crashes>>

\* One iteration; the batch may be in any order.  A record already in memory
\* or on disk is skipped; the first failing save abandons the rest.
BulkNext(r) ==
    /\ pc[r] = "bulk"
    /\ \E a \in todo[r] :
        \/ /\ InAll(a) \/ db[a] # NoRec
           /\ todo' = [todo EXCEPT ![r] = @ \ {a}]
           /\ UNCHANGED <<memory, db, updates>>
        \/ /\ ~InAll(a) /\ db[a] = NoRec
           /\ \E ok \in SaveResults :
                /\ addAddressUnsafe(r, a, ok)
                /\ todo' = [todo EXCEPT ![r] = IF ok THEN @ \ {a} ELSE {}]
    /\ UNCHANGED <<phase, mux, pc, arg, given, marked, checkers, crashes>>

BulkUnlock(r) ==
    /\ pc[r] = "bulk" /\ todo[r] = {}
    /\ pc' = [pc EXCEPT ![r] = "done"]
    /\ mux' = NoOne
    /\ UNCHANGED <<phase, memory, db, arg, todo, given, marked, checkers,
                   updates, crashes>>

-----------------------------------------------------------------------------
(* checkFreeAddressPool and refillFreeAddressPool.  The amount is computed  *)
(* from counts taken under the read lock and used after it was released.    *)

RefillAmount ==
    IF CountTotal = 0 THEN GeneratePoolUpTo
    ELSE IF GeneratePoolUpTo > CountFree THEN GeneratePoolUpTo - CountFree
    ELSE 0

NeedsRefill ==
    EnableAddressGenerate /\ (CountTotal = 0 \/ CountFree < MinFreePoolSize)

checkFreeAddressPool(g) ==
    /\ chk[g] = "count" /\ Unlocked
    /\ chk' = [chk EXCEPT ![g] = IF NeedsRefill THEN "refill" ELSE "idle"]
    /\ left' = [left EXCEPT ![g] = IF NeedsRefill THEN RefillAmount ELSE 0]
    /\ UNCHANGED <<phase, memory, db, mux, clients, updates, crashes>>

\* Mutant: the write lock is not awaited.
RefillLock(g) ==
    /\ chk[g] = "refill" /\ Unlocked
    /\ mux' = g
    /\ chk' = [chk EXCEPT ![g] = "generate"]
    /\ UNCHANGED <<phase, memory, db, clients, left, updates, crashes>>

\* The loop condition i < refillAmount; mutant: i <= refillAmount.
MoreToGenerate_OffByOne(g) == left[g] >= 0
MoreToGenerate(g) == left[g] > 0

\* One iteration.  A failing save returns at once: the record is in the maps
\* but not on disk, and the index is not rebuilt.
RefillOne(g) ==
    /\ chk[g] = "generate" /\ MoreToGenerate(g)
    /\ \E a \in Fresh, ok \in SaveResults :
        LET new == [key |-> TRUE, owner |-> NoOne]
        IN  /\ Insert(a, new)
            /\ Save(a, new, ok)
            /\ left' = [left EXCEPT ![g] = IF ok THEN @ - 1 ELSE 0]
            /\ chk' = [chk EXCEPT ![g] = IF ok THEN "generate" ELSE "idle"]
            /\ mux' = IF ok THEN mux ELSE NoOne
    /\ UNCHANGED <<phase, fastPool, clients, updates, crashes>>

\* The generation of an address fails: return without rebuilding the index.
RefillGenerateFails(g) ==
    /\ GenerateMayFail
    /\ chk[g] = "generate" /\ left[g] > 0
    /\ left' = [left EXCEPT ![g] = 0]
    /\ chk' = [chk EXCEPT ![g] = "idle"]
    /\ mux' = NoOne
    /\ UNCHANGED <<phase, memory, db, clients, updates, crashes>>

\* The loop is over: go updatePool(), then the deferred Unlock; mutant: the
\* index is not rebuilt.
RefillDone_NoUpdate(g) ==
    /\ chk[g] = "generate" /\ left[g] = 0
    /\ chk' = [chk EXCEPT ![g] = "idle"]
    /\ mux' = NoOne
    /\ UNCHANGED <<phase, memory, db, clients, left, updates, crashes>>

RefillDone(g) ==
    /\ chk[g] = "generate" /\ left[g] = 0
    /\ chk' = [chk EXCEPT ![g] = "idle"]
    /\ mux' = NoOne
    /\ updates' = updates + 1
    /\ UNCHANGED <<phase, memory, db, clients, left, crashes>>

\* A goroutine running updatePool: the index is rebuilt from allAddresses.
updatePool ==
    /\ updates > 0 /\ Unlocked
    /\ updates' = updates - 1
    /\ fastPool' = IF \A a \in Addr : ~InAll(a) THEN fastPool ELSE allAddresses
    /\ UNCHANGED <<phase, allAddresses, freeAddresses, rec, used, db, mux,
                   clients, checkers, crashes>>

-----------------------------------------------------------------------------
Request(r) ==
    \/ GetFreeAddressAndSubscribe(r)
    \/ AddAddressFill(r) \/ AddAddressRecordCheck(r)
    \/ AddCheck(r) \/ AddInsert(r)
    \/ BulkLock(r) \/ BulkNext(r) \/ BulkUnlock(r)

Checker(g) ==
    \/ checkFreeAddressPool(g) \/ RefillLock(g) \/ RefillOne(g)
    \/ RefillGenerateFails(g) \/ RefillDone(g)

\* Every request answered, every goroutine finished: a server at rest.
AtRest ==
    /\ phase = "up" /\ updates = 0 /\ Unlocked
    /\ \A r \in Requests : pc[r] = "done"
    /\ \A g \in Checkers : chk[g] = "idle"
    /\ UNCHANGED vars

Next ==
    \/ preLoadAddresses \/ NewManagerReturns \/ Crash
    \/ \E r \in Requests : Request(r)
    \/ \E g \in Checkers : Checker(g)
    \/ updatePool
    \/ AtRest

Spec == Init /\ [][Next]_vars

\* Goroutines run: the Go scheduler and the RWMutex starve nobody.  Nothing
\* forces a client to make a call; a call once made is carried on.
Fairness ==
    /\ WF_vars(preLoadAddresses) /\ WF_vars(NewManagerReturns)
    /\ WF_vars(updatePool)
    /\ \A g \in Checkers : WF_vars(Checker(g))
    /\ \A r \in Requests : WF_vars(pc[r] # "idle" /\ Request(r))

FairSpec == Spec /\ Fairness

-----------------------------------------------------------------------------
(* Properties                                                               *)

\* Type correctness of the pool, the goroutines and the calls.
TypeOK ==
    /\ phase \in {"down", "boot", "up"}
    /\ allAddresses \in [Addr -> Ptr]
    /\ freeAddresses \in [Addr -> Ptr]
    /\ fastPool \in [Addr -> Ptr]
    /\ rec \in [Addr -> [1 .. MaxVersion -> Rec]]
    /\ used \in [Addr -> Ptr]
    /\ db \in [Addr -> Rec \cup {NoRec}]
    /\ mux \in Checkers \cup {NoOne}
    /\ pc \in [Requests -> {"idle", "check", "insert", "bulk", "done"}]
    /\ arg \in [Requests -> Addr \cup {NoAddr}]
    /\ todo \in [Requests -> SUBSET Addr]
    /\ given \in [Requests -> Addr \cup {NoAddr}]
    /\ marked \in [Requests -> BOOLEAN]
    /\ chk \in [Checkers -> {"idle", "count", "refill", "generate"}]
    /\ left \in [Checkers -> Nat]
    /\ updates \in Nat
    /\ crashes \in Nat

\* The record the free list holds for an address is never a subscribed one,
\* whatever the index and allAddresses hold by then (updateAddressUnsafe
\* writes through the index and removes from the free list).
FreeRecordsUnsubscribed ==
    \A a \in FreeSet : rec[a][freeAddresses[a]].owner = NoOne

\* What is on disk, free or in the index of a running manager is also in
\* allAddresses: the disk check of AddAddressRecordsBulk never decides, and
\* no record can be on disk that the counts of checkFreeAddressPool miss.
NothingOutsideAll ==
    phase # "down" =>
        \A a \in Addr : (db[a] # NoRec \/ freeAddresses[a] # 0 \/ fastPool[a] # 0)
                        => InAll(a)

\* A loop that saves record after record under the write lock is alone: one
\* goroutine at most is inside, and it is the one that holds mux.
OneWriter ==
    /\ \A g \in Checkers : chk[g] = "generate" => mux = g
    /\ \A r \in Requests : pc[r] = "bulk" => mux = r
    /\ \A r \in Requests : ~(pc[r] = "bulk" /\ chk[r] = "generate")

\* The three maps, the disk and the lock agree whatever fails and whoever names
\* an address: saves, generations and crashes included.
PoolSound == FreeRecordsUnsubscribed /\ NothingOutsideAll /\ OneWriter

\* As long as clients do not name addresses of the pool, the free list holds
\* exactly the managed addresses that nobody subscribed, in every window
\* between a check and the insertion or index rebuild that follows it.
FreeListExact ==
    \A a \in Addr : freeAddresses[a] # 0 <=> InAll(a) /\ Owner(a) = NoOne

\* While no save fails, the disk has every record as it is in memory: a crash
\* between any two critical sections loses neither a key nor a subscription.
DiskMatchesMemory ==
    phase # "down" =>
        \A a \in Addr : db[a] = IF InAll(a) THEN rec[a][allAddresses[a]]
                                ELSE NoRec

\* A handed-out address that could be marked subscribed (the index had it) is
\* never handed out again, not even after a crash and a reload.
FinalHandout ==
    [][\A r, q \in Requests :
          marked[r] /\ given[q] = NoAddr => given'[q] # given[r]]_vars

\* The insertion of a call that looked a up before a was subscribed: it has
\* passed AddAddressRecord's check, and puts its own subscription there.
LateSubscribe(r, a) ==
    /\ Kind[r] = "subscribe" /\ pc[r] = "insert" /\ arg[r] = a
    /\ pc'[r] = "done" /\ db'[a].owner = r

\* As long as services name addresses of their own, the subscription of a
\* managed address stays on disk whatever hand-outs, refills, rebuilds of the
\* index, crashes and reloads come between: the only step that replaces it is
\* the insertion of a second address.subscribe whose look-up came before the
\* first one's insertion was in the index (api.go, AddAddressRecord), and what
\* it leaves is a subscription, not a free address.
SubscriptionKept ==
    [][\A a \in Addr : db[a] # NoRec /\ db[a].owner # NoOne =>
          db'[a] = db[a] \/ \E r \in Requests : LateSubscribe(r, a)]_vars

\* Every managed address gets into the index, hence is seen by the watchdog.
IndexCatchesUp ==
    \A a \in Addr : (InAll(a) ~> (fastPool[a] = allAddresses[a] /\ InAll(a)))

\* Whenever the pool runs low, and generation works, it is refilled.
PoolIsRefilled == []<>(CountFree >= MinFreePoolSize)
=============================================================================
