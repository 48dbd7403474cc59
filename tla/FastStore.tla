----------------------------- MODULE FastStore -----------------------------
(* address/fastmap.go: the read-only index of the address pool, a trie in one *)
(* array. A key is a sequence of bytes; its record is the key itself. The     *)
(* code's store[i] is store[i + 1] here. Building and lookups are made under  *)
(* the mutex of the pool; a step is one pass of a loop.                       *)
EXTENDS Integers, Sequences, SequencesExt, FiniteSetsExt

CONSTANTS
    KeyRadix,   \* the values of a byte, 256 in the code
    NoAddress,  \* nil
    KeySets,    \* pools: sets of keys
    Probes      \* the strings that are looked up

\* A key is text, in which the largest byte does not occur.
ASSUME IndexAssumption ==
    /\ KeyRadix \in Nat \ {0, 1}
    /\ \A ks \in KeySets : \A k \in ks : k \in Seq(0 .. KeyRadix - 2)
    /\ \A s \in Probes : s \in Seq(0 .. KeyRadix - 1)

VARIABLES
    indexed,    \* the keys of the pool
    store,      \* the array
    ranges,     \* the loops of makeByteValue that are under way, the innermost last
    lookup,     \* the call of LookupString
    paths       \* history: the bytes that lead to each element of store

indexVars == <<indexed, store, ranges, lookup, paths>>

\* objectValue
Empty == [nextLo |-> 0, nextLen |-> 0, nextOffset |-> 0, valid |-> FALSE, value |-> NoAddress]

NoLookup == [phase |-> "idle", s |-> <<>>, i |-> 0, bv |-> 0, value |-> NoAddress, found |-> FALSE]

\* The pool of a new Manager has no keys (nullStore).
IndexInit ==
    /\ indexed = {}
    /\ store = <<Empty>>
    /\ ranges = <<>>
    /\ lookup = NoLookup
    /\ paths = <<<<>>>>

Longer(ks, byteIndex) == {k \in ks : Len(k) > byteIndex}
BytesAt(ks, byteIndex) == {k[byteIndex + 1] : k \in ks}

\* Of keys that agree in byteIndex bytes one may have no more. The lengths and offsets
\* are bytes: a range of all of them would have length 0. The next elements start at lo.
byteValue(ks, byteIndex, lo) ==
    LET longer == Longer(ks, byteIndex)
        next == BytesAt(longer, byteIndex)
        own == [Empty EXCEPT !.valid = longer # ks,
                             !.value = IF longer = ks THEN NoAddress ELSE CHOOSE k \in ks : k \notin longer]
    IN  IF longer = {} THEN own
        ELSE [own EXCEPT !.nextLo = lo, !.nextOffset = Min(next),
                         !.nextLen = (Max(next) - Min(next) + 1) % KeyRadix]

\* the blocks that alloc fills are copied one behind the other in the end
alloc(st, n) == st \o [i \in 1 .. n |-> Empty]

\* makeByteValue up to its loop, for the element at and the keys below it, within the
\* loops rs: the loop goes over the keys that have more bytes.
makeByteValue(st, ps, rs, at, ks, byteIndex) ==
    LET bv == byteValue(ks, byteIndex, Len(st))
        longer == Longer(ks, byteIndex)
    IN  /\ store' = alloc([st EXCEPT ![at + 1] = bv], bv.nextLen)
        /\ paths' = ps \o [i \in 1 .. bv.nextLen |-> Append(ps[at + 1], bv.nextOffset + i - 1)]
        /\ ranges' = IF longer = {} THEN rs
                     ELSE Append(rs, [bv |-> at, keys |-> longer, byteIndex |-> byteIndex])

objectBuild(ks) == makeByteValue(<<Empty>>, <<<<>>>>, <<>>, 0, ks, 0)

\* updatePool, for a pool that has keys: addresses are added to a pool and never taken
\* out. Nothing of the index before is used.
newAddressMemStore ==
    /\ ranges = <<>> /\ lookup.phase = "idle"
    /\ \E ks \in KeySets : ks # {} /\ indexed \subseteq ks /\ indexed' = ks /\ objectBuild(ks)
    /\ UNCHANGED lookup

\* One pass of the loop: the keys with the lowest byte; the loop ends with the last keys.
makeNext ==
    /\ ranges # <<>>
    /\ LET r == Last(ranges)
           bv == store[r.bv + 1]
           b == Min(BytesAt(r.keys, r.byteIndex))
           same == {k \in r.keys : k[r.byteIndex + 1] = b}
           outer == IF same = r.keys THEN Front(ranges)
                    ELSE Append(Front(ranges), [r EXCEPT !.keys = @ \ same])
       IN  makeByteValue(store, paths, outer, bv.nextLo + (b - bv.nextOffset), same, r.byteIndex + 1)
    /\ UNCHANGED <<indexed, lookup>>

\* LookupString and LookupBytes
LookupString ==
    /\ ranges = <<>> /\ lookup.phase = "idle"
    /\ \E s \in Probes : lookup' = [NoLookup EXCEPT !.phase = "search", !.s = s]
    /\ UNCHANGED <<indexed, store, ranges, paths>>

outside_Last(bv, b) == b < bv.nextOffset \/ b - bv.nextOffset >= bv.nextLen - 1

\* none of the keys goes on with the byte b
outside(bv, b) == b < bv.nextOffset \/ b - bv.nextOffset >= bv.nextLen

LookupNext ==
    /\ lookup.phase = "search"
    /\ LET bv == store[lookup.bv + 1]
           b == lookup.s[lookup.i + 1]
       IN  lookup' =
             IF lookup.i = Len(lookup.s)
             THEN [lookup EXCEPT !.phase = "done", !.value = bv.value, !.found = bv.valid]
             ELSE IF outside(bv, b) THEN [lookup EXCEPT !.phase = "done"]
             ELSE [lookup EXCEPT !.i = @ + 1, !.bv = bv.nextLo + (b - bv.nextOffset)]
    /\ UNCHANGED <<indexed, store, ranges, paths>>

LookupReturn ==
    /\ lookup.phase = "done" /\ lookup' = NoLookup
    /\ UNCHANGED <<indexed, store, ranges, paths>>

IndexNext == newAddressMemStore \/ makeNext \/ LookupString \/ LookupNext \/ LookupReturn

IndexSpec == IndexInit /\ [][IndexNext]_indexVars

-----------------------------------------------------------------------------
\* Looking a key up in the array finds its record, and a key that is not there is not
\* found, whatever the keys around it (fastStore; makeByteValue, LookupString).
LookupIsMap ==
    lookup.phase = "done" =>
        /\ lookup.found = (lookup.s \in indexed)
        /\ lookup.value = IF lookup.s \in indexed THEN lookup.s ELSE NoAddress
=============================================================================
