------------------------------ MODULE TxCache ------------------------------
(***************************************************************************)
(* The transaction cache: one event loop writes, for every event of the    *)
(* watchdog, a record per transfer; the endpoint answers transferInfo and  *)
(* transferInfoForAddress from the records.  As in Subscriptions the loop  *)
(* is given any event that is true of the chain, at any time and any       *)
(* number of times.  The mutex is held over each handler, so a handler is  *)
(* one step for every reader.                                              *)
(***************************************************************************)
EXTENDS Integers

CONSTANTS
    Tx,
    Confirmations, RegisterConfirmations,   \* config.json; 20 and 50
    MaxBlock,                               \* bound: blocks mined
    NoRec

ASSUME TxCacheAssumption ==
    /\ Confirmations \in Nat \ {0} /\ RegisterConfirmations \in Nat
    /\ MaxBlock \in Nat

VARIABLES
    head, place,   \* the chain: its height; -1, 0 (pending) or block of a tx
    cache          \* txcache.db

vars == <<head, place, cache>>

Init ==
    /\ head = 0
    /\ place = [t \in Tx |-> -1]
    /\ cache = [t \in Tx |-> NoRec]

Submit(t) ==
    /\ place[t] = -1
    /\ place' = [place EXCEPT ![t] = 0]
    /\ UNCHANGED <<head, cache>>

Mine ==
    /\ head < MaxBlock
    /\ head' = head + 1
    /\ \E S \in SUBSET {t \in Tx : place[t] = 0} :
         place' = [t \in Tx |-> IF t \in S THEN head + 1 ELSE place[t]]
    /\ UNCHANGED cache

\* loadFromTransferInfo, with the first confirmation of a mined transfer.
loadFromTransferInfo(b) ==
    [block |-> b, inPool |-> b = 0, confirmed |-> FALSE,
     confirmations |-> IF b = 0 THEN 0 ELSE 1]

\* Whatever was cached is replaced.  A save that fails leaves it.
TransactionEvent(t, b) ==
    /\ \/ b = 0 /\ place[t] >= 0
       \/ b > 0 /\ place[t] = b
    /\ cache' = [cache EXCEPT ![t] = loadFromTransferInfo(b)]
    /\ UNCHANGED <<head, place>>

\* Mutant: the query's records are all updated, those of later blocks too.
txToUpdate_AnyBlock(b) ==
    {t \in Tx : cache[t] # NoRec /\ ~cache[t].inPool}

\* Mutant: a pending record is counted from block 0.
txToUpdate_InPool(b) ==
    {t \in Tx : /\ cache[t] # NoRec
                /\ cache[t].block >= b - RegisterConfirmations
                /\ b - cache[t].block > 1}

\* The records the query finds and the condition lets through.
txToUpdate(b) ==
    {t \in Tx : /\ cache[t] # NoRec
                /\ cache[t].block >= b - RegisterConfirmations
                /\ b - cache[t].block > 1 /\ ~cache[t].inPool}

Updated(r, b) ==
    [r EXCEPT !.confirmed = r.block <= b - Confirmations,
              !.confirmations = b - r.block]

\* One save per record; the ones in S succeed.
blockUpdateEvent(b) ==
    /\ b \in 1 .. head
    /\ \E S \in SUBSET txToUpdate(b) :
         cache' = [t \in Tx |-> IF t \in S THEN Updated(cache[t], b) ELSE cache[t]]
    /\ UNCHANGED <<head, place>>

Next ==
    \/ \E t \in Tx : Submit(t)
    \/ Mine
    \/ \E t \in Tx, b \in 0 .. MaxBlock : TransactionEvent(t, b)
    \/ \E b \in 1 .. MaxBlock : blockUpdateEvent(b)

Spec == Init /\ [][Next]_vars

-----------------------------------------------------------------------------
Rec == [block : 0 .. MaxBlock, inPool : BOOLEAN, confirmed : BOOLEAN,
        confirmations : 0 .. MaxBlock]

\* Every variable has the type its declaration says.  A count is never
\* negative, in whatever order block events come (blockupdate.go:27-29).
TypeOK ==
    /\ head \in 0 .. MaxBlock
    /\ place \in [Tx -> -1 .. MaxBlock]
    /\ cache \in [Tx -> Rec \cup {NoRec}]

\* transferInfo may be late, but it never says more than the chain does: the
\* block is the transfer's, there are not more confirmations than blocks from
\* it on, and what is called confirmed is Confirmations deep
\* (api.go:44-62, blockupdate.go:10-36).
NeverOverstates ==
    \A t \in Tx : cache[t] # NoRec =>
        LET r == cache[t]
        IN  /\ r.inPool <=> r.block = 0
            /\ r.inPool => r.confirmations = 0 /\ ~r.confirmed
            /\ ~r.inPool => r.block = place[t] /\ r.confirmations \in 1 .. head - r.block + 1
            /\ r.confirmed => head - r.block >= Confirmations
=============================================================================
