------------------------------ MODULE Watchdog ------------------------------
(***************************************************************************)
(* The watchdog service: runLoop polls the node's mempool and blocks and   *)
(* pushes events into a bounded channel; eventLoop takes them out and      *)
(* starts one goroutine per registered handler and event, so that handlers *)
(* run in any order; the last processed block is persisted and is where a  *)
(* restarted service resumes.                                              *)
(*                                                                         *)
(* runLoop is one process: its program counter, its mutex (which it locks  *)
(* at the top of each round and unlocks, or fails to, on each way out) and *)
(* its local variables.  The node and its chain are the environment.       *)
(***************************************************************************)
EXTENDS Integers, Sequences, FiniteSets

CONSTANTS
    Tx, From, To,         \* the transactions, and who pays whom
    Unsuccessful,         \* transactions without Success; the client has none
    KnownAtStart,         \* addresses in the index when the service starts
    Handlers,             \* the registered event handlers
    Cap,                  \* capacity of the channel `events` (250 in the code)
    NoTx,                 \* a block event is about no transaction
    MaxBlock,             \* bound: blocks mined
    MaxErrors,            \* bound: failed calls of the node
    MaxCrashes,           \* bound: crashes from outside
    Lag,                  \* how far behind the node that answers may be
    FailingCalls          \* which calls of the node may fail

Calls == {"mempool", "blocknum", "single", "catchup", "save"}

ASSUME WatchdogAssumption ==
    /\ NoTx \notin Tx
    /\ KnownAtStart \subseteq {From[t] : t \in Tx} \cup {To[t] : t \in Tx}
    /\ Cap \in Nat \ {0}
    /\ MaxBlock \in Nat /\ MaxErrors \in Nat /\ MaxCrashes \in Nat
    /\ Lag \in Nat
    /\ FailingCalls \subseteq Calls

VARIABLES
    head, place,      \* the chain: its height; -1, 0 (mempool) or block of a tx
    known,            \* the addresses the index of the address manager has
    pc, locked,       \* runLoop: program counter, and is w.mux locked?
    lastSeenBlock, currentBlock,
    block,            \* the block being processed (processBlock in the code)
    todo,             \* transactions of the current list not yet examined
    events,           \* the channel
    spawned,          \* handler goroutines started and not yet run
    handled,          \* history: events each handler was called with
    pushed,           \* history: events ever put in the channel
    persisted,        \* state.json: LastBlockNum
    errors, crashes,
    restarts          \* how often the service was started again

chain == <<head, place>>
loop == <<pc, locked, lastSeenBlock, currentBlock, block, todo>>
queues == <<events, spawned, handled, pushed>>
vars == <<chain, known, loop, queues, persisted, errors, crashes, restarts>>

Addresses == {From[t] : t \in Tx} \cup {To[t] : t \in Tx}
Event == [block : 0 .. MaxBlock, tx : Tx \cup {NoTx}]
BlockEvent(b) == [block |-> b, tx |-> NoTx]
TxEvent(t, b) == [block |-> b, tx |-> t]
MinedIn(b) == {t \in Tx : place[t] = b}

\* The node fails this call: an error reply, a timeout, a closed connection.
Fails(call) ==
    /\ call \in FailingCalls /\ errors < MaxErrors
    /\ errors' = errors + 1

SaveResults == IF "save" \in FailingCalls THEN BOOLEAN ELSE {TRUE}
\* UpdateState: the number goes to disk, or the save fails and is not noticed.
UpdateState(n, ok) == persisted' = IF ok THEN n ELSE persisted

\* w.events <- e, which waits for room in the channel; mutant: it
\* does not wait.
Push_NoWait(e) ==
    /\ events' = Append(events, e)
    /\ pushed' = pushed \cup {e}
    /\ UNCHANGED <<spawned, handled>>

Push(e) ==
    /\ Len(events) < Cap
    /\ events' = Append(events, e)
    /\ pushed' = pushed \cup {e}
    /\ UNCHANGED <<spawned, handled>>

-----------------------------------------------------------------------------
Init ==
    /\ head = 0
    /\ place = [t \in Tx |-> -1]
    /\ known = KnownAtStart
    /\ pc = "lock" /\ locked = FALSE
    /\ lastSeenBlock = 0 /\ currentBlock = 0 /\ block = 0 /\ todo = {}
    /\ events = <<>> /\ spawned = {} /\ pushed = {}
    /\ handled = [h \in Handlers |-> {}]
    /\ persisted = 0
    /\ errors = 0 /\ crashes = 0 /\ restarts = 0

(* The environment                                                          *)
Submit(t) ==
    /\ place[t] = -1
    /\ place' = [place EXCEPT ![t] = 0]
    /\ UNCHANGED <<head, known, loop, queues, persisted, errors, crashes, restarts>>

Mine ==
    /\ head < MaxBlock
    /\ head' = head + 1
    /\ \E S \in SUBSET {t \in Tx : place[t] < 1} :
         place' = [t \in Tx |-> IF t \in S THEN head + 1 ELSE place[t]]
    /\ UNCHANGED <<known, loop, queues, persisted, errors, crashes, restarts>>

\* The address manager's updatePool adds an address to the index.
Indexed(a) ==
    /\ a \notin known
    /\ known' = known \cup {a}
    /\ UNCHANGED <<chain, loop, queues, persisted, errors, crashes, restarts>>

-----------------------------------------------------------------------------
(* runLoop                                                                  *)

\* w.mux.Lock(): waits for ever if the loop itself left it locked.
Lock ==
    /\ pc = "lock" /\ ~locked
    /\ locked' = TRUE
    /\ pc' = "mempool"
    /\ UNCHANGED <<chain, known, lastSeenBlock, currentBlock, block, todo,
                   queues, persisted, errors, crashes, restarts>>

\* The pending transactions are in no block; mutant: they are reported with
\* the block processed last.
PoolBlock_Last == block
PoolBlock == 0

\* processMemPool skips the unsuccessful transactions.
processMemPool(pool) == pool \ Unsuccessful

MemPoolContent ==
    /\ pc = "mempool"
    /\ todo' = processMemPool(MinedIn(0))
    /\ block' = PoolBlock
    /\ pc' = "pool"
    /\ UNCHANGED <<chain, known, locked, lastSeenBlock, currentBlock, queues,
                   persisted, errors, crashes, restarts>>

\* The error path sleeps and continues without unlocking.
MemPoolError ==
    /\ pc = "mempool" /\ Fails("mempool")
    /\ pc' = "lock"
    /\ UNCHANGED <<chain, known, locked, lastSeenBlock, currentBlock, block,
                   todo, queues, persisted, crashes, restarts>>

\* processTx for one transaction of the mempool or of the block: one event
\* if a party is known, also when both are.
processTx(t) ==
    /\ pc \in {"pool", "txs"} /\ t \in todo
    /\ todo' = todo \ {t}
    /\ IF From[t] \in known \/ To[t] \in known
       THEN Push(TxEvent(t, block)) ELSE UNCHANGED queues
    /\ UNCHANGED <<chain, known, pc, locked, lastSeenBlock, currentBlock,
                   block, persisted, errors, crashes, restarts>>

\* More than one block ahead: the catch-up loop, oldest block first.
CatchingUp == currentBlock - lastSeenBlock > 1

\* Where processing starts when the node is at block n; mutant: a gap of two
\* is not noticed.
FirstBlock_GapOfTwo(n) ==
    IF n - lastSeenBlock > 2 THEN lastSeenBlock + 1 ELSE n
FirstBlock(n) == IF n - lastSeenBlock > 1 THEN lastSeenBlock + 1 ELSE n

\* The number comes from a node that may be up to Lag blocks behind.
BlockNum ==
    /\ pc = "pool" /\ todo = {}
    /\ \E n \in {m \in 0 .. head : m >= head - Lag} :
        /\ currentBlock' = n
        /\ pc' = IF n > lastSeenBlock THEN "fetch" ELSE "save"
        /\ block' = IF n > lastSeenBlock THEN FirstBlock(n) ELSE block
    /\ UNCHANGED <<chain, known, locked, lastSeenBlock, todo, queues,
                   persisted, errors, crashes, restarts>>

\* The error path unlocks; mutant: it does not.
BlockNumError_StaysLocked ==
    /\ pc = "pool" /\ todo = {} /\ Fails("blocknum")
    /\ pc' = "lock"
    /\ UNCHANGED <<chain, known, locked, lastSeenBlock, currentBlock, block,
                   todo, queues, persisted, crashes, restarts>>

BlockNumError ==
    /\ pc = "pool" /\ todo = {} /\ Fails("blocknum")
    /\ locked' = FALSE
    /\ pc' = "lock"
    /\ UNCHANGED <<chain, known, lastSeenBlock, currentBlock, block, todo,
                   queues, persisted, crashes, restarts>>

\* BlockByNum succeeds, and the block event is pushed.  A node that does not
\* have the block answers null, which decodes to a block without transactions.
\* Mutant: the block event is left out.
BlockByNum_NoBlockEvent ==
    /\ pc = "fetch"
    /\ todo' = MinedIn(block)
    /\ pc' = "txs"
    /\ UNCHANGED <<chain, known, locked, lastSeenBlock, currentBlock, block,
                   queues, persisted, errors, crashes, restarts>>

BlockByNum ==
    /\ pc = "fetch"
    /\ todo' \in {MinedIn(block)} \cup (IF block > head - Lag THEN {{}} ELSE {})
    /\ Push(BlockEvent(block))
    /\ pc' = "txs"
    /\ UNCHANGED <<chain, known, locked, lastSeenBlock, currentBlock, block,
                   persisted, errors, crashes, restarts>>

\* The next block of the catch-up loop, or what follows the loop.
\* Mutant: lastSeenBlock is not advanced.
NextBlock_Forgets ==
    IF block < currentBlock
    THEN /\ block' = block + 1 /\ pc' = "fetch" /\ UNCHANGED lastSeenBlock
    ELSE /\ pc' = "save" /\ UNCHANGED <<block, lastSeenBlock>>

NextBlock ==
    IF block < currentBlock
    THEN /\ block' = block + 1 /\ pc' = "fetch" /\ UNCHANGED lastSeenBlock
    ELSE /\ lastSeenBlock' = currentBlock /\ pc' = "save" /\ UNCHANGED block

\* sync: Unlock of unlocked RWMutex is a fatal error, the process dies.
Die == pc' = "dead"


SingleError ==
    /\ pc = "fetch" /\ ~CatchingUp /\ Fails("single")
    /\ locked' = FALSE
    /\ pc' = "lock"
    /\ UNCHANGED <<chain, known, lastSeenBlock, currentBlock, block, todo,
                   queues, persisted, crashes, restarts>>

\* A failed fetch while catching up: unlock, and continue the inner loop with
\* the next block.
CatchUpError ==
    /\ pc = "fetch" /\ CatchingUp /\ Fails("catchup")
    /\ IF locked
       THEN locked' = FALSE /\ NextBlock
       ELSE Die /\ UNCHANGED <<locked, lastSeenBlock, block>>
    /\ UNCHANGED <<chain, known, currentBlock, todo, queues, persisted, crashes, restarts>>

\* All transactions of the block examined; a catch-up block is persisted;
\* mutant: the block to catch up with is persisted instead.
BlockDone_PersistsTarget ==
    /\ pc = "txs" /\ todo = {}
    /\ IF CatchingUp THEN UpdateState(currentBlock, TRUE)
       ELSE UNCHANGED persisted
    /\ NextBlock
    /\ UNCHANGED <<chain, known, locked, currentBlock, todo, queues, errors,
                   crashes, restarts>>

BlockDone ==
    /\ pc = "txs" /\ todo = {}
    /\ IF CatchingUp
       THEN \E ok \in SaveResults : UpdateState(block, ok)
       ELSE UNCHANGED persisted
    /\ NextBlock
    /\ UNCHANGED <<chain, known, locked, currentBlock, todo, queues, errors,
                   crashes, restarts>>

\* The end of the round: persist, then unlock.
EndRound ==
    /\ pc = "save"
    /\ \E ok \in SaveResults : UpdateState(currentBlock, ok)
    /\ IF locked THEN locked' = FALSE /\ pc' = "lock"
                 ELSE Die /\ UNCHANGED locked
    /\ UNCHANGED <<chain, known, lastSeenBlock, currentBlock, block, todo,
                   queues, errors, crashes, restarts>>

runLoop ==
    \/ Lock \/ MemPoolContent \/ MemPoolError
    \/ \E t \in Tx : processTx(t)
    \/ BlockNum \/ BlockNumError
    \/ BlockByNum \/ SingleError \/ CatchUpError \/ BlockDone \/ EndRound

-----------------------------------------------------------------------------
\* eventLoop: `go h(...)` for every registered handler.
eventLoop ==
    /\ pc # "dead" /\ events # <<>>
    /\ events' = Tail(events)
    /\ spawned' = spawned \cup {<<h, Head(events)>> : h \in Handlers}
    /\ UNCHANGED <<chain, known, loop, handled, pushed, persisted, errors,
                   crashes, restarts>>

\* A handler goroutine runs, in any order relative to the others.
Handle(h, e) ==
    /\ pc # "dead" /\ <<h, e>> \in spawned
    /\ spawned' = spawned \ {<<h, e>>}
    /\ handled' = [handled EXCEPT ![h] = @ \cup {e}]
    /\ UNCHANGED <<chain, known, loop, events, pushed, persisted, errors,
                   crashes, restarts>>

Crash ==
    /\ pc # "dead" /\ crashes < MaxCrashes
    /\ crashes' = crashes + 1
    /\ Die
    /\ UNCHANGED <<chain, known, locked, lastSeenBlock, currentBlock, block,
                   todo, queues, persisted, errors, restarts>>

\* Run after a restart: the channel, the goroutines and the mutex are new and
\* the loop resumes after the persisted block.
Run ==
    /\ pc = "dead"
    /\ pc' = "lock" /\ locked' = FALSE
    /\ lastSeenBlock' = persisted
    /\ currentBlock' = 0 /\ block' = 0 /\ todo' = {}
    /\ events' = <<>> /\ spawned' = {}
    /\ restarts' = restarts + 1
    /\ UNCHANGED <<chain, known, handled, pushed, persisted, errors, crashes>>

Next ==
    \/ \E t \in Tx : Submit(t)
    \/ Mine
    \/ \E a \in Addresses : Indexed(a)
    \/ runLoop
    \/ eventLoop
    \/ \E g \in spawned : Handle(g[1], g[2])
    \/ Crash \/ Run

Spec == Init /\ [][Next]_vars

\* The goroutines of the service are scheduled, and it is restarted when it
\* died.  Nothing is assumed of the chain or of the clients.
Fairness ==
    /\ WF_vars(runLoop)
    /\ WF_vars(eventLoop)
    /\ \A h \in Handlers, e \in Event : WF_vars(Handle(h, e))
    /\ WF_vars(Run)

FairSpec == Spec /\ Fairness

-----------------------------------------------------------------------------
(* Properties                                                               *)

\* Type correctness of the chain, the loop, the channel and the state file.
TypeOK ==
    /\ head \in 0 .. MaxBlock
    /\ place \in [Tx -> -1 .. MaxBlock]
    /\ known \subseteq Addresses
    /\ pc \in {"lock", "mempool", "pool", "fetch", "txs", "save", "dead"}
    /\ locked \in BOOLEAN
    /\ lastSeenBlock \in 0 .. MaxBlock
    /\ currentBlock \in 0 .. MaxBlock
    /\ block \in 0 .. MaxBlock
    /\ todo \subseteq Tx
    /\ events \in Seq(Event) /\ Len(events) <= Cap
    /\ spawned \subseteq Handlers \X Event
    /\ handled \in [Handlers -> SUBSET Event]
    /\ pushed \subseteq Event
    /\ persisted \in 0 .. MaxBlock
    /\ errors \in 0 .. MaxErrors
    /\ crashes \in 0 .. MaxCrashes
    /\ restarts \in 0 .. MaxErrors + MaxCrashes

\* The transactions whose parties the index had all along.
Watched == {t \in Tx : From[t] \in KnownAtStart \/ To[t] \in KnownAtStart}

\* The state file is never ahead of the work: of every block up to the one a
\* restart resumes after, the block event and the event of every watched
\* transaction were pushed, whatever crashed, failed or was retried.
PersistedCovered ==
    \A b \in 1 .. persisted :
        /\ BlockEvent(b) \in pushed
        /\ \A t \in Watched : place[t] = b => TxEvent(t, b) \in pushed

\* An event tells the truth about the chain: a transaction reported in a
\* block is in that block, one reported pending has left the sender.
NoPhantomEvent ==
    \A e \in pushed :
        /\ e.block <= head
        /\ e.tx # NoTx => IF e.block = 0 THEN place[e.tx] >= 0
                          ELSE place[e.tx] = e.block

\* The loop is between its Lock and the Unlock that ends the round.
RoundOpen == pc \in {"mempool", "pool", "fetch", "txs", "save"}

\* Of all the ways through and out of a round, with every call failing and the
\* node lagging, one leaves the mutex locked when the loop goes back for it,
\* the error path of MemPoolContent (runloop.go:22-26), and one gives it up
\* while the round goes on, the error path of the catch-up loop
\* (runloop.go:53-56); every other step leaves w.mux as Lock needs it.
LoopOwnsMutex ==
    [][/\ pc' = "lock" /\ locked' => (pc = "lock" /\ locked) \/ MemPoolError
       /\ RoundOpen' /\ ~locked' => (RoundOpen /\ ~locked) \/ CatchUpError]_vars

\* The goroutine of a handler was started (event.go:38-43).
Started(h, e) == <<h, e>> \in spawned \/ e \in handled[h]

\* A transaction of a block is pushed after its block, and its goroutines are
\* started after the block's, also after failed calls, lagging answers and
\* restarts.  The goroutines then run in any order (Handle).
BlockBeforeItsTransactions ==
    /\ \A e \in pushed : e.block > 0 => BlockEvent(e.block) \in pushed
    /\ \A g \in spawned : g[2].block > 0 => Started(g[1], BlockEvent(g[2].block))

\* Blocks are reported without gaps, oldest first.
BlocksPushedInOrder ==
    \A e \in pushed : e.tx = NoTx =>
        \A b \in 1 .. e.block : BlockEvent(b) \in pushed

\* Until it is restarted the service reports no block twice, whatever calls
\* fail and even if the node falls behind and reports a lower block number
\* than before, which then is persisted.
NoBlockTwice ==
    [][\A b \in 1 .. MaxBlock :
          restarts = 0 /\ BlockEvent(b) \in pushed
             => events' # Append(events, BlockEvent(b))]_vars

=============================================================================
