--------------------------- MODULE WatchdogProofs ---------------------------
(***************************************************************************)
(* Theorems about the watchdog, for every chain, channel capacity, lag and *)
(* set of failing calls.                                                   *)
(***************************************************************************)
EXTENDS Watchdog, TLAPS

InRound == {"mempool", "pool", "fetch", "txs", "save"}

\* A restart needs a death, and a death an error or a crash: a round that a
\* failed catch-up left unlocked will die, and has paid for it.
Due == IF pc = "dead" \/ (pc \in InRound /\ ~locked) THEN 1 ELSE 0
DeathsPaid == restarts + Due <= errors + crashes

TypeInv == TypeOK /\ DeathsPaid

\* What Push does to the channel and the histories.
LEMMA PushType ==
    ASSUME TypeOK, NEW e \in Event, Push(e)
    PROVE  /\ events' \in Seq(Event) /\ Len(events') <= Cap
           /\ pushed' \subseteq Event
           /\ spawned' = spawned /\ handled' = handled
<1>1. events' \in Seq(Event) /\ Len(events') = Len(events) + 1
  BY DEF TypeOK, Push
<1>2. Len(events') <= Cap
  BY <1>1, WatchdogAssumption DEF Push, TypeOK
<1>3. QED
  BY <1>1, <1>2 DEF Push, TypeOK

\* The events the loop pushes are events.
LEMMA EventTypes ==
    ASSUME TypeOK
    PROVE  /\ BlockEvent(block) \in Event
           /\ \A t \in Tx : TxEvent(t, block) \in Event
<1>1. QED
  BY DEF TypeOK, BlockEvent, TxEvent, Event

\* The initial state has its types.
LEMMA TypeInit == Init => TypeInv
<1> SUFFICES ASSUME Init PROVE TypeInv
  OBVIOUS
<1>2. events \in Seq(Event) /\ Len(events) <= Cap
  <2>1. events = << >>
    BY DEF Init
  <2>2. QED
    BY <2>1, WatchdogAssumption
<1>3. TypeOK
  <2>1. locked \in BOOLEAN
    BY DEF Init
  <2>2. known \subseteq Addresses
    BY WatchdogAssumption DEF Init, Addresses
  <2>3. place \in [Tx -> -1 .. MaxBlock] /\ handled \in [Handlers -> SUBSET Event]
    BY WatchdogAssumption DEF Init
  <2>4. head = 0 /\ lastSeenBlock = 0 /\ currentBlock = 0 /\ block = 0
        /\ persisted = 0 /\ errors = 0 /\ crashes = 0 /\ restarts = 0
        /\ pc = "lock" /\ todo = {} /\ spawned = {} /\ pushed = {}
    BY DEF Init
  <2>5. QED
    BY <1>2, <2>1, <2>2, <2>3, <2>4, WatchdogAssumption DEF TypeOK
<1>4. DeathsPaid
  <2>1. pc = "lock" /\ errors = 0 /\ crashes = 0 /\ restarts = 0
    BY DEF Init
  <2>2. QED
    BY <2>1 DEF DeathsPaid, Due, InRound
<1>5. QED
  BY <1>3, <1>4 DEF TypeInv

\* Every step keeps the types.
LEMMA TypeNext == TypeInv /\ [Next]_vars => TypeInv'
<1> SUFFICES ASSUME TypeInv, [Next]_vars PROVE TypeInv'
  OBVIOUS
<1> USE WatchdogAssumption DEF TypeInv, TypeOK, DeathsPaid, Due, InRound
<1>1. CASE UNCHANGED vars
  BY <1>1 DEF vars, chain, loop, queues
<1>2. ASSUME NEW t \in Tx, Submit(t) PROVE TypeInv'
  BY <1>2 DEF Submit, loop, queues
<1>3. CASE Mine
  BY <1>3 DEF Mine, loop, queues
<1>4. ASSUME NEW a \in Addresses, Indexed(a) PROVE TypeInv'
  BY <1>4 DEF Indexed, chain, loop, queues
<1>5. CASE Lock
  BY <1>5 DEF Lock, chain, queues
<1>6. CASE MemPoolContent
  BY <1>6 DEF MemPoolContent, processMemPool, MinedIn, PoolBlock, chain, queues
<1>7. CASE MemPoolError
  BY <1>7 DEF MemPoolError, Fails, chain, queues
<1>8. ASSUME NEW t \in Tx, processTx(t) PROVE TypeInv'
  <2>1. CASE Push(TxEvent(t, block))
    <3>1. /\ events' \in Seq(Event) /\ Len(events') <= Cap
          /\ pushed' \subseteq Event
          /\ spawned' = spawned /\ handled' = handled
      BY <2>1, PushType, EventTypes
    <3>2. QED
      BY <1>8, <3>1 DEF processTx, chain
  <2>2. CASE UNCHANGED queues
    BY <1>8, <2>2 DEF processTx, chain, queues
  <2>3. QED
    BY <1>8, <2>1, <2>2 DEF processTx
<1>9. CASE BlockNum
  BY <1>9 DEF BlockNum, FirstBlock, chain, queues
<1>10. CASE BlockNumError
  <2>1. locked' \in BOOLEAN
    BY <1>10 DEF BlockNumError
  <2>2. /\ errors' = errors + 1 /\ errors < MaxErrors
        /\ UNCHANGED <<head, place, known, lastSeenBlock, currentBlock, block, todo,
                       events, spawned, handled, pushed, persisted, crashes, restarts>>
        /\ pc' = "lock"
    BY <1>10 DEF BlockNumError, Fails, chain, queues
  <2>3. TypeOK'
    BY <2>1, <2>2
  <2>4. DeathsPaid'
    BY <2>2
  <2>5. QED
    BY <2>3, <2>4
<1>11. CASE BlockByNum
  <2>1. /\ events' \in Seq(Event) /\ Len(events') <= Cap
        /\ pushed' \subseteq Event
        /\ spawned' = spawned /\ handled' = handled
    BY <1>11, PushType, EventTypes DEF BlockByNum
  <2>2. todo' \subseteq Tx
    BY <1>11 DEF BlockByNum, MinedIn
  <2>3. QED
    BY <1>11, <2>1, <2>2 DEF BlockByNum, chain
<1>12. CASE SingleError
  <2>1. locked' \in BOOLEAN
    BY <1>12 DEF SingleError
  <2>2. /\ errors' = errors + 1 /\ errors < MaxErrors
        /\ UNCHANGED <<head, place, known, lastSeenBlock, currentBlock, block, todo,
                       events, spawned, handled, pushed, persisted, crashes, restarts>>
        /\ pc' = "lock"
    BY <1>12 DEF SingleError, Fails, chain, queues
  <2>3. TypeOK'
    BY <2>1, <2>2
  <2>4. DeathsPaid'
    BY <2>2
  <2>5. QED
    BY <2>3, <2>4
<1>13. CASE CatchUpError
  <2>1. CASE locked
    <3>1. locked' \in BOOLEAN
      BY <1>13, <2>1 DEF CatchUpError
    <3>2. NextBlock
      BY <1>13, <2>1 DEF CatchUpError
    <3>3. /\ errors' = errors + 1 /\ errors < MaxErrors
          /\ UNCHANGED <<head, place, known, currentBlock, todo, events, spawned,
                         handled, pushed, persisted, crashes, restarts>>
      BY <1>13 DEF CatchUpError, Fails, chain, queues
    <3>4. /\ pc' \in {"fetch", "save"}
          /\ lastSeenBlock' \in 0 .. MaxBlock /\ block' \in 0 .. MaxBlock
      BY <3>2 DEF NextBlock
    <3>5. TypeOK'
      BY <3>1, <3>3, <3>4
    <3>6. DeathsPaid'
      BY <1>13, <2>1, <3>3, <3>4 DEF CatchUpError
    <3>7. QED
      BY <3>5, <3>6
  <2>2. CASE ~locked
    BY <1>13, <2>2 DEF CatchUpError, Fails, Die, chain, queues
  <2>3. QED
    BY <2>1, <2>2
<1>14. CASE BlockDone
  BY <1>14 DEF BlockDone, UpdateState, NextBlock, chain, queues
<1>15. CASE EndRound
  BY <1>15 DEF EndRound, UpdateState, Die, chain, queues
<1>16. CASE eventLoop
  <2>1. Head(events) \in Event
    BY <1>16 DEF eventLoop
  <2>2. events' \in Seq(Event) /\ Len(events') <= Cap
    BY <1>16 DEF eventLoop
  <2>3. spawned' \subseteq Handlers \X Event
    BY <1>16, <2>1 DEF eventLoop
  <2>4. QED
    BY <1>16, <2>2, <2>3 DEF eventLoop, chain, loop
<1>17. ASSUME NEW g \in spawned, Handle(g[1], g[2]) PROVE TypeInv'
  <2>1. g[1] \in Handlers /\ g[2] \in Event
    OBVIOUS
  <2>2. handled' \in [Handlers -> SUBSET Event]
    BY <1>17, <2>1 DEF Handle
  <2>3. spawned' \subseteq Handlers \X Event
    BY <1>17 DEF Handle
  <2>4. QED
    BY <1>17, <2>2, <2>3 DEF Handle, chain, loop
<1>18. CASE Crash
  BY <1>18 DEF Crash, Die, chain, queues
<1>19. CASE Run
  <2>1. events' \in Seq(Event) /\ Len(events') <= Cap
    BY <1>19 DEF Run
  <2>2. locked' \in BOOLEAN
    BY <1>19 DEF Run
  <2>3. QED
    BY <1>19, <2>1, <2>2 DEF Run, chain
<1>20. QED
  BY <1>1, <1>2, <1>3, <1>4, <1>5, <1>6, <1>7, <1>8, <1>9, <1>10, <1>11, <1>12,
     <1>13, <1>14, <1>15, <1>16, <1>17, <1>18, <1>19 DEF Next, runLoop

\* The channel never holds more than its capacity, the counters stay in
\* range and a restart happens only after an error or a crash
\* (watchdog/runloop.go:11-78, watchdog.go:98-129).
THEOREM TypeCorrect == Spec => []TypeOK
<1>1. Spec => []TypeInv
  BY TypeInit, TypeNext, PTL DEF Spec
<1>2. TypeInv => TypeOK
  BY DEF TypeInv
<1>3. QED
  BY <1>1, <1>2, PTL

-----------------------------------------------------------------------------
(* The events are true of the chain.                                        *)

\* With the transactions at `where', t was pending at some time (b = 0), or is
\* in block b.
HappenedTo(where, t, b) == IF b = 0 THEN where[t] >= 0 ELSE where[t] = b

\* What an event says is true of a chain of this height.
IsTrue(e, height, where) ==
    e.block <= height /\ (e.tx # NoTx => HappenedTo(where, e.tx, e.block))

\* The loop works on numbers the node once reported, and its list of
\* transactions fits the block it will name in their events.
LoopBehindChain == currentBlock <= head /\ block <= head
ListIsTrue ==
    pc \in {"pool", "txs"} => \A t \in todo : HappenedTo(place, t, block)
EventsAreTrue == \A e \in pushed : IsTrue(e, head, place)
TruthInv == LoopBehindChain /\ ListIsTrue /\ EventsAreTrue

\* A step of the chain makes nothing untrue.
LEMMA ChainKeepsTruth ==
    ASSUME TypeOK, \/ \E t \in Tx : Submit(t)
                   \/ Mine
    PROVE  /\ head <= head'
           /\ \A t \in Tx, b \in 0 .. MaxBlock :
                  HappenedTo(place, t, b) => HappenedTo(place', t, b)
<1>1. ASSUME NEW u \in Tx, Submit(u)
      PROVE  /\ head <= head'
             /\ \A t \in Tx, b \in 0 .. MaxBlock :
                    HappenedTo(place, t, b) => HappenedTo(place', t, b)
  BY <1>1 DEF Submit, HappenedTo, TypeOK
<1>2. ASSUME Mine
      PROVE  /\ head <= head'
             /\ \A t \in Tx, b \in 0 .. MaxBlock :
                    HappenedTo(place, t, b) => HappenedTo(place', t, b)
  BY <1>2 DEF Mine, HappenedTo, TypeOK
<1>3. QED
  BY <1>1, <1>2

\* The invariant as a whole survives a step of the chain.
LEMMA TruthChain ==
    ASSUME TypeOK, TypeOK', TruthInv,
           \/ \E t \in Tx : Submit(t)
           \/ Mine
    PROVE  TruthInv'
<1>1. /\ head <= head'
      /\ \A t \in Tx, b \in 0 .. MaxBlock :
             HappenedTo(place, t, b) => HappenedTo(place', t, b)
  BY ChainKeepsTruth
<1>2. UNCHANGED <<pc, todo, block, currentBlock, pushed>>
  BY DEF Submit, Mine, loop, queues
<1>n. head \in Int /\ head' \in Int /\ block \in Int /\ currentBlock \in Int
  BY DEF TypeOK
<1>3. LoopBehindChain'
  BY <1>1, <1>2, <1>n DEF TruthInv, LoopBehindChain
<1>4. ListIsTrue'
  BY <1>1, <1>2 DEF TruthInv, ListIsTrue, TypeOK
<1>5. ASSUME NEW e \in pushed PROVE IsTrue(e, head', place')
  <2>1. e.block \in 0 .. MaxBlock /\ e.tx \in Tx \cup {NoTx}
    BY DEF TypeOK, Event
  <2>2. IsTrue(e, head, place)
    BY DEF TruthInv, EventsAreTrue
  <2>3. QED
    BY <1>1, <1>n, <2>1, <2>2 DEF IsTrue
<1>6. QED
  BY <1>2, <1>3, <1>4, <1>5 DEF TruthInv, EventsAreTrue

\* The initial state is true.
LEMMA TruthInit == Init => TruthInv
<1>1. QED
  BY DEF Init, TruthInv, LoopBehindChain, ListIsTrue, EventsAreTrue

\* Every step keeps the events true.
LEMMA TruthNext == TypeOK /\ TypeOK' /\ TruthInv /\ [Next]_vars => TruthInv'
<1> SUFFICES ASSUME TypeOK, TypeOK', TruthInv, [Next]_vars PROVE TruthInv'
  OBVIOUS
<1> USE DEF TruthInv, LoopBehindChain, ListIsTrue, EventsAreTrue
<1>1. CASE UNCHANGED vars
  BY <1>1 DEF vars, chain, loop, queues
<1>2. CASE (\E t \in Tx : Submit(t)) \/ Mine
  BY <1>2, TruthChain
<1>3. ASSUME NEW a \in Addresses, Indexed(a) PROVE TruthInv'
  BY <1>3 DEF Indexed, chain, loop, queues
<1>4. CASE Lock
  BY <1>4 DEF Lock, chain, queues
<1>5. CASE MemPoolContent
  <2>1. \A t \in todo' : HappenedTo(place, t, 0)
    BY <1>5 DEF MemPoolContent, processMemPool, MinedIn, HappenedTo
  <2>2. QED
    BY <1>5, <2>1 DEF MemPoolContent, PoolBlock, TypeOK, chain, queues
<1>6. CASE MemPoolError
  BY <1>6 DEF MemPoolError, chain, queues
<1>7. ASSUME NEW t \in Tx, processTx(t) PROVE TruthInv'
  <2>1. pushed' \subseteq pushed \cup {TxEvent(t, block)}
    BY <1>7 DEF processTx, Push, queues
  <2>2. IsTrue(TxEvent(t, block), head, place)
    BY <1>7 DEF processTx, IsTrue, TxEvent
  <2>3. QED
    BY <1>7, <2>1, <2>2 DEF processTx, chain
<1>8. CASE BlockNum
  <2>1. currentBlock' \in 0 .. head
    BY <1>8 DEF BlockNum
  <2>2. block' <= head
    BY <1>8, <2>1 DEF BlockNum, FirstBlock, TypeOK
  <2>3. QED
    BY <1>8, <2>1, <2>2 DEF BlockNum, TypeOK, chain, queues
<1>9. CASE BlockNumError
  BY <1>9 DEF BlockNumError, chain, queues
<1>10. CASE BlockByNum
  <2>1. pushed' = pushed \cup {BlockEvent(block)}
    BY <1>10 DEF BlockByNum, Push
  <2>2. IsTrue(BlockEvent(block), head, place)
    BY DEF IsTrue, BlockEvent
  <2>3. todo' \subseteq MinedIn(block)
    BY <1>10 DEF BlockByNum
  <2>4. \A t \in todo' : HappenedTo(place, t, block)
    <3>1. \A t \in todo' : place[t] = block
      BY <2>3 DEF MinedIn
    <3>2. block \in Nat
      BY DEF TypeOK
    <3>3. QED
      BY <3>1, <3>2 DEF HappenedTo
  <2>5. QED
    BY <1>10, <2>1, <2>2, <2>4 DEF BlockByNum, chain
<1>11. CASE SingleError
  BY <1>11 DEF SingleError, chain, queues
<1>12. CASE CatchUpError
  <2>1. block' <= head /\ pc' \notin {"pool", "txs"}
    BY <1>12 DEF CatchUpError, NextBlock, Die, TypeOK
  <2>2. QED
    BY <1>12, <2>1 DEF CatchUpError, chain, queues
<1>13. CASE BlockDone
  <2>1. block' <= head /\ pc' \notin {"pool", "txs"}
    BY <1>13 DEF BlockDone, NextBlock, TypeOK
  <2>2. QED
    BY <1>13, <2>1 DEF BlockDone, chain, queues
<1>14. CASE EndRound
  BY <1>14 DEF EndRound, Die, chain, queues
<1>15. CASE eventLoop
  BY <1>15 DEF eventLoop, chain, loop
<1>16. ASSUME NEW g \in spawned, Handle(g[1], g[2]) PROVE TruthInv'
  BY <1>16 DEF Handle, chain, loop
<1>17. CASE Crash
  BY <1>17 DEF Crash, Die, chain, queues
<1>18. CASE Run
  BY <1>18 DEF Run, chain, TypeOK
<1>19. QED
  BY <1>1, <1>2, <1>3, <1>4, <1>5, <1>6, <1>7, <1>8, <1>9, <1>10, <1>11, <1>12,
     <1>13, <1>14, <1>15, <1>16, <1>17, <1>18 DEF Next, runLoop

\* No event names a block or a transaction of the chain wrongly, whatever
\* calls fail, however far the node is behind and however often the service
\* is restarted (watchdog/processblock.go:7-32, processtx.go:11-35).
THEOREM NoPhantoms == Spec => []NoPhantomEvent
<1>1. Init => TypeInv /\ TruthInv
  BY TypeInit, TruthInit
<1>2. TypeInv /\ TruthInv /\ [Next]_vars => (TypeInv /\ TruthInv)'
  BY TypeNext, TruthNext DEF TypeInv
<1>3. TruthInv => NoPhantomEvent
  BY DEF TruthInv, EventsAreTrue, IsTrue, HappenedTo, NoPhantomEvent
<1>4. QED
  BY <1>1, <1>2, <1>3, PTL DEF Spec

-----------------------------------------------------------------------------
(***************************************************************************)
(* A block is announced before its transactions, by the pushes and by the  *)
(* goroutines.  The channel keeps the order of the pushes: whatever        *)
(* transaction is in it, its block is before it or has left the channel.   *)
(***************************************************************************)
CameIn(sp, hd, q, h, b, n) ==
    \/ <<h, BlockEvent(b)>> \in sp \/ BlockEvent(b) \in hd[h]
    \/ \E j \in 1 .. n : j <= Len(q) /\ q[j] = BlockEvent(b)

\* Of block b: its goroutine for h was started, or it is among the first n
\* events of the channel; now and after the step.
Came(h, b, n) == CameIn(spawned, handled, events, h, b, n)
CameThen(h, b, n) == CameIn(spawned', handled', events', h, b, n)
StartedThen(h, e) == <<h, e>> \in spawned' \/ e \in handled'[h]

QueueInOrder ==
    \A h \in Handlers, i \in 1 .. Len(events) :
        events[i].block > 0 => Came(h, events[i].block, i)

AnnouncedInv ==
    /\ pc = "pool" => block = 0
    /\ pc = "txs" => BlockEvent(block) \in pushed
    /\ pc = "txs" => \A h \in Handlers : Came(h, block, Len(events))
    /\ QueueInOrder
    /\ BlockBeforeItsTransactions

\* A push keeps the order: it is of a block, of no block, or of the block the
\* loop is at.
LEMMA PushInOrder ==
    ASSUME TypeOK, AnnouncedInv, NEW e \in Event, Push(e),
           \/ e = BlockEvent(e.block) \/ e.block = 0
           \/ pc = "txs" /\ e.block = block
    PROVE  /\ BlockBeforeItsTransactions' /\ QueueInOrder'
           /\ \A h \in Handlers : Came(h, e.block, Len(events))
                 => CameThen(h, e.block, Len(events'))
           /\ e = BlockEvent(e.block)
                 => \A h \in Handlers : CameThen(h, e.block, Len(events'))
<1>1. /\ events \in Seq(Event) /\ events' = Append(events, e)
      /\ Len(events) \in Nat /\ Len(events') = Len(events) + 1
      /\ \A j \in 1 .. Len(events) : events'[j] = events[j]
      /\ events'[Len(events')] = e
      /\ spawned' = spawned /\ handled' = handled /\ pushed' = pushed \cup {e}
  BY DEF Push, TypeOK
<1>2. ASSUME NEW h \in Handlers, NEW b, NEW n \in 0 .. Len(events), Came(h, b, n)
      PROVE  \A m \in n .. Len(events') : CameThen(h, b, m)
  <2>1. CASE Started(h, BlockEvent(b))
    BY <1>1, <2>1 DEF Came, CameThen, CameIn, Started, StartedThen
  <2>2. CASE ~Started(h, BlockEvent(b))
    <3>1. PICK j \in 1 .. n : j <= Len(events) /\ events[j] = BlockEvent(b)
      BY <1>2, <2>2 DEF Came, CameThen, CameIn, Started, StartedThen
    <3>2. j <= Len(events') /\ events'[j] = BlockEvent(b)
      BY <1>1, <3>1
    <3>3. ASSUME NEW m \in n .. Len(events') PROVE CameThen(h, b, m)
      <4>1. j \in 1 .. m
        BY <1>1, <3>1
      <4>2. QED
        BY <3>2, <4>1 DEF Came, CameThen, CameIn, BlockEvent
    <3>4. QED
      BY <3>3
  <2>3. QED
    BY <2>1, <2>2
<1>3. ASSUME e = BlockEvent(e.block), NEW h \in Handlers
      PROVE  CameThen(h, e.block, Len(events'))
  <2>1. Len(events') \in 1 .. Len(events') /\ events'[Len(events')] = BlockEvent(e.block)
    BY <1>1, <1>3
  <2>2. QED
    BY <2>1 DEF Came, CameThen, CameIn, BlockEvent
<1>4. QueueInOrder'
  <2> SUFFICES ASSUME NEW h \in Handlers, NEW i \in 1 .. Len(events'),
                      events'[i].block > 0
               PROVE  CameThen(h, events'[i].block, i)
    BY DEF QueueInOrder, Came, CameThen, CameIn, Started, StartedThen, BlockEvent
  <2>1. CASE i \in 1 .. Len(events)
    <3>1. events'[i] = events[i] /\ Came(h, events[i].block, i)
      BY <1>1, <2>1 DEF AnnouncedInv, QueueInOrder
    <3>2. i \in 0 .. Len(events) /\ i \in i .. Len(events')
      BY <1>1, <2>1
    <3>3. CameThen(h, events[i].block, i)
      BY <1>2, <3>1, <3>2
    <3>4. QED
      BY <3>1, <3>3
  <2>2. CASE i = Len(events')
    <3>1. CASE e = BlockEvent(e.block)
      BY <1>1, <1>3, <2>2, <3>1 DEF Came, CameThen, CameIn, Started, StartedThen, BlockEvent
    <3>2. CASE pc = "txs" /\ e.block = block
      <4>1. Came(h, e.block, Len(events))
        BY <3>2 DEF AnnouncedInv
      <4>2. Len(events) \in 0 .. Len(events) /\ i \in Len(events) .. Len(events')
        BY <1>1, <2>2
      <4>3. CameThen(h, e.block, i)
        BY <1>2, <4>1, <4>2
      <4>4. QED
        BY <1>1, <2>2, <4>3 DEF Came, CameThen, CameIn, Started, StartedThen, BlockEvent
    <3>3. QED
      BY <1>1, <2>2, <3>1, <3>2
  <2>3. QED
    BY <1>1, <2>1, <2>2
<1>5. BlockBeforeItsTransactions'
  <2>1. e.block > 0 => BlockEvent(e.block) \in pushed'
    BY <1>1 DEF AnnouncedInv
  <2>2. QED
    BY <1>1, <2>1 DEF AnnouncedInv, BlockBeforeItsTransactions, Started, StartedThen
<1>6. ASSUME NEW h \in Handlers, Came(h, e.block, Len(events))
      PROVE  CameThen(h, e.block, Len(events'))
  <2>1. Len(events) \in 0 .. Len(events) /\ Len(events') \in Len(events) .. Len(events')
    BY <1>1
  <2>2. CameThen(h, e.block, Len(events'))
    BY <1>2, <1>6, <2>1
  <2>3. QED
    BY <2>2 DEF Came, CameThen, CameIn
<1>7. QED
  BY <1>3, <1>4, <1>5, <1>6

\* Running a goroutine keeps the order: it stays a started one.
LEMMA HandleKeepsOrder ==
    ASSUME TypeOK, AnnouncedInv, NEW g \in spawned, Handle(g[1], g[2])
    PROVE  AnnouncedInv'
<1>1. UNCHANGED <<pc, block, pushed, events>>
  BY DEF Handle, loop
<1>2. g = <<g[1], g[2]>> /\ g[1] \in Handlers
  BY DEF TypeOK
<1>3. ASSUME NEW h \in Handlers, NEW e, Started(h, e) PROVE StartedThen(h, e)
  BY <1>2, <1>3 DEF Started, StartedThen, Handle, TypeOK
<1>4. spawned' \subseteq spawned /\ \A k \in spawned : k[1] \in Handlers
  BY DEF Handle, TypeOK
<1>5. ASSUME NEW h \in Handlers, NEW b, NEW n, Came(h, b, n) PROVE CameThen(h, b, n)
  BY <1>1, <1>3, <1>5 DEF Came, CameThen, CameIn, Started, StartedThen
<1>6. QueueInOrder'
  BY <1>1, <1>5 DEF AnnouncedInv, QueueInOrder, Came, CameThen, CameIn, Started, StartedThen, BlockEvent
<1>7. BlockBeforeItsTransactions'
  BY <1>1, <1>3, <1>4 DEF AnnouncedInv, BlockBeforeItsTransactions, Started, StartedThen, BlockEvent
<1>8. pc' = "txs" => \A h \in Handlers : CameThen(h, block, Len(events'))
  BY <1>1, <1>5 DEF AnnouncedInv, Came, CameThen, CameIn, Started, StartedThen, BlockEvent
<1>9. QED
  BY <1>1, <1>6, <1>7, <1>8 DEF AnnouncedInv, Came, CameThen

\* Starting the goroutines of the oldest event keeps the order.
LEMMA EventLoopKeepsOrder ==
    ASSUME TypeOK, AnnouncedInv, eventLoop
    PROVE  AnnouncedInv'
<1>1. /\ UNCHANGED <<pc, block, pushed, handled>>
      /\ events' = Tail(events) /\ events \in Seq(Event) /\ events # <<>>
      /\ spawned' = spawned \cup {<<h, events[1]>> : h \in Handlers}
  BY DEF eventLoop, loop, TypeOK
<1>2. /\ Len(events) \in Nat /\ Len(events) > 0 /\ Len(events') = Len(events) - 1
      /\ \A i \in 1 .. Len(events') : events'[i] = events[i + 1]
  BY <1>1
<1>3. ASSUME NEW h \in Handlers, NEW e, Started(h, e) PROVE StartedThen(h, e)
  BY <1>1, <1>3 DEF Started, StartedThen
<1>4. \A h \in Handlers : StartedThen(h, events[1])
  BY <1>1 DEF Started, StartedThen
<1>5. ASSUME NEW h \in Handlers, NEW b, NEW n \in 1 .. Len(events), Came(h, b, n)
      PROVE  CameThen(h, b, n - 1)
  <2>1. CASE Started(h, BlockEvent(b))
    BY <1>3, <2>1 DEF Came, CameThen, CameIn, Started, StartedThen
  <2>2. ASSUME NEW j \in 1 .. n, events[j] = BlockEvent(b) PROVE CameThen(h, b, n - 1)
    <3>1. CASE j = 1
      <4>1. StartedThen(h, BlockEvent(b))
        BY <1>4, <2>2, <3>1 DEF BlockEvent
      <4>2. QED
        BY <4>1 DEF Came, CameThen, CameIn, Started, StartedThen
    <3>2. CASE j # 1
      <4>1. j - 1 \in 1 .. n - 1 /\ j - 1 \in 1 .. Len(events')
        BY <1>2, <2>2, <3>2
      <4>2. events'[j - 1] = BlockEvent(b)
        BY <1>2, <2>2, <4>1
      <4>3. QED
        BY <4>1, <4>2 DEF Came, CameThen, CameIn, BlockEvent
    <3>3. QED
      BY <3>1, <3>2
  <2>3. QED
    BY <1>5, <2>1, <2>2 DEF Came, CameThen, CameIn, Started, StartedThen
<1>6. QueueInOrder'
  <2> SUFFICES ASSUME NEW h \in Handlers, NEW i \in 1 .. Len(events'),
                      events'[i].block > 0
               PROVE  CameThen(h, events'[i].block, i)
    BY DEF QueueInOrder, Came, CameThen, CameIn, Started, StartedThen, BlockEvent
  <2>1. i + 1 \in 1 .. Len(events) /\ events'[i] = events[i + 1]
    BY <1>2
  <2>2. Came(h, events[i + 1].block, i + 1)
    BY <2>1 DEF AnnouncedInv, QueueInOrder
  <2>3. CameThen(h, events[i + 1].block, (i + 1) - 1)
    BY <1>5, <2>1, <2>2
  <2>4. (i + 1) - 1 = i
    OBVIOUS
  <2>5. QED
    BY <2>1, <2>3, <2>4 DEF Came, CameThen, CameIn, Started, StartedThen, BlockEvent
<1>7. ASSUME NEW h \in Handlers, events[1].block > 0
      PROVE  StartedThen(h, BlockEvent(events[1].block))
  <2>1. 1 \in 1 .. Len(events)
    BY <1>2
  <2>2. Came(h, events[1].block, 1)
    BY <1>7, <2>1 DEF AnnouncedInv, QueueInOrder
  <2>3. CASE Started(h, BlockEvent(events[1].block))
    BY <1>3, <2>3
  <2>4. CASE events[1] = BlockEvent(events[1].block)
    BY <1>4, <2>4
  <2>5. QED
    BY <2>2, <2>3, <2>4 DEF Came, CameThen, CameIn, Started, StartedThen
<1>8. BlockBeforeItsTransactions'
  <2>1. ASSUME NEW g \in spawned', g[2].block > 0
        PROVE  StartedThen(g[1], BlockEvent(g[2].block))
    <3>1. CASE g \in spawned
      <4>1. g[1] \in Handlers /\ Started(g[1], BlockEvent(g[2].block))
        BY <2>1, <3>1 DEF AnnouncedInv, BlockBeforeItsTransactions, TypeOK
      <4>2. QED
        BY <1>3, <4>1
    <3>2. CASE \E h \in Handlers : g = <<h, events[1]>>
      BY <1>7, <2>1, <3>2
    <3>3. QED
      BY <1>1, <3>1, <3>2
  <2>2. QED
    BY <1>1, <2>1 DEF AnnouncedInv, BlockBeforeItsTransactions, Started, StartedThen, BlockEvent
<1>9. pc' = "txs" => \A h \in Handlers : CameThen(h, block, Len(events'))
  <2> SUFFICES ASSUME pc = "txs", NEW h \in Handlers PROVE CameThen(h, block, Len(events'))
    BY <1>1
  <2>1. Came(h, block, Len(events)) /\ Len(events) \in 1 .. Len(events)
    BY <1>2 DEF AnnouncedInv
  <2>2. CameThen(h, block, Len(events) - 1)
    BY <1>5, <2>1
  <2>3. QED
    BY <1>1, <1>2, <2>2 DEF Came, CameThen, CameIn, Started, StartedThen, BlockEvent
<1>10. QED
  BY <1>1, <1>6, <1>8, <1>9 DEF AnnouncedInv, Came, CameThen

\* Every step keeps the announcements first.
LEMMA AnnouncedNext == TypeOK /\ AnnouncedInv /\ [Next]_vars => AnnouncedInv'
<1> SUFFICES ASSUME TypeOK, AnnouncedInv, [Next]_vars PROVE AnnouncedInv'
  OBVIOUS
<1>1. ASSUME UNCHANGED queues, UNCHANGED block \/ pc' # "txs",
             pc' = "pool" => block' = 0, pc' = "txs" => pc = "txs"
      PROVE  AnnouncedInv'
  BY <1>1 DEF AnnouncedInv, queues, QueueInOrder, BlockBeforeItsTransactions,
              Came, Started, BlockEvent
<1>2. CASE UNCHANGED <<pc, block, queues>>
  BY <1>1, <1>2 DEF AnnouncedInv
<1>3. CASE pc' \notin {"pool", "txs"} /\ UNCHANGED queues
  BY <1>1, <1>3
<1>4. CASE MemPoolContent
  BY <1>1, <1>4 DEF MemPoolContent, PoolBlock
<1>5. ASSUME NEW t \in Tx, processTx(t) PROVE AnnouncedInv'
  <2>1. CASE UNCHANGED queues
    BY <1>2, <1>5, <2>1 DEF processTx
  <2>2. CASE Push(TxEvent(t, block))
    <3>1. TxEvent(t, block).block = block /\ TxEvent(t, block) \in Event
      BY EventTypes DEF TxEvent
    <3>2. pc \in {"pool", "txs"} /\ pc' = pc /\ block' = block
      BY <1>5 DEF processTx
    <3>3. pc = "pool" => block = 0
      BY DEF AnnouncedInv
    <3> HIDE DEF AnnouncedInv
    <3>4. BlockBeforeItsTransactions' /\ QueueInOrder'
      BY <2>2, <3>1, <3>2, <3>3, PushInOrder
    <3>5. \A h \in Handlers : Came(h, block, Len(events))
                 => CameThen(h, block, Len(events'))
      BY <2>2, <3>1, <3>2, <3>3, PushInOrder
    <3>6. pushed \subseteq pushed'
      BY <2>2 DEF Push
    <3>7. QED
      BY <3>2, <3>4, <3>5, <3>6 DEF AnnouncedInv, Came, CameThen, CameIn, Started, StartedThen, BlockEvent
  <2>3. QED
    BY <1>5, <2>1, <2>2 DEF processTx
<1>6. CASE BlockByNum
  <2>1. Push(BlockEvent(block)) /\ block' = block /\ pc' = "txs"
    BY <1>6 DEF BlockByNum
  <2>2. BlockEvent(block).block = block /\ BlockEvent(block) \in Event
    BY EventTypes DEF BlockEvent
  <2>3. /\ BlockBeforeItsTransactions' /\ QueueInOrder'
        /\ \A h \in Handlers : CameThen(h, block, Len(events'))
    BY <2>1, <2>2, PushInOrder
  <2>4. BlockEvent(block) \in pushed'
    BY <2>1 DEF Push
  <2>5. QED
    BY <2>1, <2>3, <2>4 DEF AnnouncedInv, Came, CameThen, CameIn, Started, StartedThen, BlockEvent
<1>7. CASE CatchUpError \/ BlockDone \/ EndRound
  <2>1. pc' \notin {"pool", "txs"} /\ UNCHANGED queues
    BY <1>7 DEF CatchUpError, BlockDone, EndRound, NextBlock, Die
  <2>2. QED
    BY <1>3, <2>1
<1>8. CASE Run
  <2>1. /\ pc' = "lock" /\ events' = <<>> /\ spawned' = {} /\ pushed' = pushed
    BY <1>8 DEF Run
  <2>2. Len(events') = 0
    BY <2>1
  <2>3. QED
    BY <2>1, <2>2 DEF AnnouncedInv, QueueInOrder, BlockBeforeItsTransactions
<1>9. CASE runLoop
  BY <1>2, <1>3, <1>4, <1>5, <1>6, <1>7, <1>9
     DEF runLoop, Lock, MemPoolError, BlockNum, BlockNumError, SingleError
<1>10. CASE Crash
  BY <1>3, <1>10 DEF Crash, Die
<1>11. CASE UNCHANGED vars \/ Mine \/ (\E t \in Tx : Submit(t))
            \/ (\E a \in Addresses : Indexed(a))
  BY <1>2, <1>11 DEF vars, loop, Submit, Mine, Indexed
<1>12. QED
  BY <1>8, <1>9, <1>10, <1>11, HandleKeepsOrder, EventLoopKeepsOrder DEF Next

\* Whatever fails, the event of a transaction in a block is queued after the
\* event of the block (watchdog/processblock.go:20-31), and a handler's
\* goroutine for it is started after the one for the block (event.go:34-48).
THEOREM BlocksComeFirst == Spec => []BlockBeforeItsTransactions
<1>1. Init => TypeInv /\ AnnouncedInv
  <2>1. Init => Len(events) = 0
    BY DEF Init
  <2>2. QED
    BY <2>1, TypeInit DEF Init, AnnouncedInv, QueueInOrder, BlockBeforeItsTransactions
<1>2. TypeInv /\ AnnouncedInv /\ [Next]_vars => (TypeInv /\ AnnouncedInv)'
  BY TypeNext, AnnouncedNext DEF TypeInv
<1>3. AnnouncedInv => BlockBeforeItsTransactions
  BY DEF AnnouncedInv
<1>4. QED
  BY <1>1, <1>2, <1>3, PTL DEF Spec

-----------------------------------------------------------------------------
(* The state file is never ahead of the work, for a node that answers up to *)
(* date and a catch-up that does not fail.                                  *)

\* Block b is covered by the events of `done' if the transactions are at
\* `where': nothing of it is missing.
Covered(b, done, where) ==
    /\ BlockEvent(b) \in done
    /\ \A t \in Watched : where[t] = b => TxEvent(t, b) \in done

\* What is missing of the block in work is on the list.
ListIsComplete ==
    /\ BlockEvent(block) \in pushed
    /\ \A t \in Watched : place[t] = block => t \in todo \/ TxEvent(t, block) \in pushed

CoveredInv ==
    /\ persisted <= head /\ lastSeenBlock <= head
    /\ KnownAtStart \subseteq known
    /\ \A b \in 1 .. persisted : Covered(b, pushed, place)
    /\ \A b \in 1 .. lastSeenBlock : Covered(b, pushed, place)
    /\ pc \in {"fetch", "txs"} =>
         /\ lastSeenBlock < block /\ block <= currentBlock /\ currentBlock <= head
         /\ \A b \in 1 .. block - 1 : Covered(b, pushed, place)
    /\ pc = "txs" => ListIsComplete
    /\ pc = "save" => currentBlock <= lastSeenBlock

\* The initial state has nothing to cover.
LEMMA CoveredInit == Init => CoveredInv
<1>1. QED
  BY DEF Init, CoveredInv

\* More events, and transactions mined into later blocks, uncover nothing.
LEMMA CoveredGrows ==
    ASSUME NEW b, NEW done, NEW more, NEW where, NEW there,
           done \subseteq more,
           \A t \in Tx : there[t] = b => where[t] = b,
           Covered(b, done, where)
    PROVE  Covered(b, more, there)
<1>1. QED
  BY DEF Covered, Watched

\* A step that changes only what the chain or the other goroutines own.
LEMMA CoveredOther ==
    ASSUME TypeOK, TypeOK', CoveredInv,
           head <= head', known \subseteq known', pushed \subseteq pushed',
           \A t \in Tx, b \in 0 .. head : place'[t] = b => b < 1 \/ place[t] = b,
           UNCHANGED <<lastSeenBlock, currentBlock, block, persisted>>,
           \/ UNCHANGED <<pc, todo>>
           \/ pc' \in {"lock", "mempool", "pool", "dead"}
    PROVE  CoveredInv'
<1>1. head \in Nat /\ head' \in Nat /\ lastSeenBlock \in Nat /\ currentBlock \in Nat
      /\ block \in Nat /\ persisted \in Nat
  BY DEF TypeOK
<1>2. ASSUME NEW b \in 1 .. head, Covered(b, pushed, place)
      PROVE  Covered(b, pushed', place')
  BY <1>1, <1>2, CoveredGrows
<1>3. persisted' <= head' /\ lastSeenBlock' <= head' /\ KnownAtStart \subseteq known'
  BY <1>1 DEF CoveredInv
<1>4. /\ \A b \in 1 .. persisted' : Covered(b, pushed', place')
      /\ \A b \in 1 .. lastSeenBlock' : Covered(b, pushed', place')
  BY <1>1, <1>2 DEF CoveredInv
<1>5. ASSUME pc' \in {"fetch", "txs"}
      PROVE  /\ lastSeenBlock' < block' /\ block' <= currentBlock' /\ currentBlock' <= head'
             /\ \A b \in 1 .. block' - 1 : Covered(b, pushed', place')
  BY <1>1, <1>2, <1>5 DEF CoveredInv
<1>6. ASSUME pc' = "txs" PROVE ListIsComplete'
  <2>1. ListIsComplete /\ todo' = todo /\ block \in 1 .. head
    BY <1>1, <1>6 DEF CoveredInv
  <2>2. \A t \in Watched : place'[t] = block => place[t] = block
    BY <1>1, <2>1 DEF Watched
  <2>3. QED
    BY <2>1, <2>2 DEF ListIsComplete
<1>7. pc' = "save" => currentBlock' <= lastSeenBlock'
  BY DEF CoveredInv
<1>8. QED
  BY <1>3, <1>4, <1>5, <1>6, <1>7 DEF CoveredInv

\* Every step keeps the blocks covered.
LEMMA CoveredNext ==
    ASSUME Lag = 0, "catchup" \notin FailingCalls,
           TypeOK, TypeOK', CoveredInv, [Next]_vars
    PROVE  CoveredInv'
<1> DEFINE Numbers == /\ head \in Nat /\ lastSeenBlock \in Nat /\ currentBlock \in Nat
                      /\ block \in Nat /\ persisted \in Nat
<1>n. Numbers
  BY DEF TypeOK
<1>1. CASE UNCHANGED vars
  BY <1>1, <1>n, CoveredOther DEF vars, chain, loop, queues
<1>2. ASSUME NEW t \in Tx, Submit(t) PROVE CoveredInv'
  <2>1. \A u \in Tx, b \in 0 .. head : place'[u] = b => b < 1 \/ place[u] = b
    BY <1>2 DEF Submit, TypeOK
  <2>2. QED
    BY <1>2, <1>n, <2>1, CoveredOther DEF Submit, loop, queues
<1>3. CASE Mine
  <2>1. \A u \in Tx, b \in 0 .. head : place'[u] = b => b < 1 \/ place[u] = b
    BY <1>3, <1>n DEF Mine, TypeOK
  <2>2. head <= head'
    BY <1>3, <1>n DEF Mine
  <2>3. QED
    BY <1>3, <2>1, <2>2, CoveredOther DEF Mine, loop, queues
<1>4. ASSUME NEW a \in Addresses, Indexed(a) PROVE CoveredInv'
  BY <1>4, <1>n, CoveredOther DEF Indexed, chain, loop, queues
<1>5. CASE Lock \/ MemPoolError \/ BlockNumError \/ SingleError \/ Crash
  BY <1>5, <1>n, CoveredOther
     DEF Lock, MemPoolError, BlockNumError, SingleError, Crash, Die, chain, queues
<1>6. CASE MemPoolContent
  BY <1>6, <1>n DEF MemPoolContent, CoveredInv, chain, queues
<1>7. ASSUME NEW t \in Tx, processTx(t) PROVE CoveredInv'
  <2>1. pushed \subseteq pushed'
    BY <1>7 DEF processTx, Push, queues
  <2>2. CASE pc = "pool"
    BY <1>7, <1>n, <2>1, <2>2, CoveredOther DEF processTx, chain
  <2>3. CASE pc = "txs"
    <3>1. ListIsComplete
      BY <2>3 DEF CoveredInv
    <3>2. t \in Watched => TxEvent(t, block) \in pushed'
      BY <1>7 DEF processTx, Push, Watched, CoveredInv
    <3>3. ListIsComplete'
      BY <1>7, <2>1, <3>1, <3>2 DEF processTx, ListIsComplete, chain
    <3>4. \A b : Covered(b, pushed, place) => Covered(b, pushed', place')
      BY <1>7, <2>1, CoveredGrows DEF processTx, chain
    <3>5. UNCHANGED <<head, known, pc, lastSeenBlock, currentBlock, block, persisted>>
      BY <1>7 DEF processTx, chain
    <3>6. QED
      BY <2>3, <3>3, <3>4, <3>5 DEF CoveredInv
  <2>4. QED
    BY <1>7, <2>2, <2>3 DEF processTx
<1>8. CASE BlockNum
  <2>1. currentBlock' = head
    BY <1>8, <1>n DEF BlockNum
  <2>2. UNCHANGED <<head, place, known, lastSeenBlock, persisted, pushed>>
    BY <1>8 DEF BlockNum, chain, queues
  <2>3. CASE head > lastSeenBlock
    <3>1. pc' = "fetch" /\ block' = lastSeenBlock + 1
      BY <1>8, <1>n, <2>1, <2>3 DEF BlockNum, FirstBlock
    <3>2. QED
      BY <1>n, <2>1, <2>2, <2>3, <3>1 DEF CoveredInv
  <2>4. CASE ~(head > lastSeenBlock)
    <3>1. pc' = "save"
      BY <1>8, <1>n, <2>1, <2>4 DEF BlockNum
    <3>2. QED
      BY <1>n, <2>1, <2>2, <2>4, <3>1 DEF CoveredInv
  <2>5. QED
    BY <2>3, <2>4
<1>9. CASE BlockByNum
  <2>1. block <= head /\ pc = "fetch"
    BY <1>9, <1>n DEF BlockByNum, CoveredInv
  <2>2. todo' = MinedIn(block)
    BY <1>9, <1>n, <2>1 DEF BlockByNum
  <2>3. pushed' = pushed \cup {BlockEvent(block)}
    BY <1>9 DEF BlockByNum, Push
  <2>4. UNCHANGED <<head, place, known, lastSeenBlock, currentBlock, block, persisted>>
        /\ pc' = "txs"
    BY <1>9 DEF BlockByNum, chain
  <2>5. ListIsComplete'
    BY <2>2, <2>3, <2>4 DEF ListIsComplete, MinedIn, Watched
  <2>6. \A b : Covered(b, pushed, place) => Covered(b, pushed', place')
    BY <2>3, <2>4, CoveredGrows
  <2>7. QED
    BY <2>1, <2>4, <2>5, <2>6 DEF CoveredInv
<1>10. CASE CatchUpError
  BY <1>10 DEF CatchUpError, Fails
<1>11. CASE BlockDone
  <2>1. pc = "txs" /\ todo = {}
        /\ UNCHANGED <<head, place, known, currentBlock, pushed>>
    BY <1>11 DEF BlockDone, chain, queues
  <2>2. /\ lastSeenBlock < block /\ block <= currentBlock /\ currentBlock <= head
        /\ ListIsComplete
    BY <2>1 DEF CoveredInv
  <2>3. Covered(block, pushed, place)
    BY <2>1, <2>2 DEF Covered, ListIsComplete
  <2>4. \A b \in 1 .. block : Covered(b, pushed, place)
    BY <1>n, <2>1, <2>3 DEF CoveredInv
  <2>5. persisted' = persisted \/ persisted' = block
    BY <1>11 DEF BlockDone, UpdateState
  <2>6. CASE block < currentBlock
    <3>1. block' = block + 1 /\ pc' = "fetch" /\ lastSeenBlock' = lastSeenBlock
      BY <1>11, <2>6 DEF BlockDone, NextBlock
    <3>2. QED
      BY <1>n, <2>1, <2>2, <2>4, <2>5, <2>6, <3>1 DEF CoveredInv
  <2>7. CASE ~(block < currentBlock)
    <3>1. block' = block /\ pc' = "save" /\ lastSeenBlock' = currentBlock
      BY <1>11, <2>7 DEF BlockDone, NextBlock
    <3>2. currentBlock = block
      BY <1>n, <2>2, <2>7
    <3>3. QED
      BY <1>n, <2>1, <2>2, <2>4, <2>5, <3>1, <3>2 DEF CoveredInv
  <2>8. QED
    BY <2>6, <2>7
<1>12. CASE EndRound
  <2>1. pc = "save" /\ pc' \in {"lock", "dead"}
        /\ UNCHANGED <<head, place, known, currentBlock, lastSeenBlock, block, pushed>>
    BY <1>12 DEF EndRound, Die, chain, queues
  <2>2. persisted' = persisted \/ persisted' = currentBlock
    BY <1>12 DEF EndRound, UpdateState
  <2>3. QED
    BY <1>n, <2>1, <2>2 DEF CoveredInv
<1>13. CASE eventLoop
  BY <1>13, <1>n, CoveredOther DEF eventLoop, chain, loop
<1>14. ASSUME NEW g \in spawned, Handle(g[1], g[2]) PROVE CoveredInv'
  BY <1>14, <1>n, CoveredOther DEF Handle, chain, loop
<1>15. CASE Run
  BY <1>15, <1>n DEF Run, chain, CoveredInv
<1>16. QED
  BY <1>1, <1>2, <1>3, <1>4, <1>5, <1>6, <1>7, <1>8, <1>9, <1>10, <1>11, <1>12,
     <1>13, <1>14, <1>15 DEF Next, runLoop

\* When the node answers up to date and no block of a catch-up fails, a restart
\* never resumes after a block that was not worked off: crashes, failed
\* polls, failed single blocks and lost saves of the state file included
\* (watchdog/runloop.go:44-77, state.go:38-55).
THEOREM StateFileIsBehind ==
    ASSUME Lag = 0, "catchup" \notin FailingCalls
    PROVE  Spec => []PersistedCovered
<1>1. Init => TypeInv /\ CoveredInv
  BY TypeInit, CoveredInit
<1>2. TypeInv /\ CoveredInv /\ [Next]_vars => (TypeInv /\ CoveredInv)'
  BY TypeNext, CoveredNext DEF TypeInv
<1>3. CoveredInv => PersistedCovered
  BY DEF CoveredInv, Covered, PersistedCovered
<1>4. QED
  BY <1>1, <1>2, <1>3, PTL DEF Spec

-----------------------------------------------------------------------------
(* A block is reported once per life of the service.                        *)

\* The blocks reported so far, as far as the loop remembers them.
Reported(b) == BlockEvent(b) \in pushed

\* In its first life the service has reported no block above the one it is at,
\* and that one only if its transactions are being examined.
OnceInv ==
    /\ pc \in {"fetch", "txs"} =>
         /\ lastSeenBlock < block /\ block <= currentBlock
         /\ ~CatchingUp => block = lastSeenBlock + 1
    /\ restarts = 0 =>
         \A b \in 1 .. MaxBlock : Reported(b) =>
             /\ pc = "fetch" => b < block
             /\ pc = "txs" => b <= block
             /\ pc \in {"lock", "mempool", "pool", "save"} => b <= lastSeenBlock

\* Catching up or not, the first block to process is the one after the last.
LEMMA FirstBlockIsNext ==
    ASSUME NEW n \in Nat, lastSeenBlock \in Nat, n > lastSeenBlock
    PROVE  FirstBlock(n) = lastSeenBlock + 1
<1>1. QED
  BY DEF FirstBlock

\* Every step keeps the loop above what it reported.
LEMMA OnceNext == TypeOK /\ TypeOK' /\ OnceInv /\ [Next]_vars => OnceInv'
<1> SUFFICES ASSUME TypeOK, TypeOK', OnceInv, [Next]_vars PROVE OnceInv'
  OBVIOUS
<1>n. /\ head \in Nat /\ lastSeenBlock \in Nat /\ currentBlock \in Nat
      /\ block \in Nat /\ restarts \in Nat
  BY WatchdogAssumption DEF TypeOK
<1> USE DEF OnceInv, Reported, CatchingUp
<1>1. CASE UNCHANGED <<pc, lastSeenBlock, currentBlock, block, pushed, restarts>>
  BY <1>1
<1>2. CASE Lock \/ MemPoolContent \/ MemPoolError \/ BlockNumError
  <2>1. pc \in {"lock", "mempool", "pool"} /\ pc' \in {"lock", "mempool", "pool"}
        /\ UNCHANGED <<lastSeenBlock, pushed, restarts>>
    BY <1>2 DEF Lock, MemPoolContent, MemPoolError, BlockNumError, queues
  <2>2. QED
    BY <2>1
<1>3. ASSUME NEW t \in Tx, processTx(t) PROVE OnceInv'
  <2>1. \A b : BlockEvent(b) # TxEvent(t, block)
    BY WatchdogAssumption DEF BlockEvent, TxEvent
  <2>2. \A b : BlockEvent(b) \in pushed' => BlockEvent(b) \in pushed
    BY <1>3, <2>1 DEF processTx, Push, queues
  <2>3. UNCHANGED <<pc, lastSeenBlock, currentBlock, block, restarts>>
    BY <1>3 DEF processTx
  <2>4. QED
    BY <2>2, <2>3
<1>4. CASE BlockNum
  <2>1. pc = "pool" /\ UNCHANGED <<lastSeenBlock, pushed, restarts>>
    BY <1>4 DEF BlockNum, queues
  <2>2. currentBlock' \in 0 .. head
    BY <1>4 DEF BlockNum
  <2>3. CASE currentBlock' > lastSeenBlock
    <3>1. pc' = "fetch" /\ block' = FirstBlock(currentBlock')
      BY <1>4, <2>3 DEF BlockNum
    <3>2. block' = lastSeenBlock + 1
      BY <1>n, <2>2, <2>3, <3>1, FirstBlockIsNext
    <3>3. lastSeenBlock < block' /\ block' <= currentBlock'
      BY <1>n, <2>2, <2>3, <3>2
    <3>4. QED
      BY <1>n, <2>1, <3>1, <3>2, <3>3
  <2>4. CASE ~(currentBlock' > lastSeenBlock)
    <3>1. pc' = "save"
      BY <1>4, <2>4 DEF BlockNum
    <3>2. QED
      BY <2>1, <3>1
  <2>5. QED
    BY <2>3, <2>4
<1>5. CASE BlockByNum
  <2>1. /\ pc = "fetch" /\ pc' = "txs"
        /\ UNCHANGED <<lastSeenBlock, currentBlock, block, restarts>>
        /\ pushed' = pushed \cup {BlockEvent(block)}
    BY <1>5 DEF BlockByNum, Push
  <2>2. \A b : BlockEvent(b) = BlockEvent(block) => b = block
    BY DEF BlockEvent
  <2>3. QED
    BY <1>n, <2>1, <2>2
<1>6. CASE SingleError
  <2>1. /\ pc = "fetch" /\ ~CatchingUp /\ pc' = "lock"
        /\ UNCHANGED <<lastSeenBlock, pushed, restarts>>
    BY <1>6 DEF SingleError, queues
  <2>2. QED
    BY <1>n, <2>1
<1>7. CASE CatchUpError \/ BlockDone
  <2>1. /\ pc \in {"fetch", "txs"}
        /\ UNCHANGED <<currentBlock, pushed, restarts>>
    BY <1>7 DEF CatchUpError, BlockDone, queues
  <2>2. CASE NextBlock
    <3>1. CASE block < currentBlock
      <4>1. block' = block + 1 /\ pc' = "fetch" /\ lastSeenBlock' = lastSeenBlock
        BY <2>2, <3>1 DEF NextBlock
      <4>2. QED
        BY <1>n, <2>1, <3>1, <4>1
    <3>2. CASE ~(block < currentBlock)
      <4>1. pc' = "save" /\ lastSeenBlock' = currentBlock /\ currentBlock = block
        BY <1>n, <2>1, <2>2, <3>2 DEF NextBlock
      <4>2. QED
        BY <1>n, <2>1, <4>1
    <3>3. QED
      BY <3>1, <3>2
  <2>3. CASE pc' = "dead"
    BY <2>1, <2>3
  <2>4. QED
    BY <1>7, <2>2, <2>3 DEF CatchUpError, BlockDone, Die
<1>8. CASE EndRound
  <2>1. pc = "save" /\ pc' \in {"lock", "dead"}
        /\ UNCHANGED <<lastSeenBlock, pushed, restarts>>
    BY <1>8 DEF EndRound, Die, queues
  <2>2. QED
    BY <2>1
<1>9. CASE Crash
  BY <1>9 DEF Crash, Die
<1>10. CASE Run
  BY <1>n, <1>10 DEF Run
<1>11. QED
  BY <1>1, <1>2, <1>3, <1>4, <1>5, <1>6, <1>7, <1>8, <1>9, <1>10
     DEF Next, runLoop, vars, chain, loop, queues, Submit, Mine, Indexed,
         eventLoop, Handle

\* Only BlockByNum puts the event of a block into the channel.
LEMMA OnlyFetchReports ==
    ASSUME TypeOK, [Next]_vars, NEW b \in 1 .. MaxBlock,
           events' = Append(events, BlockEvent(b))
    PROVE  pc = "fetch" /\ b = block
<1>1. Len(events') = Len(events) + 1 /\ events \in Seq(Event) /\ BlockEvent(b) \in Event
  BY DEF TypeOK, BlockEvent, Event
<1>2. events' # events
  BY <1>1
<1>3. ASSUME NEW e \in Event, events' = Append(events, e) PROVE e = BlockEvent(b)
  <2>1. Append(events, e)[Len(events) + 1] = e
    BY <1>1
  <2>2. Append(events, BlockEvent(b))[Len(events) + 1] = BlockEvent(b)
    BY <1>1
  <2>3. QED
    BY <1>3, <2>1, <2>2
<1>4. ASSUME NEW t \in Tx, processTx(t) PROVE FALSE
  <2>1. events' = Append(events, TxEvent(t, block))
    BY <1>2, <1>4 DEF processTx, Push, queues
  <2>2. TxEvent(t, block) = BlockEvent(b)
    BY <1>3, <2>1, EventTypes
  <2>3. QED
    BY <2>2, WatchdogAssumption DEF TxEvent, BlockEvent
<1>5. CASE BlockByNum
  <2>1. pc = "fetch" /\ events' = Append(events, BlockEvent(block))
    BY <1>5 DEF BlockByNum, Push
  <2>2. BlockEvent(block) = BlockEvent(b)
    BY <1>3, <2>1, EventTypes
  <2>3. QED
    BY <2>1, <2>2 DEF BlockEvent
<1>6. CASE eventLoop
  <2>1. events # << >> /\ events' = Tail(events)
    BY <1>6 DEF eventLoop
  <2>2. Len(events') = Len(events) - 1
    BY <1>1, <2>1
  <2>3. QED
    BY <1>1, <2>2
<1>7. CASE Run
  <2>1. Len(events') = 0
    BY <1>7 DEF Run
  <2>2. QED
    BY <1>1, <2>1
<1>8. QED
  BY <1>2, <1>4, <1>5, <1>6, <1>7
     DEF Next, runLoop, vars, chain, loop, queues, Submit, Mine, Indexed, Lock,
         MemPoolContent, MemPoolError, BlockNum, BlockNumError, SingleError,
         CatchUpError, BlockDone, EndRound, Handle, Crash

\* Until it is restarted the service reports no block twice: not after failed
\* calls, and not when the node falls behind and its lower number is
\* persisted (watchdog/runloop.go:44-77).
THEOREM BlocksOnce == Spec => NoBlockTwice
<1>1. Init => TypeInv /\ OnceInv
  BY TypeInit DEF Init, OnceInv, Reported
<1>2. TypeInv /\ OnceInv /\ [Next]_vars => (TypeInv /\ OnceInv)'
  BY TypeNext, OnceNext DEF TypeInv
<1>3. TypeInv /\ OnceInv /\ [Next]_vars =>
        [\A b \in 1 .. MaxBlock :
            restarts = 0 /\ BlockEvent(b) \in pushed
               => events' # Append(events, BlockEvent(b))]_vars
  <2> SUFFICES ASSUME TypeInv, OnceInv, [Next]_vars, NEW b \in 1 .. MaxBlock,
                      restarts = 0, BlockEvent(b) \in pushed,
                      events' = Append(events, BlockEvent(b))
               PROVE  FALSE
    OBVIOUS
  <2>1. pc = "fetch" /\ b = block
    BY OnlyFetchReports DEF TypeInv
  <2>2. b < block
    BY <2>1 DEF OnceInv, Reported
  <2>3. QED
    BY <2>1, <2>2
<1>4. QED
  BY <1>1, <1>2, <1>3, PTL DEF Spec, NoBlockTwice

-----------------------------------------------------------------------------
\* Whatever fails and in whichever order, the mutex is left locked by the error
\* path of MemPoolContent alone and given up within a round by the error path of
\* the catch-up alone: every other way out of a round unlocks it
\* (watchdog/runloop.go:20-77).
THEOREM MutexDiscipline == Spec => LoopOwnsMutex
<1> DEFINE Kept == /\ pc' = "lock" /\ locked' => (pc = "lock" /\ locked) \/ MemPoolError
                   /\ RoundOpen' /\ ~locked' => (RoundOpen /\ ~locked) \/ CatchUpError
<1>1. [Next]_vars => [Kept]_vars
  <2> SUFFICES ASSUME Next PROVE Kept \/ UNCHANGED vars
    OBVIOUS
  <2>1. CASE UNCHANGED <<pc, locked>>
    BY <2>1 DEF RoundOpen
  <2>2. CASE Lock \/ BlockNumError \/ SingleError \/ Crash \/ Run
    BY <2>2 DEF Lock, BlockNumError, SingleError, Crash, Run, Die, RoundOpen
  <2>3. CASE MemPoolContent \/ BlockNum \/ BlockByNum \/ BlockDone
    BY <2>3 DEF MemPoolContent, BlockNum, BlockByNum, BlockDone, NextBlock, RoundOpen
  <2>4. CASE EndRound
    BY <2>4 DEF EndRound, Die, RoundOpen
  <2>5. CASE MemPoolError
    BY <2>5 DEF MemPoolError, RoundOpen
  <2>6. CASE CatchUpError
    BY <2>6 DEF CatchUpError, NextBlock, Die, RoundOpen
  <2>7. QED
    BY <2>1, <2>2, <2>3, <2>4, <2>5, <2>6
       DEF Next, runLoop, vars, loop, Submit, Mine, Indexed, processTx, eventLoop, Handle
<1>2. QED
  BY <1>1, PTL DEF Spec, LoopOwnsMutex

-----------------------------------------------------------------------------
(***************************************************************************)
(* BlocksPushedInOrder.  Where the loop resumes, in the next round as after *)
(* a restart, is never above an unreported block: what a lagging node      *)
(* makes the service persist is below lastSeenBlock.                       *)
(***************************************************************************)
AllReported(n, done) == \A b \in 1 .. n : BlockEvent(b) \in done

OrderInv ==
    /\ AllReported(persisted, pushed) /\ AllReported(lastSeenBlock, pushed)
    /\ pc \in {"fetch", "txs"} =>
         /\ lastSeenBlock < block /\ block <= currentBlock
         /\ AllReported(block - 1, pushed)
    /\ pc = "txs" => Reported(block)
    /\ pc = "save" => currentBlock <= lastSeenBlock
    /\ BlocksPushedInOrder

\* A step that pushes no block event and moves no number keeps the order.
LEMMA OrderOther ==
    ASSUME TypeOK, OrderInv, UNCHANGED <<lastSeenBlock, currentBlock, persisted>>,
           pushed \subseteq pushed',
           \A e \in pushed' \ pushed : e.tx # NoTx,
           \/ UNCHANGED <<pc, block>>
           \/ pc' \in {"lock", "mempool", "pool", "dead"}
    PROVE  OrderInv'
<1>1. \A n : AllReported(n, pushed) => AllReported(n, pushed')
  BY DEF AllReported
<1>2. BlocksPushedInOrder'
  BY DEF OrderInv, BlocksPushedInOrder
<1>3. /\ AllReported(persisted', pushed') /\ AllReported(lastSeenBlock', pushed')
  BY <1>1 DEF OrderInv
<1>4. CASE pc' \in {"lock", "mempool", "pool", "dead"}
  BY <1>2, <1>3, <1>4 DEF OrderInv
<1>5. CASE UNCHANGED <<pc, block>>
  <2>1. pc' \in {"fetch", "txs"} =>
          /\ lastSeenBlock' < block' /\ block' <= currentBlock'
          /\ AllReported(block' - 1, pushed')
    BY <1>1, <1>5 DEF OrderInv
  <2>2. /\ pc' = "txs" => Reported(block)'
        /\ pc' = "save" => currentBlock' <= lastSeenBlock'
    BY <1>5 DEF OrderInv, Reported
  <2>3. QED
    BY <1>2, <1>3, <2>1, <2>2 DEF OrderInv
<1>6. QED
  BY <1>4, <1>5

\* Every step keeps the order, whatever the node's lag.
LEMMA OrderNext ==
    ASSUME "catchup" \notin FailingCalls, TypeOK, TypeOK', OrderInv, [Next]_vars
    PROVE  OrderInv'
<1>n. /\ head \in Nat /\ lastSeenBlock \in Nat /\ currentBlock \in Nat
      /\ block \in Nat /\ persisted \in Nat
  BY DEF TypeOK
<1>1. CASE UNCHANGED <<loop, queues, persisted>>
  BY <1>1, OrderOther DEF loop, queues
<1>2. CASE (\E t \in Tx : Submit(t)) \/ Mine \/ (\E a \in Addresses : Indexed(a))
           \/ UNCHANGED vars
  BY <1>1, <1>2 DEF Submit, Mine, Indexed, vars
<1>3. CASE Lock \/ MemPoolContent \/ MemPoolError \/ BlockNumError \/ SingleError \/ Crash
  BY <1>3, OrderOther
  DEF Lock, MemPoolContent, MemPoolError, BlockNumError, SingleError, Crash, Die, queues
<1>4. CASE eventLoop \/ \E g \in spawned : Handle(g[1], g[2])
  BY <1>4, OrderOther DEF eventLoop, Handle, loop
<1>5. ASSUME NEW t \in Tx, processTx(t) PROVE OrderInv'
  <2>1. pushed' = pushed \/ pushed' = pushed \cup {TxEvent(t, block)}
    BY <1>5 DEF processTx, Push, queues
  <2>2. \A e \in pushed' \ pushed : e.tx # NoTx
    BY <2>1, WatchdogAssumption DEF TxEvent
  <2>3. QED
    BY <1>5, <2>1, <2>2, OrderOther DEF processTx
<1>6. CASE BlockNum
  <2>1. PICK n \in 0 .. head :
          /\ currentBlock' = n
          /\ pc' = IF n > lastSeenBlock THEN "fetch" ELSE "save"
          /\ block' = IF n > lastSeenBlock THEN FirstBlock(n) ELSE block
    BY <1>6 DEF BlockNum
  <2>2. UNCHANGED <<lastSeenBlock, persisted, pushed>>
    BY <1>6 DEF BlockNum, queues
  <2>3. n \in Nat
    BY <1>n
  <2>4. CASE n > lastSeenBlock
    <3>1. pc' = "fetch" /\ block' = lastSeenBlock + 1
      BY <1>n, <2>1, <2>3, <2>4, FirstBlockIsNext
    <3>2. lastSeenBlock < block' /\ block' <= n /\ block' - 1 = lastSeenBlock
      BY <1>n, <2>3, <2>4, <3>1
    <3>3. QED
      BY <2>1, <2>2, <3>1, <3>2 DEF OrderInv, BlocksPushedInOrder
  <2>5. CASE ~(n > lastSeenBlock)
    <3>1. pc' = "save" /\ n <= lastSeenBlock
      BY <1>n, <2>1, <2>3, <2>5
    <3>2. QED
      BY <2>1, <2>2, <3>1 DEF OrderInv, BlocksPushedInOrder
  <2>6. QED
    BY <2>4, <2>5
<1>7. CASE BlockByNum
  <2>1. /\ pc = "fetch" /\ pc' = "txs"
        /\ pushed' = pushed \cup {BlockEvent(block)}
        /\ UNCHANGED <<lastSeenBlock, currentBlock, block, persisted>>
    BY <1>7 DEF BlockByNum, Push
  <2>2. \A n : AllReported(n, pushed) => AllReported(n, pushed')
    BY <2>1 DEF AllReported
  <2>3. AllReported(block, pushed')
    BY <1>n, <2>1 DEF OrderInv, AllReported
  <2>4. BlocksPushedInOrder'
    <3> SUFFICES ASSUME NEW e \in pushed', e.tx = NoTx, NEW b \in 1 .. e.block
                 PROVE  BlockEvent(b) \in pushed'
      BY DEF BlocksPushedInOrder
    <3>1. CASE e \in pushed
      BY <2>1, <3>1 DEF OrderInv, BlocksPushedInOrder
    <3>2. CASE e = BlockEvent(block)
      BY <2>3, <3>2 DEF AllReported, BlockEvent
    <3>3. QED
      BY <2>1, <3>1, <3>2
  <2>5. QED
    BY <2>1, <2>2, <2>4 DEF OrderInv, Reported
<1>8. CASE CatchUpError
  BY <1>8 DEF CatchUpError, Fails
<1>9. CASE BlockDone
  <2>1. pc = "txs" /\ UNCHANGED <<currentBlock, pushed>>
    BY <1>9 DEF BlockDone, queues
  <2>2. lastSeenBlock < block /\ block <= currentBlock
    BY <2>1 DEF OrderInv
  <2>3. AllReported(block, pushed)
    BY <1>n, <2>1 DEF OrderInv, AllReported, Reported
  <2>4. persisted' = persisted \/ persisted' = block
    BY <1>9 DEF BlockDone, UpdateState
  <2>5. AllReported(persisted', pushed') /\ BlocksPushedInOrder'
    BY <2>1, <2>3, <2>4 DEF OrderInv, BlocksPushedInOrder
  <2>6. CASE block < currentBlock
    <3>1. block' = block + 1 /\ pc' = "fetch" /\ lastSeenBlock' = lastSeenBlock
      BY <1>9, <2>6 DEF BlockDone, NextBlock
    <3>2. lastSeenBlock < block' /\ block' <= currentBlock /\ block' - 1 = block
      BY <1>n, <2>2, <2>6, <3>1
    <3>3. QED
      BY <2>1, <2>3, <2>5, <3>1, <3>2 DEF OrderInv
  <2>7. CASE ~(block < currentBlock)
    <3>1. pc' = "save" /\ lastSeenBlock' = currentBlock
      BY <1>9, <2>7 DEF BlockDone, NextBlock
    <3>2. currentBlock = block
      BY <1>n, <2>2, <2>7
    <3>3. currentBlock' <= lastSeenBlock'
      BY <1>n, <2>1, <3>1
    <3>4. QED
      BY <2>1, <2>3, <2>5, <3>1, <3>2, <3>3 DEF OrderInv
  <2>8. QED
    BY <2>6, <2>7
<1>10. CASE EndRound
  <2>1. pc = "save" /\ pc' \in {"lock", "dead"}
        /\ UNCHANGED <<lastSeenBlock, pushed>>
    BY <1>10 DEF EndRound, Die, queues
  <2>2. persisted' = persisted \/ persisted' = currentBlock
    BY <1>10 DEF EndRound, UpdateState
  <2>3. AllReported(currentBlock, pushed)
    BY <1>n, <2>1 DEF OrderInv, AllReported
  <2>4. QED
    BY <2>1, <2>2, <2>3 DEF OrderInv, BlocksPushedInOrder
<1>11. CASE Run
  BY <1>11 DEF Run, OrderInv, BlocksPushedInOrder
<1>12. QED
  BY <1>2, <1>3, <1>4, <1>5, <1>6, <1>7, <1>8, <1>9, <1>10, <1>11 DEF Next, runLoop

\* When no block of a catch-up fails, blocks are reported without gaps, oldest
\* first, however far behind the node's answers are and whatever else fails
\* (watchdog/runloop.go:44-77).
THEOREM BlocksInOrder ==
    ASSUME "catchup" \notin FailingCalls
    PROVE  Spec => []BlocksPushedInOrder
<1>1. Init => TypeInv /\ OrderInv
  BY TypeInit DEF Init, OrderInv, AllReported, BlocksPushedInOrder
<1>2. TypeInv /\ OrderInv /\ [Next]_vars => (TypeInv /\ OrderInv)'
  BY TypeNext, OrderNext DEF TypeInv
<1>3. OrderInv => BlocksPushedInOrder
  BY DEF OrderInv
<1>4. QED
  BY <1>1, <1>2, <1>3, PTL DEF Spec
=============================================================================
