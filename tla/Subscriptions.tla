--------------------------- MODULE Subscriptions ---------------------------
(***************************************************************************)
(* The subscription manager: one event loop consumes block and transaction *)
(* events of the watchdog, keeps a record per transfer in a database, and  *)
(* starts a goroutine per notification, which looks up the services of the *)
(* two parties, starts a goroutine per message to a service, and may move  *)
(* received coins to the service's master address.                         *)
(*                                                                         *)
(* The watchdog starts a goroutine per event, retries, restarts and loses  *)
(* events in a crash.  So the loop is given, at any time and any number of *)
(* times, any event that is true of the chain: every order, duplication    *)
(* and loss is covered.                                                    *)
(***************************************************************************)
EXTENDS Integers, FiniteSets

CONSTANTS
    Tx, From, To,        \* transfers and their parties
    NativeCoin,          \* the transfers of the chain's own coin
    GatherTx,            \* the transfer that gathers what a transfer paid
    Managed,             \* addresses the address manager knows
    HasKey,              \* those whose private key is stored
    ServiceOf,           \* the service each managed address belongs to
    Services,            \* the services registered in subscribers.json
    ReportNewBlock, ReportIncomingTx, ReportOutgoingTx,   \* sets of services
    GatherToMaster,      \* services that gather and have a master address
    MinConfirmations,    \* of the chain client
    StoreMayFail,        \* may the transaction database return errors?
    SendMayFail,         \* may a message to a service be lost?
    MaxBlock,            \* bound: blocks mined
    MaxCrashes,          \* bound: crashes
    NoRec, NoTx, NoAddr

ASSUME SubscriptionsAssumption ==
    /\ MinConfirmations \in Nat \ {0}
    /\ MaxBlock \in Nat /\ MaxCrashes \in Nat
    /\ StoreMayFail \in BOOLEAN /\ SendMayFail \in BOOLEAN
    /\ NoTx \notin Tx /\ NoAddr \notin Managed
    /\ \A t \in Tx : GatherTx[t] \in (Tx \ {t}) \cup {NoTx}
    /\ HasKey \subseteq Managed

Rec == [block : 0 .. MaxBlock, inPool : BOOLEAN, confirmed : BOOLEAN,
        ignore : BOOLEAN]

ASSUME NoRecAssumption == NoRec \notin Rec

\* What a message tells: a TransferNotification, or a block (tx = NoTx).
Notification == [tx : Tx \cup {NoTx}, block : 0 .. MaxBlock,
                 inPool : BOOLEAN, confirmed : BOOLEAN,
                 confirmations : 0 .. MaxBlock + 1]

VARIABLES
    head, place,     \* the chain: its height; -1, 0 (pending) or block of a tx
    recs,            \* transactions.db
    work,            \* what the event loop is doing, with what it has read
    posts,           \* goroutines waiting to run transactionEventPostProcess
    sends,           \* goroutines waiting to run NotifySubscriber
    received,        \* history: messages each service got
    gather,          \* the gathering in progress, under notifyMux
    info,            \* the record made of what TransferInfoByHash returned
    gathered,        \* history: addresses coins were moved away from
    confirmedTimes,  \* history: "confirmed" notifications made per transfer
    crashes

chain == <<head, place>>
outgoing == <<posts, sends, received>>
gathering == <<gather, info, gathered>>
vars == <<chain, recs, work, outgoing, gathering, confirmedTimes, crashes>>

NotGathering == [tx |-> NoTx, stage |-> "none"]
Idle == [step |-> "idle"]
NewRec(b) == [block |-> b, inPool |-> b = 0, confirmed |-> FALSE,
              ignore |-> FALSE]

\* Mutant: the difference of the block numbers is taken the wrong way round.
Notify_CountsDown(t, r, n) ==
    [tx |-> t, block |-> r.block, inPool |-> r.inPool,
     confirmed |-> r.confirmed, confirmations |-> -n]

\* Mutant: InPool is not copied.
Notify_NeverInPool(t, r, n) ==
    [tx |-> t, block |-> r.block, inPool |-> FALSE,
     confirmed |-> r.confirmed, confirmations |-> n]

\* TransferNotification.fill, and the number of confirmations.
Notify(t, r, n) == [tx |-> t, block |-> r.block, inPool |-> r.inPool,
                    confirmed |-> r.confirmed, confirmations |-> n]

-----------------------------------------------------------------------------
Init ==
    /\ head = 0
    /\ place = [t \in Tx |-> -1]
    /\ recs = [t \in Tx |-> NoRec]
    /\ posts = {} /\ sends = {}
    /\ received = [s \in Services |-> {}]
    /\ work = Idle
    /\ gather = NotGathering /\ info = NoRec /\ gathered = {}
    /\ confirmedTimes = [t \in Tx |-> 0]
    /\ crashes = 0

\* The gathering transfers are the service's own: only gathering makes them.
Outside == Tx \ {GatherTx[t] : t \in Tx}

Submit(t) ==
    /\ t \in Outside /\ place[t] = -1
    /\ place' = [place EXCEPT ![t] = 0]
    /\ UNCHANGED <<head, recs, work, outgoing, gathering, confirmedTimes, crashes>>

Mine ==
    /\ head < MaxBlock
    /\ head' = head + 1
    /\ \E S \in SUBSET {t \in Tx : place[t] = 0} :
         place' = [t \in Tx |-> IF t \in S THEN head + 1 ELSE place[t]]
    /\ UNCHANGED <<recs, work, outgoing, gathering, confirmedTimes, crashes>>

-----------------------------------------------------------------------------
(* transactionEventProcess, for the event that transfer t is pending        *)
(* (b = 0) or in block b.  The database is read in one step and written in  *)
(* another: a gathering may write it in between.                            *)

TrueTxEvent(t, b) ==
    /\ From[t] \in Managed \/ To[t] \in Managed
    /\ \/ b = 0 /\ place[t] >= 0
       \/ b > 0 /\ place[t] = b

StoreResults == IF StoreMayFail THEN BOOLEAN ELSE {TRUE}

\* An error of the read ends the handler: nothing happens.
getTransactionById(t, b) ==
    /\ work = Idle /\ TrueTxEvent(t, b)
    /\ work' = [step |-> "transaction", tx |-> t, block |-> b, seen |-> recs[t]]
    /\ UNCHANGED <<chain, recs, outgoing, gathering, confirmedTimes, crashes>>

\* isEqual: the events of one transfer differ in nothing else that matters
\* unless they differ in the block and InPool.
isEqual(r, b) == r.block = b /\ r.inPool = (b = 0)

\* Mutant: a late pool event takes a mined record back.
MovesToBlock_AnyChange(r, b) == ~r.ignore

\* Only a pending record that is not ignored moves into a block.
MovesToBlock(r, b) == r.inPool /\ b > 0 /\ ~r.ignore

saveTransaction(t, r, ok) == recs' = IF ok THEN [recs EXCEPT ![t] = r] ELSE recs

\* An unknown transfer: save and notify; a failed save ends the handler.
NewTransfer(t, b) ==
    \E ok \in StoreResults :
        /\ saveTransaction(t, NewRec(b), ok)
        /\ posts' = IF ok
                    THEN posts \cup {Notify(t, NewRec(b), IF b = 0 THEN 0 ELSE 1)}
                    ELSE posts

\* A pending transfer got into a block: save, and notify even if that fails.
PendingTransferMined(t, b, r) ==
    LET new == [r EXCEPT !.block = b, !.inPool = FALSE]
    IN  /\ \E ok \in StoreResults : saveTransaction(t, new, ok)
        /\ posts' = posts \cup {Notify(t, new, 1)}

transactionEventProcess ==
    /\ work.step = "transaction"
    /\ \/ /\ work.seen = NoRec
          /\ NewTransfer(work.tx, work.block)
       \/ /\ work.seen # NoRec /\ ~isEqual(work.seen, work.block)
          /\ MovesToBlock(work.seen, work.block)
          /\ PendingTransferMined(work.tx, work.block, work.seen)
       \/ /\ work.seen # NoRec
          /\ isEqual(work.seen, work.block) \/ ~MovesToBlock(work.seen, work.block)
          /\ UNCHANGED <<recs, posts>>
    /\ work' = Idle
    /\ UNCHANGED <<chain, sends, received, gathering, confirmedTimes, crashes>>

-----------------------------------------------------------------------------
(* blockEvent: a search and the notifications of it, a second search, and a *)
(* save with a notification for each transfer that one found.               *)

\* Mutant: one block too early.
ConfirmedBlock_OneEarly(b) == IF b - (MinConfirmations - 1) < 1 THEN 1 ELSE b - MinConfirmations + 2

ConfirmedBlock(b) ==
    IF b - (MinConfirmations - 1) < 1 THEN 1 ELSE b - (MinConfirmations - 1)

\* Mutant: the search forgets its Confirmed condition.
\* Mutant: the search finds pending transfers only.
Unconfirmed_InPool == {t \in Tx : recs[t] # NoRec /\ recs[t].inPool /\ ~recs[t].confirmed}

Unconfirmed == {t \in Tx : recs[t] # NoRec /\ ~recs[t].inPool /\ ~recs[t].confirmed}
SearchTransactionsAfterBlock(c) == {t \in Unconfirmed : recs[t].block > c}
SearchTransactionsBeforeBlock(c) == {t \in Unconfirmed : recs[t].block < c}

\* "confirmations count" notifications for the transfers below block b.
Counts(b) ==
    {Notify(t, recs[t], b - recs[t].block + 1) :
        t \in {u \in SearchTransactionsAfterBlock(ConfirmedBlock(b)) :
                   recs[u].block < b /\ ~recs[u].ignore}}

\* A message to a service; the incoming one sets the recipient's ids.
Message(s, n, ids) == [to |-> s, note |-> n, ids |-> ids]

blockNotifyServices(b) ==
    {Message(s, [tx |-> NoTx, block |-> b, inPool |-> FALSE,
                 confirmed |-> FALSE, confirmations |-> 0], NoAddr) :
        s \in Services \cap ReportNewBlock}

blockEvent(b) ==
    /\ work = Idle /\ b \in 1 .. head
    /\ sends' = sends \cup blockNotifyServices(b)
    /\ \E found \in StoreResults :
        /\ posts' = IF found THEN posts \cup Counts(b) ELSE posts
        /\ work' = IF found THEN [step |-> "search", block |-> b] ELSE Idle
    /\ UNCHANGED <<chain, recs, received, gathering, confirmedTimes, crashes>>

SearchConfirmed ==
    /\ work.step = "search"
    /\ \E found \in StoreResults :
        LET due == SearchTransactionsBeforeBlock(ConfirmedBlock(work.block))
        IN  work' = IF found /\ due # {}
                    THEN [step |-> "confirm", block |-> work.block,
                          due |-> [t \in due |-> recs[t]]]
                    ELSE Idle
    /\ UNCHANGED <<chain, recs, outgoing, gathering, confirmedTimes, crashes>>

\* The list is sorted by block.
NextDue == {t \in DOMAIN work.due :
               \A u \in DOMAIN work.due : work.due[t].block <= work.due[u].block}

ConfirmTransaction(t) ==
    /\ work.step = "confirm" /\ t \in NextDue
    /\ LET done == [work.due[t] EXCEPT !.confirmed = TRUE]
           rest == DOMAIN work.due \ {t}
       IN  /\ \E ok \in StoreResults :
               LET told == ok /\ ~done.ignore
               IN  /\ saveTransaction(t, done, ok)
                   /\ posts' = IF told
                               THEN posts \cup {Notify(t, done, work.block - done.block)}
                               ELSE posts
                   /\ confirmedTimes' = IF told
                                        THEN [confirmedTimes EXCEPT ![t] = @ + 1]
                                        ELSE confirmedTimes
           /\ work' = IF rest = {} THEN Idle
                      ELSE [work EXCEPT !.due = [u \in rest |-> work.due[u]]]
    /\ UNCHANGED <<chain, sends, received, gathering, crashes>>

-----------------------------------------------------------------------------
(* transactionEventPostProcess, under notifyMux                             *)

OutgoingTo(n) ==
    IF From[n.tx] \in Managed /\ ServiceOf[From[n.tx]] \in ReportOutgoingTx
    THEN {ServiceOf[From[n.tx]]} ELSE {}
IncomingTo(n) ==
    IF To[n.tx] \in Managed /\ ServiceOf[To[n.tx]] \in ReportIncomingTx
    THEN {ServiceOf[To[n.tx]]} ELSE {}

\* The lookup of the sender's, then of the recipient's service failed.
SenderUnknown(n) == From[n.tx] \in Managed /\ ServiceOf[From[n.tx]] \notin Services
RecipientServed(n) == To[n.tx] \in Managed /\ ServiceOf[To[n.tx]] \in Services

\* Mutant: the messages are not started.
MessagesOf_None(n) == {{}}

\* The two messages share one payload.  The goroutine of the outgoing one
\* reads it before or after the ids of the recipient were written into it.
MessagesOf(n) ==
    LET toSender(ids) == {Message(s, n, ids) : s \in OutgoingTo(n)}
        toRecipient == {Message(s, n, To[n.tx]) : s \in IncomingTo(n)}
    IN  IF SenderUnknown(n) THEN {{}}
        ELSE IF RecipientServed(n) /\ toRecipient # {}
        THEN {toSender(NoAddr) \cup toRecipient, toSender(To[n.tx]) \cup toRecipient}
        ELSE {toSender(NoAddr)}

\* Mutant: gathering starts with any notification.
Gathers_Unconfirmed(n) ==
    /\ ~SenderUnknown(n) /\ RecipientServed(n)
    /\ ServiceOf[To[n.tx]] \in GatherToMaster
    /\ n.tx \in NativeCoin /\ GatherTx[n.tx] # NoTx

\* gatherNativeCoinToMaster is entered, and gets to the transfer.  It is also
\* conditional on Success, which the client sets for every transfer
\* (decode_transaction.go:16).
Gathers(n) ==
    /\ ~SenderUnknown(n) /\ RecipientServed(n)
    /\ n.confirmed
    /\ ServiceOf[To[n.tx]] \in GatherToMaster
    /\ n.tx \in NativeCoin /\ GatherTx[n.tx] # NoTx

transactionEventPostProcess(n) ==
    /\ n \in posts /\ gather = NotGathering
    /\ posts' = posts \ {n}
    /\ \E m \in MessagesOf(n) : sends' = sends \cup m
    /\ gather' = IF Gathers(n) THEN [tx |-> n.tx, stage |-> "transfer"]
                 ELSE gather
    /\ UNCHANGED <<chain, recs, work, received, info, gathered, confirmedTimes, crashes>>

\* sendNotification: one attempt.
NotifySubscriber(m) ==
    /\ m \in sends
    /\ sends' = sends \ {m}
    /\ \E ok \in IF SendMayFail THEN BOOLEAN ELSE {TRUE} :
         received' = IF ok THEN [received EXCEPT ![m.to] = @ \cup {m}] ELSE received
    /\ UNCHANGED <<chain, recs, work, posts, gathering, confirmedTimes, crashes>>

-----------------------------------------------------------------------------
(* gatherNativeCoinToMaster, with notifyMux held over its three calls       *)

\* TransferAllByPrivateKey: fails without the key, or without coins to move;
\* whether the address is watch-only plays no part.
TransferAll ==
    /\ gather.stage = "transfer"
    /\ LET g == GatherTx[gather.tx]
           a == To[gather.tx]
       IN  \/ /\ a \in HasKey /\ place[g] = -1
              /\ place' = [place EXCEPT ![g] = 0]
              /\ gathered' = gathered \cup {a}
              /\ gather' = [gather EXCEPT !.stage = "lookup"]
           \/ /\ gather' = NotGathering
              /\ UNCHANGED <<place, gathered>>
    /\ UNCHANGED <<head, recs, work, outgoing, info, confirmedTimes, crashes>>

\* TransferInfoByHash: where the transfer is now, or an error.  It counts a
\* transfer confirmed one block before the event loop does, and one whose
\* current height it could not read never.
TransferInfoByHash ==
    /\ gather.stage = "lookup"
    /\ \/ /\ LET b == place[GatherTx[gather.tx]]
             IN  \E c \in {FALSE, b > 0 /\ head - b >= MinConfirmations - 1} :
                     info' = [NewRec(b) EXCEPT !.confirmed = c, !.ignore = TRUE]
          /\ gather' = [gather EXCEPT !.stage = "save"]
       \/ /\ gather' = NotGathering
          /\ UNCHANGED info
    /\ UNCHANGED <<chain, recs, work, outgoing, gathered, confirmedTimes, crashes>>

\* The record is replaced, outside the event loop, by one to be ignored.
GatherSave ==
    /\ gather.stage = "save"
    /\ \E ok \in StoreResults : saveTransaction(GatherTx[gather.tx], info, ok)
    /\ gather' = NotGathering /\ info' = NoRec
    /\ UNCHANGED <<chain, work, outgoing, gathered, confirmedTimes, crashes>>

-----------------------------------------------------------------------------
\* The process dies: the goroutines are gone, the database stays.
Crash ==
    /\ crashes < MaxCrashes
    /\ crashes' = crashes + 1
    /\ work' = Idle /\ posts' = {} /\ sends' = {}
    /\ gather' = NotGathering /\ info' = NoRec
    /\ UNCHANGED <<chain, recs, received, gathered, confirmedTimes>>

Next ==
    \/ \E t \in Tx : Submit(t)
    \/ Mine
    \/ \E t \in Tx, b \in 0 .. MaxBlock : getTransactionById(t, b)
    \/ transactionEventProcess
    \/ \E b \in 1 .. MaxBlock : blockEvent(b)
    \/ SearchConfirmed
    \/ \E t \in Tx : ConfirmTransaction(t)
    \/ \E n \in posts : transactionEventPostProcess(n)
    \/ \E m \in sends : NotifySubscriber(m)
    \/ TransferAll \/ TransferInfoByHash \/ GatherSave
    \/ Crash

Spec == Init /\ [][Next]_vars

(***************************************************************************)
(* Fairness.  Blocks are mined, and block events keep coming, as they do   *)
(* while the chain grows: the last block of the model stands for all later *)
(* ones, and no other event need come at all.  A handler that waits to     *)
(* give its event to the loop gets its turn, since Go serves the senders   *)
(* of a channel in the order they came; the loop and every goroutine that  *)
(* was started run, and a mutex is granted to whoever waits for it.  The   *)
(* database may fail any number of times, but not for ever: a search or a  *)
(* save that block events make again and again succeeds one day.           *)
(***************************************************************************)
StoreRecovers ==
    /\ SF_vars(blockEvent(MaxBlock) /\ work'.step = "search")
    /\ SF_vars(SearchConfirmed /\ work'.step = "confirm")
    /\ \A t \in Tx : SF_vars(ConfirmTransaction(t) /\ recs'[t].confirmed)

FairSpec ==
    /\ Spec
    /\ WF_vars(Mine)
    /\ StoreRecovers
    /\ WF_vars(transactionEventProcess) /\ WF_vars(SearchConfirmed)
    /\ WF_vars(\E t \in Tx : ConfirmTransaction(t))
    /\ \A t \in Tx, c \in BOOLEAN :
         SF_vars(\E n \in posts : /\ n.tx = t /\ n.confirmed = c
                                 /\ transactionEventPostProcess(n))
    /\ WF_vars(\E m \in sends : NotifySubscriber(m))
    /\ WF_vars(TransferAll) /\ WF_vars(TransferInfoByHash) /\ WF_vars(GatherSave)

-----------------------------------------------------------------------------
(* Properties                                                               *)

Messages == [to : Services, note : Notification, ids : Managed \cup {NoAddr}]

Works ==
    {Idle}
    \cup [step : {"transaction"}, tx : Tx, block : 0 .. MaxBlock, seen : Rec \cup {NoRec}]
    \cup [step : {"search"}, block : 1 .. MaxBlock]
    \cup [step : {"confirm"}, block : 1 .. MaxBlock,
          due : UNION {[S -> Rec] : S \in SUBSET Tx}]

\* Every variable has the type its declaration says.
TypeOK ==
    /\ head \in 0 .. MaxBlock /\ place \in [Tx -> -1 .. MaxBlock]
    /\ recs \in [Tx -> Rec \cup {NoRec}]
    /\ work \in Works
    /\ posts \subseteq Notification /\ sends \subseteq Messages
    /\ received \in [Services -> SUBSET Messages]
    /\ gather \in [tx : Tx \cup {NoTx}, stage : {"none", "transfer", "lookup", "save"}]
    /\ info \in Rec \cup {NoRec} /\ gathered \subseteq Managed
    /\ confirmedTimes \in [Tx -> Nat] /\ crashes \in 0 .. MaxCrashes

\* A record tells the truth about the chain whatever order events came in: it
\* is in the block it names, and one the service may act on as confirmed has
\* MinConfirmations blocks on top of its own (event_block.go:18-63).
ConfirmedIsDeep ==
    \A t \in Tx : recs[t] # NoRec =>
        /\ ~recs[t].inPool => recs[t].block > 0 /\ place[t] = recs[t].block
        /\ recs[t].confirmed =>
             /\ ~recs[t].inPool
             /\ head - recs[t].block >= MinConfirmations - IF recs[t].ignore THEN 1 ELSE 0

Told == posts \cup {m.note : m \in sends} \cup {m.note : m \in UNION {received[s] : s \in Services}}

\* What a service is told of a transfer or a block is true of the chain even
\* if it is told late: the block is the transfer's, the count of confirmations
\* is not above the real one and "confirmed" comes with at least
\* MinConfirmations of them (event_transaction.go:62-70, event_block.go:33-63).
TruthfulNotifications ==
    \A n \in Told :
        /\ n.block <= head
        /\ n.tx # NoTx =>
             /\ n.inPool <=> n.block = 0
             /\ n.block > 0 => place[n.tx] = n.block
                              /\ n.confirmations \in 1 .. head - n.block + 1
             /\ n.inPool => n.confirmations = 0 /\ ~n.confirmed
             /\ n.confirmed => n.confirmations >= MinConfirmations

\* A transfer is told "confirmed" at most once, though block events repeat and
\* the process restarts (event_block.go:49-63; the search asks for Confirmed =
\* false).
OneConfirmedNotification == \A t \in Tx : confirmedTimes[t] <= 1

\* "Confirmed" is true when it is written and told once, however block events,
\* a gathering and restarts interleave (event_block.go:18-63).
ConfirmedOnceAndDeep == ConfirmedIsDeep /\ OneConfirmedNotification

\* Coins leave an address only after a transfer to it was confirmed
\* (event_transaction.go:105-107).
GatherOnlyConfirmed ==
    \A a \in gathered : \E t \in Tx :
        To[t] = a /\ recs[t] # NoRec /\ recs[t].confirmed

\* What the records of the transfers from outside do is a life from unknown
\* over pending and mined to confirmed, never back, with a gathering writing
\* the same database and crashes at any point.
StageOf(t) ==
    IF recs[t] = NoRec THEN "unknown"
    ELSE IF recs[t].inPool THEN "pending"
    ELSE IF recs[t].confirmed THEN "confirmed" ELSE "mined"

Life == INSTANCE TransferLifecycle WITH
            Transfers <- Outside,
            height <- head,
            minedIn <- [t \in Outside |-> place[t]],
            stage <- [t \in Outside |-> StageOf(t)],
            inBlock <- [t \in Outside |-> IF recs[t] = NoRec THEN 0 ELSE recs[t].block]

Lifecycle == Life!LSpec

\* Once a transfer is known to be in a block and the chain grows past it far
\* enough, its record gets confirmed, though searches and saves fail any number
\* of times and the process crashes on the way: a later block event searches
\* again (event_block.go:43-63).
EventuallyConfirmed ==
    \A t \in Outside :
        (StageOf(t) = "mined" /\ recs[t].block + MinConfirmations <= MaxBlock)
            ~> (StageOf(t) = "confirmed")

\* The recipient's service has the "confirmed" message of transfer t.
Delivered(t) ==
    \E s \in IncomingTo([tx |-> t]) : \E m \in received[s] :
        m.note.tx = t /\ m.note.confirmed

\* If each message's one attempt succeeds and the process does not crash from then
\* on, the service of a recipient that asked for incoming transfers gets the
\* "confirmed" message of every transfer whose record is in a block, whatever
\* crashes and failed searches and saves came before or still come: the
\* post-processing it has to go through waits for notifyMux, which a gathering
\* holds over its calls of the node (event_transaction.go:75-107), and no order
\* of the two loses it.
EventuallyDelivered ==
    \A t \in Outside, n \in 0 .. MaxCrashes :
        (/\ StageOf(t) = "mined" /\ recs[t].block + MinConfirmations <= MaxBlock
         /\ IncomingTo([tx |-> t]) # {} /\ crashes = n)
            ~> (Delivered(t) \/ crashes > n)

\* What the documents promise whatever becomes of an attempt (README.md:299 and
\* API.md:1150: "Event delivery is at-least-once").  The code does not keep it:
\* sendNotification tries once (subscriptions.go:181).
AtLeastOnce ==
    \A t \in Outside :
        (StageOf(t) = "confirmed" /\ IncomingTo([tx |-> t]) # {}) ~> Delivered(t)
=============================================================================
