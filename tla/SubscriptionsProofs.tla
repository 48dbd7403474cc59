------------------------ MODULE SubscriptionsProofs ------------------------
(***************************************************************************)
(* Theorems about the event loop, the notifications and the gathering, for *)
(* every set of transfers, services and addresses, every number of         *)
(* confirmations, failing store or messages, and any number of crashes.    *)
(***************************************************************************)
EXTENDS Subscriptions, TLAPS

(***************************************************************************)
(* The inductive invariant.  The loop and a gathering read the database in *)
(* one step and write it in another, so that what the database holds is    *)
(* true needs that everything they carry in between was, and stays, true.  *)
(***************************************************************************)

PlacesOnChain == \A t \in Tx : place[t] <= head

\* What record r says of transfer t is true of the chain.
TrueRec(t, r) ==
    /\ r.inPool <=> r.block = 0
    /\ r.block > 0 => place[t] = r.block
    /\ r.confirmed => /\ r.block > 0
                      /\ head - r.block >= MinConfirmations - IF r.ignore THEN 1 ELSE 0

RecsTrue == \A t \in Tx : recs[t] # NoRec => TrueRec(t, recs[t])

\* The event being handled, and the record read for it.
SeenTrue ==
    work.step = "transaction" =>
        /\ \/ work.block = 0 /\ place[work.tx] >= 0
           \/ work.block > 0 /\ place[work.tx] = work.block
        /\ work.seen # NoRec => TrueRec(work.tx, work.seen)

\* The records found to be due: deep enough below the block of the event.
DueTrue ==
    /\ work.step \in {"search", "confirm"} => work.block <= head
    /\ work.step = "confirm" =>
         \A t \in DOMAIN work.due :
             /\ TrueRec(t, work.due[t])
             /\ ~work.due[t].inPool /\ ~work.due[t].confirmed
             /\ work.due[t].block + MinConfirmations <= work.block

\* The gathering in progress: its transfer, and what was looked up about it.
GatherTrue ==
    /\ gather.stage # "none" => gather.tx \in Tx /\ GatherTx[gather.tx] \in Tx
    /\ gather.stage \in {"lookup", "save"} => place[GatherTx[gather.tx]] >= 0
    /\ gather.stage = "save" =>
         info # NoRec /\ info.ignore /\ TrueRec(GatherTx[gather.tx], info)

PostsOfTransfers == \A n \in posts : n.tx \in Tx

RecordInv ==
    /\ TypeOK /\ PlacesOnChain /\ RecsTrue /\ SeenTrue /\ DueTrue
    /\ GatherTrue /\ PostsOfTransfers

\* What one notification says is true of the chain.
TrueNote(n) ==
    /\ n.block <= head
    /\ n.tx # NoTx =>
         /\ n.inPool <=> n.block = 0
         /\ n.block > 0 => place[n.tx] = n.block
                          /\ n.confirmations \in 1 .. head - n.block + 1
         /\ n.inPool => n.confirmations = 0 /\ ~n.confirmed
         /\ n.confirmed => n.confirmations >= MinConfirmations

NotesTrue ==
    /\ \A n \in posts : TrueNote(n)
    /\ \A m \in sends : TrueNote(m.note)
    /\ \A s \in Services : \A m \in received[s] : TrueNote(m.note)

\* A transfer told "confirmed" is not told again: the record, and whatever the
\* loop has read of it, is confirmed or was replaced by one to be ignored.
Settled(r) == r # NoRec /\ (r.confirmed \/ r.ignore)

ToldOnce ==
    /\ \A t \in Tx : confirmedTimes[t] \in {0, 1}
    /\ \A t \in Tx : confirmedTimes[t] = 1 => Settled(recs[t])
    /\ work.step = "transaction" /\ confirmedTimes[work.tx] = 1 => Settled(work.seen)
    /\ work.step = "confirm" =>
         \A t \in DOMAIN work.due : confirmedTimes[t] = 1 => work.due[t].ignore

\* Whoever acts on "confirmed" does so after it was told.
ActsOnTold ==
    /\ \A n \in posts : n.confirmed => confirmedTimes[n.tx] = 1
    /\ gather.stage # "none" => confirmedTimes[gather.tx] = 1
    /\ \A a \in gathered : \E t \in Tx : /\ To[t] = a /\ confirmedTimes[t] = 1
                                        /\ GatherTx[t] \in Tx

\* The records of the transfers from outside have one writer, the loop, which
\* therefore holds what the database does.
LoopOwns ==
    /\ \A t \in Outside : recs[t] # NoRec => ~recs[t].ignore
    /\ work.step = "transaction" /\ work.tx \in Outside => work.seen = recs[work.tx]
    /\ work.step = "confirm" =>
         \A t \in DOMAIN work.due \cap Outside : work.due[t] = recs[t]

IInv == RecordInv /\ NotesTrue /\ ToldOnce /\ ActsOnTold /\ LoopOwns

-----------------------------------------------------------------------------
(* Lemmas about the model's operators                                       *)

\* What the loop may be doing, by its step.
LEMMA WorkShape ==
    ASSUME NEW w \in Works
    PROVE  /\ w.step \in {"idle", "transaction", "search", "confirm"}
           /\ w.step = "transaction" => /\ w.tx \in Tx /\ w.block \in 0 .. MaxBlock
                                        /\ w.seen \in Rec \cup {NoRec}
           /\ w.step = "search" => w.block \in 1 .. MaxBlock
           /\ w.step = "confirm" => /\ w.block \in 1 .. MaxBlock
                                    /\ DOMAIN w.due \subseteq Tx
                                    /\ w.due \in [DOMAIN w.due -> Rec]
                                    /\ w = [step |-> "confirm", block |-> w.block, due |-> w.due]
<1>1. CASE w = Idle
  BY <1>1 DEF Idle
<1>2. CASE w \in [step : {"transaction"}, tx : Tx, block : 0 .. MaxBlock,
                  seen : Rec \cup {NoRec}]
  BY <1>2
<1>3. CASE w \in [step : {"search"}, block : 1 .. MaxBlock]
  BY <1>3
<1>4. CASE w \in [step : {"confirm"}, block : 1 .. MaxBlock,
                  due : UNION {[S -> Rec] : S \in SUBSET Tx}]
  <2>1. w.step = "confirm" /\ w.block \in 1 .. MaxBlock
        /\ w.due \in UNION {[S -> Rec] : S \in SUBSET Tx}
        /\ w = [step |-> "confirm", block |-> w.block, due |-> w.due]
    BY <1>4
  <2>2. PICK S \in SUBSET Tx : w.due \in [S -> Rec]
    BY <2>1
  <2>3. QED
    BY <2>1, <2>2
<1>5. QED
  BY <1>1, <1>2, <1>3, <1>4 DEF Works

\* The records of a list of due transfers make a "confirm" state of the loop.
LEMMA ConfirmIsWork ==
    ASSUME NEW b \in 1 .. MaxBlock, NEW S \in SUBSET Tx, NEW d \in [S -> Rec]
    PROVE  [step |-> "confirm", block |-> b, due |-> d] \in Works
<1>1. d \in UNION {[T -> Rec] : T \in SUBSET Tx}
  OBVIOUS
<1>2. QED
  BY <1>1 DEF Works

LEMMA IdleIsWork == Idle \in Works /\ Idle.step = "idle"
<1>1. QED
  BY DEF Works, Idle

\* The records the program makes are records.
LEMMA NewRecType ==
    ASSUME NEW b \in 0 .. MaxBlock
    PROVE  /\ NewRec(b) \in Rec /\ NewRec(b) # NoRec
           /\ NewRec(b).block = b /\ (NewRec(b).inPool <=> b = 0)
           /\ ~NewRec(b).confirmed /\ ~NewRec(b).ignore
<1>1. NewRec(b) \in Rec
  BY DEF NewRec, Rec
<1>2. QED
  BY <1>1, NoRecAssumption DEF NewRec

\* A notification has the fields of its record.
LEMMA NotifyType ==
    ASSUME NEW t \in Tx, NEW r \in Rec, NEW k \in 0 .. MaxBlock + 1
    PROVE  /\ Notify(t, r, k) \in Notification
           /\ Notify(t, r, k).tx = t /\ Notify(t, r, k).block = r.block
           /\ Notify(t, r, k).inPool = r.inPool
           /\ Notify(t, r, k).confirmed = r.confirmed
           /\ Notify(t, r, k).confirmations = k
<1>1. QED
  BY DEF Notify, Notification, Rec

\* What the search for confirmed transfers finds is deep enough.
LEMMA BeforeIsDeep ==
    ASSUME RecordInv, NEW b \in 1 .. MaxBlock,
           NEW t \in SearchTransactionsBeforeBlock(ConfirmedBlock(b))
    PROVE  /\ t \in Tx /\ recs[t] \in Rec /\ recs[t] # NoRec
           /\ ~recs[t].inPool /\ ~recs[t].confirmed
           /\ recs[t].block > 0
           /\ recs[t].block + MinConfirmations <= b
<1>1. t \in Tx /\ recs[t] # NoRec /\ ~recs[t].inPool /\ ~recs[t].confirmed
      /\ recs[t].block < ConfirmedBlock(b)
  BY DEF SearchTransactionsBeforeBlock, Unconfirmed
<1>2. recs[t] \in Rec
  BY <1>1 DEF RecordInv, TypeOK
<1>3. recs[t].block \in 0 .. MaxBlock /\ recs[t].inPool \in BOOLEAN
  BY <1>2 DEF Rec
<1>4. recs[t].block > 0
  BY <1>1, <1>3, SubscriptionsAssumption DEF RecordInv, RecsTrue, TrueRec
<1>5. recs[t].block + MinConfirmations <= b
  BY <1>1, <1>3, <1>4, SubscriptionsAssumption DEF ConfirmedBlock
<1>6. QED
  BY <1>1, <1>2, <1>4, <1>5

\* A step of the chain leaves what is true of a transfer true.
ChainKept ==
    /\ head' \in Int /\ head' >= head
    /\ \A t \in Tx : /\ place[t] > 0 => place'[t] = place[t]
                     /\ place[t] >= 0 => place'[t] >= 0

LEMMA TrueRecKept ==
    ASSUME TypeOK, ChainKept, NEW t \in Tx, NEW r \in Rec, TrueRec(t, r)
    PROVE  TrueRec(t, r)'
<1>1. head \in Int /\ r.block \in Int /\ place[t] \in Int /\ MinConfirmations \in Int
  BY SubscriptionsAssumption DEF TypeOK, Rec
<1>2. QED
  BY <1>1 DEF ChainKept, TrueRec

LEMMA TrueNoteKept ==
    ASSUME TypeOK, ChainKept, NEW n \in Notification, TrueNote(n)
    PROVE  TrueNote(n)'
<1>1. head \in Int /\ n.block \in Int /\ n.confirmations \in Int
      /\ (n.tx # NoTx => n.tx \in Tx /\ place[n.tx] \in Int) /\ MinConfirmations \in Int
  BY SubscriptionsAssumption DEF TypeOK, Notification
<1>2. QED
  BY <1>1 DEF ChainKept, TrueNote

\* Every step keeps the chain's blocks.
LEMMA ChainIsKept == TypeOK /\ PlacesOnChain /\ [Next]_vars => ChainKept
<1> SUFFICES ASSUME TypeOK, PlacesOnChain, [Next]_vars PROVE ChainKept
  OBVIOUS
<1>1. head \in Int /\ place \in [Tx -> -1 .. MaxBlock]
  BY DEF TypeOK
<1>2. CASE head' = head /\ place' = place
  BY <1>1, <1>2 DEF ChainKept
<1>3. ASSUME NEW t \in Tx, Submit(t) PROVE ChainKept
  BY <1>1, <1>3 DEF Submit, ChainKept
<1>4. CASE Mine
  <2>1. PICK S \in SUBSET {t \in Tx : place[t] = 0} :
            place' = [t \in Tx |-> IF t \in S THEN head + 1 ELSE place[t]]
    BY <1>4 DEF Mine
  <2>2. head' = head + 1 /\ head \in Nat
    BY <1>4 DEF Mine, TypeOK
  <2>3. \A t \in Tx : t \in S => place[t] = 0
    BY <2>1
  <2>4. QED
    BY <1>1, <2>1, <2>2, <2>3 DEF ChainKept
<1>5. CASE TransferAll
  BY <1>1, <1>5 DEF TransferAll, ChainKept
<1>6. QED
  BY <1>2, <1>3, <1>4, <1>5
  DEF Next, vars, chain, getTransactionById, transactionEventProcess, blockEvent,
      SearchConfirmed, ConfirmTransaction, transactionEventPostProcess,
      NotifySubscriber, TransferInfoByHash, GatherSave, Crash

-----------------------------------------------------------------------------
(* Types and true records                                                   *)

LEMMA RecordInit == Init => RecordInv
<1> SUFFICES ASSUME Init PROVE RecordInv
  OBVIOUS
<1>1. head = 0 /\ place = [t \in Tx |-> -1] /\ recs = [t \in Tx |-> NoRec]
      /\ posts = {} /\ sends = {} /\ received = [s \in Services |-> {}]
      /\ work = Idle /\ gather = NotGathering /\ info = NoRec /\ gathered = {}
      /\ confirmedTimes = [t \in Tx |-> 0] /\ crashes = 0
  BY DEF Init
<1>2. gather \in [tx : Tx \cup {NoTx}, stage : {"none", "transfer", "lookup", "save"}]
      /\ gather.stage = "none"
  BY <1>1 DEF NotGathering
<1>3. TypeOK
  BY <1>1, <1>2, IdleIsWork, SubscriptionsAssumption DEF TypeOK
<1>4. PlacesOnChain /\ RecsTrue /\ PostsOfTransfers
  BY <1>1 DEF PlacesOnChain, RecsTrue, PostsOfTransfers
<1>5. SeenTrue /\ DueTrue /\ GatherTrue
  BY <1>1, <1>2, IdleIsWork DEF SeenTrue, DueTrue, GatherTrue
<1>6. QED
  BY <1>3, <1>4, <1>5 DEF RecordInv

\* What a step does not write stays true, although the chain may grow.
LEMMA RecordKept ==
    ASSUME RecordInv, [Next]_vars
    PROVE  /\ recs' = recs => RecsTrue'
           /\ work' = work => SeenTrue' /\ DueTrue'
           /\ work' = Idle => SeenTrue' /\ DueTrue'
           /\ gather' = gather /\ info' = info => GatherTrue'
           /\ gather' = NotGathering => GatherTrue'
           /\ place' = place /\ head' = head => PlacesOnChain'
<1>1. TypeOK /\ ChainKept
  BY ChainIsKept DEF RecordInv
<1>2. ASSUME recs' = recs PROVE RecsTrue'
  <2> SUFFICES ASSUME NEW t \in Tx, recs[t] # NoRec PROVE TrueRec(t, recs[t])'
    BY <1>2 DEF RecsTrue
  <2>1. recs[t] \in Rec /\ TrueRec(t, recs[t])
    BY <1>1 DEF TypeOK, RecordInv, RecsTrue
  <2>2. QED
    BY <1>1, <1>2, <2>1, TrueRecKept DEF TrueRec
<1>3. ASSUME work' = work PROVE SeenTrue'
  <2> SUFFICES ASSUME work.step = "transaction" PROVE SeenTrue'
    BY <1>3 DEF SeenTrue
  <2>1. work.tx \in Tx /\ work.block \in 0 .. MaxBlock /\ work.seen \in Rec \cup {NoRec}
    BY <1>1, WorkShape DEF TypeOK
  <2>2. place[work.tx] \in Int
    BY <1>1, <2>1 DEF TypeOK
  <2>3. \/ work.block = 0 /\ place[work.tx] >= 0
        \/ work.block > 0 /\ place[work.tx] = work.block
    BY DEF RecordInv, SeenTrue
  <2>4. \/ work.block = 0 /\ place'[work.tx] >= 0
        \/ work.block > 0 /\ place'[work.tx] = work.block
    BY <1>1, <2>1, <2>2, <2>3 DEF ChainKept
  <2>5. work.seen # NoRec => TrueRec(work.tx, work.seen)'
    BY <1>1, <1>3, <2>1, TrueRecKept DEF RecordInv, SeenTrue, TrueRec
  <2>6. QED
    BY <1>3, <2>4, <2>5 DEF SeenTrue
<1>4. ASSUME work' = work PROVE DueTrue'
  <2>1. work.step \in {"search", "confirm"} => work.block <= head'
    BY <1>1, WorkShape DEF RecordInv, DueTrue, ChainKept, TypeOK
  <2>2. ASSUME work.step = "confirm", NEW t \in DOMAIN work.due
        PROVE  TrueRec(t, work.due[t])'
    <3>1. t \in Tx /\ work.due[t] \in Rec
      BY <1>1, <2>2, WorkShape DEF TypeOK
    <3>2. TrueRec(t, work.due[t])
      BY <2>2 DEF RecordInv, DueTrue
    <3>3. QED
      BY <1>1, <1>4, <3>1, <3>2, TrueRecKept DEF TrueRec
  <2>3. QED
    BY <1>4, <2>1, <2>2 DEF RecordInv, DueTrue
<1>5. ASSUME work' = Idle PROVE SeenTrue' /\ DueTrue'
  BY <1>5, IdleIsWork DEF SeenTrue, DueTrue
<1>6. ASSUME gather' = gather, info' = info PROVE GatherTrue'
  <2>1. gather.stage # "none" => gather.tx \in Tx /\ GatherTx[gather.tx] \in Tx
    BY DEF RecordInv, GatherTrue
  <2>2. gather.stage \in {"lookup", "save"} => place'[GatherTx[gather.tx]] >= 0
    BY <1>1, <2>1 DEF RecordInv, GatherTrue, ChainKept
  <2>3. ASSUME gather.stage = "save"
        PROVE  info # NoRec /\ info.ignore /\ TrueRec(GatherTx[gather.tx], info)'
    <3>1. info # NoRec /\ info.ignore /\ TrueRec(GatherTx[gather.tx], info)
      BY <2>3 DEF RecordInv, GatherTrue
    <3>2. info \in Rec
      BY <1>1, <3>1 DEF TypeOK
    <3>3. GatherTx[gather.tx] \in Tx
      BY <2>1, <2>3
    <3>4. QED
      BY <1>1, <1>6, <3>1, <3>2, <3>3, TrueRecKept DEF TrueRec
  <2>4. QED
    BY <1>6, <2>1, <2>2, <2>3 DEF GatherTrue
<1>7. ASSUME gather' = NotGathering PROVE GatherTrue'
  BY <1>7 DEF NotGathering, GatherTrue
<1>8. place' = place /\ head' = head => PlacesOnChain'
  BY DEF RecordInv, PlacesOnChain
<1>9. QED
  BY <1>2, <1>3, <1>4, <1>5, <1>6, <1>7, <1>8

\* transactionEventProcess saves a true record and tells it.
LEMMA TransactionRecord ==
    ASSUME RecordInv, transactionEventProcess
    PROVE  /\ recs' \in [Tx -> Rec \cup {NoRec}]
           /\ posts' \subseteq Notification /\ PostsOfTransfers'
           /\ \A t \in Tx : recs'[t] # NoRec => TrueRec(t, recs'[t])
<1> DEFINE t == work.tx  b == work.block  r == work.seen
<1>1. TypeOK /\ work.step = "transaction"
  BY DEF RecordInv, transactionEventProcess
<1>2. t \in Tx /\ b \in 0 .. MaxBlock /\ r \in Rec \cup {NoRec}
  BY <1>1, WorkShape DEF TypeOK
<1>3. recs \in [Tx -> Rec \cup {NoRec}] /\ posts \subseteq Notification
      /\ (\A n \in posts : n.tx \in Tx)
      /\ (\A u \in Tx : recs[u] # NoRec => TrueRec(u, recs[u]))
  BY <1>1 DEF TypeOK, RecordInv, PostsOfTransfers, RecsTrue
<1>4. \/ b = 0 /\ place[t] >= 0
      \/ b > 0 /\ place[t] = b
  BY <1>1 DEF RecordInv, SeenTrue
<1>5. CASE r = NoRec /\ NewTransfer(t, b)
  <2>1. NewRec(b) \in Rec /\ TrueRec(t, NewRec(b))
    BY <1>2, <1>4, NewRecType DEF TrueRec
  <2>2. Notify(t, NewRec(b), IF b = 0 THEN 0 ELSE 1) \in Notification
        /\ Notify(t, NewRec(b), IF b = 0 THEN 0 ELSE 1).tx = t
    BY <1>2, <2>1, NotifyType, SubscriptionsAssumption
  <2>3. PICK ok \in StoreResults :
            /\ saveTransaction(t, NewRec(b), ok)
            /\ posts' = IF ok THEN posts \cup {Notify(t, NewRec(b), IF b = 0 THEN 0 ELSE 1)}
                        ELSE posts
    BY <1>5 DEF NewTransfer
  <2>4. QED
    BY <1>2, <1>3, <2>1, <2>2, <2>3 DEF saveTransaction, PostsOfTransfers
<1>6. CASE r # NoRec /\ MovesToBlock(r, b) /\ PendingTransferMined(t, b, r)
  <2> DEFINE new == [r EXCEPT !.block = b, !.inPool = FALSE]
  <2>1. r \in Rec /\ TrueRec(t, r) /\ r.inPool /\ b > 0
    BY <1>1, <1>2, <1>6 DEF RecordInv, SeenTrue, MovesToBlock
  <2>2. new \in Rec /\ new.block = b /\ ~new.inPool
        /\ new.confirmed = r.confirmed /\ new.ignore = r.ignore
    BY <1>2, <2>1 DEF Rec
  <2> HIDE DEF new
  <2>3. TrueRec(t, new)
    BY <1>2, <1>4, <2>1, <2>2 DEF TrueRec, Rec
  <2>4. Notify(t, new, 1) \in Notification /\ Notify(t, new, 1).tx = t
    BY <1>2, <2>2, NotifyType, SubscriptionsAssumption
  <2>5. PICK ok \in StoreResults : saveTransaction(t, new, ok)
    BY <1>6 DEF PendingTransferMined, new
  <2>6. posts' = posts \cup {Notify(t, new, 1)}
    BY <1>6 DEF PendingTransferMined, new
  <2>7. QED
    BY <1>2, <1>3, <2>2, <2>3, <2>4, <2>5, <2>6 DEF saveTransaction, PostsOfTransfers
<1>7. CASE UNCHANGED <<recs, posts>>
  BY <1>3, <1>7 DEF PostsOfTransfers
<1>8. QED
  BY <1>5, <1>6, <1>7 DEF transactionEventProcess

\* ConfirmTransaction saves a true record, tells it, and keeps the rest of the
\* list.
LEMMA ConfirmRecord ==
    ASSUME RecordInv, NEW t \in Tx, ConfirmTransaction(t)
    PROVE  /\ recs' \in [Tx -> Rec \cup {NoRec}]
           /\ posts' \subseteq Notification /\ PostsOfTransfers'
           /\ \A u \in Tx : recs'[u] # NoRec => TrueRec(u, recs'[u])
           /\ confirmedTimes' \in [Tx -> Nat]
           /\ work' \in Works /\ SeenTrue' /\ DueTrue'
<1> DEFINE d == work.due[t]
           done == [work.due[t] EXCEPT !.confirmed = TRUE]
           rest == DOMAIN work.due \ {t}
           note == Notify(t, done, work.block - done.block)
<1>1. TypeOK /\ work.step = "confirm" /\ t \in DOMAIN work.due
      /\ head' = head /\ place' = place
  BY DEF RecordInv, ConfirmTransaction, NextDue, chain
<1>2. work.block \in 1 .. MaxBlock /\ DOMAIN work.due \subseteq Tx
      /\ work.due \in [DOMAIN work.due -> Rec]
      /\ work = [step |-> "confirm", block |-> work.block, due |-> work.due]
  BY <1>1, WorkShape DEF TypeOK
<1>3. d \in Rec /\ TrueRec(t, d) /\ ~d.inPool /\ ~d.confirmed
      /\ d.block + MinConfirmations <= work.block /\ work.block <= head
  BY <1>1, <1>2 DEF RecordInv, DueTrue
<1>4. done \in Rec /\ done.block = d.block /\ ~done.inPool /\ done.confirmed
      /\ done.ignore = d.ignore
  BY <1>3 DEF Rec
<1>5. head \in Int /\ d.block \in 0 .. MaxBlock /\ MinConfirmations \in Nat \ {0}
  BY <1>1, <1>3, SubscriptionsAssumption DEF TypeOK, Rec
<1>6. TrueRec(t, done)
  <2> HIDE DEF done, d
  <2>1. QED
    BY <1>2, <1>3, <1>4, <1>5 DEF TrueRec
<1>7. note \in Notification /\ note.tx = t
  <2> HIDE DEF done, d
  <2>1. work.block - done.block \in 0 .. MaxBlock + 1
    BY <1>2, <1>3, <1>4, <1>5, SubscriptionsAssumption
  <2>2. QED
    BY <1>4, <2>1, NotifyType
<1>8. PICK ok \in StoreResults :
          /\ saveTransaction(t, done, ok)
          /\ posts' = IF ok /\ ~done.ignore THEN posts \cup {note} ELSE posts
          /\ confirmedTimes' = IF ok /\ ~done.ignore
                               THEN [confirmedTimes EXCEPT ![t] = @ + 1]
                               ELSE confirmedTimes
  BY DEF ConfirmTransaction
<1>9. work' = IF rest = {} THEN Idle
              ELSE [work EXCEPT !.due = [u \in rest |-> work.due[u]]]
  BY DEF ConfirmTransaction
<1>10. recs' \in [Tx -> Rec \cup {NoRec}]
       /\ \A u \in Tx : recs'[u] # NoRec => TrueRec(u, recs'[u])
  <2>1. recs' = IF ok THEN [recs EXCEPT ![t] = done] ELSE recs
    BY <1>8 DEF saveTransaction
  <2>2. recs \in [Tx -> Rec \cup {NoRec}]
        /\ \A u \in Tx : recs[u] # NoRec => TrueRec(u, recs[u])
    BY <1>1 DEF TypeOK, RecordInv, RecsTrue
  <2> HIDE DEF done
  <2>3. QED
    BY <1>4, <1>6, <2>1, <2>2
<1>11. posts' \subseteq Notification /\ PostsOfTransfers'
  BY <1>1, <1>7, <1>8 DEF TypeOK, RecordInv, PostsOfTransfers
<1>12. confirmedTimes' \in [Tx -> Nat]
  BY <1>1, <1>8 DEF TypeOK
<1>13. work' \in Works /\ SeenTrue' /\ DueTrue'
  <2>1. CASE rest = {}
    BY <1>9, <2>1, IdleIsWork DEF SeenTrue, DueTrue
  <2>2. CASE rest # {}
    <3> DEFINE due == [u \in rest |-> work.due[u]]
    <3>1. work' = [step |-> "confirm", block |-> work.block, due |-> due]
      BY <1>2, <1>9, <2>2
    <3>2. rest \in SUBSET Tx /\ due \in [rest -> Rec]
      BY <1>2
    <3>3. work' \in Works
      BY <1>2, <3>1, <3>2, ConfirmIsWork
    <3>4. work'.step = "confirm" /\ work'.block = work.block /\ DOMAIN work'.due = rest
          /\ \A u \in rest : work'.due[u] = work.due[u] /\ u \in DOMAIN work.due
      BY <3>1
    <3>5. \A u \in rest : /\ TrueRec(u, work.due[u])
                          /\ ~work.due[u].inPool /\ ~work.due[u].confirmed
                          /\ work.due[u].block + MinConfirmations <= work.block
      BY <1>1 DEF RecordInv, DueTrue
    <3>6. QED
      BY <1>1, <1>3, <3>3, <3>4, <3>5 DEF SeenTrue, DueTrue, TrueRec
  <2>3. QED
    BY <2>1, <2>2
<1>14. QED
  BY <1>10, <1>11, <1>12, <1>13

\* The messages of a notification carry it to registered services.
LEMMA MessagesCarryNote ==
    ASSUME NEW n \in Notification, NEW ms \in MessagesOf(n), NEW m \in ms
    PROVE  m \in Messages /\ m.note = n
<1> DEFINE toSender(ids) == {Message(s, n, ids) : s \in OutgoingTo(n)}
           toRecipient == {Message(s, n, To[n.tx]) : s \in IncomingTo(n)}
<1>1. ~SenderUnknown(n)
  BY DEF MessagesOf
<1>2. OutgoingTo(n) \subseteq Services
  BY <1>1 DEF SenderUnknown, OutgoingTo
<1>3. ASSUME RecipientServed(n) PROVE IncomingTo(n) \subseteq Services /\ To[n.tx] \in Managed
  BY <1>3 DEF RecipientServed, IncomingTo
<1>4. ASSUME NEW ids \in Managed \cup {NoAddr}, NEW s \in Services
      PROVE  Message(s, n, ids) \in Messages /\ Message(s, n, ids).note = n
  BY DEF Message, Messages
<1>5. CASE RecipientServed(n) /\ toRecipient # {}
  <2>1. m \in toSender(NoAddr) \cup toRecipient \/ m \in toSender(To[n.tx]) \cup toRecipient
    BY <1>1, <1>5 DEF MessagesOf
  <2>2. QED
    BY <1>2, <1>3, <1>4, <1>5, <2>1
<1>6. CASE ~(RecipientServed(n) /\ toRecipient # {})
  <2>1. m \in toSender(NoAddr)
    BY <1>1, <1>6 DEF MessagesOf
  <2>2. QED
    BY <1>2, <1>4, <2>1
<1>7. QED
  BY <1>5, <1>6

\* The "confirmations count" notifications of block b.
LEMMA CountsType ==
    ASSUME RecordInv, NEW b \in 1 .. head, NEW n \in Counts(b)
    PROVE  \E t \in Tx : /\ recs[t] \in Rec /\ recs[t] # NoRec
                         /\ ~recs[t].inPool /\ ~recs[t].confirmed
                         /\ recs[t].block > 0 /\ recs[t].block < b
                         /\ b - recs[t].block + 1 \in 0 .. MaxBlock + 1
                         /\ n = Notify(t, recs[t], b - recs[t].block + 1)
<1>1. PICK t \in Tx : /\ recs[t] # NoRec /\ ~recs[t].inPool /\ ~recs[t].confirmed
                      /\ recs[t].block < b
                      /\ n = Notify(t, recs[t], b - recs[t].block + 1)
  BY DEF Counts, SearchTransactionsAfterBlock, Unconfirmed
<1>2. recs[t] \in Rec /\ head \in 0 .. MaxBlock
  BY <1>1 DEF RecordInv, TypeOK
<1>3. recs[t].block \in 0 .. MaxBlock
  BY <1>2 DEF Rec
<1>4. recs[t].block > 0
  BY <1>1, <1>3 DEF RecordInv, RecsTrue, TrueRec
<1>5. b - recs[t].block + 1 \in 0 .. MaxBlock + 1
  BY <1>1, <1>2, <1>3, <1>4, SubscriptionsAssumption
<1>6. QED
  BY <1>1, <1>2, <1>4, <1>5

\* A block event starts messages about the block.
LEMMA BlockMessages ==
    ASSUME NEW b \in 1 .. MaxBlock, NEW m \in blockNotifyServices(b)
    PROVE  m \in Messages /\ m.note.tx = NoTx /\ m.note.block = b
<1> DEFINE n == [tx |-> NoTx, block |-> b, inPool |-> FALSE, confirmed |-> FALSE,
                 confirmations |-> 0]
<1>1. n \in Notification /\ n.tx = NoTx /\ n.block = b
  BY SubscriptionsAssumption DEF Notification
<1> HIDE DEF n
<1>2. PICK s \in Services : m = Message(s, n, NoAddr)
  BY DEF blockNotifyServices, n
<1>3. QED
  BY <1>1, <1>2 DEF Message, Messages

\* The part of RecordInv about the transfer of a gathering, by its stages.
LEMMA GatherRecord ==
    ASSUME RecordInv, [Next]_vars, TransferAll \/ TransferInfoByHash \/ GatherSave
    PROVE  RecordInv'
<1> DEFINE g == GatherTx[gather.tx]
           GatherType == [tx : Tx \cup {NoTx}, stage : {"none", "transfer", "lookup", "save"}]
<1>1. TypeOK /\ PlacesOnChain /\ gather \in GatherType /\ g \in Tx /\ gather.tx \in Tx
  BY DEF RecordInv, GatherTrue, TypeOK, TransferAll, TransferInfoByHash, GatherSave
<1>2. PostsOfTransfers' /\ SeenTrue' /\ DueTrue'
  BY RecordKept DEF RecordInv, PostsOfTransfers, TransferAll, TransferInfoByHash,
                    GatherSave, outgoing
<1>3. NotGathering \in GatherType /\ NotGathering.stage = "none"
  BY DEF NotGathering
<1>4. CASE TransferAll
  <2>1. RecsTrue'
    BY <1>4, RecordKept DEF TransferAll
  <2>2. CASE /\ To[gather.tx] \in HasKey /\ place[g] = -1
             /\ place' = [place EXCEPT ![g] = 0]
             /\ gathered' = gathered \cup {To[gather.tx]}
             /\ gather' = [gather EXCEPT !.stage = "lookup"]
    <3>1. gather' \in GatherType /\ gather'.stage = "lookup" /\ gather'.tx = gather.tx
      BY <1>1, <2>2
    <3>2. place' \in [Tx -> -1 .. MaxBlock] /\ PlacesOnChain' /\ place'[g] = 0
      BY <1>1, <1>4, <2>2, SubscriptionsAssumption DEF TypeOK, PlacesOnChain, TransferAll
    <3>3. gathered' \subseteq Managed
      BY <1>1, <2>2, SubscriptionsAssumption DEF TypeOK
    <3>4. TypeOK'
      BY <1>1, <1>4, <3>1, <3>2, <3>3 DEF TypeOK, TransferAll, outgoing
    <3>5. GatherTrue'
      BY <1>1, <3>1, <3>2 DEF GatherTrue
    <3>6. QED
      BY <1>2, <2>1, <3>2, <3>4, <3>5 DEF RecordInv
  <2>3. CASE gather' = NotGathering /\ UNCHANGED <<place, gathered>>
    <3>1. TypeOK'
      BY <1>1, <1>3, <1>4, <2>3 DEF TypeOK, TransferAll, outgoing
    <3>2. PlacesOnChain' /\ GatherTrue'
      BY <1>4, <2>3, RecordKept DEF TransferAll
    <3>3. QED
      BY <1>2, <2>1, <3>1, <3>2 DEF RecordInv
  <2>4. QED
    BY <1>4, <2>2, <2>3 DEF TransferAll
<1>5. CASE TransferInfoByHash
  <2>1. RecsTrue' /\ PlacesOnChain'
    BY <1>5, RecordKept DEF TransferInfoByHash, chain
  <2>2. ASSUME NEW c \in {FALSE, place[g] > 0 /\ head - place[g] >= MinConfirmations - 1},
               info' = [NewRec(place[g]) EXCEPT !.confirmed = c, !.ignore = TRUE],
               gather' = [gather EXCEPT !.stage = "save"]
        PROVE  RecordInv'
    <3>1. place[g] \in 0 .. MaxBlock /\ head \in Int
      BY <1>1, <1>5 DEF RecordInv, GatherTrue, TypeOK, TransferInfoByHash
    <3>2. NewRec(place[g]) \in Rec
      BY <3>1, NewRecType
    <3>3. info' \in Rec /\ info'.block = place[g] /\ (info'.inPool <=> place[g] = 0)
          /\ info'.ignore
          /\ (info'.confirmed => place[g] > 0 /\ head - place[g] >= MinConfirmations - 1)
      <4>1. c \in BOOLEAN
        BY <2>2
      <4>2. info' \in Rec /\ info'.block = NewRec(place[g]).block
            /\ info'.inPool = NewRec(place[g]).inPool
            /\ info'.confirmed = c /\ info'.ignore = TRUE
        BY <2>2, <3>2, <4>1 DEF Rec
      <4>3. info'.block = place[g] /\ (info'.inPool <=> place[g] = 0)
        BY <3>1, <4>2, NewRecType
      <4>4. info'.confirmed => place[g] > 0 /\ head - place[g] >= MinConfirmations - 1
        BY <2>2, <4>2
      <4>5. QED
        BY <4>2, <4>3, <4>4
    <3>4. gather' \in GatherType /\ gather'.stage = "save" /\ gather'.tx = gather.tx
      BY <1>1, <2>2
    <3>5. TypeOK'
      BY <1>1, <1>5, <3>3, <3>4 DEF TypeOK, TransferInfoByHash, chain, outgoing
    <3>6. head' = head /\ place' = place
      BY <1>5 DEF TransferInfoByHash, chain
    <3>7. TrueRec(g, info)'
      BY <3>1, <3>3, <3>4, <3>6 DEF TrueRec
    <3>8. GatherTrue'
      BY <1>1, <3>1, <3>3, <3>4, <3>6, <3>7, NoRecAssumption DEF GatherTrue
    <3>9. QED
      BY <1>2, <2>1, <3>5, <3>8 DEF RecordInv
  <2>3. CASE gather' = NotGathering /\ UNCHANGED info
    <3>1. TypeOK'
      BY <1>1, <1>3, <1>5, <2>3 DEF TypeOK, TransferInfoByHash, chain, outgoing
    <3>2. GatherTrue'
      BY <2>3, RecordKept
    <3>3. QED
      BY <1>2, <2>1, <3>1, <3>2 DEF RecordInv
  <2>4. QED
    BY <1>5, <2>2, <2>3 DEF TransferInfoByHash
<1>6. CASE GatherSave
  <2>1. info \in Rec /\ TrueRec(g, info)
    BY <1>1, <1>6 DEF GatherSave, RecordInv, GatherTrue, TypeOK
  <2>2. PICK ok \in StoreResults : recs' = IF ok THEN [recs EXCEPT ![g] = info] ELSE recs
    BY <1>6 DEF GatherSave, saveTransaction
  <2>3. head' = head /\ place' = place /\ gather' = NotGathering /\ info' = NoRec
    BY <1>6 DEF GatherSave, chain
  <2>4. recs' \in [Tx -> Rec \cup {NoRec}] /\ RecsTrue'
    BY <1>1, <2>1, <2>2, <2>3 DEF TypeOK, RecordInv, RecsTrue, TrueRec
  <2>5. TypeOK'
    BY <1>1, <1>3, <1>6, <2>3, <2>4 DEF TypeOK, GatherSave, chain, outgoing
  <2>6. PlacesOnChain' /\ GatherTrue'
    BY <2>3, RecordKept
  <2>7. QED
    BY <1>2, <2>4, <2>5, <2>6 DEF RecordInv
<1>7. QED
  BY <1>4, <1>5, <1>6

\* A search for confirmed transfers hands true and deep records to the loop.
LEMMA SearchRecord ==
    ASSUME RecordInv, SearchConfirmed
    PROVE  work' \in Works /\ SeenTrue' /\ DueTrue'
<1> DEFINE due == SearchTransactionsBeforeBlock(ConfirmedBlock(work.block))
           d == [t \in due |-> recs[t]]
<1>1. TypeOK /\ work.step = "search" /\ head' = head /\ place' = place
  BY DEF RecordInv, SearchConfirmed, chain
<1>2. work.block \in 1 .. MaxBlock /\ work.block <= head
  BY <1>1, WorkShape DEF RecordInv, DueTrue, TypeOK
<1>3. \A t \in due : /\ t \in Tx /\ recs[t] \in Rec /\ recs[t] # NoRec
                     /\ ~recs[t].inPool /\ ~recs[t].confirmed
                     /\ recs[t].block + MinConfirmations <= work.block
  BY <1>2, BeforeIsDeep
<1>4. CASE work' = Idle
  BY <1>4, IdleIsWork DEF SeenTrue, DueTrue
<1>5. CASE work' = [step |-> "confirm", block |-> work.block, due |-> d]
  <2>1. due \in SUBSET Tx /\ d \in [due -> Rec]
    BY <1>3
  <2>2. work' \in Works
    BY <1>2, <1>5, <2>1, ConfirmIsWork
  <2>3. work'.step = "confirm" /\ work'.block = work.block /\ DOMAIN work'.due = due
        /\ \A t \in due : work'.due[t] = recs[t]
    BY <1>5
  <2>4. \A t \in due : TrueRec(t, recs[t])
    BY <1>3 DEF RecordInv, RecsTrue
  <2> HIDE DEF due, d
  <2>5. QED
    BY <1>1, <1>2, <1>3, <2>2, <2>3, <2>4 DEF SeenTrue, DueTrue, TrueRec
<1>6. QED
  BY <1>4, <1>5 DEF SearchConfirmed

\* Every step keeps the types and the truth of what is stored and carried.
LEMMA RecordNext == RecordInv /\ [Next]_vars => RecordInv'
<1> SUFFICES ASSUME RecordInv, [Next]_vars PROVE RecordInv'
  OBVIOUS
<1> USE DEF RecordInv
<1>0. TypeOK /\ NotGathering \in [tx : Tx \cup {NoTx}, stage : {"none", "transfer", "lookup", "save"}]
  BY DEF NotGathering
<1>1. CASE UNCHANGED vars
  <2>1. TypeOK' /\ PostsOfTransfers'
    BY <1>1 DEF vars, chain, outgoing, gathering, TypeOK, PostsOfTransfers
  <2>2. QED
    BY <1>1, <2>1, RecordKept DEF vars, chain, gathering
<1>2. ASSUME NEW t \in Tx, Submit(t) PROVE RecordInv'
  <2>1. TypeOK' /\ PostsOfTransfers' /\ PlacesOnChain'
    BY <1>2, SubscriptionsAssumption
    DEF Submit, outgoing, gathering, TypeOK, PostsOfTransfers, PlacesOnChain
  <2>2. QED
    BY <1>2, <2>1, RecordKept DEF Submit, gathering
<1>3. CASE Mine
  <2>1. PICK S \in SUBSET {t \in Tx : place[t] = 0} :
            place' = [t \in Tx |-> IF t \in S THEN head + 1 ELSE place[t]]
    BY <1>3 DEF Mine
  <2>2. head \in 0 .. MaxBlock /\ head < MaxBlock /\ head' = head + 1
        /\ place \in [Tx -> -1 .. MaxBlock]
    BY <1>3 DEF Mine, TypeOK
  <2>3. place' \in [Tx -> -1 .. MaxBlock] /\ PlacesOnChain' /\ head' \in 0 .. MaxBlock
    BY <2>1, <2>2, SubscriptionsAssumption DEF PlacesOnChain
  <2>4. TypeOK' /\ PostsOfTransfers'
    BY <1>3, <2>3 DEF Mine, outgoing, gathering, TypeOK, PostsOfTransfers
  <2>5. QED
    BY <1>3, <2>3, <2>4, RecordKept DEF Mine, gathering
<1>4. ASSUME NEW t \in Tx, NEW b \in 0 .. MaxBlock, getTransactionById(t, b) PROVE RecordInv'
  <2>1. work' = [step |-> "transaction", tx |-> t, block |-> b, seen |-> recs[t]]
        /\ recs[t] \in Rec \cup {NoRec} /\ head' = head /\ place' = place
    BY <1>4 DEF getTransactionById, TypeOK, chain
  <2>2. work' \in Works
    BY <2>1 DEF Works
  <2>3. TypeOK' /\ PostsOfTransfers'
    BY <1>4, <2>2
    DEF getTransactionById, chain, outgoing, gathering, TypeOK, PostsOfTransfers
  <2>4. \/ b = 0 /\ place[t] >= 0
        \/ b > 0 /\ place[t] = b
    BY <1>4 DEF getTransactionById, TrueTxEvent
  <2>5. SeenTrue' /\ DueTrue'
    BY <2>1, <2>4 DEF SeenTrue, DueTrue, RecsTrue, TrueRec
  <2>6. QED
    BY <1>4, <2>3, <2>5, RecordKept DEF getTransactionById, chain, gathering
<1>5. CASE transactionEventProcess
  <2>1. work' = Idle /\ head' = head /\ place' = place /\ gather' = gather /\ info' = info
        /\ UNCHANGED <<sends, received, gathered, confirmedTimes, crashes>>
    BY <1>5 DEF transactionEventProcess, chain, gathering
  <2>2. TypeOK' /\ PostsOfTransfers'
    BY <1>5, <2>1, TransactionRecord, IdleIsWork DEF TypeOK
  <2>3. RecsTrue'
    BY <1>5, <2>1, TransactionRecord DEF RecsTrue, TrueRec
  <2>4. QED
    BY <2>1, <2>2, <2>3, RecordKept
<1>6. ASSUME NEW b \in 1 .. MaxBlock, blockEvent(b) PROVE RecordInv'
  <2>1. b \in 1 .. head /\ head' = head /\ place' = place /\ recs' = recs
        /\ gather' = gather /\ info' = info
        /\ UNCHANGED <<received, gathered, confirmedTimes, crashes>>
        /\ sends' = sends \cup blockNotifyServices(b)
        /\ (posts' = posts \cup Counts(b) \/ posts' = posts)
        /\ (work' = [step |-> "search", block |-> b] \/ work' = Idle)
    BY <1>6 DEF blockEvent, chain, gathering
  <2>2. work' \in Works /\ SeenTrue' /\ DueTrue'
    <3>1. CASE work' = Idle
      BY <3>1, IdleIsWork DEF SeenTrue, DueTrue
    <3>2. CASE work' = [step |-> "search", block |-> b]
      BY <2>1, <3>2 DEF SeenTrue, DueTrue, Works
    <3>3. QED
      BY <2>1, <3>1, <3>2
  <2>3. sends' \subseteq Messages
    BY <2>1, BlockMessages DEF TypeOK
  <2>4. \A n \in Counts(b) : n \in Notification /\ n.tx \in Tx
    BY <2>1, CountsType, NotifyType
  <2>5. posts' \subseteq Notification /\ PostsOfTransfers'
    BY <2>1, <2>4 DEF TypeOK, PostsOfTransfers
  <2>6. TypeOK'
    BY <2>1, <2>2, <2>3, <2>5 DEF TypeOK
  <2>7. QED
    BY <2>1, <2>2, <2>5, <2>6, RecordKept
<1>7. CASE SearchConfirmed
  <2>1. work' \in Works /\ SeenTrue' /\ DueTrue'
    BY <1>7, SearchRecord
  <2>2. TypeOK' /\ PostsOfTransfers'
    BY <1>7, <2>1 DEF SearchConfirmed, chain, outgoing, gathering, TypeOK, PostsOfTransfers
  <2>3. QED
    BY <1>7, <2>1, <2>2, RecordKept DEF SearchConfirmed, chain, gathering
<1>8. ASSUME NEW t \in Tx, ConfirmTransaction(t) PROVE RecordInv'
  <2>1. head' = head /\ place' = place /\ gather' = gather /\ info' = info
        /\ UNCHANGED <<sends, received, gathered, crashes>>
    BY <1>8 DEF ConfirmTransaction, chain, gathering
  <2>2. TypeOK' /\ PostsOfTransfers' /\ SeenTrue' /\ DueTrue'
    BY <1>8, <2>1, ConfirmRecord DEF TypeOK
  <2>3. RecsTrue'
    BY <1>8, <2>1, ConfirmRecord DEF RecsTrue, TrueRec
  <2>4. QED
    BY <2>1, <2>2, <2>3, RecordKept
<1>9. ASSUME NEW n \in posts, transactionEventPostProcess(n) PROVE RecordInv'
  <2>1. n \in Notification /\ n.tx \in Tx
    BY DEF TypeOK, PostsOfTransfers
  <2>2. PICK ms \in MessagesOf(n) : sends' = sends \cup ms
    BY <1>9 DEF transactionEventPostProcess
  <2>3. head' = head /\ place' = place /\ recs' = recs /\ work' = work /\ info' = info
        /\ UNCHANGED <<received, gathered, confirmedTimes, crashes>>
        /\ posts' = posts \ {n}
    BY <1>9 DEF transactionEventPostProcess, chain
  <2>4. sends' \subseteq Messages
    BY <2>1, <2>2, MessagesCarryNote DEF TypeOK
  <2>5. gather' \in [tx : Tx \cup {NoTx}, stage : {"none", "transfer", "lookup", "save"}]
        /\ GatherTrue'
    <3>1. CASE Gathers(n)
      <4>1. gather' = [tx |-> n.tx, stage |-> "transfer"] /\ GatherTx[n.tx] # NoTx
        BY <1>9, <3>1 DEF transactionEventPostProcess, Gathers
      <4>2. GatherTx[n.tx] \in Tx
        BY <2>1, <4>1, SubscriptionsAssumption
      <4>3. QED
        BY <2>1, <4>1, <4>2 DEF GatherTrue
    <3>2. CASE ~Gathers(n)
      BY <1>0, <1>9, <2>3, <3>2, RecordKept DEF transactionEventPostProcess
    <3>3. QED
      BY <3>1, <3>2
  <2>6. TypeOK' /\ PostsOfTransfers'
    BY <2>3, <2>4, <2>5 DEF TypeOK, PostsOfTransfers
  <2>7. QED
    BY <2>3, <2>5, <2>6, RecordKept
<1>10. ASSUME NEW m \in sends, NotifySubscriber(m) PROVE RecordInv'
  <2>1. m \in Messages /\ m.to \in Services
    BY DEF TypeOK, Messages
  <2>2. received' \in [Services -> SUBSET Messages]
    BY <1>10, <2>1 DEF NotifySubscriber, TypeOK
  <2>3. TypeOK' /\ PostsOfTransfers'
    BY <1>10, <2>2 DEF NotifySubscriber, chain, gathering, TypeOK, PostsOfTransfers
  <2>4. QED
    BY <1>10, <2>3, RecordKept DEF NotifySubscriber, chain, gathering
<1>11. CASE TransferAll \/ TransferInfoByHash \/ GatherSave
  BY <1>11, GatherRecord
<1>12. CASE Crash
  <2>1. work' = Idle /\ posts' = {} /\ sends' = {} /\ gather' = NotGathering /\ info' = NoRec
        /\ head' = head /\ place' = place /\ recs' = recs
        /\ UNCHANGED <<received, gathered, confirmedTimes>>
        /\ crashes' = crashes + 1 /\ crashes < MaxCrashes
    BY <1>12 DEF Crash, chain
  <2>2. TypeOK' /\ PostsOfTransfers'
    BY <1>0, <2>1, IdleIsWork, SubscriptionsAssumption DEF TypeOK, PostsOfTransfers
  <2>3. QED
    BY <2>1, <2>2, RecordKept
<1>13. QED
  BY <1>1, <1>2, <1>3, <1>4, <1>5, <1>6, <1>7, <1>8, <1>9, <1>10, <1>11, <1>12 DEF Next

\* THEOREM: in every instance the loop, the notifications and the gathering
\* keep their types, and so does a count of confirmations: it is never negative
\* and never above the height of the chain plus one (event_block.go:33-63).
THEOREM TypeCorrect == Spec => []TypeOK
<1>1. Spec => []RecordInv
  BY RecordInit, RecordNext, PTL DEF Spec
<1>2. RecordInv => TypeOK
  BY DEF RecordInv
<1>3. QED
  BY <1>1, <1>2, PTL

-----------------------------------------------------------------------------
(* Truthful notifications                                                   *)

\* What transactionEventProcess tells is true.
LEMMA TransactionNotes ==
    ASSUME RecordInv, transactionEventProcess, NEW n \in posts', n \notin posts
    PROVE  TrueNote(n)
<1> DEFINE t == work.tx  b == work.block  r == work.seen
<1>1. TypeOK /\ work.step = "transaction" /\ PlacesOnChain
  BY DEF RecordInv, transactionEventProcess
<1>2. t \in Tx /\ b \in 0 .. MaxBlock /\ r \in Rec \cup {NoRec} /\ t # NoTx
  BY <1>1, WorkShape, SubscriptionsAssumption DEF TypeOK
<1>3. \/ b = 0 /\ place[t] >= 0
      \/ b > 0 /\ place[t] = b
  BY <1>1 DEF RecordInv, SeenTrue
<1>4. head \in Nat /\ b <= head /\ MinConfirmations \in Nat /\ MaxBlock \in Nat
  BY <1>1, <1>2, <1>3, SubscriptionsAssumption DEF TypeOK, PlacesOnChain
<1>5. CASE r = NoRec /\ NewTransfer(t, b)
  <2>1. n = Notify(t, NewRec(b), IF b = 0 THEN 0 ELSE 1)
    BY <1>5 DEF NewTransfer
  <2>2. n.tx = t /\ n.block = b /\ (n.inPool <=> b = 0) /\ ~n.confirmed
        /\ n.confirmations = IF b = 0 THEN 0 ELSE 1
    BY <1>2, <1>4, <2>1, NewRecType, NotifyType
  <2>3. QED
    BY <1>2, <1>3, <1>4, <2>2 DEF TrueNote
<1>6. CASE r # NoRec /\ MovesToBlock(r, b) /\ PendingTransferMined(t, b, r)
  <2> DEFINE new == [r EXCEPT !.block = b, !.inPool = FALSE]
  <2>1. r \in Rec /\ TrueRec(t, r) /\ r.inPool /\ b > 0
    BY <1>1, <1>2, <1>6 DEF RecordInv, SeenTrue, MovesToBlock
  <2>2. new \in Rec /\ new.block = b /\ ~new.inPool /\ new.confirmed = r.confirmed
    BY <1>2, <2>1 DEF Rec
  <2>3. n = Notify(t, new, 1)
    BY <1>6 DEF PendingTransferMined
  <2> HIDE DEF new
  <2>4. ~r.confirmed
    BY <2>1 DEF TrueRec, Rec
  <2>5. n.tx = t /\ n.block = b /\ ~n.inPool /\ ~n.confirmed /\ n.confirmations = 1
    BY <1>2, <1>4, <2>2, <2>3, <2>4, NotifyType
  <2>6. QED
    BY <1>2, <1>3, <1>4, <2>1, <2>5 DEF TrueNote
<1>7. QED
  BY <1>5, <1>6 DEF transactionEventProcess

\* What ConfirmTransaction tells is true: the count is of the event's block.
LEMMA ConfirmNotes ==
    ASSUME RecordInv, NEW t \in Tx, ConfirmTransaction(t), NEW n \in posts', n \notin posts
    PROVE  TrueNote(n) /\ n.confirmed /\ n.tx = t
<1> DEFINE d == work.due[t]
           done == [work.due[t] EXCEPT !.confirmed = TRUE]
<1>1. TypeOK /\ work.step = "confirm" /\ t \in DOMAIN work.due
  BY DEF RecordInv, ConfirmTransaction, NextDue
<1>2. work.block \in 1 .. MaxBlock /\ work.due \in [DOMAIN work.due -> Rec]
  BY <1>1, WorkShape DEF TypeOK
<1>3. d \in Rec /\ TrueRec(t, d) /\ ~d.inPool
      /\ d.block + MinConfirmations <= work.block /\ work.block <= head
  BY <1>1, <1>2 DEF RecordInv, DueTrue
<1>4. done \in Rec /\ done.block = d.block /\ ~done.inPool /\ done.confirmed
  BY <1>3 DEF Rec
<1>5. n = Notify(t, done, work.block - done.block)
  BY DEF ConfirmTransaction
<1> HIDE DEF d, done
<1>6. head \in Nat /\ d.block \in 0 .. MaxBlock /\ MinConfirmations \in Nat \ {0}
      /\ MaxBlock \in Nat /\ t # NoTx
  BY <1>1, <1>3, SubscriptionsAssumption DEF TypeOK, Rec
<1>7. d.block > 0 /\ place[t] = d.block
  BY <1>3, <1>6 DEF TrueRec
<1>8. work.block - done.block \in 0 .. MaxBlock + 1
  BY <1>2, <1>3, <1>4, <1>6
<1>9. n.tx = t /\ n.block = d.block /\ ~n.inPool /\ n.confirmed
      /\ n.confirmations = work.block - d.block
  BY <1>4, <1>5, <1>8, NotifyType
<1>10. QED
  BY <1>2, <1>3, <1>6, <1>7, <1>9 DEF TrueNote

LEMMA NotesInit == Init => NotesTrue
<1>1. QED
  BY DEF Init, NotesTrue

LEMMA NotesNext == RecordInv /\ NotesTrue /\ [Next]_vars => NotesTrue'
<1> SUFFICES ASSUME RecordInv, NotesTrue, [Next]_vars PROVE NotesTrue'
  OBVIOUS
<1>1. TypeOK /\ ChainKept
  BY ChainIsKept DEF RecordInv
<1>2. \A n \in Notification : TrueNote(n) => TrueNote(n)'
  BY <1>1, TrueNoteKept
<1>3. /\ posts \subseteq Notification
      /\ \A m \in sends : m.note \in Notification
      /\ \A s \in Services : \A m \in received[s] : m.note \in Notification
  BY <1>1 DEF TypeOK, Messages
<1>4. /\ \A n \in posts : TrueNote(n)'
      /\ \A m \in sends : TrueNote(m.note) /\ m.note \in Notification
      /\ \A s \in Services : \A m \in received[s] : TrueNote(m.note) /\ m.note \in Notification
  BY <1>2, <1>3 DEF NotesTrue
<1>5. ASSUME head' = head, place' = place, NEW n PROVE TrueNote(n) => TrueNote(n)'
  BY <1>5 DEF TrueNote
<1>6. ASSUME \A n \in posts' : n \in posts \/ TrueNote(n)',
             \A m \in sends' : m \in sends \/ (m.note \in Notification /\ TrueNote(m.note)),
             \A s \in Services : \A m \in received'[s] : m \in received[s] \/ m \in sends
      PROVE  NotesTrue'
  <2>1. \A n \in posts' : TrueNote(n)'
    BY <1>4, <1>6
  <2>2. \A m \in sends' : TrueNote(m.note) /\ m.note \in Notification
    BY <1>4, <1>6
  <2>3. \A s \in Services : \A m \in received'[s] : TrueNote(m.note) /\ m.note \in Notification
    BY <1>4, <1>6
  <2>4. \A m \in sends' : TrueNote(m.note)'
    BY <1>2, <2>2
  <2>5. \A s \in Services : \A m \in received'[s] : TrueNote(m.note)'
    BY <1>2, <2>3
  <2>6. QED
    BY <2>1, <2>4, <2>5 DEF NotesTrue
<1>7. ASSUME posts' \subseteq posts, sends' \subseteq sends, received' = received PROVE NotesTrue'
  BY <1>6, <1>7
<1>8. CASE transactionEventProcess
  <2>1. head' = head /\ place' = place /\ sends' = sends /\ received' = received
    BY <1>8 DEF transactionEventProcess, chain
  <2>2. \A n \in posts' : n \in posts \/ TrueNote(n)'
    BY <1>5, <1>8, <2>1, TransactionNotes
  <2>3. QED
    BY <1>6, <2>1, <2>2
<1>9. ASSUME NEW t \in Tx, ConfirmTransaction(t) PROVE NotesTrue'
  <2>1. head' = head /\ place' = place /\ sends' = sends /\ received' = received
    BY <1>9 DEF ConfirmTransaction, chain
  <2>2. \A n \in posts' : n \in posts \/ TrueNote(n)'
    BY <1>5, <1>9, <2>1, ConfirmNotes
  <2>3. QED
    BY <1>6, <2>1, <2>2
<1>10. ASSUME NEW b \in 1 .. MaxBlock, blockEvent(b) PROVE NotesTrue'
  <2>1. b \in 1 .. head /\ head' = head /\ place' = place /\ received' = received
        /\ sends' = sends \cup blockNotifyServices(b)
        /\ (posts' = posts \cup Counts(b) \/ posts' = posts)
    BY <1>10 DEF blockEvent, chain
  <2>2. ASSUME NEW n \in Counts(b) PROVE TrueNote(n)
    <3>1. PICK t \in Tx : /\ recs[t] \in Rec /\ recs[t] # NoRec
                          /\ ~recs[t].inPool /\ ~recs[t].confirmed
                          /\ recs[t].block > 0 /\ recs[t].block < b
                          /\ b - recs[t].block + 1 \in 0 .. MaxBlock + 1
                          /\ n = Notify(t, recs[t], b - recs[t].block + 1)
      BY <2>1, <2>2, CountsType
    <3>2. n.tx = t /\ n.block = recs[t].block /\ ~n.inPool /\ ~n.confirmed
          /\ n.confirmations = b - recs[t].block + 1
      BY <3>1, NotifyType
    <3>3. place[t] = recs[t].block /\ recs[t].block \in Nat /\ head \in Nat
      BY <1>1, <3>1 DEF RecordInv, RecsTrue, TrueRec, Rec, TypeOK
    <3>4. QED
      BY <2>1, <3>1, <3>2, <3>3 DEF TrueNote
  <2>3. \A n \in posts' : n \in posts \/ TrueNote(n)'
    BY <1>5, <2>1, <2>2
  <2>4. ASSUME NEW m \in blockNotifyServices(b)
        PROVE  m.note \in Notification /\ TrueNote(m.note)
    <3>1. m \in Messages /\ m.note.tx = NoTx /\ m.note.block = b
      BY BlockMessages
    <3>2. QED
      BY <2>1, <3>1 DEF TrueNote, Messages
  <2>5. QED
    BY <1>6, <2>1, <2>3, <2>4
<1>11. ASSUME NEW n \in posts, transactionEventPostProcess(n) PROVE NotesTrue'
  <2>1. PICK ms \in MessagesOf(n) : sends' = sends \cup ms
    BY <1>11 DEF transactionEventPostProcess
  <2>2. n \in Notification /\ TrueNote(n)
    BY <1>3 DEF NotesTrue
  <2>3. \A m \in ms : m.note = n
    BY <2>1, <2>2, MessagesCarryNote
  <2>4. posts' \subseteq posts /\ received' = received
    BY <1>11 DEF transactionEventPostProcess
  <2>5. QED
    BY <1>6, <2>1, <2>2, <2>3, <2>4
<1>12. ASSUME NEW m \in sends, NotifySubscriber(m) PROVE NotesTrue'
  <2>1. posts' = posts /\ sends' \subseteq sends
    BY <1>12 DEF NotifySubscriber
  <2>2. \A s \in Services : \A x \in received'[s] : x \in received[s] \/ x \in sends
    BY <1>1, <1>12 DEF NotifySubscriber, TypeOK
  <2>3. QED
    BY <1>6, <2>1, <2>2
<1>13. QED
  BY <1>7, <1>8, <1>9, <1>10, <1>11, <1>12
  DEF Next, vars, outgoing, Submit, Mine, getTransactionById, SearchConfirmed,
      TransferAll, TransferInfoByHash, GatherSave, Crash

\* THEOREM: what a service is told of a transfer or a block is true of the chain
\* in every instance, however late it arrives: every notification is true when
\* it is made, and the chain takes nothing back (event_transaction.go:62-70,
\* event_block.go:33-63).
THEOREM NotificationsAreTrue == Spec => []TruthfulNotifications
<1>1. Spec => [](RecordInv /\ NotesTrue)
  BY RecordInit, RecordNext, NotesInit, NotesNext, PTL DEF Spec
<1>2. NotesTrue => TruthfulNotifications
  BY DEF NotesTrue, TruthfulNotifications, TrueNote, Told
<1>3. QED
  BY <1>1, <1>2, PTL

-----------------------------------------------------------------------------
(* "Confirmed" is told once, and acted on after it was told                 *)

LEMMA OnceInit == Init => ToldOnce /\ ActsOnTold
<1> SUFFICES ASSUME Init PROVE ToldOnce /\ ActsOnTold
  OBVIOUS
<1>1. work.step = "idle" /\ gather.stage = "none" /\ posts = {} /\ gathered = {}
      /\ confirmedTimes = [t \in Tx |-> 0]
  BY IdleIsWork DEF Init, NotGathering
<1>2. QED
  BY <1>1 DEF ToldOnce, ActsOnTold

\* The one step that tells "confirmed" does so of a transfer that was not told.
LEMMA ConfirmTellsOnce ==
    ASSUME RecordInv, ToldOnce, ActsOnTold, NEW t \in Tx, ConfirmTransaction(t)
    PROVE  ToldOnce' /\ ActsOnTold'
<1> DEFINE d == work.due[t]
           done == [work.due[t] EXCEPT !.confirmed = TRUE]
           rest == DOMAIN work.due \ {t}
<1>1. TypeOK /\ work.step = "confirm" /\ t \in DOMAIN work.due
      /\ gather' = gather /\ gathered' = gathered
  BY DEF RecordInv, ConfirmTransaction, NextDue, gathering
<1>2. DOMAIN work.due \subseteq Tx /\ work.due \in [DOMAIN work.due -> Rec]
      /\ work = [step |-> "confirm", block |-> work.block, due |-> work.due]
  BY <1>1, WorkShape DEF TypeOK
<1>3. done \in Rec /\ done # NoRec /\ done.confirmed /\ done.ignore = d.ignore
  BY <1>1, <1>2, NoRecAssumption DEF Rec
<1>4. PICK ok \in StoreResults :
          /\ recs' = IF ok THEN [recs EXCEPT ![t] = done] ELSE recs
          /\ confirmedTimes' = IF ok /\ ~done.ignore
                               THEN [confirmedTimes EXCEPT ![t] = @ + 1]
                               ELSE confirmedTimes
          /\ (~ok \/ done.ignore) => posts' = posts
  BY DEF ConfirmTransaction, saveTransaction
<1>5. work' = Idle \/ (rest # {} /\ work' = [work EXCEPT !.due = [u \in rest |-> work.due[u]]])
  BY DEF ConfirmTransaction
<1> HIDE DEF done
<1>6. confirmedTimes \in [Tx -> Nat] /\ recs \in [Tx -> Rec \cup {NoRec}]
  BY <1>1 DEF TypeOK
<1>7. ok /\ ~done.ignore => confirmedTimes[t] = 0
  BY <1>1, <1>3 DEF ToldOnce
<1>8. \A u \in Tx : /\ confirmedTimes'[u] \in {0, 1}
                    /\ u # t => confirmedTimes'[u] = confirmedTimes[u]
                    /\ confirmedTimes[u] = 1 => confirmedTimes'[u] = 1
  BY <1>4, <1>6, <1>7 DEF ToldOnce
<1>9. \A u \in Tx : confirmedTimes'[u] = 1 => Settled(recs'[u])
  <2> SUFFICES ASSUME NEW u \in Tx, confirmedTimes'[u] = 1 PROVE Settled(recs'[u])
    OBVIOUS
  <2>1. CASE u = t /\ ok
    BY <1>3, <1>4, <1>6, <2>1 DEF Settled
  <2>2. CASE u # t \/ ~ok
    BY <1>4, <1>6, <1>8, <2>2 DEF ToldOnce
  <2>3. QED
    BY <2>1, <2>2
<1>10. /\ work'.step = "transaction" /\ confirmedTimes'[work'.tx] = 1 => Settled(work'.seen)
       /\ work'.step = "confirm" =>
            \A u \in DOMAIN work'.due : confirmedTimes'[u] = 1 => work'.due[u].ignore
  <2>1. CASE work' = Idle
    BY <2>1, IdleIsWork
  <2>2. CASE work' = [work EXCEPT !.due = [u \in rest |-> work.due[u]]]
    <3>1. work' = [step |-> "confirm", block |-> work.block,
                   due |-> [u \in rest |-> work.due[u]]]
      BY <1>2, <2>2
    <3>2. work'.step = "confirm" /\ DOMAIN work'.due = rest
          /\ \A u \in rest : work'.due[u] = work.due[u]
      BY <3>1
    <3>3. \A u \in rest : u \in Tx /\ u # t /\ u \in DOMAIN work.due
      BY <1>2
    <3> HIDE DEF rest
    <3>4. QED
      BY <1>1, <1>8, <3>2, <3>3 DEF ToldOnce
  <2>3. QED
    BY <1>5, <2>1, <2>2
<1>11. ToldOnce'
  BY <1>8, <1>9, <1>10 DEF ToldOnce, Settled
<1>12. \A n \in posts' : n.confirmed => confirmedTimes'[n.tx] = 1
  <2> SUFFICES ASSUME NEW n \in posts', n.confirmed PROVE confirmedTimes'[n.tx] = 1
    OBVIOUS
  <2>1. CASE n \in posts
    BY <1>8, <2>1 DEF ActsOnTold, RecordInv, PostsOfTransfers
  <2>2. CASE n \notin posts
    <3>1. n.tx = t
      BY <2>2, ConfirmNotes
    <3>2. ok /\ ~done.ignore
      BY <1>4, <2>2
    <3>3. QED
      BY <1>4, <1>6, <1>7, <3>1, <3>2
  <2>3. QED
    BY <2>1, <2>2
<1>13. gather.stage # "none" => confirmedTimes'[gather.tx] = 1
  BY <1>8 DEF ActsOnTold, RecordInv, GatherTrue
<1>14. ActsOnTold'
  BY <1>1, <1>8, <1>12, <1>13 DEF ActsOnTold
<1>15. QED
  BY <1>11, <1>14

LEMMA OnceNext ==
    RecordInv /\ ToldOnce /\ ActsOnTold /\ [Next]_vars => ToldOnce' /\ ActsOnTold'
<1> SUFFICES ASSUME RecordInv, ToldOnce, ActsOnTold, [Next]_vars
             PROVE  ToldOnce' /\ ActsOnTold'
  OBVIOUS
<1>1. TypeOK /\ recs \in [Tx -> Rec \cup {NoRec}]
  BY DEF RecordInv, TypeOK
<1>2. ASSUME recs' = recs, confirmedTimes' = confirmedTimes, work' = work \/ work' = Idle
      PROVE  ToldOnce'
  BY <1>2, IdleIsWork DEF ToldOnce, Settled
<1>3. ASSUME posts' \subseteq posts, confirmedTimes' = confirmedTimes, gathered' = gathered,
             gather'.stage = "none" \/ (gather'.tx = gather.tx /\ gather.stage # "none")
      PROVE  ActsOnTold'
  BY <1>3 DEF ActsOnTold
<1>4. ASSUME posts' = posts, confirmedTimes' = confirmedTimes, gathered' = gathered,
             gather' = gather
      PROVE  ActsOnTold'
  BY <1>4 DEF ActsOnTold
<1>5. NotGathering.stage = "none"
  BY DEF NotGathering
<1>6. CASE UNCHANGED vars
  BY <1>2, <1>4, <1>6 DEF vars, outgoing, gathering
<1>7. ASSUME NEW t \in Tx, Submit(t) PROVE ToldOnce' /\ ActsOnTold'
  BY <1>2, <1>4, <1>7 DEF Submit, outgoing, gathering
<1>8. CASE Mine
  BY <1>2, <1>4, <1>8 DEF Mine, outgoing, gathering
<1>9. ASSUME NEW t \in Tx, NEW b \in 0 .. MaxBlock, getTransactionById(t, b)
      PROVE  ToldOnce' /\ ActsOnTold'
  <2>1. work' = [step |-> "transaction", tx |-> t, block |-> b, seen |-> recs[t]]
        /\ recs' = recs /\ confirmedTimes' = confirmedTimes
    BY <1>9 DEF getTransactionById
  <2>2. work'.step = "transaction" /\ work'.tx = t /\ work'.seen = recs[t]
    BY <2>1
  <2>3. ToldOnce'
    BY <2>1, <2>2 DEF ToldOnce, Settled
  <2>4. QED
    BY <1>4, <1>9, <2>3 DEF getTransactionById, outgoing, gathering
<1>10. CASE transactionEventProcess
  <2> DEFINE t == work.tx
  <2>1. work.step = "transaction" /\ t \in Tx /\ work' = Idle
        /\ confirmedTimes' = confirmedTimes /\ gather' = gather /\ gathered' = gathered
    BY <1>1, <1>10, WorkShape DEF TypeOK, transactionEventProcess, gathering
  <2>2. recs' = recs \/ (confirmedTimes[t] # 1 /\ \A u \in Tx : u # t => recs'[u] = recs[u])
    <3>1. CASE work.seen = NoRec /\ NewTransfer(work.tx, work.block)
      BY <1>1, <2>1, <3>1 DEF ToldOnce, Settled, NewTransfer, saveTransaction
    <3>2. CASE /\ work.seen # NoRec /\ MovesToBlock(work.seen, work.block)
               /\ PendingTransferMined(work.tx, work.block, work.seen)
      <4>1. work.seen.inPool /\ ~work.seen.ignore
        BY <3>2 DEF MovesToBlock
      <4>2. work.seen \in Rec /\ TrueRec(t, work.seen)
        BY <1>1, <2>1, <3>2, WorkShape DEF RecordInv, SeenTrue, TypeOK
      <4>3. ~work.seen.confirmed
        BY <4>1, <4>2 DEF TrueRec, Rec
      <4>4. confirmedTimes[t] # 1
        BY <2>1, <4>1, <4>3 DEF ToldOnce, Settled
      <4>5. QED
        BY <1>1, <2>1, <3>2, <4>4 DEF PendingTransferMined, saveTransaction
    <3>3. CASE UNCHANGED <<recs, posts>>
      BY <3>3
    <3>4. QED
      BY <1>10, <3>1, <3>2, <3>3 DEF transactionEventProcess
  <2>3. \A u \in Tx : confirmedTimes[u] = 1 => recs'[u] = recs[u]
    BY <2>2
  <2>4. ToldOnce'
    BY <2>1, <2>3, IdleIsWork DEF ToldOnce, Settled
  <2>5. \A n \in posts' : n \notin posts => ~n.confirmed
    <3>1. CASE work.seen = NoRec /\ NewTransfer(work.tx, work.block)
      <4>1. work.block \in 0 .. MaxBlock
        BY <1>1, <2>1, WorkShape DEF TypeOK
      <4>2. ~NewRec(work.block).confirmed
        BY <4>1, NewRecType
      <4>3. QED
        BY <3>1, <4>2 DEF NewTransfer, Notify
    <3>2. CASE /\ work.seen # NoRec /\ MovesToBlock(work.seen, work.block)
               /\ PendingTransferMined(work.tx, work.block, work.seen)
      <4>1. work.seen \in Rec /\ TrueRec(t, work.seen) /\ work.seen.inPool
        BY <1>1, <2>1, <3>2, WorkShape DEF RecordInv, SeenTrue, TypeOK, MovesToBlock
      <4>2. ~work.seen.confirmed
        BY <4>1 DEF TrueRec, Rec
      <4>3. ~[work.seen EXCEPT !.block = work.block, !.inPool = FALSE].confirmed
        BY <4>1, <4>2 DEF Rec
      <4>4. QED
        BY <3>2, <4>3 DEF PendingTransferMined, Notify
    <3>3. CASE UNCHANGED <<recs, posts>>
      BY <3>3
    <3>4. QED
      BY <1>10, <3>1, <3>2, <3>3 DEF transactionEventProcess
  <2>6. ActsOnTold'
    BY <2>1, <2>5 DEF ActsOnTold
  <2>7. QED
    BY <2>4, <2>6
<1>11. ASSUME NEW b \in 1 .. MaxBlock, blockEvent(b) PROVE ToldOnce' /\ ActsOnTold'
  <2>1. b \in 1 .. head /\ recs' = recs /\ confirmedTimes' = confirmedTimes
        /\ gather' = gather /\ gathered' = gathered
        /\ (posts' = posts \cup Counts(b) \/ posts' = posts)
        /\ (work' = [step |-> "search", block |-> b] \/ work' = Idle)
    BY <1>11 DEF blockEvent, gathering
  <2>2. work'.step \in {"search", "idle"}
    BY <2>1, IdleIsWork
  <2>3. ToldOnce'
    BY <2>1, <2>2 DEF ToldOnce, Settled
  <2>4. \A n \in Counts(b) : ~n.confirmed
    BY <2>1, CountsType, NotifyType
  <2>5. ActsOnTold'
    BY <2>1, <2>4 DEF ActsOnTold
  <2>6. QED
    BY <2>3, <2>5
<1>12. CASE SearchConfirmed
  <2> DEFINE due == SearchTransactionsBeforeBlock(ConfirmedBlock(work.block))
  <2>1. recs' = recs /\ confirmedTimes' = confirmedTimes
        /\ (\/ work' = Idle
            \/ work' = [step |-> "confirm", block |-> work.block, due |-> [t \in due |-> recs[t]]])
    BY <1>12 DEF SearchConfirmed
  <2>2. \A t \in due : t \in Tx /\ ~recs[t].confirmed
    BY DEF SearchTransactionsBeforeBlock, Unconfirmed
  <2>3. ASSUME work' = [step |-> "confirm", block |-> work.block, due |-> [t \in due |-> recs[t]]]
        PROVE  ToldOnce'
    <3>1. work'.step = "confirm" /\ DOMAIN work'.due = due
          /\ \A t \in due : work'.due[t] = recs[t]
      BY <2>3
    <3> HIDE DEF due
    <3>2. QED
      BY <2>1, <2>2, <3>1 DEF ToldOnce, Settled
  <2>4. ToldOnce'
    BY <1>2, <2>1, <2>3
  <2>5. QED
    BY <1>4, <1>12, <2>4 DEF SearchConfirmed, outgoing, gathering
<1>13. ASSUME NEW t \in Tx, ConfirmTransaction(t) PROVE ToldOnce' /\ ActsOnTold'
  BY <1>13, ConfirmTellsOnce
<1>14. ASSUME NEW n \in posts, transactionEventPostProcess(n) PROVE ToldOnce' /\ ActsOnTold'
  <2>1. posts' \subseteq posts /\ confirmedTimes' = confirmedTimes /\ gathered' = gathered
        /\ recs' = recs /\ work' = work /\ gather = NotGathering
    BY <1>14 DEF transactionEventPostProcess
  <2>2. CASE Gathers(n)
    <3>1. gather' = [tx |-> n.tx, stage |-> "transfer"] /\ n.confirmed
      BY <1>14, <2>2 DEF transactionEventPostProcess, Gathers
    <3>2. gather'.tx = n.tx /\ confirmedTimes[n.tx] = 1
      BY <3>1 DEF ActsOnTold
    <3>3. QED
      BY <1>2, <2>1, <3>2 DEF ActsOnTold
  <2>3. CASE ~Gathers(n)
    <3>1. gather' = NotGathering
      BY <1>14, <2>1, <2>3 DEF transactionEventPostProcess
    <3>2. ActsOnTold'
      BY <1>5, <2>1, <3>1 DEF ActsOnTold
    <3>3. QED
      BY <1>2, <2>1, <3>2
  <2>4. QED
    BY <2>2, <2>3
<1>15. ASSUME NEW m \in sends, NotifySubscriber(m) PROVE ToldOnce' /\ ActsOnTold'
  BY <1>2, <1>4, <1>15 DEF NotifySubscriber, gathering
<1>16. CASE TransferAll
  <2>1. recs' = recs /\ work' = work /\ confirmedTimes' = confirmedTimes /\ posts' = posts
        /\ gather.stage # "none"
    BY <1>16 DEF TransferAll, outgoing
  <2>2. gather.tx \in Tx /\ GatherTx[gather.tx] \in Tx /\ confirmedTimes[gather.tx] = 1
    BY <2>1 DEF RecordInv, GatherTrue, ActsOnTold
  <2>3. gathered' = gathered \/ gathered' = gathered \cup {To[gather.tx]}
    BY <1>16 DEF TransferAll
  <2>4. gather'.stage = "none" \/ gather'.tx = gather.tx
    BY <1>1, <1>5, <1>16 DEF TransferAll, TypeOK
  <2>5. ActsOnTold'
    BY <2>1, <2>2, <2>3, <2>4 DEF ActsOnTold
  <2>6. QED
    BY <1>2, <2>1, <2>5
<1>17. CASE TransferInfoByHash
  <2>1. gather.stage # "none" /\ (gather'.stage = "none" \/ gather'.tx = gather.tx)
    BY <1>1, <1>5, <1>17 DEF TransferInfoByHash, TypeOK
  <2>2. QED
    BY <1>2, <1>3, <1>17, <2>1 DEF TransferInfoByHash, outgoing
<1>18. CASE GatherSave
  <2> DEFINE g == GatherTx[gather.tx]
  <2>1. info # NoRec /\ info.ignore /\ g \in Tx
    BY <1>18 DEF GatherSave, RecordInv, GatherTrue
  <2>2. PICK ok \in StoreResults : recs' = IF ok THEN [recs EXCEPT ![g] = info] ELSE recs
    BY <1>18 DEF GatherSave, saveTransaction
  <2>3. work' = work /\ confirmedTimes' = confirmedTimes
    BY <1>18 DEF GatherSave
  <2>4. \A u \in Tx : Settled(recs[u]) => Settled(recs'[u])
    BY <1>1, <2>1, <2>2 DEF Settled
  <2>5. ToldOnce'
    BY <2>3, <2>4 DEF ToldOnce, Settled
  <2>6. QED
    BY <1>3, <1>5, <1>18, <2>5 DEF GatherSave, outgoing
<1>19. CASE Crash
  <2>1. work' = Idle /\ posts' = {} /\ gather' = NotGathering
        /\ UNCHANGED <<recs, gathered, confirmedTimes>>
    BY <1>19 DEF Crash
  <2>2. ActsOnTold'
    BY <1>5, <2>1 DEF ActsOnTold
  <2>3. QED
    BY <1>2, <2>1, <2>2
<1>20. QED
  BY <1>6, <1>7, <1>8, <1>9, <1>10, <1>11, <1>12, <1>13, <1>14, <1>15, <1>16, <1>17,
     <1>18, <1>19 DEF Next

\* THEOREM: "confirmed" is true when it is written and told once, in every
\* instance: a repeated block event finds the record confirmed, and a record
\* that a gathering replaced meanwhile is not told at all (event_block.go:18-63,
\* gather.go:37-47).
THEOREM ConfirmedOnce == Spec => []ConfirmedOnceAndDeep
<1>1. Spec => [](RecordInv /\ ToldOnce /\ ActsOnTold)
  BY RecordInit, RecordNext, OnceInit, OnceNext, PTL DEF Spec
<1>2. RecordInv => ConfirmedIsDeep
  <2> SUFFICES ASSUME RecordInv, NEW t \in Tx, recs[t] # NoRec
               PROVE  /\ ~recs[t].inPool => recs[t].block > 0 /\ place[t] = recs[t].block
                      /\ recs[t].confirmed =>
                           /\ ~recs[t].inPool
                           /\ head - recs[t].block >=
                                  MinConfirmations - IF recs[t].ignore THEN 1 ELSE 0
    BY DEF ConfirmedIsDeep
  <2>1. recs[t] \in Rec /\ TrueRec(t, recs[t])
    BY DEF RecordInv, TypeOK, RecsTrue
  <2>2. recs[t].block \in Nat
    BY <2>1 DEF Rec
  <2>3. QED
    BY <2>1, <2>2 DEF TrueRec
<1>3. ToldOnce => OneConfirmedNotification
  BY DEF ToldOnce, OneConfirmedNotification
<1>4. RecordInv /\ ToldOnce /\ ActsOnTold => ConfirmedOnceAndDeep
  BY <1>2, <1>3 DEF ConfirmedOnceAndDeep
<1>5. QED
  BY <1>1, <1>4, PTL

-----------------------------------------------------------------------------
(* One writer for the transfers from outside                                *)

LEMMA OwnsInit == Init => LoopOwns
<1>1. QED
  BY IdleIsWork DEF Init, LoopOwns, Outside

LEMMA OwnsNext == RecordInv /\ LoopOwns /\ [Next]_vars => LoopOwns'
<1> SUFFICES ASSUME RecordInv, LoopOwns, [Next]_vars PROVE LoopOwns'
  OBVIOUS
<1>1. TypeOK /\ recs \in [Tx -> Rec \cup {NoRec}] /\ Outside \subseteq Tx
  BY DEF RecordInv, TypeOK, Outside
<1>2. ASSUME recs' = recs, work' = work \/ work' = Idle PROVE LoopOwns'
  BY <1>2, IdleIsWork DEF LoopOwns
<1>3. ASSUME NEW t \in Tx, NEW b \in 0 .. MaxBlock, getTransactionById(t, b) PROVE LoopOwns'
  <2>1. recs' = recs
        /\ work' = [step |-> "transaction", tx |-> t, block |-> b, seen |-> recs[t]]
    BY <1>3 DEF getTransactionById
  <2>2. work'.step = "transaction" /\ work'.tx = t /\ work'.seen = recs[t]
    BY <2>1
  <2>3. QED
    BY <2>1, <2>2 DEF LoopOwns
<1>4. CASE transactionEventProcess
  <2> DEFINE t == work.tx  b == work.block  r == work.seen
  <2>1. work.step = "transaction" /\ work' = Idle
        /\ t \in Tx /\ b \in 0 .. MaxBlock /\ r \in Rec \cup {NoRec}
    BY <1>1, <1>4, WorkShape DEF transactionEventProcess, TypeOK
  <2>2. \A u \in Outside : recs'[u] # NoRec => ~recs'[u].ignore
    <3>1. CASE r = NoRec /\ NewTransfer(t, b)
      <4>1. NewRec(b) \in Rec /\ ~NewRec(b).ignore
        BY <2>1, NewRecType
      <4>2. QED
        BY <1>1, <2>1, <3>1, <4>1 DEF NewTransfer, saveTransaction, LoopOwns
    <3>2. CASE r # NoRec /\ MovesToBlock(r, b) /\ PendingTransferMined(t, b, r)
      <4> DEFINE new == [r EXCEPT !.block = b, !.inPool = FALSE]
      <4>1. new \in Rec /\ ~new.ignore
        BY <2>1, <3>2 DEF Rec, MovesToBlock
      <4>2. PICK ok \in StoreResults : recs' = IF ok THEN [recs EXCEPT ![t] = new] ELSE recs
        BY <3>2 DEF PendingTransferMined, saveTransaction
      <4> HIDE DEF new
      <4>3. QED
        BY <1>1, <2>1, <4>1, <4>2 DEF LoopOwns
    <3>3. CASE UNCHANGED <<recs, posts>>
      BY <3>3 DEF LoopOwns
    <3>4. QED
      BY <1>4, <3>1, <3>2, <3>3 DEF transactionEventProcess
  <2>3. QED
    BY <2>1, <2>2, IdleIsWork DEF LoopOwns
<1>5. ASSUME NEW b \in 1 .. MaxBlock, blockEvent(b) PROVE LoopOwns'
  <2>1. recs' = recs /\ (work' = [step |-> "search", block |-> b] \/ work' = Idle)
    BY <1>5 DEF blockEvent
  <2>2. work'.step \in {"search", "idle"}
    BY <2>1, IdleIsWork
  <2>3. QED
    BY <2>1, <2>2 DEF LoopOwns
<1>6. CASE SearchConfirmed
  <2> DEFINE due == SearchTransactionsBeforeBlock(ConfirmedBlock(work.block))
  <2>1. recs' = recs
        /\ (\/ work' = Idle
            \/ work' = [step |-> "confirm", block |-> work.block, due |-> [t \in due |-> recs[t]]])
    BY <1>6 DEF SearchConfirmed
  <2>2. CASE work' = [step |-> "confirm", block |-> work.block, due |-> [t \in due |-> recs[t]]]
    <3>1. work'.step = "confirm" /\ DOMAIN work'.due = due
          /\ \A t \in due : work'.due[t] = recs[t]
      BY <2>2
    <3> HIDE DEF due
    <3>2. QED
      BY <2>1, <3>1 DEF LoopOwns
  <2>3. QED
    BY <1>2, <2>1, <2>2
<1>7. ASSUME NEW t \in Tx, ConfirmTransaction(t) PROVE LoopOwns'
  <2> DEFINE done == [work.due[t] EXCEPT !.confirmed = TRUE]
             rest == DOMAIN work.due \ {t}
  <2>1. work.step = "confirm" /\ t \in DOMAIN work.due
    BY <1>7 DEF ConfirmTransaction, NextDue
  <2>2. work.due \in [DOMAIN work.due -> Rec]
        /\ work = [step |-> "confirm", block |-> work.block, due |-> work.due]
    BY <1>1, <2>1, WorkShape DEF TypeOK
  <2>3. done \in Rec /\ done.ignore = work.due[t].ignore
    BY <2>1, <2>2 DEF Rec
  <2>4. PICK ok \in StoreResults : recs' = IF ok THEN [recs EXCEPT ![t] = done] ELSE recs
    BY <1>7 DEF ConfirmTransaction, saveTransaction
  <2>5. work' = Idle \/ work' = [work EXCEPT !.due = [u \in rest |-> work.due[u]]]
    BY <1>7 DEF ConfirmTransaction
  <2>6. t \in Outside => ~work.due[t].ignore
    <3>1. t \in Outside => work.due[t] = recs[t]
      BY <2>1 DEF LoopOwns
    <3>2. work.due[t] # NoRec
      BY <2>1, <2>2, NoRecAssumption
    <3>3. QED
      BY <3>1, <3>2 DEF LoopOwns
  <2> HIDE DEF done
  <2>7. \A u \in Outside : recs'[u] # NoRec => ~recs'[u].ignore
    BY <1>1, <2>3, <2>4, <2>6 DEF LoopOwns
  <2>8. CASE work' = Idle
    BY <2>7, <2>8, IdleIsWork DEF LoopOwns
  <2>9. CASE work' = [work EXCEPT !.due = [u \in rest |-> work.due[u]]]
    <3>1. work' = [step |-> "confirm", block |-> work.block,
                   due |-> [u \in rest |-> work.due[u]]]
      BY <2>2, <2>9
    <3>2. work'.step = "confirm" /\ DOMAIN work'.due = rest
          /\ \A u \in rest : work'.due[u] = work.due[u]
      BY <3>1
    <3>3. \A u \in rest : u # t /\ u \in DOMAIN work.due
      OBVIOUS
    <3> HIDE DEF rest
    <3>4. \A u \in rest \cap Outside : recs'[u] = recs[u] /\ work.due[u] = recs[u]
      BY <1>1, <2>1, <2>4, <3>3 DEF LoopOwns
    <3>5. QED
      BY <2>7, <3>2, <3>4 DEF LoopOwns
  <2>10. QED
    BY <2>5, <2>8, <2>9
<1>8. CASE GatherSave
  <2> DEFINE g == GatherTx[gather.tx]
  <2>1. gather.tx \in Tx
    BY <1>8 DEF GatherSave, RecordInv, GatherTrue
  <2>2. g \notin Outside
    BY <2>1 DEF Outside
  <2>3. work' = work /\ \A u \in Outside : recs'[u] = recs[u]
    BY <1>1, <1>8, <2>2 DEF GatherSave, saveTransaction
  <2> HIDE DEF g
  <2>4. QED
    BY <1>1, <2>3, WorkShape DEF LoopOwns, TypeOK
<1>9. QED
  BY <1>2, <1>3, <1>4, <1>5, <1>6, <1>7, <1>8
  DEF Next, vars, Submit, Mine, transactionEventPostProcess, NotifySubscriber,
      TransferAll, TransferInfoByHash, Crash

\* The inductive invariant holds.
LEMMA Invariant == Spec => []IInv
<1>1. Spec => [](RecordInv /\ NotesTrue /\ ToldOnce /\ ActsOnTold /\ LoopOwns)
  BY RecordInit, RecordNext, NotesInit, NotesNext, OnceInit, OnceNext, OwnsInit, OwnsNext,
     PTL DEF Spec
<1>2. QED
  BY <1>1, PTL DEF IInv

\* THEOREM: coins leave an address only after a transfer to it was told to be
\* confirmed, in every instance (event_transaction.go:105-107, gather.go:10-47).
THEOREM GatherAfterTold ==
    Spec => [](\A a \in gathered : \E t \in Tx : To[t] = a /\ confirmedTimes[t] = 1)
<1>1. IInv => \A a \in gathered : \E t \in Tx : To[t] = a /\ confirmedTimes[t] = 1
  BY DEF IInv, ActsOnTold
<1>2. QED
  BY <1>1, Invariant, PTL

\* THEOREM: unless what a gathering paid is itself gathered, the transfer that
\* let the coins leave still has a confirmed record: nothing but the event loop
\* writes it.  (A gathering replaces the record of its own transfer, which the
\* loop may have confirmed before: gather.go:41-45.)
THEOREM GatherIsConfirmed ==
    ASSUME \A t \in Tx : GatherTx[t] # NoTx => t \in Outside
    PROVE  Spec => []GatherOnlyConfirmed
<1>1. ASSUME IInv PROVE GatherOnlyConfirmed
  <2> SUFFICES ASSUME NEW a \in gathered
               PROVE  \E t \in Tx : To[t] = a /\ recs[t] # NoRec /\ recs[t].confirmed
    BY DEF GatherOnlyConfirmed
  <2>1. PICK t \in Tx : To[t] = a /\ confirmedTimes[t] = 1 /\ GatherTx[t] \in Tx
    BY <1>1 DEF IInv, ActsOnTold
  <2>2. t \in Outside
    BY <2>1, SubscriptionsAssumption
  <2>3. recs[t] # NoRec /\ (recs[t].confirmed \/ recs[t].ignore)
    BY <1>1, <2>1 DEF IInv, ToldOnce, Settled
  <2>4. ~recs[t].ignore
    BY <1>1, <2>2, <2>3 DEF IInv, LoopOwns
  <2>5. QED
    BY <2>1, <2>3, <2>4
<1>2. QED
  BY <1>1, Invariant, PTL

-----------------------------------------------------------------------------
(* The event loop implements the life of a transfer                         *)

\* The initial states map to initial states.
LEMMA LifeInit == Init => Life!LInit
<1> SUFFICES ASSUME Init PROVE Life!LInit
  OBVIOUS
<1>1. head = 0 /\ place = [t \in Tx |-> -1] /\ recs = [t \in Tx |-> NoRec]
      /\ Outside \subseteq Tx
  BY DEF Init, Outside
<1>2. QED
  BY <1>1 DEF Life!LInit, StageOf

\* A step that leaves the records of the outside alone is one of the chain.
LEMMA LifeChain ==
    ASSUME TypeOK, ChainKept, \A t \in Outside : recs'[t] = recs[t]
    PROVE  Life!ChainGrows
<1>1. Outside \subseteq Tx
  BY DEF Outside
<1>2. head' >= head
  BY DEF ChainKept
<1>3. \A t \in Outside : [u \in Outside |-> place[u]][t] > 0
          => [u \in Outside |-> place'[u]][t] = [u \in Outside |-> place[u]][t]
  BY <1>1 DEF ChainKept
<1>4. [t \in Outside |-> StageOf(t)]' = [t \in Outside |-> StageOf(t)]
  BY DEF StageOf
<1>5. [t \in Outside |-> IF recs'[t] = NoRec THEN 0 ELSE recs'[t].block]
      = [t \in Outside |-> IF recs[t] = NoRec THEN 0 ELSE recs[t].block]
  OBVIOUS
<1>6. QED
  BY <1>2, <1>3, <1>4, <1>5 DEF Life!ChainGrows

\* A step that writes one record of the outside changes that transfer alone.
LEMMA LifeWrite ==
    ASSUME TypeOK, NEW t \in Outside, NEW r \in Rec, recs' = [recs EXCEPT ![t] = r],
           head' = head, place' = place
    PROVE  /\ recs[t] = NoRec /\ r.inPool /\ r.block = 0 => Life!SeenPending(t)
           /\ (recs[t] = NoRec \/ recs[t].inPool) /\ ~r.inPool /\ ~r.confirmed
              /\ r.block > 0 /\ place[t] = r.block => Life!SeenMined(t)
           /\ recs[t] # NoRec /\ ~recs[t].inPool /\ ~recs[t].confirmed
              /\ ~r.inPool /\ r.confirmed /\ r.block = recs[t].block
              /\ head - r.block >= MinConfirmations => Life!Confirm(t)
<1> DEFINE minedIn == [u \in Outside |-> place[u]]
           stage == [u \in Outside |-> StageOf(u)]
           inBlock == [u \in Outside |-> IF recs[u] = NoRec THEN 0 ELSE recs[u].block]
<1>1. Outside \subseteq Tx /\ recs \in [Tx -> Rec \cup {NoRec}] /\ r # NoRec
  BY NoRecAssumption DEF Outside, TypeOK
<1>2. recs'[t] = r /\ \A u \in Outside : u # t => recs'[u] = recs[u]
  BY <1>1
<1>3. stage' = [stage EXCEPT ![t] = IF r.inPool THEN "pending"
                                    ELSE IF r.confirmed THEN "confirmed" ELSE "mined"]
  BY <1>1, <1>2 DEF StageOf
<1>4. inBlock' = [inBlock EXCEPT ![t] = r.block]
  BY <1>1, <1>2
<1>5. minedIn' = minedIn /\ minedIn[t] = place[t]
  OBVIOUS
<1>6. stage[t] = (IF recs[t] = NoRec THEN "unknown" ELSE IF recs[t].inPool THEN "pending"
                  ELSE IF recs[t].confirmed THEN "confirmed" ELSE "mined")
      /\ inBlock[t] = (IF recs[t] = NoRec THEN 0 ELSE recs[t].block)
  BY DEF StageOf
<1>7. ASSUME recs[t] = NoRec, r.inPool, r.block = 0 PROVE Life!SeenPending(t)
  <2>1. inBlock' = inBlock
    BY <1>4, <1>6, <1>7
  <2> HIDE DEF stage, inBlock, minedIn
  <2>2. stage[t] = "unknown" /\ stage' = [stage EXCEPT ![t] = "pending"]
    BY <1>3, <1>6, <1>7
  <2>3. QED
    BY <1>5, <2>1, <2>2 DEF Life!SeenPending, stage, inBlock, minedIn
<1>8. ASSUME recs[t] = NoRec \/ recs[t].inPool, ~r.inPool, ~r.confirmed, r.block > 0,
             place[t] = r.block
      PROVE  Life!SeenMined(t)
  <2> HIDE DEF stage, inBlock, minedIn
  <2>1. stage[t] \in {"unknown", "pending"} /\ stage' = [stage EXCEPT ![t] = "mined"]
    BY <1>3, <1>6, <1>8
  <2>2. minedIn[t] > 0 /\ inBlock' = [inBlock EXCEPT ![t] = minedIn[t]]
    BY <1>4, <1>5, <1>8
  <2>3. QED
    BY <1>5, <2>1, <2>2 DEF Life!SeenMined, stage, inBlock, minedIn
<1>9. ASSUME recs[t] # NoRec, ~recs[t].inPool, ~recs[t].confirmed, ~r.inPool, r.confirmed,
             r.block = recs[t].block, head - r.block >= MinConfirmations
      PROVE  Life!Confirm(t)
  <2>1. inBlock' = inBlock
    BY <1>4, <1>6, <1>9
  <2> HIDE DEF stage, inBlock, minedIn
  <2>2. stage[t] = "mined" /\ stage' = [stage EXCEPT ![t] = "confirmed"]
    BY <1>3, <1>6, <1>9
  <2>3. head - inBlock[t] >= MinConfirmations
    BY <1>6, <1>9
  <2>4. QED
    BY <1>5, <2>1, <2>2, <2>3 DEF Life!Confirm, stage, inBlock, minedIn
<1>10. QED
  BY <1>7, <1>8, <1>9

\* Every step maps to a step of the life of a transfer, or to none.
LEMMA LifeNext == IInv /\ [Next]_vars => [Life!LNext]_(Life!lifecycle)
<1> SUFFICES ASSUME IInv, [Next]_vars PROVE Life!LNext
  OBVIOUS
<1>1. RecordInv /\ TypeOK /\ LoopOwns /\ ChainKept /\ Outside \subseteq Tx
  BY ChainIsKept DEF IInv, RecordInv, Outside
<1>2. ASSUME \A t \in Outside : recs'[t] = recs[t] PROVE Life!LNext
  BY <1>1, <1>2, LifeChain DEF Life!LNext
<1>3. CASE transactionEventProcess
  <2>1. work.step = "transaction" /\ work.tx \in Tx /\ work.block \in 0 .. MaxBlock
        /\ work.seen \in Rec \cup {NoRec} /\ head' = head /\ place' = place
    BY <1>1, <1>3, WorkShape DEF transactionEventProcess, TypeOK, chain
  <2>2. PICK t \in Tx, b \in 0 .. MaxBlock, r \in Rec \cup {NoRec} :
            t = work.tx /\ b = work.block /\ r = work.seen
    BY <2>1
  <2>3. /\ \/ b = 0 /\ place[t] >= 0
           \/ b > 0 /\ place[t] = b
        /\ t \in Outside => recs[t] = r
        /\ r # NoRec => TrueRec(t, r)
    BY <1>1, <2>1, <2>2 DEF RecordInv, SeenTrue, LoopOwns
  <2>4. ASSUME NEW new \in Rec, NEW ok, recs' = IF ok THEN [recs EXCEPT ![t] = new] ELSE recs,
               \/ r = NoRec /\ new.inPool /\ new.block = 0
               \/ /\ r = NoRec \/ r.inPool
                  /\ ~new.inPool /\ ~new.confirmed /\ new.block > 0 /\ place[t] = new.block
        PROVE  Life!LNext
    <3>1. CASE t \notin Outside \/ ~ok
      BY <1>1, <1>2, <2>4, <3>1 DEF TypeOK
    <3>2. CASE t \in Outside /\ ok
      <4>1. recs' = [recs EXCEPT ![t] = new] /\ recs[t] = r
        BY <2>3, <2>4, <3>2
      <4>2. Life!SeenPending(t) \/ Life!SeenMined(t)
        BY <1>1, <2>1, <2>4, <3>2, <4>1, LifeWrite
      <4>3. QED
        BY <3>2, <4>2 DEF Life!LNext
    <3>3. QED
      BY <3>1, <3>2
  <2>5. CASE UNCHANGED <<recs, posts>>
    BY <1>2, <2>5
  <2>6. CASE r = NoRec /\ NewTransfer(t, b)
    <3>1. PICK ok \in StoreResults : recs' = IF ok THEN [recs EXCEPT ![t] = NewRec(b)] ELSE recs
      BY <2>6 DEF NewTransfer, saveTransaction
    <3>2. NewRec(b) \in Rec /\ NewRec(b).block = b /\ (NewRec(b).inPool <=> b = 0)
          /\ ~NewRec(b).confirmed
      BY <2>2, NewRecType
    <3>3. QED
      BY <2>3, <2>4, <2>6, <3>1, <3>2
  <2>7. CASE r # NoRec /\ MovesToBlock(r, b) /\ PendingTransferMined(t, b, r)
    <3> DEFINE new == [r EXCEPT !.block = b, !.inPool = FALSE]
    <3>1. PICK ok \in StoreResults : recs' = IF ok THEN [recs EXCEPT ![t] = new] ELSE recs
      BY <2>7 DEF PendingTransferMined, saveTransaction
    <3>2. r \in Rec /\ r.inPool /\ b > 0
      BY <2>2, <2>7 DEF MovesToBlock
    <3>3. ~r.confirmed
      BY <2>3, <2>7, <3>2 DEF TrueRec, Rec
    <3>4. new \in Rec /\ new.block = b /\ ~new.inPool /\ ~new.confirmed
      BY <2>2, <3>2, <3>3 DEF Rec
    <3> HIDE DEF new
    <3>5. QED
      BY <2>3, <2>4, <3>1, <3>2, <3>4
  <2>8. QED
    BY <1>3, <2>2, <2>5, <2>6, <2>7 DEF transactionEventProcess
<1>4. ASSUME NEW t \in Tx, ConfirmTransaction(t) PROVE Life!LNext
  <2> DEFINE done == [work.due[t] EXCEPT !.confirmed = TRUE]
  <2>1. work.step = "confirm" /\ t \in DOMAIN work.due /\ head' = head /\ place' = place
    BY <1>4 DEF ConfirmTransaction, NextDue, chain
  <2>2. work.due \in [DOMAIN work.due -> Rec] /\ work.block \in 1 .. MaxBlock
    BY <1>1, <2>1, WorkShape DEF TypeOK
  <2>3. PICK ok \in StoreResults : recs' = IF ok THEN [recs EXCEPT ![t] = done] ELSE recs
    BY <1>4 DEF ConfirmTransaction, saveTransaction
  <2>4. CASE t \notin Outside \/ ~ok
    <3> HIDE DEF done
    <3>1. QED
      BY <1>1, <1>2, <2>3, <2>4 DEF TypeOK
  <2>5. CASE t \in Outside /\ ok
    <3>1. recs[t] = work.due[t] /\ recs[t] \in Rec /\ ~recs[t].inPool /\ ~recs[t].confirmed
          /\ recs[t].block + MinConfirmations <= work.block /\ work.block <= head
      BY <1>1, <2>1, <2>2, <2>5 DEF LoopOwns, RecordInv, DueTrue
    <3>2. done \in Rec /\ done.block = recs[t].block /\ ~done.inPool /\ done.confirmed
      BY <3>1 DEF Rec
    <3> HIDE DEF done
    <3>3. recs[t] # NoRec /\ recs[t].block \in Nat /\ head \in Nat /\ MinConfirmations \in Nat
      BY <1>1, <3>1, NoRecAssumption, SubscriptionsAssumption DEF Rec, TypeOK
    <3>4. head - done.block >= MinConfirmations
      BY <2>2, <3>1, <3>2, <3>3
    <3>5. Life!Confirm(t)
      BY <1>1, <2>1, <2>3, <2>5, <3>1, <3>2, <3>3, <3>4, LifeWrite
    <3>6. QED
      BY <2>5, <3>5 DEF Life!LNext
  <2>6. QED
    BY <2>4, <2>5
<1>5. CASE GatherSave
  <2> DEFINE g == GatherTx[gather.tx]
  <2>1. gather.tx \in Tx
    BY <1>1, <1>5 DEF GatherSave, RecordInv, GatherTrue
  <2>2. g \notin Outside
    BY <2>1 DEF Outside
  <2>3. \A u \in Outside : recs'[u] = recs[u]
    BY <1>1, <1>5, <2>2 DEF GatherSave, saveTransaction, TypeOK
  <2>4. QED
    BY <1>2, <2>3
<1>6. CASE recs' = recs
  BY <1>2, <1>6
<1>7. QED
  BY <1>3, <1>4, <1>5, <1>6
  DEF Next, vars, Submit, Mine, getTransactionById, blockEvent, SearchConfirmed,
      transactionEventPostProcess, NotifySubscriber, TransferAll, TransferInfoByHash, Crash

\* THEOREM: in every instance the records of the transfers from outside live
\* the life of TransferLifecycle: unknown, pending, mined in the block of the
\* chain, confirmed when deep enough, and never back, with a gathering writing
\* the same database, failing saves and crashes at any point.
THEOREM LoopImplementsLifecycle == Spec => Lifecycle
<1>1. Init => Life!LInit
  BY LifeInit
<1>2. IInv /\ [Next]_vars => [Life!LNext]_(Life!lifecycle)
  BY LifeNext
<1>3. QED
  BY <1>1, <1>2, Invariant, PTL DEF Spec, Lifecycle, Life!LSpec
=============================================================================
