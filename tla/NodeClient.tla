----------------------------- MODULE NodeClient -----------------------------
(* Package clients/ethclient: goroutines call the client, whose operations    *)
(* are sequences of JSON-RPC calls to a node; transfers of one address race   *)
(* with each other, with new blocks and with faults of the transport. The     *)
(* node is external: its pool and its chain are what go-ethereum documents.   *)
EXTENDS Urpc, SmartContracts, FiniteSets, FiniteSetsExt

CONSTANTS
    Ops,                \* operations: [kind] and, for a transfer, [kind, amount]
    Contracts,          \* contracts to add
    MaxOps,             \* bound: operations started
    MaxHead,            \* bound: blocks
    Balance0,           \* of the address, at first
    Prices,             \* gas prices the node may quote
    Gas,                \* of a transfer
    MinConfirmations

ASSUME NodeClientAssumption ==
    /\ {MaxOps, MaxHead, Balance0, Gas, MinConfirmations} \subseteq Nat
    /\ Prices \subseteq Nat /\ Callers = Adders /\ Nothing \notin Contracts \cup {rawKnown}
    /\ \A op \in Ops : op.kind \in {"transfer", "transferAll", "fee", "infoByHash", "infoByNum", "query"}
    /\ \A op \in Ops : op.kind = "transfer" => op.amount \in Nat     \* RLP has no other

VARIABLES
    call,       \* per goroutine: the operation it is in
    head,       \* node: number of the last block
    block,      \* node: number of a mined transaction -> its block
    pool,       \* node: transactions that wait
    accepted,   \* history: transactions the node took
    refused,    \* history: transactions the node refused
    results,    \* history: what operations returned
    started

nodeVars == <<head, block, pool, accepted, refused>>
vars == <<urpcVars, registryVars, nodeVars, call, results, started>>

Cost(tx) == tx.amount + tx.price * Gas
TotalCost(txs) == MapThenSumSet(Cost, txs)

\* eth_getBalance "latest": without what waits in the pool
Latest == Balance0 - TotalCost({t \in accepted : t.n \in DOMAIN block})
MinedCount == Cardinality(DOMAIN block)
Executable(tx) == \A k \in MinedCount .. tx.nonce : \E u \in pool : u.nonce = k
PendingCount == MinedCount + Cardinality({t \in pool : Executable(t)})

\* a goroutine that is in no operation of the client
Idle == [at |-> "idle"]

Init ==
    /\ UrpcInit /\ RegistryInit
    /\ call = [c \in Callers |-> Idle]
    /\ head = 1 /\ block = [n \in {} |-> 0] /\ pool = {}
    /\ accepted = {} /\ refused = {} /\ results = {} /\ started = 0

-----------------------------------------------------------------------------
(* Operations                                                                 *)

\* the calls that an operation makes, in order. "query" is any operation of one call:
\* BalanceOf, BlockNum, BlockByNum, MemPoolContent, TokensBalanceOf.
Script(op) ==
    CASE op.kind \in {"transfer", "transferAll"} ->
            <<"eth_getBalance", "eth_estimateGas", "eth_gasPrice", "eth_getTransactionCount",
              "eth_chainId", "eth_sendRawTransaction">>
      [] op.kind = "fee" -> <<"eth_estimateGas", "eth_gasPrice">>
      [] op.kind = "infoByHash" -> <<"eth_getTransactionByHash", "eth_blockNumber">>
      [] op.kind = "infoByNum" -> <<"eth_getTransactionByBlockNumberAndIndex", "eth_blockNumber">>
      [] op.kind = "query" -> <<"query">>

Method(k) == Script(k.op)[Len(k.got) + 1]

Start(c) ==
    /\ call[c] = Idle /\ adding[c] = DoNothing /\ started < MaxOps
    /\ started' = started + 1
    /\ \E op \in Ops : \E hash \in IF op.kind \in {"infoByHash", "infoByNum"} THEN 0 .. started ELSE {0} :
          call' = [call EXCEPT ![c] = [op |-> op, n |-> started + 1, hash |-> hash, got |-> <<>>,
                                       at |-> Begin, began |-> DOMAIN block]]
    /\ UNCHANGED <<urpcVars, registryVars, nodeVars, results>>

StartAdd(c) ==
    /\ call[c] = Idle /\ started < MaxOps
    /\ started' = started + 1
    /\ \E contract \in Contracts : Add(c, contract)
    /\ UNCHANGED <<urpcVars, nodeVars, call, results>>

\* fee of a transfer, once gas and price are known
Fee(k) == k.got[2] * k.got[3]

Amount(k) == IF k.op.kind = "transfer" THEN k.op.amount ELSE k.got[1] - Fee(k)

\* TransferByPrivateKey, TransferAllByPrivateKey: the check between the price and the nonce
Affordable(k) ==
    IF k.op.kind = "transfer" THEN k.op.amount + Fee(k) <= k.got[1] ELSE Amount(k) > 0

\* sendRawByPrivateKeyUnsafe: what is signed
Transaction_NextNonce(k) == [n |-> k.n, nonce |-> k.got[4] + 1, amount |-> Amount(k), price |-> k.got[3]]
Transaction(k) == [n |-> k.n, nonce |-> k.got[4], amount |-> Amount(k), price |-> k.got[3]]

Request(c) ==
    LET k == call[c]
    IN  [from |-> c, n |-> k.n, method |-> Method(k), hash |-> k.hash, began |-> k.began,
         tx |-> IF Method(k) = "eth_sendRawTransaction" THEN Transaction(k) ELSE Nothing]

Locked(c) ==
    /\ call[c].at = "lock"
    /\ Lock(c)
    /\ call' = [call EXCEPT ![c].at = "send"]
    /\ UNCHANGED <<registryVars, nodeVars, results, started>>

Sent(c) ==
    /\ call[c].at = "send"
    /\ Send(Request(c))
    /\ call' = [call EXCEPT ![c].at = "wait"]
    /\ UNCHANGED <<registryVars, nodeVars, results, started>>

Return(c, result) ==
    /\ results' = results \cup {result}
    /\ call' = [call EXCEPT ![c] = Idle]

ReturnError(c, error) ==
    Return(c, [n |-> call[c].n, op |-> call[c].op, error |-> error])

\* TransferInfoByHash and TransferInfoByNum: the block of the transaction, then the head; an
\* error of the second call is taken for block 0
Confirmed_Early(k, blockNumber, current) ==
    IF k.op.kind = "infoByHash" THEN ~(current - blockNumber < MinConfirmations - 2)
    ELSE current - blockNumber > MinConfirmations
Confirmed(k, blockNumber, current) ==
    IF k.op.kind = "infoByHash" THEN ~(current - blockNumber < MinConfirmations - 1)
    ELSE current - blockNumber > MinConfirmations

Info(k, blockNumber, current) ==
    [n |-> k.n, op |-> k.op, error |-> "", hash |-> k.hash, inPool |-> blockNumber = 0,
     confirmed |-> (k.op.kind = "infoByNum" \/ blockNumber # 0) /\ Confirmed(k, blockNumber, current),
     confirmations |-> IF k.op.kind = "infoByNum" THEN current - blockNumber
                       ELSE IF blockNumber = 0 THEN 0 ELSE current - blockNumber + 1]

More(k) == Len(k.got) < Len(Script(k.op))

\* the operation goes on with the value that the call returned
Continue(c, value) ==
    LET k == [call[c] EXCEPT !.got = Append(@, value), !.at = Begin]
    IN  IF More(k)
        THEN IF k.op.kind \in {"transfer", "transferAll"} /\ Len(k.got) = 3 /\ ~Affordable(k)
             THEN ReturnError(c, IF k.op.kind = "transfer" THEN "ErrInsufficientFunds" ELSE "ErrNothingToTransfer")
             ELSE call' = [call EXCEPT ![c] = k] /\ UNCHANGED results
        ELSE Return(c, CASE k.op.kind \in {"infoByHash", "infoByNum"} -> Info(k, k.got[1], k.got[2])
                         [] k.op.kind \in {"transfer", "transferAll"} ->
                                [n |-> k.n, op |-> k.op, error |-> "", sent |-> value]
                         [] OTHER -> [n |-> k.n, op |-> k.op, error |-> ""])

\* a call returned an error: every one but the last of an info ends the operation
Failed(c, error) ==
    IF Method(call[c]) = "eth_blockNumber" THEN Continue(c, 0) ELSE ReturnError(c, error)

Lookups == {"eth_getTransactionByHash", "eth_getTransactionByBlockNumberAndIndex"}

Received(c) ==
    /\ call[c].at = "wait"
    /\ \E reply \in ToSet(outbox) :
          /\ Receive(Request(c), reply)
          /\ IF Result(reply) = Nothing THEN Failed(c, "server")
             ELSE IF reply.kind = "ok" THEN Continue(c, reply.value)
             ELSE Failed(c, IF Method(call[c]) \in Lookups THEN "ErrTransactionNotFound" ELSE "parse")
    /\ UNCHANGED <<registryVars, nodeVars, started>>

CallFailed(c) ==
    /\ \/ call[c].at = "send" /\ SendFails
       \/ call[c].at = "wait" /\ ReceiveFails(Request(c))
    /\ Failed(c, "transport")
    /\ UNCHANGED <<registryVars, nodeVars, started>>

-----------------------------------------------------------------------------
(* The node (external)                                                        *)

\* a transaction with the nonce of one that waits replaces it if it pays more
Replaced(tx) == {u \in pool : u.nonce = tx.nonce}

Accepts(tx) ==
    /\ tx.nonce >= MinedCount
    /\ \A u \in Replaced(tx) : tx.price > u.price
    /\ TotalCost(pool \ Replaced(tx)) + Cost(tx) <= Latest

Values(request) ==
    CASE request.method = "eth_getBalance" -> {Latest}
      [] request.method = "eth_estimateGas" -> {Gas}
      [] request.method = "eth_gasPrice" -> Prices
      [] request.method = "eth_getTransactionCount" -> {PendingCount}
      [] request.method \in {"eth_chainId", "query"} -> {1}
      [] request.method = "eth_blockNumber" -> {head}
      [] request.method = "eth_getTransactionByHash" ->
            IF request.hash \in DOMAIN block THEN {block[request.hash]}
            ELSE IF \E t \in pool : t.n = request.hash THEN {0} ELSE {}
      [] request.method = "eth_getTransactionByBlockNumberAndIndex" ->
            IF request.hash \in DOMAIN block THEN {block[request.hash]} ELSE {}
      [] request.method = "eth_sendRawTransaction" -> IF Accepts(request.tx) THEN {request.tx.n} ELSE {}

Reply(request, kind, value) == [of |-> request, kind |-> kind, value |-> value]

Replies(request) ==
    IF Values(request) # {} THEN {Reply(request, "ok", v) : v \in Values(request)}
    ELSE {Reply(request, IF request.method = "eth_sendRawTransaction" THEN "error" ELSE "null", Nothing)}

\* an answer over HTTP reaches the caller only while it waits for it
Awaited(request) ==
    LET k == call[request.from]
    IN  k.at = "wait" /\ Request(request.from) = request

Serve ==
    /\ inbox # <<>>
    /\ \E i \in IF transport = "ipc" THEN {1} ELSE DOMAIN inbox :
          LET request == inbox[i]
              tx == request.tx
          IN  /\ inbox' = RemoveAt(inbox, i)
              /\ \E reply \in Replies(request) :
                    outbox' = IF transport = "ipc" \/ Awaited(request) THEN Append(outbox, reply) ELSE outbox
              /\ IF request.method # "eth_sendRawTransaction" THEN UNCHANGED <<pool, accepted, refused>>
                 ELSE IF Accepts(tx)
                 THEN /\ pool' = (pool \ Replaced(tx)) \cup {tx}
                      /\ accepted' = accepted \cup {tx} /\ UNCHANGED refused
                 ELSE /\ refused' = refused \cup {[tx |-> tx, began |-> request.began]}
                      /\ UNCHANGED <<pool, accepted>>
    /\ UNCHANGED <<transport, conn, mux, faults, registryVars, call, head, block, results, started>>

\* a server between the client and the node answers instead of it
Replace ==
    /\ transport = "http" /\ inbox # <<>> /\ Fault
    /\ Awaited(Head(inbox))
    /\ inbox' = Tail(inbox)
    /\ \E kind \in {"empty", "error"} : outbox' = Append(outbox, Reply(Head(inbox), kind, Nothing))
    /\ UNCHANGED <<transport, conn, mux, registryVars, nodeVars, call, results, started>>

\* a block, with the transactions that can be executed or without; the blocks before the
\* first transaction are left out
Mine ==
    /\ head < MaxHead /\ accepted # {}
    /\ head' = head + 1
    /\ \E txs \in {{}, {t \in pool : Executable(t)}} :
          /\ block' = [n \in DOMAIN block \cup {t.n : t \in txs} |-> IF n \in DOMAIN block THEN block[n] ELSE head']
          /\ pool' = pool \ txs
    /\ UNCHANGED <<urpcVars, registryVars, call, accepted, refused, results, started>>

Broken == Break /\ UNCHANGED <<registryVars, nodeVars, call, results, started>>

-----------------------------------------------------------------------------
AddSteps(c) == AddStep(c) /\ UNCHANGED <<urpcVars, nodeVars, call, results, started>>

Step(c) == Locked(c) \/ Sent(c) \/ Received(c) \/ CallFailed(c) \/ AddSteps(c)

Next ==
    \/ \E c \in Callers : Start(c) \/ StartAdd(c) \/ Step(c)
    \/ Serve \/ Replace \/ Mine \/ Broken

\* Goroutines run, sync.Mutex is handed to one that waits for it (after a millisecond it is
\* in the order they came), and the node answers what it gets.
Fairness ==
    /\ \A c \in Callers : /\ SF_vars(Locked(c))
                          /\ WF_vars(Sent(c) \/ Received(c) \/ CallFailed(c))
    /\ WF_vars(Serve)

Spec == Init /\ [][Next]_vars /\ Fairness

-----------------------------------------------------------------------------
(* Properties                                                                 *)

\* A caller reads the answer to its own request, although every request has the id "1" and
\* nobody compares ids: on the socket the mutex leaves one request on its way, and there is
\* no timeout after which an answer could come late (ipcClient.Call).
AnswersMatch ==
    \A c \in Callers :
        (call[c].at = "wait" /\ transport = "ipc" /\ outbox # <<>>)
            => Head(outbox).of = Request(c)

\* The nonces the client sends leave no gap, however transfers of one address, new blocks
\* and lost answers interleave: a transaction behind a gap would wait for ever
\* (PendingNonceAt, sendRawByPrivateKeyUnsafe).
NoNonceGap == \A t \in pool : Executable(t)

\* The node refuses a transaction only when another one of the address was in its pool or
\* came in since the transfer began: alone, the client never signs what the address cannot
\* pay or a nonce that is used (TransferByPrivateKey, TransferAllByPrivateKey).
AloneIsAccepted == \A r \in refused : \E t \in accepted : t.n # r.tx.n /\ t.n \notin r.began

\* A transfer that returns a hash was taken by the node, with the amount that was asked for
\* (SendRawTransaction).
ReportedSent ==
    \A r \in results :
        (r.op.kind \in {"transfer", "transferAll"} /\ r.error = "") =>
            \E t \in accepted : /\ t.n = r.sent /\ r.sent = r.n
                               /\ r.op.kind = "transfer" => t.amount = r.op.amount

\* A transaction that is reported as confirmed is in a block with at least the configured
\* number of blocks from it to the head, also when the head could not be asked for.
ConfirmedIsDeep ==
    \A r \in results :
        (r.op.kind \in {"infoByHash", "infoByNum"} /\ r.error = "") =>
            (r.confirmed => /\ r.hash \in DOMAIN block
                            /\ head - block[r.hash] + 1 >= MinConfirmations)

\* When no Add is running, the file holds the registry, unless the last save failed, which
\* Add does not tell. The address of a contract is found under its name, unless it is empty,
\* as that of the built-in contract is. Under its address a contract is found, itself or one
\* that spells the address in other letters, whatever was added at the same time (Add, Save).
RegistryPersisted ==
    (\A c \in Callers : adding[c] = DoNothing) =>
        /\ ~saveFailed => contractsFile.data = contracts
        /\ \A i \in DOMAIN contracts :
              LET address == contracts[i].ContractAddress
              IN  /\ GetSmartContractAddressByName(contracts[i].Name) = IF address = "" THEN Nothing ELSE address
                  /\ \E j \in DOMAIN contracts :
                         /\ GetSmartContractByAddress(address) = contracts[j]
                         /\ ToLower(contracts[j].ContractAddress) = ToLower(address)
                         /\ i = j \/ contracts[j].ContractAddress # address

\* Every operation returns, with a result or an error, although callers queue for one socket
\* and the socket may break under them (ipcClient.Call).
CallsReturn == \A c \in Callers : call[c] # Idle ~> call[c] = Idle

\* What goroutines share, the socket and the registry of tokens, gives each of them its
\* own (ipcclient.go, abi/manager.go).
SharedWithoutMixUp == AnswersMatch /\ RegistryPersisted

\* What the client signs can be executed, whatever happens between the call that reads the
\* nonce and the one that sends (send_methods.go).
TransfersExecutable == NoNonceGap /\ AloneIsAccepted

\* What the client reports about transactions is true of the node and of the chain
\* (send_methods.go, client.go).
ReportsTrue == ReportedSent /\ ConfirmedIsDeep
=============================================================================
