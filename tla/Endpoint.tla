------------------------------ MODULE Endpoint ------------------------------
(* Package endpoint with the registry of services it authorises against       *)
(* (subscriptions/subscriptions.go) and the file of that registry: JSON-RPC   *)
(* requests of several connections, each handled by its own goroutine.        *)
(*                                                                            *)
(* A request is a record [path, verb, method, svc, token, addr, key, words,   *)
(* to, amount, symbol, formatted, force, watchOnly, config]. svc lists the    *)
(* members of params that are spelt serviceId in any letter case, as they     *)
(* were written (see Field); one of kind "broken" says that params is no      *)
(* object. An address is "" when absent, "bad" when it does not decode, "short" when it  *)
(* decodes to the wrong length, and otherwise one of Addresses; a key or a    *)
(* mnemonic is "" or "bad" or belongs to an address. The configuration of a   *)
(* service stands for all that service.config sets; it is a number, the size  *)
(* of its text.                                                               *)
EXTENDS Startup, Integers, FiniteSets, FiniteSetsExt

CONSTANTS
    Handlers,       \* goroutines of the HTTP server
    Requests,       \* the requests clients make
    MaxRequests,    \* bound: requests received
    MaxCrashes,     \* bound: crashes
    Services0,      \* what the file of services holds at first (ServiceId -> Subscription)
    Pool0,          \* the address records at first (address -> record)
    KeyOf,          \* address -> its private key (also the address its mnemonic recovers)
    Tokens          \* symbol of a known token -> its decimals

CONSTANT Main       \* the goroutine of main, which loads the registry

Empty == ""          \* a text that is absent: no address, no key, no error
Addresses == DOMAIN KeyOf
AddressOf(key) == CHOOSE a \in Addresses : KeyOf[a] = key
Keys == {KeyOf[a] : a \in Addresses}
NativeCoin == "ETH"

\* A member of params: whether its name is exactly serviceId, the JSON kind of its value, the
\* integer a decimal reader takes it for, the integer part of the float64 it becomes, and what
\* ParseInt makes of a string in the base that its prefix says.
Field == [exact : BOOLEAN, kind : STRING, n : Int, float : Int, base0 : Int \cup {Nothing}]

Subscription == [Internal : BOOLEAN, ApiToken : STRING, ApiKey : STRING, config : Nat]

ColdServices == [s \in {0} |-> [Internal |-> TRUE, ApiToken |-> Empty, ApiKey |-> Empty, config |-> 0]]

\* The file of services has the one that a cold start makes, its configuration aside; the
\* key and the mnemonic of a record open its address; a request is as it is described above.
ASSUME EndpointAssumption ==
    /\ MaxRequests \in Nat \ {0} /\ MaxCrashes \in Nat
    /\ Main \notin Handlers
    /\ {Empty, "bad", "short"} \cap Addresses = {} /\ {Empty, "bad"} \cap Keys = {}
    /\ Services0 \in [DOMAIN Services0 -> Subscription] /\ IsFiniteSet(DOMAIN Services0)
    /\ 0 \in DOMAIN Services0
    /\ Services0[0] = [ColdServices[0] EXCEPT !.config = Services0[0].config]
    /\ DOMAIN Pool0 \subseteq Addresses
    /\ \A a \in DOMAIN Pool0 :
           Pool0[a] \in [ServiceId : Int, key : {Empty, KeyOf[a]}, words : {Empty, KeyOf[a]},
                         WatchOnly : BOOLEAN, Subscribed : BOOLEAN]
    /\ \A r \in Requests :
           /\ r.svc \in Seq(Field)
           /\ r.addr \in {Empty, "bad", "short"} \cup Addresses
           /\ {r.key, r.words} \subseteq {Empty, "bad"} \cup Keys
           /\ r.config \in Nat /\ r.watchOnly \in BOOLEAN
    /\ Nothing \notin Int \cup Requests \cup {ColdServices}

VARIABLES
    services,   \* Manager.subscribers
    file,       \* subscribers.json
    pool,       \* the records of the address pool, in memory and on disk
    index,      \* fastPool: the records the look-ups find
    pc,         \* where each goroutine is
    req,        \* the request it handles
    resp,       \* its JsonRpcResponse
    loc,        \* what it holds between two steps: a snapshot of services, or a key
    effects,    \* history: what was done for which service with which token
    sent,       \* history: the transfers the node accepted
    received, crashes

vars == <<startupVars, services, file, pool, index, pc, req, resp, loc, effects, sent, received, crashes>>

histories == <<effects, sent>>

\* the text json.MarshalIndent makes of the registry
TextSize(subscribers) == 1 + MapThenSumSet(LAMBDA s : 1 + subscribers[s].config, DOMAIN subscribers)

NoResponse == [error |-> Empty, result |-> FALSE]

\* bound: what is missing or broken at the start is looked at with the last request only
Init ==
    /\ StartupInit
    /\ received \in {0, MaxRequests - 1}
    /\ received = 0 => files = FullFiles /\ ~faulty
    /\ services = ColdServices
    /\ file \in {NoFile, SavedFile(Services0, TextSize(Services0))}
    /\ pool = Pool0 /\ index = Pool0
    /\ pc = [h \in Handlers \cup {Main} |-> "idle"]
    /\ req = [h \in Handlers |-> Nothing]
    /\ resp = [h \in Handlers |-> NoResponse]
    /\ loc = [h \in Handlers \cup {Main} |-> Nothing]
    /\ effects = {} /\ sent = {}
    /\ crashes = 0

-----------------------------------------------------------------------------
(* The process: start, crash, and the two halves of BinFileStorage.Save       *)

\* subscriptionsLoad: a file that is there must parse, or the node does not start
subscriptionsLoad_ColdOnError == IF Loads(file) THEN file.data ELSE ColdServices
subscriptionsLoad == IF IsExists(file) THEN file.data ELSE ColdServices

inMain == <<config, files, first, db, tries, flag, faulty>>

Start ==
    /\ At("subscribers") /\ pc[Main] = "idle"
    /\ subscriptionsLoad # Nothing
    /\ services' = subscriptionsLoad
    /\ IF IsExists(file)
       THEN Advance /\ UNCHANGED <<pc, loc>>
       ELSE \* subscriptionsColdStart saves what it made up
            /\ pc' = [pc EXCEPT ![Main] = "open"]
            /\ loc' = [loc EXCEPT ![Main] = [saved |-> ColdServices]]
            /\ UNCHANGED <<stage, exited, step>>
    /\ UNCHANGED <<inMain, file, pool, index, req, resp, received, crashes, histories>>

StartFails ==
    /\ At("subscribers") /\ pc[Main] = "idle"
    /\ subscriptionsLoad = Nothing
    /\ Exit
    /\ UNCHANGED <<inMain, services, file, pool, index, pc, req, resp, loc, received, crashes, histories>>

SaveOpen(h) ==
    /\ pc[h] = "open"
    /\ file' = Opened(file)
    /\ pc' = [pc EXCEPT ![h] = "write"]
    /\ UNCHANGED <<startupVars, services, pool, index, req, resp, loc, received, crashes, histories>>

SaveWrite(h) ==
    /\ pc[h] = "write"
    /\ file' = Written(file, loc[h].saved, TextSize(loc[h].saved))
    /\ loc' = [loc EXCEPT ![h] = Nothing]
    /\ IF h = Main
       THEN pc' = [pc EXCEPT ![h] = "idle"] /\ Advance /\ UNCHANGED resp
       ELSE /\ pc' = [pc EXCEPT ![h] = "encode"]
            /\ resp' = [resp EXCEPT ![h] = [error |-> @.error, result |-> TRUE]]
            /\ UNCHANGED <<stage, exited, step>>
    /\ UNCHANGED <<inMain, services, pool, index, req, received, crashes, histories>>

\* os.WriteFile fails: main gives up, a handler answers with an error
SaveFails(h) ==
    /\ pc[h] = "open" /\ (h = Main => faulty)
    /\ loc' = [loc EXCEPT ![h] = Nothing]
    /\ IF h = Main
       THEN pc' = [pc EXCEPT ![h] = "idle"] /\ Exit /\ UNCHANGED resp
       ELSE /\ pc' = [pc EXCEPT ![h] = "encode"]
            /\ resp' = [resp EXCEPT ![h] = [error |-> "SERVER_ERROR", result |-> @.result]]
            /\ UNCHANGED <<stage, exited, step>>
    /\ UNCHANGED <<inMain, services, file, pool, index, req, received, crashes, histories>>

\* A crash, or a new start after one that failed. The pool is on disk (see AddressPool) and
\* the files are as they are. The runtime also stops the process when one goroutine encodes
\* ReportTokens while another sets it, and a nil database does when it is used.
Crash ==
    /\ crashes < MaxCrashes
    /\ crashes' = crashes + 1
    /\ Restarted
    /\ services' = ColdServices
    /\ pc' = [h \in Handlers \cup {Main} |-> "idle"]
    /\ req' = [h \in Handlers |-> Nothing]
    /\ resp' = [h \in Handlers |-> NoResponse]
    /\ loc' = [h \in Handlers \cup {Main} |-> Nothing]
    /\ index' = pool            \* preLoadAddresses, at the next start
    /\ UNCHANGED <<file, pool, received, histories>>

\* the rest of main, and the flag that a running node adds to its configuration
Configure ==
    /\ StartupStep
    /\ UNCHANGED <<services, file, pool, index, pc, req, resp, loc, received, crashes, histories>>

-----------------------------------------------------------------------------
(* Parameters                                                                 *)

Broken(svc) == \E i \in DOMAIN svc : svc[i].kind = "broken"

\* the members with the name, and the last of them, which is the one a decoder keeps
Named(svc) == {i \in DOMAIN svc : svc[i].exact}
Numbers(svc, kinds) == {i \in DOMAIN svc : svc[i].kind \in kinds}

\* GetParamInt: the member of the map whose key is exactly serviceId. A number was made a
\* float64 and loses its fraction, null is zero, a string is read in the base its prefix says.
GetParamInt(svc) ==
    LET f == svc[Max(Named(svc))]
    IN  IF Broken(svc) \/ Named(svc) = {} THEN Nothing
        ELSE CASE f.kind \in {"number", "fraction"} -> f.float
               [] f.kind = "null" -> 0
               [] f.kind = "string" -> f.base0
               [] OTHER -> Nothing

\* ParseParams: json.Unmarshal into the integer field of a struct, which takes the name in any
\* letter case, one member after the other; null leaves the field as it is
ParseParams_Strings(svc) ==
    IF \E i \in DOMAIN svc : svc[i].kind \notin {"number", "string", "null"} THEN Nothing
    ELSE IF Numbers(svc, {"number", "string"}) = {} THEN 0
    ELSE svc[Max(Numbers(svc, {"number", "string"}))].n

ParseParams(svc) ==
    IF \E i \in DOMAIN svc : svc[i].kind \notin {"number", "null"} THEN Nothing
    ELSE IF Numbers(svc, {"number"}) = {} THEN 0
    ELSE svc[Max(Numbers(svc, {"number"}))].n

\* addressNormalise drops the error of EncodeBytesToAddress: the wrong length becomes ""
addressNormalise(address) == IF address = "short" THEN Empty ELSE address

KeyMismatch(address, key) == address # Empty /\ AddressOf(key) # address

-----------------------------------------------------------------------------
(* Receiving, routing, authorisation, answering                               *)

Receive(h, r) ==
    /\ Serving /\ pc[h] = "idle" /\ received < MaxRequests
    /\ received' = received + 1
    /\ req' = [req EXCEPT ![h] = r]
    /\ resp' = [resp EXCEPT ![h] = NoResponse]
    /\ pc' = [pc EXCEPT ![h] = "route"]
    /\ UNCHANGED <<startupVars, services, file, pool, index, loc, crashes, histories>>

\* rpcProcessors; the names with dots and the ones without are the same methods
Secured == {"addressGetNew", "addressGenerate", "serviceConfig", "transferInfoForAddress",
            "transferAssets", "transferGetEstimatedFee"}
Open == {"ping", "info", "getNodeInfo", "infoGetTokenList", "addressGetBalance", "addressSubscribe",
         "addressRecover", "serviceRegister", "transferInfo"}

Goto(h, where) == pc' = [pc EXCEPT ![h] = where]

SetError(h, code) ==
    /\ resp' = [resp EXCEPT ![h] = [error |-> code, result |-> @.result]]
    /\ Goto(h, "encode")
    /\ UNCHANGED loc

SetResult(h, marshals) ==
    /\ resp' = [resp EXCEPT ![h] = [error |-> @.error, result |-> marshals]]
    /\ Goto(h, "encode")

\* the handler is done with h, and the client reads what resp[h] holds
Reply(h) ==
    /\ Goto(h, "idle")
    /\ req' = [req EXCEPT ![h] = Nothing]
    /\ resp' = [resp EXCEPT ![h] = NoResponse]
    /\ loc' = [loc EXCEPT ![h] = Nothing]
    /\ UNCHANGED <<startupVars, services, file, pool, index, received, crashes, histories>>

\* RouteRpcRequest and Handle: no route is status 405; the wrong verb and a body that
\* does not parse are errors that Handle drops
NotRpc(h) ==
    /\ pc[h] = "route"
    /\ req[h].path # "/rpc" \/ req[h].verb # "POST" \/ req[h].method = "garbage"
    /\ Reply(h)

\* processRpcRequest
Route(h) ==
    /\ pc[h] = "route"
    /\ req[h].path = "/rpc" /\ req[h].verb = "POST" /\ req[h].method # "garbage"
    /\ CASE req[h].method = Empty -> SetError(h, "INVALID_REQUEST")
         [] req[h].method = "null" -> SetError(h, "SERVER_ERROR")  \* the body is null: recovered
         [] req[h].method \in Secured -> Goto(h, "authorise") /\ UNCHANGED <<resp, loc>>
         [] req[h].method \in Open -> Goto(h, "process") /\ UNCHANGED <<resp, loc>>
         [] OTHER -> SetError(h, "METHOD_NOT_FOUND")
    /\ UNCHANGED <<startupVars, services, file, pool, index, req, received, crashes, histories>>

\* RegisterSecuredProcessor
AuthError(subscriber, token) ==
    IF \/ subscriber.ApiToken # Empty /\ token # subscriber.ApiToken
       \/ subscriber.ApiToken = Empty /\ subscriber.ApiKey # Empty
    THEN "UNAUTHORIZED" ELSE Empty

Authorise(h) ==
    LET id == GetParamInt(req[h].svc)
    IN  /\ pc[h] = "authorise"
        /\ IF id = Nothing THEN SetError(h, "INVALID_REQUEST")
           ELSE IF id \notin DOMAIN services THEN SetError(h, "UNAUTHORIZED")
           ELSE IF AuthError(services[id], req[h].token) # Empty
           THEN SetError(h, AuthError(services[id], req[h].token))
           ELSE Goto(h, "process") /\ UNCHANGED <<resp, loc>>
        /\ UNCHANGED <<startupVars, services, file, pool, index, req, received, crashes, histories>>

\* the encoder writes the response, after a panic as well
Encode(h) == pc[h] = "encode" /\ Reply(h)

-----------------------------------------------------------------------------
(* Methods that answer from what they are given or read                       *)

\* a JSON number has digits behind its point: _formatBigIntToString with no decimals does not
Marshals(formatted, decimals) == ~formatted \/ decimals > 0

ReadOnly == {"ping", "info", "getNodeInfo", "infoGetTokenList", "addressGetBalance", "addressRecover",
             "addressGenerate", "transferInfo", "transferInfoForAddress", "transferGetEstimatedFee"}
Asking == {"addressGetBalance", "transferInfo", "transferInfoForAddress", "transferGetEstimatedFee"}

KnownAsset(symbol) == symbol \in {NativeCoin} \cup DOMAIN Tokens

DecimalsOf(symbol) == IF symbol = NativeCoin THEN 18 ELSE Tokens[symbol]

\* rpcProcessGetBalance: every asset asked for is formatted with its own decimals
BalanceAssets(r) == IF r.symbol = Empty THEN {NativeCoin} \cup DOMAIN Tokens ELSE {r.symbol}

\* the formatted estimate of an unknown token dereferences nil before anything is checked
NilToken(r) == r.method = "transferGetEstimatedFee" /\ r.formatted /\ ~KnownAsset(r.symbol)

ReadError(r) ==
    IF r.method \in Asking \cup {"addressRecover", "addressGenerate"} /\ Broken(r.svc)
    THEN "PARSE_ERROR"
    ELSE IF \/ r.method = "addressGetBalance"
               /\ (r.addr = "bad" \/ \E s \in BalanceAssets(r) : ~KnownAsset(s))
            \/ r.method \in {"transferInfoForAddress", "transferGetEstimatedFee"} /\ r.addr = "bad"
            \/ r.method = "transferGetEstimatedFee"
               /\ (r.to = "bad" \/ (~NilToken(r) /\ (r.amount = "bad" \/ ~KnownAsset(r.symbol))))
    THEN "INVALID_REQUEST"
    ELSE IF r.method = "transferGetEstimatedFee" /\ r.symbol # NativeCoin
    THEN "SERVER_ERROR"         \* recovered: NilToken, or a method the client does not implement
    ELSE Empty

\* what is formatted without decimals, a transaction that is no transfer, which has no
\* amount, and a transfer whose look-up failed, which has no fee: json.Marshal fails, and
\* SetResult drops its error
Unprintable(r) ==
    \/ r.method \in {"transferInfo", "transferInfoForAddress", "transferAssets"}
    \/ r.method = "addressGetBalance" /\ \E s \in BalanceAssets(r) : ~Marshals(r.formatted, DecimalsOf(s))

\* the client and the cache may fail; a mnemonic that is refused is a result as well
Read(h) ==
    /\ pc[h] = "process" /\ req[h].method \in ReadOnly
    /\ IF ReadError(req[h]) # Empty THEN SetError(h, ReadError(req[h]))
       ELSE \/ req[h].method \in Asking /\ SetError(h, "SERVER_ERROR")
            \/ \E fits \in {TRUE, ~Unprintable(req[h])} : SetResult(h, fits) /\ UNCHANGED loc
    /\ UNCHANGED <<startupVars, services, file, pool, index, req, received, crashes, histories>>

\* rpcProcessServiceRegister panics
ServiceRegister(h) ==
    /\ pc[h] = "process" /\ req[h].method = "serviceRegister"
    /\ SetError(h, "SERVER_ERROR")
    /\ UNCHANGED <<startupVars, services, file, pool, index, req, received, crashes, histories>>

-----------------------------------------------------------------------------
(* address.subscribe and address.get.new                                      *)

SubscribeAddress(r) ==
    IF r.key # Empty THEN AddressOf(r.key) ELSE addressNormalise(r.addr)

SubscribeError(r) ==
    LET id == ParseParams(r.svc)
        address == addressNormalise(r.addr)
    IN  IF id = Nothing THEN "PARSE_ERROR"
        ELSE IF \/ id = 0 \/ r.addr = "bad" \/ r.key = "bad"
                \/ r.key # Empty /\ KeyMismatch(address, r.key)
                \/ r.key = Empty /\ address = Empty
        THEN "INVALID_REQUEST"
        ELSE IF id \notin DOMAIN services \/ services[id].Internal THEN "SERVER_ERROR"
        ELSE IF r.words # Empty /\ (r.words = "bad" \/ KeyMismatch(SubscribeAddress(r), r.words))
        THEN "INVALID_REQUEST" ELSE Empty

\* up to the look-ups of AddAddressFill and AddAddressRecord
AddressSubscribe(h) ==
    /\ pc[h] = "process" /\ req[h].method = "addressSubscribe"
    /\ IF SubscribeError(req[h]) # Empty THEN SetError(h, SubscribeError(req[h]))
       ELSE IF SubscribeAddress(req[h]) \in DOMAIN index
       THEN SetResult(h, TRUE) /\ UNCHANGED loc             \* already known
       ELSE Goto(h, "insert") /\ UNCHANGED <<resp, loc>>
    /\ UNCHANGED <<startupVars, services, file, pool, index, req, received, crashes, histories>>

NewRecord(r) ==
    [ServiceId |-> ParseParams(r.svc), key |-> r.key, words |-> r.words,
     WatchOnly |-> r.watchOnly \/ r.key = Empty, Subscribed |-> TRUE]

\* addAddressUnsafe, which replaces a record that came in since the look-up
AddAddress_IndexFirst(h) ==
    /\ pc[h] = "insert"
    /\ index' = [a \in DOMAIN index \cup {SubscribeAddress(req[h])} |->
                    IF a = SubscribeAddress(req[h]) THEN NewRecord(req[h]) ELSE index[a]]
    /\ effects' = effects \cup {[service |-> ParseParams(req[h].svc), token |-> req[h].token, svc |-> req[h].svc,
                                 what |-> "subscribe", addr |-> SubscribeAddress(req[h])]}
    /\ SetResult(h, TRUE)
    /\ UNCHANGED <<startupVars, services, file, pool, req, loc, sent, received, crashes>>

AddAddress(h) ==
    /\ pc[h] = "insert"
    /\ pool' = [a \in DOMAIN pool \cup {SubscribeAddress(req[h])} |->
                   IF a = SubscribeAddress(req[h]) THEN NewRecord(req[h]) ELSE pool[a]]
    /\ effects' = effects \cup {[service |-> ParseParams(req[h].svc), token |-> req[h].token, svc |-> req[h].svc,
                                 what |-> "subscribe", addr |-> SubscribeAddress(req[h])]}
    /\ SetResult(h, TRUE)
    /\ UNCHANGED <<startupVars, services, file, index, req, loc, sent, received, crashes>>

\* the goroutine updatePool
UpdatePool ==
    /\ Serving /\ index # pool
    /\ index' = pool
    /\ UNCHANGED <<startupVars, services, file, pool, pc, req, resp, loc, received, crashes, histories>>

ServiceError(r) ==
    LET id == ParseParams(r.svc)
    IN  IF id = Nothing THEN "PARSE_ERROR"
        ELSE IF id = 0 /\ r.method = "addressGetNew" THEN "INVALID_REQUEST"
        ELSE IF id \notin DOMAIN services \/ services[id].Internal THEN "SERVER_ERROR" ELSE Empty

\* any address of the free list, marked through the index
AddressGetNew(h) ==
    LET id == ParseParams(req[h].svc)
        free == {a \in DOMAIN pool : ~pool[a].Subscribed}
    IN  /\ pc[h] = "process" /\ req[h].method = "addressGetNew"
        /\ IF ServiceError(req[h]) # Empty \/ free = {}
           THEN /\ SetError(h, IF ServiceError(req[h]) # Empty THEN ServiceError(req[h]) ELSE "SERVER_ERROR")
                /\ UNCHANGED <<pool, index, effects>>
           ELSE \E a \in free :
                    LET marked == [pool[a] EXCEPT !.ServiceId = id, !.WatchOnly = req[h].watchOnly,
                                                  !.Subscribed = TRUE]
                    IN  /\ pool' = [pool EXCEPT ![a] = marked]
                        /\ index' = [index EXCEPT ![a] = marked]
                        /\ effects' = effects \cup {[service |-> id, token |-> req[h].token, svc |-> req[h].svc,
                                                     what |-> "getNew", addr |-> a]}
                        /\ SetResult(h, TRUE) /\ UNCHANGED loc
        /\ UNCHANGED <<startupVars, services, file, req, sent, received, crashes>>

-----------------------------------------------------------------------------
(* service.config: SubscriptionGet, then SubscriptionEdit, whose edit and     *)
(* save run without a lock                                                    *)

ServiceConfig(h) ==
    /\ pc[h] = "process" /\ req[h].method = "serviceConfig"
    /\ IF ServiceError(req[h]) # Empty THEN SetError(h, ServiceError(req[h]))
       ELSE Goto(h, "edit") /\ UNCHANGED <<resp, loc>>
    /\ UNCHANGED <<startupVars, services, file, pool, index, req, received, crashes, histories>>

SubscriptionEdit(h) ==
    LET id == ParseParams(req[h].svc)
    IN  /\ pc[h] = "edit"
        /\ services' = [services EXCEPT ![id].config = req[h].config]
        /\ effects' = effects \cup {[service |-> id, token |-> req[h].token, svc |-> req[h].svc,
                                     what |-> "config", addr |-> Empty]}
        /\ Goto(h, "marshal")
        /\ UNCHANGED <<startupVars, file, pool, index, req, resp, loc, sent, received, crashes>>

subscriptionsSave(h) ==
    /\ pc[h] = "marshal"
    /\ loc' = [loc EXCEPT ![h] = [saved |-> services]]
    /\ Goto(h, "open")
    /\ UNCHANGED <<startupVars, services, file, pool, index, req, resp, received, crashes, histories>>

-----------------------------------------------------------------------------
(* transfer.assets                                                            *)

TransferError(r) ==
    LET from == addressNormalise(r.addr)
    IN  IF ParseParams(r.svc) = Nothing THEN "PARSE_ERROR"
        ELSE IF \/ "bad" \in {r.addr, r.to, r.amount, r.key}
                \/ ~KnownAsset(r.symbol)
                \/ addressNormalise(r.to) = Empty
                \/ r.amount = "zero"
                \/ r.key # Empty /\ KeyMismatch(from, r.key)
                \/ r.key = Empty /\ from = Empty
        THEN "INVALID_REQUEST" ELSE Empty

\* the key of a known address: the service's own, and not watch-only unless forced
MayUseKey(record, service, force) ==
    record.ServiceId = service /\ (~record.WatchOnly \/ force) /\ record.key # Empty

TransferAssets(h) ==
    LET r == req[h]
        from == addressNormalise(r.addr)
        use(key) == /\ loc' = [loc EXCEPT ![h] = [key |-> key, sent |-> Nothing]]
                    /\ Goto(h, "transfer") /\ UNCHANGED resp
    IN  /\ pc[h] = "process" /\ r.method = "transferAssets"
        /\ IF TransferError(r) # Empty THEN SetError(h, TransferError(r))
           ELSE IF r.key # Empty THEN use(r.key)
           ELSE IF from \in DOMAIN index /\ MayUseKey(index[from], ParseParams(r.svc), r.force)
           THEN use(index[from].key)
           ELSE SetError(h, "INVALID_REQUEST")
        /\ UNCHANGED <<startupVars, services, file, pool, index, req, received, crashes, histories>>

\* transferData.From was copied before From was derived from the key, and
\* TransferByPrivateKey wants the two to agree: a transfer by key alone is refused
Refused(r, key) == addressNormalise(r.addr) # AddressOf(key)

Transfer(r, key) ==
    [service |-> ParseParams(r.svc), token |-> r.token, svc |-> r.svc, from |-> addressNormalise(r.addr),
     key |-> key, given |-> r.key # Empty, force |-> r.force]

\* the client: refused, sent and answered, or sent and the answer lost; TransferToken panics
CallClient_NoReturn(h) ==
    LET t == Transfer(req[h], loc[h].key)
    IN  /\ pc[h] = "transfer"
        /\ \/ /\ loc' = [loc EXCEPT ![h] = [key |-> @.key, sent |-> t]] /\ Goto(h, "info") /\ UNCHANGED <<sent, resp>>
           \/ /\ req[h].symbol = NativeCoin /\ ~Refused(req[h], loc[h].key)
              /\ sent' = sent \cup {t}
              /\ loc' = [loc EXCEPT ![h] = [key |-> @.key, sent |-> t]] /\ Goto(h, "info") /\ UNCHANGED resp
        /\ UNCHANGED <<startupVars, services, file, pool, index, req, effects, received, crashes>>

CallClient(h) ==
    LET t == Transfer(req[h], loc[h].key)
    IN  /\ pc[h] = "transfer"
        /\ \/ SetError(h, "SERVER_ERROR") /\ UNCHANGED sent
           \/ /\ req[h].symbol = NativeCoin /\ ~Refused(req[h], loc[h].key)
              /\ sent' = sent \cup {t}
              /\ \/ SetError(h, "SERVER_ERROR")
                 \/ /\ loc' = [loc EXCEPT ![h] = [key |-> @.key, sent |-> t]]
                    /\ Goto(h, "info") /\ UNCHANGED resp
        /\ UNCHANGED <<startupVars, services, file, pool, index, req, effects, received, crashes>>

\* TransferInfoByHash; without what it finds the result has a warning and no fee, and the
\* empty fee is no JSON
TransferInfo(h) ==
    /\ pc[h] = "info"
    /\ \E found \in BOOLEAN :
           SetResult(h, found /\ Marshals(req[h].formatted, DecimalsOf(req[h].symbol))) /\ UNCHANGED loc
    /\ UNCHANGED <<startupVars, services, file, pool, index, req, received, crashes, histories>>

-----------------------------------------------------------------------------
Process(h) ==
    \/ NotRpc(h) \/ Route(h) \/ Authorise(h) \/ Encode(h) \/ Read(h) \/ ServiceRegister(h)
    \/ AddressSubscribe(h) \/ AddAddress(h) \/ AddressGetNew(h)
    \/ ServiceConfig(h) \/ SubscriptionEdit(h) \/ subscriptionsSave(h)
    \/ TransferAssets(h) \/ CallClient(h) \/ TransferInfo(h)

Next ==
    \/ Start \/ StartFails \/ Configure \/ Crash \/ UpdatePool
    \/ \E h \in Handlers \cup {Main} : SaveOpen(h) \/ SaveWrite(h) \/ SaveFails(h)
    \/ \E h \in Handlers : Process(h) \/ \E r \in Requests : Receive(h, r)

Spec == Init /\ [][Next]_vars

-----------------------------------------------------------------------------
(* Properties                                                                 *)

\* The variables have their types.
TypeOK ==
    /\ stage \in 1 .. Len(Order) /\ tries \in 0 .. 3
    /\ DOMAIN services \subseteq DOMAIN Services0 \cup {0}
    /\ file.exists \in BOOLEAN /\ file.size \in Nat
    /\ DOMAIN pool \subseteq Addresses /\ DOMAIN index \subseteq DOMAIN pool
    /\ \A h \in Handlers :
           /\ pc[h] \in {"idle", "route", "authorise", "process", "insert", "edit", "marshal", "open",
                         "write", "transfer", "info", "encode"}
           /\ (pc[h] = "idle") = (req[h] = Nothing)
    /\ received \in 0 .. MaxRequests /\ crashes \in 0 .. MaxCrashes

\* serviceId is written once, and its value is an integer that a float64 can hold.
WrittenOnce(svc) == Len(svc) <= 1 /\ \A i \in DOMAIN svc : svc[i].n = svc[i].float

\* What a secured method did, it did with the token of the service that GetParamInt reads
\* from the request (RegisterSecuredProcessor). Every handler reads serviceId again, with
\* ParseParams, and acts for the service it finds: the two are one service when serviceId is
\* written once, as a number, a string, null or a fraction. Written twice, in two letter
\* cases, they are not, and nothing is claimed of what the second names; addressSubscribe is
\* open to everyone.
EffectsAuthorised ==
    \A e \in {x \in effects : x.what # "subscribe"} \cup sent :
        LET id == GetParamInt(e.svc)
        IN  /\ id \in DOMAIN Services0
            /\ Services0[id].ApiToken \in {Empty, e.token}
            /\ Services0[id].ApiToken = Empty => Services0[id].ApiKey = Empty
            /\ WrittenOnce(e.svc) => e.service = id

\* A transfer that brings no key spends an address that the service ParseParams names
\* subscribed, was given by address.get.new, or owned from the start, although another goroutine may subscribe and
\* replace the record between the look-up and the use, and the index lags behind the pool
\* (rpcProcessTransferAssets, AddAddressFill).
SpentBySubscriber ==
    \A t \in sent :
        \/ t.given
        \/ \E e \in effects : e.service = t.service /\ e.addr = t.from
        \/ t.from \in DOMAIN Pool0 /\ Pool0[t.from].ServiceId = t.service

\* The key of every record and of every transfer opens its address, and the mnemonic of
\* a record recovers it, however the two came in (rpcProcessAddressSubscribe accepts an
\* address, a key, a mnemonic and combinations of them).
KeyOpensAddress ==
    /\ \A a \in DOMAIN pool : {pool[a].key, pool[a].words} \subseteq {Empty, KeyOf[a]}
    /\ \A t \in sent : t.key = KeyOf[t.from]

\* A JSON-RPC answer carries an error or a result and never both; it carries neither only
\* when json.Marshal cannot print the result. An answer to transfer.assets that has no error
\* is of a transfer the node accepted, even if it has no result.
AnswersTruthful ==
    \A h \in Handlers :
        pc[h] = "encode" =>
            /\ ~(resp[h].error # Empty /\ resp[h].result)
            /\ resp[h].error = Empty /\ ~resp[h].result => Unprintable(req[h])
            /\ resp[h].error = Empty /\ req[h].method = "transferAssets" => loc[h].sent \in sent

\* A service the node has worked for is never forgotten: after any interleaving of edits
\* and saves, and a crash inside one, a node that starts again knows it and its token
\* (subscriptionsLoad makes up a registry only when there is no file).
ServedIsKept ==
    Serving => \A e \in effects :
              /\ e.service \in DOMAIN services
              /\ services[e.service].ApiToken = Services0[e.service].ApiToken

\* A node reads what it wrote (see Startup), its registry of services included: an edit that
\* another edit's save overtook may leave a torn file, and so may a crash.
StartsUnlessTorn == ReadsWhatItWrites(Torn(file))

\* Every secured method ran under the token of the service that was checked, a service spends
\* only what it subscribed or was given, and a key is only ever used for the address it opens
\* (rpc_handler.go, methods_address.go, methods_transfers.go).
OnlyAuthorised == EffectsAuthorised /\ SpentBySubscriber /\ KeyOpensAddress

\* A node that serves has its services and its settings, after any crash and any torn
\* file (subscriptions.go, config.go, binstorage.go).
RestartsKeep == ServedIsKept /\ SettingsKept /\ StartsUnlessTorn
=============================================================================
