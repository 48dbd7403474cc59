--------------------------- MODULE EndpointProofs ---------------------------
(* Theorems about the endpoint, the registry of services, the start-up and    *)
(* the client library: TypeOK, OnlyAuthorised, AnswersUnderstood and          *)
(* RestartsKeep hold in every instance.                                       *)
EXTENDS UniClient, Sums

-----------------------------------------------------------------------------
(* The invariants                                                             *)

\* where a goroutine may be
Places == {"idle", "route", "authorise", "process", "insert", "edit", "marshal", "open", "write",
           "transfer", "info", "encode"}
Everyone == Handlers \cup {Main}

AddressRecord(a) == [ServiceId : Int, key : {Empty, KeyOf[a]}, words : {Empty, KeyOf[a]},
                     WatchOnly : BOOLEAN, Subscribed : BOOLEAN]

Codes == {Empty, "INVALID_REQUEST", "SERVER_ERROR", "UNAUTHORIZED", "PARSE_ERROR", "METHOD_NOT_FOUND"}
Responses == [error : Codes, result : BOOLEAN]

\* main, its stages and the file it is at
MainTypes ==
    /\ stage \in 1 .. 13 /\ tries \in 0 .. 3
    /\ exited \in BOOLEAN /\ (exited => stage # 13)
    /\ step \in [at : {"load", "open", "write"}, then : {"load", "next"}]
    /\ DOMAIN files = Modules
    /\ DOMAIN db = Databases
    /\ DOMAIN config = Modules /\ \A m \in Modules : DOMAIN config[m] = Fields(m)

\* the handlers, which work only while the node serves, and main, which saves a registry
\* that it made up
HandlerTypes ==
    /\ pc \in [Everyone -> Places]
    /\ req \in [Handlers -> Requests \cup {Nothing}]
    /\ resp \in [Handlers -> Responses]
    /\ DOMAIN loc = Everyone
    /\ received \in 0 .. MaxRequests /\ crashes \in 0 .. MaxCrashes
    /\ \A h \in Handlers : /\ pc[h] = "idle" <=> req[h] = Nothing
                           /\ pc[h] # "idle" => stage = 13 /\ ~exited
    /\ pc[Main] \in {"idle", "open", "write"}
    /\ pc[Main] # "idle" => stage = 8 /\ ~exited /\ loc[Main] = [saved |-> ColdServices]

\* a registry has the tokens that the operator gave out
IsRegistry(r) ==
    /\ r = [s \in DOMAIN r |-> r[s]]
    /\ DOMAIN r \subseteq DOMAIN Services0
    /\ \A s \in DOMAIN r :
           /\ r[s] = [Internal |-> r[s].Internal, ApiToken |-> Services0[s].ApiToken,
                      ApiKey |-> Services0[s].ApiKey, config |-> r[s].config]
           /\ r[s].config \in Nat

IsFileOfRegistry(f) ==
    /\ f.exists \in BOOLEAN /\ f.size \in Nat
    /\ f = [exists |-> f.exists, data |-> f.data, size |-> f.size]
    /\ ~f.exists => f.data = Nothing
    /\ f.data # Nothing => IsRegistry(f.data)

Saving(h) == pc[h] \in {"open", "write"}

RegistryTypes ==
    /\ IsRegistry(services)
    /\ IsFileOfRegistry(file)
    /\ \A h \in Everyone : Saving(h) => loc[h] = [saved |-> loc[h].saved] /\ IsRegistry(loc[h].saved)

PoolTypes ==
    /\ DOMAIN pool \subseteq Addresses /\ DOMAIN index \subseteq DOMAIN pool
    /\ \A a \in DOMAIN pool : pool[a] \in AddressRecord(a)
    /\ \A a \in DOMAIN index : index[a] \in AddressRecord(a)

TypeInv == MainTypes /\ HandlerTypes /\ RegistryTypes /\ PoolTypes

\* The method of the request fits the place in the code, and a secured method was authorised.
Entitled(r) ==
    /\ GetParamInt(r.svc) # Nothing /\ GetParamInt(r.svc) \in DOMAIN Services0
    /\ AuthError(Services0[GetParamInt(r.svc)], r.token) = Empty

MethodAt(h) ==
    /\ pc[h] = "authorise" => req[h].method \in Secured
    /\ pc[h] = "process" => req[h].method \in Secured \cup Open
    /\ pc[h] = "insert" => req[h].method = "addressSubscribe"
    /\ pc[h] \in {"edit", "marshal", "open", "write"} => req[h].method = "serviceConfig"
    /\ pc[h] \in {"transfer", "info"} => req[h].method = "transferAssets"

EntitledAt(h) ==
    /\ pc[h] \in {"process", "edit", "marshal", "open", "write", "transfer", "info"} /\ req[h].method \in Secured
           => Entitled(req[h])
    /\ pc[h] = "encode" /\ resp[h].error = Empty /\ req[h].method \in Secured => Entitled(req[h])

\* What rpcProcessAddressSubscribe has made sure of before it inserts.
MayInsert(r) ==
    /\ r.addr # "bad" /\ r.key # "bad"
    /\ r.key # Empty => ~KeyMismatch(addressNormalise(r.addr), r.key)
    /\ r.key = Empty => addressNormalise(r.addr) # Empty
    /\ r.words # Empty => r.words # "bad" /\ ~KeyMismatch(SubscribeAddress(r), r.words)

\* what was checked before is still so: a service is not forgotten while the node serves
CheckedAt(h) ==
    /\ pc[h] \in {"insert", "edit"} => /\ ParseParams(req[h].svc) # Nothing
                                       /\ ParseParams(req[h].svc) \in DOMAIN services
    /\ pc[h] = "insert" => MayInsert(req[h])
    /\ pc[h] = "transfer" => /\ ParseParams(req[h].svc) # Nothing
                             /\ loc[h] = [key |-> loc[h].key, sent |-> Nothing] /\ loc[h].key \in Keys
    /\ pc[h] = "info" => loc[h].sent \in sent

HandlerInv == \A h \in Handlers : MethodAt(h) /\ EntitledAt(h) /\ CheckedAt(h)

\* An address belongs to a service that subscribed it, was given it, or had it from the start.
Backed(a, service) ==
    \/ \E e \in effects : e.service = service /\ e.addr = a
    \/ a \in DOMAIN Pool0 /\ Pool0[a].ServiceId = service

SpendInv ==
    /\ \A a \in DOMAIN pool : Backed(a, pool[a].ServiceId)
    /\ \A a \in DOMAIN index : Backed(a, index[a].ServiceId)
    /\ \A h \in Handlers : pc[h] = "transfer" /\ req[h].key = Empty
                               => Backed(addressNormalise(req[h].addr), ParseParams(req[h].svc))

\* The services with an effect are in the registry and in every copy of it.
Served(S) == \A e \in effects : e.service \in S

ServedInv ==
    /\ file.data # Nothing => Served(DOMAIN file.data)
    /\ ~file.exists => effects = {} /\ stage <= 8 /\ pc[Main] # "write"
    /\ pc[Main] # "idle" => effects = {} /\ services = ColdServices
    /\ stage > 8 => /\ Served(DOMAIN services)
                    /\ file.data # Nothing => DOMAIN file.data = DOMAIN services
                    /\ \A h \in Handlers : Saving(h) => DOMAIN loc[h].saved = DOMAIN services

\* Which requests an error is an answer to.
ErrorFits(r, error) ==
    /\ error = "METHOD_NOT_FOUND" => r.method \notin Secured \cup Open
    /\ error = "PARSE_ERROR" => ParseParams(r.svc) = Nothing
    /\ error = "INVALID_REQUEST" =>
           \/ r.method \in {Empty, "addressSubscribe", "transferAssets"}
           \/ r.method \in Secured /\ GetParamInt(r.svc) = Nothing
           \/ r.method \in ReadOnly /\ ReadError(r) = "INVALID_REQUEST"
           \/ r.method = "addressGetNew" /\ ParseParams(r.svc) = 0

\* What an answer says.
AnswerAt(h) ==
    /\ pc[h] # "encode" => resp[h] = NoResponse
    /\ pc[h] = "encode" =>
           /\ ~(resp[h].error # Empty /\ resp[h].result)
           /\ resp[h].error = Empty /\ ~resp[h].result => Unprintable(req[h])
           /\ ErrorFits(req[h], resp[h].error)
           /\ resp[h].error = Empty /\ req[h].method = "transferAssets" => loc[h].sent \in sent
           /\ resp[h].result /\ req[h].method = "addressGetNew" =>
                  \E e \in effects : /\ e.service = ParseParams(req[h].svc) /\ e.token = req[h].token
                                     /\ e.what = "getNew"

AnswerInv == \A h \in Handlers : AnswerAt(h)

\* The settings: what is in a file and what is in memory is what was given.
StageOf(m) ==
    CASE m = "global" -> 1 [] m = "abi" -> 2 [] m = "client" -> 3 [] m = "address" -> 5
      [] m = "subscriptions" -> 7 [] m = "txcache" -> 10 [] m = "watchdog" -> 11 [] m = "security" -> 12

FileTrue(m) ==
    /\ files[m] = [exists |-> files[m].exists, data |-> files[m].data, size |-> files[m].size]
    /\ ~files[m].exists => files[m].data = Nothing /\ ~first[m].exists
    /\ files[m].data # Nothing =>
           /\ Parses(files[m].data)
           /\ m \in Strict => \A f \in Fields(m) \ {"flags"} :
                  (IF f \in DOMAIN files[m].data.values THEN files[m].data.values[f] ELSE "zero") = Given(m)[f]

ConfigTrue(m) ==
    /\ m \in Strict => \A f \in Fields(m) \ {"flags"} :
           /\ stage > StageOf(m) => config[m][f] = Given(m)[f]
           /\ stage = StageOf(m) /\ step.at # "load" => config[m][f] = Given(m)[f]
           /\ config[m][f] \in {"zero", Given(m)[f]}
    /\ m \notin Strict => \A f \in Checked(m) :
           /\ stage > StageOf(m) => config[m][f] # "zero"
           /\ stage = StageOf(m) /\ step.at # "load" /\ step.then = "next" => config[m][f] # "zero"

SettingsInv ==
    /\ \A m \in Modules : FileTrue(m) /\ ConfigTrue(m)
    /\ \A d \in Databases : db[d] = "nil" => faulty
    /\ StartsUnlessTorn

IInv ==
    /\ TypeInv /\ HandlerInv /\ EffectsAuthorised
    /\ SpendInv /\ SpentBySubscriber /\ KeyOpensAddress
    /\ ServedInv /\ AnswerInv /\ SettingsInv

-----------------------------------------------------------------------------
(* The assumptions, one by one                                                *)

LEMMA Bounds == MaxRequests \in Nat \ {0} /\ MaxCrashes \in Nat
BY EndpointAssumption DEF EndpointAssumption

LEMMA MainIsNoHandler == Main \notin Handlers
BY EndpointAssumption DEF EndpointAssumption

LEMMA NothingIsNothing == Nothing \notin Int \cup Requests \cup {ColdServices}
BY EndpointAssumption DEF EndpointAssumption

LEMMA ServicesGiven ==
    /\ Services0 \in [DOMAIN Services0 -> Subscription] /\ IsFiniteSet(DOMAIN Services0)
    /\ 0 \in DOMAIN Services0 /\ Services0[0] = [ColdServices[0] EXCEPT !.config = Services0[0].config]
BY EndpointAssumption DEF EndpointAssumption

LEMMA RequestsGiven ==
    \A r \in Requests :
        /\ r.svc \in Seq(Field)
        /\ r.addr \in {Empty, "bad", "short"} \cup Addresses
        /\ {r.key, r.words} \subseteq {Empty, "bad"} \cup Keys
        /\ r.config \in Nat /\ r.watchOnly \in BOOLEAN
BY EndpointAssumption DEF EndpointAssumption

LEMMA PoolGiven ==
    DOMAIN Pool0 \subseteq Addresses /\ \A a \in DOMAIN Pool0 : Pool0[a] \in AddressRecord(a)
BY EndpointAssumption DEF EndpointAssumption, AddressRecord

LEMMA TextsGiven == {Empty, "bad", "short"} \cap Addresses = {} /\ {Empty, "bad"} \cap Keys = {}
BY EndpointAssumption DEF EndpointAssumption

-----------------------------------------------------------------------------
(* The stages of main                                                         *)

\* The order of main (main.go): where each part is loaded.
LEMMA StageAt ==
    ASSUME MainTypes
    PROVE  /\ \A m \in Modules : At(m) <=> stage = StageOf(m) /\ ~exited
           /\ At("addresses.db") <=> stage = 4 /\ ~exited
           /\ At("transactions.db") <=> stage = 6 /\ ~exited
           /\ At("subscribers") <=> stage = 8 /\ ~exited
           /\ At("txcache.db") <=> stage = 9 /\ ~exited
           /\ Serving <=> stage = 13 /\ ~exited
<1> DEFINE n == stage
<1>1. n \in 1 .. 13
  BY DEF MainTypes
<1>2. Order[1] = "global" /\ Order[2] = "abi" /\ Order[3] = "client" /\ Order[4] = "addresses.db"
  BY DEF Order
<1>3. Order[5] = "address" /\ Order[6] = "transactions.db" /\ Order[7] = "subscriptions" /\ Order[8] = "subscribers"
  BY DEF Order
<1>4. /\ Order[9] = "txcache.db" /\ Order[10] = "txcache" /\ Order[11] = "watchdog" /\ Order[12] = "security"
      /\ Order[13] = "serving"
  BY DEF Order
<1>5. \/ n = 1 \/ n = 2 \/ n = 3 \/ n = 4 \/ n = 5 \/ n = 6 \/ n = 7 \/ n = 8 \/ n = 9 \/ n = 10
      \/ n = 11 \/ n = 12 \/ n = 13
  BY <1>1
<1>6. QED
  BY <1>2, <1>3, <1>4, <1>5 DEF At, Serving, StageOf, Modules, Strict

LEMMA OrderLength == Len(Order) = 13
BY DEF Order

\* Each stage but the last ends in the next one.
LEMMA StageBounds ==
    \A m \in Modules : StageOf(m) \in 1 .. 12
BY DEF StageOf, Modules, Strict

LEMMA MainInit == Init => MainTypes
<1> SUFFICES ASSUME StartupInit PROVE MainTypes
  BY DEF Init
<1>1. DOMAIN files = Modules
  BY StartupAssumption DEF StartupInit
<1>2. DOMAIN config = Modules /\ \A m \in Modules : config[m] = Unset(m)
  BY DEF StartupInit
<1>3. \A m \in Modules : DOMAIN config[m] = Fields(m)
  BY <1>2 DEF Unset
<1>4. stage \in 1 .. 13 /\ tries \in 0 .. 3 /\ exited = FALSE
  BY DEF StartupInit
<1>5. step \in [at : {"load", "open", "write"}, then : {"load", "next"}] /\ DOMAIN db = Databases
  BY DEF StartupInit
<1>6. QED
  BY <1>1, <1>2, <1>3, <1>4, <1>5 DEF MainTypes

\* Going on to the next stage, and giving up, at the stage of a module.
LEMMA MainAdvance ==
    ASSUME MainTypes, stage \in 1 .. 12, ~exited
    PROVE  /\ Advance => /\ stage' \in 1 .. 13 /\ exited' = FALSE
                         /\ step' \in [at : {"load", "open", "write"}, then : {"load", "next"}]
           /\ Exit => /\ stage' \in 1 .. 13 /\ exited' = TRUE /\ stage' # 13
                      /\ step' \in [at : {"load", "open", "write"}, then : {"load", "next"}]
<1>1. exited \in BOOLEAN /\ step \in [at : {"load", "open", "write"}, then : {"load", "next"}]
  BY DEF MainTypes
<1>2. exited = FALSE
  BY <1>1
<1>3. QED
  BY <1>1, <1>2 DEF Advance, Exit

\* main and the flag keep the types of the start-up.
LEMMA MainStartup == MainTypes /\ StartupStep => MainTypes'
<1> SUFFICES ASSUME MainTypes, StartupStep PROVE MainTypes'
  OBVIOUS
<1> DEFINE Steps == [at : {"load", "open", "write"}, then : {"load", "next"}]
<1>0. \A m \in Modules : At(m) => stage = StageOf(m) /\ ~exited /\ StageOf(m) \in 1 .. 12
  BY StageAt, StageBounds
<1>1. ASSUME NEW m \in Modules, coldStart(m) PROVE MainTypes'
  BY <1>1 DEF coldStart, MainTypes, ColdConfig
<1>2. ASSUME NEW m \in Modules, Load(m) PROVE MainTypes'
  <2>1. DOMAIN config' = Modules /\ \A k \in Modules : DOMAIN config'[k] = Fields(k)
    BY <1>2 DEF Load, MainTypes, Unmarshal
  <2>2. (Advance \/ Exit) /\ UNCHANGED <<files, db, tries>>
    BY <1>2 DEF Load
  <2>3. tries' \in 0 .. 3
    BY <2>2 DEF MainTypes
  <2>4. stage' \in 1 .. 13 /\ exited' \in BOOLEAN /\ (exited' => stage' # 13) /\ step' \in Steps
    BY <1>0, <1>2, <2>2, <2>3, MainAdvance DEF Load
  <2>5. QED
    BY <2>1, <2>2, <2>3, <2>4 DEF MainTypes
<1>3. ASSUME NEW m \in Modules, LoadLenient(m) PROVE MainTypes'
  <2>1. DOMAIN config' = Modules /\ \A k \in Modules : DOMAIN config'[k] = Fields(k)
    BY <1>3 DEF LoadLenient, MainTypes, checkDefaults
  <2>2. /\ Advance \/ Exit \/ (step' = [at |-> "open", then |-> "next"] /\ UNCHANGED <<stage, exited>>)
        /\ UNCHANGED <<files, db, tries>>
    BY <1>3 DEF LoadLenient
  <2>3. tries' \in 0 .. 3
    BY <2>2 DEF MainTypes
  <2>4. stage' \in 1 .. 13 /\ exited' \in BOOLEAN /\ (exited' => stage' # 13) /\ step' \in Steps
    <3>1. CASE Advance \/ Exit
      BY <1>0, <1>3, <3>1, <2>3, MainAdvance DEF LoadLenient
    <3>2. CASE step' = [at |-> "open", then |-> "next"] /\ UNCHANGED <<stage, exited>>
      BY <3>2 DEF MainTypes
    <3>3. QED
      BY <2>2, <3>1, <3>2
  <2>5. QED
    BY <2>1, <2>2, <2>3, <2>4 DEF MainTypes
<1>4. ASSUME NEW m \in Modules, ConfigOpen(m) PROVE MainTypes'
  BY <1>4 DEF ConfigOpen, MainTypes
<1>5. ASSUME NEW m \in Modules, ConfigWrite(m) PROVE MainTypes'
  <2>1. DOMAIN files' = Modules
    BY <1>5 DEF ConfigWrite, MainTypes
  <2>2. /\ Advance \/ Exit \/ (step' = [step EXCEPT !.at = "load"] /\ UNCHANGED <<stage, exited>>)
        /\ UNCHANGED <<config, db, tries>>
    BY <1>5 DEF ConfigWrite
  <2>3. tries' \in 0 .. 3
    BY <2>2 DEF MainTypes
  <2>4. stage' \in 1 .. 13 /\ exited' \in BOOLEAN /\ (exited' => stage' # 13) /\ step' \in Steps
    <3>1. CASE Advance \/ Exit
      BY <1>0, <1>5, <3>1, <2>3, MainAdvance DEF ConfigWrite
    <3>2. CASE step' = [step EXCEPT !.at = "load"] /\ UNCHANGED <<stage, exited>>
      BY <3>2 DEF MainTypes
    <3>3. QED
      BY <2>2, <3>1, <3>2
  <2>5. QED
    BY <2>1, <2>2, <2>3, <2>4 DEF MainTypes
<1>6. ASSUME NEW m \in Modules, ConfigFails(m) PROVE MainTypes'
  BY <1>6, StageAt, StageBounds DEF ConfigFails, MainTypes, Exit
<1>7. ASSUME NEW d \in Databases, connect(d) PROVE MainTypes'
  BY <1>7, StageAt DEF connect, MainTypes, Advance, Databases
<1>8. CASE Flag
  BY <1>8 DEF Flag, MainTypes
<1>9. CASE FlagOpen
  BY <1>9 DEF FlagOpen, MainTypes
<1>10. CASE FlagWrite
  BY <1>10 DEF FlagWrite, MainTypes
<1>11. QED
  BY <1>1, <1>2, <1>3, <1>4, <1>5, <1>6, <1>7, <1>8, <1>9, <1>10
  DEF StartupStep, GetNewBadgerStorage, GetNewBadgerHoldStorage, Databases

-----------------------------------------------------------------------------
(* The handlers                                                               *)

\* A request in work is a request.
LEMMA InWork ==
    ASSUME HandlerTypes, NEW h \in Handlers, pc[h] # "idle"
    PROVE  req[h] \in Requests /\ stage = 13 /\ exited = FALSE /\ h # Main
BY MainIsNoHandler DEF HandlerTypes

\* What a step of handler h does to the rest.
Alone(h) ==
    /\ \A k \in Everyone \ {h} : pc'[k] = pc[k] /\ loc'[k] = loc[k]
    /\ \A k \in Handlers \ {h} : req'[k] = req[k] /\ resp'[k] = resp[k]

LEMMA HandlerInit == Init => HandlerTypes
<1> SUFFICES ASSUME Init PROVE HandlerTypes
  OBVIOUS
<1>1. /\ pc = [h \in Handlers \cup {Main} |-> "idle"] /\ req = [h \in Handlers |-> Nothing]
      /\ resp = [h \in Handlers |-> NoResponse] /\ loc = [h \in Handlers \cup {Main} |-> Nothing]
      /\ crashes = 0 /\ received \in {0, MaxRequests - 1}
  BY DEF Init
<1>2. NoResponse \in Responses
  BY DEF NoResponse, Responses, Codes
<1>3. received \in 0 .. MaxRequests /\ crashes \in 0 .. MaxCrashes
  BY <1>1, Bounds
<1>4. QED
  BY <1>1, <1>2, <1>3 DEF HandlerTypes, Everyone, Places, Responses

\* The four shapes of a step of a handler: it goes on, it sets an error or a
\* result, and it replies.
LEMMA GoesOn ==
    ASSUME HandlerTypes, NEW h \in Handlers, pc[h] # "idle", NEW p \in Places \ {"idle"}, Goto(h, p),
           UNCHANGED <<stage, exited, received, crashes, req>>,
           resp' \in [Handlers -> Responses], \A k \in Handlers \ {h} : resp'[k] = resp[k],
           DOMAIN loc' = Everyone, \A k \in Everyone \ {h} : loc'[k] = loc[k]
    PROVE  HandlerTypes' /\ Alone(h) /\ pc'[h] = p
<1>1. h # Main /\ req[h] # Nothing
  BY InWork, NothingIsNothing
<1>2. pc' = [pc EXCEPT ![h] = p] /\ pc \in [Everyone -> Places] /\ h \in Everyone /\ Main \in Everyone
  BY DEF Goto, HandlerTypes, Everyone
<1>3. pc' \in [Everyone -> Places] /\ \A k \in Everyone \ {h} : pc'[k] = pc[k]
  BY <1>2
<1>4. pc'[h] = p
  BY <1>2
<1>5. \A k \in Handlers : /\ pc'[k] = "idle" <=> req'[k] = Nothing
                          /\ pc'[k] # "idle" => stage' = 13 /\ ~exited'
  <2> SUFFICES ASSUME NEW k \in Handlers
               PROVE  /\ pc'[k] = "idle" <=> req'[k] = Nothing
                      /\ pc'[k] # "idle" => stage' = 13 /\ ~exited'
    OBVIOUS
  <2>1. CASE k = h
    BY <2>1, <1>1, <1>4, InWork
  <2>2. CASE k # h
    BY <2>2, <1>3 DEF HandlerTypes, Everyone
  <2>3. QED
    BY <2>1, <2>2
<1>6. pc'[Main] = pc[Main] /\ loc'[Main] = loc[Main]
  BY <1>1, <1>2, <1>3
<1>7. HandlerTypes'
  BY <1>3, <1>5, <1>6 DEF HandlerTypes, Responses
<1>8. QED
  BY <1>3, <1>4, <1>7 DEF Alone

LEMMA ErrorShape ==
    ASSUME HandlerTypes, NEW h \in Handlers, pc[h] # "idle", NEW code \in Codes, SetError(h, code),
           UNCHANGED <<stage, exited, received, crashes, req>>
    PROVE  /\ HandlerTypes' /\ Alone(h) /\ pc'[h] = "encode" /\ UNCHANGED loc
           /\ resp'[h] = [error |-> code, result |-> resp[h].result]
<1>1. resp' = [resp EXCEPT ![h] = [error |-> code, result |-> resp[h].result]] /\ UNCHANGED loc /\ Goto(h, "encode")
  BY DEF SetError
<1>2. resp \in [Handlers -> Responses]
  BY DEF HandlerTypes, Responses
<1>3. resp'[h] = [error |-> code, result |-> resp[h].result]
  BY <1>1, <1>2 DEF Responses
<1>4. resp' \in [Handlers -> Responses] /\ \A k \in Handlers \ {h} : resp'[k] = resp[k]
  BY <1>1, <1>2 DEF Responses
<1>5. DOMAIN loc' = Everyone /\ \A k \in Everyone \ {h} : loc'[k] = loc[k]
  BY <1>1 DEF HandlerTypes
<1>6. "encode" \in Places \ {"idle"}
  BY DEF Places
<1>7. QED
  BY <1>1, <1>3, <1>4, <1>5, <1>6, GoesOn

LEMMA ResultShape ==
    ASSUME HandlerTypes, NEW h \in Handlers, pc[h] # "idle", NEW fits \in BOOLEAN, SetResult(h, fits),
           UNCHANGED <<stage, exited, received, crashes, req, loc>>
    PROVE  /\ HandlerTypes' /\ Alone(h) /\ pc'[h] = "encode"
           /\ resp'[h] = [error |-> resp[h].error, result |-> fits]
<1>1. resp' = [resp EXCEPT ![h] = [error |-> resp[h].error, result |-> fits]] /\ Goto(h, "encode")
  BY DEF SetResult
<1>2. resp \in [Handlers -> Responses]
  BY DEF HandlerTypes, Responses
<1>3. resp'[h] = [error |-> resp[h].error, result |-> fits]
  BY <1>1, <1>2 DEF Responses
<1>4. resp' \in [Handlers -> Responses] /\ \A k \in Handlers \ {h} : resp'[k] = resp[k]
  BY <1>1, <1>2 DEF Responses
<1>5. DOMAIN loc' = Everyone /\ \A k \in Everyone \ {h} : loc'[k] = loc[k]
  BY DEF HandlerTypes
<1>6. "encode" \in Places \ {"idle"}
  BY DEF Places
<1>7. QED
  BY <1>1, <1>3, <1>4, <1>5, <1>6, GoesOn

LEMMA MoveShape ==
    ASSUME HandlerTypes, NEW h \in Handlers, pc[h] # "idle", NEW p \in Places \ {"idle"}, Goto(h, p),
           UNCHANGED <<stage, exited, received, crashes, req, resp>>,
           UNCHANGED loc \/ \E x : loc' = [loc EXCEPT ![h] = x]
    PROVE  HandlerTypes' /\ Alone(h) /\ pc'[h] = p
<1>1. resp' \in [Handlers -> Responses] /\ \A k \in Handlers \ {h} : resp'[k] = resp[k]
  BY DEF HandlerTypes, Responses
<1>2. DOMAIN loc' = Everyone /\ \A k \in Everyone \ {h} : loc'[k] = loc[k]
  BY DEF HandlerTypes
<1>3. QED
  BY <1>1, <1>2, GoesOn

LEMMA ReplyShape ==
    ASSUME HandlerTypes, NEW h \in Handlers, Reply(h)
    PROVE  /\ HandlerTypes' /\ Alone(h) /\ pc'[h] = "idle" /\ resp'[h] = NoResponse
           /\ UNCHANGED <<startupVars, services, file, pool, index, received, crashes, histories>>
<1>1. /\ pc' = [pc EXCEPT ![h] = "idle"] /\ req' = [req EXCEPT ![h] = Nothing]
      /\ resp' = [resp EXCEPT ![h] = NoResponse] /\ loc' = [loc EXCEPT ![h] = Nothing]
      /\ UNCHANGED <<startupVars, services, file, pool, index, received, crashes, histories>>
  BY DEF Reply, Goto
<1>2. UNCHANGED <<stage, exited, received, crashes>>
  BY <1>1 DEF startupVars
<1>3. h \in Everyone /\ h # Main /\ Main \in Everyone /\ NoResponse \in Responses
  BY MainIsNoHandler DEF Everyone, NoResponse, Responses, Codes
<1>4. Alone(h) /\ pc'[h] = "idle" /\ resp'[h] = NoResponse /\ req'[h] = Nothing
  BY <1>1, <1>3 DEF Alone, HandlerTypes
<1>5. /\ pc' \in [Everyone -> Places] /\ req' \in [Handlers -> Requests \cup {Nothing}]
      /\ resp' \in [Handlers -> Responses] /\ DOMAIN loc' = Everyone
  BY <1>1, <1>3 DEF HandlerTypes, Places, Responses
<1>6. \A k \in Handlers : /\ pc'[k] = "idle" <=> req'[k] = Nothing
                          /\ pc'[k] # "idle" => stage' = 13 /\ ~exited'
  BY <1>2, <1>4 DEF Alone, HandlerTypes, Everyone
<1>7. pc'[Main] = pc[Main] /\ loc'[Main] = loc[Main]
  BY <1>3, <1>4 DEF Alone
<1>8. HandlerTypes'
  BY <1>2, <1>5, <1>6, <1>7 DEF HandlerTypes, Responses
<1>9. QED
  BY <1>1, <1>4, <1>8

\* An absent text is neither of the other two, nor one of the codes.
LEMMA EmptyIsOther ==
    /\ Empty # "bad" /\ Empty # "short"
    /\ Empty # "INVALID_REQUEST" /\ Empty # "SERVER_ERROR" /\ Empty # "UNAUTHORIZED"
    /\ Empty # "PARSE_ERROR" /\ Empty # "METHOD_NOT_FOUND"
BY DEF Empty

LEMMA EmptyIsNoMethod == Empty \notin Secured \cup Open /\ Empty # "unexpected end of JSON input"
BY DEF Empty, Secured, Open

LEMMA ErrorCodes ==
    /\ \A r : ReadError(r) \in Codes
    /\ \A r : SubscribeError(r) \in Codes
    /\ \A r : ServiceError(r) \in Codes
    /\ \A r : TransferError(r) \in Codes
    /\ \A s, t : AuthError(s, t) \in Codes
<1>1. \A r : ReadError(r) \in Codes
  BY DEF ReadError, Codes
<1>2. \A r : SubscribeError(r) \in Codes
  BY DEF SubscribeError, Codes
<1>3. \A r : ServiceError(r) \in Codes
  BY DEF ServiceError, Codes
<1>4. \A r : TransferError(r) \in Codes
  BY DEF TransferError, Codes
<1>5. \A s, t : AuthError(s, t) \in Codes
  BY DEF AuthError, Codes
<1>6. QED
  BY <1>1, <1>2, <1>3, <1>4, <1>5

\* What every step of a handler leaves alone.
LEMMA ProcessFrame ==
    ASSUME NEW h \in Handlers, Process(h)
    PROVE  UNCHANGED <<startupVars, file, received, crashes>>
BY DEF Process, NotRpc, Route, Authorise, Encode, Read, ServiceRegister, AddressSubscribe, AddAddress,
       AddressGetNew, ServiceConfig, SubscriptionEdit, subscriptionsSave, TransferAssets, CallClient,
       TransferInfo, Reply, histories

\* Handlers do not touch each other's variables.
LEMMA ProcessTypes ==
    ASSUME HandlerTypes, NEW h \in Handlers, Process(h)
    PROVE  HandlerTypes' /\ Alone(h) /\ pc[h] # "idle"
<1>0. UNCHANGED <<stage, exited, received, crashes>>
  BY ProcessFrame DEF startupVars
<1> DEFINE Fine == HandlerTypes' /\ Alone(h) /\ pc[h] # "idle"
<1>a. {"INVALID_REQUEST", "SERVER_ERROR", "UNAUTHORIZED", "METHOD_NOT_FOUND"} \subseteq Codes
  BY DEF Codes
<1>b. /\ {"authorise", "process", "insert", "edit", "marshal", "open", "transfer", "info"}
             \subseteq Places \ {"idle"}
      /\ TRUE \in BOOLEAN
  BY DEF Places
<1>e. ASSUME pc[h] # "idle", UNCHANGED req, NEW code \in Codes, SetError(h, code) PROVE Fine
  BY <1>0, <1>e, ErrorShape
<1>m. ASSUME pc[h] # "idle", UNCHANGED <<req, resp, loc>>, NEW p \in Places \ {"idle"}, Goto(h, p) PROVE Fine
  <2>1. UNCHANGED <<stage, exited, received, crashes, req, resp>>
    BY <1>0, <1>m
  <2>2. UNCHANGED loc
    BY <1>m
  <2>3. QED
    BY <1>m, <2>1, <2>2, MoveShape
<1>r. ASSUME pc[h] # "idle", UNCHANGED <<req, loc>>, NEW fits \in BOOLEAN, SetResult(h, fits) PROVE Fine
  BY <1>0, <1>r, ResultShape
<1> HIDE DEF Fine
<1>1. CASE NotRpc(h)
  BY <1>1, ReplyShape DEF NotRpc, Fine
<1>2. CASE Route(h)
  <2>1. pc[h] = "route" /\ UNCHANGED req
    BY <1>2 DEF Route, SetError, SetResult, Goto
  <2>2. \/ \E code \in Codes : SetError(h, code)
        \/ \E p \in Places \ {"idle"} : Goto(h, p) /\ UNCHANGED <<resp, loc>>
    BY <1>2, <1>a, <1>b DEF Route, SetError, SetResult, Goto
  <2>3. QED
    BY <2>1, <2>2, <1>e, <1>m DEF Fine, SetError, SetResult, Goto
<1>3. CASE Authorise(h)
  <2>1. pc[h] = "authorise" /\ UNCHANGED req
    BY <1>3 DEF Authorise, SetError, SetResult, Goto
  <2>2. \/ \E code \in Codes : SetError(h, code)
        \/ \E p \in Places \ {"idle"} : Goto(h, p) /\ UNCHANGED <<resp, loc>>
    BY <1>3, <1>a, <1>b, ErrorCodes DEF Authorise, SetError, SetResult, Goto
  <2>3. QED
    BY <2>1, <2>2, <1>e, <1>m DEF Fine, SetError, SetResult, Goto
<1>4. CASE Encode(h)
  BY <1>4, ReplyShape DEF Encode, Fine
<1>5. CASE Read(h)
  <2>1. pc[h] = "process" /\ UNCHANGED req
    BY <1>5 DEF Read, SetError, SetResult, Goto
  <2>2. \/ \E code \in Codes : SetError(h, code)
        \/ \E fits \in BOOLEAN : SetResult(h, fits) /\ UNCHANGED loc
    <3>1. {TRUE, ~Unprintable(req[h])} \subseteq BOOLEAN
      OBVIOUS
    <3>2. QED
      BY <1>5, <1>a, <3>1, ErrorCodes DEF Read, SetError, SetResult, Goto
  <2>3. QED
    BY <2>1, <2>2, <1>e, <1>r DEF Fine, SetError, SetResult, Goto
<1>6. CASE ServiceRegister(h)
  BY <1>6, <1>a, <1>e DEF Fine, ServiceRegister, SetError, SetResult, Goto
<1>7. CASE AddressSubscribe(h)
  <2>1. pc[h] = "process" /\ UNCHANGED req
    BY <1>7 DEF AddressSubscribe, SetError, SetResult, Goto
  <2>2. \/ \E code \in Codes : SetError(h, code)
        \/ SetResult(h, TRUE) /\ UNCHANGED loc
        \/ Goto(h, "insert") /\ UNCHANGED <<resp, loc>>
    BY <1>7, ErrorCodes DEF AddressSubscribe, SetError, SetResult, Goto
  <2>3. QED
    BY <2>1, <2>2, <1>b, <1>e, <1>m, <1>r DEF Fine, SetError, SetResult, Goto
<1>8. CASE AddAddress(h)
  BY <1>8, <1>b, <1>r DEF Fine, AddAddress, SetError, SetResult, Goto
<1>9. CASE AddressGetNew(h)
  <2>1. pc[h] = "process" /\ UNCHANGED req
    BY <1>9 DEF AddressGetNew, SetError, SetResult, Goto
  <2>2. \/ \E code \in Codes : SetError(h, code)
        \/ SetResult(h, TRUE) /\ UNCHANGED loc
    BY <1>9, <1>a, ErrorCodes DEF AddressGetNew, SetError, SetResult, Goto
  <2>3. QED
    BY <2>1, <2>2, <1>b, <1>e, <1>r DEF Fine, SetError, SetResult, Goto
<1>10. CASE ServiceConfig(h)
  <2>1. pc[h] = "process" /\ UNCHANGED req
    BY <1>10 DEF ServiceConfig, SetError, SetResult, Goto
  <2>2. \/ \E code \in Codes : SetError(h, code)
        \/ Goto(h, "edit") /\ UNCHANGED <<resp, loc>>
    BY <1>10, ErrorCodes DEF ServiceConfig, SetError, SetResult, Goto
  <2>3. QED
    BY <2>1, <2>2, <1>b, <1>e, <1>m DEF Fine, SetError, SetResult, Goto
<1>11. CASE SubscriptionEdit(h)
  BY <1>11, <1>b, <1>m DEF Fine, SubscriptionEdit, SetError, SetResult, Goto
<1>12. CASE subscriptionsSave(h)
  <2>1. pc[h] = "marshal" /\ UNCHANGED <<req, resp>> /\ Goto(h, "open")
    BY <1>12 DEF subscriptionsSave
  <2>2. \E x : loc' = [loc EXCEPT ![h] = x]
    BY <1>12 DEF subscriptionsSave
  <2>3. QED
    BY <1>0, <1>b, <2>1, <2>2, MoveShape DEF Fine
<1>13. CASE TransferAssets(h)
  <2>1. pc[h] = "process" /\ UNCHANGED req
    BY <1>13 DEF TransferAssets, SetError, SetResult, Goto
  <2>2. \/ \E code \in Codes : SetError(h, code)
        \/ /\ Goto(h, "transfer") /\ UNCHANGED resp
           /\ \E x : loc' = [loc EXCEPT ![h] = x]
    BY <1>13, <1>a, ErrorCodes DEF TransferAssets, SetError, SetResult, Goto
  <2>3. CASE \E x : loc' = [loc EXCEPT ![h] = x] /\ Goto(h, "transfer") /\ UNCHANGED resp
    BY <1>0, <1>b, <2>1, <2>3, MoveShape DEF Fine
  <2>4. QED
    BY <2>1, <2>2, <2>3, <1>e DEF Fine, SetError, SetResult, Goto
<1>14. CASE CallClient(h)
  <2>1. pc[h] = "transfer" /\ UNCHANGED req
    BY <1>14 DEF CallClient, SetError, SetResult, Goto
  <2>2. \/ \E code \in Codes : SetError(h, code)
        \/ /\ Goto(h, "info") /\ UNCHANGED resp
           /\ loc' = [loc EXCEPT ![h] = [key |-> loc[h].key, sent |-> Transfer(req[h], loc[h].key)]]
    BY <1>14, <1>a DEF CallClient, SetError, SetResult, Goto
  <2>3. CASE /\ Goto(h, "info") /\ UNCHANGED resp
             /\ loc' = [loc EXCEPT ![h] = [key |-> loc[h].key, sent |-> Transfer(req[h], loc[h].key)]]
    <3>1. \E x : loc' = [loc EXCEPT ![h] = x]
      BY <2>3
    <3>2. QED
      BY <1>0, <1>b, <2>1, <2>3, <3>1, MoveShape DEF Fine
  <2>4. QED
    BY <2>1, <2>2, <2>3, <1>e DEF Fine, SetError, SetResult, Goto
<1>15. CASE TransferInfo(h)
  <2>1. PICK found \in BOOLEAN :
            SetResult(h, found /\ Marshals(req[h].formatted, DecimalsOf(req[h].symbol)))
    BY <1>15 DEF TransferInfo
  <2>2. (found /\ Marshals(req[h].formatted, DecimalsOf(req[h].symbol))) \in BOOLEAN
    OBVIOUS
  <2>3. QED
    BY <1>15, <1>b, <1>r, <2>1, <2>2 DEF Fine, TransferInfo, SetError, SetResult, Goto
<1>16. QED
  BY <1>1, <1>2, <1>3, <1>4, <1>5, <1>6, <1>7, <1>8, <1>9, <1>10, <1>11, <1>12, <1>13, <1>14, <1>15
  DEF Process, Fine

\* A handler that saves, and one that takes a request.
LEMMA SaveTypes ==
    ASSUME MainTypes, HandlerTypes, NEW h \in Handlers, SaveOpen(h) \/ SaveWrite(h) \/ SaveFails(h)
    PROVE  /\ MainTypes' /\ HandlerTypes' /\ Alone(h) /\ pc[h] # "idle" /\ UNCHANGED <<req, startupVars>>
           /\ SaveOpen(h) => pc'[h] = "write" /\ resp' = resp /\ loc' = loc
           /\ SaveWrite(h) => pc'[h] = "encode" /\ resp'[h] = [error |-> resp[h].error, result |-> TRUE]
           /\ SaveFails(h) => pc'[h] = "encode" /\ resp'[h] = [error |-> "SERVER_ERROR", result |-> resp[h].result]
<1>1. h # Main
  BY MainIsNoHandler
<1>2. UNCHANGED <<req, startupVars, received, crashes>> /\ pc[h] # "idle"
  BY <1>1 DEF SaveOpen, SaveWrite, SaveFails, startupVars, inMain
<1>3. UNCHANGED <<stage, exited, received, crashes, req>> /\ MainTypes'
  BY <1>2 DEF startupVars, MainTypes
<1>4. resp \in [Handlers -> Responses] /\ DOMAIN loc = Everyone /\ h \in Everyone /\ DOMAIN pc = Everyone
  BY DEF HandlerTypes, Everyone
<1>5. "write" \in Places \ {"idle"} /\ "encode" \in Places \ {"idle"}
  BY DEF Places
<1>6. ASSUME SaveOpen(h) PROVE HandlerTypes' /\ Alone(h) /\ pc'[h] = "write" /\ resp' = resp /\ loc' = loc
  <2>1. Goto(h, "write") /\ UNCHANGED <<resp, loc>>
    BY <1>6 DEF SaveOpen, Goto
  <2>2. UNCHANGED <<stage, exited, received, crashes, req, resp>>
    BY <1>3, <2>1
  <2>3. QED
    BY <1>2, <1>5, <2>1, <2>2, MoveShape
<1>7. ASSUME SaveWrite(h)
      PROVE  HandlerTypes' /\ Alone(h) /\ pc'[h] = "encode" /\ resp'[h] = [error |-> resp[h].error, result |-> TRUE]
  <2>1. /\ Goto(h, "encode") /\ loc' = [loc EXCEPT ![h] = Nothing]
        /\ resp' = [resp EXCEPT ![h] = [error |-> resp[h].error, result |-> TRUE]]
    BY <1>1, <1>7 DEF SaveWrite, Goto
  <2>2. /\ resp'[h] = [error |-> resp[h].error, result |-> TRUE]
        /\ resp' \in [Handlers -> Responses] /\ \A k \in Handlers \ {h} : resp'[k] = resp[k]
    BY <1>4, <2>1 DEF Responses
  <2>3. DOMAIN loc' = Everyone /\ \A k \in Everyone \ {h} : loc'[k] = loc[k]
    BY <1>4, <2>1
  <2>4. QED
    BY <1>2, <1>3, <1>5, <2>1, <2>2, <2>3, GoesOn
<1>8. ASSUME SaveFails(h)
      PROVE  /\ HandlerTypes' /\ Alone(h) /\ pc'[h] = "encode"
             /\ resp'[h] = [error |-> "SERVER_ERROR", result |-> resp[h].result]
  <2>1. /\ Goto(h, "encode") /\ loc' = [loc EXCEPT ![h] = Nothing]
        /\ resp' = [resp EXCEPT ![h] = [error |-> "SERVER_ERROR", result |-> resp[h].result]]
    BY <1>1, <1>8 DEF SaveFails, Goto
  <2>2. /\ resp'[h] = [error |-> "SERVER_ERROR", result |-> resp[h].result]
        /\ resp' \in [Handlers -> Responses] /\ \A k \in Handlers \ {h} : resp'[k] = resp[k]
    BY <1>4, <2>1 DEF Responses, Codes
  <2>3. DOMAIN loc' = Everyone /\ \A k \in Everyone \ {h} : loc'[k] = loc[k]
    BY <1>4, <2>1
  <2>4. QED
    BY <1>2, <1>3, <1>5, <2>1, <2>2, <2>3, GoesOn
<1>9. SaveOpen(h) => pc'[h] = "write" /\ resp' = resp /\ loc' = loc
  BY <1>6
<1>10. SaveWrite(h) => pc'[h] = "encode" /\ resp'[h] = [error |-> resp[h].error, result |-> TRUE]
  BY <1>7
<1>11. SaveFails(h) => pc'[h] = "encode" /\ resp'[h] = [error |-> "SERVER_ERROR", result |-> resp[h].result]
  BY <1>8
<1>12. HandlerTypes' /\ Alone(h)
  BY <1>6, <1>7, <1>8
<1>13. QED
  BY <1>2, <1>3, <1>9, <1>10, <1>11, <1>12

LEMMA ReceiveTypes ==
    ASSUME MainTypes, HandlerTypes, NEW h \in Handlers, NEW r \in Requests, Receive(h, r)
    PROVE  /\ MainTypes' /\ HandlerTypes' /\ Alone(h) /\ pc'[h] = "route" /\ req'[h] = r /\ resp'[h] = NoResponse
<1>1. /\ pc' = [pc EXCEPT ![h] = "route"] /\ req' = [req EXCEPT ![h] = r]
      /\ resp' = [resp EXCEPT ![h] = NoResponse] /\ loc' = loc
      /\ UNCHANGED startupVars /\ crashes' = crashes /\ received' = received + 1 /\ received < MaxRequests
  BY DEF Receive
<1>2. stage = 13 /\ ~exited /\ stage' = stage /\ exited' = exited /\ MainTypes'
  BY <1>1, StageAt DEF Receive, startupVars, MainTypes
<1>3. h \in Everyone /\ h # Main /\ Main \in Everyone /\ NoResponse \in Responses /\ r # Nothing
  BY MainIsNoHandler, NothingIsNothing DEF Everyone, NoResponse, Responses, Codes
<1>4. Alone(h) /\ pc'[h] = "route" /\ req'[h] = r /\ resp'[h] = NoResponse
  BY <1>1, <1>3 DEF Alone, HandlerTypes
<1>5. /\ pc' \in [Everyone -> Places] /\ req' \in [Handlers -> Requests \cup {Nothing}]
      /\ resp' \in [Handlers -> Responses] /\ DOMAIN loc' = Everyone
  BY <1>1, <1>3 DEF HandlerTypes, Places
<1>6. \A k \in Handlers : /\ pc'[k] = "idle" <=> req'[k] = Nothing
                          /\ pc'[k] # "idle" => stage' = 13 /\ ~exited'
  BY <1>2, <1>3, <1>4 DEF Alone, HandlerTypes, Everyone
<1>7. pc'[Main] = pc[Main] /\ loc'[Main] = loc[Main]
  BY <1>3, <1>4 DEF Alone
<1>8. received' \in 0 .. MaxRequests /\ crashes' \in 0 .. MaxCrashes
  BY <1>1, Bounds DEF HandlerTypes
<1>9. HandlerTypes'
  BY <1>2, <1>5, <1>6, <1>7, <1>8 DEF HandlerTypes
<1>10. QED
  BY <1>2, <1>4, <1>9

\* While main is at work every handler waits.
LEMMA AllIdle ==
    ASSUME HandlerTypes, stage # 13 \/ exited
    PROVE  \A h \in Handlers : pc[h] = "idle" /\ req[h] = Nothing
BY DEF HandlerTypes

LEMMA CrashTypes ==
    ASSUME HandlerTypes, Crash
    PROVE  /\ MainTypes => MainTypes'
           /\ HandlerTypes'
           /\ \A h \in Everyone : pc'[h] = "idle" /\ loc'[h] = Nothing
           /\ \A h \in Handlers : req'[h] = Nothing /\ resp'[h] = NoResponse
           /\ stage' = 1 /\ exited' = FALSE
<1>1. /\ pc' = [h \in Everyone |-> "idle"] /\ req' = [h \in Handlers |-> Nothing]
      /\ resp' = [h \in Handlers |-> NoResponse] /\ loc' = [h \in Everyone |-> Nothing]
      /\ crashes' = crashes + 1 /\ crashes < MaxCrashes /\ received' = received /\ Restarted
  BY DEF Crash, Everyone
<1>2. stage' = 1 /\ exited' = FALSE
  BY <1>1 DEF Restarted
<1>3. MainTypes => MainTypes'
  <2> SUFFICES ASSUME MainTypes PROVE MainTypes'
    OBVIOUS
  <2>1. config' = [m \in Modules |-> Unset(m)] /\ DOMAIN files' = Modules
    BY <1>1 DEF Restarted, MainTypes
  <2>2. DOMAIN config' = Modules /\ \A m \in Modules : DOMAIN config'[m] = Fields(m)
    BY <2>1 DEF Unset
  <2>3. /\ tries' \in 0 .. 3 /\ DOMAIN db' = Databases
        /\ step' \in [at : {"load", "open", "write"}, then : {"load", "next"}]
    <3>1. tries' = 0 /\ db' = [d \in Databases |-> "closed"] /\ step' = [at |-> "load", then |-> "load"]
      BY <1>1 DEF Restarted
    <3>2. QED
      BY <3>1
  <2>4. QED
    <3>1. stage' \in 1 .. 13 /\ exited' \in BOOLEAN /\ (exited' => stage' # 13)
      <4>1. stage' \in 1 .. 13
        BY <1>2
      <4>2. exited' \in BOOLEAN /\ ~exited'
        BY <1>2, Zenon
      <4>3. QED
        BY <4>1, <4>2
    <3>2. QED
      BY <2>1, <2>2, <2>3, <3>1 DEF MainTypes
<1>4. NoResponse \in Responses
  BY DEF NoResponse, Responses, Codes
<1>5. received' \in 0 .. MaxRequests /\ crashes' \in 0 .. MaxCrashes
  BY <1>1, Bounds DEF HandlerTypes
<1>6. HandlerTypes'
  BY <1>1, <1>4, <1>5 DEF HandlerTypes, Everyone, Places
<1>7. QED
  BY <1>1, <1>2, <1>3, <1>6

\* main at its registry: it loads one, gives up, or saves the one it made up.
LEMMA StartTypes ==
    ASSUME MainTypes, HandlerTypes, Start
    PROVE  MainTypes' /\ HandlerTypes' /\ stage = 8 /\ ~exited /\ UNCHANGED <<req, resp>>
<1>1. stage = 8 /\ ~exited /\ pc[Main] = "idle"
  BY StageAt DEF Start
<1>2. UNCHANGED <<inMain, req, resp, received, crashes>>
  BY DEF Start
<1>3. CASE Advance /\ UNCHANGED <<pc, loc>>
  <2>1. tries' \in 0 .. 3
    BY <1>2 DEF MainTypes, inMain
  <2>2. MainTypes'
    <3>1. /\ stage' \in 1 .. 13 /\ exited' = FALSE
          /\ step' \in [at : {"load", "open", "write"}, then : {"load", "next"}]
      <4>1. stage \in 1 .. 12
        BY <1>1
      <4>2. QED
        BY <1>1, <1>3, <4>1, MainAdvance
    <3>2. QED
      BY <1>2, <2>1, <3>1 DEF MainTypes, inMain
  <2>3. \A h \in Handlers : pc[h] = "idle"
    BY <1>1, AllIdle
  <2>4. HandlerTypes'
    BY <1>1, <1>2, <1>3, <2>3 DEF HandlerTypes
  <2>5. QED
    BY <1>1, <1>2, <2>2, <2>4
<1>4. CASE /\ pc' = [pc EXCEPT ![Main] = "open"] /\ loc' = [loc EXCEPT ![Main] = [saved |-> ColdServices]]
           /\ UNCHANGED <<stage, exited, step>>
  <2>1. MainTypes'
    BY <1>2, <1>4 DEF MainTypes, inMain
  <2>2. Main \in Everyone /\ \A h \in Handlers : h \in Everyone /\ h # Main
    BY MainIsNoHandler DEF Everyone
  <2>3. pc' \in [Everyone -> Places] /\ DOMAIN loc' = Everyone
    BY <1>4 DEF HandlerTypes, Places
  <2>4. pc'[Main] = "open" /\ loc'[Main] = [saved |-> ColdServices] /\ \A h \in Handlers : pc'[h] = pc[h]
    BY <1>4, <2>2 DEF HandlerTypes
  <2>5. HandlerTypes'
    BY <1>1, <1>2, <1>4, <2>3, <2>4 DEF HandlerTypes
  <2>6. QED
    BY <1>1, <1>2, <2>1, <2>5
<1>5. QED
  BY <1>3, <1>4 DEF Start

LEMMA MainSaves ==
    ASSUME MainTypes, HandlerTypes, SaveOpen(Main) \/ SaveWrite(Main) \/ SaveFails(Main)
    PROVE  /\ MainTypes' /\ HandlerTypes' /\ stage = 8 /\ ~exited /\ UNCHANGED <<req, resp>>
           /\ \A k \in Handlers : pc'[k] = pc[k] /\ loc'[k] = loc[k]
<1>1. pc[Main] # "idle" /\ UNCHANGED <<inMain, req, resp, received, crashes>>
  BY DEF SaveOpen, SaveWrite, SaveFails, startupVars, inMain
<1>2. stage = 8 /\ ~exited /\ loc[Main] = [saved |-> ColdServices]
  BY <1>1 DEF HandlerTypes
<1>3. Main \in Everyone /\ \A k \in Handlers : k \in Everyone /\ k # Main
  BY MainIsNoHandler DEF Everyone
<1>4. \A k \in Handlers : pc'[k] = pc[k] /\ loc'[k] = loc[k]
  BY <1>3 DEF SaveOpen, SaveWrite, SaveFails, HandlerTypes
<1>5. tries' \in 0 .. 3 /\ UNCHANGED <<files, db, config>>
  BY <1>1 DEF MainTypes, inMain
<1>6. \A k \in Handlers : pc[k] = "idle"
  BY <1>2, AllIdle
<1>7. /\ pc' \in [Everyone -> Places] /\ DOMAIN loc' = Everyone
      /\ SaveOpen(Main) => pc'[Main] = "write" /\ loc'[Main] = loc[Main]
      /\ SaveWrite(Main) \/ SaveFails(Main) => pc'[Main] = "idle"
  BY <1>3 DEF SaveOpen, SaveWrite, SaveFails, HandlerTypes, Places
<1>8. CASE SaveOpen(Main)
  <2>1. UNCHANGED <<stage, exited, step>>
    BY <1>8 DEF SaveOpen, startupVars
  <2>2. MainTypes'
    BY <1>5, <2>1 DEF MainTypes
  <2>3. HandlerTypes'
    BY <1>1, <1>2, <1>4, <1>7, <1>8, <2>1 DEF HandlerTypes
  <2>4. QED
    BY <1>1, <1>2, <1>4, <2>2, <2>3
<1>9. CASE SaveWrite(Main) \/ SaveFails(Main)
  <2>1. Advance \/ Exit
    BY <1>9 DEF SaveWrite, SaveFails
  <2>2. /\ stage' \in 1 .. 13 /\ exited' \in BOOLEAN /\ (exited' => stage' # 13)
        /\ step' \in [at : {"load", "open", "write"}, then : {"load", "next"}]
    <3>1. stage \in 1 .. 12
      BY <1>2
    <3>2. QED
      BY <1>2, <2>1, <3>1, MainAdvance
  <2>3. MainTypes'
    BY <1>5, <2>2 DEF MainTypes
  <2>4. HandlerTypes'
    BY <1>1, <1>4, <1>6, <1>7, <1>9 DEF HandlerTypes
  <2>5. QED
    BY <1>1, <1>2, <1>4, <2>3, <2>4
<1>10. QED
  BY <1>8, <1>9

\* Where the other parts of main are, and that a node that serves goes on serving.
LEMMA StartupAt ==
    ASSUME MainTypes, StartupStep
    PROVE  ~exited /\ stage # 8 /\ (stage = 13 => stage' = 13 /\ ~exited')
<1>1. \A m \in Modules : At(m) => ~exited /\ stage # 8 /\ stage # 13
  <2>1. \A m \in Modules : StageOf(m) # 8 /\ StageOf(m) # 13
    <3>1. \A m \in Modules : StageOf(m) \in {1, 2, 3, 5, 7, 10, 11, 12}
      BY DEF StageOf, Modules, Strict
    <3>2. QED
      BY <3>1
  <2>2. QED
    BY <2>1, StageAt
<1>2. \A d \in Databases : At(d) => ~exited /\ stage # 8 /\ stage # 13
  BY StageAt DEF Databases
<1>3. Serving => ~exited /\ stage = 13
  BY StageAt
<1>4. \/ \E m \in Modules : At(m)
      \/ \E d \in Databases : At(d)
      \/ Serving /\ UNCHANGED <<stage, exited>>
  BY DEF StartupStep, coldStart, Load, LoadLenient, ConfigOpen, ConfigWrite, ConfigFails, connect,
         GetNewBadgerStorage, GetNewBadgerHoldStorage, Flag, FlagOpen, FlagWrite, Databases
<1>5. QED
  BY <1>1, <1>2, <1>3, <1>4

LEMMA ShapeNext == MainTypes /\ HandlerTypes /\ [Next]_vars => MainTypes' /\ HandlerTypes'
<1> SUFFICES ASSUME MainTypes, HandlerTypes, [Next]_vars PROVE MainTypes' /\ HandlerTypes'
  OBVIOUS
<1>1. CASE Start
  BY <1>1, StartTypes
<1>2. CASE StartFails
  <2>1. stage = 8 /\ ~exited /\ Exit /\ UNCHANGED <<inMain, pc, req, resp, loc, received, crashes>>
    BY <1>2, StageAt DEF StartFails
  <2>2. \A h \in Handlers : pc[h] = "idle"
    BY <2>1, AllIdle
  <2>3. tries' \in 0 .. 3 /\ pc[Main] = "idle"
    BY <1>2, <2>1 DEF MainTypes, inMain, StartFails
  <2>4. /\ stage' \in 1 .. 13 /\ exited' = TRUE /\ stage' # 13
        /\ step' \in [at : {"load", "open", "write"}, then : {"load", "next"}]
    <3>1. stage \in 1 .. 12
      BY <2>1
    <3>2. QED
      BY <2>1, <3>1, MainAdvance
  <2>5. MainTypes'
    BY <2>1, <2>3, <2>4 DEF MainTypes, inMain
  <2>6. HandlerTypes'
    BY <2>1, <2>2, <2>3 DEF HandlerTypes
  <2>7. QED
    BY <2>5, <2>6
<1>3. CASE Configure
  <2>1. MainTypes' /\ UNCHANGED <<pc, req, resp, loc, received, crashes>>
    BY <1>3, MainStartup DEF Configure
  <2>2. ~exited /\ stage # 8 /\ (stage = 13 => stage' = 13 /\ ~exited')
    BY <1>3, StartupAt DEF Configure
  <2>3. HandlerTypes'
    BY <2>1, <2>2 DEF HandlerTypes
  <2>4. QED
    BY <2>1, <2>3
<1>4. CASE Crash
  BY <1>4, CrashTypes
<1>5. CASE UpdatePool
  BY <1>5 DEF UpdatePool, startupVars, MainTypes, HandlerTypes
<1>6. CASE \E h \in Handlers \cup {Main} : SaveOpen(h) \/ SaveWrite(h) \/ SaveFails(h)
  BY <1>6, SaveTypes, MainSaves
<1>7. ASSUME NEW h \in Handlers, Process(h) PROVE MainTypes' /\ HandlerTypes'
  BY <1>7, ProcessTypes, ProcessFrame DEF startupVars, MainTypes
<1>8. ASSUME NEW h \in Handlers, NEW r \in Requests, Receive(h, r) PROVE MainTypes' /\ HandlerTypes'
  BY <1>8, ReceiveTypes
<1>9. CASE UNCHANGED vars
  BY <1>9 DEF vars, startupVars, MainTypes, HandlerTypes
<1>10. QED
  BY <1>1, <1>2, <1>3, <1>4, <1>5, <1>6, <1>7, <1>8, <1>9 DEF Next

-----------------------------------------------------------------------------
(* The registry and its file                                                  *)

LEMMA ColdIsRegistry == IsRegistry(ColdServices) /\ DOMAIN ColdServices = {0}
<1>1. DOMAIN ColdServices = {0} /\ ColdServices = [s \in {0} |-> ColdServices[s]]
  BY DEF ColdServices
<1>2. ColdServices[0] = [Internal |-> TRUE, ApiToken |-> Empty, ApiKey |-> Empty, config |-> 0]
  BY DEF ColdServices
<1>3. Services0[0].ApiToken = Empty /\ Services0[0].ApiKey = Empty
  BY <1>2, ServicesGiven
<1>4. QED
  BY <1>1, <1>2, <1>3, ServicesGiven DEF IsRegistry

LEMMA GivenIsRegistry == IsRegistry(Services0)
<1>1. \A s \in DOMAIN Services0 : Services0[s] \in Subscription
  BY ServicesGiven
<1>2. Services0 = [s \in DOMAIN Services0 |-> Services0[s]]
  BY ServicesGiven
<1>3. QED
  BY <1>1, <1>2 DEF IsRegistry, Subscription

\* The size of the text of a registry is a number: a sum over a finite set.
LEMMA TextSizeIsNat ==
    ASSUME NEW r, IsRegistry(r)
    PROVE  TextSize(r) \in Nat
<1> DEFINE S == DOMAIN r
           w == [s \in S |-> 1 + r[s].config]
           Sums(g) == g = [s \in SUBSET S |-> IF s = {} THEN 0 ELSE (1 + r[Pick(s)].config) + g[s \ {Pick(s)}]]
<1>1. TextSize(r) = 1 + (CHOOSE g : Sums(g))[S]
  BY DEF TextSize, MapThenSumSet, MapThenFoldSet, Pick
<1>2. IsFiniteSet(S) /\ \A x \in S : w[x] \in Nat
  BY ServicesGiven, FS_Subset DEF IsRegistry
<1>3. ASSUME NEW g PROVE Sums(g) <=> IsSum(g, S, w)
  <2> DEFINE a == [s \in SUBSET S |-> IF s = {} THEN 0 ELSE (1 + r[Pick(s)].config) + g[s \ {Pick(s)}]]
             b == [s \in SUBSET S |-> IF s = {} THEN 0 ELSE w[Pick(s)] + g[s \ {Pick(s)}]]
  <2>1. \A s \in SUBSET S : s # {} => w[Pick(s)] = 1 + r[Pick(s)].config
    BY PickIsIn
  <2>2. a = b
    BY <2>1
  <2>3. QED
    BY <2>2 DEF IsSum
<1>4. PICK f : IsSum(f, S, w)
  BY <1>2, SumExists
<1>5. Sums(CHOOSE g : Sums(g))
  <2> HIDE DEF Sums
  <2>1. Sums(f)
    BY <1>3, <1>4
  <2>2. QED
    BY <2>1
<1>6. IsSum(CHOOSE g : Sums(g), S, w)
  BY <1>3, <1>5
<1>7. (CHOOSE g : Sums(g))[S] \in Nat
  <2> HIDE DEF Sums, S, w
  <2>1. QED
    BY <1>2, <1>6, SumIsNat
<1>8. QED
  BY <1>1, <1>7

\* Save, in its two halves, leaves a file whose text is a registry or does not parse.
LEMMA OpenedFile ==
    ASSUME NEW f
    PROVE  IsFileOfRegistry(Opened(f)) /\ Opened(f).exists /\ Opened(f).data = Nothing
BY DEF Opened, SavedFile, IsFileOfRegistry

LEMMA WrittenFile ==
    ASSUME NEW f, IsFileOfRegistry(f), NEW r, IsRegistry(r), NEW n \in Nat
    PROVE  /\ IsFileOfRegistry(Written(f, r, n))
           /\ f.exists => Written(f, r, n).exists
           /\ Written(f, r, n).data \in {r, Nothing}
<1>1. CASE f.size <= n
  <2>1. Written(f, r, n) = [exists |-> TRUE, data |-> r, size |-> n]
    BY <1>1 DEF Written, SavedFile
  <2>2. QED
    BY <2>1 DEF IsFileOfRegistry
<1>2. CASE ~(f.size <= n)
  <2>1. Written(f, r, n) = [exists |-> f.exists, data |-> Nothing, size |-> f.size]
    <3>1. Written(f, r, n) = [f EXCEPT !.data = Nothing]
      BY <1>2 DEF Written
    <3>2. f = [exists |-> f.exists, data |-> f.data, size |-> f.size]
      BY DEF IsFileOfRegistry
    <3>3. QED
      BY <3>1, <3>2
  <2>2. QED
    BY <2>1 DEF IsFileOfRegistry
<1>3. QED
  BY <1>1, <1>2

\* An edit of the configuration leaves the tokens alone.
LEMMA EditIsRegistry ==
    ASSUME NEW r, IsRegistry(r), NEW id, NEW c \in Nat
    PROVE  LET e == [r EXCEPT ![id].config = c] IN IsRegistry(e) /\ DOMAIN e = DOMAIN r
<1> DEFINE e == [r EXCEPT ![id].config = c]
<1>1. DOMAIN e = DOMAIN r /\ e = [s \in DOMAIN e |-> e[s]]
  BY DEF IsRegistry
<1>2. \A s \in DOMAIN r : s # id => e[s] = r[s]
  BY DEF IsRegistry
<1>3. ASSUME id \in DOMAIN r
      PROVE  e[id] = [Internal |-> r[id].Internal, ApiToken |-> Services0[id].ApiToken,
                      ApiKey |-> Services0[id].ApiKey, config |-> c]
  <2>1. e[id] = [r[id] EXCEPT !.config = c]
    BY <1>3 DEF IsRegistry
  <2>2. r[id] = [Internal |-> r[id].Internal, ApiToken |-> Services0[id].ApiToken,
                 ApiKey |-> Services0[id].ApiKey, config |-> r[id].config]
    BY <1>3 DEF IsRegistry
  <2>3. QED
    BY <2>1, <2>2
<1>4. ASSUME NEW s \in DOMAIN r
      PROVE  /\ e[s] = [Internal |-> e[s].Internal, ApiToken |-> Services0[s].ApiToken,
                        ApiKey |-> Services0[s].ApiKey, config |-> e[s].config]
             /\ e[s].config \in Nat
  <2> HIDE DEF e
  <2>1. CASE s = id
    BY <1>3, <1>4, <2>1
  <2>2. CASE s # id
    BY <1>2, <1>4, <2>2 DEF IsRegistry
  <2>3. QED
    BY <2>1, <2>2
<1>5. QED
  BY <1>1, <1>4 DEF IsRegistry

LEMMA RegistryInit == Init => RegistryTypes
<1> SUFFICES ASSUME Init PROVE RegistryTypes
  OBVIOUS
<1>1. services = ColdServices /\ pc = [h \in Everyone |-> "idle"]
  BY DEF Init, Everyone
<1>2. file \in {NoFile, SavedFile(Services0, TextSize(Services0))}
  BY DEF Init
<1>3. IsFileOfRegistry(NoFile)
  BY DEF NoFile, IsFileOfRegistry
<1>4. IsFileOfRegistry(SavedFile(Services0, TextSize(Services0)))
  <2> DEFINE n == TextSize(Services0)
  <2>1. n \in Nat
    BY GivenIsRegistry, TextSizeIsNat
  <2> HIDE DEF n
  <2>2. SavedFile(Services0, n) = [exists |-> TRUE, data |-> Services0, size |-> n]
    BY DEF SavedFile
  <2>3. IsFileOfRegistry(SavedFile(Services0, n))
    BY <2>1, <2>2, GivenIsRegistry DEF IsFileOfRegistry
  <2>4. QED
    BY <2>3 DEF n
<1>5. QED
  BY <1>1, <1>2, <1>3, <1>4, ColdIsRegistry DEF RegistryTypes, Saving

\* Which steps of a handler edit the registry or lead to a save.
LEMMA ProcessServices ==
    ASSUME HandlerTypes, NEW h \in Handlers, Process(h)
    PROVE  /\ UNCHANGED services \/ SubscriptionEdit(h)
           /\ pc'[h] \notin {"open", "write"} \/ subscriptionsSave(h)
<1>0. h \in Everyone /\ DOMAIN pc = Everyone
  BY DEF HandlerTypes, Everyone
<1>1. UNCHANGED services \/ SubscriptionEdit(h)
  BY DEF Process, NotRpc, Route, Authorise, Encode, Read, ServiceRegister, AddressSubscribe, AddAddress,
         AddressGetNew, ServiceConfig, subscriptionsSave, TransferAssets, CallClient, TransferInfo, Reply
<1>2. CASE NotRpc(h) \/ Encode(h)
  BY <1>0, <1>1, <1>2 DEF NotRpc, Encode, Reply, Goto
<1>3. CASE Route(h)
  BY <1>0, <1>1, <1>3 DEF Route, SetError, Goto
<1>4. CASE Authorise(h) \/ Read(h) \/ ServiceRegister(h) \/ AddressSubscribe(h) \/ AddAddress(h)
  BY <1>0, <1>1, <1>4 DEF Authorise, Read, ServiceRegister, AddressSubscribe, AddAddress, SetError, SetResult, Goto
<1>5. CASE AddressGetNew(h)
  BY <1>0, <1>1, <1>5 DEF AddressGetNew, SetError, SetResult, Goto
<1>6. CASE ServiceConfig(h) \/ SubscriptionEdit(h)
  BY <1>0, <1>1, <1>6 DEF ServiceConfig, SubscriptionEdit, SetError, SetResult, Goto
<1>7. CASE TransferAssets(h) \/ CallClient(h) \/ TransferInfo(h)
  BY <1>0, <1>1, <1>7 DEF TransferAssets, CallClient, TransferInfo, SetError, SetResult, Goto
<1>8. QED
  BY <1>1, <1>2, <1>3, <1>4, <1>5, <1>6, <1>7 DEF Process

LEMMA SavedHere ==
    ASSUME HandlerTypes, NEW h \in Handlers, subscriptionsSave(h)
    PROVE  pc'[h] = "open" /\ loc'[h] = [saved |-> services] /\ UNCHANGED <<services, file>>
BY DEF HandlerTypes, Everyone, subscriptionsSave, Goto

\* A new copy for the save of h; everybody else's copy is as before.
LEMMA RegistryKeeps ==
    ASSUME RegistryTypes, IsRegistry(services'), IsFileOfRegistry(file'),
           \A h \in Everyone : Saving(h)' => \/ Saving(h) /\ loc'[h] = loc[h]
                                             \/ \E r : loc'[h] = [saved |-> r] /\ IsRegistry(r)
    PROVE  RegistryTypes'
<1>1. ASSUME NEW h \in Everyone, Saving(h)'
      PROVE  loc'[h] = [saved |-> loc'[h].saved] /\ IsRegistry(loc'[h].saved)
  <2>1. CASE Saving(h) /\ loc'[h] = loc[h]
    BY <2>1 DEF RegistryTypes
  <2>2. CASE \E r : loc'[h] = [saved |-> r] /\ IsRegistry(r)
    BY <2>2
  <2>3. QED
    BY <1>1, <2>1, <2>2
<1>2. \A r : IsRegistry(r)' <=> IsRegistry(r)
  BY DEF IsRegistry
<1>3. IsFileOfRegistry(file)'
  BY DEF IsFileOfRegistry, IsRegistry
<1>4. IsRegistry(services)'
  BY DEF IsRegistry
<1>5. \A h \in Everyone : Saving(h)' => loc'[h] = [saved |-> loc'[h].saved] /\ IsRegistry(loc[h].saved)'
  BY <1>1 DEF IsRegistry
<1>6. QED
  BY <1>3, <1>4, <1>5 DEF RegistryTypes

\* The steps that have nothing to do with services or handlers.
LEMMA QuietFrame ==
    ASSUME StartFails \/ Configure \/ UpdatePool \/ UNCHANGED vars
    PROVE  UNCHANGED <<services, file, pool, pc, req, resp, loc, received, crashes, effects, sent>>
BY DEF StartFails, Configure, UpdatePool, vars, histories

LEMMA RegistryNext ==
    MainTypes /\ HandlerTypes /\ RegistryTypes /\ [Next]_vars => RegistryTypes'
<1> SUFFICES ASSUME MainTypes, HandlerTypes, RegistryTypes, [Next]_vars PROVE RegistryTypes'
  OBVIOUS
<1>0. IsRegistry(services) /\ IsFileOfRegistry(file)
  BY DEF RegistryTypes
<1>1. CASE Start
  <2>1. services' = subscriptionsLoad /\ subscriptionsLoad # Nothing /\ file' = file
    BY <1>1 DEF Start
  <2>2. IsRegistry(services')
    BY <1>0, <2>1, ColdIsRegistry DEF subscriptionsLoad, IsExists, IsFileOfRegistry
  <2>3. /\ \A h \in Everyone \ {Main} : pc'[h] = pc[h] /\ loc'[h] = loc[h]
        /\ pc'[Main] = pc[Main] \/ loc'[Main] = [saved |-> ColdServices]
    <3>1. CASE UNCHANGED <<pc, loc>>
      BY <3>1
    <3>2. CASE /\ pc' = [pc EXCEPT ![Main] = "open"]
               /\ loc' = [loc EXCEPT ![Main] = [saved |-> ColdServices]]
      BY <3>2 DEF HandlerTypes, Everyone
    <3>3. QED
      BY <1>1, <3>1, <3>2 DEF Start
  <2>4. pc[Main] = "idle"
    BY <1>1 DEF Start
  <2>5. \A h \in Everyone : Saving(h)' => \/ Saving(h) /\ loc'[h] = loc[h]
                                          \/ \E r : loc'[h] = [saved |-> r] /\ IsRegistry(r)
    BY <2>3, <2>4, ColdIsRegistry DEF Saving
  <2>6. QED
    BY <1>0, <2>1, <2>2, <2>5, RegistryKeeps
<1>2. CASE StartFails \/ Configure \/ UpdatePool \/ UNCHANGED vars
  <2>1. UNCHANGED <<services, file, pc, loc>>
    BY <1>2, QuietFrame
  <2>2. QED
    BY <1>0, <2>1, RegistryKeeps DEF Saving
<1>3. CASE Crash
  <2>1. services' = ColdServices /\ file' = file /\ \A h \in Everyone : pc'[h] = "idle"
    BY <1>3, CrashTypes DEF Crash
  <2>2. QED
    BY <1>0, <2>1, RegistryKeeps, ColdIsRegistry DEF Saving
<1>4. ASSUME NEW h \in Everyone, SaveOpen(h) \/ SaveWrite(h) \/ SaveFails(h) PROVE RegistryTypes'
  <2>1. services' = services
    BY <1>4 DEF SaveOpen, SaveWrite, SaveFails
  <2>2. Saving(h) /\ \A k \in Everyone \ {h} : pc'[k] = pc[k] /\ loc'[k] = loc[k]
    BY <1>4 DEF SaveOpen, SaveWrite, SaveFails, Saving, HandlerTypes
  <2>3. Saving(h)' => loc'[h] = loc[h]
    BY <1>4 DEF SaveOpen, SaveWrite, SaveFails, Saving, HandlerTypes
  <2>4. IsFileOfRegistry(file')
    <3>1. CASE SaveOpen(h)
      BY <3>1, OpenedFile DEF SaveOpen
    <3>2. CASE SaveWrite(h)
      <4>1. IsRegistry(loc[h].saved) /\ TextSize(loc[h].saved) \in Nat
        BY <2>2, TextSizeIsNat DEF RegistryTypes
      <4>2. file' = Written(file, loc[h].saved, TextSize(loc[h].saved))
        BY <3>2 DEF SaveWrite
      <4>3. QED
        BY <1>0, <4>1, <4>2, WrittenFile
    <3>3. CASE SaveFails(h)
      BY <1>0, <3>3 DEF SaveFails
    <3>4. QED
      BY <1>4, <3>1, <3>2, <3>3
  <2>5. \A k \in Everyone : Saving(k)' => Saving(k) /\ loc'[k] = loc[k]
    BY <2>2, <2>3 DEF Saving
  <2>6. QED
    BY <1>0, <2>1, <2>4, <2>5, RegistryKeeps
<1>5. ASSUME NEW h \in Handlers, Process(h) PROVE RegistryTypes'
  <2>1. file' = file /\ Alone(h) /\ HandlerTypes'
    BY <1>5, ProcessFrame, ProcessTypes
  <2>2. IsRegistry(services')
    <3>1. CASE SubscriptionEdit(h)
      <4>1. req[h].config \in Nat
        <5>1. req[h] \in Requests
          BY <3>1, InWork DEF SubscriptionEdit
        <5>2. QED
          BY <5>1, RequestsGiven
      <4>2. services' = [services EXCEPT ![ParseParams(req[h].svc)].config = req[h].config]
        BY <3>1 DEF SubscriptionEdit
      <4>3. QED
        BY <1>0, <4>1, <4>2, EditIsRegistry
    <3>2. QED
      BY <1>0, <1>5, <3>1, ProcessServices
  <2>3. Saving(h)' => \E r : loc'[h] = [saved |-> r] /\ IsRegistry(r)
    BY <1>0, <1>5, ProcessServices, SavedHere DEF Saving
  <2>4. \A k \in Everyone \ {h} : Saving(k)' => Saving(k) /\ loc'[k] = loc[k]
    BY <2>1 DEF Alone, Saving
  <2>5. \A k \in Everyone : Saving(k)' => \/ Saving(k) /\ loc'[k] = loc[k]
                                          \/ \E r : loc'[k] = [saved |-> r] /\ IsRegistry(r)
    BY <2>3, <2>4
  <2>6. QED
    BY <1>0, <2>1, <2>2, <2>5, RegistryKeeps
<1>6. ASSUME NEW h \in Handlers, NEW r \in Requests, Receive(h, r) PROVE RegistryTypes'
  <2>1. UNCHANGED <<services, file, loc>> /\ pc'[h] = "route" /\ Alone(h)
    BY <1>6, ReceiveTypes DEF Receive
  <2>2. QED
    BY <1>0, <2>1, RegistryKeeps DEF Saving, Alone
<1>7. QED
  BY <1>1, <1>2, <1>3, <1>4, <1>5, <1>6 DEF Next, Everyone

-----------------------------------------------------------------------------
(* Parameters, keys and addresses                                             *)

\* The two readings of serviceId name one service when it is written once.
LEMMA ParamsAgree ==
    ASSUME NEW r \in Requests, ParseParams(r.svc) # Nothing
    PROVE  /\ ParseParams(r.svc) \in Int
           /\ WrittenOnce(r.svc) /\ GetParamInt(r.svc) # Nothing => GetParamInt(r.svc) = ParseParams(r.svc)
<1> DEFINE svc == r.svc
           numbers == Numbers(svc, {"number"})
<1>1. svc \in Seq(Field)
  BY RequestsGiven
<1> HIDE DEF svc
<1>2. /\ Len(svc) \in Nat /\ DOMAIN svc = 1 .. Len(svc)
      /\ \A i \in 1 .. Len(svc) : svc[i] \in Field
  BY <1>1
<1>3. \A i \in DOMAIN svc : svc[i].n \in Int /\ svc[i].kind \in {"number", "null"}
  <2>1. \A i \in DOMAIN svc : svc[i].n \in Int
    BY <1>2 DEF Field
  <2>2. ~\E i \in DOMAIN svc : svc[i].kind \notin {"number", "null"}
    BY DEF ParseParams, svc
  <2>3. QED
    BY <2>1, <2>2
<1>4. ParseParams(svc) = IF numbers = {} THEN 0 ELSE svc[Max(numbers)].n
  BY <1>3 DEF ParseParams
<1>5. numbers \subseteq DOMAIN svc
  BY DEF Numbers
<1>6. ParseParams(svc) \in Int
  <2>1. CASE numbers = {}
    BY <1>4, <2>1
  <2>2. CASE numbers # {}
    <3>1. Max(numbers) \in numbers
      BY <1>2, <1>5, <2>2, MaxIsThere
    <3>2. QED
      BY <1>3, <1>4, <1>5, <2>2, <3>1
  <2>3. QED
    BY <2>1, <2>2
<1>7. ASSUME WrittenOnce(svc), GetParamInt(svc) # Nothing PROVE GetParamInt(svc) = ParseParams(svc)
  <2>1. Len(svc) <= 1 /\ \A i \in DOMAIN svc : svc[i].n = svc[i].float
    BY <1>7 DEF WrittenOnce
  <2>2. Named(svc) # {} /\ Named(svc) \subseteq DOMAIN svc
    BY <1>7 DEF GetParamInt, Named
  <2>3. Named(svc) = {1} /\ DOMAIN svc = {1}
    BY <1>2, <2>1, <2>2
  <2>4. Max({1}) = 1
    <3>1. {1} \subseteq 1 .. 1 /\ {1} # {}
      OBVIOUS
    <3>2. Max({1}) \in {1}
      BY <3>1, MaxIsThere
    <3>3. QED
      BY <3>2
  <2>5. ~Broken(svc)
    BY <1>3 DEF Broken
  <2>6. CASE svc[1].kind = "number"
    <3>1. numbers = {1}
      BY <2>3, <2>6 DEF Numbers
    <3>2. GetParamInt(svc) = svc[1].float
      BY <2>3, <2>4, <2>5, <2>6 DEF GetParamInt
    <3>3. ParseParams(svc) = svc[1].n
      BY <1>4, <2>4, <3>1
    <3>4. QED
      BY <2>1, <2>3, <3>2, <3>3
  <2>7. CASE svc[1].kind = "null"
    <3>1. numbers = {}
      BY <2>3, <2>7 DEF Numbers
    <3>2. GetParamInt(svc) = 0
      BY <2>3, <2>4, <2>5, <2>7 DEF GetParamInt
    <3>3. QED
      BY <1>4, <3>1, <3>2
  <2>8. QED
    BY <1>3, <2>3, <2>6, <2>7
<1>8. QED
  BY <1>6, <1>7 DEF svc

LEMMA KeyOpens ==
    ASSUME NEW key \in Keys
    PROVE  AddressOf(key) \in Addresses /\ KeyOf[AddressOf(key)] = key
BY DEF Keys, AddressOf

LEMMA SubscribeChecks ==
    ASSUME NEW r, SubscribeError(r) = Empty
    PROVE  MayInsert(r) /\ ParseParams(r.svc) # Nothing /\ ParseParams(r.svc) \in DOMAIN services
<1>1. ParseParams(r.svc) # Nothing
  BY EmptyIsOther DEF SubscribeError
<1>2. ~ \/ ParseParams(r.svc) = 0 \/ r.addr = "bad" \/ r.key = "bad"
        \/ r.key # Empty /\ KeyMismatch(addressNormalise(r.addr), r.key)
        \/ r.key = Empty /\ addressNormalise(r.addr) = Empty
  BY <1>1, EmptyIsOther DEF SubscribeError
<1>3. ParseParams(r.svc) \in DOMAIN services
  BY <1>1, <1>2, EmptyIsOther DEF SubscribeError
<1>4. ~(r.words # Empty /\ (r.words = "bad" \/ KeyMismatch(SubscribeAddress(r), r.words)))
  BY <1>1, <1>2, <1>3, EmptyIsOther DEF SubscribeError
<1>5. QED
  BY <1>1, <1>2, <1>3, <1>4 DEF MayInsert

LEMMA InsertedRecord ==
    ASSUME NEW r \in Requests, MayInsert(r), ParseParams(r.svc) # Nothing
    PROVE  SubscribeAddress(r) \in Addresses /\ NewRecord(r) \in AddressRecord(SubscribeAddress(r))
<1> DEFINE a == SubscribeAddress(r)
<1>1. r.key \in {Empty} \cup Keys /\ r.words \in {Empty} \cup Keys
  BY RequestsGiven, EmptyIsOther DEF MayInsert
<1>2. a \in Addresses /\ r.key \in {Empty, KeyOf[a]}
  <2>1. CASE r.key = Empty
    <3>1. a = addressNormalise(r.addr) /\ a # Empty
      BY <2>1 DEF SubscribeAddress, MayInsert
    <3>2. a = r.addr /\ r.addr # "short"
      BY <3>1 DEF addressNormalise
    <3>3. QED
      BY <2>1, <3>1, <3>2, RequestsGiven DEF MayInsert
  <2>2. CASE r.key # Empty
    <3>1. a = AddressOf(r.key) /\ r.key \in Keys
      BY <1>1, <2>2 DEF SubscribeAddress
    <3>2. QED
      BY <3>1, KeyOpens
  <2>3. QED
    BY <2>1, <2>2
<1>3. r.words \in {Empty, KeyOf[a]}
  <2>1. CASE r.words = Empty
    BY <2>1
  <2>2. CASE r.words # Empty
    <3>1. r.words \in Keys /\ ~KeyMismatch(a, r.words)
      BY <1>1, <2>2 DEF MayInsert
    <3>2. a # Empty
      BY <1>2, TextsGiven
    <3>3. AddressOf(r.words) = a
      BY <3>1, <3>2 DEF KeyMismatch
    <3>4. QED
      BY <3>1, <3>3, KeyOpens
  <2>3. QED
    BY <2>1, <2>2
<1>4. ParseParams(r.svc) \in Int
  BY ParamsAgree
<1>5. (r.watchOnly \/ r.key = Empty) \in BOOLEAN
  OBVIOUS
<1>6. NewRecord(r) \in AddressRecord(a)
  <2> HIDE DEF a
  <2>1. QED
    BY <1>2, <1>3, <1>4, <1>5 DEF NewRecord, AddressRecord
<1>7. QED
  BY <1>2, <1>6

LEMMA ServiceChecks ==
    ASSUME NEW r, ServiceError(r) = Empty
    PROVE  ParseParams(r.svc) # Nothing /\ ParseParams(r.svc) \in DOMAIN services
<1>1. ParseParams(r.svc) # Nothing
  BY EmptyIsOther DEF ServiceError
<1>2. QED
  BY <1>1, EmptyIsOther DEF ServiceError

LEMMA TransferChecks ==
    ASSUME NEW r, TransferError(r) = Empty
    PROVE  ParseParams(r.svc) # Nothing /\ r.key # "bad" /\ r.addr # "bad"
<1>1. ParseParams(r.svc) # Nothing
  BY EmptyIsOther DEF TransferError
<1>2. "bad" \notin {r.addr, r.to, r.amount, r.key}
  BY <1>1, EmptyIsOther DEF TransferError
<1>3. QED
  BY <1>1, <1>2

-----------------------------------------------------------------------------
(* The handlers and the address pool                                          *)

LEMMA MethodsDiffer ==
    /\ Secured \cap Open = {}
    /\ {"addressSubscribe", "serviceRegister"} \cap Secured = {}
    /\ {"addressGetNew", "serviceConfig", "transferAssets"} \subseteq Secured
BY DEF Secured, Open

\* A handler that waits has nothing to keep.
LEMMA WaitingIsFine ==
    ASSUME NEW h, pc[h] = "idle"
    PROVE  MethodAt(h) /\ EntitledAt(h) /\ CheckedAt(h)
BY DEF MethodAt, EntitledAt, CheckedAt

\* A handler that does nothing keeps what it has.
LEMMA UntouchedIsFine ==
    ASSUME NEW h, MethodAt(h), EntitledAt(h), CheckedAt(h),
           pc'[h] = pc[h], req'[h] = req[h], resp'[h] = resp[h], loc'[h] = loc[h],
           DOMAIN services \subseteq DOMAIN services', sent \subseteq sent'
    PROVE  (MethodAt(h) /\ EntitledAt(h) /\ CheckedAt(h))'
<1>1. MethodAt(h)'
  BY DEF MethodAt
<1>2. EntitledAt(h)'
  BY DEF EntitledAt, Entitled, GetParamInt, AuthError
<1>3. CheckedAt(h)'
  BY DEF CheckedAt, MayInsert, ParseParams, KeyMismatch, addressNormalise, SubscribeAddress, AddressOf
<1>4. QED
  BY <1>1, <1>2, <1>3

\* The registry does not forget a service while the node serves, and a transfer that was
\* sent stays sent.
LEMMA ProcessKeeps ==
    ASSUME RegistryTypes, HandlerTypes, NEW h \in Handlers, Process(h)
    PROVE  DOMAIN services' = DOMAIN services /\ sent \subseteq sent' /\ effects \subseteq effects'
<1>1. sent \subseteq sent' /\ effects \subseteq effects'
  BY DEF Process, NotRpc, Route, Authorise, Encode, Read, ServiceRegister, AddressSubscribe, AddAddress,
         AddressGetNew, ServiceConfig, SubscriptionEdit, subscriptionsSave, TransferAssets, CallClient,
         TransferInfo, Reply, histories
<1>2. DOMAIN services' = DOMAIN services
  <2>1. CASE SubscriptionEdit(h)
    BY <2>1 DEF SubscriptionEdit
  <2>2. QED
    BY <2>1, ProcessServices
<1>3. QED
  BY <1>1, <1>2

\* The entitlement is judged by the registry, which has the tokens given out.
LEMMA SameTokens ==
    ASSUME IsRegistry(services), NEW id \in DOMAIN services, NEW token
    PROVE  id \in DOMAIN Services0 /\ AuthError(services[id], token) = AuthError(Services0[id], token)
<1>1. services[id].ApiToken = Services0[id].ApiToken /\ services[id].ApiKey = Services0[id].ApiKey
  BY DEF IsRegistry
<1>2. QED
  BY <1>1 DEF IsRegistry, AuthError

\* Every step of a handler leaves it at a place that fits its method, entitled if the
\* method is secured, and with what it will use checked.
LEMMA ProcessMethod ==
    ASSUME TypeInv, NEW h \in Handlers, MethodAt(h), EntitledAt(h), CheckedAt(h), Process(h)
    PROVE  (MethodAt(h) /\ EntitledAt(h) /\ CheckedAt(h))'
<1>0. HandlerTypes /\ RegistryTypes /\ PoolTypes /\ h \in Everyone /\ DOMAIN pc = Everyone /\ DOMAIN loc = Everyone
      /\ resp \in [Handlers -> Responses]
  BY DEF TypeInv, HandlerTypes, Everyone
<1>1. HandlerTypes' /\ pc[h] # "idle" /\ req[h] \in Requests
  BY <1>0, ProcessTypes, InWork
<1> DEFINE Fine == (MethodAt(h) /\ EntitledAt(h) /\ CheckedAt(h))'
<1>e. ASSUME req'[h] = req[h], pc'[h] = "encode", resp'[h].error # Empty PROVE Fine
  BY <1>e DEF MethodAt, EntitledAt, CheckedAt
<1>r. ASSUME req'[h] = req[h], pc'[h] = "encode", req[h].method \in Secured => Entitled(req[h]) PROVE Fine
  BY <1>r DEF MethodAt, EntitledAt, CheckedAt, Entitled, AuthError, GetParamInt
<1>i. ASSUME pc'[h] = "idle" PROVE Fine
  BY <1>i DEF MethodAt, EntitledAt, CheckedAt
<1> HIDE DEF Fine
<1>2. CASE NotRpc(h) \/ Encode(h)
  <2>1. pc'[h] = "idle"
    BY <1>0, <1>2 DEF NotRpc, Encode, Reply, Goto
  <2>2. QED
    BY <2>1, <1>i DEF Fine
<1>3. CASE Route(h)
  <2>1. UNCHANGED req
    BY <1>3 DEF Route
  <2>2. \/ pc'[h] = "encode" /\ resp'[h].error # Empty
        \/ pc'[h] = "authorise" /\ req[h].method \in Secured
        \/ pc'[h] = "process" /\ req[h].method \in Open
    BY <1>0, <1>3, EmptyIsOther DEF Route, SetError, Goto
  <2>3. CASE pc'[h] = "authorise" /\ req[h].method \in Secured
    BY <2>1, <2>3 DEF MethodAt, EntitledAt, CheckedAt
  <2>4. CASE pc'[h] = "process" /\ req[h].method \in Open
    BY <2>1, <2>4, MethodsDiffer DEF MethodAt, EntitledAt, CheckedAt
  <2>5. QED
    BY <2>1, <2>2, <2>3, <2>4, <1>e DEF Fine
<1>4. CASE Authorise(h)
  <2> DEFINE id == GetParamInt(req[h].svc)
  <2>1. UNCHANGED req /\ pc[h] = "authorise"
    BY <1>4 DEF Authorise
  <2>2. \/ pc'[h] = "encode" /\ resp'[h].error # Empty
        \/ /\ pc'[h] = "process" /\ id # Nothing /\ id \in DOMAIN services
           /\ AuthError(services[id], req[h].token) = Empty
    BY <1>0, <1>4, EmptyIsOther DEF Authorise, SetError, Goto
  <2>3. CASE /\ pc'[h] = "process" /\ id # Nothing /\ id \in DOMAIN services
             /\ AuthError(services[id], req[h].token) = Empty
    <3>1. Entitled(req[h]) /\ req[h].method \in Secured
      BY <1>0, <2>1, <2>3, SameTokens DEF Entitled, RegistryTypes, MethodAt
    <3>2. Entitled(req[h])'
      BY <2>1, <3>1 DEF Entitled, GetParamInt, AuthError
    <3>3. QED
      BY <2>1, <2>3, <3>1, <3>2 DEF MethodAt, EntitledAt, CheckedAt
  <2>4. QED
    BY <2>1, <2>2, <2>3, <1>e DEF Fine
<1>5. CASE Read(h)
  <2>1. UNCHANGED req /\ pc[h] = "process" /\ pc'[h] = "encode"
    BY <1>0, <1>5 DEF Read, SetError, SetResult, Goto
  <2>2. QED
    BY <2>1, <1>r DEF EntitledAt, Fine
<1>6. CASE ServiceRegister(h)
  <2>1. UNCHANGED req /\ pc'[h] = "encode" /\ req[h].method = "serviceRegister"
    BY <1>0, <1>6 DEF ServiceRegister, SetError, Goto
  <2>2. QED
    BY <2>1, <1>r, MethodsDiffer DEF Fine
<1>7. CASE AddressSubscribe(h)
  <2>1. UNCHANGED <<req, services>> /\ req[h].method = "addressSubscribe" /\ req[h].method \notin Secured
    BY <1>7, MethodsDiffer DEF AddressSubscribe
  <2>2. \/ pc'[h] = "encode"
        \/ pc'[h] = "insert" /\ SubscribeError(req[h]) = Empty
    BY <1>0, <1>7 DEF AddressSubscribe, SetError, SetResult, Goto
  <2>3. CASE pc'[h] = "insert" /\ SubscribeError(req[h]) = Empty
    <3>1. MayInsert(req[h]) /\ ParseParams(req[h].svc) # Nothing /\ ParseParams(req[h].svc) \in DOMAIN services
      BY <2>3, SubscribeChecks
    <3>2. /\ MayInsert(req[h])' /\ ParseParams(req[h].svc)' # Nothing
          /\ ParseParams(req[h].svc)' \in DOMAIN services'
      BY <2>1, <3>1 DEF MayInsert, ParseParams, KeyMismatch, addressNormalise, SubscribeAddress, AddressOf
    <3>3. QED
      BY <2>1, <2>3, <3>2 DEF MethodAt, EntitledAt, CheckedAt
  <2>4. QED
    BY <2>1, <2>2, <2>3, <1>r DEF Fine
<1>8. CASE AddAddress(h)
  <2>1. UNCHANGED req /\ pc[h] = "insert" /\ pc'[h] = "encode"
    BY <1>0, <1>8 DEF AddAddress, SetResult, Goto
  <2>2. QED
    BY <2>1, <1>r, MethodsDiffer DEF MethodAt, Fine
<1>9. CASE AddressGetNew(h)
  <2>1. UNCHANGED req /\ pc[h] = "process" /\ pc'[h] = "encode"
    BY <1>0, <1>9 DEF AddressGetNew, SetError, SetResult, Goto
  <2>2. QED
    BY <2>1, <1>r DEF EntitledAt, Fine
<1>10. CASE ServiceConfig(h)
  <2>1. UNCHANGED <<req, services>> /\ pc[h] = "process" /\ req[h].method = "serviceConfig"
    BY <1>10 DEF ServiceConfig
  <2>2. \/ pc'[h] = "encode"
        \/ pc'[h] = "edit" /\ ServiceError(req[h]) = Empty
    BY <1>0, <1>10 DEF ServiceConfig, SetError, SetResult, Goto
  <2>3. CASE pc'[h] = "edit" /\ ServiceError(req[h]) = Empty
    <3>1. ParseParams(req[h].svc) # Nothing /\ ParseParams(req[h].svc) \in DOMAIN services
      BY <2>3, ServiceChecks
    <3>2. ParseParams(req[h].svc)' # Nothing /\ ParseParams(req[h].svc)' \in DOMAIN services'
      BY <2>1, <3>1 DEF ParseParams
    <3>3. Entitled(req[h])'
      BY <2>1, MethodsDiffer DEF EntitledAt, Entitled, GetParamInt, AuthError
    <3>4. QED
      BY <2>1, <2>3, <3>2, <3>3 DEF MethodAt, EntitledAt, CheckedAt
  <2>4. QED
    BY <2>1, <2>2, <2>3, <1>r DEF EntitledAt, Fine
<1>11. CASE SubscriptionEdit(h) \/ subscriptionsSave(h)
  <2>1. UNCHANGED req /\ pc[h] \in {"edit", "marshal"} /\ pc'[h] \in {"marshal", "open"}
    BY <1>0, <1>11 DEF SubscriptionEdit, subscriptionsSave, Goto
  <2>2. req[h].method = "serviceConfig" /\ Entitled(req[h])'
    BY <2>1, MethodsDiffer DEF MethodAt, EntitledAt, Entitled, GetParamInt, AuthError
  <2>3. QED
    BY <2>1, <2>2 DEF MethodAt, EntitledAt, CheckedAt
<1>12. CASE TransferAssets(h)
  <2>1. UNCHANGED req /\ pc[h] = "process" /\ req[h].method = "transferAssets"
    BY <1>12 DEF TransferAssets
  <2> DEFINE from == addressNormalise(req[h].addr)
  <2>2. \/ pc'[h] = "encode"
        \/ /\ pc'[h] = "transfer" /\ TransferError(req[h]) = Empty
           /\ \E key : /\ loc'[h] = [key |-> key, sent |-> Nothing]
                       /\ \/ req[h].key # Empty /\ key = req[h].key
                          \/ /\ from \in DOMAIN index /\ key = index[from].key
                             /\ MayUseKey(index[from], ParseParams(req[h].svc), req[h].force)
    BY <1>0, <1>12 DEF TransferAssets, SetError, Goto
  <2>3. ASSUME pc'[h] = "transfer", TransferError(req[h]) = Empty,
               NEW key, loc'[h] = [key |-> key, sent |-> Nothing],
               \/ req[h].key # Empty /\ key = req[h].key
               \/ /\ from \in DOMAIN index /\ key = index[from].key
                  /\ MayUseKey(index[from], ParseParams(req[h].svc), req[h].force)
        PROVE  Fine
    <3>1. ParseParams(req[h].svc) # Nothing /\ req[h].key # "bad"
      BY <2>3, TransferChecks
    <3>2. key \in Keys
      <4>1. CASE req[h].key # Empty /\ key = req[h].key
        BY <1>1, <3>1, <4>1, RequestsGiven
      <4>2. CASE from \in DOMAIN index /\ key = index[from].key /\ index[from].key # Empty
        <5>1. index[from].key \in {Empty, KeyOf[from]} /\ from \in Addresses
          BY <1>0, <4>2 DEF PoolTypes, AddressRecord
        <5>2. QED
          BY <4>2, <5>1 DEF Keys
      <4>3. QED
        BY <2>3, <4>1, <4>2 DEF MayUseKey
    <3>3. Entitled(req[h])'
      BY <2>1, MethodsDiffer DEF EntitledAt, Entitled, GetParamInt, AuthError
    <3>4. ParseParams(req[h].svc)' # Nothing
      BY <2>1, <3>1 DEF ParseParams
    <3>5. loc'[h] = [key |-> loc'[h].key, sent |-> Nothing] /\ loc'[h].key \in Keys
      BY <2>3, <3>2
    <3>6. Keys' = Keys
      BY DEF Keys, Addresses
    <3>7. QED
      BY <2>1, <2>3, <3>3, <3>4, <3>5, <3>6 DEF MethodAt, EntitledAt, CheckedAt, Fine
  <2>4. QED
    BY <2>1, <2>2, <2>3, <1>r DEF EntitledAt, Fine
<1>13. CASE CallClient(h)
  <2>1. UNCHANGED req /\ pc[h] = "transfer"
    BY <1>13 DEF CallClient
  <2>2. req[h].method = "transferAssets" /\ Entitled(req[h])
    BY <2>1, MethodsDiffer DEF MethodAt, EntitledAt
  <2>3. \/ pc'[h] = "encode"
        \/ pc'[h] = "info" /\ loc'[h].sent \in sent'
    BY <1>0, <1>13 DEF CallClient, SetError, Goto
  <2>4. CASE pc'[h] = "info" /\ loc'[h].sent \in sent'
    <3>1. Entitled(req[h])'
      BY <2>1, <2>2 DEF Entitled, GetParamInt, AuthError
    <3>2. QED
      BY <2>1, <2>2, <2>4, <3>1 DEF MethodAt, EntitledAt, CheckedAt
  <2>5. QED
    BY <2>1, <2>2, <2>3, <2>4, <1>r DEF Fine
<1>14. CASE TransferInfo(h)
  <2>1. UNCHANGED req /\ pc[h] = "info" /\ pc'[h] = "encode"
    BY <1>0, <1>14 DEF TransferInfo, SetResult, Goto
  <2>2. QED
    BY <2>1, <1>r DEF EntitledAt, Fine
<1>15. QED
  BY <1>2, <1>3, <1>4, <1>5, <1>6, <1>7, <1>8, <1>9, <1>10, <1>11, <1>12, <1>13, <1>14 DEF Process, Fine

LEMMA HandlerInvInit == Init => HandlerInv
<1> SUFFICES ASSUME Init, NEW h \in Handlers PROVE pc[h] = "idle"
  BY WaitingIsFine DEF HandlerInv
<1>1. QED
  BY DEF Init

LEMMA HandlerInvNext == TypeInv /\ TypeInv' /\ HandlerInv /\ [Next]_vars => HandlerInv'
<1> SUFFICES ASSUME TypeInv, TypeInv', HandlerInv, [Next]_vars PROVE HandlerInv'
  OBVIOUS
<1>0. MainTypes /\ HandlerTypes /\ RegistryTypes /\ HandlerTypes'
  BY DEF TypeInv
<1>a. \A k \in Handlers : (pc[k] = "idle")' => (MethodAt(k) /\ EntitledAt(k) /\ CheckedAt(k))'
  BY DEF MethodAt, EntitledAt, CheckedAt
<1>1. CASE Start \/ Crash \/ \E m \in {Main} : SaveOpen(m) \/ SaveWrite(m) \/ SaveFails(m)
  <2>1. \A k \in Handlers : pc'[k] = "idle"
    <3>1. CASE Start
      <4>1. stage = 8
        BY <1>0, <3>1, StartTypes
      <4>2. \A k \in Handlers : pc[k] = "idle" /\ k # Main /\ k \in Everyone
        BY <1>0, <4>1, AllIdle, MainIsNoHandler DEF Everyone
      <4>3. QED
        BY <1>0, <3>1, <4>2 DEF Start, HandlerTypes
    <3>2. CASE Crash
      BY <1>0, <3>2, CrashTypes DEF Everyone
    <3>3. CASE SaveOpen(Main) \/ SaveWrite(Main) \/ SaveFails(Main)
      <4>1. stage = 8 /\ \A k \in Handlers : pc'[k] = pc[k]
        BY <1>0, <3>3, MainSaves
      <4>2. QED
        BY <1>0, <4>1, AllIdle
    <3>4. QED
      BY <1>1, <3>1, <3>2, <3>3
  <2>2. QED
    BY <1>a, <2>1 DEF HandlerInv
<1>2. CASE StartFails \/ Configure \/ UpdatePool \/ UNCHANGED vars
  <2>1. UNCHANGED <<services, pc, req, resp, loc, sent>>
    BY <1>2, QuietFrame
  <2>2. QED
    BY <2>1, UntouchedIsFine DEF HandlerInv
<1>3. ASSUME NEW h \in Handlers, SaveOpen(h) \/ SaveWrite(h) \/ SaveFails(h) PROVE HandlerInv'
  <2>1. UNCHANGED <<services, sent, req>> /\ Alone(h) /\ Saving(h)
    BY <1>0, <1>3, SaveTypes DEF SaveOpen, SaveWrite, SaveFails, histories, Saving
  <2>2. pc'[h] = "write" \/ pc'[h] = "encode"
    BY <1>0, <1>3, SaveTypes
  <2>3. MethodAt(h) /\ EntitledAt(h)
    BY DEF HandlerInv
  <2>4. req[h].method = "serviceConfig" /\ Entitled(req[h])'
    BY <2>1, <2>3, MethodsDiffer DEF MethodAt, EntitledAt, Saving, Entitled, GetParamInt, AuthError
  <2>5. (MethodAt(h) /\ EntitledAt(h) /\ CheckedAt(h))'
    BY <2>1, <2>2, <2>4 DEF MethodAt, EntitledAt, CheckedAt
  <2>6. \A k \in Handlers \ {h} : (MethodAt(k) /\ EntitledAt(k) /\ CheckedAt(k))'
    BY <2>1, UntouchedIsFine DEF HandlerInv, Alone, Everyone
  <2>7. QED
    BY <2>5, <2>6 DEF HandlerInv
<1>4. ASSUME NEW h \in Handlers, Process(h) PROVE HandlerInv'
  <2>1. Alone(h) /\ DOMAIN services' = DOMAIN services /\ sent \subseteq sent'
    BY <1>0, <1>4, ProcessTypes, ProcessKeeps
  <2>2. (MethodAt(h) /\ EntitledAt(h) /\ CheckedAt(h))'
    BY <1>4, ProcessMethod DEF HandlerInv
  <2>3. \A k \in Handlers \ {h} : (MethodAt(k) /\ EntitledAt(k) /\ CheckedAt(k))'
    BY <2>1, UntouchedIsFine DEF HandlerInv, Alone, Everyone
  <2>4. QED
    BY <2>2, <2>3 DEF HandlerInv
<1>5. ASSUME NEW h \in Handlers, NEW r \in Requests, Receive(h, r) PROVE HandlerInv'
  <2>1. UNCHANGED <<services, sent>> /\ Alone(h) /\ pc'[h] = "route"
    BY <1>0, <1>5, ReceiveTypes DEF Receive, histories
  <2>2. (MethodAt(h) /\ EntitledAt(h) /\ CheckedAt(h))'
    BY <2>1 DEF MethodAt, EntitledAt, CheckedAt
  <2>3. \A k \in Handlers \ {h} : (MethodAt(k) /\ EntitledAt(k) /\ CheckedAt(k))'
    BY <2>1, UntouchedIsFine DEF HandlerInv, Alone, Everyone
  <2>4. QED
    BY <2>2, <2>3 DEF HandlerInv
<1>6. QED
  BY <1>1, <1>2, <1>3, <1>4, <1>5 DEF Next

\* The pool changes in two places: an insertion and a hand-out.
LEMMA PoolSteps ==
    ASSUME [Next]_vars
    PROVE  \/ \E h \in Handlers : AddAddress(h) \/ AddressGetNew(h)
           \/ UNCHANGED pool /\ (index' = index \/ index' = pool)
<1>1. CASE Start \/ Crash \/ StartFails \/ Configure \/ UpdatePool \/ UNCHANGED vars
  BY <1>1 DEF Start, Crash, StartFails, Configure, UpdatePool, vars
<1>2. ASSUME NEW h \in Handlers \cup {Main}, SaveOpen(h) \/ SaveWrite(h) \/ SaveFails(h)
      PROVE  UNCHANGED <<pool, index>>
  BY <1>2 DEF SaveOpen, SaveWrite, SaveFails
<1>3. ASSUME NEW h \in Handlers, Process(h)
      PROVE  AddAddress(h) \/ AddressGetNew(h) \/ UNCHANGED <<pool, index>>
  BY <1>3 DEF Process, NotRpc, Route, Authorise, Encode, Read, ServiceRegister, AddressSubscribe,
              ServiceConfig, SubscriptionEdit, subscriptionsSave, TransferAssets, CallClient, TransferInfo, Reply
<1>4. ASSUME NEW h \in Handlers, NEW r \in Requests, Receive(h, r) PROVE UNCHANGED <<pool, index>>
  BY <1>4 DEF Receive
<1>5. QED
  BY <1>1, <1>2, <1>3, <1>4 DEF Next

\* What an insertion and a hand-out do to the pool, and the effect that goes with it.
LEMMA InsertStep ==
    ASSUME TypeInv, HandlerInv, NEW h \in Handlers, AddAddress(h)
    PROVE  \E a \in Addresses : \E rec \in AddressRecord(a) :
              /\ pool' = [x \in DOMAIN pool \cup {a} |-> IF x = a THEN rec ELSE pool[x]]
              /\ index' = index
              /\ effects' = effects \cup {[service |-> rec.ServiceId, token |-> req[h].token, svc |-> req[h].svc,
                                           what |-> "subscribe", addr |-> a]}
              /\ rec.ServiceId \in DOMAIN services
<1> DEFINE a == SubscribeAddress(req[h])
           rec == NewRecord(req[h])
<1>1. pc[h] = "insert" /\ req[h] \in Requests
  BY InWork DEF AddAddress, TypeInv
<1>2. MayInsert(req[h]) /\ ParseParams(req[h].svc) # Nothing /\ ParseParams(req[h].svc) \in DOMAIN services
  BY <1>1 DEF HandlerInv, CheckedAt
<1>3. a \in Addresses /\ rec \in AddressRecord(a)
  BY <1>1, <1>2, InsertedRecord
<1>4. rec.ServiceId = ParseParams(req[h].svc)
  BY DEF NewRecord
<1>5. /\ pool' = [x \in DOMAIN pool \cup {a} |-> IF x = a THEN rec ELSE pool[x]]
      /\ index' = index
      /\ effects' = effects \cup {[service |-> ParseParams(req[h].svc), token |-> req[h].token, svc |-> req[h].svc,
                                   what |-> "subscribe", addr |-> a]}
  BY DEF AddAddress
<1> HIDE DEF a, rec
<1>6. QED
  BY <1>2, <1>3, <1>4, <1>5

LEMMA HandoutStep ==
    ASSUME TypeInv, HandlerInv, NEW h \in Handlers, AddressGetNew(h)
    PROVE  \/ UNCHANGED <<pool, index, effects>>
           \/ \E a \in DOMAIN pool : \E rec \in AddressRecord(a) :
              /\ pool' = [pool EXCEPT ![a] = rec] /\ index' = [index EXCEPT ![a] = rec]
              /\ effects' = effects \cup {[service |-> rec.ServiceId, token |-> req[h].token, svc |-> req[h].svc,
                                           what |-> "getNew", addr |-> a]}
              /\ rec.ServiceId = ParseParams(req[h].svc) /\ ParseParams(req[h].svc) # Nothing
              /\ rec.ServiceId \in DOMAIN services
<1> DEFINE id == ParseParams(req[h].svc)
           marked(a) == [pool[a] EXCEPT !.ServiceId = id, !.WatchOnly = req[h].watchOnly, !.Subscribed = TRUE]
<1>1. pc[h] = "process" /\ req[h] \in Requests
  BY InWork DEF AddressGetNew, TypeInv
<1>2. \/ UNCHANGED <<pool, index, effects>>
      \/ /\ ServiceError(req[h]) = Empty
         /\ \E a \in DOMAIN pool :
               /\ pool' = [pool EXCEPT ![a] = marked(a)] /\ index' = [index EXCEPT ![a] = marked(a)]
               /\ effects' = effects \cup {[service |-> id, token |-> req[h].token, svc |-> req[h].svc, what |-> "getNew", addr |-> a]}
  BY DEF AddressGetNew
<1>3. ASSUME ServiceError(req[h]) = Empty, NEW a \in DOMAIN pool
      PROVE  marked(a) \in AddressRecord(a) /\ marked(a).ServiceId = id /\ id \in DOMAIN services /\ id # Nothing
  <2>1. id # Nothing /\ id \in DOMAIN services
    BY <1>3, ServiceChecks
  <2>2. id \in Int /\ req[h].watchOnly \in BOOLEAN
    BY <1>1, <2>1, ParamsAgree, RequestsGiven
  <2>3. pool[a] \in AddressRecord(a)
    BY DEF TypeInv, PoolTypes
  <2> HIDE DEF id
  <2>4. marked(a) \in AddressRecord(a) /\ marked(a).ServiceId = id
    BY <2>2, <2>3 DEF AddressRecord
  <2>5. QED
    BY <2>1, <2>4
<1> HIDE DEF marked
<1>4. QED
  BY <1>2, <1>3

LEMMA PoolNext == TypeInv /\ HandlerInv /\ [Next]_vars => PoolTypes'
<1> SUFFICES ASSUME TypeInv, HandlerInv, [Next]_vars PROVE PoolTypes'
  OBVIOUS
<1>0. PoolTypes
  BY DEF TypeInv
<1>1. ASSUME NEW h \in Handlers, AddAddress(h) PROVE PoolTypes'
  <2>1. PICK a \in Addresses : \E rec \in AddressRecord(a) :
            /\ pool' = [x \in DOMAIN pool \cup {a} |-> IF x = a THEN rec ELSE pool[x]]
            /\ index' = index
    BY <1>1, InsertStep
  <2>2. DOMAIN pool' = DOMAIN pool \cup {a} /\ \A x \in DOMAIN pool' : pool'[x] \in AddressRecord(x)
    BY <1>0, <2>1 DEF PoolTypes
  <2>3. QED
    BY <1>0, <2>1, <2>2 DEF PoolTypes, AddressRecord, Addresses
<1>2. ASSUME NEW h \in Handlers, AddressGetNew(h) PROVE PoolTypes'
  <2>1. CASE UNCHANGED <<pool, index>>
    BY <1>0, <2>1 DEF PoolTypes, AddressRecord, Addresses
  <2>2. CASE \E a \in DOMAIN pool : \E rec \in AddressRecord(a) :
                pool' = [pool EXCEPT ![a] = rec] /\ index' = [index EXCEPT ![a] = rec]
    <3>1. DOMAIN pool' = DOMAIN pool /\ DOMAIN index' = DOMAIN index
      BY <2>2
    <3>2. \A x \in DOMAIN pool' : pool'[x] \in AddressRecord(x)
      BY <1>0, <2>2 DEF PoolTypes
    <3>3. \A x \in DOMAIN index' : index'[x] \in AddressRecord(x)
      BY <1>0, <2>2 DEF PoolTypes
    <3>4. QED
      BY <1>0, <3>1, <3>2, <3>3 DEF PoolTypes, AddressRecord, Addresses
  <2>3. QED
    BY <1>2, <2>1, <2>2, HandoutStep
<1>3. CASE UNCHANGED pool /\ (index' = index \/ index' = pool)
  BY <1>0, <1>3 DEF PoolTypes, AddressRecord, Addresses
<1>4. QED
  BY <1>1, <1>2, <1>3, PoolSteps

LEMMA TypeInvInit == Init => TypeInv
<1>1. Init => PoolTypes
  BY PoolGiven DEF Init, PoolTypes
<1>2. QED
  BY <1>1, MainInit, HandlerInit, RegistryInit DEF TypeInv

LEMMA TypeInvNext == TypeInv /\ HandlerInv /\ [Next]_vars => TypeInv'
BY ShapeNext, RegistryNext, PoolNext DEF TypeInv

LEMMA TypeInvTypes == TypeInv => TypeOK
<1> SUFFICES ASSUME TypeInv PROVE TypeOK
  OBVIOUS
<1>1. stage \in 1 .. Len(Order) /\ tries \in 0 .. 3
  BY OrderLength DEF TypeInv, MainTypes
<1>2. DOMAIN services \subseteq DOMAIN Services0 \cup {0} /\ file.exists \in BOOLEAN /\ file.size \in Nat
  BY DEF TypeInv, RegistryTypes, IsRegistry, IsFileOfRegistry
<1>3. DOMAIN pool \subseteq Addresses /\ DOMAIN index \subseteq DOMAIN pool
  BY DEF TypeInv, PoolTypes
<1>4. ASSUME NEW h \in Handlers
      PROVE  pc[h] \in Places /\ ((pc[h] = "idle") = (req[h] = Nothing))
  BY DEF TypeInv, HandlerTypes, Everyone
<1>5. received \in 0 .. MaxRequests /\ crashes \in 0 .. MaxCrashes
  BY DEF TypeInv, HandlerTypes
<1>6. QED
  BY <1>1, <1>2, <1>3, <1>4, <1>5 DEF TypeOK, Places

-----------------------------------------------------------------------------
(* Who may do what                                                            *)

\* Entitled requests name the service whose token they carry, and act for it if they name one.
LEMMA EntitledService ==
    ASSUME NEW r \in Requests, Entitled(r), ParseParams(r.svc) # Nothing
    PROVE  LET id == GetParamInt(r.svc)
           IN  /\ id \in DOMAIN Services0
               /\ Services0[id].ApiToken \in {Empty, r.token}
               /\ Services0[id].ApiToken = Empty => Services0[id].ApiKey = Empty
               /\ WrittenOnce(r.svc) => ParseParams(r.svc) = id
<1> DEFINE id == GetParamInt(r.svc)
<1>1. WrittenOnce(r.svc) => ParseParams(r.svc) = id
  BY ParamsAgree DEF Entitled
<1>2. id \in DOMAIN Services0 /\ AuthError(Services0[id], r.token) = Empty
  BY DEF Entitled
<1> HIDE DEF id
<1>3. Services0[id].ApiToken \in {Empty, r.token} /\ (Services0[id].ApiToken = Empty => Services0[id].ApiKey = Empty)
  BY <1>2, EmptyIsOther DEF AuthError
<1>4. QED
  BY <1>1, <1>2, <1>3 DEF id

\* effects and sent change in four places.
LEMMA HistorySteps ==
    ASSUME [Next]_vars
    PROVE  \/ \E h \in Handlers : AddAddress(h) \/ AddressGetNew(h) \/ SubscriptionEdit(h) \/ CallClient(h)
           \/ UNCHANGED <<effects, sent>>
<1>1. CASE Start \/ Crash \/ StartFails \/ Configure \/ UpdatePool \/ UNCHANGED vars
  BY <1>1 DEF Start, Crash, StartFails, Configure, UpdatePool, vars, histories
<1>2. ASSUME NEW h \in Handlers \cup {Main}, SaveOpen(h) \/ SaveWrite(h) \/ SaveFails(h)
      PROVE  UNCHANGED <<effects, sent>>
  BY <1>2 DEF SaveOpen, SaveWrite, SaveFails, histories
<1>3. ASSUME NEW h \in Handlers, Process(h)
      PROVE  \/ AddAddress(h) \/ AddressGetNew(h) \/ SubscriptionEdit(h) \/ CallClient(h)
             \/ UNCHANGED <<effects, sent>>
  BY <1>3 DEF Process, NotRpc, Route, Authorise, Encode, Read, ServiceRegister, AddressSubscribe,
              ServiceConfig, subscriptionsSave, TransferAssets, TransferInfo, Reply, histories
<1>4. ASSUME NEW h \in Handlers, NEW r \in Requests, Receive(h, r) PROVE UNCHANGED <<effects, sent>>
  BY <1>4 DEF Receive, histories
<1>5. QED
  BY <1>1, <1>2, <1>3, <1>4 DEF Next

\* What a configuration and a transfer record.
LEMMA EditStep ==
    ASSUME TypeInv, HandlerInv, NEW h \in Handlers, SubscriptionEdit(h)
    PROVE  /\ effects' = effects \cup {[service |-> ParseParams(req[h].svc), token |-> req[h].token, svc |-> req[h].svc,
                                        what |-> "config", addr |-> Empty]}
           /\ sent' = sent /\ req[h] \in Requests
           /\ ParseParams(req[h].svc) # Nothing /\ ParseParams(req[h].svc) \in DOMAIN services
           /\ Entitled(req[h])
<1>1. pc[h] = "edit" /\ req[h] \in Requests
  BY InWork DEF SubscriptionEdit, TypeInv
<1>2. MethodAt(h) /\ EntitledAt(h) /\ CheckedAt(h)
  BY DEF HandlerInv
<1>3. ParseParams(req[h].svc) # Nothing /\ ParseParams(req[h].svc) \in DOMAIN services /\ Entitled(req[h])
  BY <1>1, <1>2, MethodsDiffer DEF MethodAt, EntitledAt, CheckedAt
<1>4. QED
  BY <1>1, <1>3 DEF SubscriptionEdit

LEMMA SendStep ==
    ASSUME TypeInv, HandlerInv, NEW h \in Handlers, CallClient(h)
    PROVE  /\ effects' = effects /\ UNCHANGED <<pool, index, req, services>>
           /\ sent' = sent \/ (sent' = sent \cup {Transfer(req[h], loc[h].key)} /\ ~Refused(req[h], loc[h].key))
           /\ req[h] \in Requests /\ pc[h] = "transfer"
           /\ ParseParams(req[h].svc) # Nothing
           /\ Entitled(req[h]) /\ loc[h].key \in Keys
<1>1. pc[h] = "transfer" /\ req[h] \in Requests
  BY InWork DEF CallClient, TypeInv
<1>2. MethodAt(h) /\ EntitledAt(h) /\ CheckedAt(h)
  BY DEF HandlerInv
<1>3. ParseParams(req[h].svc) # Nothing /\ loc[h].key \in Keys /\ Entitled(req[h])
  BY <1>1, <1>2, MethodsDiffer DEF MethodAt, EntitledAt, CheckedAt
<1>4. QED
  BY <1>1, <1>3 DEF CallClient

\* what EffectsAuthorised says of one effect or transfer
Authorised(e) ==
    LET id == GetParamInt(e.svc)
    IN  /\ id \in DOMAIN Services0
        /\ Services0[id].ApiToken \in {Empty, e.token}
        /\ Services0[id].ApiToken = Empty => Services0[id].ApiKey = Empty
        /\ WrittenOnce(e.svc) => e.service = id

LEMMA AuthorisedNext == TypeInv /\ HandlerInv /\ EffectsAuthorised /\ [Next]_vars => EffectsAuthorised'
<1> SUFFICES ASSUME TypeInv, HandlerInv, EffectsAuthorised, [Next]_vars PROVE EffectsAuthorised'
  OBVIOUS
<1>s. (\A x \in {y \in effects' : y.what # "subscribe"} \cup sent' : Authorised(x)) => EffectsAuthorised'
  BY DEF EffectsAuthorised, Authorised
<1> SUFFICES ASSUME NEW e, (e \in effects' /\ e.what # "subscribe") \/ e \in sent' PROVE Authorised(e)
  BY <1>s
<1>0. (e \in effects /\ e.what # "subscribe") \/ e \in sent => Authorised(e)
  BY DEF EffectsAuthorised, Authorised
<1>a. ASSUME NEW r \in Requests, Entitled(r), ParseParams(r.svc) # Nothing,
             e.service = ParseParams(r.svc), e.token = r.token, e.svc = r.svc
      PROVE  Authorised(e)
  BY <1>a, EntitledService DEF Authorised
<1>1. ASSUME NEW h \in Handlers, AddAddress(h) PROVE Authorised(e)
  <2> DEFINE x == [service |-> ParseParams(req[h].svc), token |-> req[h].token, svc |-> req[h].svc,
                   what |-> "subscribe", addr |-> SubscribeAddress(req[h])]
  <2>1. effects' = effects \cup {x} /\ x.what = "subscribe"
    BY <1>1 DEF AddAddress
  <2>2. sent' = sent
    BY <1>1 DEF AddAddress
  <2> HIDE DEF x
  <2>3. QED
    BY <1>0, <2>1, <2>2
<1>2. ASSUME NEW h \in Handlers, AddressGetNew(h) PROVE Authorised(e)
  <2>1. sent' = sent /\ pc[h] = "process" /\ req[h].method = "addressGetNew"
    BY <1>2 DEF AddressGetNew
  <2>2. CASE effects' = effects
    BY <1>0, <2>1, <2>2
  <2>3. CASE \E a \in DOMAIN pool : \E rec \in AddressRecord(a) :
                /\ effects' = effects \cup {[service |-> rec.ServiceId, token |-> req[h].token, svc |-> req[h].svc,
                                             what |-> "getNew", addr |-> a]}
                /\ rec.ServiceId = ParseParams(req[h].svc) /\ ParseParams(req[h].svc) # Nothing
                /\ rec.ServiceId \in DOMAIN services
    <3>1. PICK a, rec :
                /\ effects' = effects \cup {[service |-> rec.ServiceId, token |-> req[h].token, svc |-> req[h].svc,
                                             what |-> "getNew", addr |-> a]}
                /\ rec.ServiceId = ParseParams(req[h].svc) /\ ParseParams(req[h].svc) # Nothing
                /\ rec.ServiceId \in DOMAIN services
      BY <2>3
    <3>2. req[h] \in Requests /\ Entitled(req[h])
      BY <2>1, InWork, MethodsDiffer DEF TypeInv, HandlerInv, EntitledAt
    <3>3. QED
      BY <1>0, <1>a, <2>1, <3>1, <3>2
  <2>4. QED
    BY <1>2, <2>2, <2>3, HandoutStep
<1>3. ASSUME NEW h \in Handlers, SubscriptionEdit(h) PROVE Authorised(e)
  BY <1>0, <1>a, <1>3, EditStep
<1>4. ASSUME NEW h \in Handlers, CallClient(h) PROVE Authorised(e)
  <2>1. Transfer(req[h], loc[h].key).service = ParseParams(req[h].svc)
        /\ Transfer(req[h], loc[h].key).token = req[h].token /\ Transfer(req[h], loc[h].key).svc = req[h].svc
    BY DEF Transfer
  <2>2. QED
    BY <1>0, <1>a, <1>4, <2>1, SendStep
<1>5. CASE UNCHANGED <<effects, sent>>
  BY <1>0, <1>5
<1>6. QED
  BY <1>1, <1>2, <1>3, <1>4, <1>5, HistorySteps

-----------------------------------------------------------------------------
(* Whose addresses are spent                                                  *)

LEMMA HistoryGrows ==
    ASSUME [Next]_vars
    PROVE  effects \subseteq effects' /\ sent \subseteq sent'
<1>1. ASSUME NEW h \in Handlers, AddAddress(h) \/ AddressGetNew(h) \/ SubscriptionEdit(h) \/ CallClient(h)
      PROVE  effects \subseteq effects' /\ sent \subseteq sent'
  BY <1>1 DEF AddAddress, AddressGetNew, SubscriptionEdit, CallClient
<1>2. QED
  BY <1>1, HistorySteps

LEMMA BackedStays ==
    ASSUME effects \subseteq effects', NEW a, NEW s, Backed(a, s)
    PROVE  Backed(a, s)'
BY DEF Backed

\* Only rpcProcessTransferAssets brings a handler to the transfer, with a key of the request
\* or with the key of a record of its service.
LEMMA TransferArrives ==
    ASSUME HandlerTypes, NEW h \in Handlers, Process(h), pc'[h] = "transfer"
    PROVE  /\ TransferAssets(h) /\ UNCHANGED <<req, index>>
           /\ req[h].key = Empty =>
                  /\ addressNormalise(req[h].addr) \in DOMAIN index
                  /\ index[addressNormalise(req[h].addr)].ServiceId = ParseParams(req[h].svc)
<1>0. h \in Everyone /\ DOMAIN pc = Everyone
  BY DEF HandlerTypes, Everyone
<1>1. ~(NotRpc(h) \/ Encode(h))
  BY <1>0 DEF NotRpc, Encode, Reply, Goto
<1>2. ~(Route(h) \/ Authorise(h) \/ Read(h) \/ ServiceRegister(h) \/ AddressSubscribe(h) \/ AddAddress(h))
  BY <1>0 DEF Route, Authorise, Read, ServiceRegister, AddressSubscribe, AddAddress, SetError, SetResult, Goto
<1>3. ~(AddressGetNew(h) \/ ServiceConfig(h) \/ SubscriptionEdit(h) \/ subscriptionsSave(h)
        \/ CallClient(h) \/ TransferInfo(h))
  BY <1>0 DEF AddressGetNew, ServiceConfig, SubscriptionEdit, subscriptionsSave, CallClient, TransferInfo,
              SetError, SetResult, Goto
<1>4. TransferAssets(h)
  BY <1>1, <1>2, <1>3 DEF Process
<1>5. ASSUME req[h].key = Empty
      PROVE  /\ addressNormalise(req[h].addr) \in DOMAIN index
             /\ index[addressNormalise(req[h].addr)].ServiceId = ParseParams(req[h].svc)
  <2>1. ASSUME NEW code, SetError(h, code) PROVE FALSE
    BY <1>0, <2>1 DEF SetError, Goto
  <2>2. TransferError(req[h]) = Empty
    BY <1>4, <2>1 DEF TransferAssets
  <2>3. QED
    BY <1>4, <1>5, <2>1, <2>2 DEF TransferAssets, MayUseKey
<1>6. QED
  BY <1>4, <1>5 DEF TransferAssets

\* Which of the steps bring a handler to a transfer: its own.
LEMMA TransferKept ==
    ASSUME TypeInv, [Next]_vars, NEW h \in Handlers, pc'[h] = "transfer", ~Process(h)
    PROVE  pc[h] = "transfer" /\ req'[h] = req[h]
<1>0. MainTypes /\ HandlerTypes /\ h \in Everyone /\ h # Main
  BY MainIsNoHandler DEF TypeInv, Everyone
<1>1. CASE Start
  <2>1. stage = 8 /\ UNCHANGED req
    BY <1>0, <1>1, StartTypes
  <2>2. pc'[h] = pc[h]
    BY <1>0, <1>1 DEF Start, HandlerTypes
  <2>3. QED
    BY <2>1, <2>2
<1>2. CASE Crash
  BY <1>0, <1>2, CrashTypes
<1>3. CASE SaveOpen(Main) \/ SaveWrite(Main) \/ SaveFails(Main)
  BY <1>0, <1>3, MainSaves
<1>4. CASE StartFails \/ Configure \/ UpdatePool \/ UNCHANGED vars
  BY <1>4, QuietFrame
<1>5. ASSUME NEW k \in Handlers, SaveOpen(k) \/ SaveWrite(k) \/ SaveFails(k)
      PROVE  pc[h] = "transfer" /\ req'[h] = req[h]
  BY <1>0, <1>5, SaveTypes DEF Alone
<1>6. ASSUME NEW k \in Handlers, Process(k) PROVE pc[h] = "transfer" /\ req'[h] = req[h]
  BY <1>0, <1>6, ProcessTypes DEF Alone
<1>7. ASSUME NEW k \in Handlers, NEW r \in Requests, Receive(k, r)
      PROVE  pc[h] = "transfer" /\ req'[h] = req[h]
  BY <1>0, <1>7, ReceiveTypes DEF Alone
<1>8. QED
  BY <1>1, <1>2, <1>3, <1>4, <1>5, <1>6, <1>7 DEF Next

LEMMA SpendInvInit == Init => SpendInv
<1> SUFFICES ASSUME Init PROVE SpendInv
  OBVIOUS
<1>1. pool = Pool0 /\ index = Pool0 /\ \A h \in Handlers : pc[h] = "idle"
  BY DEF Init
<1>2. QED
  BY <1>1 DEF SpendInv, Backed

LEMMA SpendInvNext == TypeInv /\ HandlerInv /\ SpendInv /\ [Next]_vars => SpendInv'
<1> SUFFICES ASSUME TypeInv, HandlerInv, SpendInv, [Next]_vars PROVE SpendInv'
  OBVIOUS
<1>0. \A a, s : Backed(a, s) => Backed(a, s)'
  BY HistoryGrows, BackedStays
<1>1. /\ (\A a \in DOMAIN pool : Backed(a, pool[a].ServiceId))'
      /\ (\A a \in DOMAIN index : Backed(a, index[a].ServiceId))'
  <2> DEFINE Fine == /\ (\A a \in DOMAIN pool : Backed(a, pool[a].ServiceId))'
                     /\ (\A a \in DOMAIN index : Backed(a, index[a].ServiceId))'
  <2>1. ASSUME NEW h \in Handlers, AddAddress(h) PROVE Fine
    <3>1. PICK a, rec :
              /\ pool' = [x \in DOMAIN pool \cup {a} |-> IF x = a THEN rec ELSE pool[x]]
              /\ index' = index
              /\ effects' = effects \cup {[service |-> rec.ServiceId, token |-> req[h].token, svc |-> req[h].svc,
                                           what |-> "subscribe", addr |-> a]}
      BY <2>1, InsertStep
    <3>2. Backed(a, rec.ServiceId)'
      <4> DEFINE e == [service |-> rec.ServiceId, token |-> req[h].token, svc |-> req[h].svc, what |-> "subscribe", addr |-> a]
      <4>1. e \in effects' /\ e.addr = a /\ e.service = rec.ServiceId
        BY <3>1
      <4> HIDE DEF e
      <4>2. PICK x \in effects' : x.addr = a /\ x.service = rec.ServiceId
        BY <4>1
      <4>3. QED
        BY <4>2 DEF Backed
    <3>3. QED
      BY <1>0, <3>1, <3>2 DEF SpendInv
  <2>2. ASSUME NEW h \in Handlers, AddressGetNew(h) PROVE Fine
    <3>1. CASE UNCHANGED <<pool, index>>
      BY <1>0, <3>1 DEF SpendInv
    <3>2. CASE \E a \in DOMAIN pool : \E rec \in AddressRecord(a) :
              /\ pool' = [pool EXCEPT ![a] = rec] /\ index' = [index EXCEPT ![a] = rec]
              /\ effects' = effects \cup {[service |-> rec.ServiceId, token |-> req[h].token, svc |-> req[h].svc,
                                           what |-> "getNew", addr |-> a]}
      <4>1. PICK a, rec :
              /\ pool' = [pool EXCEPT ![a] = rec] /\ index' = [index EXCEPT ![a] = rec]
              /\ effects' = effects \cup {[service |-> rec.ServiceId, token |-> req[h].token, svc |-> req[h].svc,
                                           what |-> "getNew", addr |-> a]}
        BY <3>2
      <4>2. Backed(a, rec.ServiceId)'
        <5> DEFINE e == [service |-> rec.ServiceId, token |-> req[h].token, svc |-> req[h].svc, what |-> "getNew", addr |-> a]
        <5>1. e \in effects' /\ e.addr = a /\ e.service = rec.ServiceId
          BY <4>1
        <5> HIDE DEF e
        <5>2. PICK x \in effects' : x.addr = a /\ x.service = rec.ServiceId
          BY <5>1
        <5>3. QED
          BY <5>2 DEF Backed
      <4>3. \A x \in DOMAIN pool' : x \in DOMAIN pool /\ ((pool'[x] = rec /\ x = a) \/ pool'[x] = pool[x])
        BY <4>1
      <4>4. \A x \in DOMAIN index' : x \in DOMAIN index /\ ((index'[x] = rec /\ x = a) \/ index'[x] = index[x])
        BY <4>1
      <4>5. QED
        BY <1>0, <4>2, <4>3, <4>4 DEF SpendInv
    <3>3. QED
      BY <2>2, <3>1, <3>2, HandoutStep
  <2>3. CASE UNCHANGED pool /\ (index' = index \/ index' = pool)
    BY <1>0, <2>3 DEF SpendInv
  <2>4. QED
    BY <2>1, <2>2, <2>3, PoolSteps
<1>2. ASSUME NEW h \in Handlers, pc'[h] = "transfer", req'[h].key = Empty
      PROVE  Backed(addressNormalise(req[h].addr), ParseParams(req[h].svc))'
  <2>1. CASE Process(h)
    <3>1. UNCHANGED req /\ addressNormalise(req[h].addr) \in DOMAIN index
          /\ index[addressNormalise(req[h].addr)].ServiceId = ParseParams(req[h].svc)
      BY <1>2, <2>1, TransferArrives DEF TypeInv
    <3>2. Backed(addressNormalise(req[h].addr), ParseParams(req[h].svc))
      BY <3>1 DEF SpendInv
    <3>3. QED
      BY <1>0, <3>1, <3>2
  <2>2. CASE ~Process(h)
    BY <1>0, <1>2, <2>2, TransferKept DEF SpendInv
  <2>3. QED
    BY <2>1, <2>2
<1>3. QED
  BY <1>1, <1>2 DEF SpendInv

LEMMA SpentNext ==
    TypeInv /\ HandlerInv /\ SpendInv /\ SpentBySubscriber /\ [Next]_vars => SpentBySubscriber'
<1> SUFFICES ASSUME TypeInv, HandlerInv, SpendInv, SpentBySubscriber, [Next]_vars, NEW t \in sent'
             PROVE  t.given \/ Backed(t.from, t.service)'
  BY DEF SpentBySubscriber, Backed
<1>0. t \in sent => t.given \/ Backed(t.from, t.service)'
  BY HistoryGrows, BackedStays DEF SpentBySubscriber, Backed
<1>1. ASSUME NEW h \in Handlers, CallClient(h) PROVE t.given \/ Backed(t.from, t.service)'
  <2>1. CASE t = Transfer(req[h], loc[h].key) /\ req[h].key = Empty
    <3>1. Backed(addressNormalise(req[h].addr), ParseParams(req[h].svc))
      BY <1>1, <2>1, SendStep DEF SpendInv
    <3>2. QED
      BY <2>1, <3>1, HistoryGrows, BackedStays DEF Transfer
  <2>2. CASE t = Transfer(req[h], loc[h].key) /\ req[h].key # Empty
    BY <2>2 DEF Transfer
  <2>3. QED
    BY <1>0, <1>1, <2>1, <2>2, SendStep
<1>2. ASSUME NEW h \in Handlers, AddAddress(h) \/ AddressGetNew(h) \/ SubscriptionEdit(h) PROVE sent' = sent
  BY <1>2 DEF AddAddress, AddressGetNew, SubscriptionEdit
<1>3. QED
  BY <1>0, <1>1, <1>2, HistorySteps

\* The client compares the address of the key with the address the request names.
LEMMA KeyOpensNext ==
    TypeInv /\ HandlerInv /\ KeyOpensAddress /\ PoolTypes' /\ [Next]_vars => KeyOpensAddress'
<1> SUFFICES ASSUME TypeInv, HandlerInv, KeyOpensAddress, PoolTypes', [Next]_vars PROVE KeyOpensAddress'
  OBVIOUS
<1>1. \A a \in DOMAIN pool' : {pool'[a].key, pool'[a].words} \subseteq {Empty, KeyOf[a]}
  BY DEF PoolTypes, AddressRecord
<1>2. ASSUME NEW t \in sent' PROVE t.key = KeyOf[t.from]
  <2>1. ASSUME NEW h \in Handlers, CallClient(h), t \notin sent PROVE t.key = KeyOf[t.from]
    <3>1. t = Transfer(req[h], loc[h].key) /\ ~Refused(req[h], loc[h].key) /\ loc[h].key \in Keys
      BY <2>1, SendStep
    <3>2. t.key = loc[h].key /\ t.from = AddressOf(loc[h].key)
      BY <3>1 DEF Transfer, Refused
    <3>3. QED
      BY <3>1, <3>2, KeyOpens
  <2>2. ASSUME NEW h \in Handlers, AddAddress(h) \/ AddressGetNew(h) \/ SubscriptionEdit(h) PROVE sent' = sent
    BY <2>2 DEF AddAddress, AddressGetNew, SubscriptionEdit
  <2>3. QED
    BY <2>1, <2>2, HistorySteps DEF KeyOpensAddress
<1>3. QED
  BY <1>1, <1>2 DEF KeyOpensAddress

-----------------------------------------------------------------------------
(* Services that were worked for                                              *)

\* What is done is done for a service of the registry.
LEMMA NewEffects ==
    ASSUME TypeInv, HandlerInv, NEW h \in Handlers, Process(h)
    PROVE  \A e \in effects' : e \in effects \/ e.service \in DOMAIN services
<1>1. CASE AddAddress(h)
  <2>1. PICK a, rec :
            /\ effects' = effects \cup {[service |-> rec.ServiceId, token |-> req[h].token, svc |-> req[h].svc,
                                         what |-> "subscribe", addr |-> a]}
            /\ rec.ServiceId \in DOMAIN services
    BY <1>1, InsertStep
  <2>2. QED
    BY <2>1
<1>2. CASE AddressGetNew(h)
  <2>1. CASE effects' = effects
    BY <2>1
  <2>2. CASE \E a \in DOMAIN pool : \E rec \in AddressRecord(a) :
               /\ effects' = effects \cup {[service |-> rec.ServiceId, token |-> req[h].token, svc |-> req[h].svc,
                                            what |-> "getNew", addr |-> a]}
               /\ rec.ServiceId \in DOMAIN services
    BY <2>2
  <2>3. QED
    BY <1>2, <2>1, <2>2, HandoutStep
<1>3. CASE SubscriptionEdit(h)
  BY <1>3, EditStep
<1>4. CASE CallClient(h)
  BY <1>4, SendStep
<1>5. CASE ~(AddAddress(h) \/ AddressGetNew(h) \/ SubscriptionEdit(h) \/ CallClient(h))
  BY <1>5 DEF Process, NotRpc, Route, Authorise, Encode, Read, ServiceRegister, AddressSubscribe,
              ServiceConfig, subscriptionsSave, TransferAssets, TransferInfo, Reply, histories
<1>6. QED
  BY <1>1, <1>2, <1>3, <1>4, <1>5

\* main goes on by one stage at a time.
LEMMA StartupGoesOn ==
    ASSUME MainTypes, StartupStep
    PROVE  stage' = stage \/ stage' = stage + 1
<1>1. ASSUME NEW m \in Modules,
             \/ coldStart(m) \/ Load(m) \/ LoadLenient(m) \/ ConfigOpen(m) \/ ConfigWrite(m) \/ ConfigFails(m)
      PROVE  stage' = stage \/ stage' = stage + 1
  BY <1>1 DEF coldStart, Load, LoadLenient, ConfigOpen, ConfigWrite, ConfigFails, Advance, Exit
<1>2. ASSUME NEW d, connect(d) PROVE stage' = stage \/ stage' = stage + 1
  BY <1>2 DEF connect, Advance
<1>3. CASE Flag \/ FlagOpen \/ FlagWrite
  BY <1>3 DEF Flag, FlagOpen, FlagWrite
<1>4. QED
  BY <1>1, <1>2, <1>3 DEF StartupStep, GetNewBadgerStorage, GetNewBadgerHoldStorage

LEMMA ServedInit == Init => ServedInv
<1> SUFFICES ASSUME Init PROVE ServedInv
  OBVIOUS
<1>1. effects = {} /\ stage = 1 /\ pc[Main] = "idle"
  BY DEF Init, StartupInit
<1>2. QED
  BY <1>1 DEF ServedInv, Served

LEMMA ServedNext == TypeInv /\ HandlerInv /\ ServedInv /\ [Next]_vars => ServedInv'
<1> SUFFICES ASSUME TypeInv, HandlerInv, ServedInv, [Next]_vars PROVE ServedInv'
  OBVIOUS
<1>0. MainTypes /\ HandlerTypes /\ RegistryTypes /\ stage \in 1 .. 13 /\ Main \notin Handlers
  BY MainIsNoHandler DEF TypeInv, MainTypes
<1>t. MainTypes' /\ HandlerTypes'
  BY <1>0, ShapeNext
<1>1. CASE Start
  <2>1. stage = 8 /\ UNCHANGED <<file, effects>> /\ \A h \in Handlers : pc[h] = "idle" /\ h \in Everyone
    BY <1>0, <1>1, StartTypes, AllIdle DEF Start, histories, Everyone
  <2>2. CASE IsExists(file)
    <3>1. services' = file.data /\ file.data # Nothing /\ UNCHANGED pc /\ pc[Main] = "idle" /\ file.exists
      BY <1>1, <2>2 DEF Start, subscriptionsLoad, IsExists
    <3>2. QED
      BY <2>1, <3>1 DEF ServedInv, Served, Saving
  <2>3. CASE ~IsExists(file)
    <3>1. services' = ColdServices /\ stage' = stage /\ pc' = [pc EXCEPT ![Main] = "open"]
      BY <1>1, <2>3 DEF Start, subscriptionsLoad
    <3>2. effects = {} /\ pc'[Main] # "write"
      BY <1>0, <2>3, <3>1 DEF ServedInv, IsExists, HandlerTypes, Everyone
    <3>3. QED
      BY <2>1, <3>1, <3>2 DEF ServedInv, Served
  <2>4. QED
    BY <2>2, <2>3
<1>2. CASE Crash
  <2>1. stage' = 1 /\ pc'[Main] = "idle" /\ UNCHANGED <<file, effects>>
    BY <1>0, <1>2, CrashTypes DEF Crash, histories, Everyone
  <2>2. QED
    BY <2>1 DEF ServedInv, Served
<1>3. CASE StartFails \/ UpdatePool \/ UNCHANGED vars
  <2>1. UNCHANGED <<services, file, pc, loc, effects, stage>>
    BY <1>3 DEF StartFails, UpdatePool, vars, histories, startupVars, Exit
  <2>2. QED
    BY <2>1 DEF ServedInv, Served, Saving
<1>4. CASE Configure
  <2>1. UNCHANGED <<services, file, pc, loc, effects>> /\ StartupStep
    BY <1>4 DEF Configure, histories
  <2>2. stage # 8 /\ (stage' = stage \/ stage' = stage + 1)
    BY <1>0, <2>1, StartupAt, StartupGoesOn
  <2>3. (stage <= 8 => stage' <= 8) /\ (stage' > 8 => stage > 8)
    BY <1>0, <2>2
  <2>4. QED
    BY <2>1, <2>3 DEF ServedInv, Served, Saving
<1>5. CASE SaveOpen(Main) \/ SaveWrite(Main) \/ SaveFails(Main)
  <2>1. /\ stage = 8 /\ Main \in Everyone /\ UNCHANGED <<services, effects>>
        /\ \A k \in Handlers : pc'[k] = pc[k] /\ loc'[k] = loc[k] /\ pc[k] = "idle"
    BY <1>0, <1>5, MainSaves, AllIdle DEF SaveOpen, SaveWrite, SaveFails, histories, Everyone
  <2>2. pc[Main] # "idle" /\ loc[Main] = [saved |-> ColdServices] /\ effects = {} /\ services = ColdServices
    BY <1>0, <1>5 DEF SaveOpen, SaveWrite, SaveFails, HandlerTypes, ServedInv
  <2>3. CASE SaveOpen(Main)
    <3>1. file' = Opened(file) /\ stage' = stage
      BY <2>3 DEF SaveOpen, startupVars
    <3>2. QED
      BY <2>1, <2>2, <3>1, OpenedFile DEF ServedInv, Served
  <2>4. CASE SaveWrite(Main)
    <3>1. file' = Written(file, ColdServices, TextSize(ColdServices)) /\ pc'[Main] = "idle" /\ pc[Main] = "write"
      BY <1>0, <2>1, <2>2, <2>4 DEF SaveWrite, HandlerTypes
    <3>2. file'.exists /\ file'.data \in {ColdServices, Nothing}
      <4>1. file.exists /\ IsFileOfRegistry(file)
        BY <1>0, <3>1 DEF ServedInv, RegistryTypes
      <4>2. TextSize(ColdServices) \in Nat
        BY ColdIsRegistry, TextSizeIsNat
      <4>3. QED
        BY <3>1, <4>1, <4>2, ColdIsRegistry, WrittenFile
    <3>3. QED
      BY <2>1, <2>2, <3>1, <3>2 DEF ServedInv, Served, Saving
  <2>5. CASE SaveFails(Main)
    <3>1. UNCHANGED <<file, stage>> /\ pc'[Main] = "idle"
      BY <1>0, <2>1, <2>5 DEF SaveFails, HandlerTypes, Exit
    <3>2. QED
      BY <2>1, <2>2, <3>1 DEF ServedInv, Served
  <2>6. QED
    BY <1>5, <2>3, <2>4, <2>5
<1>6. ASSUME NEW h \in Handlers, SaveOpen(h) \/ SaveWrite(h) \/ SaveFails(h) PROVE ServedInv'
  <2>1. /\ Alone(h) /\ pc[h] # "idle" /\ UNCHANGED <<services, effects, stage>> /\ Saving(h)
        /\ (SaveOpen(h) \/ ~Saving(h)') /\ (SaveOpen(h) => loc' = loc)
    BY <1>0, <1>6, SaveTypes DEF SaveOpen, SaveWrite, SaveFails, histories, startupVars, Saving
  <2>2. stage = 13 /\ pc[Main] = "idle" /\ Main \in Everyone \ {h}
    BY <1>0, <2>1 DEF HandlerTypes, Everyone
  <2>3. file.exists /\ IsFileOfRegistry(file) /\ IsRegistry(loc[h].saved) /\ h \in Everyone
    <3>1. file.exists
      BY <2>2 DEF ServedInv
    <3>2. h \in Everyone
      BY DEF Everyone
    <3>3. IsFileOfRegistry(file) /\ IsRegistry(loc[h].saved)
      BY <1>0, <2>1, <3>2 DEF RegistryTypes
    <3>4. QED
      BY <3>1, <3>2, <3>3
  <2>4. file'.exists /\ (file'.data \in {loc[h].saved, Nothing} \/ file' = file)
    <3>1. CASE SaveOpen(h)
      BY <3>1, OpenedFile DEF SaveOpen
    <3>2. CASE SaveWrite(h)
      <4>1. file' = Written(file, loc[h].saved, TextSize(loc[h].saved)) /\ TextSize(loc[h].saved) \in Nat
        BY <2>3, <3>2, TextSizeIsNat DEF SaveWrite
      <4>2. QED
        BY <2>3, <4>1, WrittenFile
    <3>3. CASE SaveFails(h)
      BY <2>3, <3>3 DEF SaveFails
    <3>4. QED
      BY <1>6, <3>1, <3>2, <3>3
  <2>5. Served(DOMAIN services) /\ DOMAIN loc[h].saved = DOMAIN services
    BY <2>1, <2>2 DEF ServedInv
  <2>6. \A k \in Handlers : Saving(k)' => Saving(k) /\ loc'[k] = loc[k]
    BY <2>1 DEF Alone, Saving, Everyone
  <2>7. file'.data # Nothing => DOMAIN file'.data = DOMAIN services
    BY <2>2, <2>4, <2>5 DEF ServedInv
  <2>8. pc'[Main] = "idle"
    BY <2>1, <2>2 DEF Alone
  <2>9. QED
    BY <2>1, <2>2, <2>4, <2>5, <2>6, <2>7, <2>8 DEF ServedInv, Served
<1>7. ASSUME NEW h \in Handlers, Process(h) PROVE ServedInv'
  <2>1. Alone(h) /\ pc[h] # "idle" /\ UNCHANGED <<file, stage>> /\ DOMAIN services' = DOMAIN services
    BY <1>0, <1>7, ProcessTypes, ProcessFrame, ProcessKeeps DEF startupVars
  <2>2. stage = 13 /\ pc[Main] = "idle" /\ Main \in Everyone \ {h} /\ h \in Everyone
    BY <1>0, <2>1 DEF HandlerTypes, Everyone
  <2>3. file.exists /\ Served(DOMAIN services)
    BY <2>2 DEF ServedInv
  <2>4. \A e \in effects' : e.service \in DOMAIN services
    BY <1>7, <2>3, NewEffects DEF Served
  <2>5. \A k \in Handlers : Saving(k)' => DOMAIN loc'[k].saved = DOMAIN services
    <3>1. Saving(h)' => loc'[h].saved = services
      BY <1>0, <1>7, ProcessServices, SavedHere DEF Saving
    <3>2. \A k \in Handlers \ {h} : Saving(k)' => Saving(k) /\ loc'[k] = loc[k]
      BY <2>1 DEF Alone, Saving, Everyone
    <3>3. QED
      BY <2>2, <3>1, <3>2 DEF ServedInv
  <2>6. pc'[Main] = "idle"
    BY <2>1, <2>2 DEF Alone
  <2>7. QED
    BY <2>1, <2>2, <2>3, <2>4, <2>5, <2>6 DEF ServedInv, Served
<1>8. ASSUME NEW h \in Handlers, NEW r \in Requests, Receive(h, r) PROVE ServedInv'
  <2>1. UNCHANGED <<services, file, loc, effects, stage>> /\ Alone(h) /\ pc'[h] = "route"
    BY <1>0, <1>8, ReceiveTypes DEF Receive, histories, startupVars
  <2>2. pc'[Main] = pc[Main] /\ \A k \in Handlers : Saving(k)' => Saving(k)
    BY <1>0, <2>1 DEF Alone, Saving, Everyone
  <2>3. QED
    BY <2>1, <2>2 DEF ServedInv, Served
<1>9. QED
  BY <1>1, <1>2, <1>3, <1>4, <1>5, <1>6, <1>7, <1>8 DEF Next

LEMMA ServedKeeps == TypeInv /\ ServedInv => ServedIsKept
<1> SUFFICES ASSUME TypeInv, ServedInv, Serving, NEW e \in effects
             PROVE  e.service \in DOMAIN services /\ services[e.service].ApiToken = Services0[e.service].ApiToken
  BY DEF ServedIsKept
<1>1. stage = 13 /\ IsRegistry(services)
  BY StageAt DEF TypeInv, RegistryTypes
<1>2. e.service \in DOMAIN services
  BY <1>1 DEF ServedInv, Served
<1>3. QED
  BY <1>1, <1>2 DEF IsRegistry

-----------------------------------------------------------------------------
(* The settings                                                               *)

LEMMA StagesDiffer ==
    /\ \A m, k \in Modules : StageOf(m) = StageOf(k) => m = k
    /\ \A m \in Modules : StageOf(m) \in {1, 2, 3, 5, 7, 10, 11, 12}
<1>1. StageOf("global") = 1 /\ StageOf("abi") = 2 /\ StageOf("client") = 3 /\ StageOf("address") = 5
  BY DEF StageOf
<1>2. StageOf("subscriptions") = 7 /\ StageOf("txcache") = 10 /\ StageOf("watchdog") = 11 /\ StageOf("security") = 12
  BY DEF StageOf
<1>3. Modules = {"global", "abi", "client", "address", "subscriptions", "txcache", "watchdog", "security"}
  BY DEF Modules, Strict
<1>4. QED
  BY <1>1, <1>2, <1>3

LEMMA CheckedFields == \A m \in Modules \ Strict : Checked(m) \subseteq Fields(m)
BY DEF Checked, Fields, Modules, Strict

LEMMA RequiredFields == Fields("global") \ {"flags"} = Required /\ Required \subseteq Fields("global")
BY DEF Fields, Required

LEMMA GivenStays ==
    ASSUME first' = first, NEW m
    PROVE  Given(m)' = Given(m)
BY DEF Given, IsExists, ColdConfig

\* The files

LEMMA FileStays ==
    ASSUME NEW m, FileTrue(m), files'[m] = files[m], first' = first
    PROVE  FileTrue(m)'
<1>1. Given(m)' = Given(m)
  BY GivenStays
<1>2. QED
  BY <1>1 DEF FileTrue, Parses

LEMMA FileOpened ==
    ASSUME NEW m, files'[m] = Opened(files[m])
    PROVE  FileTrue(m)'
<1>1. files'[m] = [exists |-> TRUE, data |-> Nothing, size |-> 0]
  BY DEF Opened, SavedFile
<1>2. QED
  BY <1>1 DEF FileTrue

\* What Config.Save writes is read back, and says what was given when the memory does.
LEMMA FileWritten ==
    ASSUME NEW m \in Modules, FileTrue(m), files'[m] = Written(files[m], SaveText(m, config[m]), 1), first' = first,
           m \in Strict => \A f \in Fields(m) \ {"flags"} : config[m][f] = Given(m)[f]
    PROVE  FileTrue(m)'
<1> DEFINE text == SaveText(m, config[m])
<1>1. /\ files'[m] = [exists |-> files'[m].exists, data |-> files'[m].data, size |-> files'[m].size]
      /\ files'[m].data \in {text, Nothing}
      /\ files'[m].exists \/ (files'[m].exists = files[m].exists /\ files'[m].data = Nothing)
  <2> DEFINE f == files[m]
  <2>1. CASE f.size <= 1
    BY <2>1 DEF Written, SavedFile
  <2>2. CASE ~(f.size <= 1)
    <3>1. files'[m] = [f EXCEPT !.data = Nothing]
      BY <2>2 DEF Written
    <3>2. f = [exists |-> f.exists, data |-> f.data, size |-> f.size]
      BY DEF FileTrue
    <3>3. [f EXCEPT !.data = Nothing] = [exists |-> f.exists, data |-> Nothing, size |-> f.size]
      <4> DEFINE a == f.exists
                 b == f.data
                 c == f.size
      <4>1. f = [exists |-> a, data |-> b, size |-> c]
        BY <3>2
      <4> HIDE DEF a, b, c
      <4>2. [f EXCEPT !.data = Nothing] = [exists |-> a, data |-> Nothing, size |-> c]
        BY <4>1
      <4>3. QED
        BY <4>2 DEF a, c
    <3>4. QED
      BY <3>1, <3>3
  <2>3. QED
    BY <2>1, <2>2
<1>2. Parses(text) \/ text = Nothing
  <2>1. CASE m = "global"
    <3>1. text.values = [f \in {g \in Fields(m) : g \in Required \/ config[m][g] # "zero"} |-> config[m][f]]
      BY <2>1 DEF SaveText
    <3>2. DOMAIN text.values = {g \in Fields(m) : g \in Required \/ config[m][g] # "zero"}
      BY <3>1
    <3>3. Required \subseteq DOMAIN text.values
      BY <2>1, <3>2, RequiredFields
    <3>4. QED
      BY <3>3 DEF Parses
  <2>2. CASE m # "global"
    <3>1. text.format = "json"
      BY <2>2 DEF SaveText
    <3>2. QED
      BY <3>1 DEF Parses
  <2>3. QED
    BY <2>1, <2>2
<1>3. ASSUME m \in Strict, NEW f \in Fields(m) \ {"flags"}
      PROVE  f \in DOMAIN text.values /\ text.values[f] = Given(m)[f]
  <2>1. m = "global" => f \in Required
    BY RequiredFields
  <2>2. text.values = [x \in {g \in Fields(m) : m = "global" => g \in Required \/ config[m][g] # "zero"} |-> config[m][x]]
    BY DEF SaveText
  <2>3. f \in {g \in Fields(m) : m = "global" => g \in Required \/ config[m][g] # "zero"}
    BY <2>1
  <2>4. QED
    BY <1>3, <2>2, <2>3
<1> HIDE DEF text
<1>4. \A f : Given(m)'[f] = Given(m)[f]
  BY GivenStays
<1>5. ASSUME files'[m].data # Nothing PROVE files'[m].data = text
  BY <1>1, <1>5
<1>6. QED
  BY <1>1, <1>2, <1>3, <1>4, <1>5 DEF FileTrue, Parses

\* The memory

LEMMA ConfigStays ==
    ASSUME NEW m \in Modules, ConfigTrue(m), stage \in 1 .. 13, first' = first, config'[m] = config[m],
           \/ stage' = stage /\ (stage # StageOf(m) \/ step'.at = "load" \/ (step.at # "load" /\ step'.then = step.then))
           \/ stage' = stage + 1 /\ stage # StageOf(m) /\ step'.at = "load"
    PROVE  ConfigTrue(m)'
<1>1. Given(m)' = Given(m) /\ StageOf(m) \in 1 .. 12
  BY GivenStays, StageBounds
<1>2. stage' > StageOf(m) => stage > StageOf(m)
  BY <1>1
<1>3. (stage' = StageOf(m) /\ step'.at # "load") => stage = StageOf(m) /\ step.at # "load" /\ step'.then = step.then
  BY <1>1
<1>4. ASSUME m \in Strict, NEW f \in Fields(m) \ {"flags"}
      PROVE  /\ stage' > StageOf(m) => config'[m][f] = Given(m)'[f]
             /\ stage' = StageOf(m) /\ step'.at # "load" => config'[m][f] = Given(m)'[f]
             /\ config'[m][f] \in {"zero", Given(m)'[f]}
  BY <1>1, <1>2, <1>3, <1>4 DEF ConfigTrue
<1>5. ASSUME m \notin Strict, NEW f \in Checked(m)
      PROVE  /\ stage' > StageOf(m) => config'[m][f] # "zero"
             /\ stage' = StageOf(m) /\ step'.at # "load" /\ step'.then = "next" => config'[m][f] # "zero"
  BY <1>1, <1>2, <1>3, <1>5 DEF ConfigTrue
<1>6. QED
  BY <1>4, <1>5 DEF ConfigTrue

\* The module that is loaded has what it needs.
LEMMA ConfigMade ==
    ASSUME NEW m \in Modules, first' = first,
           m \in Strict => \A f \in Fields(m) \ {"flags"} : config'[m][f] = Given(m)[f],
           m \notin Strict => \/ \A f \in Checked(m) : config'[m][f] # "zero"
                              \/ stage' = StageOf(m) /\ (step'.at = "load" \/ step'.then # "next"),
           stage' \in 1 .. 13
    PROVE  ConfigTrue(m)'
<1>1. Given(m)' = Given(m) /\ StageOf(m) \in 1 .. 12
  BY GivenStays, StageBounds
<1>2. stage' = StageOf(m) => ~(stage' > StageOf(m))
  BY <1>1
<1>3. QED
  BY <1>1, <1>2 DEF ConfigTrue

\* main gives up only over a file that does not parse, a disk or a database.
Excused == exited => faulty \/ Torn(file) \/ \E m \in Modules : Torn(files[m])

LEMMA ExcusedIsIt == (Excused <=> StartsUnlessTorn) /\ (Excused <=> StartsUnlessTorn)'
BY DEF Excused, StartsUnlessTorn, ReadsWhatItWrites

SettingsAt(m) == FileTrue(m) /\ ConfigTrue(m)
DatabasesTrue == \A d \in Databases : db[d] = "nil" => faulty

\* a module is loaded
LEMMA SettingsLoad ==
    ASSUME MainTypes, MainTypes', SettingsInv, NEW m \in Modules, coldStart(m) \/ Load(m) \/ LoadLenient(m)
    PROVE  (\A k \in Modules : SettingsAt(k)') /\ DatabasesTrue' /\ Excused'
<1>0. /\ stage = StageOf(m) /\ ~exited /\ stage \in 1 .. 13 /\ stage' \in 1 .. 13
      /\ UNCHANGED <<files, first, db, faulty>> /\ step.at = "load"
      /\ DOMAIN config = Modules /\ \A k \in Modules : FileTrue(k) /\ ConfigTrue(k)
  BY StageAt DEF coldStart, Load, LoadLenient, MainTypes, SettingsInv
<1>1. DatabasesTrue'
  BY <1>0 DEF DatabasesTrue, SettingsInv
<1>2. \A k \in Modules : FileTrue(k)'
  BY <1>0, FileStays
<1>3. \A k \in Modules \ {m} : config'[k] = config[k] /\ stage # StageOf(k)
  BY <1>0, StagesDiffer DEF coldStart, Load, LoadLenient
<1>4. \/ stage' = stage
      \/ stage' = stage + 1 /\ step'.at = "load"
  BY DEF coldStart, Load, LoadLenient, Advance, Exit
<1>5. \A k \in Modules \ {m} : ConfigTrue(k)'
  BY <1>0, <1>3, <1>4, ConfigStays
<1>6. Given(m)' = Given(m)
  BY <1>0, GivenStays
<1>7. ConfigTrue(m)' /\ Excused'
  <2>1. CASE coldStart(m)
    <3>1. config'[m] = ColdConfig(m) /\ step' = [at |-> "open", then |-> "load"] /\ UNCHANGED <<stage, exited>>
      BY <1>0, <2>1 DEF coldStart
    <3>2. Given(m) = ColdConfig(m)
      BY <1>0, <2>1 DEF coldStart, Given, IsExists, FileTrue
    <3>3. step'.then # "next"
      BY <3>1
    <3>4. QED
      BY <1>0, <3>1, <3>2, <3>3, ConfigMade DEF Excused
  <2>2. CASE Load(m) /\ Parses(files[m].data)
    <3>1. config'[m] = Unmarshal(m, files[m].data) /\ Advance /\ m \in Strict
      BY <1>0, <2>2 DEF Load
    <3>2. ASSUME NEW f \in Fields(m) \ {"flags"} PROVE config'[m][f] = Given(m)[f]
      <4>1. (IF f \in DOMAIN files[m].data.values THEN files[m].data.values[f] ELSE "zero") = Given(m)[f]
        BY <1>0, <2>2, <3>1 DEF FileTrue, Parses
      <4>2. config[m][f] \in {"zero", Given(m)[f]}
        BY <1>0, <3>1 DEF ConfigTrue
      <4>3. config'[m][f] = IF f \in DOMAIN files[m].data.values THEN files[m].data.values[f] ELSE config[m][f]
        BY <3>1 DEF Unmarshal
      <4>4. QED
        BY <4>1, <4>2, <4>3
    <3>3. exited' = exited
      BY <3>1 DEF Advance
    <3>4. QED
      BY <1>0, <3>1, <3>2, <3>3, ConfigMade DEF Excused
  <2>3. CASE Load(m) /\ ~Parses(files[m].data)
    <3>1. config' = config /\ stage' = stage /\ step' = step
      BY <2>3 DEF Load, Exit
    <3>2. files[m].data = Nothing /\ IsExists(files[m])
      BY <1>0, <2>3 DEF Load, FileTrue
    <3>3. Torn(files[m])'
      BY <1>0, <3>2 DEF Torn, IsExists
    <3>4. QED
      BY <1>0, <3>1, <3>3, ConfigStays DEF Excused
  <2>4. CASE LoadLenient(m)
    <3> DEFINE loaded == IF Parses(files[m].data) THEN Unmarshal(m, files[m].data) ELSE config[m]
    <3>1. config'[m] = checkDefaults(m, loaded) /\ m \notin Strict
      BY <1>0, <2>4 DEF LoadLenient
    <3>2. \A f \in Checked(m) : config'[m][f] # "zero"
      <4> HIDE DEF loaded
      <4>1. \A f \in Checked(m) : f \in Fields(m)
        BY <3>1, CheckedFields
      <4>2. QED
        BY <3>1, <4>1 DEF checkDefaults
    <3>3. exited' => exited \/ (db["addresses.db"] = "nil" /\ "addresses.db" \in Databases)
      BY <2>4 DEF LoadLenient, Advance, Exit, Databases
    <3>4. Excused'
      BY <1>0, <3>3 DEF Excused, SettingsInv
    <3>5. QED
      BY <1>0, <3>1, <3>2, <3>4, ConfigMade
  <2>5. QED
    BY <2>1, <2>2, <2>3, <2>4
<1>8. QED
  BY <1>1, <1>2, <1>5, <1>7 DEF SettingsAt

\* a module is saved
LEMMA SettingsSave ==
    ASSUME MainTypes, MainTypes', SettingsInv, NEW m \in Modules, ConfigOpen(m) \/ ConfigWrite(m) \/ ConfigFails(m)
    PROVE  (\A k \in Modules : SettingsAt(k)') /\ DatabasesTrue' /\ Excused'
<1>0. /\ stage = StageOf(m) /\ ~exited /\ stage \in 1 .. 13 /\ stage' \in 1 .. 13
      /\ UNCHANGED <<config, first, db, faulty>> /\ step.at # "load"
      /\ DOMAIN files = Modules /\ \A k \in Modules : FileTrue(k) /\ ConfigTrue(k)
  BY StageAt DEF ConfigOpen, ConfigWrite, ConfigFails, MainTypes, SettingsInv
<1>1. DatabasesTrue'
  BY <1>0 DEF DatabasesTrue, SettingsInv
<1>2. \A k \in Modules \ {m} : files'[k] = files[k] /\ stage # StageOf(k)
  BY <1>0, StagesDiffer DEF ConfigOpen, ConfigWrite, ConfigFails
<1>3. \/ stage' = stage
      \/ stage' = stage + 1 /\ step'.at = "load"
  BY DEF ConfigOpen, ConfigWrite, ConfigFails, Advance, Exit
<1>4. \A k \in Modules \ {m} : FileTrue(k)' /\ ConfigTrue(k)'
  BY <1>0, <1>2, <1>3, FileStays, ConfigStays
<1>5. step \in [at : {"load", "open", "write"}, then : {"load", "next"}]
  BY DEF MainTypes
<1>6. FileTrue(m)' /\ ConfigTrue(m)' /\ Excused'
  <2>1. CASE ConfigOpen(m)
    <3>1. files'[m] = Opened(files[m]) /\ UNCHANGED <<stage, exited>>
      BY <1>0, <2>1 DEF ConfigOpen
    <3>2. step' = [step EXCEPT !.at = "write"]
      BY <2>1 DEF ConfigOpen
    <3>3. step'.then = step.then
      BY <1>5, <3>2
    <3>4. QED
      BY <1>0, <3>1, <3>3, FileOpened, ConfigStays DEF Excused
  <2>2. CASE ConfigWrite(m)
    <3>1. files'[m] = Written(files[m], SaveText(m, config[m]), 1)
      BY <1>0, <2>2 DEF ConfigWrite
    <3>2. m \in Strict => \A f \in Fields(m) \ {"flags"} : config[m][f] = Given(m)[f]
      BY <1>0 DEF ConfigTrue
    <3>3. FileTrue(m)'
      BY <1>0, <3>1, <3>2, FileWritten
    <3>4. exited' => exited \/ (db["addresses.db"] = "nil" /\ "addresses.db" \in Databases)
      BY <2>2 DEF ConfigWrite, Advance, Exit, Databases
    <3>5. Excused'
      BY <1>0, <3>4 DEF Excused, SettingsInv
    <3>6. CASE step.then = "load"
      <4>1. stage' = stage /\ step' = [step EXCEPT !.at = "load"]
        BY <2>2, <3>6 DEF ConfigWrite
      <4>2. step'.at = "load"
        BY <1>5, <4>1
      <4>3. QED
        BY <1>0, <3>3, <3>5, <4>1, <4>2, ConfigStays
    <3>7. CASE step.then = "next"
      <4>1. m \notin Strict => \A f \in Checked(m) : config[m][f] # "zero"
        BY <1>0, <3>7 DEF ConfigTrue
      <4>2. QED
        BY <1>0, <3>2, <3>3, <3>5, <4>1, ConfigMade
    <3>8. QED
      BY <1>5, <3>6, <3>7
  <2>3. CASE ConfigFails(m)
    <3>1. UNCHANGED <<files, stage, step>> /\ faulty
      BY <2>3 DEF ConfigFails, Exit
    <3>2. QED
      BY <1>0, <3>1, FileStays, ConfigStays DEF Excused
  <2>4. QED
    BY <2>1, <2>2, <2>3
<1>7. QED
  BY <1>1, <1>4, <1>6 DEF SettingsAt

\* a database is opened
LEMMA SettingsConnect ==
    ASSUME MainTypes, SettingsInv, NEW d \in Databases, connect(d)
    PROVE  (\A k \in Modules : SettingsAt(k)') /\ DatabasesTrue' /\ Excused'
<1>1. stage \in {4, 6, 9} /\ ~exited
  BY StageAt DEF connect, Databases
<1>2. \A k \in Modules : stage # StageOf(k)
  BY <1>1, StagesDiffer
<1>3. /\ UNCHANGED <<config, files, first, faulty>> /\ DOMAIN db = Databases
      /\ stage \in 1 .. 13 /\ \A k \in Modules : FileTrue(k) /\ ConfigTrue(k)
  BY DEF connect, MainTypes, SettingsInv
<1>4. exited' = exited /\ (stage' = stage \/ (stage' = stage + 1 /\ step'.at = "load"))
  BY DEF connect, Advance
<1>5. \A k \in Modules : FileTrue(k)' /\ ConfigTrue(k)'
  BY <1>2, <1>3, <1>4, FileStays, ConfigStays
<1>6. DatabasesTrue'
  <2>1. DatabasesTrue
    BY DEF DatabasesTrue, SettingsInv
  <2>2. db' = db \/ db' = [db EXCEPT ![d] = "open"] \/ (faulty /\ db' = [db EXCEPT ![d] = "nil"])
    BY DEF connect
  <2>3. QED
    BY <1>3, <2>1, <2>2 DEF DatabasesTrue
<1>7. QED
  BY <1>1, <1>4, <1>5, <1>6 DEF SettingsAt, Excused

\* a flag is added to the configuration of the node that serves
LEMMA SettingsFlag ==
    ASSUME MainTypes, SettingsInv, Flag \/ FlagOpen \/ FlagWrite
    PROVE  (\A k \in Modules : SettingsAt(k)') /\ DatabasesTrue' /\ Excused'
<1>0. /\ stage = 13 /\ ~exited /\ UNCHANGED <<stage, exited, step, first, db, faulty>>
      /\ DOMAIN files = Modules /\ DOMAIN config = Modules /\ "global" \in Modules
      /\ \A k \in Modules : DOMAIN config[k] = Fields(k) /\ FileTrue(k) /\ ConfigTrue(k)
      /\ "global" \in Strict
  BY StageAt DEF Flag, FlagOpen, FlagWrite, MainTypes, SettingsInv, Modules, Strict
<1>1. DatabasesTrue' /\ Excused'
  BY <1>0 DEF DatabasesTrue, SettingsInv, Excused
<1>2. \A k \in Modules \ {"global"} : files'[k] = files[k] /\ config'[k] = config[k]
  BY <1>0 DEF Flag, FlagOpen, FlagWrite
<1>3. \A k \in Modules : stage # StageOf(k)
  BY <1>0, StagesDiffer
<1>4. \A k \in Modules \ {"global"} : FileTrue(k)' /\ ConfigTrue(k)'
  BY <1>0, <1>2, <1>3, FileStays, ConfigStays
<1>5. \A f \in Fields("global") \ {"flags"} : config["global"][f] = Given("global")[f]
  <2>1. StageOf("global") \in 1 .. 12
    BY <1>0, StageBounds
  <2>2. QED
    BY <1>0, <2>1 DEF ConfigTrue
<1>6. FileTrue("global")' /\ ConfigTrue("global")'
  <2>1. CASE Flag
    <3>1. config' = [config EXCEPT !["global"]["flags"] = "default"] /\ files' = files
      BY <2>1 DEF Flag
    <3>2. \A f \in Fields("global") \ {"flags"} : config'["global"][f] = config["global"][f]
      BY <1>0, <3>1
    <3>3. QED
      BY <1>0, <1>5, <3>1, <3>2, FileStays, ConfigMade
  <2>2. CASE FlagOpen
    <3>1. files'["global"] = Opened(files["global"]) /\ config' = config
      BY <1>0, <2>2 DEF FlagOpen
    <3>2. QED
      BY <1>0, <1>3, <3>1, FileOpened, ConfigStays
  <2>3. CASE FlagWrite
    <3>1. files'["global"] = Written(files["global"], SaveText("global", config["global"]), 1) /\ config' = config
      BY <1>0, <2>3 DEF FlagWrite
    <3>2. QED
      BY <1>0, <1>3, <1>5, <3>1, FileWritten, ConfigStays
  <2>4. QED
    BY <2>1, <2>2, <2>3
<1>7. QED
  BY <1>1, <1>4, <1>6 DEF SettingsAt

LEMMA SettingsInvIs ==
    /\ SettingsInv <=> (\A m \in Modules : SettingsAt(m)) /\ DatabasesTrue /\ Excused
    /\ SettingsInv' <=> (\A m \in Modules : SettingsAt(m)') /\ DatabasesTrue' /\ Excused'
BY DEF SettingsInv, SettingsAt, DatabasesTrue, Excused, StartsUnlessTorn, ReadsWhatItWrites

LEMMA SettingsInit == Init => SettingsInv
<1> SUFFICES ASSUME Init PROVE SettingsInv
  OBVIOUS
<1>1. /\ stage = 1 /\ exited = FALSE /\ step.at = "load" /\ files \in StartFiles /\ first = files
      /\ config = [m \in Modules |-> Unset(m)] /\ db = [d \in Databases |-> "closed"]
  BY DEF Init, StartupInit
<1>2. DatabasesTrue /\ Excused
  BY <1>1 DEF DatabasesTrue, Excused
<1>3. ASSUME NEW m \in Modules PROVE FileTrue(m)
  <2>1. \/ files[m] = NoFile
        \/ files[m] = SavedFile(files[m].data, files[m].size) /\ Parses(files[m].data)
    BY <1>1, StartupAssumption
  <2>2. CASE files[m] = NoFile
    <3>1. files[m] = [exists |-> FALSE, data |-> Nothing, size |-> 0]
      BY <2>2 DEF NoFile
    <3>2. QED
      BY <1>1, <3>1 DEF FileTrue
  <2>3. CASE files[m] = SavedFile(files[m].data, files[m].size) /\ Parses(files[m].data)
    <3>1. files[m] = [exists |-> TRUE, data |-> files[m].data, size |-> files[m].size]
      BY <2>3 DEF SavedFile
    <3>2. files[m].exists
      BY <3>1
    <3>3. \A f \in Fields(m) : (IF f \in DOMAIN files[m].data.values THEN files[m].data.values[f] ELSE "zero") = Given(m)[f]
      BY <1>1, <3>2 DEF Given, IsExists
    <3>4. files[m] = [exists |-> files[m].exists, data |-> files[m].data, size |-> files[m].size]
      BY <3>1, <3>2
    <3>5. QED
      BY <2>3, <3>2, <3>3, <3>4 DEF FileTrue
  <2>4. QED
    BY <2>1, <2>2, <2>3
<1>4. ASSUME NEW m \in Modules PROVE ConfigTrue(m)
  <2>1. StageOf(m) \in 1 .. 12
    BY StageBounds
  <2>2. ~(stage > StageOf(m))
    BY <1>1, <2>1
  <2>3. \A f \in Fields(m) : config[m][f] = "zero"
    BY <1>1 DEF Unset
  <2>4. QED
    BY <1>1, <2>2, <2>3 DEF ConfigTrue
<1>5. QED
  BY <1>2, <1>3, <1>4, SettingsInvIs DEF SettingsAt

\* The rest leaves the settings alone.
LEMMA SettingsStay ==
    ASSUME MainTypes, SettingsInv, UNCHANGED <<config, files, first, db, faulty>>,
           \/ UNCHANGED <<stage, step>>
           \/ stage = 8 /\ stage' = stage + 1 /\ step'.at = "load"
    PROVE  (\A k \in Modules : SettingsAt(k)') /\ DatabasesTrue'
<1>1. stage \in 1 .. 13 /\ \A k \in Modules : FileTrue(k) /\ ConfigTrue(k) /\ (stage = 8 => stage # StageOf(k))
  BY StagesDiffer DEF MainTypes, SettingsInv
<1>2. \A k \in Modules : FileTrue(k)' /\ ConfigTrue(k)'
  <2>1. CASE UNCHANGED <<stage, step>>
    <3>1. ASSUME NEW k \in Modules PROVE ConfigTrue(k)'
      <4>1. stage' = stage /\ (stage # StageOf(k) \/ step'.at = "load" \/ (step.at # "load" /\ step'.then = step.then))
        BY <2>1
      <4>2. QED
        BY <1>1, <4>1, ConfigStays
    <3>2. QED
      BY <1>1, <3>1, FileStays
  <2>2. CASE stage = 8 /\ stage' = stage + 1 /\ step'.at = "load"
    BY <1>1, <2>2, FileStays, ConfigStays
  <2>3. QED
    BY <2>1, <2>2
<1>3. QED
  BY <1>2 DEF SettingsAt, DatabasesTrue, SettingsInv

\* The node comes back with nothing in memory.
LEMMA SettingsRestart ==
    ASSUME MainTypes, SettingsInv, Restarted
    PROVE  (\A k \in Modules : SettingsAt(k)') /\ DatabasesTrue' /\ Excused'
<1>1. /\ stage' = 1 /\ exited' = FALSE /\ step' = [at |-> "load", then |-> "load"] /\ UNCHANGED <<files, first, faulty>>
      /\ config' = [m \in Modules |-> Unset(m)] /\ db' = [d \in Databases |-> "closed"]
  BY DEF Restarted
<1>2. DatabasesTrue' /\ Excused'
  BY <1>1 DEF DatabasesTrue, Excused
<1>3. \A k \in Modules : FileTrue(k)'
  BY <1>1, FileStays DEF SettingsInv
<1>4. ASSUME NEW m \in Modules PROVE ConfigTrue(m)'
  <2>1. StageOf(m) \in 1 .. 12
    BY StageBounds
  <2>2. ~(stage' > StageOf(m)) /\ step'.at = "load"
    BY <1>1, <2>1
  <2>3. \A f \in Fields(m) : config'[m][f] = "zero"
    BY <1>1 DEF Unset
  <2>4. QED
    BY <2>2, <2>3 DEF ConfigTrue
<1>5. QED
  BY <1>2, <1>3, <1>4 DEF SettingsAt

\* A node that gave up does nothing but start again.
LEMMA ExitedIsQuiet ==
    ASSUME MainTypes, HandlerTypes, exited, [Next]_vars
    PROVE  Crash \/ UNCHANGED vars
<1>1. stage # 13 /\ \A h \in Handlers : pc[h] = "idle"
  BY AllIdle DEF MainTypes
<1>2. pc[Main] = "idle" /\ ~Serving
  BY StageAt DEF HandlerTypes
<1>3. ~Start /\ ~StartFails /\ ~UpdatePool
  BY <1>2 DEF Start, StartFails, UpdatePool, At
<1>4. ~Configure
  BY StartupAt DEF Configure
<1>5. \A h \in Handlers \cup {Main} : ~(SaveOpen(h) \/ SaveWrite(h) \/ SaveFails(h))
  BY <1>1, <1>2 DEF SaveOpen, SaveWrite, SaveFails
<1>6. \A h \in Handlers : ~Process(h)
  BY <1>1, ProcessTypes
<1>7. \A h \in Handlers, r \in Requests : ~Receive(h, r)
  BY <1>2 DEF Receive
<1>8. QED
  BY <1>3, <1>4, <1>5, <1>6, <1>7 DEF Next

LEMMA SettingsNext == TypeInv /\ SettingsInv /\ [Next]_vars => SettingsInv'
<1> SUFFICES ASSUME TypeInv, SettingsInv, [Next]_vars PROVE SettingsInv'
  OBVIOUS
<1>0. MainTypes /\ HandlerTypes /\ MainTypes'
  BY ShapeNext DEF TypeInv
<1> DEFINE Kept == (\A k \in Modules : SettingsAt(k)') /\ DatabasesTrue'
<1> SUFFICES Kept /\ Excused'
  BY SettingsInvIs
<1>1. CASE Crash
  BY <1>0, <1>1, SettingsRestart DEF Crash
<1>2. CASE Configure
  <2>1. ASSUME NEW m \in Modules, coldStart(m) \/ Load(m) \/ LoadLenient(m) PROVE Kept /\ Excused'
    BY <1>0, <2>1, SettingsLoad
  <2>2. ASSUME NEW m \in Modules, ConfigOpen(m) \/ ConfigWrite(m) \/ ConfigFails(m) PROVE Kept /\ Excused'
    BY <1>0, <2>2, SettingsSave
  <2>3. CASE GetNewBadgerStorage \/ GetNewBadgerHoldStorage
    BY <1>0, <2>3, SettingsConnect DEF GetNewBadgerStorage, GetNewBadgerHoldStorage, Databases
  <2>4. CASE Flag \/ FlagOpen \/ FlagWrite
    BY <1>0, <2>4, SettingsFlag
  <2>5. QED
    BY <1>2, <2>1, <2>2, <2>3, <2>4 DEF Configure, StartupStep
<1>3. CASE UNCHANGED vars
  <2>1. UNCHANGED <<config, files, first, db, faulty, stage, step, exited, file>>
    BY <1>3 DEF vars, startupVars
  <2>2. Excused'
    BY <2>1, SettingsInvIs DEF Excused, Torn, IsExists
  <2>3. QED
    BY <1>0, <2>1, <2>2, SettingsStay
<1>4. CASE ~Crash /\ ~Configure /\ ~UNCHANGED vars
  <2>1. ~exited
    BY <1>0, <1>4, ExitedIsQuiet
  <2>2. CASE Start
    <3>1. UNCHANGED <<config, files, first, db, faulty>> /\ stage = 8
      BY <1>0, <2>2, StartTypes DEF Start, inMain
    <3>2. exited' = exited /\ (UNCHANGED <<stage, step>> \/ (stage' = stage + 1 /\ step'.at = "load"))
      BY <2>2 DEF Start, Advance
    <3>3. QED
      BY <1>0, <2>1, <3>1, <3>2, SettingsStay DEF Excused
  <2>3. CASE StartFails
    <3>1. UNCHANGED <<config, files, first, db, faulty, file, stage, step>>
      BY <2>3 DEF StartFails, inMain, Exit
    <3>2. IsExists(file) /\ file.data = Nothing
      BY <2>3, NothingIsNothing DEF StartFails, subscriptionsLoad
    <3>3. Torn(file)'
      BY <3>1, <3>2 DEF Torn, IsExists
    <3>4. QED
      BY <1>0, <3>1, <3>3, SettingsStay DEF Excused
  <2>4. CASE SaveOpen(Main) \/ SaveWrite(Main) \/ SaveFails(Main)
    <3>1. UNCHANGED <<config, files, first, db, faulty>> /\ stage = 8
      BY <1>0, <2>4, MainSaves DEF SaveOpen, SaveWrite, SaveFails, inMain, startupVars
    <3>2. \/ UNCHANGED <<stage, step>> /\ (exited' = exited \/ faulty)
          \/ exited' = exited /\ stage' = stage + 1 /\ step'.at = "load"
      BY <2>4 DEF SaveOpen, SaveWrite, SaveFails, startupVars, Advance, Exit
    <3>3. QED
      BY <1>0, <2>1, <3>1, <3>2, SettingsStay DEF Excused
  <2>5. CASE \/ UpdatePool
             \/ \E h \in Handlers : \/ SaveOpen(h) \/ SaveWrite(h) \/ SaveFails(h)
                                    \/ Process(h) \/ \E r \in Requests : Receive(h, r)
    <3>1. UNCHANGED startupVars
      BY <1>0, <2>5, SaveTypes, ProcessFrame DEF UpdatePool, Receive
    <3>2. UNCHANGED <<config, files, first, db, faulty, stage, step, exited>>
      BY <3>1 DEF startupVars
    <3>3. QED
      BY <1>0, <2>1, <3>2, SettingsStay DEF Excused
  <2>6. QED
    BY <1>4, <2>2, <2>3, <2>4, <2>5 DEF Next
<1>5. QED
  BY <1>1, <1>2, <1>3, <1>4

LEMMA SettingsKeep == TypeInv /\ SettingsInv => SettingsKept
<1> SUFFICES ASSUME TypeInv, SettingsInv, Serving PROVE SettingsKept
  BY DEF SettingsKept
<1>1. stage = 13 /\ \A m \in Modules : stage > StageOf(m) /\ ConfigTrue(m)
  BY StageAt, StageBounds DEF TypeInv, SettingsInv
<1>2. \A m \in Strict : m \in Modules
  BY DEF Modules
<1>3. QED
  BY <1>1, <1>2 DEF SettingsKept, ConfigTrue

-----------------------------------------------------------------------------
(* Answers                                                                    *)

LEMMA ErrorsFit ==
    ASSUME NEW r
    PROVE  /\ ErrorFits(r, Empty) /\ ErrorFits(r, "SERVER_ERROR") /\ ErrorFits(r, "UNAUTHORIZED")
           /\ \A s, t : ErrorFits(r, AuthError(s, t))
           /\ r.method \in ReadOnly => ErrorFits(r, ReadError(r))
           /\ r.method = "addressSubscribe" => ErrorFits(r, SubscribeError(r))
           /\ r.method \in {"addressGetNew", "serviceConfig"} => ErrorFits(r, ServiceError(r))
           /\ r.method = "transferAssets" => ErrorFits(r, TransferError(r))
<1>1. ErrorFits(r, Empty) /\ ErrorFits(r, "SERVER_ERROR") /\ ErrorFits(r, "UNAUTHORIZED")
  BY EmptyIsOther DEF ErrorFits
<1>2. \A s, t : AuthError(s, t) \in {Empty, "UNAUTHORIZED"}
  BY DEF AuthError
<1>3. \A s, t : ErrorFits(r, AuthError(s, t))
  BY <1>1, <1>2
<1>4. ASSUME r.method \in ReadOnly PROVE ErrorFits(r, ReadError(r))
  <2>1. ReadError(r) # "METHOD_NOT_FOUND"
    BY EmptyIsOther DEF ReadError
  <2>2. ReadError(r) = "PARSE_ERROR" => Broken(r.svc)
    BY EmptyIsOther DEF ReadError
  <2>3. Broken(r.svc) => ParseParams(r.svc) = Nothing
    BY DEF Broken, ParseParams
  <2>4. QED
    BY <1>4, <2>1, <2>2, <2>3 DEF ErrorFits
<1>5. ASSUME r.method = "addressSubscribe" PROVE ErrorFits(r, SubscribeError(r))
  <2>1. SubscribeError(r) = "PARSE_ERROR" => ParseParams(r.svc) = Nothing
    BY EmptyIsOther DEF SubscribeError
  <2>2. SubscribeError(r) # "METHOD_NOT_FOUND"
    BY EmptyIsOther DEF SubscribeError
  <2>3. QED
    BY <1>5, <2>1, <2>2 DEF ErrorFits
<1>6. ASSUME r.method \in {"addressGetNew", "serviceConfig"} PROVE ErrorFits(r, ServiceError(r))
  <2>1. ServiceError(r) = "PARSE_ERROR" => ParseParams(r.svc) = Nothing
    BY EmptyIsOther DEF ServiceError
  <2>2. ServiceError(r) = "INVALID_REQUEST" => ParseParams(r.svc) = 0 /\ r.method = "addressGetNew"
    BY EmptyIsOther DEF ServiceError
  <2>3. ServiceError(r) # "METHOD_NOT_FOUND"
    BY EmptyIsOther DEF ServiceError
  <2>4. QED
    BY <1>6, <2>1, <2>2, <2>3 DEF ErrorFits
<1>7. ASSUME r.method = "transferAssets" PROVE ErrorFits(r, TransferError(r))
  <2>1. TransferError(r) = "PARSE_ERROR" => ParseParams(r.svc) = Nothing
    BY EmptyIsOther DEF TransferError
  <2>2. TransferError(r) # "METHOD_NOT_FOUND"
    BY EmptyIsOther DEF TransferError
  <2>3. QED
    BY <1>7, <2>1, <2>2 DEF ErrorFits
<1>8. QED
  BY <1>1, <1>3, <1>4, <1>5, <1>6, <1>7

\* The three ways a step of a handler ends: an error, a result, and going on.
LEMMA AnswerError ==
    ASSUME HandlerTypes, NEW h \in Handlers, AnswerAt(h), pc[h] # "encode", UNCHANGED req,
           NEW code, SetError(h, code), code # Empty, ErrorFits(req[h], code)
    PROVE  AnswerAt(h)'
<1>1. resp[h] = NoResponse /\ h \in Everyone
  BY DEF AnswerAt, Everyone
<1>2. resp'[h] = [error |-> code, result |-> FALSE] /\ pc'[h] = "encode"
  BY <1>1 DEF SetError, Goto, NoResponse, HandlerTypes
<1>3. resp'[h].error = code /\ resp'[h].result = FALSE
  BY <1>2
<1>4. ErrorFits(req[h], resp[h].error)'
  BY <1>3 DEF ErrorFits
<1>5. QED
  BY <1>2, <1>3, <1>4 DEF AnswerAt

LEMMA AnswerResult ==
    ASSUME HandlerTypes, NEW h \in Handlers, AnswerAt(h), pc[h] # "encode", UNCHANGED req,
           NEW fits \in BOOLEAN, SetResult(h, fits), fits \/ Unprintable(req[h]),
           req[h].method = "transferAssets" => loc'[h].sent \in sent',
           req[h].method = "addressGetNew" =>
               \E e \in effects' : e.service = ParseParams(req[h].svc) /\ e.token = req[h].token /\ e.what = "getNew"
    PROVE  AnswerAt(h)'
<1>1. resp[h] = NoResponse /\ h \in Everyone
  BY DEF AnswerAt, Everyone
<1>2. resp'[h] = [error |-> Empty, result |-> fits] /\ pc'[h] = "encode"
  BY <1>1 DEF SetResult, Goto, NoResponse, HandlerTypes
<1>3. resp'[h].error = Empty /\ resp'[h].result = fits
  BY <1>2
<1>4. ErrorFits(req[h], resp[h].error)'
  BY <1>3, ErrorsFit DEF ErrorFits
<1>5. QED
  BY <1>2, <1>3, <1>4 DEF AnswerAt

LEMMA AnswerWaits ==
    ASSUME NEW h \in Handlers, pc'[h] # "encode", resp'[h] = NoResponse
    PROVE  AnswerAt(h)'
BY DEF AnswerAt, NoResponse

LEMMA AnswerStays ==
    ASSUME NEW h \in Handlers, AnswerAt(h), sent \subseteq sent', effects \subseteq effects',
           pc'[h] = pc[h], req'[h] = req[h], resp'[h] = resp[h], loc'[h] = loc[h]
    PROVE  AnswerAt(h)'
<1>1. ErrorFits(req[h], resp[h].error) => ErrorFits(req[h], resp[h].error)'
  BY DEF ErrorFits
<1>2. QED
  BY <1>1 DEF AnswerAt, NoResponse

LEMMA ProcessAnswers ==
    ASSUME TypeInv, HandlerInv, NEW h \in Handlers, AnswerAt(h), Process(h)
    PROVE  AnswerAt(h)'
<1>0. HandlerTypes /\ h \in Everyone /\ DOMAIN pc = Everyone /\ DOMAIN resp = Handlers
  BY DEF TypeInv, HandlerTypes, Everyone
<1>1. MethodAt(h) /\ EntitledAt(h) /\ CheckedAt(h)
  BY DEF HandlerInv
<1>2. ErrorFits(req[h], "SERVER_ERROR") /\ Empty # "SERVER_ERROR"
  BY ErrorsFit, EmptyIsOther
<1>e. ASSUME pc[h] # "encode", UNCHANGED req, NEW code, SetError(h, code), code # Empty, ErrorFits(req[h], code)
      PROVE  AnswerAt(h)'
  BY <1>0, <1>e, AnswerError
<1>r. ASSUME pc[h] # "encode", UNCHANGED req, SetResult(h, TRUE),
             req[h].method \notin {"transferAssets", "addressGetNew"}
      PROVE  AnswerAt(h)'
  BY <1>0, <1>r, AnswerResult
<1>g. ASSUME pc[h] # "encode", NEW where, Goto(h, where), where # "encode", resp'[h] = resp[h] PROVE AnswerAt(h)'
  BY <1>0, <1>g, AnswerWaits DEF Goto, AnswerAt
<1>3. CASE NotRpc(h) \/ Encode(h)
  <2>1. pc'[h] = "idle" /\ resp'[h] = NoResponse
    BY <1>0, <1>3 DEF NotRpc, Encode, Reply, Goto
  <2>2. QED
    BY <2>1, AnswerWaits
<1>4. CASE Route(h)
  <2>1. pc[h] # "encode" /\ UNCHANGED req
    BY <1>4 DEF Route
  <2>2. CASE req[h].method = Empty /\ SetError(h, "INVALID_REQUEST")
    <3>1. ErrorFits(req[h], "INVALID_REQUEST")
      BY <2>2 DEF ErrorFits
    <3>2. QED
      BY <1>e, <2>1, <2>2, <3>1, EmptyIsOther
  <2>3. CASE SetError(h, "SERVER_ERROR")
    BY <1>2, <1>e, <2>1, <2>3
  <2>4. CASE SetError(h, "METHOD_NOT_FOUND") /\ req[h].method \notin Secured \cup Open
    <3>1. ErrorFits(req[h], "METHOD_NOT_FOUND")
      BY <2>4 DEF ErrorFits
    <3>2. QED
      BY <1>e, <2>1, <2>4, <3>1, EmptyIsOther
  <2>5. CASE (Goto(h, "authorise") \/ Goto(h, "process")) /\ UNCHANGED resp
    BY <1>g, <2>1, <2>5
  <2>6. QED
    BY <1>4, <2>2, <2>3, <2>4, <2>5 DEF Route
<1>5. CASE Authorise(h)
  <2> DEFINE id == GetParamInt(req[h].svc)
  <2>1. pc[h] = "authorise" /\ UNCHANGED req /\ req[h].method \in Secured
    BY <1>1, <1>5 DEF Authorise, MethodAt
  <2>2. CASE id = Nothing /\ SetError(h, "INVALID_REQUEST")
    <3>1. ErrorFits(req[h], "INVALID_REQUEST")
      BY <2>1, <2>2 DEF ErrorFits
    <3>2. QED
      BY <1>e, <2>1, <2>2, <3>1, EmptyIsOther
  <2>3. CASE SetError(h, "UNAUTHORIZED")
    BY <1>e, <2>1, <2>3, ErrorsFit, EmptyIsOther
  <2>4. CASE /\ AuthError(services[id], req[h].token) # Empty
             /\ SetError(h, AuthError(services[id], req[h].token))
    BY <1>e, <2>1, <2>4, ErrorsFit
  <2>5. CASE Goto(h, "process") /\ UNCHANGED resp
    BY <1>g, <2>1, <2>5
  <2>6. QED
    BY <1>5, <2>2, <2>3, <2>4, <2>5 DEF Authorise
<1>6. CASE Read(h)
  <2>1. pc[h] = "process" /\ UNCHANGED req /\ req[h].method \in ReadOnly
    BY <1>6 DEF Read
  <2>2. CASE ReadError(req[h]) # Empty /\ SetError(h, ReadError(req[h]))
    BY <1>e, <2>1, <2>2, ErrorsFit
  <2>3. CASE SetError(h, "SERVER_ERROR")
    BY <1>2, <1>e, <2>1, <2>3
  <2>4. ASSUME NEW fits \in {TRUE, ~Unprintable(req[h])}, SetResult(h, fits) PROVE AnswerAt(h)'
    <3>1. Unprintable(req[h]) \in BOOLEAN
      BY DEF Unprintable
    <3>2. fits \in BOOLEAN /\ (fits \/ Unprintable(req[h]))
      BY <2>4, <3>1
    <3>3. req[h].method # "transferAssets" /\ req[h].method # "addressGetNew"
      BY <2>1 DEF ReadOnly
    <3>4. QED
      BY <1>0, <2>1, <2>4, <3>2, <3>3, AnswerResult
  <2>5. QED
    BY <1>6, <2>2, <2>3, <2>4 DEF Read
<1>7. CASE ServiceRegister(h)
  BY <1>2, <1>e, <1>7 DEF ServiceRegister
<1>8. CASE AddressSubscribe(h)
  <2>1. pc[h] = "process" /\ UNCHANGED req /\ req[h].method = "addressSubscribe"
    BY <1>8 DEF AddressSubscribe
  <2>2. CASE SubscribeError(req[h]) # Empty /\ SetError(h, SubscribeError(req[h]))
    BY <1>e, <2>1, <2>2, ErrorsFit
  <2>3. CASE SetResult(h, TRUE)
    BY <1>r, <2>1, <2>3
  <2>4. CASE Goto(h, "insert") /\ UNCHANGED resp
    BY <1>g, <2>1, <2>4
  <2>5. QED
    BY <1>8, <2>2, <2>3, <2>4 DEF AddressSubscribe
<1>9. CASE AddAddress(h)
  <2>1. pc[h] = "insert" /\ UNCHANGED req /\ SetResult(h, TRUE) /\ req[h].method = "addressSubscribe"
    BY <1>1, <1>9 DEF AddAddress, MethodAt
  <2>2. QED
    BY <1>r, <2>1
<1>10. CASE AddressGetNew(h)
  <2>1. pc[h] = "process" /\ UNCHANGED req /\ req[h].method = "addressGetNew"
    BY <1>10 DEF AddressGetNew
  <2>2. CASE ServiceError(req[h]) # Empty /\ SetError(h, ServiceError(req[h]))
    BY <1>e, <2>1, <2>2, ErrorsFit
  <2>3. CASE SetError(h, "SERVER_ERROR")
    BY <1>2, <1>e, <2>1, <2>3
  <2>4. ASSUME NEW a, effects' = effects \cup {[service |-> ParseParams(req[h].svc), token |-> req[h].token, svc |-> req[h].svc,
                                                what |-> "getNew", addr |-> a]},
               SetResult(h, TRUE)
        PROVE  AnswerAt(h)'
    <3> DEFINE e == [service |-> ParseParams(req[h].svc), token |-> req[h].token, svc |-> req[h].svc, what |-> "getNew", addr |-> a]
    <3>1. e \in effects' /\ e.service = ParseParams(req[h].svc) /\ e.token = req[h].token /\ e.what = "getNew"
      BY <2>4
    <3> HIDE DEF e
    <3>2. QED
      BY <1>0, <2>1, <2>4, <3>1, AnswerResult
  <2>5. QED
    BY <1>10, <2>2, <2>3, <2>4 DEF AddressGetNew
<1>11. CASE ServiceConfig(h)
  <2>1. pc[h] = "process" /\ UNCHANGED req /\ req[h].method = "serviceConfig"
    BY <1>11 DEF ServiceConfig
  <2>2. CASE ServiceError(req[h]) # Empty /\ SetError(h, ServiceError(req[h]))
    BY <1>e, <2>1, <2>2, ErrorsFit
  <2>3. CASE Goto(h, "edit") /\ UNCHANGED resp
    BY <1>g, <2>1, <2>3
  <2>4. QED
    BY <1>11, <2>2, <2>3 DEF ServiceConfig
<1>12. CASE SubscriptionEdit(h) \/ subscriptionsSave(h)
  BY <1>g, <1>12 DEF SubscriptionEdit, subscriptionsSave
<1>13. CASE TransferAssets(h)
  <2>1. pc[h] = "process" /\ UNCHANGED req /\ req[h].method = "transferAssets"
    BY <1>13 DEF TransferAssets
  <2>2. CASE TransferError(req[h]) # Empty /\ SetError(h, TransferError(req[h]))
    BY <1>e, <2>1, <2>2, ErrorsFit
  <2>3. CASE SetError(h, "INVALID_REQUEST")
    <3>1. ErrorFits(req[h], "INVALID_REQUEST")
      BY <2>1 DEF ErrorFits
    <3>2. QED
      BY <1>e, <2>1, <2>3, <3>1, EmptyIsOther
  <2>4. CASE Goto(h, "transfer") /\ UNCHANGED resp
    BY <1>g, <2>1, <2>4
  <2>5. QED
    BY <1>13, <2>2, <2>3, <2>4 DEF TransferAssets
<1>14. CASE CallClient(h)
  <2>1. pc[h] = "transfer" /\ UNCHANGED req
    BY <1>14 DEF CallClient
  <2>2. CASE SetError(h, "SERVER_ERROR")
    BY <1>2, <1>e, <2>1, <2>2
  <2>3. CASE Goto(h, "info") /\ UNCHANGED resp
    BY <1>g, <2>1, <2>3
  <2>4. QED
    BY <1>14, <2>2, <2>3 DEF CallClient
<1>15. CASE TransferInfo(h)
  <2>1. pc[h] = "info" /\ UNCHANGED <<req, loc, sent>> /\ req[h].method = "transferAssets"
    BY <1>1, <1>15 DEF TransferInfo, histories, MethodAt
  <2>2. PICK found \in BOOLEAN :
            SetResult(h, found /\ Marshals(req[h].formatted, DecimalsOf(req[h].symbol)))
    BY <1>15 DEF TransferInfo
  <2> DEFINE fits == found /\ Marshals(req[h].formatted, DecimalsOf(req[h].symbol))
  <2>3. fits \in BOOLEAN /\ SetResult(h, fits)
    BY <2>2
  <2> HIDE DEF fits
  <2>4. loc'[h].sent \in sent' /\ Unprintable(req[h])
    BY <1>1, <2>1 DEF CheckedAt, Unprintable
  <2>5. QED
    BY <1>0, <2>1, <2>3, <2>4, AnswerResult
<1>16. QED
  BY <1>3, <1>4, <1>5, <1>6, <1>7, <1>8, <1>9, <1>10, <1>11, <1>12, <1>13, <1>14, <1>15 DEF Process

LEMMA AnswerInit == Init => AnswerInv
<1> SUFFICES ASSUME Init, NEW h \in Handlers PROVE AnswerAt(h)
  BY DEF AnswerInv
<1>1. pc[h] = "idle" /\ resp[h] = NoResponse
  BY DEF Init
<1>2. QED
  BY <1>1 DEF AnswerAt

LEMMA AnswerNext == TypeInv /\ HandlerInv /\ AnswerInv /\ [Next]_vars => AnswerInv'
<1> SUFFICES ASSUME TypeInv, HandlerInv, AnswerInv, [Next]_vars, NEW k \in Handlers PROVE AnswerAt(k)'
  BY DEF AnswerInv
<1>0. MainTypes /\ HandlerTypes /\ k \in Everyone /\ k # Main /\ AnswerAt(k)
      /\ sent \subseteq sent' /\ effects \subseteq effects'
  BY MainIsNoHandler, HistoryGrows DEF TypeInv, Everyone, AnswerInv
<1>1. CASE Start
  <2>1. UNCHANGED <<req, resp>> /\ pc'[k] = pc[k] /\ loc'[k] = loc[k]
    BY <1>0, <1>1 DEF Start, HandlerTypes
  <2>2. QED
    BY <1>0, <2>1, AnswerStays
<1>2. CASE Crash
  <2>1. pc'[k] = "idle" /\ resp'[k] = NoResponse
    BY <1>0, <1>2, CrashTypes
  <2>2. QED
    BY <2>1, AnswerWaits
<1>3. CASE SaveOpen(Main) \/ SaveWrite(Main) \/ SaveFails(Main)
  BY <1>0, <1>3, MainSaves, AnswerStays
<1>4. CASE StartFails \/ Configure \/ UpdatePool \/ UNCHANGED vars
  BY <1>0, <1>4, QuietFrame, AnswerStays
<1>5. ASSUME NEW h \in Handlers, SaveOpen(h) \/ SaveWrite(h) \/ SaveFails(h) PROVE AnswerAt(k)'
  <2>1. CASE h # k
    BY <1>0, <1>5, <2>1, SaveTypes, AnswerStays DEF Alone
  <2>2. CASE h = k
    <3>1. Saving(k) /\ pc[k] # "encode" /\ UNCHANGED req /\ resp[k] = [error |-> Empty, result |-> FALSE]
      BY <1>0, <1>5, <2>2, SaveTypes DEF SaveOpen, SaveWrite, SaveFails, Saving, AnswerAt, NoResponse
    <3>2. req[k].method = "serviceConfig"
      BY <3>1 DEF HandlerInv, MethodAt, Saving
    <3>3. CASE SaveOpen(k)
      BY <1>0, <3>1, <3>3, SaveTypes, AnswerWaits DEF NoResponse
    <3>4. CASE SaveWrite(k)
      <4>0. resp[k].error = Empty
        BY <3>1
      <4>1. pc'[k] = "encode" /\ resp'[k] = [error |-> Empty, result |-> TRUE]
        BY <1>0, <3>4, <4>0, SaveTypes
      <4>2. ErrorFits(req[k], resp[k].error)'
        BY <3>1, <4>1, ErrorsFit DEF ErrorFits
      <4>3. QED
        BY <3>1, <3>2, <4>1, <4>2 DEF AnswerAt
    <3>5. CASE SaveFails(k)
      <4>0. resp[k].result = FALSE
        BY <3>1
      <4>1. pc'[k] = "encode" /\ resp'[k] = [error |-> "SERVER_ERROR", result |-> FALSE]
        BY <1>0, <3>5, <4>0, SaveTypes
      <4>2. ErrorFits(req[k], resp[k].error)'
        BY <4>1 DEF ErrorFits
      <4>3. QED
        BY <4>1, <4>2, EmptyIsOther DEF AnswerAt
    <3>6. QED
      BY <1>5, <2>2, <3>3, <3>4, <3>5
  <2>3. QED
    BY <2>1, <2>2
<1>6. ASSUME NEW h \in Handlers, Process(h) PROVE AnswerAt(k)'
  <2>1. CASE h = k
    BY <1>0, <1>6, <2>1, ProcessAnswers
  <2>2. CASE h # k
    BY <1>0, <1>6, <2>2, ProcessTypes, AnswerStays DEF Alone
  <2>3. QED
    BY <2>1, <2>2
<1>7. ASSUME NEW h \in Handlers, NEW r \in Requests, Receive(h, r) PROVE AnswerAt(k)'
  <2>1. CASE h = k
    BY <1>0, <1>7, <2>1, ReceiveTypes, AnswerWaits
  <2>2. CASE h # k
    BY <1>0, <1>7, <2>2, ReceiveTypes, AnswerStays DEF Alone
  <2>3. QED
    BY <2>1, <2>2
<1>8. QED
  BY <1>1, <1>2, <1>3, <1>4, <1>5, <1>6, <1>7 DEF Next

\* The requests the library makes.
LEMMA LibraryShape ==
    ASSUME NEW c \in Clients, NEW r \in LibraryRequests(c)
    PROVE  /\ r.token = c.token
           /\ \/ r.method = "addressGetNew" /\ r.svc = ServiceId(c)
              \/ /\ r.method = "addressGetBalance" /\ r.svc = Absent /\ r.addr \in Addresses
                 /\ r.symbol \in {NativeCoin, Empty}
              \/ r.method \in {"getNodeInfo", "transferInfo"} /\ r.svc = Absent
              \/ r.method \in {"transferInfoForAddress", "transferAssets", "transferGetEstimatedFee"} /\ r.svc = Absent
<1> DEFINE a == CHOOSE x \in Addresses : TRUE
<1>1. a \in Addresses
  BY UniClientAssumption
<1> HIDE DEF a
<1>2. \/ r = LibAddressGetNew(c, FALSE) \/ r = BalanceGetForAddress(c, a, NativeCoin)
      \/ r = BalanceGetForAddressAllAssets(c, a) \/ r = GetNodeInfo(c) \/ r = LibTransferInfo(c)
      \/ r = TransfersByAddress(c, a) \/ r = TransferAsset(c, a, a, NativeCoin, TRUE)
      \/ r = TransferGetEstimatedFee(c, a, a, NativeCoin, TRUE)
  BY DEF LibraryRequests, a
<1>3. CASE r = LibAddressGetNew(c, FALSE)
  BY <1>3 DEF LibAddressGetNew, NewRequest, Transport
<1>4. CASE r = BalanceGetForAddress(c, a, NativeCoin)
  BY <1>1, <1>4 DEF BalanceGetForAddress, NewRequest, Transport
<1>5. CASE r = BalanceGetForAddressAllAssets(c, a)
  BY <1>1, <1>5 DEF BalanceGetForAddressAllAssets, NewRequest, Transport
<1>6. CASE r = GetNodeInfo(c) \/ r = LibTransferInfo(c)
  BY <1>6 DEF GetNodeInfo, LibTransferInfo, NewRequest, Transport
<1>7. CASE r = TransfersByAddress(c, a)
  BY <1>7 DEF TransfersByAddress, NewRequest, Transport
<1>8. CASE r = TransferAsset(c, a, a, NativeCoin, TRUE) \/ r = TransferGetEstimatedFee(c, a, a, NativeCoin, TRUE)
  BY <1>8 DEF TransferAsset, TransferGetEstimatedFee, transferAssetsRequest, NewRequest, Transport
<1>9. QED
  BY <1>2, <1>3, <1>4, <1>5, <1>6, <1>7, <1>8

\* How the server reads the library's serviceId.
LEMMA LibraryParams ==
    ASSUME NEW c \in Clients
    PROVE  /\ ParseParams(Absent) = 0 /\ GetParamInt(Absent) = Nothing
           /\ ParseParams(ServiceId(c)) = c.serviceId /\ GetParamInt(ServiceId(c)) = c.serviceId
           /\ c.serviceId \in Int \ {0} /\ c.serviceId # Nothing /\ 0 # Nothing
           /\ ServiceId(c) # Absent
<1>1. c.serviceId \in Int \ {0} /\ c.serviceId # Nothing /\ 0 # Nothing
  BY UniClientAssumption, NothingIsNothing
<1>2. ParseParams(Absent) = 0 /\ GetParamInt(Absent) = Nothing
  BY DEF Absent, ParseParams, GetParamInt, Named, Numbers
<1> DEFINE svc == ServiceId(c)
<1>3. /\ DOMAIN svc = {1} /\ svc[1].exact = TRUE /\ svc[1].kind = "number"
      /\ svc[1].n = c.serviceId /\ svc[1].float = c.serviceId
  BY DEF ServiceId
<1>4. svc # Absent
  BY DEF ServiceId, Absent
<1> HIDE DEF svc
<1>5. Max({1}) = 1
  <2>1. {1} \subseteq 1 .. 1 /\ {1} # {}
    OBVIOUS
  <2>2. Max({1}) \in {1}
    BY <2>1, MaxIsThere
  <2>3. QED
    BY <2>2
<1>6. Named(svc) = {1} /\ Numbers(svc, {"number"}) = {1} /\ ~Broken(svc)
  BY <1>3 DEF Named, Numbers, Broken
<1>7. GetParamInt(svc) = c.serviceId
  BY <1>3, <1>5, <1>6 DEF GetParamInt
<1>8. ParseParams(svc) = c.serviceId
  BY <1>3, <1>5, <1>6 DEF ParseParams
<1>9. QED
  BY <1>1, <1>2, <1>4, <1>7, <1>8 DEF svc

LEMMA LibraryAnswers == TypeInv /\ HandlerInv /\ AnswerInv => LibraryUnderstood
<1> SUFFICES ASSUME TypeInv, HandlerInv, AnswerInv, NEW h \in Handlers, NEW c \in Clients,
                    pc[h] = "encode", req[h] \in LibraryRequests(c)
             PROVE  LET unnamed == req[h].method \in Secured /\ req[h].svc = Absent
                    IN  /\ resp[h].error \notin {"METHOD_NOT_FOUND", "PARSE_ERROR"}
                        /\ resp[h].error = "INVALID_REQUEST" => unnamed
                        /\ rpcCall(resp[h]) = Empty => ~unnamed
                        /\ (rpcCall(resp[h]) = Empty /\ req[h].method = "addressGetNew") =>
                               \E e \in effects : e.service = c.serviceId /\ e.token = c.token /\ e.what = "getNew"
  BY DEF LibraryUnderstood
<1> DEFINE r == req[h]
           unnamed == r.method \in Secured /\ r.svc = Absent
<1>1. AnswerAt(h) /\ EntitledAt(h) /\ ErrorFits(r, resp[h].error)
  BY DEF AnswerInv, HandlerInv, AnswerAt
<1>2. r.method \in Secured \cup Open /\ ParseParams(r.svc) # Nothing
  BY LibraryShape, LibraryParams DEF Secured, Open
<1>3. resp[h].error \notin {"METHOD_NOT_FOUND", "PARSE_ERROR"}
  BY <1>1, <1>2 DEF ErrorFits
<1>4. ASSUME resp[h].error = "INVALID_REQUEST" PROVE unnamed
  <2>1. CASE r.method = "addressGetNew" /\ r.svc = ServiceId(c)
    <3>1. r.method \notin {Empty, "addressSubscribe", "transferAssets"} /\ r.method \notin ReadOnly
      BY <2>1, EmptyIsNoMethod DEF Secured, ReadOnly
    <3>2. FALSE
      BY <1>1, <1>4, <2>1, <3>1, LibraryParams DEF ErrorFits
    <3>3. QED
      BY <3>2
  <2>2. CASE r.method = "addressGetBalance" /\ r.svc = Absent /\ r.addr \in Addresses /\ r.symbol \in {NativeCoin, Empty}
    <3>1. r.method \notin {Empty, "addressSubscribe", "transferAssets", "addressGetNew"} /\ r.method \notin Secured
      BY <2>2, EmptyIsNoMethod DEF Secured, Open
    <3>2. \A s \in BalanceAssets(r) : KnownAsset(s)
      BY <2>2 DEF BalanceAssets, KnownAsset
    <3>3. r.addr # "bad"
      BY <2>2, TextsGiven
    <3>4. ReadError(r) # "INVALID_REQUEST"
      BY <2>2, <3>2, <3>3, EmptyIsOther DEF ReadError
    <3>5. QED
      BY <1>1, <1>4, <3>1, <3>4 DEF ErrorFits
  <2>3. CASE r.method \in {"getNodeInfo", "transferInfo"}
    <3>1. r.method \notin {Empty, "addressSubscribe", "transferAssets", "addressGetNew"} /\ r.method \notin Secured
      BY <2>3, EmptyIsNoMethod DEF Secured, Open
    <3>2. ReadError(r) # "INVALID_REQUEST"
      BY <2>3, EmptyIsOther DEF ReadError
    <3>3. QED
      BY <1>1, <1>4, <3>1, <3>2 DEF ErrorFits
  <2>4. CASE r.method \in {"transferInfoForAddress", "transferAssets", "transferGetEstimatedFee"} /\ r.svc = Absent
    BY <2>4 DEF Secured
  <2>5. QED
    BY <2>1, <2>2, <2>3, <2>4, LibraryShape
<1>5. ASSUME rpcCall(resp[h]) = Empty PROVE resp[h].error = Empty /\ resp[h].result
  BY <1>5, EmptyIsNoMethod DEF rpcCall, ParseResult
<1>6. ASSUME rpcCall(resp[h]) = Empty, unnamed PROVE FALSE
  <2>1. Entitled(r)
    BY <1>1, <1>5, <1>6 DEF EntitledAt
  <2>2. QED
    BY <1>6, <2>1, LibraryParams DEF Entitled
<1>7. ASSUME rpcCall(resp[h]) = Empty, r.method = "addressGetNew"
      PROVE  \E e \in effects : e.service = c.serviceId /\ e.token = c.token /\ e.what = "getNew"
  <2>1. r.svc = ServiceId(c) /\ r.token = c.token
    BY <1>7, LibraryShape
  <2>2. PICK e \in effects : e.service = ParseParams(r.svc) /\ e.token = r.token /\ e.what = "getNew"
    BY <1>1, <1>5, <1>7 DEF AnswerAt
  <2>3. QED
    BY <2>1, <2>2, LibraryParams
<1>8. QED
  BY <1>3, <1>4, <1>6, <1>7

LEMMA AnswersAreTrue == AnswerInv => AnswersTruthful
BY DEF AnswerInv, AnswerAt, AnswersTruthful

-----------------------------------------------------------------------------
(* The theorems                                                               *)

LEMMA InvInit == Init => IInv
<1>1. Init => EffectsAuthorised /\ SpentBySubscriber
  BY DEF Init, EffectsAuthorised, SpentBySubscriber
<1>2. Init => KeyOpensAddress
  BY PoolGiven DEF Init, KeyOpensAddress, AddressRecord
<1>3. QED
  BY <1>1, <1>2, TypeInvInit, HandlerInvInit, SpendInvInit, ServedInit, AnswerInit, SettingsInit DEF IInv

LEMMA InvNext == IInv /\ [Next]_vars => IInv'
<1> SUFFICES ASSUME IInv, [Next]_vars PROVE IInv'
  OBVIOUS
<1>1. TypeInv' /\ HandlerInv'
  BY TypeInvNext, HandlerInvNext DEF IInv
<1>2. EffectsAuthorised' /\ SpendInv' /\ SpentBySubscriber'
  BY AuthorisedNext, SpendInvNext, SpentNext DEF IInv
<1>3. KeyOpensAddress'
  BY <1>1, KeyOpensNext DEF IInv, TypeInv
<1>4. ServedInv' /\ AnswerInv' /\ SettingsInv'
  BY ServedNext, AnswerNext, SettingsNext DEF IInv
<1>5. QED
  BY <1>1, <1>2, <1>3, <1>4 DEF IInv

LEMMA InvHolds == Spec => []IInv
BY InvInit, InvNext, PTL DEF Spec

\* The stages of main, the registry and its file, the pool and its index, and the handlers keep
\* their types, however requests, saves, starts and crashes interleave (main.go, endpoint/*).
THEOREM TypeCorrect == Spec => []TypeOK
<1>1. IInv => TypeOK
  BY TypeInvTypes DEF IInv
<1>2. QED
  BY <1>1, InvHolds, PTL

\* Nothing is done for a service without its token, a transfer without a key spends an address
\* of the service that asks, and a key is only used for the address it opens: for any number of
\* handlers and requests (RegisterSecuredProcessor, rpcProcessTransferAssets, AddAddressFill).
THEOREM AuthorisedOnly == Spec => []OnlyAuthorised
<1>1. IInv => OnlyAuthorised
  BY DEF IInv, OnlyAuthorised
<1>2. QED
  BY <1>1, InvHolds, PTL

\* A node that serves knows every service it has worked for and has the settings it was given,
\* and only a torn file, a disk or a database keeps it from starting, after any number of
\* crashes inside a save (subscriptionsLoad, Config.Load, BinFileStorage.Save).
THEOREM RestartsAreSafe == Spec => []RestartsKeep
<1>1. IInv => RestartsKeep
  BY ServedKeeps, SettingsKeep DEF IInv, RestartsKeep, SettingsInv
<1>2. QED
  BY <1>1, InvHolds, PTL

\* An answer is an error or a result and true of what the node did, and the client library takes
\* it for what it is, for any number of clients (RouteRpcRequest, uniclient/transport.go).
THEOREM AnswersAreUnderstood == Spec => []AnswersUnderstood
<1>1. IInv => AnswersUnderstood
  BY AnswersAreTrue, LibraryAnswers DEF IInv, AnswersUnderstood
<1>2. QED
  BY <1>1, InvHolds, PTL
=============================================================================
