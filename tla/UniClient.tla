----------------------------- MODULE UniClient -----------------------------
(* Package uniclient, the library for services that call the endpoint: the    *)
(* request each of its functions builds and what it makes of the answer.      *)
EXTENDS Endpoint

CONSTANT Clients    \* [serviceId, token]: WithServiceId and the headers of WithHttpTransport

ASSUME UniClientAssumption ==
    /\ \A c \in Clients : c.serviceId \in Int \ {0}
    /\ Addresses # {}

Absent == << >>
ServiceId(c) ==
    <<[exact |-> TRUE, kind |-> "number", n |-> c.serviceId, float |-> c.serviceId, base0 |-> Nothing]>>

\* httpTransport.Call: always a POST to the address given, with the headers of the client
Transport(c) == [path |-> "/rpc", verb |-> "POST", token |-> c.token]

NewRequest(c, method, svc) ==
    [path |-> Transport(c).path, verb |-> Transport(c).verb, method |-> method, svc |-> svc,
     token |-> Transport(c).token,
     addr |-> Empty, key |-> Empty, words |-> Empty, to |-> Empty, amount |-> "ok", symbol |-> Empty,
     formatted |-> FALSE, force |-> FALSE, watchOnly |-> FALSE, config |-> 1]

\* AddressGetNewFullInfo as well, which asks for the key in the answer
LibAddressGetNew(c, watchOnly) ==
    [NewRequest(c, "addressGetNew", ServiceId(c)) EXCEPT !.watchOnly = watchOnly]

BalanceGetForAddress(c, address, symbol) ==
    [NewRequest(c, "addressGetBalance", Absent) EXCEPT !.addr = address, !.symbol = symbol, !.formatted = TRUE]

BalanceGetForAddressAllAssets(c, address) ==
    [NewRequest(c, "addressGetBalance", Absent) EXCEPT !.addr = address, !.formatted = TRUE]

\* without parameters
GetNodeInfo(c) == NewRequest(c, "getNodeInfo", Absent)

LibTransferInfo(c) == NewRequest(c, "transferInfo", Absent)

TransfersByAddress(c, address) ==
    [NewRequest(c, "transferInfoForAddress", Absent) EXCEPT !.addr = address]

\* transferAssetsRequest has a ServiceID that nobody sets and that is left out when zero
transferAssetsRequest(c, method, from, to, symbol, formatted) ==
    [NewRequest(c, method, Absent) EXCEPT !.addr = from, !.to = to, !.symbol = symbol, !.formatted = formatted]

TransferAsset(c, from, to, symbol, formatted) ==
    transferAssetsRequest(c, "transferAssets", from, to, symbol, formatted)

TransferGetEstimatedFee(c, from, to, symbol, formatted) ==
    transferAssetsRequest(c, "transferGetEstimatedFee", from, to, symbol, formatted)

\* json.Unmarshal of a result that is not there
ParseResult(answer) == IF answer.result THEN Empty ELSE "unexpected end of JSON input"

rpcCall(answer) == IF answer.error # Empty THEN answer.error ELSE ParseResult(answer)

LibraryRequests(c) ==
    LET a == CHOOSE x \in Addresses : TRUE
    IN  {LibAddressGetNew(c, FALSE), BalanceGetForAddress(c, a, NativeCoin),
         BalanceGetForAddressAllAssets(c, a), GetNodeInfo(c), LibTransferInfo(c), TransfersByAddress(c, a),
         TransferAsset(c, a, a, NativeCoin, TRUE), TransferGetEstimatedFee(c, a, a, NativeCoin, TRUE)}

\* The server understands the library: it knows every method and reads every parameter, so
\* that a call is refused for its form only if it is one of the three that need a service and
\* do not say which, and these never succeed. An address that the library returns was marked
\* for the client's service, under the client's token (InitProcessors, uniclient/methods_*).
LibraryUnderstood ==
    \A h \in Handlers, c \in Clients :
        (pc[h] = "encode" /\ req[h] \in LibraryRequests(c)) =>
            LET unnamed == req[h].method \in Secured /\ req[h].svc = Absent
            IN  /\ resp[h].error \notin {"METHOD_NOT_FOUND", "PARSE_ERROR"}
                /\ resp[h].error = "INVALID_REQUEST" => unnamed
                /\ rpcCall(resp[h]) = Empty => ~unnamed
                /\ (rpcCall(resp[h]) = Empty /\ req[h].method = "addressGetNew") =>
                       \E e \in effects : e.service = c.serviceId /\ e.token = c.token /\ e.what = "getNew"

\* Answers are true, and the library takes them for what they are (rpc_router.go,
\* uniclient/transport.go).
AnswersUnderstood == AnswersTruthful /\ LibraryUnderstood
=============================================================================
