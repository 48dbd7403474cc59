----------------------------- MODULE MCEndpoint -----------------------------
(* Three services: 1 and 2 with tokens, 3 with an ApiKey only; three          *)
(* addresses: "a" is service 1's, "b" is free, "c" is not in the pool.        *)
EXTENDS UniClient, TLC

Symmetry == Permutations(Handlers)

Service(token, key) == [Internal |-> FALSE, ApiToken |-> token, ApiKey |-> key, config |-> 1]

MCServices0 == [s \in 0 .. 3 |-> CASE s = 0 -> ColdServices[0]
                                   [] s = 1 -> Service("t1", "")
                                   [] s = 2 -> Service("t2", "")
                                   [] s = 3 -> Service("", "k")]

MCKeyOf == [a \in {"a", "b", "c"} |-> CASE a = "a" -> "ka" [] a = "b" -> "kb" [] a = "c" -> "kc"]

MCPool0 == [a \in {"a", "b"} |->
               [ServiceId |-> IF a = "a" THEN 1 ELSE 0, key |-> MCKeyOf[a], words |-> MCKeyOf[a],
                WatchOnly |-> FALSE, Subscribed |-> a = "a"]]

MCTokens == [t \in {"TOK"} |-> 0]

Member(exact, kind, n, base0) == [exact |-> exact, kind |-> kind, n |-> n, float |-> n, base0 |-> base0]
Id(n) == <<Member(TRUE, "number", n, Nothing)>>
\* "010": ten to a reader of decimals, eight to ParseInt with base 0
Octal == <<Member(TRUE, "string", 2, 1)>>
Other(kind) == <<Member(TRUE, kind, 1, Nothing)>>
\* serviceId and ServiceId
TwoSpellings(n, m) == <<Member(TRUE, "number", n, Nothing), Member(FALSE, "number", m, Nothing)>>

Call(method, svc, token) ==
    [path |-> "/rpc", verb |-> "POST", method |-> method, svc |-> svc, token |-> token, addr |-> "",
     key |-> "", words |-> "", to |-> "b", amount |-> "ok", symbol |-> "ETH", formatted |-> FALSE,
     force |-> FALSE, watchOnly |-> FALSE, config |-> 1]

Subscribe(svc, addr, key, words) ==
    [Call("addressSubscribe", svc, "") EXCEPT !.addr = addr, !.key = key, !.words = words]

TransferOf(svc, token, addr, key) ==
    [Call("transferAssets", svc, token) EXCEPT !.addr = addr, !.key = key]

\* a service that uses the library
MCClients == {[serviceId |-> 2, token |-> "t2"]}

MCRequests == UNION {LibraryRequests(c) : c \in MCClients} \cup
    {[Call("ping", Id(0), "") EXCEPT !.path = "/"], [Call("ping", Id(0), "") EXCEPT !.verb = "GET"],
     Call("garbage", Id(0), ""), Call("null", Id(0), ""), Call("", Id(0), ""), Call("unknown", Id(0), ""),
     Call("serviceRegister", Id(1), ""), Call("addressRecover", Id(0), ""),
     [Call("transferGetEstimatedFee", Id(1), "t1") EXCEPT !.symbol = "XXX", !.formatted = TRUE],
     Call("addressGetNew", Id(0), ""), Call("addressGetNew", Id(3), ""),
     Call("addressGetNew", Id(4), "t1"), Call("addressGetNew", << >>, "t1"),
     Call("addressGetNew", TwoSpellings(1, 2), "t1"), Call("transferInfo", Other("broken"), ""),
     Subscribe(Id(2), "c", "kc", ""), Subscribe(Id(1), "c", "", ""), Subscribe(Id(2), "", "kc", "kc"),
     Subscribe(Id(1), "c", "kc", "kb"), Subscribe(Id(2), "a", "", ""), Subscribe(Id(0), "c", "", ""),
     [Call("serviceConfig", Id(1), "t1") EXCEPT !.config = 2], Call("serviceConfig", Id(2), "t1"),
     [Call("serviceConfig", Octal, "t1") EXCEPT !.config = 0],
     [Call("serviceConfig", Id(2), "t2") EXCEPT !.config = 0], Call("serviceConfig", Id(0), ""),
     TransferOf(Id(1), "t1", "a", ""), TransferOf(Id(2), "t2", "a", ""), TransferOf(Id(2), "t2", "b", ""),
     TransferOf(Id(2), "t2", "c", ""), TransferOf(Id(0), "", "b", ""), TransferOf(Id(1), "t1", "a", "ka"),
     TransferOf(Id(1), "t1", "", "ka"), TransferOf(Id(1), "t1", "a", "kb"),
     TransferOf(Other("fraction"), "t1", "a", ""), TransferOf(Other("null"), "", "b", ""),
     [TransferOf(Id(1), "t1", "a", "") EXCEPT !.symbol = "TOK"]}

Text(m, format, fields) == SavedFile([format |-> format, values |-> [f \in fields |-> "operator"]], 1)

MCFullFiles == [m \in Modules |-> Text(m, IF m = "global" THEN "hcl" ELSE "json", Fields(m))]

\* nothing there; the JSON of an older version; a file for which fields were added later
MCStartFiles ==
    {MCFullFiles, [m \in Modules |-> NoFile],
     [MCFullFiles EXCEPT !["global"] = Text("global", "json", {"node"}), !["address"] = Text("address", "json", {"pool"})]}
=============================================================================
