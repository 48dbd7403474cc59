-------------------------------- MODULE Urpc --------------------------------
(* Package clients/urpc: JSON-RPC calls over a Unix socket or over HTTP. A    *)
(* request carries its caller and its number, a reply the request it answers; *)
(* the code sends the id "1" with every request and does not look at the id   *)
(* of a reply. A call is Lock, Send and Receive, or the failure of one.       *)
EXTENDS BinFile, Integers, Sequences, SequencesExt     \* BinFile for Nothing

CONSTANTS
    Callers,        \* goroutines that use the client
    MaxFaults       \* bound: broken connections and lost or replaced messages

ASSUME UrpcAssumption == MaxFaults \in Nat /\ Nothing \notin Callers

VARIABLES
    transport,      \* "ipc" or "http", chosen by an option
    conn,           \* ipcClient.socketConn: "none", "open", or "broken" by the node
    mux,            \* ipcClient.mux: its owner
    inbox,          \* requests on their way to the node
    outbox,         \* replies on their way back
    faults

urpcVars == <<transport, conn, mux, inbox, outbox, faults>>

UrpcInit ==
    /\ transport \in {"ipc", "http"}
    /\ conn = "none" /\ mux = Nothing
    /\ inbox = <<>> /\ outbox = <<>> /\ faults = 0

Fault == faults < MaxFaults /\ faults' = faults + 1

\* a call over the socket begins with the mutex, and holds it; httpClient.Call has none
Begin == IF transport = "ipc" THEN "lock" ELSE "send"

Lock_Shared(c) == mux' = c /\ UNCHANGED <<transport, conn, inbox, outbox, faults>>
Lock(c) ==
    /\ mux = Nothing /\ mux' = c
    /\ UNCHANGED <<transport, conn, inbox, outbox, faults>>

Unlocked == IF transport = "ipc" THEN Nothing ELSE mux

\* the connection is made by the first call
Send(request) ==
    /\ transport = "ipc" => conn # "broken"
    /\ conn' = IF transport = "ipc" THEN "open" ELSE conn
    /\ inbox' = Append(inbox, request)
    /\ UNCHANGED <<transport, mux, outbox, faults>>

\* connect, Encode or http.Do fails; a connection that broke is kept, and breaks every later
\* call. The mutex is released.
SendFails_Locked ==
    /\ IF transport = "ipc" /\ conn = "broken" THEN UNCHANGED faults
       ELSE (transport = "http" \/ conn = "none") /\ Fault
    /\ UNCHANGED <<transport, conn, mux, inbox, outbox>>
SendFails ==
    /\ IF transport = "ipc" /\ conn = "broken" THEN UNCHANGED faults
       ELSE (transport = "http" \/ conn = "none") /\ Fault
    /\ mux' = Unlocked
    /\ UNCHANGED <<transport, conn, inbox, outbox>>

\* Decode takes the next reply of the socket, or the one of its own HTTP connection
Receive(request, reply) ==
    /\ mux' = Unlocked
    /\ \E i \in DOMAIN outbox :
          /\ IF transport = "ipc" THEN i = 1 ELSE outbox[i].of = request
          /\ reply = outbox[i] /\ outbox' = RemoveAt(outbox, i)
    /\ UNCHANGED <<transport, conn, inbox, faults>>

\* what is left when an HTTP connection ends: its reply, if there is one, goes with it
Dropped(request) ==
    LET own == {i \in DOMAIN outbox : outbox[i].of = request}
    IN  IF own = {} THEN outbox ELSE RemoveAt(outbox, CHOOSE i \in own : TRUE)

\* The connection ends before a reply: over HTTP the node may have the request all the same
ReceiveFails(request) ==
    /\ IF transport = "ipc" THEN conn = "broken" /\ outbox = <<>> /\ UNCHANGED <<outbox, faults>>
       ELSE Fault /\ outbox' = Dropped(request)
    /\ mux' = Unlocked
    /\ UNCHANGED <<transport, conn, inbox>>

\* The node (external) or the socket goes away, with what was not served yet
Break ==
    /\ transport = "ipc" /\ conn = "open" /\ Fault
    /\ conn' = "broken"
    /\ inbox' = <<>> /\ outbox' \in {<<>>, outbox}
    /\ UNCHANGED <<transport, mux>>

\* What Call makes of a reply: an error object is an error. A server that answers in JSON with
\* another status than 200 gives a response without error and without result, since
\* httpClient.Call overwrites the error.
Result(reply) == IF reply.kind = "error" THEN Nothing ELSE reply
=============================================================================
