-------------------------- MODULE NodeClientProofs --------------------------
(***************************************************************************)
(* Theorems about the Ethereum client, its transports and the registry of  *)
(* contracts, for every number of goroutines, operations, faults, blocks   *)
(* and contracts.                                                          *)
(***************************************************************************)
EXTENDS NodeClient, Sums, FiniteSetTheorems, SequenceTheorems, TLAPS

(***************************************************************************)
(* Sequences of anything: the values a call returns have no common type.   *)
(***************************************************************************)
IsSeq(s) == \E S : s \in Seq(S)

\* The length and the elements of a sequence with one more at the end.
LEMMA AppendIsSeq ==
    ASSUME NEW s, IsSeq(s), NEW v
    PROVE  /\ IsSeq(Append(s, v)) /\ Len(s) \in Nat /\ DOMAIN s = 1 .. Len(s)
           /\ DOMAIN Append(s, v) = 1 .. Len(s) + 1
           /\ Len(Append(s, v)) = Len(s) + 1
           /\ \A i \in 1 .. Len(s) : Append(s, v)[i] = s[i]
           /\ Append(s, v)[Len(s) + 1] = v
<1>1. PICK S : s \in Seq(S)
  BY DEF IsSeq
<1>2. s \in Seq(S \cup {v})
  BY <1>1
<1>3. Append(s, v) \in Seq(S \cup {v})
  BY <1>2
<1>4. IsSeq(Append(s, v))
  BY <1>3 DEF IsSeq
<1>5. QED
  BY <1>2, <1>3, <1>4

\* What is left of a sequence without its element i.
LEMMA RemoveAtIsSeq ==
    ASSUME NEW s, IsSeq(s), NEW i \in DOMAIN s
    PROVE  /\ IsSeq(RemoveAt(s, i)) /\ Len(s) \in Nat /\ DOMAIN s = 1 .. Len(s)
           /\ Len(RemoveAt(s, i)) = Len(s) - 1
           /\ DOMAIN RemoveAt(s, i) = 1 .. Len(s) - 1
           /\ \A j \in 1 .. Len(s) - 1 :
                  RemoveAt(s, i)[j] = IF j < i THEN s[j] ELSE s[j + 1]
<1>1. PICK S : s \in Seq(S)
  BY DEF IsSeq
<1>2. Len(s) \in Nat /\ DOMAIN s = 1 .. Len(s) /\ \A j \in 1 .. Len(s) : s[j] \in S
  BY <1>1
<1> DEFINE a == SubSeq(s, 1, i - 1)
           b == SubSeq(s, i + 1, Len(s))
<1>3. /\ a \in Seq(S) /\ Len(a) = i - 1
      /\ \A j \in 1 .. i - 1 : a[j] = s[j]
  <2>1. i - 1 \in Int /\ \A j \in 1 .. i - 1 : s[j] \in S
    BY <1>2
  <2>2. QED
    BY <1>2, <2>1, SubSeqProperties
<1>4. /\ b \in Seq(S) /\ Len(b) = Len(s) - i
      /\ \A j \in 1 .. Len(s) - i : b[j] = s[i + j]
  <2>1. i + 1 \in Int /\ \A j \in i + 1 .. Len(s) : s[j] \in S
    BY <1>2
  <2>2. QED
    BY <1>2, <2>1, SubSeqProperties
<1> HIDE DEF a, b
<1>5. /\ a \o b \in Seq(S) /\ Len(a \o b) = Len(s) - 1
      /\ \A j \in 1 .. Len(s) - 1 :
            (a \o b)[j] = IF j <= i - 1 THEN a[j] ELSE b[j - (i - 1)]
  <2>1. /\ a \o b \in Seq(S) /\ Len(a \o b) = Len(a) + Len(b)
        /\ \A j \in 1 .. Len(a) + Len(b) :
              (a \o b)[j] = IF j <= Len(a) THEN a[j] ELSE b[j - Len(a)]
    BY <1>3, <1>4, ConcatProperties
  <2>2. Len(a) + Len(b) = Len(s) - 1
    BY <1>2, <1>3, <1>4
  <2>3. QED
    BY <1>3, <2>1, <2>2
<1>6. RemoveAt(s, i) = a \o b
  BY DEF RemoveAt, a, b
<1>7. DOMAIN (a \o b) = 1 .. Len(s) - 1
  BY <1>5
<1>8. ASSUME NEW j \in 1 .. Len(s) - 1
      PROVE  (a \o b)[j] = IF j < i THEN s[j] ELSE s[j + 1]
  <2>1. CASE j < i
    BY <1>2, <1>3, <1>5, <2>1
  <2>2. CASE ~(j < i)
    <3>1. j - (i - 1) \in 1 .. Len(s) - i /\ i + (j - (i - 1)) = j + 1
      BY <1>2, <2>2
    <3>2. QED
      BY <1>2, <1>4, <1>5, <2>2, <3>1
  <2>3. QED
    BY <2>1, <2>2
<1>9. IsSeq(a \o b)
  BY <1>5 DEF IsSeq
<1>10. QED
  BY <1>2, <1>5, <1>6, <1>7, <1>8, <1>9

-----------------------------------------------------------------------------
(***************************************************************************)
(* The registry of contracts.  Goroutines that save at the same time hold  *)
(* the mutex for reading only and truncate and write one file, but they    *)
(* write one text, and nobody adds while they do.                          *)
(***************************************************************************)
Contract == Contracts \cup {rawKnown}

AddState == [at : {"done", "save", "open", "write"}, text : Seq(Contract)]

\* A name and an address are in the list once, letter by letter.
NoDuplicates ==
    \A i, j \in DOMAIN contracts :
        \/ contracts[i].Name = contracts[j].Name
        \/ contracts[i].ContractAddress = contracts[j].ContractAddress
        => i = j

SaversAgree ==
    \A c \in Callers : adding[c].at \in {"open", "write"} =>
        c \in readers /\ adding[c].text = contracts

FileFollows ==
    /\ contractsFile.size \in 0 .. Len(contracts)
    /\ contractsFile.data = contracts \/ saveFailed \/ \E c \in Callers : adding[c].at # "done"

RegistryInv ==
    /\ contracts \in Seq(Contract)
    /\ adding \in [Callers -> AddState]
    /\ NoDuplicates /\ SaversAgree /\ FileFollows

\* Adding to the list keeps it a list without duplicates.
LEMMA AddUnsafeKeeps ==
    ASSUME contracts \in Seq(Contract), NoDuplicates, NEW c \in Contract,
           contracts' = addUnsafe(contracts, c)
    PROVE  /\ contracts' \in Seq(Contract) /\ NoDuplicates'
           /\ Len(contracts) \in Nat /\ Len(contracts) <= Len(contracts')
<1> DEFINE found == \E i \in DOMAIN contracts :
                       \/ contracts[i].Name = c.Name
                       \/ contracts[i].ContractAddress = c.ContractAddress
<1>1. CASE found
  BY <1>1 DEF addUnsafe, NoDuplicates
<1>2. CASE ~found
  <2>1. contracts' = Append(contracts, c)
    BY <1>2 DEF addUnsafe
  <2>2. /\ contracts' \in Seq(Contract) /\ Len(contracts) \in Nat
        /\ DOMAIN contracts = 1 .. Len(contracts)
        /\ Len(contracts') = Len(contracts) + 1
        /\ DOMAIN contracts' = 1 .. Len(contracts) + 1
        /\ \A i \in 1 .. Len(contracts) : contracts'[i] = contracts[i]
        /\ contracts'[Len(contracts) + 1] = c
    BY <2>1
  <2>3. NoDuplicates'
    <3> SUFFICES ASSUME NEW i \in DOMAIN contracts', NEW j \in DOMAIN contracts',
                        \/ contracts'[i].Name = contracts'[j].Name
                        \/ contracts'[i].ContractAddress = contracts'[j].ContractAddress
                 PROVE  i = j
      BY DEF NoDuplicates
    <3>1. CASE i \in DOMAIN contracts /\ j \in DOMAIN contracts
      BY <2>2, <3>1 DEF NoDuplicates
    <3>2. CASE i \notin DOMAIN contracts /\ j \notin DOMAIN contracts
      BY <2>2, <3>2
    <3>3. CASE i \in DOMAIN contracts /\ j \notin DOMAIN contracts
      <4>1. j = Len(contracts) + 1
        BY <2>2, <3>3
      <4>2. contracts'[i] = contracts[i] /\ contracts'[j] = c
        BY <2>2, <3>3, <4>1
      <4>3. QED
        BY <1>2, <3>3, <4>2
    <3>4. CASE i \notin DOMAIN contracts /\ j \in DOMAIN contracts
      <4>1. i = Len(contracts) + 1
        BY <2>2, <3>4
      <4>2. contracts'[i] = c /\ contracts'[j] = contracts[j]
        BY <2>2, <3>4, <4>1
      <4>3. QED
        BY <1>2, <3>4, <4>2
    <3>5. QED
      BY <3>1, <3>2, <3>3, <3>4
  <2>4. QED
    BY <2>2, <2>3
<1>3. QED
  BY <1>1, <1>2

\* A new registry holds the built-in contract and has saved it.
LEMMA RegistryInitial == Init => RegistryInv
<1> SUFFICES ASSUME RegistryInit PROVE RegistryInv
  BY DEF Init
<1>1. contracts = <<rawKnown>>
  BY DEF RegistryInit, addUnsafe
<1>2. /\ contracts \in Seq(Contract) /\ Len(contracts) = 1 /\ DOMAIN contracts = 1 .. 1
  BY <1>1 DEF Contract
<1>3. adding \in [Callers -> AddState] /\ \A c \in Callers : adding[c].at = "done"
  BY NodeClientAssumption DEF RegistryInit, DoNothing, AddState
<1>4. contractsFile.data = contracts /\ contractsFile.size = 1
  BY <1>2 DEF RegistryInit, SavedFile, Text
<1>5. QED
  BY <1>2, <1>3, <1>4 DEF RegistryInv, NoDuplicates, SaversAgree, FileFollows

\* Every step keeps the registry and its file together.
LEMMA RegistryNext == RegistryInv /\ [Next]_vars => RegistryInv'
<1> SUFFICES ASSUME RegistryInv, [Next]_vars PROVE RegistryInv'
  OBVIOUS
<1>1. CASE UNCHANGED registryVars
  <2>1. UNCHANGED <<contracts, readers, contractsFile, adding, saveFailed>>
    BY <1>1 DEF registryVars
  <2>2. QED
    BY <2>1 DEF RegistryInv, NoDuplicates, SaversAgree, FileFollows
<1>2. ASSUME NEW c \in Callers, NEW contract \in Contracts, Add(c, contract)
      PROVE  RegistryInv'
  <2>1. /\ contracts' \in Seq(Contract) /\ NoDuplicates'
        /\ Len(contracts) \in Nat /\ Len(contracts') \in Nat
        /\ Len(contracts) <= Len(contracts')
    BY <1>2, AddUnsafeKeeps DEF Add, RegistryInv, Contract
  <2>2. /\ adding' \in [Callers -> AddState] /\ adding'[c].at = "save"
        /\ \A d \in Callers \ {c} : adding'[d] = adding[d]
    BY <1>2 DEF Add, RegistryInv, AddState
  <2>3. readers = {} /\ contractsFile' = contractsFile /\ saveFailed' = saveFailed
    BY <1>2 DEF Add
  <2>4. SaversAgree'
    BY <2>2, <2>3 DEF RegistryInv, SaversAgree
  <2>5. FileFollows'
    BY <2>1, <2>2, <2>3 DEF RegistryInv, FileFollows
  <2>6. QED
    BY <2>1, <2>2, <2>4, <2>5 DEF RegistryInv
<1>3. ASSUME NEW c \in Callers, SaveContracts(c) PROVE RegistryInv'
  <2>1. /\ adding' \in [Callers -> AddState]
        /\ adding'[c].at = "open" /\ adding'[c].text = contracts
        /\ \A d \in Callers \ {c} : adding'[d] = adding[d]
    BY <1>3 DEF SaveContracts, RegistryInv, AddState
  <2>2. readers' = readers \cup {c} /\ UNCHANGED <<contracts, contractsFile, saveFailed>>
    BY <1>3 DEF SaveContracts
  <2>3. SaversAgree'
    BY <2>1, <2>2 DEF RegistryInv, SaversAgree
  <2>4. QED
    BY <2>1, <2>2, <2>3 DEF RegistryInv, NoDuplicates, FileFollows
<1>4. ASSUME NEW c \in Callers, SaveContractsOpen(c) PROVE RegistryInv'
  <2>1. /\ adding' \in [Callers -> AddState]
        /\ adding'[c].at = "write" /\ adding'[c].text = adding[c].text
        /\ \A d \in Callers \ {c} : adding'[d] = adding[d]
    BY <1>4 DEF SaveContractsOpen, RegistryInv, AddState
  <2>2. /\ adding[c].at = "open" /\ UNCHANGED <<contracts, readers>>
        /\ contractsFile'.size = 0
    BY <1>4 DEF SaveContractsOpen, Opened, SavedFile
  <2>3. SaversAgree'
    BY <2>1, <2>2 DEF RegistryInv, SaversAgree
  <2>4. FileFollows'
    <3>1. Len(contracts) \in Nat
      BY DEF RegistryInv
    <3>2. QED
      BY <2>1, <2>2, <3>1 DEF FileFollows
  <2>5. QED
    BY <2>1, <2>2, <2>3, <2>4 DEF RegistryInv, NoDuplicates
<1>5. ASSUME NEW c \in Callers, SaveContractsWrite(c) PROVE RegistryInv'
  <2>1. /\ adding' \in [Callers -> AddState] /\ adding'[c].at = "done"
        /\ \A d \in Callers \ {c} : adding'[d] = adding[d]
    BY <1>5 DEF SaveContractsWrite, RegistryInv, AddState, DoNothing
  <2>2. adding[c].text = contracts /\ Len(contracts) \in Nat
    BY <1>5 DEF SaveContractsWrite, RegistryInv, SaversAgree
  <2>3. contractsFile' = SavedFile(contracts, Len(contracts))
    BY <1>5, <2>2 DEF SaveContractsWrite, Written, Text, RegistryInv, FileFollows
  <2>4. readers' = readers \ {c} /\ contracts' = contracts
    BY <1>5 DEF SaveContractsWrite
  <2>5. SaversAgree'
    BY <2>1, <2>4 DEF RegistryInv, SaversAgree
  <2>6. FileFollows'
    BY <2>2, <2>3, <2>4 DEF FileFollows, SavedFile
  <2>7. QED
    BY <2>1, <2>4, <2>5, <2>6 DEF RegistryInv, NoDuplicates
<1>f. ASSUME NEW c \in Callers, SaveContractsFails(c) PROVE RegistryInv'
  <2>1. /\ adding' \in [Callers -> AddState] /\ adding'[c].at = "done"
        /\ \A d \in Callers \ {c} : adding'[d] = adding[d]
    BY <1>f DEF SaveContractsFails, RegistryInv, AddState, DoNothing
  <2>2. readers' = readers \ {c} /\ UNCHANGED <<contracts, contractsFile>> /\ saveFailed' = TRUE
    BY <1>f DEF SaveContractsFails
  <2>3. SaversAgree'
    BY <2>1, <2>2 DEF RegistryInv, SaversAgree
  <2>4. FileFollows'
    BY <2>2 DEF RegistryInv, FileFollows
  <2>5. QED
    BY <2>1, <2>2, <2>3, <2>4 DEF RegistryInv, NoDuplicates
<1>6. ASSUME NEW c \in Callers,
             Start(c) \/ Locked(c) \/ Sent(c) \/ Received(c) \/ CallFailed(c)
      PROVE  UNCHANGED registryVars
  BY <1>6 DEF Start, Locked, Sent, Received, CallFailed
<1>7. ASSUME Serve \/ Replace \/ Mine \/ Broken \/ UNCHANGED vars
      PROVE  UNCHANGED registryVars
  BY <1>7 DEF Serve, Replace, Mine, Broken, vars
<1>8. QED
  BY <1>1, <1>2, <1>3, <1>4, <1>5, <1>6, <1>7, <1>f
  DEF Next, Step, StartAdd, AddSteps, AddStep

\* What an idle registry promises.
LEMMA RegistryIsPersisted == RegistryInv => RegistryPersisted
<1> SUFFICES ASSUME RegistryInv, \A c \in Callers : adding[c] = DoNothing
             PROVE  /\ ~saveFailed => contractsFile.data = contracts
                    /\ \A i \in DOMAIN contracts :
                          LET address == contracts[i].ContractAddress
                          IN  /\ GetSmartContractAddressByName(contracts[i].Name)
                                    = IF address = "" THEN Nothing ELSE address
                              /\ \E j \in DOMAIN contracts :
                                    /\ GetSmartContractByAddress(address) = contracts[j]
                                    /\ ToLower(contracts[j].ContractAddress) = ToLower(address)
                                    /\ i = j \/ contracts[j].ContractAddress # address
  BY DEF RegistryPersisted
<1>1. ~saveFailed => contractsFile.data = contracts
  BY DEF RegistryInv, FileFollows, DoNothing
<1>2. Len(contracts) \in Nat /\ DOMAIN contracts = 1 .. Len(contracts) /\ \A i \in DOMAIN contracts : contracts[i] \in Contract
  BY DEF RegistryInv
<1>3. ASSUME NEW S, S \subseteq DOMAIN contracts, S # {} PROVE Max(S) \in S /\ LastOf(S) = contracts[Max(S)]
  BY <1>2, <1>3, MaxIsThere DEF LastOf
<1>4. ASSUME NEW i \in DOMAIN contracts
      PROVE  GetSmartContractAddressByName(contracts[i].Name)
                = IF contracts[i].ContractAddress = "" THEN Nothing ELSE contracts[i].ContractAddress
  <2> DEFINE S == {j \in DOMAIN contracts : contracts[j].Name = contracts[i].Name}
  <2>1. S = {i}
    BY DEF RegistryInv, NoDuplicates
  <2>2. LastOf(S) = contracts[i]
    BY <1>3, <2>1
  <2>3. contracts[i] # Nothing
    BY <1>2, NodeClientAssumption DEF Contract
  <2>4. QED
    BY <2>2, <2>3 DEF GetSmartContractAddressByName
<1>5. ASSUME NEW i \in DOMAIN contracts
      PROVE  \E j \in DOMAIN contracts :
                /\ GetSmartContractByAddress(contracts[i].ContractAddress) = contracts[j]
                /\ ToLower(contracts[j].ContractAddress) = ToLower(contracts[i].ContractAddress)
                /\ i = j \/ contracts[j].ContractAddress # contracts[i].ContractAddress
  <2> DEFINE S == {j \in DOMAIN contracts :
                      ToLower(contracts[j].ContractAddress) = ToLower(contracts[i].ContractAddress)}
  <2>1. S \subseteq DOMAIN contracts /\ S # {}
    OBVIOUS
  <2>2. Max(S) \in S /\ LastOf(S) = contracts[Max(S)]
    <3> HIDE DEF S
    <3> QED
      BY <1>3, <2>1
  <2>3. GetSmartContractByAddress(contracts[i].ContractAddress) = contracts[Max(S)]
    BY <2>2 DEF GetSmartContractByAddress
  <2>4. \A j \in DOMAIN contracts : i = j \/ contracts[j].ContractAddress # contracts[i].ContractAddress
    BY DEF RegistryInv, NoDuplicates
  <2>5. QED
    BY <2>2, <2>3, <2>4
<1>6. QED
  BY <1>1, <1>4, <1>5

-----------------------------------------------------------------------------
(***************************************************************************)
(* The calls under way, and one socket for all of them.                    *)
(***************************************************************************)
Busy(c) == call[c] # Idle

CallShape(k) ==
    /\ k = [op |-> k.op, n |-> k.n, hash |-> k.hash, got |-> k.got, at |-> k.at,
            began |-> k.began]
    /\ k.op \in Ops /\ IsSeq(k.got)
    /\ k.at \in {"lock", "send", "wait"}
    /\ Len(k.got) < Len(Script(k.op))

ShapeInv ==
    /\ transport \in {"ipc", "http"}
    /\ DOMAIN call = Callers
    /\ \A c \in Callers : Busy(c) => CallShape(call[c])
    /\ IsSeq(inbox) /\ IsSeq(outbox)

\* The request of a call depends on that call only.
LEMMA RequestSame ==
    ASSUME NEW c, call'[c] = call[c]
    PROVE  Request(c)' = Request(c)
<1>1. QED
  BY DEF Request, Method, Transaction, Amount, Fee

\* ... and not on where in the exchange it is.
LEMMA RequestWaits ==
    ASSUME ShapeInv, NEW c \in Callers, Busy(c), NEW w,
           call' = [call EXCEPT ![c].at = w]
    PROVE  Request(c)' = Request(c)
<1>1. CallShape(call[c]) /\ c \in DOMAIN call
  BY DEF ShapeInv
<1>2. call'[c] = [call[c] EXCEPT !.at = w]
  BY <1>1
<1>3. /\ call'[c].op = call[c].op /\ call'[c].n = call[c].n
      /\ call'[c].hash = call[c].hash /\ call'[c].got = call[c].got
      /\ call'[c].began = call[c].began
  BY <1>1, <1>2 DEF CallShape
<1>4. QED
  BY <1>3 DEF Request, Method, Transaction, Amount, Fee

\* A call that is locked or sent keeps its shape.
LEMMA CallMoves ==
    ASSUME ShapeInv, NEW c \in Callers, Busy(c), NEW w \in {"lock", "send", "wait"},
           call' = [call EXCEPT ![c].at = w]
    PROVE  /\ DOMAIN call' = Callers
           /\ CallShape(call'[c]) /\ call'[c].at = w
           /\ call'[c].op = call[c].op /\ call'[c].n = call[c].n
           /\ call'[c].hash = call[c].hash /\ call'[c].got = call[c].got
           /\ \A d \in Callers \ {c} : call'[d] = call[d]
<1>1. CallShape(call[c]) /\ DOMAIN call = Callers
  BY DEF ShapeInv
<1>2. /\ DOMAIN call' = Callers /\ call'[c] = [call[c] EXCEPT !.at = w]
      /\ \A d \in Callers \ {c} : call'[d] = call[d]
  BY <1>1
<1>3. /\ call'[c].op = call[c].op /\ call'[c].n = call[c].n /\ call'[c].at = w
      /\ call'[c].hash = call[c].hash /\ call'[c].got = call[c].got
      /\ call'[c].began = call[c].began
      /\ call'[c] = [op |-> call'[c].op, n |-> call'[c].n, hash |-> call'[c].hash,
                     got |-> call'[c].got, at |-> call'[c].at, began |-> call'[c].began]
  BY <1>1, <1>2 DEF CallShape
<1>4. CallShape(call'[c])
  BY <1>1, <1>3 DEF CallShape
<1>5. QED
  BY <1>2, <1>3, <1>4

\* A call has returned: its operation ends, or goes on with one value more.
Advanced(c, value) ==
    /\ call'[c].op = call[c].op /\ call'[c].n = call[c].n
    /\ call'[c].hash = call[c].hash /\ call'[c].began = call[c].began
    /\ call'[c].got = Append(call[c].got, value)
    /\ call'[c].at = Begin
    /\ CallShape(call'[c])

\* The record of a call with two fields replaced.
LEMMA WithGotAt ==
    ASSUME NEW k, NEW got, NEW at,
           k = [op |-> k.op, n |-> k.n, hash |-> k.hash, got |-> k.got, at |-> k.at,
                began |-> k.began]
    PROVE  [k EXCEPT !.got = got, !.at = at]
             = [op |-> k.op, n |-> k.n, hash |-> k.hash, got |-> got, at |-> at,
                began |-> k.began]
<1> DEFINE k1 == [op |-> k.op, n |-> k.n, hash |-> k.hash, got |-> got, at |-> k.at,
                  began |-> k.began]
<1>1. [k EXCEPT !.got = got] = k1
  OBVIOUS
<1>2. [k EXCEPT !.got = got, !.at = at] = [[k EXCEPT !.got = got] EXCEPT !.at = at]
  OBVIOUS
<1>3. [k1 EXCEPT !.at = at]
         = [op |-> k.op, n |-> k.n, hash |-> k.hash, got |-> got, at |-> at,
            began |-> k.began]
  OBVIOUS
<1> HIDE DEF k1
<1>4. QED
  BY <1>1, <1>2, <1>3

\* Continue ends the operation or advances it.
LEMMA ContinueAdvances ==
    ASSUME ShapeInv, NEW c \in Callers, Busy(c), NEW value, Continue(c, value)
    PROVE  /\ DOMAIN call' = Callers
           /\ \A d \in Callers \ {c} : call'[d] = call[d]
           /\ call'[c] = Idle \/ Advanced(c, value)
<1> DEFINE k == [call[c] EXCEPT !.got = Append(@, value), !.at = Begin]
<1>1. CallShape(call[c]) /\ DOMAIN call = Callers
  BY DEF ShapeInv
<1>2. /\ k.op = call[c].op /\ k.n = call[c].n /\ k.hash = call[c].hash
      /\ k.began = call[c].began /\ k.got = Append(call[c].got, value) /\ k.at = Begin
      /\ k = [op |-> k.op, n |-> k.n, hash |-> k.hash, got |-> k.got, at |-> k.at,
              began |-> k.began]
  <2>1. call[c] = [op |-> call[c].op, n |-> call[c].n, hash |-> call[c].hash,
                   got |-> call[c].got, at |-> call[c].at, began |-> call[c].began]
    BY <1>1 DEF CallShape
  <2>2. \A got, at : [call[c] EXCEPT !.got = got, !.at = at]
           = [op |-> call[c].op, n |-> call[c].n, hash |-> call[c].hash, got |-> got,
              at |-> at, began |-> call[c].began]
    BY <2>1, WithGotAt
  <2>3. k = [op |-> call[c].op, n |-> call[c].n, hash |-> call[c].hash,
             got |-> Append(call[c].got, value), at |-> Begin, began |-> call[c].began]
    BY <2>2
  <2>4. QED
    BY <2>3
<1>3. \/ call' = [call EXCEPT ![c] = Idle]
      \/ call' = [call EXCEPT ![c] = k] /\ More(k)
  BY DEF Continue, Return, ReturnError
<1>4. Begin \in {"lock", "send", "wait"}
  BY DEF Begin
<1> HIDE DEF k
<1>5. CASE call' = [call EXCEPT ![c] = Idle]
  BY <1>1, <1>5
<1>6. CASE call' = [call EXCEPT ![c] = k] /\ More(k)
  <2>1. IsSeq(k.got)
    BY <1>1, <1>2, AppendIsSeq DEF CallShape
  <2>2. CallShape(k)
    BY <1>1, <1>2, <1>4, <1>6, <2>1 DEF CallShape, More
  <2>3. call'[c] = k
    BY <1>1, <1>6
  <2>4. Advanced(c, value)
    BY <1>2, <2>2, <2>3 DEF Advanced
  <2>5. QED
    BY <1>1, <1>6, <2>4
<1>7. QED
  BY <1>3, <1>5, <1>6

\* What an operation goes on with when a call failed: block 0 instead of the head.
LEMMA FailedAdvances ==
    ASSUME ShapeInv, NEW c \in Callers, Busy(c), NEW error, Failed(c, error)
    PROVE  /\ DOMAIN call' = Callers
           /\ \A d \in Callers \ {c} : call'[d] = call[d]
           /\ \/ call'[c] = Idle
              \/ Method(call[c]) = "eth_blockNumber" /\ Advanced(c, 0)
<1>1. CASE Method(call[c]) = "eth_blockNumber"
  <2>1. Continue(c, 0)
    BY <1>1 DEF Failed
  <2>2. QED
    BY <1>1, <2>1, ContinueAdvances
<1>2. CASE Method(call[c]) # "eth_blockNumber"
  <2>1. call' = [call EXCEPT ![c] = Idle] /\ DOMAIN call = Callers
    BY <1>2 DEF Failed, ReturnError, Return, ShapeInv
  <2>2. QED
    BY <2>1
<1>3. QED
  BY <1>1, <1>2

\* An answer was read: the value of an "ok", or an error.
LEMMA ReceivedAdvances ==
    ASSUME ShapeInv, NEW c \in Callers, Received(c)
    PROVE  \E i \in DOMAIN outbox :
              /\ transport = "ipc" => i = 1
              /\ transport = "http" => outbox[i].of = Request(c)
              /\ outbox' = RemoveAt(outbox, i)
              /\ DOMAIN call' = Callers
              /\ \A d \in Callers \ {c} : call'[d] = call[d]
              /\ \/ call'[c] = Idle
                 \/ outbox[i].kind = "ok" /\ Advanced(c, outbox[i].value)
                 \/ Method(call[c]) = "eth_blockNumber" /\ Advanced(c, 0)
<1>1. PICK reply \in ToSet(outbox) :
          /\ Receive(Request(c), reply)
          /\ \/ \E error : Failed(c, error)
             \/ reply.kind = "ok" /\ Continue(c, reply.value)
  BY DEF Received
<1>2. Busy(c)
  BY DEF Received, Busy, Idle
<1>3. PICK i \in DOMAIN outbox :
          /\ IF transport = "ipc" THEN i = 1 ELSE outbox[i].of = Request(c)
          /\ reply = outbox[i] /\ outbox' = RemoveAt(outbox, i)
  BY <1>1 DEF Receive
<1>4. /\ DOMAIN call' = Callers
      /\ \A d \in Callers \ {c} : call'[d] = call[d]
      /\ \/ call'[c] = Idle
         \/ outbox[i].kind = "ok" /\ Advanced(c, outbox[i].value)
         \/ Method(call[c]) = "eth_blockNumber" /\ Advanced(c, 0)
  BY <1>1, <1>2, <1>3, ContinueAdvances, FailedAdvances
<1>5. QED
  BY <1>3, <1>4

\* An empty sequence is one of length 0.
LEMMA LenOf ==
    ASSUME NEW s, IsSeq(s)
    PROVE  /\ Len(s) \in Nat /\ DOMAIN s = 1 .. Len(s)
           /\ Len(s) = 0 <=> s = <<>>
<1>1. PICK S : s \in Seq(S)
  BY DEF IsSeq
<1>2. QED
  BY <1>1, EmptySeq

\* What is left without the first element is what is left without element 1.
LEMMA TailIsRemoveAt ==
    ASSUME NEW s, IsSeq(s), s # <<>>
    PROVE  /\ IsSeq(Tail(s)) /\ 1 \in DOMAIN s /\ Head(s) = s[1]
           /\ Len(Tail(s)) = Len(s) - 1 /\ DOMAIN Tail(s) = 1 .. Len(s) - 1
           /\ \A j \in 1 .. Len(s) - 1 : Tail(s)[j] = s[j + 1]
<1>1. PICK S : s \in Seq(S)
  BY DEF IsSeq
<1>2. Tail(s) \in Seq(S)
  BY <1>1
<1>3. IsSeq(Tail(s))
  BY <1>2 DEF IsSeq
<1>4. Len(s) \in Nat /\ Len(s) # 0
  BY <1>1, EmptySeq
<1>5. QED
  BY <1>1, <1>2, <1>3, <1>4

\* The elements of a sequence that a step only takes from, each with its old place.
Taken(s, t) ==
    /\ IsSeq(t)
    /\ \E place \in [DOMAIN t -> DOMAIN s] :
          /\ \A i \in DOMAIN t : t[i] = s[place[i]]
          /\ \A i, j \in DOMAIN t : place[i] = place[j] => i = j

LEMMA RemoveAtTakes ==
    ASSUME NEW s, IsSeq(s), NEW i \in DOMAIN s
    PROVE  Taken(s, RemoveAt(s, i))
<1> DEFINE t == RemoveAt(s, i)
           place == [j \in DOMAIN t |-> IF j < i THEN j ELSE j + 1]
<1>1. /\ IsSeq(t) /\ Len(s) \in Nat /\ DOMAIN s = 1 .. Len(s)
      /\ DOMAIN t = 1 .. Len(s) - 1
      /\ \A j \in 1 .. Len(s) - 1 : t[j] = IF j < i THEN s[j] ELSE s[j + 1]
  BY RemoveAtIsSeq
<1> HIDE DEF t
<1>2. place \in [DOMAIN t -> DOMAIN s]
  BY <1>1
<1>3. \A j \in DOMAIN t : t[j] = s[place[j]]
  BY <1>1
<1>4. \A j, m \in DOMAIN t : place[j] = place[m] => j = m
  BY <1>1
<1> HIDE DEF place
<1>5. Taken(s, t)
  BY <1>1, <1>2, <1>3, <1>4 DEF Taken
<1>6. QED
  BY <1>5 DEF t

LEMMA TailTakes ==
    ASSUME NEW s, IsSeq(s), s # <<>>
    PROVE  Taken(s, Tail(s))
<1> DEFINE t == Tail(s)
           place == [j \in DOMAIN t |-> j + 1]
<1>1. /\ IsSeq(t) /\ Len(s) \in Nat /\ DOMAIN s = 1 .. Len(s)
      /\ DOMAIN t = 1 .. Len(s) - 1
      /\ \A j \in 1 .. Len(s) - 1 : t[j] = s[j + 1]
  BY TailIsRemoveAt, LenOf
<1> HIDE DEF t
<1>2. place \in [DOMAIN t -> DOMAIN s]
  BY <1>1
<1>3. \A j \in DOMAIN t : t[j] = s[place[j]]
  BY <1>1
<1>4. \A j, m \in DOMAIN t : place[j] = place[m] => j = m
  BY <1>1
<1> HIDE DEF place
<1>5. Taken(s, t)
  BY <1>1, <1>2, <1>3, <1>4 DEF Taken
<1>6. QED
  BY <1>5 DEF t

LEMMA SameTakes ==
    ASSUME NEW s, IsSeq(s)
    PROVE  Taken(s, s) /\ Taken(s, <<>>)
<1>1. [i \in DOMAIN s |-> i] \in [DOMAIN s -> DOMAIN s]
  OBVIOUS
<1>2. Taken(s, s)
  <2> DEFINE place == [i \in DOMAIN s |-> i]
  <2>1. /\ place \in [DOMAIN s -> DOMAIN s]
        /\ \A i \in DOMAIN s : s[i] = s[place[i]]
        /\ \A i, j \in DOMAIN s : place[i] = place[j] => i = j
    OBVIOUS
  <2> HIDE DEF place
  <2>2. QED
    BY <2>1 DEF Taken
<1>3. Taken(s, <<>>)
  <2> DEFINE t == <<>>
             place == [i \in {} |-> i]
  <2>1. t \in Seq({}) /\ DOMAIN t = {}
    OBVIOUS
  <2>2. IsSeq(t)
    BY <2>1 DEF IsSeq
  <2>3. place \in [DOMAIN t -> DOMAIN s]
    BY <2>1
  <2> HIDE DEF t, place
  <2>4. Taken(s, t)
    BY <2>1, <2>2, <2>3 DEF Taken
  <2>5. QED
    BY <2>4 DEF t
<1>4. QED
  BY <1>2, <1>3

\* A reply is gone with its HTTP connection, or there was none.
LEMMA DroppedTakes ==
    ASSUME IsSeq(outbox), NEW request
    PROVE  Taken(outbox, Dropped(request))
<1> DEFINE own == {i \in DOMAIN outbox : outbox[i].of = request}
<1>1. CASE own = {}
  BY <1>1, SameTakes DEF Dropped
<1>2. CASE own # {}
  <2>1. (CHOOSE i \in own : TRUE) \in DOMAIN outbox
    BY <1>2
  <2>2. Dropped(request) = RemoveAt(outbox, CHOOSE i \in own : TRUE)
    BY <1>2 DEF Dropped
  <2>3. QED
    BY <2>1, <2>2, RemoveAtTakes
<1>3. QED
  BY <1>1, <1>2

\* A call that failed: the operation ends or goes on, and the replies only lose some.
LEMMA CallFailedAdvances ==
    ASSUME ShapeInv, NEW c \in Callers, CallFailed(c)
    PROVE  /\ Busy(c) /\ call[c].at \in {"send", "wait"}
           /\ DOMAIN call' = Callers
           /\ \A d \in Callers \ {c} : call'[d] = call[d]
           /\ \/ call'[c] = Idle
              \/ Method(call[c]) = "eth_blockNumber" /\ Advanced(c, 0)
           /\ inbox' = inbox /\ Taken(outbox, outbox') /\ mux' = Unlocked
           /\ UNCHANGED <<transport, conn, nodeVars, started>>
<1>1. Busy(c) /\ Failed(c, "transport") /\ UNCHANGED <<nodeVars, started>>
  BY DEF CallFailed, Busy, Idle
<1>2. CASE call[c].at = "send" /\ SendFails
  <2>1. outbox' = outbox /\ Taken(outbox, outbox)
    BY <1>2, SameTakes DEF SendFails, ShapeInv
  <2>2. inbox' = inbox /\ mux' = Unlocked /\ UNCHANGED <<transport, conn>>
    BY <1>2 DEF SendFails
  <2>3. QED
    BY <1>1, <1>2, <2>1, <2>2, FailedAdvances
<1>3. CASE call[c].at = "wait" /\ ReceiveFails(Request(c))
  <2>1. Taken(outbox, outbox')
    <3>1. outbox' = outbox \/ outbox' = Dropped(Request(c))
      BY <1>3 DEF ReceiveFails
    <3>2. QED
      BY <3>1, SameTakes, DroppedTakes DEF ShapeInv
  <2>2. inbox' = inbox /\ mux' = Unlocked /\ UNCHANGED <<transport, conn>>
    BY <1>3 DEF ReceiveFails
  <2>3. QED
    BY <1>1, <1>3, <2>1, <2>2, FailedAdvances
<1>4. QED
  BY <1>2, <1>3 DEF CallFailed

\* A new operation waits for its first call.
LEMMA StartShape ==
    ASSUME ShapeInv, NEW c \in Callers, Start(c)
    PROVE  /\ ~Busy(c) /\ started' = started + 1
           /\ UNCHANGED <<urpcVars, nodeVars, results>>
           /\ DOMAIN call' = Callers
           /\ \A d \in Callers \ {c} : call'[d] = call[d]
           /\ CallShape(call'[c]) /\ call'[c].at = Begin /\ call'[c].n = started + 1
           /\ call'[c].got = <<>>
<1>0. PICK op \in Ops : \E hash : call' = [call EXCEPT ![c] =
          [op |-> op, n |-> started + 1, hash |-> hash, got |-> <<>>, at |-> Begin,
           began |-> DOMAIN block]]
  BY DEF Start
<1>1. PICK hash : call' = [call EXCEPT ![c] =
          [op |-> op, n |-> started + 1, hash |-> hash, got |-> <<>>, at |-> Begin,
           began |-> DOMAIN block]]
  BY <1>0
<1>2. /\ DOMAIN call' = Callers
      /\ \A d \in Callers \ {c} : call'[d] = call[d]
      /\ call'[c] = [op |-> op, n |-> started + 1, hash |-> hash, got |-> <<>>,
                     at |-> Begin, began |-> DOMAIN block]
  BY <1>1 DEF ShapeInv
<1>3. Begin \in {"lock", "send", "wait"}
  BY DEF Begin
<1>4. IsSeq(<<>>)
  <2>1. <<>> \in Seq({})
    OBVIOUS
  <2>2. QED
    BY <2>1 DEF IsSeq
<1>5. 0 < Len(Script(op))
  BY NodeClientAssumption DEF Script
<1>6. CallShape(call'[c])
  BY <1>2, <1>3, <1>4, <1>5 DEF CallShape
<1>7. QED
  BY <1>2, <1>6 DEF Start, Busy

LEMMA ShapeInitial == Init => ShapeInv
<1> SUFFICES ASSUME Init PROVE ShapeInv
  OBVIOUS
<1>1. IsSeq(<<>>)
  <2>1. <<>> \in Seq({})
    OBVIOUS
  <2>2. QED
    BY <2>1 DEF IsSeq
<1>2. QED
  BY <1>1 DEF Init, UrpcInit, ShapeInv, Busy

\* The node takes a request and puts at most one reply into the outbox.
LEMMA ServeMoves ==
    ASSUME ShapeInv, Serve
    PROVE  \E i \in DOMAIN inbox : \E reply \in Replies(inbox[i]) :
              /\ transport = "ipc" => i = 1
              /\ inbox' = RemoveAt(inbox, i)
              /\ \/ outbox' = Append(outbox, reply)
                 \/ transport # "ipc" /\ outbox' = outbox
<1>1. PICK i \in IF transport = "ipc" THEN {1} ELSE DOMAIN inbox :
         /\ inbox' = RemoveAt(inbox, i)
         /\ \E reply \in Replies(inbox[i]) :
               outbox' = IF transport = "ipc" \/ Awaited(inbox[i]) THEN Append(outbox, reply)
                         ELSE outbox
  BY DEF Serve
<1>2. i \in DOMAIN inbox /\ (transport = "ipc" => i = 1)
  <2>1. inbox # <<>>
    BY DEF Serve
  <2>2. 1 \in DOMAIN inbox
    BY <2>1, TailIsRemoveAt DEF ShapeInv
  <2>3. QED
    BY <1>1, <2>2
<1>3. QED
  BY <1>1, <1>2

\* Every step keeps the shape of the calls and of the messages.
LEMMA ShapeNext == ShapeInv /\ [Next]_vars => ShapeInv'
<1> SUFFICES ASSUME ShapeInv, [Next]_vars PROVE ShapeInv'
  OBVIOUS
<1>1. CASE UNCHANGED <<urpcVars, call>>
  BY <1>1 DEF urpcVars, ShapeInv, Busy
<1>2. ASSUME NEW c \in Callers, Start(c) PROVE ShapeInv'
  <2>1. UNCHANGED <<transport, inbox, outbox>>
    BY <1>2, StartShape DEF urpcVars
  <2>2. QED
    BY <1>2, <2>1, StartShape DEF ShapeInv, Busy
<1>3. ASSUME NEW c \in Callers, Locked(c) PROVE ShapeInv'
  <2>1. /\ Busy(c) /\ UNCHANGED <<transport, inbox, outbox>>
        /\ call' = [call EXCEPT ![c].at = "send"]
    BY <1>3 DEF Locked, Lock, Busy, Idle
  <2>2. /\ DOMAIN call' = Callers /\ CallShape(call'[c])
        /\ \A d \in Callers \ {c} : call'[d] = call[d]
    BY <2>1, CallMoves
  <2>3. QED
    BY <2>1, <2>2 DEF ShapeInv, Busy
<1>4. ASSUME NEW c \in Callers, Sent(c) PROVE ShapeInv'
  <2>1. /\ Busy(c) /\ UNCHANGED <<transport, outbox>>
        /\ inbox' = Append(inbox, Request(c))
        /\ call' = [call EXCEPT ![c].at = "wait"]
    BY <1>4 DEF Sent, Send, Busy, Idle
  <2>2. /\ DOMAIN call' = Callers /\ CallShape(call'[c])
        /\ \A d \in Callers \ {c} : call'[d] = call[d]
    BY <2>1, CallMoves
  <2>3. IsSeq(inbox')
    BY <2>1, AppendIsSeq DEF ShapeInv
  <2>4. QED
    BY <2>1, <2>2, <2>3 DEF ShapeInv, Busy
<1>5. ASSUME NEW c \in Callers, Received(c) PROVE ShapeInv'
  <2>1. PICK i \in DOMAIN outbox :
           /\ outbox' = RemoveAt(outbox, i) /\ DOMAIN call' = Callers
           /\ \A d \in Callers \ {c} : call'[d] = call[d]
           /\ call'[c] = Idle \/ CallShape(call'[c])
    BY <1>5, ReceivedAdvances DEF Advanced
  <2>2. UNCHANGED <<transport, inbox>>
    BY <1>5 DEF Received, Receive
  <2>3. IsSeq(outbox')
    BY <2>1, RemoveAtIsSeq DEF ShapeInv
  <2>4. QED
    BY <2>1, <2>2, <2>3 DEF ShapeInv, Busy
<1>6. ASSUME NEW c \in Callers, CallFailed(c) PROVE ShapeInv'
  <2>1. /\ DOMAIN call' = Callers
        /\ \A d \in Callers \ {c} : call'[d] = call[d]
        /\ call'[c] = Idle \/ CallShape(call'[c])
        /\ IsSeq(outbox') /\ UNCHANGED <<transport, inbox>>
    BY <1>6, CallFailedAdvances DEF Advanced, Taken
  <2>2. QED
    BY <2>1 DEF ShapeInv, Busy
<1>7. CASE Serve
  <2>0. PICK i \in DOMAIN inbox : \E reply :
           /\ inbox' = RemoveAt(inbox, i)
           /\ outbox' = Append(outbox, reply) \/ outbox' = outbox
    BY <1>7, ServeMoves
  <2>1. PICK reply :
           /\ inbox' = RemoveAt(inbox, i)
           /\ outbox' = Append(outbox, reply) \/ outbox' = outbox
    BY <2>0
  <2>2. IsSeq(inbox') /\ IsSeq(outbox')
    <3>1. IsSeq(inbox) /\ IsSeq(outbox)
      BY DEF ShapeInv
    <3>2. IsSeq(RemoveAt(inbox, i))
      BY <3>1, RemoveAtIsSeq
    <3>3. IsSeq(Append(outbox, reply))
      BY <3>1, AppendIsSeq
    <3>4. QED
      BY <2>1, <3>1, <3>2, <3>3
  <2>3. UNCHANGED <<transport, call>>
    BY <1>7 DEF Serve
  <2>4. QED
    BY <2>2, <2>3 DEF ShapeInv, Busy
<1>8. CASE Replace
  <2>1. IsSeq(inbox') /\ IsSeq(outbox')
    BY <1>8, AppendIsSeq, TailIsRemoveAt DEF Replace, ShapeInv
  <2>2. UNCHANGED <<transport, call>>
    BY <1>8 DEF Replace
  <2>3. QED
    BY <2>1, <2>2 DEF ShapeInv, Busy
<1>9. CASE Broken
  <2>1. inbox' = <<>> /\ outbox' \in {<<>>, outbox}
    BY <1>9 DEF Broken, Break
  <2>2. IsSeq(<<>>) /\ IsSeq(outbox)
    BY SameTakes DEF ShapeInv, Taken
  <2>3. IsSeq(inbox') /\ IsSeq(outbox')
    BY <2>1, <2>2
  <2>4. UNCHANGED <<transport, call>>
    BY <1>9 DEF Broken, Break
  <2>5. QED
    BY <2>3, <2>4 DEF ShapeInv, Busy
<1>10. QED
  BY <1>1, <1>2, <1>3, <1>4, <1>5, <1>6, <1>7, <1>8, <1>9
  DEF Next, Step, StartAdd, AddSteps, Mine, vars

-----------------------------------------------------------------------------
(***************************************************************************)
(* One request on the socket.  A caller that sends or waits has the mutex; *)
(* a message on the socket is the request of the caller that waits, or the *)
(* answer to it.                                                           *)
(***************************************************************************)
OwnsSocket(c) == Busy(c) /\ call[c].at \in {"send", "wait"}

Flight(c) ==
    \/ Len(inbox) = 1 /\ inbox[1] = Request(c) /\ Len(outbox) = 0
    \/ Len(inbox) = 0 /\ Len(outbox) = 1 /\ outbox[1].of = Request(c)

Silent == Len(inbox) = 0 /\ Len(outbox) = 0

SocketInv ==
    transport = "ipc" =>
        /\ \A c \in Callers : OwnsSocket(c) => mux = c
        /\ conn = "broken" => Len(inbox) = 0
        /\ Silent \/ \E c \in Callers : Busy(c) /\ call[c].at = "wait" /\ Flight(c)

\* An owner that waits has the messages on the socket for itself, one that sends finds none.
LEMMA OwnerAlone ==
    ASSUME SocketInv, transport = "ipc", NEW c \in Callers, OwnsSocket(c)
    PROVE  /\ mux = c /\ \A d \in Callers : OwnsSocket(d) => d = c
           /\ Silent \/ (call[c].at = "wait" /\ Flight(c))
<1>1. mux = c /\ \A d \in Callers : OwnsSocket(d) => mux = d
  BY DEF SocketInv
<1>2. \A d \in Callers : OwnsSocket(d) => d = c
  BY <1>1
<1>3. QED
  BY <1>1, <1>2 DEF SocketInv, OwnsSocket

LEMMA SocketNext == ShapeInv /\ SocketInv /\ [Next]_vars => SocketInv'
<1> SUFFICES ASSUME ShapeInv, SocketInv, [Next]_vars, transport' = "ipc"
             PROVE  /\ \A c \in Callers : OwnsSocket(c)' => mux' = c
                    /\ conn' = "broken" => Len(inbox') = 0
                    /\ \/ Silent'
                       \/ \E c \in Callers : (Busy(c) /\ call[c].at = "wait" /\ Flight(c))'
  BY DEF SocketInv
<1> DEFINE Goal == /\ \A c \in Callers : OwnsSocket(c)' => mux' = c
                   /\ conn' = "broken" => Len(inbox') = 0
                   /\ \/ Silent'
                      \/ \E c \in Callers :
                            (Busy(c) /\ call[c].at = "wait" /\ Flight(c))'
<1>1. IsSeq(inbox) /\ IsSeq(outbox) /\ DOMAIN call = Callers
  BY DEF ShapeInv
<1>2. (Len(inbox) = 0 <=> inbox = <<>>) /\ (Len(outbox) = 0 <=> outbox = <<>>)
  BY <1>1, LenOf
<1>3. CASE UNCHANGED <<transport, conn, mux, inbox, outbox, call>>
  <2>1. \A c \in Callers : Request(c)' = Request(c)
    BY <1>3, RequestSame
  <2>2. QED
    BY <1>3, <2>1 DEF SocketInv, OwnsSocket, Busy, Flight, Silent
<1>4. ASSUME NEW c \in Callers, Start(c) PROVE Goal
  <2>1. /\ UNCHANGED <<transport, conn, mux, inbox, outbox>> /\ ~Busy(c)
        /\ \A d \in Callers \ {c} : call'[d] = call[d]
        /\ call'[c].at = "lock"
    BY <1>4, StartShape DEF urpcVars, Begin
  <2>2. \A d \in Callers \ {c} : Request(d)' = Request(d)
    BY <2>1, RequestSame
  <2>3. QED
    BY <2>1, <2>2 DEF SocketInv, OwnsSocket, Busy, Flight, Silent
<1>5. ASSUME NEW c \in Callers, Locked(c) PROVE Goal
  <2>1. /\ Busy(c) /\ mux = Nothing /\ mux' = c /\ UNCHANGED <<transport, conn, inbox, outbox>>
        /\ call' = [call EXCEPT ![c].at = "send"]
    BY <1>5 DEF Locked, Lock, Busy, Idle
  <2>2. \A d \in Callers \ {c} : call'[d] = call[d]
    BY <2>1, CallMoves
  <2>3. \A d \in Callers : ~OwnsSocket(d)
    BY <2>1, UrpcAssumption DEF SocketInv
  <2>4. Silent
    BY <2>1, <2>3 DEF SocketInv, OwnsSocket
  <2>5. QED
    BY <2>1, <2>2, <2>3, <2>4 DEF SocketInv, OwnsSocket, Busy, Silent
<1>6. ASSUME NEW c \in Callers, Sent(c) PROVE Goal
  <2>1. /\ Busy(c) /\ call[c].at = "send" /\ UNCHANGED <<transport, mux, outbox>>
        /\ inbox' = Append(inbox, Request(c)) /\ conn' = "open"
        /\ call' = [call EXCEPT ![c].at = "wait"]
    BY <1>6 DEF Sent, Send, Busy, Idle
  <2>2. /\ \A d \in Callers \ {c} : call'[d] = call[d]
        /\ call'[c].at = "wait" /\ Busy(c)'
    <3>1. (\A d \in Callers \ {c} : call'[d] = call[d]) /\ call'[c].at = "wait"
      BY <2>1, CallMoves
    <3>2. QED
      BY <3>1 DEF Busy, Idle
  <2>3. OwnsSocket(c)
    BY <2>1 DEF OwnsSocket
  <2>4. /\ mux = c /\ \A d \in Callers : OwnsSocket(d) => d = c
        /\ Silent
    BY <2>1, <2>3, OwnerAlone
  <2>5. Len(inbox') = 1 /\ inbox'[1] = Request(c) /\ Len(outbox') = 0
    BY <1>1, <2>1, <2>4, AppendIsSeq DEF Silent
  <2>6. Request(c)' = Request(c)
    BY <2>1, RequestWaits
  <2>7. QED
    BY <2>1, <2>2, <2>4, <2>5, <2>6 DEF OwnsSocket, Busy, Flight
<1>7. ASSUME NEW c \in Callers, Received(c) PROVE Goal
  <2>1. /\ Busy(c) /\ call[c].at = "wait" /\ mux' = Unlocked
        /\ UNCHANGED <<transport, conn, inbox>>
    BY <1>7 DEF Received, Receive, Busy, Idle
  <2>2. PICK i \in DOMAIN outbox :
           /\ outbox' = RemoveAt(outbox, i)
           /\ \A d \in Callers \ {c} : call'[d] = call[d]
           /\ call'[c] = Idle \/ call'[c].at = Begin
    BY <1>7, ReceivedAdvances DEF Advanced
  <2>3. OwnsSocket(c)
    BY <2>1 DEF OwnsSocket
  <2>4. /\ \A d \in Callers : OwnsSocket(d) => d = c
        /\ Silent \/ Flight(c)
    BY <2>1, <2>3, OwnerAlone
  <2>5. Len(outbox) = 1 /\ Len(inbox) = 0
    BY <1>1, <2>2, <2>4, LenOf DEF Silent, Flight
  <2>6. Len(outbox') = 0
    BY <1>1, <2>2, <2>5, RemoveAtIsSeq
  <2>7. \A d \in Callers : ~OwnsSocket(d)'
    BY <2>1, <2>2, <2>4 DEF OwnsSocket, Busy, Begin
  <2>8. QED
    BY <2>1, <2>5, <2>6, <2>7 DEF Silent
<1>8. ASSUME NEW c \in Callers, CallFailed(c) PROVE Goal
  <2>1. /\ Busy(c) /\ call[c].at \in {"send", "wait"} /\ inbox' = inbox
        /\ \A d \in Callers \ {c} : call'[d] = call[d]
        /\ call'[c] = Idle \/ call'[c].at = Begin
        /\ UNCHANGED <<transport, conn>>
    BY <1>8, CallFailedAdvances DEF Advanced
  <2>2. OwnsSocket(c)
    BY <2>1 DEF OwnsSocket
  <2>3. /\ \A d \in Callers : OwnsSocket(d) => d = c
        /\ Silent \/ (call[c].at = "wait" /\ Flight(c))
    BY <2>1, <2>2, OwnerAlone
  <2>4. Len(inbox) = 0 /\ Len(outbox) = 0 /\ outbox' = outbox
    <3>1. CASE call[c].at = "send"
      BY <1>8, <2>3, <3>1 DEF Silent, CallFailed, SendFails
    <3>2. CASE call[c].at = "wait"
      <4>1. conn = "broken" /\ outbox = <<>> /\ outbox' = outbox
        BY <1>8, <2>1, <3>2 DEF CallFailed, ReceiveFails
      <4>2. QED
        BY <1>2, <2>1, <4>1 DEF SocketInv
    <3>3. QED
      BY <2>1, <3>1, <3>2
  <2>5. \A d \in Callers : ~OwnsSocket(d)'
    BY <2>1, <2>3 DEF OwnsSocket, Busy, Begin
  <2>6. QED
    BY <2>1, <2>4, <2>5 DEF Silent
<1>9. CASE Serve
  <2>1. UNCHANGED <<transport, conn, mux, call>> /\ inbox # <<>>
    BY <1>9 DEF Serve
  <2>2. PICK i \in DOMAIN inbox, reply \in Replies(inbox[1]) :
           /\ i = 1 /\ inbox' = RemoveAt(inbox, i) /\ outbox' = Append(outbox, reply)
    BY <1>9, <2>1, ServeMoves
  <2>3. reply.of = inbox[1]
    BY <2>2 DEF Replies, Reply
  <2>4. PICK c \in Callers : Busy(c) /\ call[c].at = "wait" /\ Flight(c)
    BY <1>2, <2>1 DEF SocketInv, Silent
  <2>5. Len(inbox) = 1 /\ inbox[1] = Request(c) /\ Len(outbox) = 0
    BY <1>2, <2>1, <2>4 DEF Flight
  <2>6. Len(inbox') = 0
    BY <1>1, <2>2, <2>5, RemoveAtIsSeq
  <2>7. Len(outbox') = 1 /\ outbox'[1] = reply
    BY <1>1, <2>2, <2>5, AppendIsSeq
  <2>8. Request(c)' = Request(c)
    BY <2>1, RequestSame
  <2>9. Flight(c)'
    BY <2>3, <2>5, <2>6, <2>7, <2>8 DEF Flight
  <2>10. QED
    BY <2>1, <2>4, <2>6, <2>9 DEF SocketInv, OwnsSocket, Busy
<1>10. CASE Broken
  <2>1. /\ UNCHANGED <<transport, mux, call>> /\ inbox' = <<>>
        /\ outbox' = <<>> \/ outbox' = outbox
    BY <1>10 DEF Broken, Break
  <2>2. Len(inbox') = 0
    BY <2>1
  <2>3. \A c \in Callers : Request(c)' = Request(c)
    BY <2>1, RequestSame
  <2>4. Silent' \/ \E c \in Callers : (Busy(c) /\ call[c].at = "wait" /\ Flight(c))'
    <3>1. CASE Len(outbox') = 0
      BY <2>2, <3>1 DEF Silent
    <3>2. CASE Len(outbox') # 0
      <4>1. outbox' = outbox /\ Len(outbox) # 0
        BY <2>1, <3>2
      <4>2. PICK c \in Callers : Busy(c) /\ call[c].at = "wait" /\ Flight(c)
        BY <2>1, <4>1 DEF SocketInv, Silent
      <4>3. Flight(c)'
        BY <2>2, <2>3, <4>1, <4>2 DEF Flight
      <4>4. QED
        BY <2>1, <4>2, <4>3 DEF Busy
    <3>3. QED
      BY <3>1, <3>2
  <2>5. QED
    BY <2>1, <2>2, <2>4 DEF SocketInv, OwnsSocket, Busy
<1>11. ASSUME Replace PROVE FALSE
  BY <1>11 DEF Replace
<1>12. ASSUME NEW c \in Callers, StartAdd(c) \/ AddSteps(c)
       PROVE  UNCHANGED <<transport, conn, mux, inbox, outbox, call>>
  BY <1>12 DEF StartAdd, AddSteps, urpcVars
<1>13. ASSUME Mine \/ UNCHANGED vars
       PROVE  UNCHANGED <<transport, conn, mux, inbox, outbox, call>>
  BY <1>13 DEF Mine, vars, urpcVars
<1>14. Goal
  BY <1>3, <1>4, <1>5, <1>6, <1>7, <1>8, <1>9, <1>10, <1>11, <1>12, <1>13 DEF Next, Step
<1>15. QED
  BY <1>14

LEMMA SocketInitial == Init => SocketInv
<1> SUFFICES ASSUME Init PROVE SocketInv
  OBVIOUS
<1>1. \A c \in Callers : ~OwnsSocket(c)
  BY DEF Init, OwnsSocket, Busy
<1>2. Silent /\ conn = "none"
  BY DEF Init, UrpcInit, Silent
<1>3. QED
  BY <1>1, <1>2 DEF SocketInv

\* What the caller that waits reads next is the answer to its request.
LEMMA SocketAnswers == ShapeInv /\ SocketInv => AnswersMatch
<1> SUFFICES ASSUME ShapeInv, SocketInv, NEW c \in Callers, call[c].at = "wait",
                    transport = "ipc", outbox # <<>>
             PROVE  Head(outbox).of = Request(c)
  BY DEF AnswersMatch
<1>1. OwnsSocket(c)
  BY DEF OwnsSocket, Busy, Idle
<1>2. Silent \/ Flight(c)
  BY <1>1, OwnerAlone
<1>3. IsSeq(outbox) /\ Len(outbox) # 0 /\ Head(outbox) = outbox[1]
  BY LenOf, TailIsRemoveAt DEF ShapeInv
<1>4. QED
  BY <1>2, <1>3 DEF Silent, Flight

\* However many goroutines share the socket and the registry, whatever breaks: each reads
\* the answer to its own request although every request has the same id (ipcClient.Call),
\* and when no Add runs the file is the registry and look-ups find what was added
\* (SmartContractsManager.Add, Save).
THEOREM SharingIsSafe == Spec => []SharedWithoutMixUp
<1> DEFINE I == ShapeInv /\ SocketInv /\ RegistryInv
<1>1. Init => I
  BY ShapeInitial, SocketInitial, RegistryInitial
<1>2. I /\ [Next]_vars => I'
  BY ShapeNext, SocketNext, RegistryNext
<1>3. I => SharedWithoutMixUp
  BY SocketAnswers, RegistryIsPersisted DEF SharedWithoutMixUp
<1>4. QED
  BY <1>1, <1>2, <1>3, PTL DEF Spec

-----------------------------------------------------------------------------
(***************************************************************************)
(* What operations report.  Replies on their way are true of the node and  *)
(* stay true, because it forgets no transaction that it took and no block. *)
(***************************************************************************)
InfoKinds == {"infoByHash", "infoByNum"}
TransferKinds == {"transfer", "transferAll"}

\* Transaction h is in block b.
Mined(h, b) == h \in DOMAIN block /\ block[h] = b

\* What a value says that came back for a request.
ValueTrue(request, value) ==
    /\ request.method = "eth_sendRawTransaction" =>
           value = request.tx.n /\ request.tx \in accepted
    /\ request.method = "eth_getTransactionByHash" =>
           value = 0 \/ Mined(request.hash, value)
    /\ request.method = "eth_getTransactionByBlockNumberAndIndex" =>
           Mined(request.hash, value)
    /\ request.method = "eth_blockNumber" => value \in 0 .. head

\* Between its two calls an info knows the block of the transaction, or 0 for the pool.
InfoTrue(k) ==
    (k.op.kind \in InfoKinds /\ Len(k.got) = 1) =>
        \/ k.op.kind = "infoByHash" /\ k.got[1] = 0
        \/ Mined(k.hash, k.got[1])

ResultTrue(r) ==
    /\ (r.op.kind \in TransferKinds /\ r.error = "") =>
           \E t \in accepted : /\ t.n = r.sent /\ r.sent = r.n
                              /\ r.op.kind = "transfer" => t.amount = r.op.amount
    /\ (r.op.kind \in InfoKinds /\ r.error = "") =>
           (r.confirmed => /\ r.hash \in DOMAIN block
                           /\ head - block[r.hash] + 1 >= MinConfirmations)

OnTheWay == {outbox[i] : i \in DOMAIN outbox}
ReplyTrue(r) == r.kind = "ok" => ValueTrue(r.of, r.value)

ReportInv ==
    /\ head \in Nat
    /\ \A n \in DOMAIN block : block[n] \in 1 .. head
    /\ \A r \in OnTheWay : ReplyTrue(r)
    /\ \A c \in Callers : Busy(c) => InfoTrue(call[c])
    /\ \A r \in results : ResultTrue(r)

\* The calls that an operation has left.
LEMMA MethodOf ==
    ASSUME NEW k, CallShape(k)
    PROVE  /\ k.op.kind \in TransferKinds =>
                  Len(Script(k.op)) = 6 /\ (Len(k.got) = 5 <=> Method(k) = "eth_sendRawTransaction")
           /\ k.op.kind = "infoByHash" =>
                  /\ Len(Script(k.op)) = 2
                  /\ Len(k.got) = 0 => Method(k) = "eth_getTransactionByHash"
           /\ k.op.kind = "infoByNum" =>
                  /\ Len(Script(k.op)) = 2
                  /\ Len(k.got) = 0 => Method(k) = "eth_getTransactionByBlockNumberAndIndex"
           /\ k.op.kind \in InfoKinds =>
                  (Len(k.got) = 1 <=> Method(k) = "eth_blockNumber")
           /\ k.op.kind \notin TransferKinds => Method(k) # "eth_sendRawTransaction"
           /\ Len(k.got) \in Nat
<1>1. Len(k.got) \in Nat /\ Len(k.got) < Len(Script(k.op))
  BY LenOf DEF CallShape
<1>2. k.op.kind \in TransferKinds \cup InfoKinds \cup {"fee", "query"}
  BY NodeClientAssumption DEF CallShape, TransferKinds, InfoKinds
<1> DEFINE s == Script(k.op)
           m == Len(k.got)
<1>3. m \in Nat /\ m < Len(s)
  BY <1>1
<1> HIDE DEF s, m
<1>4. CASE k.op.kind \in TransferKinds
  <2>1. /\ Len(s) = 6 /\ s[1] = "eth_getBalance" /\ s[2] = "eth_estimateGas"
        /\ s[3] = "eth_gasPrice" /\ s[4] = "eth_getTransactionCount"
        /\ s[5] = "eth_chainId" /\ s[6] = "eth_sendRawTransaction"
    BY <1>4 DEF Script, TransferKinds, s
  <2>2. m \in 0 .. 5
    BY <1>3, <2>1
  <2>3. m = 5 <=> s[m + 1] = "eth_sendRawTransaction"
    <3>1. \/ m = 0 /\ s[m + 1] = s[1]
          \/ m = 1 /\ s[m + 1] = s[2]
          \/ m = 2 /\ s[m + 1] = s[3]
          \/ m = 3 /\ s[m + 1] = s[4]
          \/ m = 4 /\ s[m + 1] = s[5]
          \/ m = 5 /\ s[m + 1] = s[6]
      BY <2>2
    <3>2. QED
      BY <2>1, <3>1
  <2>4. QED
    BY <1>3, <1>4, <2>1, <2>3 DEF TransferKinds, InfoKinds, Method, s, m
<1>5. CASE k.op.kind = "infoByHash"
  <2>1. /\ Len(s) = 2 /\ s[1] = "eth_getTransactionByHash"
        /\ s[2] = "eth_blockNumber"
    BY <1>5 DEF Script, s
  <2>2. m = 0 \/ m = 1
    BY <1>3, <2>1
  <2>3. CASE m = 0
    <3>1. s[m + 1] = "eth_getTransactionByHash"
      BY <2>1, <2>3
    <3>2. QED
      BY <1>5, <2>1, <2>3, <3>1 DEF TransferKinds, InfoKinds, Method, s, m
  <2>4. CASE m = 1
    <3>1. s[m + 1] = "eth_blockNumber"
      BY <2>1, <2>4
    <3>2. QED
      BY <1>5, <2>1, <2>4, <3>1 DEF TransferKinds, InfoKinds, Method, s, m
  <2>5. QED
    BY <2>2, <2>3, <2>4
<1>6. CASE k.op.kind = "infoByNum"
  <2>1. /\ Len(s) = 2 /\ s[1] = "eth_getTransactionByBlockNumberAndIndex"
        /\ s[2] = "eth_blockNumber"
    BY <1>6 DEF Script, s
  <2>2. m = 0 \/ m = 1
    BY <1>3, <2>1
  <2>3. CASE m = 0
    <3>1. s[m + 1] = "eth_getTransactionByBlockNumberAndIndex"
      BY <2>1, <2>3
    <3>2. QED
      BY <1>6, <2>1, <2>3, <3>1 DEF TransferKinds, InfoKinds, Method, s, m
  <2>4. CASE m = 1
    <3>1. s[m + 1] = "eth_blockNumber"
      BY <2>1, <2>4
    <3>2. QED
      BY <1>6, <2>1, <2>4, <3>1 DEF TransferKinds, InfoKinds, Method, s, m
  <2>5. QED
    BY <2>2, <2>3, <2>4
<1>7. CASE k.op.kind \in {"fee", "query"}
  <2>1. Method(k) # "eth_sendRawTransaction"
    BY <1>1, <1>7 DEF Script, Method
  <2>2. QED
    BY <1>1, <1>7, <2>1 DEF TransferKinds, InfoKinds
<1>8. QED
  BY <1>2, <1>4, <1>5, <1>6, <1>7 DEF InfoKinds

\* The node only adds to its chain and to what it took.
LEMMA NodeGrows ==
    ASSUME [Next]_vars, head \in Nat
    PROVE  /\ head' \in Nat /\ head <= head' /\ accepted \subseteq accepted'
           /\ \A h, b : Mined(h, b) => Mined(h, b)'
<1>1. CASE UNCHANGED nodeVars
  BY <1>1 DEF nodeVars, Mined
<1>2. CASE Serve
  BY <1>2 DEF Serve, Mined
<1>3. CASE Mine
  <2>1. head' = head + 1 /\ accepted' = accepted
    BY <1>3 DEF Mine
  <2>2. PICK txs : block' = [n \in DOMAIN block \cup {t.n : t \in txs} |->
                                IF n \in DOMAIN block THEN block[n] ELSE head']
    BY <1>3 DEF Mine
  <2>3. \A h, b : Mined(h, b) => Mined(h, b)'
    BY <2>2 DEF Mined
  <2>4. QED
    BY <2>1, <2>3
<1>4. ASSUME NEW c \in Callers, Start(c) \/ StartAdd(c) \/ Step(c) PROVE UNCHANGED nodeVars
  BY <1>4 DEF Start, StartAdd, Step, Locked, Sent, Received, CallFailed, AddSteps
<1>5. ASSUME Replace \/ Broken \/ UNCHANGED vars PROVE UNCHANGED nodeVars
  BY <1>5 DEF Replace, Broken, vars
<1>6. QED
  BY <1>1, <1>2, <1>3, <1>4, <1>5 DEF Next

\* ... so what was true of it stays true.
LEMMA TruthStays ==
    ASSUME [Next]_vars, ReportInv
    PROVE  /\ \A q, v : ValueTrue(q, v) => ValueTrue(q, v)'
           /\ \A k : InfoTrue(k) => InfoTrue(k)'
           /\ \A r : ResultTrue(r) => ResultTrue(r)'
<1>1. /\ head \in Nat /\ head' \in Nat /\ head <= head' /\ accepted \subseteq accepted'
      /\ \A h, b : Mined(h, b) => Mined(h, b)'
  BY NodeGrows DEF ReportInv
<1>2. ASSUME NEW q, NEW v, ValueTrue(q, v) PROVE ValueTrue(q, v)'
  BY <1>1, <1>2 DEF ValueTrue
<1>3. ASSUME NEW k, InfoTrue(k) PROVE InfoTrue(k)'
  BY <1>1, <1>3 DEF InfoTrue
<1>4. ASSUME NEW r, ResultTrue(r) PROVE ResultTrue(r)'
  <2>1. \A h \in DOMAIN block : h \in DOMAIN block' /\ block'[h] = block[h] /\ block[h] \in Nat
    BY <1>1 DEF Mined, ReportInv
  <2>2. MinConfirmations \in Nat
    BY NodeClientAssumption
  <2>3. ASSUME r.hash \in DOMAIN block, head - block[r.hash] + 1 >= MinConfirmations
        PROVE  r.hash \in DOMAIN block' /\ head' - block'[r.hash] + 1 >= MinConfirmations
    <3>1. /\ r.hash \in DOMAIN block' /\ block'[r.hash] = block[r.hash]
          /\ block[r.hash] \in Nat
      BY <2>1, <2>3
    <3>2. QED
      BY <1>1, <2>2, <2>3, <3>1
  <2>4. QED
    BY <1>1, <1>4, <2>3 DEF ResultTrue
<1>5. QED
  BY <1>2, <1>3, <1>4

\* An operation that goes on with a true value knows and returns what is true.
LEMMA ContinueReports ==
    ASSUME ShapeInv, ReportInv, NEW c \in Callers, Busy(c), NEW value, Continue(c, value),
           ValueTrue(Request(c), value)
    PROVE  /\ Busy(c)' => InfoTrue(call'[c])
           /\ \A r \in results' : ResultTrue(r)
<1> DEFINE k == [call[c] EXCEPT !.got = Append(@, value), !.at = Begin]
           m == Len(call[c].got)
           last == CASE k.op.kind \in {"infoByHash", "infoByNum"} -> Info(k, k.got[1], k.got[2])
                     [] k.op.kind \in {"transfer", "transferAll"} ->
                            [n |-> k.n, op |-> k.op, error |-> "", sent |-> value]
                     [] OTHER -> [n |-> k.n, op |-> k.op, error |-> ""]
<1>1. CallShape(call[c]) /\ DOMAIN call = Callers
  BY DEF ShapeInv
<1>2. /\ k.op = call[c].op /\ k.n = call[c].n /\ k.hash = call[c].hash
      /\ m \in Nat /\ Len(k.got) = m + 1
      /\ \A i \in 1 .. m : k.got[i] = call[c].got[i]
      /\ k.got[m + 1] = value
  <2>1. \A got, at : [call[c] EXCEPT !.got = got, !.at = at]
           = [op |-> call[c].op, n |-> call[c].n, hash |-> call[c].hash, got |-> got,
              at |-> at, began |-> call[c].began]
    <3>1. call[c] = [op |-> call[c].op, n |-> call[c].n, hash |-> call[c].hash,
                     got |-> call[c].got, at |-> call[c].at, began |-> call[c].began]
      BY <1>1 DEF CallShape
    <3>2. QED
      BY <3>1, WithGotAt
  <2>2. k = [op |-> call[c].op, n |-> call[c].n, hash |-> call[c].hash,
             got |-> Append(call[c].got, value), at |-> Begin, began |-> call[c].began]
    BY <2>1
  <2>3. /\ k.op = call[c].op /\ k.n = call[c].n /\ k.hash = call[c].hash
        /\ k.got = Append(call[c].got, value)
    BY <2>2
  <2>4. IsSeq(call[c].got)
    BY <1>1 DEF CallShape
  <2> HIDE DEF k
  <2>5. QED
    BY <2>3, <2>4, AppendIsSeq
<1>3. \/ /\ call' = [call EXCEPT ![c] = k] /\ results' = results /\ More(k)
      \/ /\ call' = [call EXCEPT ![c] = Idle]
         /\ \E error \in {"ErrInsufficientFunds", "ErrNothingToTransfer"} :
               results' = results \cup {[n |-> call[c].n, op |-> call[c].op, error |-> error]}
      \/ /\ call' = [call EXCEPT ![c] = Idle] /\ results' = results \cup {last} /\ ~More(k)
  BY DEF Continue, Return, ReturnError
<1>4. /\ Request(c).method = Method(call[c]) /\ Request(c).hash = call[c].hash
      /\ Method(call[c]) = "eth_sendRawTransaction" => Request(c).tx = Transaction(call[c])
  BY DEF Request
<1>5. \A r \in results : ResultTrue(r)
  BY DEF ReportInv
<1> HIDE DEF k, last, m
<1>6. CASE call' = [call EXCEPT ![c] = k] /\ results' = results /\ More(k)
  <2>1. call'[c] = k
    BY <1>1, <1>6
  <2>2. ASSUME k.op.kind \in InfoKinds, Len(k.got) = 1
        PROVE  \/ k.op.kind = "infoByHash" /\ k.got[1] = 0
               \/ Mined(k.hash, k.got[1])
    <3>1. m = 0 /\ k.got[1] = value
      BY <1>2, <2>2
    <3>2. CASE k.op.kind = "infoByHash"
      <4>1. Method(call[c]) = "eth_getTransactionByHash"
        BY <1>1, <1>2, <3>1, <3>2, MethodOf DEF m
      <4>2. QED
        BY <1>2, <1>4, <3>1, <3>2, <4>1 DEF ValueTrue
    <3>3. CASE k.op.kind = "infoByNum"
      <4>1. Method(call[c]) = "eth_getTransactionByBlockNumberAndIndex"
        BY <1>1, <1>2, <3>1, <3>3, MethodOf DEF m
      <4>2. QED
        BY <1>2, <1>4, <3>1, <4>1 DEF ValueTrue
    <3>4. QED
      BY <2>2, <3>2, <3>3 DEF InfoKinds
  <2>3. QED
    BY <1>5, <1>6, <2>1, <2>2 DEF InfoTrue
<1>7. ASSUME call' = [call EXCEPT ![c] = Idle] PROVE ~Busy(c)'
  BY <1>1, <1>7 DEF Busy
<1>8. ASSUME NEW error \in {"ErrInsufficientFunds", "ErrNothingToTransfer"}
      PROVE  ResultTrue([n |-> call[c].n, op |-> call[c].op, error |-> error])
  BY DEF ResultTrue
<1>9. ASSUME ~More(k) PROVE ResultTrue(last)
  <2>1. m + 1 = Len(Script(call[c].op))
    <3>1. m < Len(Script(call[c].op)) /\ ~(Len(k.got) < Len(Script(k.op)))
      BY <1>1, <1>9 DEF CallShape, More, m
    <3>2. Len(Script(call[c].op)) \in Nat
      BY <1>1, NodeClientAssumption DEF Script, CallShape
    <3>3. QED
      BY <1>2, <3>1, <3>2
  <2>2. CASE k.op.kind \in TransferKinds
    <3>1. last = [n |-> k.n, op |-> k.op, error |-> "", sent |-> value]
      BY <2>2 DEF TransferKinds, last
    <3>2. m = 5
      <4>1. Len(Script(call[c].op)) = 6
        BY <1>1, <1>2, <2>2, MethodOf DEF m
      <4>2. QED
        BY <1>2, <2>1, <4>1
    <3>3. Method(call[c]) = "eth_sendRawTransaction"
      BY <1>1, <1>2, <2>2, <3>2, MethodOf DEF m
    <3>4. value = Transaction(call[c]).n /\ Transaction(call[c]) \in accepted
      BY <1>4, <3>3 DEF ValueTrue
    <3>5. /\ Transaction(call[c]).n = call[c].n
          /\ call[c].op.kind = "transfer" => Transaction(call[c]).amount = call[c].op.amount
      BY DEF Transaction, Amount
    <3>6. last.op = call[c].op /\ last.sent = value /\ last.n = call[c].n /\ last.error = ""
      BY <1>2, <3>1
    <3>7. last.op.kind \notin InfoKinds
      BY <1>2, <2>2, <3>6 DEF TransferKinds, InfoKinds
    <3>8. QED
      BY <3>4, <3>5, <3>6, <3>7 DEF ResultTrue
  <2>3. CASE k.op.kind \in InfoKinds
    <3>1. last = Info(k, k.got[1], k.got[2])
      BY <2>3 DEF InfoKinds, last
    <3>2. m = 1
      <4>1. Len(Script(call[c].op)) = 2
        BY <1>1, <1>2, <2>3, MethodOf DEF InfoKinds, m
      <4>2. QED
        BY <1>2, <2>1, <4>1
    <3>3. Method(call[c]) = "eth_blockNumber"
      BY <1>1, <1>2, <2>3, <3>2, MethodOf DEF m
    <3>4. k.got[2] = value /\ k.got[1] = call[c].got[1] /\ value \in 0 .. head
      BY <1>2, <1>4, <3>2, <3>3 DEF ValueTrue
    <3>5. \/ k.op.kind = "infoByHash" /\ k.got[1] = 0
          \/ Mined(k.hash, k.got[1])
      BY <1>2, <2>3, <3>2, <3>4 DEF ReportInv, InfoTrue, m
    <3>6. /\ last.op = k.op /\ last.hash = k.hash
          /\ last.confirmed <=> /\ k.op.kind = "infoByNum" \/ k.got[1] # 0
                                /\ Confirmed(k, k.got[1], value)
      BY <3>1, <3>4 DEF Info
    <3>7. last.op.kind \notin TransferKinds
      BY <2>3, <3>6 DEF TransferKinds, InfoKinds
    <3>8. ASSUME last.confirmed
          PROVE  last.hash \in DOMAIN block /\ head - block[last.hash] + 1 >= MinConfirmations
      <4>1. /\ k.op.kind = "infoByNum" \/ k.got[1] # 0
            /\ Confirmed(k, k.got[1], value)
        BY <3>6, <3>8
      <4>2. Mined(k.hash, k.got[1])
        BY <2>3, <3>5, <4>1 DEF InfoKinds
      <4>3. /\ k.hash \in DOMAIN block /\ block[k.hash] = k.got[1]
            /\ k.got[1] \in 1 .. head /\ head \in Nat
        BY <4>2 DEF Mined, ReportInv
      <4>4. MinConfirmations \in Nat
        BY NodeClientAssumption
      <4>5. value - k.got[1] >= MinConfirmations - 1
        <5>1. CASE k.op.kind = "infoByHash"
          BY <3>4, <4>1, <4>3, <4>4, <5>1 DEF Confirmed
        <5>2. CASE k.op.kind = "infoByNum"
          BY <3>4, <4>1, <4>3, <4>4, <5>2 DEF Confirmed
        <5>3. QED
          BY <2>3, <5>1, <5>2 DEF InfoKinds
      <4>6. head - k.got[1] + 1 >= MinConfirmations
        BY <3>4, <4>3, <4>4, <4>5
      <4>7. QED
        BY <3>6, <4>3, <4>6
    <3>9. QED
      BY <3>7, <3>8 DEF ResultTrue
  <2>4. CASE k.op.kind \notin TransferKinds \cup InfoKinds
    <3>1. last = [n |-> k.n, op |-> k.op, error |-> ""]
      BY <2>4 DEF TransferKinds, InfoKinds, last
    <3>2. last.op = k.op
      BY <3>1
    <3>3. QED
      BY <2>4, <3>2 DEF ResultTrue
  <2>5. QED
    BY <2>2, <2>3, <2>4
<1>10. QED
  BY <1>3, <1>5, <1>6, <1>7, <1>8, <1>9

IsError(error) == error # ""

\* A failed call ends the operation with an error, or is block 0 for an info.
LEMMA FailedReports ==
    ASSUME ShapeInv, ReportInv, NEW c \in Callers, Busy(c), NEW error, IsError(error),
           Failed(c, error)
    PROVE  /\ Busy(c)' => InfoTrue(call'[c])
           /\ \A r \in results' : ResultTrue(r)
<1>1. CASE Method(call[c]) = "eth_blockNumber"
  <2>1. Continue(c, 0)
    BY <1>1 DEF Failed
  <2>2. Request(c).method = "eth_blockNumber" /\ head \in Nat
    BY <1>1 DEF Request, ReportInv
  <2>3. ValueTrue(Request(c), 0)
    <3>1. 0 \in 0 .. head
      BY <2>2
    <3>2. ASSUME NEW q, NEW v, q.method = "eth_blockNumber", v \in 0 .. head
          PROVE  ValueTrue(q, v)
      BY <3>2 DEF ValueTrue
    <3>3. QED
      BY <2>2, <3>1, <3>2
  <2>4. QED
    BY <2>1, <2>3, ContinueReports
<1>2. CASE Method(call[c]) # "eth_blockNumber"
  <2> DEFINE r == [n |-> call[c].n, op |-> call[c].op, error |-> error]
  <2>1. call' = [call EXCEPT ![c] = Idle] /\ results' = results \cup {r}
    BY <1>2 DEF Failed, ReturnError, Return
  <2>2. r.error # ""
    BY DEF IsError
  <2> HIDE DEF r
  <2>3. ResultTrue(r)
    BY <2>2 DEF ResultTrue
  <2>4. ~Busy(c)'
    BY <2>1 DEF ShapeInv, Busy
  <2>5. QED
    BY <2>1, <2>3, <2>4 DEF ReportInv
<1>3. QED
  BY <1>1, <1>2

\* The reply to a caller's request is the one that it reads.
LEMMA ReceivedOwn ==
    ASSUME ShapeInv, SocketInv, NEW c \in Callers, call[c].at = "wait",
           NEW i \in DOMAIN outbox,
           IF transport = "ipc" THEN i = 1 ELSE outbox[i].of = Request(c)
    PROVE  outbox[i].of = Request(c)
<1>1. CASE transport = "ipc"
  <2>1. IsSeq(outbox) /\ DOMAIN outbox = 1 .. Len(outbox) /\ Len(outbox) \in Nat
    BY LenOf DEF ShapeInv
  <2>2. Len(outbox) # 0 /\ i = 1
    BY <1>1, <2>1
  <2>3. OwnsSocket(c)
    BY DEF OwnsSocket, Busy, Idle
  <2>4. Flight(c)
    BY <1>1, <2>2, <2>3, OwnerAlone DEF Silent
  <2>5. QED
    BY <2>2, <2>4 DEF Flight
<1>2. CASE transport # "ipc"
  BY <1>2
<1>3. QED
  BY <1>1, <1>2

\* What the node answers is true of it when it has answered.
LEMMA ServeTrue ==
    ASSUME Serve, ReportInv
    PROVE  \E i : \E reply \in Replies(inbox[i]) :
              /\ outbox' = Append(outbox, reply) \/ outbox' = outbox
              /\ reply.kind = "ok" => ValueTrue(reply.of, reply.value)'
<1>1. PICK i :
         /\ \E reply \in Replies(inbox[i]) :
               outbox' = IF transport = "ipc" \/ Awaited(inbox[i]) THEN Append(outbox, reply)
                         ELSE outbox
         /\ IF inbox[i].method # "eth_sendRawTransaction" THEN TRUE
            ELSE IF Accepts(inbox[i].tx) THEN accepted' = accepted \cup {inbox[i].tx}
            ELSE TRUE
  BY DEF Serve
<1>2. PICK reply \in Replies(inbox[i]) : outbox' = Append(outbox, reply) \/ outbox' = outbox
  BY <1>1
<1>3. head' = head /\ block' = block
  BY DEF Serve
<1>4. ASSUME reply.kind = "ok" PROVE ValueTrue(reply.of, reply.value)'
  <2> DEFINE q == inbox[i]
             v == reply.value
  <2>1. reply.of = q /\ v \in Values(q)
    <3>1. CASE Values(q) # {}
      BY <3>1 DEF Replies, Reply
    <3>2. CASE Values(q) = {}
      BY <1>4, <3>2 DEF Replies, Reply
    <3>3. QED
      BY <3>1, <3>2
  <2>2. q.method = "eth_sendRawTransaction" /\ Accepts(q.tx) => q.tx \in accepted'
    BY <1>1
  <2> HIDE DEF q, v
  <2>3. q.method = "eth_sendRawTransaction" => v = q.tx.n /\ q.tx \in accepted'
    BY <2>1, <2>2 DEF Values
  <2>4. q.method = "eth_getTransactionByHash" => v = 0 \/ Mined(q.hash, v)
    BY <2>1 DEF Values, Mined
  <2>5. q.method = "eth_getTransactionByBlockNumberAndIndex" => Mined(q.hash, v)
    BY <2>1 DEF Values, Mined
  <2>6. q.method = "eth_blockNumber" => v \in 0 .. head
    <3>1. q.method = "eth_blockNumber" => v = head
      BY <2>1 DEF Values
    <3>2. head \in Nat
      BY DEF ReportInv
    <3>3. QED
      BY <3>1, <3>2
  <2>7. QED
    BY <1>3, <2>1, <2>3, <2>4, <2>5, <2>6 DEF ValueTrue, Mined, v
<1>5. QED
  BY <1>2, <1>4

LEMMA ReportInitial == Init => ReportInv
<1> SUFFICES ASSUME Init PROVE ReportInv
  OBVIOUS
<1>1. head \in Nat /\ block = [n \in {} |-> 0] /\ outbox = <<>> /\ results = {}
  BY DEF Init, UrpcInit
<1>2. \A c \in Callers : ~Busy(c)
  BY DEF Init, Busy
<1>3. QED
  BY <1>1, <1>2 DEF ReportInv, OnTheWay

\* Replies that a step leaves in the outbox stay true.
LEMMA TakenStayTrue ==
    ASSUME [Next]_vars, ReportInv, Taken(outbox, outbox')
    PROVE  \A r \in OnTheWay' : ReplyTrue(r)'
<1>1. \A r : ReplyTrue(r) => ReplyTrue(r)'
  BY TruthStays DEF ReplyTrue
<1>2. PICK place \in [DOMAIN outbox' -> DOMAIN outbox] :
          \A i \in DOMAIN outbox' : outbox'[i] = outbox[place[i]]
  BY DEF Taken
<1>3. OnTheWay' \subseteq OnTheWay
  BY <1>2 DEF OnTheWay
<1>4. QED
  BY <1>1, <1>3 DEF ReportInv

LEMMA ReportNext == ShapeInv /\ SocketInv /\ ReportInv /\ [Next]_vars => ReportInv'
<1> SUFFICES ASSUME ShapeInv, SocketInv, ReportInv, [Next]_vars PROVE ReportInv'
  OBVIOUS
<1> DEFINE Replies1 == \A r \in OnTheWay' : ReplyTrue(r)'
           Infos1 == \A c \in Callers : Busy(c)' => InfoTrue(call[c])'
           Results1 == \A r \in results' : ResultTrue(r)'
<1>1. /\ head \in Nat /\ head' \in Nat /\ head <= head'
      /\ \A k : InfoTrue(k) => InfoTrue(k)'
      /\ \A r : ResultTrue(r) => ResultTrue(r)'
  BY NodeGrows, TruthStays DEF ReportInv
<1>2. \A n \in DOMAIN block' : block'[n] \in 1 .. head'
  <2>1. CASE block' = block
    BY <1>1, <2>1 DEF ReportInv
  <2>2. CASE Mine
    <3>1. PICK S : block' = [n \in S |-> IF n \in DOMAIN block THEN block[n] ELSE head']
      BY <2>2 DEF Mine
    <3>2. head' = head + 1
      BY <2>2 DEF Mine
    <3>3. QED
      BY <1>1, <3>1, <3>2 DEF ReportInv
  <2>3. Mine \/ block' = block
    BY DEF Next, Start, StartAdd, Step, Locked, Sent, Received, CallFailed, AddSteps, Serve,
           Replace, Broken, vars, nodeVars
  <2>4. QED
    BY <2>1, <2>2, <2>3
<1>3. ASSUME call' = call PROVE Infos1
  BY <1>1, <1>3 DEF ReportInv, Busy
<1>4. ASSUME results' = results PROVE Results1
  BY <1>1, <1>4 DEF ReportInv
<1>5. ASSUME outbox' = outbox PROVE Replies1
  <2>1. Taken(outbox, outbox')
    BY <1>5, SameTakes DEF ShapeInv
  <2>2. QED
    BY <2>1, TakenStayTrue
<1>6. ASSUME NEW c \in Callers, \A d \in Callers \ {c} : call'[d] = call[d],
             Busy(c)' => InfoTrue(call'[c])
      PROVE  Infos1
  BY <1>1, <1>6 DEF ReportInv, Busy
<1> DEFINE Goal == Replies1 /\ Infos1 /\ Results1
<1> HIDE DEF Replies1, Infos1, Results1
<1>7. ASSUME UNCHANGED <<outbox, call, results>> PROVE Goal
  BY <1>3, <1>4, <1>5, <1>7
<1>8. ASSUME NEW c \in Callers, Start(c) PROVE Goal
  <2>1. /\ \A d \in Callers \ {c} : call'[d] = call[d]
        /\ outbox' = outbox /\ results' = results /\ call'[c].got = <<>>
    BY <1>8, StartShape DEF urpcVars
  <2>2. InfoTrue(call'[c])
    BY <2>1 DEF InfoTrue
  <2>3. QED
    BY <1>4, <1>5, <1>6, <2>1, <2>2
<1>9. ASSUME NEW c \in Callers, NEW w \in {"send", "wait"}, Busy(c),
             call' = [call EXCEPT ![c].at = w]
      PROVE  Infos1
  <2>1. /\ \A d \in Callers \ {c} : call'[d] = call[d]
        /\ call'[c].op = call[c].op /\ call'[c].hash = call[c].hash
        /\ call'[c].got = call[c].got
    BY <1>9, CallMoves
  <2>2. InfoTrue(call[c])
    BY <1>9 DEF ReportInv
  <2>3. InfoTrue(call'[c])
    BY <2>1, <2>2 DEF InfoTrue
  <2>4. QED
    BY <1>6, <2>1, <2>3
<1>10. ASSUME NEW c \in Callers, Locked(c) PROVE Goal
  <2>1. /\ Busy(c) /\ call' = [call EXCEPT ![c].at = "send"]
        /\ UNCHANGED <<outbox, results>>
    BY <1>10 DEF Locked, Lock, Busy, Idle
  <2>2. QED
    BY <1>4, <1>5, <1>9, <2>1
<1>11. ASSUME NEW c \in Callers, Sent(c) PROVE Goal
  <2>1. /\ Busy(c) /\ call' = [call EXCEPT ![c].at = "wait"]
        /\ UNCHANGED <<outbox, results>>
    BY <1>11 DEF Sent, Send, Busy, Idle
  <2>2. QED
    BY <1>4, <1>5, <1>9, <2>1
<1>12. ASSUME NEW c \in Callers, Received(c) PROVE Goal
  <2>1. PICK reply \in ToSet(outbox) :
            /\ Receive(Request(c), reply)
            /\ \/ \E error : IsError(error) /\ Failed(c, error)
               \/ reply.kind = "ok" /\ Continue(c, reply.value)
    BY <1>12 DEF Received, IsError
  <2>2. Busy(c) /\ call[c].at = "wait"
    BY <1>12 DEF Received, Busy, Idle
  <2>3. PICK i \in DOMAIN outbox :
            /\ IF transport = "ipc" THEN i = 1 ELSE outbox[i].of = Request(c)
            /\ reply = outbox[i] /\ outbox' = RemoveAt(outbox, i)
    BY <2>1 DEF Receive
  <2>4. reply.of = Request(c)
    BY <2>2, <2>3, ReceivedOwn
  <2>5. reply.kind = "ok" => ValueTrue(Request(c), reply.value)
    BY <2>3, <2>4 DEF ReportInv, OnTheWay, ReplyTrue
  <2>6. /\ Busy(c)' => InfoTrue(call'[c])
        /\ \A r \in results' : ResultTrue(r)
    BY <2>1, <2>2, <2>5, ContinueReports, FailedReports
  <2>7. \A d \in Callers \ {c} : call'[d] = call[d]
    BY <1>12, ReceivedAdvances
  <2>8. Taken(outbox, outbox')
    BY <2>3, RemoveAtTakes DEF ShapeInv
  <2>9. Replies1
    BY <2>8, TakenStayTrue DEF Replies1
  <2>10. Results1
    BY <1>1, <2>6 DEF Results1
  <2>11. QED
    BY <1>6, <2>6, <2>7, <2>9, <2>10
<1>13. ASSUME NEW c \in Callers, CallFailed(c) PROVE Goal
  <2>1. /\ Busy(c) /\ Taken(outbox, outbox')
        /\ \A d \in Callers \ {c} : call'[d] = call[d]
    BY <1>13, CallFailedAdvances
  <2>2. Failed(c, "transport") /\ IsError("transport")
    BY <1>13 DEF CallFailed, IsError
  <2>3. /\ Busy(c)' => InfoTrue(call'[c])
        /\ \A r \in results' : ResultTrue(r)
    BY <2>1, <2>2, FailedReports
  <2>4. Replies1
    BY <2>1, TakenStayTrue DEF Replies1
  <2>5. Results1
    BY <1>1, <2>3 DEF Results1
  <2>6. QED
    BY <1>6, <2>1, <2>3, <2>4, <2>5
<1>14. ASSUME NEW reply, outbox' = Append(outbox, reply), ReplyTrue(reply)' PROVE Replies1
  <2>1. /\ Len(outbox) \in Nat /\ DOMAIN outbox = 1 .. Len(outbox)
        /\ DOMAIN outbox' = 1 .. Len(outbox) + 1
        /\ \A i \in 1 .. Len(outbox) : outbox'[i] = outbox[i]
        /\ outbox'[Len(outbox) + 1] = reply
    BY <1>14, AppendIsSeq DEF ShapeInv
  <2>2. \A i \in DOMAIN outbox' : i \in DOMAIN outbox \/ i = Len(outbox) + 1
    BY <2>1
  <2>3. OnTheWay' \subseteq OnTheWay \cup {reply}
    BY <2>1, <2>2 DEF OnTheWay
  <2>4. \A r : ReplyTrue(r) => ReplyTrue(r)'
    BY TruthStays DEF ReplyTrue
  <2>5. QED
    BY <1>14, <2>3, <2>4 DEF ReportInv, Replies1
<1>15. ASSUME Serve PROVE Goal
  <2>1. UNCHANGED <<call, results>>
    BY <1>15 DEF Serve
  <2>2. PICK reply : /\ outbox' = Append(outbox, reply) \/ outbox' = outbox
                     /\ ReplyTrue(reply)'
    BY <1>15, ServeTrue DEF ReplyTrue
  <2>3. QED
    BY <1>3, <1>4, <1>5, <1>14, <2>1, <2>2
<1>16. ASSUME Replace PROVE Goal
  <2>1. UNCHANGED <<call, results>>
    BY <1>16 DEF Replace
  <2>2. PICK reply : outbox' = Append(outbox, reply) /\ reply.kind # "ok"
    BY <1>16 DEF Replace, Reply
  <2>3. ReplyTrue(reply)'
    BY <2>2 DEF ReplyTrue
  <2>4. QED
    BY <1>3, <1>4, <1>14, <2>1, <2>2, <2>3
<1>17. ASSUME Broken PROVE Goal
  <2>1. UNCHANGED <<call, results>> /\ outbox' \in {<<>>, outbox}
    BY <1>17 DEF Broken, Break
  <2>2. Taken(outbox, outbox')
    BY <2>1, SameTakes DEF ShapeInv
  <2>3. Replies1
    BY <2>2, TakenStayTrue DEF Replies1
  <2>4. QED
    BY <1>3, <1>4, <2>1, <2>3
<1>18. ASSUME NEW c \in Callers, StartAdd(c) \/ AddSteps(c)
       PROVE  UNCHANGED <<outbox, call, results>>
  BY <1>18 DEF StartAdd, AddSteps, urpcVars
<1>19. ASSUME Mine \/ UNCHANGED vars PROVE UNCHANGED <<outbox, call, results>>
  BY <1>19 DEF Mine, vars, urpcVars
<1>20. Goal
  BY <1>7, <1>8, <1>10, <1>11, <1>12, <1>13, <1>15, <1>16, <1>17, <1>18, <1>19
  DEF Next, Step
<1>21. QED
  BY <1>1, <1>2, <1>20 DEF ReportInv, Replies1, Infos1, Results1

\* Whatever breaks or comes late: a transfer that returns a hash was taken by the node with
\* the amount that was asked for (SendRawTransaction), and what is reported as confirmed is
\* in a block and has the configured number of blocks on it (TransferInfoByHash,
\* TransferInfoByNum), also when the call for the head failed.
THEOREM ReportsAreTrue == Spec => []ReportsTrue
<1> DEFINE I == ShapeInv /\ SocketInv /\ ReportInv
<1>1. Init => I
  BY ShapeInitial, SocketInitial, ReportInitial
<1>2. I /\ [Next]_vars => I'
  BY ShapeNext, SocketNext, ReportNext
<1>3. I => ReportsTrue
  BY DEF ReportInv, ResultTrue, ReportsTrue, ReportedSent, ConfirmedIsDeep, TransferKinds,
         InfoKinds
<1>4. QED
  BY <1>1, <1>2, <1>3, PTL DEF Spec

-----------------------------------------------------------------------------
(***************************************************************************)
(* Every transaction is sent once.  An operation has a number of its own;  *)
(* its transaction, which carries that number, is on its way or taken by   *)
(* the node only after the operation has sent it.                          *)
(***************************************************************************)
IsSend(q) == q.method = "eth_sendRawTransaction"

Sending(n) == \E i \in DOMAIN inbox : IsSend(inbox[i]) /\ inbox[i].tx.n = n
Took(n) == \E t \in accepted : t.n = n

\* Operation k has not sent its transaction.
Unsent(k) == ~(Len(k.got) = 5 /\ k.at = "wait")

FreshInv ==
    /\ started \in Nat
    /\ \A c \in Callers : Busy(c) => call[c].n \in 1 .. started
    /\ \A c, d \in Callers : Busy(c) /\ Busy(d) /\ call[c].n = call[d].n => c = d
    /\ \A n : Sending(n) \/ Took(n) => n \in 1 .. started
    /\ \A n : ~(Sending(n) /\ Took(n))
    /\ \A i, j \in DOMAIN inbox :
          (IsSend(inbox[i]) /\ IsSend(inbox[j]) /\ inbox[i].tx.n = inbox[j].tx.n) => i = j
    /\ \A c \in Callers :
          Busy(c) /\ Unsent(call[c]) => ~Sending(call[c].n) /\ ~Took(call[c].n)

\* The operations that are left were there, and have unsent nothing.
CallsKept ==
    \A d \in Callers : Busy(d)' =>
        Busy(d) /\ call'[d].n = call[d].n /\ (Unsent(call'[d]) => Unsent(call[d]))

LEMMA FreshKept ==
    ASSUME FreshInv, CallsKept, Taken(inbox, inbox'), accepted' = accepted,
           started' = started \/ started' = started + 1
    PROVE  FreshInv'
<1>1. PICK place \in [DOMAIN inbox' -> DOMAIN inbox] :
         /\ \A i \in DOMAIN inbox' : inbox'[i] = inbox[place[i]]
         /\ \A i, j \in DOMAIN inbox' : place[i] = place[j] => i = j
  BY DEF Taken
<1>2. \A n : (Sending(n)' => Sending(n)) /\ (Took(n)' <=> Took(n))
  BY <1>1 DEF Sending, Took
<1>3. started' \in Nat /\ \A n \in 1 .. started : n \in 1 .. started'
  BY DEF FreshInv
<1>4. \A i, j \in DOMAIN inbox' :
         (IsSend(inbox'[i]) /\ IsSend(inbox'[j]) /\ inbox'[i].tx.n = inbox'[j].tx.n) => i = j
  BY <1>1 DEF FreshInv
<1>5. /\ \A c \in Callers : Busy(c)' => call'[c].n \in 1 .. started'
      /\ \A c, d \in Callers : Busy(c)' /\ Busy(d)' /\ call'[c].n = call'[d].n => c = d
  BY <1>3 DEF FreshInv, CallsKept
<1>6. /\ \A n : Sending(n)' \/ Took(n)' => n \in 1 .. started'
      /\ \A n : ~(Sending(n)' /\ Took(n)')
  BY <1>2, <1>3 DEF FreshInv
<1>7. ASSUME NEW c \in Callers, Busy(c)', Unsent(call'[c])
      PROVE  (~Sending(call[c].n) /\ ~Took(call[c].n))'
  <2>1. Busy(c) /\ Unsent(call[c]) /\ call'[c].n = call[c].n
    BY <1>7 DEF CallsKept
  <2>2. ~Sending(call[c].n) /\ ~Took(call[c].n)
    BY <2>1 DEF FreshInv
  <2>3. QED
    BY <1>2, <2>1, <2>2
<1>8. QED
  BY <1>3, <1>4, <1>5, <1>6, <1>7 DEF FreshInv, IsSend, Unsent

\* An operation sends its transaction with its sixth call.
LEMMA SendIsLast ==
    ASSUME ShapeInv, NEW c \in Callers, Busy(c), IsSend(Request(c))
    PROVE  /\ Len(call[c].got) = 5 /\ call[c].op.kind \in TransferKinds
           /\ Request(c).tx = Transaction(call[c]) /\ Request(c).tx.n = call[c].n
           /\ Request(c).tx.nonce = call[c].got[4]
<1>1. Method(call[c]) = "eth_sendRawTransaction" /\ CallShape(call[c])
  BY DEF IsSend, Request, ShapeInv
<1>2. Request(c).tx = Transaction(call[c])
  BY <1>1 DEF Request
<1>3. Transaction(call[c]).n = call[c].n /\ Transaction(call[c]).nonce = call[c].got[4]
  BY DEF Transaction
<1>4. QED
  BY <1>1, <1>2, <1>3, MethodOf

\* An operation that goes on had not sent its transaction.
LEMMA AdvancedUnsent ==
    ASSUME ShapeInv, NEW c \in Callers, Busy(c), NEW value, Advanced(c, value)
    PROVE  Unsent(call[c])
<1>1. CallShape(call[c]) /\ CallShape(call'[c]) /\ call'[c].op = call[c].op
  BY DEF ShapeInv, Advanced
<1>2. Len(call'[c].got) = Len(call[c].got) + 1 /\ Len(call[c].got) \in Nat
  BY <1>1, AppendIsSeq DEF Advanced, CallShape
<1> DEFINE m == Len(call[c].got)
           l == Len(Script(call[c].op))
<1>3. l \in 1 .. 6
  BY <1>1, NodeClientAssumption DEF CallShape, Script
<1>4. Len(call'[c].got) < l
  BY <1>1 DEF CallShape
<1>5. m + 1 < l /\ m \in Nat
  BY <1>2, <1>4
<1> HIDE DEF m, l
<1>6. m # 5
  BY <1>3, <1>5
<1>7. QED
  BY <1>6 DEF Unsent, m

\* What is left without element i are the others.
LEMMA RemoveAtOthers ==
    ASSUME NEW s, IsSeq(s), NEW i \in DOMAIN s
    PROVE  \A j \in DOMAIN RemoveAt(s, i) :
               \E m \in DOMAIN s : m # i /\ RemoveAt(s, i)[j] = s[m]
<1> DEFINE t == RemoveAt(s, i)
<1>1. /\ Len(s) \in Nat /\ DOMAIN s = 1 .. Len(s) /\ DOMAIN t = 1 .. Len(s) - 1
      /\ \A j \in 1 .. Len(s) - 1 : t[j] = IF j < i THEN s[j] ELSE s[j + 1]
  BY RemoveAtIsSeq
<1> HIDE DEF t
<1>2. ASSUME NEW j \in DOMAIN t PROVE \E m \in DOMAIN s : m # i /\ t[j] = s[m]
  <2>1. CASE j < i
    BY <1>1, <2>1
  <2>2. CASE ~(j < i)
    <3>1. j + 1 \in DOMAIN s /\ j + 1 # i
      BY <1>1, <2>2
    <3>2. QED
      BY <1>1, <2>2, <3>1
  <2>3. QED
    BY <2>1, <2>2
<1>3. QED
  BY <1>2 DEF t

LEMMA FreshInitial == Init => FreshInv
<1> SUFFICES ASSUME Init PROVE FreshInv
  OBVIOUS
<1>1. started = 0 /\ inbox = <<>> /\ accepted = {}
  BY DEF Init, UrpcInit
<1>2. \A c \in Callers : ~Busy(c)
  BY DEF Init, Busy
<1>3. \A n : ~Sending(n) /\ ~Took(n)
  BY <1>1 DEF Sending, Took
<1>4. QED
  BY <1>1, <1>2, <1>3 DEF FreshInv

\* Sending keeps every transaction sent once.
LEMMA FreshSent ==
    ASSUME ShapeInv, FreshInv, NEW c \in Callers, Sent(c)
    PROVE  FreshInv'
<1> DEFINE q == Request(c)
<1>1. /\ Busy(c) /\ call[c].at = "send" /\ inbox' = Append(inbox, q)
      /\ call' = [call EXCEPT ![c].at = "wait"]
      /\ accepted' = accepted /\ started' = started
  BY DEF Sent, Send, Busy, Idle, nodeVars
<1>2. /\ \A d \in Callers \ {c} : call'[d] = call[d]
      /\ call'[c].n = call[c].n /\ call'[c].got = call[c].got /\ call'[c].at = "wait"
  BY <1>1, CallMoves
<1>3. ~Sending(call[c].n) /\ ~Took(call[c].n) /\ call[c].n \in 1 .. started
  BY <1>1 DEF FreshInv, Unsent
<1>4. IsSend(q) => q.tx.n = call[c].n /\ Len(call[c].got) = 5
  BY <1>1, SendIsLast
<1> HIDE DEF q
<1>5. /\ Len(inbox) \in Nat /\ DOMAIN inbox = 1 .. Len(inbox)
      /\ DOMAIN inbox' = 1 .. Len(inbox) + 1
      /\ \A i \in 1 .. Len(inbox) : inbox'[i] = inbox[i]
      /\ inbox'[Len(inbox) + 1] = q
  BY <1>1, AppendIsSeq DEF ShapeInv
<1>6. \A i \in DOMAIN inbox' : i \in DOMAIN inbox \/ i = Len(inbox) + 1
  BY <1>5
<1>7. \A n : Sending(n)' => Sending(n) \/ (IsSend(q) /\ n = call[c].n)
  BY <1>4, <1>5, <1>6 DEF Sending
<1>8. \A n : Took(n)' <=> Took(n)
  BY <1>1 DEF Took
<1>9. \A i, j \in DOMAIN inbox' :
         (IsSend(inbox'[i]) /\ IsSend(inbox'[j]) /\ inbox'[i].tx.n = inbox'[j].tx.n) => i = j
  <2> SUFFICES ASSUME NEW i \in DOMAIN inbox', NEW j \in DOMAIN inbox',
                      IsSend(inbox'[i]), IsSend(inbox'[j]), inbox'[i].tx.n = inbox'[j].tx.n
               PROVE  i = j
    OBVIOUS
  <2>1. CASE i \in DOMAIN inbox /\ j \in DOMAIN inbox
    BY <1>5, <2>1 DEF FreshInv
  <2>2. ASSUME NEW m \in DOMAIN inbox, IsSend(inbox[m]), IsSend(q), inbox[m].tx.n = q.tx.n
        PROVE  FALSE
    BY <1>3, <1>4, <2>2 DEF Sending
  <2>3. QED
    BY <1>5, <1>6, <2>1, <2>2
<1>10. \A d \in Callers : (Busy(d)' => Busy(d)) /\ call'[d].n = call[d].n
  BY <1>1, <1>2 DEF Busy
<1>11. ASSUME NEW d \in Callers, Busy(d)', Unsent(call'[d])
       PROVE  (~Sending(call[d].n) /\ ~Took(call[d].n))'
  <2>1. CASE d = c
    <3>1. ~IsSend(q)
      BY <1>2, <1>4, <1>11, <2>1 DEF Unsent
    <3>2. QED
      BY <1>2, <1>3, <1>7, <1>8, <2>1, <3>1
  <2>2. CASE d # c
    <3>1. Busy(d) /\ Unsent(call[d]) /\ call'[d] = call[d]
      BY <1>2, <1>11, <2>2 DEF Busy
    <3>2. ~Sending(call[d].n) /\ ~Took(call[d].n) /\ call[d].n # call[c].n
      BY <1>1, <2>2, <3>1 DEF FreshInv
    <3>3. QED
      BY <1>7, <1>8, <3>1, <3>2
  <2>3. QED
    BY <2>1, <2>2
<1>12. \A n : Sending(n)' \/ Took(n)' => n \in 1 .. started'
  BY <1>1, <1>3, <1>7, <1>8 DEF FreshInv
<1>13. \A n : ~(Sending(n)' /\ Took(n)')
  BY <1>3, <1>7, <1>8 DEF FreshInv
<1>14. /\ started' \in Nat
       /\ \A d \in Callers : Busy(d)' => call'[d].n \in 1 .. started'
       /\ \A d, e \in Callers : Busy(d)' /\ Busy(e)' /\ call'[d].n = call'[e].n => d = e
  BY <1>1, <1>10 DEF FreshInv
<1>15. QED
  BY <1>9, <1>11, <1>12, <1>13, <1>14 DEF FreshInv, IsSend, Unsent

\* A new operation has the next number.
LEMMA FreshStart ==
    ASSUME ShapeInv, FreshInv, NEW c \in Callers, Start(c)
    PROVE  FreshInv'
<1>1. /\ started' = started + 1 /\ inbox' = inbox /\ accepted' = accepted
      /\ \A d \in Callers \ {c} : call'[d] = call[d]
      /\ call'[c].n = started + 1
  BY StartShape DEF urpcVars, nodeVars
<1>2. \A n : (Sending(n)' <=> Sending(n)) /\ (Took(n)' <=> Took(n))
  BY <1>1 DEF Sending, Took
<1>3. /\ started \in Nat /\ started' \in Nat
      /\ \A n \in 1 .. started : n \in 1 .. started' /\ n # started + 1
      /\ started + 1 \in 1 .. started'
  BY <1>1 DEF FreshInv
<1>4. \A d \in Callers \ {c} : Busy(d)' => Busy(d) /\ call'[d] = call[d]
  BY <1>1 DEF Busy
<1>5. \A d \in Callers \ {c} : Busy(d)' => call'[d].n \in 1 .. started
  BY <1>4 DEF FreshInv
<1>6. ~Sending(started + 1) /\ ~Took(started + 1)
  BY <1>3 DEF FreshInv
<1>7. \A d, e \in Callers : Busy(d)' /\ Busy(e)' /\ call'[d].n = call'[e].n => d = e
  <2> SUFFICES ASSUME NEW d \in Callers, NEW e \in Callers, Busy(d)', Busy(e)',
                      call'[d].n = call'[e].n
               PROVE  d = e
    OBVIOUS
  <2>1. CASE d # c /\ e # c
    BY <1>4, <2>1 DEF FreshInv
  <2>2. CASE d = c /\ e # c
    BY <1>1, <1>3, <1>5, <2>2
  <2>3. CASE d # c /\ e = c
    BY <1>1, <1>3, <1>5, <2>3
  <2>4. QED
    BY <2>1, <2>2, <2>3
<1>8. ASSUME NEW d \in Callers, Busy(d)', Unsent(call'[d])
      PROVE  (~Sending(call[d].n) /\ ~Took(call[d].n))'
  <2>1. CASE d = c
    BY <1>1, <1>2, <1>6, <2>1
  <2>2. CASE d # c
    <3>1. Busy(d) /\ Unsent(call[d]) /\ call'[d] = call[d]
      BY <1>4, <1>8, <2>2
    <3>2. ~Sending(call[d].n) /\ ~Took(call[d].n)
      BY <3>1 DEF FreshInv
    <3>3. QED
      BY <1>2, <3>1, <3>2
  <2>3. QED
    BY <2>1, <2>2
<1>9. \A d \in Callers : Busy(d)' => call'[d].n \in 1 .. started'
  BY <1>1, <1>3, <1>5
<1>10. /\ \A n : Sending(n)' \/ Took(n)' => n \in 1 .. started'
       /\ \A n : ~(Sending(n)' /\ Took(n)')
  BY <1>2, <1>3 DEF FreshInv
<1>11. \A i, j \in DOMAIN inbox' :
         (IsSend(inbox'[i]) /\ IsSend(inbox'[j]) /\ inbox'[i].tx.n = inbox'[j].tx.n) => i = j
  BY <1>1 DEF FreshInv
<1>12. QED
  BY <1>3, <1>7, <1>8, <1>9, <1>10, <1>11 DEF FreshInv, IsSend, Unsent

\* A transaction that the node takes is on its way no more.
LEMMA FreshServe ==
    ASSUME ShapeInv, FreshInv, Serve
    PROVE  FreshInv'
<1>1. UNCHANGED <<call, started>>
  BY DEF Serve
<1>2. PICK i \in DOMAIN inbox :
         /\ inbox' = RemoveAt(inbox, i)
         /\ \/ accepted' = accepted
            \/ IsSend(inbox[i]) /\ accepted' = accepted \cup {inbox[i].tx}
  <2>1. inbox # <<>>
    BY DEF Serve
  <2>2. 1 \in DOMAIN inbox
    BY <2>1, TailIsRemoveAt DEF ShapeInv
  <2>3. QED
    BY <2>2 DEF Serve, IsSend
<1>3. Taken(inbox, inbox')
  BY <1>2, RemoveAtTakes DEF ShapeInv
<1>4. CASE accepted' = accepted
  <2>1. CallsKept
    BY <1>1 DEF CallsKept, Busy
  <2>2. QED
    BY <1>1, <1>3, <1>4, <2>1, FreshKept
<1>5. CASE IsSend(inbox[i]) /\ accepted' = accepted \cup {inbox[i].tx}
  <2> DEFINE n0 == inbox[i].tx.n
  <2>1. Sending(n0)
    BY <1>2, <1>5 DEF Sending
  <2>2. \A j \in DOMAIN inbox' : \E m \in DOMAIN inbox : m # i /\ inbox'[j] = inbox[m]
    BY <1>2, RemoveAtOthers DEF ShapeInv
  <2>3. \A m \in DOMAIN inbox : m # i /\ IsSend(inbox[m]) => inbox[m].tx.n # n0
    BY <1>5 DEF FreshInv
  <2>4. \A n : Took(n)' <=> Took(n) \/ n = n0
    BY <1>5 DEF Took
  <2> HIDE DEF n0
  <2>5. \A n : Sending(n)' => Sending(n) /\ n # n0
    BY <2>2, <2>3 DEF Sending
  <2>6. PICK place \in [DOMAIN inbox' -> DOMAIN inbox] :
           /\ \A j \in DOMAIN inbox' : inbox'[j] = inbox[place[j]]
           /\ \A j, m \in DOMAIN inbox' : place[j] = place[m] => j = m
    BY <1>3 DEF Taken
  <2>7. \A j, m \in DOMAIN inbox' :
           (IsSend(inbox'[j]) /\ IsSend(inbox'[m]) /\ inbox'[j].tx.n = inbox'[m].tx.n) => j = m
    BY <2>6 DEF FreshInv
  <2>8. /\ \A n : Sending(n)' \/ Took(n)' => n \in 1 .. started
        /\ \A n : ~(Sending(n)' /\ Took(n)')
    BY <2>1, <2>4, <2>5 DEF FreshInv
  <2>9. ASSUME NEW c \in Callers, Busy(c)', Unsent(call'[c])
        PROVE  (~Sending(call[c].n) /\ ~Took(call[c].n))'
    <3>1. Busy(c) /\ Unsent(call[c]) /\ call'[c] = call[c]
      BY <1>1, <2>9 DEF Busy
    <3>2. ~Sending(call[c].n) /\ ~Took(call[c].n)
      BY <3>1 DEF FreshInv
    <3>3. call[c].n # n0
      BY <2>1, <3>2
    <3>4. QED
      BY <2>4, <2>5, <3>1, <3>2, <3>3
  <2>10. /\ started' \in Nat
         /\ \A d \in Callers : Busy(d)' => call'[d].n \in 1 .. started'
         /\ \A d, e \in Callers : Busy(d)' /\ Busy(e)' /\ call'[d].n = call'[e].n => d = e
    BY <1>1 DEF FreshInv, Busy
  <2>11. QED
    BY <1>1, <2>7, <2>8, <2>9, <2>10 DEF FreshInv, IsSend, Unsent
<1>6. QED
  BY <1>2, <1>4, <1>5

LEMMA FreshNext == ShapeInv /\ FreshInv /\ [Next]_vars => FreshInv'
<1> SUFFICES ASSUME ShapeInv, FreshInv, [Next]_vars PROVE FreshInv'
  OBVIOUS
<1>1. Taken(inbox, inbox)
  BY SameTakes DEF ShapeInv
<1>2. ASSUME call' = call PROVE CallsKept
  BY <1>2 DEF CallsKept, Busy
<1>3. ASSUME NEW c \in Callers, StartAdd(c) \/ AddSteps(c) PROVE FreshInv'
  <2>1. /\ UNCHANGED <<call, inbox, accepted>>
        /\ started' = started \/ started' = started + 1
    BY <1>3 DEF StartAdd, AddSteps, urpcVars, nodeVars
  <2>2. QED
    BY <1>1, <1>2, <2>1, FreshKept
<1>4. ASSUME NEW c \in Callers, Locked(c) PROVE FreshInv'
  <2>1. /\ Busy(c) /\ call[c].at = "lock" /\ call' = [call EXCEPT ![c].at = "send"]
        /\ UNCHANGED <<inbox, accepted, started>>
    BY <1>4 DEF Locked, Lock, Busy, Idle, nodeVars
  <2>2. /\ call'[c].n = call[c].n
        /\ \A d \in Callers \ {c} : call'[d] = call[d]
    BY <2>1, CallMoves
  <2>3. CallsKept
    BY <2>1, <2>2 DEF CallsKept, Busy, Unsent
  <2>4. QED
    BY <1>1, <2>1, <2>3, FreshKept
<1>5. ASSUME NEW c \in Callers, Busy(c), \A d \in Callers \ {c} : call'[d] = call[d],
             call'[c] = Idle \/ \E value : Advanced(c, value)
      PROVE  CallsKept
  <2>1. Busy(c)' => Unsent(call[c]) /\ call'[c].n = call[c].n
    BY <1>5, AdvancedUnsent DEF Advanced, Busy
  <2>2. QED
    BY <1>5, <2>1 DEF CallsKept, Busy
<1>6. ASSUME NEW c \in Callers, Received(c) PROVE FreshInv'
  <2>1. Busy(c) /\ UNCHANGED <<inbox, accepted, started>>
    BY <1>6 DEF Received, Receive, Busy, Idle, nodeVars
  <2>2. CallsKept
    BY <1>5, <1>6, <2>1, ReceivedAdvances
  <2>3. QED
    BY <1>1, <2>1, <2>2, FreshKept
<1>7. ASSUME NEW c \in Callers, CallFailed(c) PROVE FreshInv'
  <2>1. Busy(c) /\ UNCHANGED <<inbox, accepted, started>>
    BY <1>7, CallFailedAdvances DEF nodeVars
  <2>2. CallsKept
    BY <1>5, <1>7, CallFailedAdvances
  <2>3. QED
    BY <1>1, <2>1, <2>2, FreshKept
<1>8. ASSUME Replace \/ Broken PROVE FreshInv'
  <2>1. UNCHANGED <<call, accepted, started>>
    BY <1>8 DEF Replace, Broken, nodeVars
  <2>2. Taken(inbox, inbox')
    <3>1. CASE Replace
      BY <3>1, TailTakes DEF Replace, ShapeInv
    <3>2. CASE Broken
      BY <3>2, SameTakes DEF Broken, Break, ShapeInv
    <3>3. QED
      BY <1>8, <3>1, <3>2
  <2>3. QED
    BY <1>2, <2>1, <2>2, FreshKept
<1>9. ASSUME Mine \/ UNCHANGED vars PROVE FreshInv'
  <2>1. UNCHANGED <<call, inbox, accepted, started>>
    BY <1>9 DEF Mine, vars, urpcVars, nodeVars
  <2>2. QED
    BY <1>1, <1>2, <2>1, FreshKept
<1>10. QED
  BY <1>3, <1>4, <1>6, <1>7, <1>8, <1>9, FreshSent, FreshStart, FreshServe DEF Next, Step

-----------------------------------------------------------------------------
(***************************************************************************)
(* Nonces.  The pool of the node holds one transaction for every nonce     *)
(* from the number of mined ones up to Pending, which is what the node     *)
(* answers when a transfer asks for its nonce; Pending never falls, so a   *)
(* nonce that was read is at most Pending when its transaction arrives.    *)
(***************************************************************************)
Pending == MinedCount + Cardinality(pool)

PoolInv ==
    /\ IsFiniteSet(pool) /\ IsFiniteSet(DOMAIN block)
    /\ \A t \in pool : Took(t.n) /\ t.n \notin DOMAIN block
    /\ \A n \in DOMAIN block : Took(n)
    /\ \A t, u \in pool : t.n = u.n \/ t.nonce = u.nonce => t = u
    /\ \A t \in pool : t.nonce \in MinedCount .. Pending - 1
    /\ \A k \in MinedCount .. Pending - 1 : \E t \in pool : t.nonce = k

LEMMA PendingType ==
    ASSUME PoolInv
    PROVE  MinedCount \in Nat /\ Pending \in Nat /\ MinedCount <= Pending
<1>1. MinedCount \in Nat /\ Cardinality(pool) \in Nat
  BY FS_CardinalityType DEF PoolInv, MinedCount
<1>2. QED
  BY <1>1 DEF Pending

\* So every transaction that waits can be executed, and the node counts all of them.
LEMMA PoolExecutable == PoolInv => NoNonceGap /\ PendingCount = Pending
<1> SUFFICES ASSUME PoolInv PROVE NoNonceGap /\ PendingCount = Pending
  OBVIOUS
<1>1. ASSUME NEW t \in pool PROVE Executable(t)
  <2>1. MinedCount \in Nat /\ Pending \in Nat /\ t.nonce \in MinedCount .. Pending - 1
    BY PendingType DEF PoolInv
  <2>2. \A k \in MinedCount .. t.nonce : k \in MinedCount .. Pending - 1
    BY <2>1
  <2>3. QED
    BY <2>2 DEF Executable, PoolInv
<1>2. {t \in pool : Executable(t)} = pool
  BY <1>1
<1>3. QED
  BY <1>1, <1>2 DEF NoNonceGap, PendingCount, Pending

\* The node takes a transaction with a nonce up to Pending.
LEMMA PoolServe ==
    ASSUME PoolInv, NEW tx, Accepts(tx), tx.nonce \in 0 .. Pending, ~Took(tx.n),
           pool' = (pool \ Replaced(tx)) \cup {tx}, block' = block,
           accepted' = accepted \cup {tx}
    PROVE  PoolInv' /\ Pending <= Pending'
<1>1. MinedCount \in Nat /\ Pending \in Nat /\ MinedCount <= Pending /\ MinedCount' = MinedCount
  BY PendingType DEF MinedCount
<1>2. tx.nonce \in MinedCount .. Pending
  <2>1. tx.nonce >= MinedCount
    BY DEF Accepts
  <2>2. QED
    BY <1>1, <2>1
<1>3. tx \notin pool /\ \A t \in pool : t.n # tx.n
  BY DEF PoolInv, Took
<1>4. IsFiniteSet(pool) /\ Cardinality(pool) \in Nat
  BY FS_CardinalityType DEF PoolInv
<1>5. \A n : Took(n) => Took(n)'
  BY DEF Took
<1>6. Took(tx.n)' /\ tx.n \notin DOMAIN block
  BY DEF Took, PoolInv
<1>7. CASE Replaced(tx) = {}
  <2>1. pool' = pool \cup {tx}
    BY <1>7
  <2>2. IsFiniteSet(pool') /\ Cardinality(pool') = Cardinality(pool) + 1
    BY <1>3, <1>4, <2>1, FS_AddElement
  <2>3. Pending' = Pending + 1
    BY <1>1, <1>4, <2>2 DEF Pending
  <2>4. tx.nonce = Pending
    <3>1. \A t \in pool : t.nonce # tx.nonce
      BY <1>7 DEF Replaced
    <3>2. tx.nonce \notin MinedCount .. Pending - 1
      BY <3>1 DEF PoolInv
    <3>3. QED
      BY <1>1, <1>2, <3>2
  <2>5. \A t \in pool : t.nonce \in MinedCount .. Pending - 1 /\ t.nonce # tx.nonce
    BY <1>1, <2>4 DEF PoolInv
  <2>6. \A t \in pool' : t.nonce \in MinedCount' .. Pending' - 1
    BY <1>1, <2>1, <2>3, <2>4, <2>5
  <2>7. \A k \in MinedCount' .. Pending' - 1 : \E t \in pool' : t.nonce = k
    <3> SUFFICES ASSUME NEW k \in MinedCount' .. Pending' - 1
                 PROVE  \E t \in pool' : t.nonce = k
      OBVIOUS
    <3>1. k \in MinedCount .. Pending - 1 \/ k = Pending
      BY <1>1, <2>3
    <3>2. QED
      BY <2>1, <2>4, <3>1 DEF PoolInv
  <2>8. \A t, u \in pool' : t.n = u.n \/ t.nonce = u.nonce => t = u
    BY <1>3, <2>1, <2>5 DEF PoolInv
  <2>9. \A t \in pool' : Took(t.n)' /\ t.n \notin DOMAIN block'
    BY <1>5, <1>6, <2>1 DEF PoolInv
  <2>10. IsFiniteSet(DOMAIN block') /\ \A n \in DOMAIN block' : Took(n)'
    BY <1>5 DEF PoolInv
  <2>11. QED
    BY <1>1, <2>2, <2>3, <2>6, <2>7, <2>8, <2>9, <2>10 DEF PoolInv
<1>8. CASE Replaced(tx) # {}
  <2>1. PICK u \in pool : u.nonce = tx.nonce
    BY <1>8 DEF Replaced
  <2>2. Replaced(tx) = {u}
    BY <2>1 DEF Replaced, PoolInv
  <2>3. pool' = (pool \ {u}) \cup {tx}
    BY <2>2
  <2>4. IsFiniteSet(pool \ {u}) /\ Cardinality(pool \ {u}) = Cardinality(pool) - 1
    BY <1>4, <2>1, FS_RemoveElement
  <2>5. IsFiniteSet(pool') /\ Cardinality(pool') = Cardinality(pool \ {u}) + 1
    BY <1>3, <2>3, <2>4, FS_AddElement
  <2>6. Cardinality(pool') = Cardinality(pool)
    BY <1>4, <2>4, <2>5
  <2>7. Pending' = Pending
    BY <1>1, <2>6 DEF Pending
  <2>8. \A t \in pool \ {u} : t.nonce # tx.nonce
    BY <2>1 DEF PoolInv
  <2>9. \A t \in pool' : t.nonce \in MinedCount' .. Pending' - 1
    BY <1>1, <2>1, <2>3, <2>7 DEF PoolInv
  <2>10. \A k \in MinedCount' .. Pending' - 1 : \E t \in pool' : t.nonce = k
    <3> SUFFICES ASSUME NEW k \in MinedCount .. Pending - 1
                 PROVE  \E t \in pool' : t.nonce = k
      BY <1>1, <2>7
    <3>1. PICK t \in pool : t.nonce = k
      BY DEF PoolInv
    <3>2. QED
      BY <2>1, <2>3, <3>1
  <2>11. \A t, v \in pool' : t.n = v.n \/ t.nonce = v.nonce => t = v
    BY <1>3, <2>3, <2>8 DEF PoolInv
  <2>12. \A t \in pool' : Took(t.n)' /\ t.n \notin DOMAIN block'
    BY <1>5, <1>6, <2>3 DEF PoolInv
  <2>13. IsFiniteSet(DOMAIN block') /\ \A n \in DOMAIN block' : Took(n)'
    BY <1>5 DEF PoolInv
  <2>14. QED
    BY <1>1, <2>5, <2>7, <2>9, <2>10, <2>11, <2>12, <2>13 DEF PoolInv
<1>9. QED
  BY <1>7, <1>8

\* A block takes all of the pool or nothing of it.
LEMMA PoolMine ==
    ASSUME PoolInv, Mine
    PROVE  PoolInv' /\ Pending' = Pending
<1>1. accepted' = accepted
  BY DEF Mine
<1>2. {t \in pool : Executable(t)} = pool
  BY PoolExecutable DEF NoNonceGap
<1>3. PICK txs \in {{}, pool} :
         /\ block' = [n \in DOMAIN block \cup {t.n : t \in txs} |->
                         IF n \in DOMAIN block THEN block[n] ELSE head']
         /\ pool' = pool \ txs
  BY <1>2 DEF Mine
<1>4. \A n : Took(n)' <=> Took(n)
  BY <1>1 DEF Took
<1>5. CASE txs = {}
  <2>1. DOMAIN block' = DOMAIN block /\ pool' = pool
    BY <1>3, <1>5
  <2>2. MinedCount' = MinedCount /\ Pending' = Pending
    BY <2>1 DEF MinedCount, Pending
  <2>3. QED
    BY <1>4, <2>1, <2>2 DEF PoolInv
<1>6. CASE txs = pool
  <2> DEFINE N == {t.n : t \in pool}
             f == [t \in pool |-> t.n]
  <2>1. DOMAIN block' = DOMAIN block \cup N /\ pool' = {}
    BY <1>3, <1>6
  <2>2. f \in Surjection(pool, N) /\ f \in Injection(pool, N)
    BY DEF Surjection, Injection, IsInjective, PoolInv
  <2>3. IsFiniteSet(N) /\ Cardinality(N) = Cardinality(pool)
    <3> HIDE DEF f, N
    <3>1. QED
      BY <2>2, FS_Surjection DEF PoolInv
  <2>4. DOMAIN block \cap N = {}
    BY DEF PoolInv
  <2> HIDE DEF N
  <2>5. /\ IsFiniteSet(DOMAIN block')
        /\ Cardinality(DOMAIN block') = Cardinality(DOMAIN block) + Cardinality(N)
    <3>1. IsFiniteSet(DOMAIN block)
      BY DEF PoolInv
    <3>2. /\ IsFiniteSet(DOMAIN block \cup N)
          /\ Cardinality(DOMAIN block \cup N)
                = Cardinality(DOMAIN block) + Cardinality(N) - Cardinality(DOMAIN block \cap N)
      BY <2>3, <3>1, FS_Union
    <3>3. /\ Cardinality(DOMAIN block \cap N) = 0
          /\ Cardinality(DOMAIN block) \in Nat /\ Cardinality(N) \in Nat
      BY <2>3, <2>4, <3>1, FS_EmptySet, FS_CardinalityType
    <3>4. QED
      BY <2>1, <3>2, <3>3
  <2>6. MinedCount' = Pending /\ Cardinality(pool') = 0 /\ Pending' = Pending /\ Pending \in Nat
    <3>1. MinedCount \in Nat /\ Cardinality(pool) \in Nat /\ Pending \in Nat
      BY PendingType, FS_CardinalityType DEF PoolInv
    <3>2. MinedCount' = Pending
      BY <2>3, <2>5, <3>1 DEF MinedCount, Pending
    <3>3. Cardinality(pool') = 0
      BY <2>1, FS_EmptySet
    <3>4. QED
      BY <3>1, <3>2, <3>3 DEF Pending
  <2>7. IsFiniteSet(pool')
    BY <2>1, FS_EmptySet
  <2>8. \A n \in DOMAIN block' : Took(n)'
    BY <1>4, <2>1 DEF PoolInv, N
  <2>9. MinedCount' .. Pending' - 1 = {}
    BY <2>6
  <2>10. QED
    BY <2>1, <2>5, <2>6, <2>7, <2>8, <2>9 DEF PoolInv
<1>7. QED
  BY <1>3, <1>5, <1>6

\* Every nonce that was read, and that goes to the node, is at most Pending.
NonceInv ==
    /\ \A r \in OnTheWay :
          (r.kind = "ok" /\ r.of.method = "eth_getTransactionCount") => r.value \in 0 .. Pending
    /\ \A c \in Callers : Busy(c) /\ Len(call[c].got) >= 4 => call[c].got[4] \in 0 .. Pending
    /\ \A i \in DOMAIN inbox : IsSend(inbox[i]) => inbox[i].tx.nonce \in 0 .. Pending

LEMMA PoolInitial == Init => PoolInv /\ NonceInv
<1> SUFFICES ASSUME Init PROVE PoolInv /\ NonceInv
  OBVIOUS
<1>1. /\ pool = {} /\ DOMAIN block = {} /\ inbox = <<>> /\ outbox = <<>>
  BY DEF Init, UrpcInit
<1>2. MinedCount = 0 /\ Pending = 0
  BY <1>1, FS_EmptySet DEF MinedCount, Pending
<1>3. PoolInv
  BY <1>1, <1>2, FS_EmptySet DEF PoolInv
<1>4. \A c \in Callers : ~Busy(c)
  BY DEF Init, Busy
<1>5. NonceInv
  BY <1>1, <1>4 DEF NonceInv, OnTheWay
<1>6. QED
  BY <1>3, <1>5

\* Every step keeps the pool without gaps, and Pending does not fall.
LEMMA PoolNext ==
    ASSUME ShapeInv, FreshInv, PoolInv, NonceInv, [Next]_vars
    PROVE  PoolInv' /\ Pending <= Pending' /\ Pending \in Nat /\ Pending' \in Nat
<1>1. Pending \in Nat
  BY PendingType
<1>2. ASSUME pool' = pool, block' = block, accepted' = accepted
      PROVE  PoolInv' /\ Pending <= Pending'
  <2>1. MinedCount' = MinedCount /\ Pending' = Pending
    BY <1>2 DEF MinedCount, Pending
  <2>2. \A n : Took(n)' <=> Took(n)
    BY <1>2 DEF Took
  <2>3. QED
    BY <1>1, <1>2, <2>1, <2>2 DEF PoolInv
<1>3. ASSUME Serve PROVE PoolInv' /\ Pending <= Pending'
  <2>1. PICK i \in DOMAIN inbox :
           \/ UNCHANGED <<pool, accepted>>
           \/ /\ IsSend(inbox[i]) /\ Accepts(inbox[i].tx)
              /\ pool' = (pool \ Replaced(inbox[i].tx)) \cup {inbox[i].tx}
              /\ accepted' = accepted \cup {inbox[i].tx}
    <3>1. inbox # <<>>
      BY <1>3 DEF Serve
    <3>2. 1 \in DOMAIN inbox
      BY <3>1, TailIsRemoveAt DEF ShapeInv
    <3>3. QED
      BY <1>3, <3>2 DEF Serve, IsSend
  <2>2. block' = block
    BY <1>3 DEF Serve
  <2>3. CASE UNCHANGED <<pool, accepted>>
    BY <1>2, <2>2, <2>3
  <2>4. CASE /\ IsSend(inbox[i]) /\ Accepts(inbox[i].tx)
             /\ pool' = (pool \ Replaced(inbox[i].tx)) \cup {inbox[i].tx}
             /\ accepted' = accepted \cup {inbox[i].tx}
    <3>1. inbox[i].tx.nonce \in 0 .. Pending /\ Sending(inbox[i].tx.n)
      BY <2>4 DEF NonceInv, Sending
    <3>2. ~Took(inbox[i].tx.n)
      BY <3>1 DEF FreshInv
    <3>3. QED
      BY <2>2, <2>4, <3>1, <3>2, PoolServe
  <2>5. QED
    BY <2>1, <2>3, <2>4
<1>4. CASE Mine
  BY <1>1, <1>4, PoolMine
<1>5. ASSUME NEW c \in Callers, Start(c) \/ StartAdd(c) \/ Step(c)
      PROVE  UNCHANGED <<pool, block, accepted>>
  BY <1>5
  DEF Start, StartAdd, Step, Locked, Sent, Received, CallFailed, AddSteps, nodeVars
<1>6. ASSUME Replace \/ Broken \/ UNCHANGED vars PROVE UNCHANGED <<pool, block, accepted>>
  BY <1>6 DEF Replace, Broken, vars, nodeVars
<1>7. PoolInv' /\ Pending <= Pending'
  BY <1>2, <1>3, <1>4, <1>5, <1>6 DEF Next
<1>8. Pending' \in Nat
  <2>1. IsFiniteSet(pool') /\ IsFiniteSet(DOMAIN block')
    BY <1>7 DEF PoolInv
  <2>2. Cardinality(pool') \in Nat /\ Cardinality(DOMAIN block') \in Nat
    BY <2>1, FS_CardinalityType
  <2>3. QED
    BY <2>2 DEF Pending, MinedCount
<1>9. QED
  BY <1>1, <1>7, <1>8

\* The fourth call of a transfer asks for the nonce; nothing else has four values.
LEMMA CountIsFourth ==
    ASSUME NEW k, CallShape(k), Len(k.got) >= 3
    PROVE  k.op.kind \in TransferKinds /\ (Len(k.got) = 3 => Method(k) = "eth_getTransactionCount")
<1> DEFINE s == Script(k.op)
           m == Len(k.got)
           l == Len(s)
<1>1. m \in Nat /\ m < l /\ m >= 3
  BY LenOf DEF CallShape
<1> HIDE DEF s, m, l
<1>2. k.op.kind \in TransferKinds \cup InfoKinds \cup {"fee", "query"}
  BY NodeClientAssumption DEF CallShape, TransferKinds, InfoKinds
<1>3. k.op.kind \in InfoKinds \cup {"fee", "query"} => l \in 1 .. 2
  BY DEF Script, InfoKinds, s, l
<1>4. k.op.kind \in TransferKinds
  <2>1. ~(l \in 1 .. 2)
    BY <1>1
  <2>2. QED
    BY <1>2, <1>3, <2>1
<1>5. s[4] = "eth_getTransactionCount"
  BY <1>4 DEF Script, TransferKinds, s
<1>6. m = 3 => s[m + 1] = "eth_getTransactionCount"
  BY <1>5
<1>7. QED
  BY <1>4, <1>6 DEF Method, s, m

\* A transfer that goes on with a nonce up to Pending, or that has one.
LEMMA AdvancedNonce ==
    ASSUME ShapeInv, NonceInv, NEW c \in Callers, Busy(c), NEW value, Advanced(c, value),
           Method(call[c]) = "eth_getTransactionCount" => value \in 0 .. Pending
    PROVE  Len(call'[c].got) >= 4 => call'[c].got[4] \in 0 .. Pending
<1> DEFINE g == call[c].got
           h == call'[c].got
           m == Len(g)
<1>1. CallShape(call[c]) /\ IsSeq(g) /\ h = Append(g, value)
  BY DEF ShapeInv, CallShape, Advanced
<1>2. m \in Nat /\ Len(h) = m + 1 /\ (\A i \in 1 .. m : h[i] = g[i]) /\ h[m + 1] = value
  BY <1>1, AppendIsSeq
<1>3. m >= 3 => (m = 3 => Method(call[c]) = "eth_getTransactionCount")
  BY <1>1, CountIsFourth
<1>4. m >= 4 => g[4] \in 0 .. Pending
  BY DEF NonceInv
<1> HIDE DEF g, h, m
<1>5. ASSUME Len(h) >= 4 PROVE h[4] \in 0 .. Pending
  <2>1. m = 3 \/ m >= 4
    BY <1>2, <1>5
  <2>2. CASE m = 3
    BY <1>2, <1>3, <2>2
  <2>3. CASE m >= 4
    BY <1>2, <1>4, <2>3
  <2>4. QED
    BY <2>1, <2>2, <2>3
<1>6. QED
  BY <1>5 DEF h

LEMMA NonceNext ==
    ASSUME ShapeInv, SocketInv, FreshInv, PoolInv, NonceInv, [Next]_vars
    PROVE  NonceInv'
<1> DEFINE Counted(r) ==
              (r.kind = "ok" /\ r.of.method = "eth_getTransactionCount") => r.value \in 0 .. Pending'
           Way1 == \A r \in OnTheWay' : Counted(r)
           Calls1 == \A c \in Callers :
                        Busy(c)' /\ Len(call'[c].got) >= 4 => call'[c].got[4] \in 0 .. Pending'
           In1 == \A i \in DOMAIN inbox' :
                        IsSend(inbox'[i]) => inbox'[i].tx.nonce \in 0 .. Pending'
           Goal == Way1 /\ Calls1 /\ In1
<1>1. \A p \in 0 .. Pending : p \in 0 .. Pending'
  BY PoolNext
<1>2. ASSUME Taken(outbox, outbox') PROVE Way1
  <2>1. PICK place \in [DOMAIN outbox' -> DOMAIN outbox] :
            \A i \in DOMAIN outbox' : outbox'[i] = outbox[place[i]]
    BY <1>2 DEF Taken
  <2>2. OnTheWay' \subseteq OnTheWay
    BY <2>1 DEF OnTheWay
  <2>3. QED
    BY <1>1, <2>2 DEF NonceInv
<1>3. ASSUME Taken(inbox, inbox') PROVE In1
  <2>1. PICK place \in [DOMAIN inbox' -> DOMAIN inbox] :
            \A i \in DOMAIN inbox' : inbox'[i] = inbox[place[i]]
    BY <1>3 DEF Taken
  <2>2. QED
    BY <1>1, <2>1 DEF NonceInv
<1>4. ASSUME call' = call PROVE Calls1
  BY <1>1, <1>4 DEF NonceInv, Busy
<1>5. Taken(inbox, inbox) /\ Taken(outbox, outbox)
  BY SameTakes DEF ShapeInv
<1>6. ASSUME NEW c \in Callers, \A d \in Callers \ {c} : call'[d] = call[d],
             Busy(c)' /\ Len(call'[c].got) >= 4 => call'[c].got[4] \in 0 .. Pending
      PROVE  Calls1
  BY <1>1, <1>6 DEF NonceInv, Busy
<1>7. ASSUME NEW reply, outbox' = Append(outbox, reply), Counted(reply) PROVE Way1
  <2>1. /\ Len(outbox) \in Nat /\ DOMAIN outbox = 1 .. Len(outbox)
        /\ DOMAIN outbox' = 1 .. Len(outbox) + 1
        /\ \A i \in 1 .. Len(outbox) : outbox'[i] = outbox[i]
        /\ outbox'[Len(outbox) + 1] = reply
    BY <1>7, AppendIsSeq DEF ShapeInv
  <2>2. \A i \in DOMAIN outbox' : i \in DOMAIN outbox \/ i = Len(outbox) + 1
    BY <2>1
  <2>3. OnTheWay' \subseteq OnTheWay \cup {reply}
    BY <2>1, <2>2 DEF OnTheWay
  <2>4. QED
    BY <1>1, <1>7, <2>3 DEF NonceInv
<1> HIDE DEF Way1, Calls1, In1
<1>8. ASSUME UNCHANGED <<inbox, outbox, call>> PROVE Goal
  BY <1>2, <1>3, <1>4, <1>5, <1>8
<1>9. ASSUME NEW c \in Callers, Start(c) PROVE Goal
  <2>1. /\ \A d \in Callers \ {c} : call'[d] = call[d]
        /\ UNCHANGED <<inbox, outbox>> /\ call'[c].got = <<>>
    BY <1>9, StartShape DEF urpcVars
  <2>2. Len(call'[c].got) = 0
    BY <2>1
  <2>3. Calls1
    BY <1>6, <2>1, <2>2
  <2>4. QED
    BY <1>2, <1>3, <1>5, <2>1, <2>3
<1>10. ASSUME NEW c \in Callers, NEW w \in {"send", "wait"}, Busy(c),
              call' = [call EXCEPT ![c].at = w]
       PROVE  Calls1
  <2>1. (\A d \in Callers \ {c} : call'[d] = call[d]) /\ call'[c].got = call[c].got
    BY <1>10, CallMoves
  <2>2. Len(call[c].got) >= 4 => call[c].got[4] \in 0 .. Pending
    BY <1>10 DEF NonceInv
  <2>3. QED
    BY <1>6, <2>1, <2>2
<1>11. ASSUME NEW c \in Callers, Locked(c) PROVE Goal
  <2>1. /\ Busy(c) /\ call' = [call EXCEPT ![c].at = "send"]
        /\ UNCHANGED <<inbox, outbox>>
    BY <1>11 DEF Locked, Lock, Busy, Idle
  <2>2. QED
    BY <1>2, <1>3, <1>5, <1>10, <2>1
<1>12. ASSUME NEW c \in Callers, Sent(c) PROVE Goal
  <2>1. /\ Busy(c) /\ call' = [call EXCEPT ![c].at = "wait"]
        /\ outbox' = outbox /\ inbox' = Append(inbox, Request(c))
    BY <1>12 DEF Sent, Send, Busy, Idle
  <2>2. IsSend(Request(c)) => Request(c).tx.nonce \in 0 .. Pending
    <3>1. ASSUME IsSend(Request(c)) PROVE Request(c).tx.nonce \in 0 .. Pending
      <4>1. Len(call[c].got) = 5 /\ Request(c).tx.nonce = call[c].got[4]
        BY <2>1, <3>1, SendIsLast
      <4>2. Len(call[c].got) >= 4
        BY <4>1
      <4>3. QED
        BY <2>1, <4>1, <4>2 DEF NonceInv
    <3>2. QED
      BY <3>1
  <2>3. /\ Len(inbox) \in Nat /\ DOMAIN inbox = 1 .. Len(inbox)
        /\ DOMAIN inbox' = 1 .. Len(inbox) + 1
        /\ \A i \in 1 .. Len(inbox) : inbox'[i] = inbox[i]
        /\ inbox'[Len(inbox) + 1] = Request(c)
    BY <2>1, AppendIsSeq DEF ShapeInv
  <2>4. \A i \in DOMAIN inbox' : i \in DOMAIN inbox \/ i = Len(inbox) + 1
    BY <2>3
  <2>5. \A i \in DOMAIN inbox : IsSend(inbox[i]) => inbox[i].tx.nonce \in 0 .. Pending'
    BY <1>1 DEF NonceInv
  <2>6. In1
    BY <1>1, <2>2, <2>3, <2>4, <2>5 DEF In1
  <2>7. QED
    BY <1>2, <1>5, <1>10, <2>1, <2>6
<1>13. ASSUME NEW c \in Callers, Received(c) PROVE Goal
  <2>1. Busy(c) /\ call[c].at = "wait" /\ inbox' = inbox
    BY <1>13 DEF Received, Receive, Busy, Idle
  <2>2. PICK i \in DOMAIN outbox :
           /\ transport = "ipc" => i = 1
           /\ transport = "http" => outbox[i].of = Request(c)
           /\ outbox' = RemoveAt(outbox, i)
           /\ \A d \in Callers \ {c} : call'[d] = call[d]
           /\ \/ call'[c] = Idle
              \/ outbox[i].kind = "ok" /\ Advanced(c, outbox[i].value)
              \/ Method(call[c]) = "eth_blockNumber" /\ Advanced(c, 0)
    BY <1>13, ReceivedAdvances
  <2>3. outbox[i].of = Request(c) /\ Request(c).method = Method(call[c])
    BY <2>1, <2>2, ReceivedOwn DEF ShapeInv, Request
  <2>4. (outbox[i].kind = "ok" /\ Method(call[c]) = "eth_getTransactionCount")
            => outbox[i].value \in 0 .. Pending
    BY <2>3 DEF NonceInv, OnTheWay
  <2>5. Busy(c)' /\ Len(call'[c].got) >= 4 => call'[c].got[4] \in 0 .. Pending
    BY <2>1, <2>2, <2>4, AdvancedNonce DEF Busy
  <2>6. Taken(outbox, outbox')
    BY <2>2, RemoveAtTakes DEF ShapeInv
  <2>7. QED
    BY <1>2, <1>3, <1>5, <1>6, <2>1, <2>2, <2>5, <2>6
<1>14. ASSUME NEW c \in Callers, CallFailed(c) PROVE Goal
  <2>1. /\ Busy(c) /\ inbox' = inbox /\ Taken(outbox, outbox')
        /\ \A d \in Callers \ {c} : call'[d] = call[d]
        /\ \/ call'[c] = Idle
           \/ Method(call[c]) = "eth_blockNumber" /\ Advanced(c, 0)
    BY <1>14, CallFailedAdvances
  <2>2. Busy(c)' /\ Len(call'[c].got) >= 4 => call'[c].got[4] \in 0 .. Pending
    BY <2>1, AdvancedNonce DEF Busy
  <2>3. QED
    BY <1>2, <1>3, <1>5, <1>6, <2>1, <2>2
<1>15. ASSUME Serve PROVE Goal
  <2>0. PICK i \in DOMAIN inbox : \E reply :
           /\ reply \in Replies(inbox[i]) /\ inbox' = RemoveAt(inbox, i)
           /\ outbox' = Append(outbox, reply) \/ outbox' = outbox
    BY <1>15, ServeMoves
  <2>1. PICK reply :
           /\ reply \in Replies(inbox[i]) /\ inbox' = RemoveAt(inbox, i)
           /\ outbox' = Append(outbox, reply) \/ outbox' = outbox
    BY <2>0
  <2>2. Counted(reply)
    <3>1. SUFFICES ASSUME reply.kind = "ok", reply.of.method = "eth_getTransactionCount"
                   PROVE  reply.value \in 0 .. Pending'
      OBVIOUS
    <3>2. reply.of = inbox[i] /\ reply.value \in Values(inbox[i])
      <4>1. CASE Values(inbox[i]) # {}
        BY <2>1, <4>1 DEF Replies, Reply
      <4>2. CASE Values(inbox[i]) = {}
        BY <2>1, <3>1, <4>2 DEF Replies, Reply
      <4>3. QED
        BY <4>1, <4>2
    <3>3. reply.value = PendingCount
      BY <3>1, <3>2 DEF Values
    <3>4. reply.value = Pending
      BY <3>3, PoolExecutable
    <3>5. QED
      BY <3>4, PoolNext
  <2>3. Taken(inbox, inbox')
    BY <2>1, RemoveAtTakes DEF ShapeInv
  <2>4. Way1
    BY <1>2, <1>5, <1>7, <2>1, <2>2
  <2>5. call' = call
    BY <1>15 DEF Serve
  <2>6. QED
    BY <1>3, <1>4, <2>3, <2>4, <2>5
<1>16. ASSUME Replace PROVE Goal
  <2>1. call' = call /\ inbox # <<>> /\ inbox' = Tail(inbox)
    BY <1>16 DEF Replace
  <2>2. PICK reply : outbox' = Append(outbox, reply) /\ reply.kind # "ok"
    BY <1>16 DEF Replace, Reply
  <2>3. Taken(inbox, inbox')
    BY <2>1, TailTakes DEF ShapeInv
  <2>4. QED
    BY <1>3, <1>4, <1>7, <2>1, <2>2, <2>3
<1>17. ASSUME Broken PROVE Goal
  <2>1. call' = call /\ outbox' \in {<<>>, outbox} /\ inbox' = <<>>
    BY <1>17 DEF Broken, Break
  <2>2. Taken(outbox, outbox') /\ Taken(inbox, inbox')
    BY <2>1, SameTakes DEF ShapeInv
  <2>3. QED
    BY <1>2, <1>3, <1>4, <2>1, <2>2
<1>18. ASSUME NEW c \in Callers, StartAdd(c) \/ AddSteps(c)
       PROVE  UNCHANGED <<inbox, outbox, call>>
  BY <1>18 DEF StartAdd, AddSteps, urpcVars
<1>19. ASSUME Mine \/ UNCHANGED vars PROVE UNCHANGED <<inbox, outbox, call>>
  BY <1>19 DEF Mine, vars, urpcVars
<1>20. Goal
  BY <1>8, <1>9, <1>11, <1>12, <1>13, <1>14, <1>15, <1>16, <1>17, <1>18, <1>19
  DEF Next, Step
<1>21. QED
  BY <1>20 DEF NonceInv, Way1, Calls1, In1, IsSend, OnTheWay, Busy

\* However transfers of one address, new blocks, lost requests and lost answers interleave,
\* every transaction that waits in the node's pool has all the nonces before it in front of
\* it: none waits behind a gap (PendingNonceAt, sendRawByPrivateKeyUnsafe).
THEOREM NoncesLeaveNoGap == Spec => []NoNonceGap
<1> DEFINE I == ShapeInv /\ SocketInv /\ FreshInv /\ PoolInv /\ NonceInv
<1>1. Init => I
  BY ShapeInitial, SocketInitial, FreshInitial, PoolInitial
<1>2. I /\ [Next]_vars => I'
  BY ShapeNext, SocketNext, FreshNext, PoolNext, NonceNext
<1>3. I => NoNonceGap
  BY PoolExecutable
<1>4. QED
  BY <1>1, <1>2, <1>3, PTL DEF Spec

-----------------------------------------------------------------------------
(***************************************************************************)
(* A transfer that is alone.  While every transaction that the node took   *)
(* was mined before an operation began, the pool is empty and neither the  *)
(* balance nor the count of mined transactions changes, so what the        *)
(* operation has read is what the node compares its transaction with.      *)
(***************************************************************************)
Alone(began) == \A t \in accepted : t.n \in began

\* What a value says that came back for a call of a transfer.
AnswerAlone(q, v) ==
    /\ q.method = "eth_getBalance" => v \in Int /\ (Alone(q.began) => v = Latest)
    /\ q.method = "eth_estimateGas" => v = Gas
    /\ q.method = "eth_gasPrice" => v \in Prices
    /\ q.method = "eth_getTransactionCount" => (Alone(q.began) => v = MinedCount)

\* What a transfer has read so far.
CallAlone(k) ==
    k.op.kind \in TransferKinds =>
        /\ Len(k.got) >= 1 => k.got[1] \in Int /\ (Alone(k.began) => k.got[1] = Latest)
        /\ Len(k.got) >= 2 => k.got[2] = Gas
        /\ Len(k.got) >= 3 => k.got[3] \in Prices /\ Affordable(k)
        /\ Len(k.got) >= 4 => (Alone(k.began) => k.got[4] = MinedCount)

\* What goes to the node can be paid, if the transfer is alone.
SendAlone(q) ==
    IsSend(q) => /\ q.tx.amount \in Nat /\ q.tx.price \in Nat
                 /\ Alone(q.began) => q.tx.nonce = MinedCount /\ Cost(q.tx) <= Latest

Answered(r) == r.of.began \subseteq DOMAIN block /\ (r.kind = "ok" => AnswerAlone(r.of, r.value))
Called(k) == k.began \subseteq DOMAIN block /\ CallAlone(k)
Asked(q) == q.began \subseteq DOMAIN block /\ SendAlone(q)

AloneInv ==
    /\ IsFiniteSet(accepted) /\ \A t \in accepted : t.amount \in Nat /\ t.price \in Nat
    /\ \A r \in OnTheWay : Answered(r)
    /\ \A c \in Callers : Busy(c) => Called(call[c])
    /\ \A i \in DOMAIN inbox : Asked(inbox[i])
    /\ AloneIsAccepted

\* The cost of transactions is a sum in the sense of Sums.
LEMMA CostIsSum ==
    ASSUME NEW S, IsFiniteSet(S)
    PROVE  \E g : IsSum(g, S, [t \in S |-> Cost(t)]) /\ TotalCost(S) = g[S]
<1> DEFINE w == [t \in S |-> Cost(t)]
           Adds(g) == g = [s \in SUBSET S |-> IF s = {} THEN 0 ELSE Cost(Pick(s)) + g[s \ {Pick(s)}]]
<1>1. TotalCost(S) = (CHOOSE g : Adds(g))[S]
  BY DEF TotalCost, MapThenSumSet, MapThenFoldSet, Pick
<1>2. ASSUME NEW g PROVE Adds(g) <=> IsSum(g, S, w)
  <2> DEFINE a == [s \in SUBSET S |-> IF s = {} THEN 0 ELSE Cost(Pick(s)) + g[s \ {Pick(s)}]]
             b == [s \in SUBSET S |-> IF s = {} THEN 0 ELSE w[Pick(s)] + g[s \ {Pick(s)}]]
  <2>1. \A s \in SUBSET S : s # {} => w[Pick(s)] = Cost(Pick(s))
    BY PickIsIn
  <2>2. a = b
    BY <2>1
  <2>3. QED
    BY <2>2 DEF IsSum
<1>3. PICK f : IsSum(f, S, w)
  BY SumExists
<1>4. Adds(CHOOSE g : Adds(g))
  <2> HIDE DEF Adds
  <2>1. Adds(f)
    BY <1>2, <1>3
  <2>2. QED
    BY <2>1
<1>5. IsSum(CHOOSE g : Adds(g), S, w)
  BY <1>2, <1>4
<1>6. QED
  BY <1>1, <1>5

LEMMA CostIsNat ==
    ASSUME NEW S, IsFiniteSet(S), \A t \in S : t.amount \in Nat /\ t.price \in Nat
    PROVE  TotalCost(S) \in Nat
<1> DEFINE w == [t \in S |-> Cost(t)]
<1>1. \A t \in S : w[t] \in Nat
  <2>1. Gas \in Nat
    BY NodeClientAssumption
  <2>2. \A t \in S : t.price * Gas \in Nat
    BY <2>1
  <2>3. QED
    BY <2>2 DEF Cost
<1>2. PICK g : IsSum(g, S, w) /\ TotalCost(S) = g[S]
  BY CostIsSum
<1> HIDE DEF w
<1>3. QED
  BY <1>1, <1>2, SumIsNat

LEMMA NothingCosts == TotalCost({}) = 0
<1>1. PICK g : IsSum(g, {}, [t \in {} |-> Cost(t)]) /\ TotalCost({}) = g[{}]
  BY CostIsSum, FS_EmptySet
<1>2. g[{}] = 0
  BY <1>1 DEF IsSum
<1>3. QED
  BY <1>1, <1>2

\* The balance is a number.
LEMMA LatestIsInt == AloneInv => Latest \in Int
<1> SUFFICES ASSUME AloneInv PROVE Latest \in Int
  OBVIOUS
<1> DEFINE S == {t \in accepted : t.n \in DOMAIN block}
<1>1. IsFiniteSet(S) /\ \A t \in S : t.amount \in Nat /\ t.price \in Nat
  BY FS_Subset DEF AloneInv
<1> HIDE DEF S
<1>2. TotalCost(S) \in Nat /\ Balance0 \in Nat
  BY <1>1, CostIsNat, NodeClientAssumption
<1>3. Latest = Balance0 - TotalCost(S)
  BY DEF Latest, S
<1>4. QED
  BY <1>2, <1>3

\* The pool is empty around a transfer that is alone.
LEMMA AlonePool ==
    ASSUME PoolInv, NEW b, b \subseteq DOMAIN block, Alone(b)
    PROVE  pool = {}
<1> SUFFICES ASSUME NEW t \in pool PROVE FALSE
  OBVIOUS
<1>1. Took(t.n) /\ t.n \notin DOMAIN block
  BY DEF PoolInv
<1>2. QED
  BY <1>1 DEF Took, Alone

\* A transfer that is alone after a step was alone before it, and the step changes nothing
\* of what the node compares a transaction with.
LEMMA AloneStays ==
    ASSUME ShapeInv, FreshInv, PoolInv, [Next]_vars, NEW b, b \subseteq DOMAIN block, Alone(b)'
    PROVE  Alone(b) /\ Latest' = Latest /\ MinedCount' = MinedCount
<1>1. ASSUME accepted' = accepted, DOMAIN block' = DOMAIN block
      PROVE  Alone(b) /\ Latest' = Latest /\ MinedCount' = MinedCount
  BY <1>1 DEF Alone, Latest, MinedCount, TotalCost
<1>2. CASE Serve
  <2>1. block' = block
    BY <1>2 DEF Serve
  <2>2. PICK i \in DOMAIN inbox :
           \/ accepted' = accepted
           \/ IsSend(inbox[i]) /\ accepted' = accepted \cup {inbox[i].tx}
    <3>1. inbox # <<>>
      BY <1>2 DEF Serve
    <3>2. 1 \in DOMAIN inbox
      BY <3>1, TailIsRemoveAt DEF ShapeInv
    <3>3. QED
      BY <1>2, <3>2 DEF Serve, IsSend
  <2>3. CASE IsSend(inbox[i]) /\ accepted' = accepted \cup {inbox[i].tx}
    <3>1. inbox[i].tx.n \in b /\ Sending(inbox[i].tx.n)
      BY <2>3 DEF Alone, Sending
    <3>2. Took(inbox[i].tx.n)
      BY <3>1 DEF PoolInv
    <3>3. QED
      BY <3>1, <3>2 DEF FreshInv
  <2>4. QED
    BY <1>1, <2>1, <2>2, <2>3
<1>3. CASE Mine
  <2>1. accepted' = accepted
    BY <1>3 DEF Mine
  <2>2. Alone(b)
    BY <2>1 DEF Alone
  <2>3. pool = {}
    BY <2>2, AlonePool
  <2>4. PICK txs \in {{}, {t \in pool : Executable(t)}} :
           block' = [n \in DOMAIN block \cup {t.n : t \in txs} |->
                         IF n \in DOMAIN block THEN block[n] ELSE head']
    BY <1>3 DEF Mine
  <2>5. txs = {}
    BY <2>3, <2>4
  <2>6. DOMAIN block' = DOMAIN block
    BY <2>4, <2>5
  <2>7. QED
    BY <1>1, <2>1, <2>6
<1>4. ASSUME NEW c \in Callers, Start(c) \/ StartAdd(c) \/ Step(c)
      PROVE  UNCHANGED <<block, accepted>>
  BY <1>4
  DEF Start, StartAdd, Step, Locked, Sent, Received, CallFailed, AddSteps, nodeVars
<1>5. ASSUME Replace \/ Broken \/ UNCHANGED vars PROVE UNCHANGED <<block, accepted>>
  BY <1>5 DEF Replace, Broken, vars, nodeVars
<1>6. QED
  BY <1>1, <1>2, <1>3, <1>4, <1>5 DEF Next

\* So what was said of the node for a transfer stays true.
LEMMA SaidStays ==
    ASSUME ShapeInv, FreshInv, PoolInv, [Next]_vars
    PROVE  /\ DOMAIN block \subseteq DOMAIN block'
           /\ \A r : Answered(r) => Answered(r)'
           /\ \A k : Called(k) => Called(k)'
           /\ \A q : Asked(q) => Asked(q)'
<1>1. DOMAIN block \subseteq DOMAIN block'
  <2>1. CASE Mine
    BY <2>1 DEF Mine
  <2>2. CASE Serve \/ Replace \/ Broken \/ UNCHANGED vars
    BY <2>2 DEF Serve, Replace, Broken, vars, nodeVars
  <2>3. ASSUME NEW c \in Callers, Start(c) \/ StartAdd(c) \/ Step(c) PROVE block' = block
    BY <2>3
    DEF Start, StartAdd, Step, Locked, Sent, Received, CallFailed, AddSteps, nodeVars
  <2>4. QED
    BY <2>1, <2>2, <2>3 DEF Next
<1>2. \A b : b \subseteq DOMAIN block /\ Alone(b)' =>
                 Alone(b) /\ Latest' = Latest /\ MinedCount' = MinedCount
  BY AloneStays
<1>3. ASSUME NEW r, Answered(r) PROVE Answered(r)'
  <2>1. ASSUME r.kind = "ok" PROVE AnswerAlone(r.of, r.value)'
    BY <1>2, <1>3, <2>1 DEF Answered, AnswerAlone
  <2>2. QED
    BY <1>1, <1>3, <2>1 DEF Answered
<1>4. ASSUME NEW k, Called(k) PROVE Called(k)'
  <2>1. CallAlone(k)'
    BY <1>2, <1>4 DEF Called, CallAlone
  <2>2. QED
    BY <1>1, <1>4, <2>1 DEF Called
<1>5. ASSUME NEW q, Asked(q) PROVE Asked(q)'
  <2>1. SendAlone(q)'
    BY <1>2, <1>5 DEF Asked, SendAlone
  <2>2. QED
    BY <1>1, <1>5, <2>1 DEF Asked
<1>6. QED
  BY <1>1, <1>3, <1>4, <1>5

\* The calls of a transfer up to the nonce.
LEMMA TransferMethods ==
    ASSUME NEW k, CallShape(k), k.op.kind \in TransferKinds
    PROVE  /\ Len(k.got) = 0 => Method(k) = "eth_getBalance"
           /\ Len(k.got) = 1 => Method(k) = "eth_estimateGas"
           /\ Len(k.got) = 2 => Method(k) = "eth_gasPrice"
           /\ Len(k.got) = 3 => Method(k) = "eth_getTransactionCount"
           /\ Method(k) # "eth_blockNumber"
<1> DEFINE s == Script(k.op)
           m == Len(k.got)
<1>1. /\ Len(s) = 6 /\ s[1] = "eth_getBalance" /\ s[2] = "eth_estimateGas"
      /\ s[3] = "eth_gasPrice" /\ s[4] = "eth_getTransactionCount"
      /\ s[5] = "eth_chainId" /\ s[6] = "eth_sendRawTransaction"
  BY DEF Script, TransferKinds
<1>2. m \in Nat /\ m < Len(s)
  BY LenOf DEF CallShape
<1> HIDE DEF s, m
<1>3. m \in 0 .. 5
  BY <1>1, <1>2
<1>4. \/ m = 0 /\ s[m + 1] = s[1]
      \/ m = 1 /\ s[m + 1] = s[2]
      \/ m = 2 /\ s[m + 1] = s[3]
      \/ m = 3 /\ s[m + 1] = s[4]
      \/ m = 4 /\ s[m + 1] = s[5]
      \/ m = 5 /\ s[m + 1] = s[6]
  BY <1>3
<1>5. /\ m = 0 => s[m + 1] = "eth_getBalance"
      /\ m = 1 => s[m + 1] = "eth_estimateGas"
      /\ m = 2 => s[m + 1] = "eth_gasPrice"
      /\ m = 3 => s[m + 1] = "eth_getTransactionCount"
      /\ s[m + 1] # "eth_blockNumber"
  BY <1>1, <1>4
<1>6. QED
  BY <1>5 DEF Method, s, m

\* A transfer goes on from its third call only if it can be paid.
LEMMA ContinueAffords ==
    ASSUME ShapeInv, NEW c \in Callers, NEW value, Continue(c, value), Busy(c)',
           call'[c].op.kind \in TransferKinds, Len(call'[c].got) = 3
    PROVE  Affordable(call'[c])
<1> DEFINE k == [call[c] EXCEPT !.got = Append(@, value), !.at = Begin]
<1>1. DOMAIN call = Callers
  BY DEF ShapeInv
<1>2. \/ call' = [call EXCEPT ![c] = Idle]
      \/ /\ call' = [call EXCEPT ![c] = k]
         /\ ~(k.op.kind \in TransferKinds /\ Len(k.got) = 3 /\ ~Affordable(k))
  BY DEF Continue, Return, ReturnError, TransferKinds
<1> HIDE DEF k
<1>3. call'[c] = k /\ ~(k.op.kind \in TransferKinds /\ Len(k.got) = 3 /\ ~Affordable(k))
  BY <1>1, <1>2 DEF Busy
<1>4. QED
  BY <1>3

LEMMA ReturnAffords ==
    ASSUME ShapeInv, NEW c \in Callers, Received(c) \/ CallFailed(c), Busy(c)',
           call'[c].op.kind \in TransferKinds, Len(call'[c].got) = 3
    PROVE  Affordable(call'[c])
<1>1. \/ \E value : Continue(c, value)
      \/ \E error : ReturnError(c, error)
  <2>1. \/ \E value : Continue(c, value)
        \/ \E error : Failed(c, error)
    BY DEF Received, CallFailed
  <2>2. QED
    BY <2>1 DEF Failed
<1>2. DOMAIN call = Callers
  BY DEF ShapeInv
<1>3. ~ \E error : ReturnError(c, error)
  BY <1>2 DEF ReturnError, Return, Busy
<1>4. QED
  BY <1>1, <1>3, ContinueAffords

\* What a transfer knows when a call of it has returned.
LEMMA AdvancedAlone ==
    ASSUME ShapeInv, NEW c \in Callers, Busy(c), Called(call[c]), NEW value,
           Advanced(c, value), AnswerAlone(Request(c), value),
           (call'[c].op.kind \in TransferKinds /\ Len(call'[c].got) = 3) => Affordable(call'[c])
    PROVE  Called(call'[c])
<1> DEFINE k == call[c]
           j == call'[c]
           m == Len(k.got)
<1>1. CallShape(k) /\ IsSeq(k.got)
  BY DEF ShapeInv, CallShape
<1>2. j.op = k.op /\ j.began = k.began /\ j.got = Append(k.got, value)
  BY DEF Advanced
<1>3. /\ m \in Nat /\ Len(j.got) = m + 1 /\ j.got[m + 1] = value
      /\ \A i \in 1 .. m : j.got[i] = k.got[i]
  BY <1>1, <1>2, AppendIsSeq
<1>4. Request(c).method = Method(k) /\ Request(c).began = k.began
  BY DEF Request
<1>5. ASSUME k.op.kind \in TransferKinds
      PROVE  /\ m = 0 => value \in Int /\ (Alone(k.began) => value = Latest)
             /\ m = 1 => value = Gas
             /\ m = 2 => value \in Prices /\ Affordable(j)
             /\ m = 3 => (Alone(k.began) => value = MinedCount)
  <2>1. m = 2 => Affordable(j)
    BY <1>2, <1>3, <1>5
  <2>2. QED
    BY <1>1, <1>4, <1>5, <2>1, TransferMethods DEF AnswerAlone
<1>6. k.began \subseteq DOMAIN block /\ CallAlone(k)
  BY DEF Called
<1>7. ASSUME m >= 3, Affordable(k), k.op.kind \in TransferKinds PROVE Affordable(j)
  <2>1. j.got[1] = k.got[1] /\ j.got[2] = k.got[2] /\ j.got[3] = k.got[3]
    BY <1>3, <1>7
  <2>2. QED
    BY <1>2, <1>7, <2>1 DEF Affordable, Amount, Fee
<1> HIDE DEF k, j, m
<1>8. ASSUME k.op.kind \in TransferKinds
      PROVE  /\ Len(j.got) >= 1 => j.got[1] \in Int /\ (Alone(j.began) => j.got[1] = Latest)
             /\ Len(j.got) >= 2 => j.got[2] = Gas
             /\ Len(j.got) >= 3 => j.got[3] \in Prices /\ Affordable(j)
             /\ Len(j.got) >= 4 => (Alone(j.began) => j.got[4] = MinedCount)
  <2>1. /\ m >= 1 => k.got[1] \in Int /\ (Alone(k.began) => k.got[1] = Latest)
        /\ m >= 2 => k.got[2] = Gas
        /\ m >= 3 => k.got[3] \in Prices /\ Affordable(k)
        /\ m >= 4 => (Alone(k.began) => k.got[4] = MinedCount)
    BY <1>6, <1>8 DEF CallAlone, m
  <2>2. CASE m = 0
    BY <1>2, <1>3, <1>5, <1>8, <2>2
  <2>3. CASE m = 1
    BY <1>2, <1>3, <1>5, <1>8, <2>1, <2>3
  <2>4. CASE m = 2
    BY <1>2, <1>3, <1>5, <1>8, <2>1, <2>4
  <2>5. CASE m = 3
    BY <1>2, <1>3, <1>5, <1>7, <1>8, <2>1, <2>5
  <2>6. CASE m >= 4
    BY <1>2, <1>3, <1>7, <1>8, <2>1, <2>6
  <2>7. QED
    BY <1>3, <2>2, <2>3, <2>4, <2>5, <2>6
<1>9. Called(j)
  BY <1>2, <1>6, <1>8 DEF Called, CallAlone
<1>10. QED
  BY <1>9 DEF j

\* What a transfer sends: a payable transaction, with the first free nonce if it is alone.
LEMMA RequestAlone ==
    ASSUME ShapeInv, NEW c \in Callers, Busy(c), Called(call[c])
    PROVE  Asked(Request(c))
<1> DEFINE k == call[c]
<1>1. Request(c).began = k.began /\ k.began \subseteq DOMAIN block
  BY DEF Request, Called
<1>2. ASSUME IsSend(Request(c))
      PROVE  /\ Request(c).tx.amount \in Nat /\ Request(c).tx.price \in Nat
             /\ Alone(k.began) => Request(c).tx.nonce = MinedCount /\ Cost(Request(c).tx) <= Latest
  <2>1. Len(k.got) = 5 /\ k.op.kind \in TransferKinds /\ Request(c).tx = Transaction(k)
    BY <1>2, SendIsLast
  <2>2. /\ k.got[1] \in Int /\ (Alone(k.began) => k.got[1] = Latest)
        /\ k.got[2] = Gas /\ k.got[3] \in Prices /\ Affordable(k)
        /\ (Alone(k.began) => k.got[4] = MinedCount)
    BY <2>1 DEF Called, CallAlone
  <2>3. k.op \in Ops
    BY DEF ShapeInv, CallShape
  <2>4. k.op.kind = "transfer" => k.op.amount \in Nat
    BY <2>3, NodeClientAssumption
  <2> DEFINE a == Amount(k)
             p == k.got[3]
             f == p * Gas
  <2>5. p \in Nat /\ Gas \in Nat /\ f \in Nat /\ Fee(k) = f
    <3>1. p \in Nat /\ Gas \in Nat
      BY <2>2, NodeClientAssumption
    <3>2. QED
      BY <2>2, <3>1 DEF Fee
  <2> HIDE DEF f
  <2>6. a \in Nat /\ a + f <= k.got[1]
    <3>1. CASE k.op.kind = "transfer"
      BY <2>2, <2>4, <2>5, <3>1 DEF Amount, Affordable
    <3>2. CASE k.op.kind # "transfer"
      <4>1. a = k.got[1] - f /\ a > 0
        BY <2>2, <2>5, <3>2 DEF Amount, Affordable
      <4> HIDE DEF a
      <4>2. QED
        BY <2>2, <2>5, <4>1
    <3>3. QED
      BY <3>1, <3>2
  <2>7. /\ Transaction(k).amount = a /\ Transaction(k).price = p
        /\ Transaction(k).nonce = k.got[4] /\ Cost(Transaction(k)) = a + f
    BY DEF Transaction, Cost, f
  <2> HIDE DEF a, p, k
  <2>8. QED
    BY <2>1, <2>2, <2>5, <2>6, <2>7
<1>3. QED
  BY <1>1, <1>2 DEF Asked, SendAlone

\* A transfer that is alone is not refused.
LEMMA AloneAccepts ==
    ASSUME PoolInv, AloneInv, NEW i \in DOMAIN inbox, IsSend(inbox[i]), Alone(inbox[i].began)
    PROVE  Accepts(inbox[i].tx)
<1> DEFINE tx == inbox[i].tx
<1>1. /\ inbox[i].began \subseteq DOMAIN block
      /\ tx.amount \in Nat /\ tx.price \in Nat
      /\ tx.nonce = MinedCount /\ Cost(tx) <= Latest
  BY DEF AloneInv, Asked, SendAlone
<1>2. pool = {}
  BY <1>1, AlonePool
<1>3. Replaced(tx) = {} /\ TotalCost(pool \ Replaced(tx)) = 0
  <2>1. Replaced(tx) = {}
    BY <1>2 DEF Replaced
  <2>2. pool \ Replaced(tx) = {}
    BY <1>2
  <2>3. QED
    BY <2>1, <2>2, NothingCosts
<1>4. Cost(tx) \in Nat
  <2>1. Gas \in Nat
    BY NodeClientAssumption
  <2>2. tx.price * Gas \in Nat
    BY <1>1, <2>1
  <2>3. QED
    BY <1>1, <2>2 DEF Cost
<1>5. MinedCount \in Nat
  BY PendingType
<1> HIDE DEF tx
<1>6. Accepts(tx)
  BY <1>1, <1>3, <1>4, <1>5 DEF Accepts
<1>7. QED
  BY <1>6 DEF tx

\* The node answers with its balance, its gas, one of its prices and its count.
LEMMA ServeAlone ==
    ASSUME ShapeInv, FreshInv, PoolInv, AloneInv, Serve
    PROVE  /\ \E i \in DOMAIN inbox : \E reply :
                 /\ inbox' = RemoveAt(inbox, i) /\ Answered(reply)
                 /\ outbox' = Append(outbox, reply) \/ outbox' = outbox
           /\ IsFiniteSet(accepted') /\ \A t \in accepted' : t.amount \in Nat /\ t.price \in Nat
           /\ AloneIsAccepted'
<1>1. PICK i \in DOMAIN inbox :
         /\ inbox' = RemoveAt(inbox, i)
         /\ \E reply \in Replies(inbox[i]) :
               outbox' = Append(outbox, reply) \/ outbox' = outbox
         /\ \/ UNCHANGED <<accepted, refused>>
            \/ /\ IsSend(inbox[i]) /\ refused' = refused
               /\ accepted' = accepted \cup {inbox[i].tx}
            \/ /\ IsSend(inbox[i]) /\ ~Accepts(inbox[i].tx) /\ accepted' = accepted
               /\ refused' = refused \cup {[tx |-> inbox[i].tx, began |-> inbox[i].began]}
  <2>1. inbox # <<>>
    BY DEF Serve
  <2>2. 1 \in DOMAIN inbox
    BY <2>1, TailIsRemoveAt DEF ShapeInv
  <2>3. QED
    BY <2>2 DEF Serve, IsSend
<1>2. PICK reply \in Replies(inbox[i]) : outbox' = Append(outbox, reply) \/ outbox' = outbox
  BY <1>1
<1> DEFINE q == inbox[i]
<1>3. Asked(q)
  BY DEF AloneInv
<1> HIDE DEF q
<1>4. reply.of = q /\ (reply.kind = "ok" => reply.value \in Values(q))
  <2>1. CASE Values(q) # {}
    BY <2>1 DEF Replies, Reply, q
  <2>2. CASE Values(q) = {}
    BY <2>2 DEF Replies, Reply, q
  <2>3. QED
    BY <2>1, <2>2
<1>5. ASSUME reply.kind = "ok" PROVE AnswerAlone(q, reply.value)
  <2>1. reply.value \in Values(q)
    BY <1>4, <1>5
  <2>2. q.method = "eth_getBalance" => reply.value = Latest
    BY <2>1 DEF Values
  <2>3. q.method = "eth_estimateGas" => reply.value = Gas
    BY <2>1 DEF Values
  <2>4. q.method = "eth_gasPrice" => reply.value \in Prices
    BY <2>1 DEF Values
  <2>5. q.method = "eth_getTransactionCount" => reply.value = Pending
    BY <2>1, PoolExecutable DEF Values
  <2>6. ASSUME Alone(q.began) PROVE Pending = MinedCount
    <3>1. pool = {}
      BY <1>3, <2>6, AlonePool DEF Asked
    <3>2. Cardinality(pool) = 0 /\ MinedCount \in Nat
      BY <3>1, FS_EmptySet, PendingType
    <3>3. QED
      BY <3>2 DEF Pending
  <2>7. QED
    BY <2>2, <2>3, <2>4, <2>5, <2>6, LatestIsInt DEF AnswerAlone
<1>6. Answered(reply)
  BY <1>3, <1>4, <1>5 DEF Answered, Asked
<1>7. CASE UNCHANGED <<accepted, refused>>
  BY <1>1, <1>2, <1>6, <1>7 DEF AloneInv, AloneIsAccepted
<1>8. CASE IsSend(inbox[i]) /\ refused' = refused /\ accepted' = accepted \cup {inbox[i].tx}
  <2>1. inbox[i].tx.amount \in Nat /\ inbox[i].tx.price \in Nat
    BY <1>3, <1>8 DEF Asked, SendAlone, q
  <2>2. IsFiniteSet(accepted') /\ \A t \in accepted' : t.amount \in Nat /\ t.price \in Nat
    BY <1>8, <2>1, FS_AddElement DEF AloneInv
  <2>3. AloneIsAccepted'
    BY <1>8 DEF AloneInv, AloneIsAccepted
  <2>4. QED
    BY <1>1, <1>2, <1>6, <2>2, <2>3
<1>9. CASE /\ IsSend(inbox[i]) /\ ~Accepts(inbox[i].tx) /\ accepted' = accepted
           /\ refused' = refused \cup {[tx |-> inbox[i].tx, began |-> inbox[i].began]}
  <2>1. ~Alone(inbox[i].began)
    BY <1>9, AloneAccepts
  <2>2. PICK t \in accepted : t.n \notin inbox[i].began
    BY <2>1 DEF Alone
  <2>3. t.n # inbox[i].tx.n
    <3>1. Sending(inbox[i].tx.n)
      BY <1>9 DEF Sending
    <3>2. ~Took(inbox[i].tx.n)
      BY <3>1 DEF FreshInv
    <3>3. QED
      BY <3>2 DEF Took
  <2> DEFINE new == [tx |-> inbox[i].tx, began |-> inbox[i].began]
  <2>4. t.n # new.tx.n /\ t.n \notin new.began
    BY <2>2, <2>3
  <2> HIDE DEF new
  <2>5. refused' = refused \cup {new}
    BY <1>9 DEF new
  <2>6. AloneIsAccepted'
    BY <1>9, <2>4, <2>5 DEF AloneInv, AloneIsAccepted
  <2>7. QED
    BY <1>1, <1>2, <1>6, <1>9, <2>6 DEF AloneInv
<1>10. QED
  BY <1>1, <1>7, <1>8, <1>9

LEMMA AloneInitial == Init => AloneInv
<1> SUFFICES ASSUME Init PROVE AloneInv
  OBVIOUS
<1>1. accepted = {} /\ refused = {} /\ inbox = <<>> /\ outbox = <<>>
  BY DEF Init, UrpcInit
<1>2. \A c \in Callers : ~Busy(c)
  BY DEF Init, Busy
<1>3. QED
  BY <1>1, <1>2, FS_EmptySet DEF AloneInv, OnTheWay, AloneIsAccepted

LEMMA AloneNext ==
    ASSUME ShapeInv, SocketInv, FreshInv, PoolInv, AloneInv, [Next]_vars
    PROVE  AloneInv'
<1> DEFINE Way1 == \A r \in OnTheWay' : Answered(r)'
           Calls1 == \A c \in Callers : Busy(c)' => Called(call[c])'
           In1 == \A i \in DOMAIN inbox' : Asked(inbox[i])'
           Node1 == /\ IsFiniteSet(accepted')
                    /\ \A t \in accepted' : t.amount \in Nat /\ t.price \in Nat
                    /\ AloneIsAccepted'
           Goal == Way1 /\ Calls1 /\ In1 /\ Node1
<1>1. /\ DOMAIN block \subseteq DOMAIN block'
      /\ \A r : Answered(r) => Answered(r)'
      /\ \A k : Called(k) => Called(k)'
      /\ \A q : Asked(q) => Asked(q)'
  BY SaidStays
<1>2. ASSUME Taken(outbox, outbox') PROVE Way1
  <2>1. PICK place \in [DOMAIN outbox' -> DOMAIN outbox] :
            \A i \in DOMAIN outbox' : outbox'[i] = outbox[place[i]]
    BY <1>2 DEF Taken
  <2>2. OnTheWay' \subseteq OnTheWay
    BY <2>1 DEF OnTheWay
  <2>3. QED
    BY <1>1, <2>2 DEF AloneInv
<1>3. ASSUME Taken(inbox, inbox') PROVE In1
  <2>1. PICK place \in [DOMAIN inbox' -> DOMAIN inbox] :
            \A i \in DOMAIN inbox' : inbox'[i] = inbox[place[i]]
    BY <1>3 DEF Taken
  <2>2. \A i \in DOMAIN inbox' : Asked(inbox'[i])
    BY <2>1 DEF AloneInv
  <2>3. QED
    BY <1>1, <2>2
<1>4. ASSUME NEW c \in Callers, \A d \in Callers \ {c} : call'[d] = call[d],
             Busy(c)' => Called(call'[c])
      PROVE  Calls1
  <2>1. \A d \in Callers : Busy(d)' => Called(call'[d])
    BY <1>4 DEF AloneInv, Busy
  <2>2. QED
    BY <1>1, <2>1
<1>5. ASSUME call' = call PROVE Calls1
  BY <1>1, <1>5 DEF AloneInv, Busy
<1>6. Taken(inbox, inbox) /\ Taken(outbox, outbox)
  BY SameTakes DEF ShapeInv
<1>7. ASSUME NEW reply, outbox' = Append(outbox, reply), Answered(reply) PROVE Way1
  <2>1. /\ Len(outbox) \in Nat /\ DOMAIN outbox = 1 .. Len(outbox)
        /\ DOMAIN outbox' = 1 .. Len(outbox) + 1
        /\ \A i \in 1 .. Len(outbox) : outbox'[i] = outbox[i]
        /\ outbox'[Len(outbox) + 1] = reply
    BY <1>7, AppendIsSeq DEF ShapeInv
  <2>2. \A i \in DOMAIN outbox' : i \in DOMAIN outbox \/ i = Len(outbox) + 1
    BY <2>1
  <2>3. OnTheWay' \subseteq OnTheWay \cup {reply}
    BY <2>1, <2>2 DEF OnTheWay
  <2>4. QED
    BY <1>1, <1>7, <2>3 DEF AloneInv
<1>8. ASSUME UNCHANGED nodeVars PROVE Node1
  BY <1>8 DEF AloneInv, AloneIsAccepted, nodeVars
<1> HIDE DEF Way1, Calls1, In1, Node1
<1>9. ASSUME UNCHANGED <<inbox, outbox, call, accepted, refused>> PROVE Goal
  BY <1>2, <1>3, <1>5, <1>6, <1>9 DEF Node1, AloneInv, AloneIsAccepted
<1>10. ASSUME NEW c \in Callers, Start(c) PROVE Goal
  <2>1. /\ \A d \in Callers \ {c} : call'[d] = call[d]
        /\ UNCHANGED <<inbox, outbox>> /\ call'[c].got = <<>> /\ UNCHANGED nodeVars
    BY <1>10, StartShape DEF urpcVars
  <2>2. Len(call'[c].got) = 0
    BY <2>1
  <2>3. call'[c].began = DOMAIN block
    <3>1. DOMAIN call = Callers
      BY DEF ShapeInv
    <3>2. QED
      BY <1>10, <3>1 DEF Start
  <2>4. Called(call'[c])
    BY <2>2, <2>3 DEF Called, CallAlone
  <2>5. QED
    BY <1>2, <1>3, <1>4, <1>6, <1>8, <2>1, <2>4
<1>11. ASSUME NEW c \in Callers, NEW w \in {"send", "wait"}, Busy(c),
              call' = [call EXCEPT ![c].at = w]
       PROVE  Calls1
  <2>1. /\ \A d \in Callers \ {c} : call'[d] = call[d]
        /\ call'[c].got = call[c].got /\ call'[c].op = call[c].op
    BY <1>11, CallMoves
  <2>2. call'[c].began = call[c].began
    <3>1. CallShape(call[c]) /\ DOMAIN call = Callers
      BY <1>11 DEF ShapeInv
    <3>2. call'[c] = [call[c] EXCEPT !.at = w]
      BY <1>11, <3>1
    <3>3. QED
      BY <3>1, <3>2 DEF CallShape
  <2>3. Called(call[c])
    BY <1>11 DEF AloneInv
  <2>4. Called(call'[c])
    BY <2>1, <2>2, <2>3 DEF Called, CallAlone, Affordable, Amount, Fee
  <2>5. QED
    BY <1>4, <2>1, <2>4
<1>12. ASSUME NEW c \in Callers, Locked(c) PROVE Goal
  <2>1. /\ Busy(c) /\ call' = [call EXCEPT ![c].at = "send"]
        /\ UNCHANGED <<inbox, outbox>> /\ UNCHANGED nodeVars
    BY <1>12 DEF Locked, Lock, Busy, Idle
  <2>2. QED
    BY <1>2, <1>3, <1>6, <1>8, <1>11, <2>1
<1>13. ASSUME NEW c \in Callers, Sent(c) PROVE Goal
  <2>1. /\ Busy(c) /\ call' = [call EXCEPT ![c].at = "wait"] /\ UNCHANGED nodeVars
        /\ outbox' = outbox /\ inbox' = Append(inbox, Request(c))
    BY <1>13 DEF Sent, Send, Busy, Idle
  <2>2. Asked(Request(c))
    BY <2>1, RequestAlone DEF AloneInv
  <2>3. /\ Len(inbox) \in Nat /\ DOMAIN inbox = 1 .. Len(inbox)
        /\ DOMAIN inbox' = 1 .. Len(inbox) + 1
        /\ \A i \in 1 .. Len(inbox) : inbox'[i] = inbox[i]
        /\ inbox'[Len(inbox) + 1] = Request(c)
    BY <2>1, AppendIsSeq DEF ShapeInv
  <2>4. \A i \in DOMAIN inbox' : i \in DOMAIN inbox \/ i = Len(inbox) + 1
    BY <2>3
  <2>5. \A i \in DOMAIN inbox' : Asked(inbox'[i])
    BY <2>2, <2>3, <2>4 DEF AloneInv
  <2>6. In1
    BY <1>1, <2>5 DEF In1
  <2>7. QED
    BY <1>2, <1>6, <1>8, <1>11, <2>1, <2>6
<1>14. ASSUME NEW c \in Callers, Busy(c), Received(c) \/ CallFailed(c),
              Method(call[c]) = "eth_blockNumber", Advanced(c, 0)
       PROVE  Called(call'[c])
  <2>1. Called(call[c]) /\ CallShape(call[c])
    BY <1>14 DEF AloneInv, ShapeInv
  <2>2. call[c].op.kind \notin TransferKinds
    BY <1>14, <2>1, TransferMethods
  <2>3. call'[c].op = call[c].op /\ call'[c].began = call[c].began
    BY <1>14 DEF Advanced
  <2>4. QED
    BY <2>1, <2>2, <2>3 DEF Called, CallAlone
<1>15. ASSUME NEW c \in Callers, Received(c) PROVE Goal
  <2>1. Busy(c) /\ call[c].at = "wait" /\ inbox' = inbox /\ UNCHANGED nodeVars
    BY <1>15 DEF Received, Receive, Busy, Idle
  <2>2. PICK i \in DOMAIN outbox :
           /\ transport = "ipc" => i = 1
           /\ transport = "http" => outbox[i].of = Request(c)
           /\ outbox' = RemoveAt(outbox, i)
           /\ \A d \in Callers \ {c} : call'[d] = call[d]
           /\ \/ call'[c] = Idle
              \/ outbox[i].kind = "ok" /\ Advanced(c, outbox[i].value)
              \/ Method(call[c]) = "eth_blockNumber" /\ Advanced(c, 0)
    BY <1>15, ReceivedAdvances
  <2>3. outbox[i].of = Request(c)
    BY <2>1, <2>2, ReceivedOwn DEF ShapeInv
  <2>4. outbox[i].kind = "ok" => AnswerAlone(Request(c), outbox[i].value)
    BY <2>3 DEF AloneInv, OnTheWay, Answered
  <2>5. Called(call[c])
    BY <2>1 DEF AloneInv
  <2>6. Busy(c)' => Called(call'[c])
    <3>1. ASSUME Busy(c)', outbox[i].kind = "ok", Advanced(c, outbox[i].value)
          PROVE  Called(call'[c])
      <4>1. (call'[c].op.kind \in TransferKinds /\ Len(call'[c].got) = 3) => Affordable(call'[c])
        BY <1>15, <3>1, ReturnAffords
      <4>2. QED
        BY <2>1, <2>4, <2>5, <3>1, <4>1, AdvancedAlone
    <3>2. QED
      BY <1>14, <1>15, <2>1, <2>2, <3>1 DEF Busy
  <2>7. Taken(outbox, outbox')
    BY <2>2, RemoveAtTakes DEF ShapeInv
  <2>8. QED
    BY <1>2, <1>3, <1>4, <1>6, <1>8, <2>1, <2>2, <2>6, <2>7
<1>16. ASSUME NEW c \in Callers, CallFailed(c) PROVE Goal
  <2>1. /\ Busy(c) /\ inbox' = inbox /\ Taken(outbox, outbox') /\ UNCHANGED nodeVars
        /\ \A d \in Callers \ {c} : call'[d] = call[d]
        /\ \/ call'[c] = Idle
           \/ Method(call[c]) = "eth_blockNumber" /\ Advanced(c, 0)
    BY <1>16, CallFailedAdvances
  <2>2. Busy(c)' => Called(call'[c])
    BY <1>14, <1>16, <2>1 DEF Busy
  <2>3. QED
    BY <1>2, <1>3, <1>4, <1>6, <1>8, <2>1, <2>2
<1>17. ASSUME Serve PROVE Goal
  <2>1. PICK i \in DOMAIN inbox : \E reply :
           /\ inbox' = RemoveAt(inbox, i) /\ Answered(reply)
           /\ outbox' = Append(outbox, reply) \/ outbox' = outbox
    BY <1>17, ServeAlone
  <2>2. PICK reply :
           /\ inbox' = RemoveAt(inbox, i) /\ Answered(reply)
           /\ outbox' = Append(outbox, reply) \/ outbox' = outbox
    BY <2>1
  <2>3. Taken(inbox, inbox')
    BY <2>2, RemoveAtTakes DEF ShapeInv
  <2>4. Way1
    BY <1>2, <1>6, <1>7, <2>2
  <2>5. call' = call
    BY <1>17 DEF Serve
  <2>6. Node1
    BY <1>17, ServeAlone DEF Node1
  <2>7. QED
    BY <1>3, <1>5, <2>3, <2>4, <2>5, <2>6
<1>18. ASSUME Replace PROVE Goal
  <2>1. call' = call /\ inbox # <<>> /\ inbox' = Tail(inbox) /\ UNCHANGED nodeVars
    BY <1>18 DEF Replace
  <2>2. PICK kind \in {"empty", "error"} :
           outbox' = Append(outbox, Reply(Head(inbox), kind, Nothing))
    BY <1>18 DEF Replace
  <2>3. 1 \in DOMAIN inbox /\ Head(inbox) = inbox[1]
    BY <2>1, TailIsRemoveAt DEF ShapeInv
  <2>4. Answered(Reply(Head(inbox), kind, Nothing))
    BY <2>3 DEF AloneInv, Asked, Answered, Reply
  <2>5. Taken(inbox, inbox')
    BY <2>1, TailTakes DEF ShapeInv
  <2>6. QED
    BY <1>3, <1>5, <1>7, <1>8, <2>1, <2>2, <2>4, <2>5
<1>19. ASSUME Broken PROVE Goal
  <2>1. /\ call' = call /\ outbox' \in {<<>>, outbox} /\ inbox' = <<>>
        /\ UNCHANGED nodeVars
    BY <1>19 DEF Broken, Break
  <2>2. Taken(outbox, outbox') /\ Taken(inbox, inbox')
    BY <2>1, SameTakes DEF ShapeInv
  <2>3. QED
    BY <1>2, <1>3, <1>5, <1>8, <2>1, <2>2
<1>20. ASSUME NEW c \in Callers, StartAdd(c) \/ AddSteps(c)
       PROVE  UNCHANGED <<inbox, outbox, call, accepted, refused>>
  BY <1>20 DEF StartAdd, AddSteps, urpcVars, nodeVars
<1>21. ASSUME Mine \/ UNCHANGED vars
       PROVE  UNCHANGED <<inbox, outbox, call, accepted, refused>>
  BY <1>21 DEF Mine, vars, urpcVars, nodeVars
<1>22. Goal
  BY <1>9, <1>10, <1>12, <1>13, <1>15, <1>16, <1>17, <1>18, <1>19, <1>20, <1>21
  DEF Next, Step
<1>23. QED
  BY <1>22 DEF AloneInv, Way1, Calls1, In1, Node1

\* What the client signs can be executed: no transaction of the pool waits behind a gap, and
\* the node refuses a transfer only if another transaction of the address came between. That
\* needs the whole of the client: the balance read first, the price, the check between them,
\* the nonce read last, and that a caller reads the answer to its own request
\* (TransferByPrivateKey, TransferAllByPrivateKey, sendRawByPrivateKeyUnsafe).
THEOREM TransfersCanBeExecuted == Spec => []TransfersExecutable
<1> DEFINE I == ShapeInv /\ SocketInv /\ FreshInv /\ PoolInv /\ NonceInv /\ AloneInv
<1>1. Init => I
  BY ShapeInitial, SocketInitial, FreshInitial, PoolInitial, AloneInitial
<1>2. I /\ [Next]_vars => I'
  BY ShapeNext, SocketNext, FreshNext, PoolNext, NonceNext, AloneNext
<1>3. I => TransfersExecutable
  BY PoolExecutable DEF AloneInv, TransfersExecutable
<1>4. QED
  BY <1>1, <1>2, <1>3, PTL DEF Spec
=============================================================================
