--------------------------- MODULE SmartContracts ---------------------------
(* abi/manager.go: the registry of known contracts and its file. A contract   *)
(* is [Name, ContractAddress, Symbol].                                        *)
EXTENDS BinFile, Sequences, SequencesExt, FiniteSetsExt

CONSTANTS
    Adders,             \* goroutines that add contracts
    ToLower(_)          \* strings.ToLower, of the text of an address

VARIABLES
    contracts,          \* SmartContractsManager.contracts
    readers,            \* who holds the mutex for reading
    contractsFile,      \* known_contracts.json
    adding,             \* per goroutine: what Add still has to do, and the text it saves
    saveFailed          \* history: the last save that ended did not write its text

registryVars == <<contracts, readers, contractsFile, adding, saveFailed>>

DoNothing == [at |-> "done", text |-> <<>>]

\* the text grows with the list
Text(list) == Len(list)

rawKnown == [Name |-> "erc20token", ContractAddress |-> "", Symbol |-> "ERC20"]

\* addUnsafe: a name or an address that is known, letter by letter, is not added again
addUnsafe(list, c) ==
    IF \E i \in DOMAIN list : list[i].Name = c.Name \/ list[i].ContractAddress = c.ContractAddress
    THEN list ELSE Append(list, c)

\* Init: a registry without a file starts with the built-in contract and saves it
RegistryInit ==
    /\ contracts = addUnsafe(<<>>, rawKnown)
    /\ contractsFile = SavedFile(contracts, Text(contracts))
    /\ readers = {}
    /\ adding = [a \in Adders |-> DoNothing]
    /\ saveFailed = FALSE

\* Add, under the mutex
Add(a, c) ==
    /\ adding[a] = DoNothing /\ readers = {}
    /\ contracts' = addUnsafe(contracts, c)
    /\ adding' = [adding EXCEPT ![a].at = "save"]
    /\ UNCHANGED <<readers, contractsFile, saveFailed>>

\* Save, under the mutex for reading: encode, truncate, write
SaveContracts(a) ==
    /\ adding[a].at = "save"
    /\ readers' = readers \cup {a}
    /\ adding' = [adding EXCEPT ![a] = [at |-> "open", text |-> contracts]]
    /\ UNCHANGED <<contracts, contractsFile, saveFailed>>

SaveContractsOpen(a) ==
    /\ adding[a].at = "open"
    /\ contractsFile' = Opened(contractsFile)
    /\ adding' = [adding EXCEPT ![a].at = "write"]
    /\ UNCHANGED <<contracts, readers, saveFailed>>

SaveContractsWrite(a) ==
    /\ adding[a].at = "write"
    /\ contractsFile' = Written(contractsFile, adding[a].text, Text(adding[a].text))
    /\ readers' = readers \ {a}
    /\ adding' = [adding EXCEPT ![a] = DoNothing]
    /\ saveFailed' = FALSE
    /\ UNCHANGED contracts

\* os.WriteFile fails, before it truncates the file or after; Add drops the error
SaveContractsFails(a) ==
    /\ adding[a].at \in {"open", "write"}
    /\ readers' = readers \ {a}
    /\ adding' = [adding EXCEPT ![a] = DoNothing]
    /\ saveFailed' = TRUE
    /\ UNCHANGED <<contracts, contractsFile>>

AddStep(a) == SaveContracts(a) \/ SaveContractsOpen(a) \/ SaveContractsWrite(a) \/ SaveContractsFails(a)

\* Walk: the last contract that fits
LastOf(found) == IF found = {} THEN Nothing ELSE contracts[Max(found)]

\* the address, which must not be empty
GetSmartContractAddressByName(name) ==
    LET found == LastOf({i \in DOMAIN contracts : contracts[i].Name = name})
    IN  IF found = Nothing THEN Nothing
        ELSE IF found.ContractAddress = "" THEN Nothing ELSE found.ContractAddress

\* byAddress, an index in lower case that keeps the last contract of an address
GetSmartContractByAddress(address) ==
    LastOf({i \in DOMAIN contracts : ToLower(contracts[i].ContractAddress) = ToLower(address)})
=============================================================================
