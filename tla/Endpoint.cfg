\* Three concurrent requests, a crash inside a save, the registry and the pool.
CONSTANTS
    Nothing = Nothing
    Handlers = {h1, h2}
    Main = main
    Requests <- MCRequests
    Clients <- MCClients
    MaxRequests = 3
    MaxCrashes = 1
    Services0 <- MCServices0
    Pool0 <- MCPool0
    KeyOf <- MCKeyOf
    Tokens <- MCTokens
    StartFiles <- MCStartFiles
    FullFiles <- MCFullFiles
SPECIFICATION Spec
SYMMETRY Symmetry
CHECK_DEADLOCK FALSE
INVARIANTS
    TypeOK
    OnlyAuthorised
    AnswersUnderstood
    RestartsKeep
