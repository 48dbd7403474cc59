\* Two operations at once over a transport that fails once, a head that grows past MinConfirmations.
CONSTANTS
    g1 = g1
    g2 = g2
    Callers <- MCCallers
    Adders <- MCCallers
    Nothing = Nothing
    ToLower <- MCToLower
    Ops <- MCOps
    Contracts <- MCContracts
    Prices <- MCPrices
    MaxFaults = 1
    MaxOps = 2
    MaxHead = 4
    Balance0 = 9
    Gas = 1
    MinConfirmations = 2
SPECIFICATION Spec
CHECK_DEADLOCK FALSE
INVARIANTS SharedWithoutMixUp TransfersExecutable ReportsTrue
PROPERTY CallsReturn
