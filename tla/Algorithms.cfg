\* Pure algorithms against their reference definitions.
CONSTANTS
    Single = 3
    Short = 3
    Long = 2
    IntBuf = 3
    Inputs <- MCInputs
    ByteBits = 4
    NilSlice = NilSlice
    Nothing = Nothing
    WordBits = 3
    GroupBits = 8
    MinGroups = 1
    MaxGroups = 2
    IndexBytes = 2
    WalletCurve <- MCWalletCurve
    TxCurve <- MCWalletCurve
    B58 = 11
    IntDigits = 4
    AddressLen = 2
    CheckLen = 3
    WordLen = 3
    SigLen = 4
    RlpValues <- MCRlpValues
    RlpTypes <- MCRlpTypes
    GenValues <- MCGenValues
    GenTypes <- MCGenTypes
    Curves <- MCCurves
    Transactions <- MCTransactions
    ChainIds <- MCChainIds
    Nonces <- MCNonces
    Entropies <- MCEntropies
    Sentences <- MCSentences
    Seeds <- MCSeeds
    Indexes <- MCIndexes
    Texts <- MCTexts
    Numbers <- MCNumbers
    Payloads <- MCPayloads
    CallData <- MCCallData
    KnownTokens <- MCTokens
    NodeBlocks <- MCNodeBlocks
    Amounts <- MCAmounts
    Decimals = {0, 1, 2, 3}
    KeyRadix = 16
    NoAddress = NoAddress
    KeySets <- MCKeySets
    Probes <- MCProbes
SPECIFICATION Spec
CHECK_DEADLOCK FALSE
INVARIANTS
    
    StreamKeepsLists
    SignaturesRecover
    KeysRecover
    TextsRoundTrip
    TransfersRecognised
    LookupIsMap
