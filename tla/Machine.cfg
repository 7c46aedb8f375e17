SPECIFICATION MCSpec
CONSTANTS
    ByteBits = 8
    WordBytes = 2
    Fee <- MCFee
    StackLimit = 2
    MaxHeight = 20
    MaxInt64 = 9
    MaxUint64 = 2
    MinTokenId = 2
    Block <- MCBlock
    Identity <- Id
    Scenarios <- MCScenarios
    Owners = {a, b}
    Deployable = {c}
    Quotas = {"BANDWIDTH"}
    Funds = 5
    Amounts = {2, 3}
    Units = {2}
    Periods = {0, 2}
    Trx = 2
    Limit = 4
    Window = 2
    Precision = 4
    DefaultLock = 1
    Frozen = 1
    MaxPending = 1
    Params <- BothStakes
    MaxTxs = 5
    MaxTime = 2
INVARIANTS
    MachineSound
    BooksSound
PROPERTIES
    StepsConserve
    DelegationHonest
SYMMETRY OwnersAlike
CHECK_DEADLOCK FALSE
