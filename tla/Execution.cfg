SPECIFICATION MCSpec
CONSTANTS
    MaxFrames = 4
    MaxRoots = 2
    Roots = {"block", "builder", "tx", "call", "code"}
    Faults = {"kept", "torn"}
    TxPool <- MCTxPool
    Consensuses = {"none", "pow", "pos"}
    GenesisFees = {0, 16}
    GenesisGasLimit = 8
    GivenGasLimits = {6, 7}
    minGasLimit = 7
    gasLimitBoundDivisor = 4
    gasLimitCap = 11
    elasticityMultiplier = 2
    baseFeeMaxChangeDenominator = 8
    minimumDifficulty = 4
    difficultyBoundDivisor = 4
    durationLimit = 2
    bombPeriod = 1
    MaxBlocks = 3
    MaxNow = 2
    acct = acct
    slot = slot
    Addrs = {acct}
    Slots = {slot}
    Ripemd = acct
    NoSlot = NoSlot
    MaxDepth = 3
    MaxLog = 6
INVARIANTS
    JournalSound
    FramesSound
    BlocksSound
    NoForgedBlock
PROPERTIES
    RevertExact
    ThrowRestores
CONSTRAINT Followed
