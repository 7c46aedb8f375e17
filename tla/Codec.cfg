SPECIFICATION Spec
CONSTANTS
    Single = 1
    Short = 1
    LengthBytes = 2
    MaxWire = 5
    MaxString = 10
    MaxEncoded = 13
    Nonces = {0, 256}
    Hashes <- MCHashes
    TokenIds = {300, 1000}
    TokenBalances = {0, 200}
    IndexLimit = 100
    PermissionLists <- MCLists
    CreatorIds = {1, 65}
    CreatorNonces = {0, 1, 128, 256}
    MaxCreated = 2
    TxDatas <- MCDatas
    Chains = {1, 2}
    TxKeys = {"k1", "k2"}
    BaseFees = {0, 1, 2, 3}
    MAX_INTEGER = 15
    MAX_UINT64 = 3
    TOKEN_MAX = 1
    MaxMade = 4
INVARIANTS
    RlpSound
    
    TransactionsExact
CHECK_DEADLOCK FALSE
