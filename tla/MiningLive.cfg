SPECIFICATION FairSpec
CONSTANTS
    a = a
    b = b
    c = c
    w = w
    Txs = {a, b}
    Cheats = {w}
    Conflicts <- MCConflicts
    Expiration <- MCExpiration
    Intervals = {1}
    Jumps = {1}
    MaxTime = 14
    MaxSource = 0
    MaxMine = 2
    MaxWaiting = 2
    MaxRequests = 4
    MaxTicks = 1
    MaxFaults = 1
    None = None
PROPERTY Served
CHECK_DEADLOCK FALSE
