SPECIFICATION Spec
CONSTANTS
    a = a
    b = b
    c = c
    w = w
    Txs = {a, b, c}
    Cheats = {w}
    Conflicts <- MCConflicts
    Expiration <- MCExpiration
    Intervals = {2}
    Jumps = {1}
    MaxTime = 5
    MaxSource = 1
    MaxMine = 2
    MaxWaiting = 2
    MaxRequests = 4
    MaxTicks = 1
    MaxFaults = 1
    None = None
INVARIANTS
    QueueSound
PROPERTIES
    StepsHonest
    Lifecycle
CHECK_DEADLOCK FALSE
