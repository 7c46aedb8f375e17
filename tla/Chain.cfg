CONSTANTS
    Blocks <- MCBlocks
    Genesis = "g"
    Parent <- MCParent
    Number <- MCNumber
    Difficulty <- MCDifficulty
    Uncles <- MCUncles
    Empty = {"a2"}
    Names = {"vm"}
    Modes = {"number", "td", "stake"}
    IteratedModes = {"number"}
    None = None
    Accounts = {1, 2, 3}
    GenesisSigners <- MCGenesisSigners
    Ballots <- MCBallots
    Epoch = 3
    HistoryLimit = 3
    MaxHeight = 4
    MaxBranch = 2
SPECIFICATION MCSpec
INVARIANTS
    ChainSound
    
    SignersSound
    SnapshotIsReplay
PROPERTY NoBlockSkipped
CONSTRAINT Followed
