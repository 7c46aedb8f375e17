SPECIFICATION MCSpec
CONSTANTS
    k1 = k1
    k2 = k2
    v1 = v1
    v2 = v2
    Radix = 2
    HashLength = 9
    TrieKeys <- MCKeys
    TrieValues = {"small", "large"}
    ValueLength <- MCValueLength
    Probes <- MCProbes
    MaxOps = 2
    Stems <- MCKeys
    SuffixSet = {0, 1}
    StemValues = {"a", "b"}
    MaxTreeOps = 2
    Keys = {k1, k2}
    Values = {v1, v2}
    Absent = Absent
    Unset = Unset
    CacheSize = 1
    Overlap = FALSE
    MaxDepth = 2
INVARIANTS
    TrieSound
    TreeSound
    DatabaseSound
PROPERTY LastWriteRead
