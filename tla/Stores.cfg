SPECIFICATION MCSpec
CONSTANTS
    k1 = k1
    c1 = c1
    c2 = c2
    v0 = v0
    v1 = v1
    r0 = r0
    r1 = r1
    nothing = nothing
    Keys = {k1}
    Elements = {nothing, v0, v1}
    Nothing = nothing
    Absent = absent
    Unsaved = unsaved
    CacheSize = 0
    MaxDepth = 3
    Cells = {c1, c2}
    Values = {v0, v1}
    Roots = {r0, r1}
    Burns = {0, 1}
    MaxNest = 3
    MaxUndo = 3
INVARIANTS
    StoreSound
    UnwindSound
PROPERTIES
    ActsAsMap
    FaultLeavesChain
SYMMETRY Alike
