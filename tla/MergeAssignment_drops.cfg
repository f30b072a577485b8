CONSTANTS
    LEGACY_MAX_LEVEL = 1000000000
    r1 = r1
    r2 = r2
    a1 = a1
    a2 = a2
    m1 = m1
    m2 = m2
    d1 = d1
    d2 = d2
    Replicas = {r1}
    Assigners = {a1}
    Home <- HomeSingle
    MergeSelectors = {a1}
    PartDroppers = {}
    Mutators = {m1}
    Droppers = {d1, d2}
    LockContents = {"insert"}
    MaxBlocks = 3
    MaxLog = 4
SYMMETRY SymmetryDroppers
SPECIFICATION Spec
INVARIANTS
    NoIntersectingParts
    DropRangeIsolation
    NoInsertIsSwallowed
    MergeKeepsBlocks
