CONSTANTS
    LEGACY_MAX_LEVEL = 1000000000
    r1 = r1
    r2 = r2
    a1 = a1
    a2 = a2
    m1 = m1
    m2 = m2
    d1 = d1
    d2 = d2
    Replicas = {r1}
    Assigners = {}
    Home <- HomeNone
    MergeSelectors = {}
    PartDroppers = {}
    Mutators = {}
    Droppers = {d1}
    LockContents = {"insert", "other"}
    MaxBlocks = 2
    MaxLog = 2
SPECIFICATION Spec
INVARIANTS
    DropRangeIsolation
