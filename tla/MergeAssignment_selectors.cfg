CONSTANTS
    LEGACY_MAX_LEVEL = 1000000000
    r1 = r1
    r2 = r2
    a1 = a1
    a2 = a2
    m1 = m1
    m2 = m2
    d1 = d1
    d2 = d2
    Replicas = {r1}
    Assigners = {a1, a2}
    Home <- HomeOne
    MergeSelectors = {a1, a2}
    PartDroppers = {a1, a2}
    Mutators = {}
    Droppers = {}
    LockContents = {"insert"}
    MaxBlocks = 2
    MaxLog = 5
SYMMETRY SymmetryAssigners
SPECIFICATION Spec
INVARIANTS
    NoIntersectingParts
    EachPartIsTakenOnce
