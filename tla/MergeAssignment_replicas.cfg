CONSTANTS
    LEGACY_MAX_LEVEL = 1000000000
    r1 = r1
    r2 = r2
    a1 = a1
    a2 = a2
    m1 = m1
    m2 = m2
    d1 = d1
    d2 = d2
    Replicas = {r1, r2}
    Assigners = {a1}
    Home <- HomeSingle
    MergeSelectors = {a1}
    PartDroppers = {}
    Mutators = {m1}
    Droppers = {d1}
    LockContents = {"insert"}
    MaxBlocks = 2
    MaxLog = 2
SPECIFICATION FairSpec
INVARIANTS
    TypeOK
    ReplicasAgree
    MutationLoadedBeforeEntry
PROPERTY ReplicasCatchUp
