SPECIFICATION FairSpec
CONSTANTS
    Replicas = {r1}
    Inserts = {"i1", "i2"}
    Ids = {"a", "u", "b", "c"}
    Dedup = {"a", "b", "c"}
    Workloads <- AllWorkloads
    MaxRetries = 1
    MaxBlocks = 3
    MaxEvents = 2
CHECK_DEADLOCK FALSE
INVARIANTS TypeOK CommittedPartIsKeptUnlessKilled VisiblePartIsCommittedOrChecked
PROPERTY ImplementsPromise
PROPERTY EverythingIsSettled
