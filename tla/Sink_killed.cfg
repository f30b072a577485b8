SPECIFICATION Spec
CONSTANTS
    Replicas = {r1}
    Inserts = {"i1", "i2"}
    Ids = {"a", "u", "b", "c"}
    Dedup = {"a", "b", "c"}
    Workloads <- AllWorkloads
    MaxRetries = 1
    MaxBlocks = 2
    MaxEvents = 1
CHECK_DEADLOCK FALSE
INVARIANT CommittedPartIsKept
