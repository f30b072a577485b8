SPECIFICATION FairSpec
CONSTANTS
    LEGACY_MAX_LEVEL = 1000000000
    Histories <- AllHistories
    MaxEvents = 5
    Executed = 1
    MaxFaults = 1
INVARIANT TypeOK
INVARIANT QueueIsInZooKeeper
INVARIANT CaughtUpReplicaHasTheParts
INVARIANT PartsNeverIntersect
INVARIANT VirtualPartsAreCurrentPartsAndQueue
INVARIANT FinishedMutationIsAppliedOrQueued
INVARIANT AltersAreExecutedInOrder
PROPERTY CatchesUp
CHECK_DEADLOCK FALSE
