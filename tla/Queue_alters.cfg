SPECIFICATION Spec
CONSTANTS
    LEGACY_MAX_LEVEL = 1000000000
    Histories <- OnlyKilledAlter
    MaxEvents = 5
    Executed = 1
    MaxFaults = 1
CHECK_DEADLOCK FALSE
INVARIANT AlterSequenceHoldsCurrentAlters
