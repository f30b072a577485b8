SPECIFICATION FairSpec
CONSTANTS
    Threads = {1, 2, 3, 4, 5}
    Queries = {"q", "a"}
    NO_QUERY = "none"
    QueryOf <- SharedQuery
    Writers = {2, 3, 5}
    Readers = {1, 2, 4}
    Timed = {2, 3}
    MayThrow = TRUE
INVARIANTS
    TypeOK
    MutualExclusion
    LockIsConsistent
    OneWaitingReadersGroup
    ReadersWaitForWriters
    QueryOwnersAreCounted
PROPERTY PhasesAlternate
PROPERTY WaitersAreServed
