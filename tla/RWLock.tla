-------------------------------- MODULE RWLock --------------------------------
(***************************************************************************)
(* class RWLockImpl (src/Common/RWLock.{h,cpp}): the readers-writers lock  *)
(* of storages, with phase-fair queues of request groups, a fast path for  *)
(* threads of a query that already holds the lock, timeouts, and rollback  *)
(* when memory cannot be allocated.                                        *)
(*                                                                         *)
(* Every critical section of internal_state_mtx is one step.  Iterators    *)
(* into the two std::list are group ids; End is end().                     *)
(***************************************************************************)
EXTENDS Naturals, Sequences, FiniteSets

CONSTANTS
    Threads,
    Queries,         (* query ids                                          *)
    QueryOf,         (* the query of each thread, or NO_QUERY              *)
    NO_QUERY,
    Writers,         (* threads that may ask for Write                     *)
    Readers,         (* threads that may ask for Read                      *)
    Timed,           (* threads that call with a timeout                   *)
    MayThrow         (* whether owner_queries.emplace may throw            *)

End == 0
Groups == 1 .. Cardinality(Threads)

ASSUME RWLockAssumption ==
    /\ IsFiniteSet(Threads)
    /\ NO_QUERY \notin Queries
    /\ QueryOf \in [Threads -> Queries \cup {NO_QUERY}]
    /\ Writers \cup Readers \cup Timed \subseteq Threads
    /\ MayThrow \in BOOLEAN

VARIABLES
    readers_queue, writers_queue,   (* sequences of groups                 *)
    rdlock_owner, wrlock_owner,
    requests, ownership,            (* fields of the groups                *)
    owner_queries,                  (* how many holders each query has     *)
    thread                          (* what each thread is doing           *)

lock == <<readers_queue, writers_queue, rdlock_owner, wrlock_owner, ownership>>
vars == <<lock, requests, owner_queries, thread>>

Idle == [state |-> "idle", type |-> "Read", group |-> End]

-----------------------------------------------------------------------------
(* std::list.                                                              *)
Members(queue) == {queue[i] : i \in 1 .. Len(queue)}
Position(queue, g) == CHOOSE i \in 1 .. Len(queue) : queue[i] = g
erase(queue, g) ==
    IF g \notin Members(queue) THEN queue
    ELSE [i \in 1 .. Len(queue) - 1 |-> queue[IF i < Position(queue, g) THEN i ELSE i + 1]]
first(queue) == IF queue = <<>> THEN End ELSE Head(queue)
last(queue) == queue[Len(queue)]

(* A group that is in no queue.                                            *)
Fresh == CHOOSE g \in Groups : g \notin Members(readers_queue) \cup Members(writers_queue)

(* The groups from owner to the end of the readers' queue get ownership,   *)
(* and the last of them is the new rdlock_owner.                           *)
ReadersFrom(queue, owner) ==
    IF owner = End THEN {} ELSE {queue[i] : i \in Position(queue, owner) .. Len(queue)}

grantOwnershipToAllReaders(queue, owner, owns) ==
    /\ ownership' = [g \in Groups |-> owns[g] \/ g \in ReadersFrom(queue, owner)]
    /\ rdlock_owner' = IF owner = End THEN End ELSE last(queue)

(* Mutated form: the first group of readers that leaves ends the phase.    *)
dropOwnerGroupAndPassOwnership_early(type, g) ==
    LET owns == [ownership EXCEPT ![g] = FALSE]
        readers == erase(readers_queue, g)
        writers == erase(writers_queue, g)
        toReaders == IF type = "Read" THEN writers = <<>> ELSE readers # <<>>
    IN  /\ readers_queue' = readers
        /\ writers_queue' = writers
        /\ IF toReaders
           THEN /\ wrlock_owner' = End
                /\ grantOwnershipToAllReaders(readers, first(readers), owns)
           ELSE /\ rdlock_owner' = End
                /\ wrlock_owner' = first(writers)
                /\ ownership' = [h \in Groups |-> owns[h] \/ h = first(writers)]

(* Mutated form: the writer the lock passes to is not told.                *)
dropOwnerGroupAndPassOwnership_untold(type, g) ==
    LET owns == [ownership EXCEPT ![g] = FALSE]
        readers == erase(readers_queue, g)
        writers == erase(writers_queue, g)
        toReaders == IF type = "Read" THEN writers = <<>> ELSE readers # <<>>
    IN  /\ readers_queue' = readers
        /\ writers_queue' = writers
        /\ IF toReaders
           THEN /\ wrlock_owner' = End
                /\ grantOwnershipToAllReaders(readers, first(readers), owns)
           ELSE /\ rdlock_owner' = End
                /\ wrlock_owner' = first(writers)
                /\ ownership' = owns

(* An owner group without requests leaves; the lock passes on.  While      *)
(* other groups of readers own the lock, the read phase goes on.           *)
dropOwnerGroupAndPassOwnership(type, g) ==
    LET owns == [ownership EXCEPT ![g] = FALSE]
        readers == erase(readers_queue, g)
        writers == erase(writers_queue, g)
        lastReaders == type = "Write" \/ rdlock_owner \in {first(readers_queue), End}
        stillOwner == IF rdlock_owner = g
                      THEN readers_queue[Position(readers_queue, g) - 1]
                      ELSE rdlock_owner
        toReaders == IF type = "Read" THEN writers = <<>> ELSE readers # <<>>
    IN  /\ readers_queue' = readers
        /\ writers_queue' = writers
        /\ IF ~lastReaders
           THEN /\ wrlock_owner' = wrlock_owner
                /\ IF writers = <<>>
                   THEN grantOwnershipToAllReaders(readers, stillOwner, owns)
                   ELSE rdlock_owner' = stillOwner /\ ownership' = owns
           ELSE IF toReaders
           THEN /\ wrlock_owner' = End
                /\ grantOwnershipToAllReaders(readers, first(readers), owns)
           ELSE /\ rdlock_owner' = End
                /\ wrlock_owner' = first(writers)
                /\ ownership' = [h \in Groups |-> owns[h] \/ h = first(writers)]

-----------------------------------------------------------------------------
(* getLock.                                                                *)

holdsLock(t) == QueryOf[t] # NO_QUERY /\ owner_queries[QueryOf[t]] > 0

countOwner(t) ==
    owner_queries' = IF QueryOf[t] = NO_QUERY THEN owner_queries
                     ELSE [owner_queries EXCEPT ![QueryOf[t]] = @ + 1]

Holding(t, type, g) ==
    thread' = [thread EXCEPT ![t] = [state |-> "holding", type |-> type, group |-> g]]

(* Mutated form: the query is not counted again.                           *)
FastPath_uncounted(t) ==
    /\ thread[t].state = "idle" /\ t \in Readers
    /\ holdsLock(t)
    /\ wrlock_owner = End
    /\ requests' = [requests EXCEPT ![rdlock_owner] = @ + 1]
    /\ Holding(t, "Read", rdlock_owner)
    /\ UNCHANGED <<lock, owner_queries>>

(* The fast path.  In exclusive mode, or for Write, the call throws or     *)
(* returns nullptr and nothing changes.                                    *)
FastPath(t) ==
    /\ thread[t].state = "idle" /\ t \in Readers
    /\ holdsLock(t)
    /\ wrlock_owner = End
    /\ countOwner(t)
    /\ requests' = [requests EXCEPT ![rdlock_owner] = @ + 1]
    /\ Holding(t, "Read", rdlock_owner)
    /\ UNCHANGED lock

(* Mutated forms: a waiting writer is ignored; a waiting group is not used. *)
canUseLastGroup_barging == readers_queue # <<>>

canUseLastGroup_owners == readers_queue # <<>> /\ writers_queue = <<>>

(* The last group of readers is used while it waits, or while no writer    *)
(* waits.                                                                  *)
canUseLastGroup ==
    readers_queue # <<>> /\ (~ownership[last(readers_queue)] \/ writers_queue = <<>>)

groupFor(type) ==
    IF type = "Read" /\ canUseLastGroup THEN last(readers_queue) ELSE Fresh

enqueue(type, g) ==
    /\ readers_queue' = IF type = "Read" /\ ~canUseLastGroup
                        THEN Append(readers_queue, g) ELSE readers_queue
    /\ writers_queue' = IF type = "Write" THEN Append(writers_queue, g) ELSE writers_queue

Free == rdlock_owner = End /\ wrlock_owner = End

Asks(t, type) ==
    /\ thread[t].state = "idle"
    /\ t \in IF type = "Read" THEN Readers ELSE Writers
    /\ ~holdsLock(t)

(* The lock is free: the group becomes its owner at once.                  *)
AcquireFree(t, type) ==
    LET g == groupFor(type)
    IN  /\ Asks(t, type)
        /\ Free
        /\ enqueue(type, g)
        /\ rdlock_owner' = IF type = "Read" THEN g ELSE rdlock_owner
        /\ wrlock_owner' = IF type = "Write" THEN g ELSE wrlock_owner
        /\ ownership' = [ownership EXCEPT ![g] = TRUE]
        /\ countOwner(t)
        /\ requests' = [requests EXCEPT ![g] = @ + 1]
        /\ Holding(t, type, g)

(* A reader joins a group that owns the lock: the wait ends at once.       *)
JoinOwners(t) ==
    LET g == last(readers_queue)
    IN  /\ Asks(t, "Read")
        /\ canUseLastGroup
        /\ ownership[g]
        /\ countOwner(t)
        /\ requests' = [requests EXCEPT ![g] = @ + 1]
        /\ Holding(t, "Read", g)
        /\ UNCHANGED lock

Wait(t, type) ==
    LET g == groupFor(type)
    IN  /\ Asks(t, type)
        /\ ~Free
        /\ ~ownership[g]
        /\ enqueue(type, g)
        /\ requests' = [requests EXCEPT ![g] = @ + 1]
        /\ thread' = [thread EXCEPT ![t] = [state |-> "waiting", type |-> type, group |-> g]]
        /\ UNCHANGED <<rdlock_owner, wrlock_owner, ownership, owner_queries>>

(* The waiting thread finds its group an owner and binds its holder.       *)
Wake(t) ==
    /\ thread[t].state = "waiting"
    /\ ownership[thread[t].group]
    /\ countOwner(t)
    /\ Holding(t, thread[t].type, thread[t].group)
    /\ UNCHANGED <<lock, requests>>

(* Mutated forms: the request is taken back twice; the group of the last   *)
(* request stays.                                                          *)
WakeThrows_twice(t) ==
    LET g == thread[t].group
    IN  /\ MayThrow /\ QueryOf[t] # NO_QUERY
        /\ thread[t].state = "waiting"
        /\ ownership[g]
        /\ requests' = [requests EXCEPT ![g] = @ - 2]
        /\ IF requests[g] = 1
           THEN dropOwnerGroupAndPassOwnership(thread[t].type, g)
           ELSE UNCHANGED lock
        /\ thread' = [thread EXCEPT ![t] = Idle]
        /\ UNCHANGED owner_queries

WakeThrows_leak(t) ==
    /\ MayThrow /\ QueryOf[t] # NO_QUERY
    /\ thread[t].state = "waiting"
    /\ ownership[thread[t].group]
    /\ requests' = [requests EXCEPT ![thread[t].group] = @ - 1]
    /\ thread' = [thread EXCEPT ![t] = Idle]
    /\ UNCHANGED <<lock, owner_queries>>

(* owner_queries.emplace throws: the request is rolled back.               *)
WakeThrows(t) ==
    LET g == thread[t].group
    IN  /\ MayThrow /\ QueryOf[t] # NO_QUERY
        /\ thread[t].state = "waiting"
        /\ ownership[g]
        /\ requests' = [requests EXCEPT ![g] = @ - 1]
        /\ IF requests[g] = 1
           THEN dropOwnerGroupAndPassOwnership(thread[t].type, g)
           ELSE UNCHANGED lock
        /\ thread' = [thread EXCEPT ![t] = Idle]
        /\ UNCHANGED owner_queries

(* Mutated form: nobody is woken.                                          *)
Timeout_silent(t) ==
    LET g == thread[t].group
        gone == requests[g] = 1
    IN  /\ t \in Timed
        /\ thread[t].state = "waiting"
        /\ ~ownership[g]
        /\ requests' = [requests EXCEPT ![g] = @ - 1]
        /\ readers_queue' = IF gone THEN erase(readers_queue, g) ELSE readers_queue
        /\ writers_queue' = IF gone THEN erase(writers_queue, g) ELSE writers_queue
        /\ thread' = [thread EXCEPT ![t] = Idle]
        /\ UNCHANGED <<rdlock_owner, wrlock_owner, ownership, owner_queries>>

(* The wait times out: the request leaves, and readers that queued behind  *)
(* the last waiting writer are woken.                                      *)
Timeout(t) ==
    LET g == thread[t].group
        gone == requests[g] = 1
        readers == IF gone THEN erase(readers_queue, g) ELSE readers_queue
        writers == IF gone THEN erase(writers_queue, g) ELSE writers_queue
    IN  /\ t \in Timed
        /\ thread[t].state = "waiting"
        /\ ~ownership[g]
        /\ requests' = [requests EXCEPT ![g] = @ - 1]
        /\ readers_queue' = readers
        /\ writers_queue' = writers
        /\ IF rdlock_owner # End /\ writers = <<>>
           THEN grantOwnershipToAllReaders(readers, rdlock_owner, ownership)
           ELSE UNCHANGED <<rdlock_owner, ownership>>
        /\ thread' = [thread EXCEPT ![t] = Idle]
        /\ UNCHANGED <<wrlock_owner, owner_queries>>

(* What unlock() requires of the lock.                                     *)
consistent(type, g) ==
    /\ ownership[g]
    /\ IF type = "Read" THEN rdlock_owner # End /\ wrlock_owner = End
                        ELSE wrlock_owner = g /\ rdlock_owner = End

(* The holder is destroyed.                                                *)
unlock(t) ==
    LET g == thread[t].group
        type == thread[t].type
    IN  /\ thread[t].state = "holding"
        /\ IF ~consistent(type, g)
           THEN UNCHANGED <<lock, requests, owner_queries>>
           ELSE /\ owner_queries' = IF holdsLock(t)
                                    THEN [owner_queries EXCEPT ![QueryOf[t]] = @ - 1]
                                    ELSE owner_queries
                /\ requests' = [requests EXCEPT ![g] = @ - 1]
                /\ IF requests[g] = 1
                   THEN dropOwnerGroupAndPassOwnership(type, g)
                   ELSE UNCHANGED lock
        /\ thread' = [thread EXCEPT ![t] = Idle]

Init ==
    /\ readers_queue = <<>> /\ writers_queue = <<>>
    /\ rdlock_owner = End /\ wrlock_owner = End
    /\ requests = [g \in Groups |-> 0]
    /\ ownership = [g \in Groups |-> FALSE]
    /\ owner_queries = [q \in Queries |-> 0]
    /\ thread = [t \in Threads |-> Idle]

getLock(t) ==
    \/ FastPath(t)
    \/ \E type \in {"Read", "Write"} : AcquireFree(t, type) \/ Wait(t, type)
    \/ JoinOwners(t)

Next ==
    \E t \in Threads :
        \/ getLock(t)
        \/ Wake(t) \/ WakeThrows(t) \/ Timeout(t)
        \/ unlock(t)

Spec == Init /\ [][Next]_vars

(* Threads that are woken run, and holders are eventually destroyed.       *)
Fairness == \A t \in Threads : WF_vars(Wake(t) \/ WakeThrows(t)) /\ WF_vars(unlock(t))

FairSpec == Spec /\ Fairness

-----------------------------------------------------------------------------
Attached(g) == {t \in Threads : thread[t].state # "idle" /\ thread[t].group = g}
Holders == {t \in Threads : thread[t].state = "holding"}

(* The type invariant: the iterators refer to groups that can exist, and   *)
(* requests and holders are counted from 0 to the number of threads.       *)
TypeOK ==
    /\ Members(readers_queue) \cup Members(writers_queue) \subseteq Groups
    /\ rdlock_owner \in Groups \cup {End} /\ wrlock_owner \in Groups \cup {End}
    /\ requests \in [Groups -> 0 .. Cardinality(Threads)]
    /\ ownership \in [Groups -> BOOLEAN]
    /\ owner_queries \in [Queries -> 0 .. Cardinality(Threads)]
    /\ thread \in [Threads -> [state : {"idle", "waiting", "holding"},
                               type : {"Read", "Write"},
                               group : Groups \cup {End}]]

(* A thread that holds the lock in Write mode holds it alone.              *)
MutualExclusion ==
    \A t, u \in Holders : t # u => thread[t].type = "Read" /\ thread[u].type = "Read"

(* The comments on rdlock_owner and wrlock_owner, and what unlock() checks *)
(* with chassert: the owners are the readers' groups up to rdlock_owner,   *)
(* or the first writer, never both; nobody waits for a free lock; a group  *)
(* lives exactly as long as a request refers to it; and every holder could *)
(* be released now.                                                        *)
LockIsConsistent ==
    /\ \A i \in 1 .. Len(readers_queue) :
          ownership[readers_queue[i]] <=>
             rdlock_owner # End /\ i <= Position(readers_queue, rdlock_owner)
    /\ \A i \in 1 .. Len(writers_queue) :
          ownership[writers_queue[i]] <=> i = 1 /\ wrlock_owner = writers_queue[i]
    /\ rdlock_owner = End \/ wrlock_owner = End
    /\ Free => readers_queue = <<>> /\ writers_queue = <<>>
    /\ \A g \in Groups :
          /\ requests[g] = Cardinality(Attached(g))
          /\ requests[g] > 0 <=> g \in Members(readers_queue) \cup Members(writers_queue)
    /\ \A t \in Holders : consistent(thread[t].type, thread[t].group)

(* chassert(num_new_owners <= 1) of grantOwnershipToAllReaders: at most one *)
(* group of readers waits.                                                 *)
OneWaitingReadersGroup ==
    Cardinality({g \in Members(readers_queue) : ~ownership[g]}) <= 1

(* Readers wait only for writers: when the last waiting writer has timed   *)
(* out or left, no reader is still kept out of the read phase going on.    *)
ReadersWaitForWriters ==
    (\E g \in Members(readers_queue) : ~ownership[g]) => writers_queue # <<>>

(* owner_queries counts the holders of each query, so that the fast path   *)
(* is open exactly to the queries that hold the lock, also after failed    *)
(* and timed out requests.                                                 *)
QueryOwnersAreCounted ==
    \A q \in Queries : owner_queries[q] = Cardinality({t \in Holders : QueryOf[t] = q})

(* Phase-fair order.  While a writer waits, a reader that arrives enters   *)
(* at once only if its query holds the lock already, and no waiting group  *)
(* of readers enters the read phase that is going on; after a write phase  *)
(* the waiting readers go before the next writer.                          *)
PhasesAlternate ==
    [][ /\ \A t \in Threads :
              /\ writers_queue # <<>>
              /\ thread[t].state = "idle" /\ thread'[t].state = "holding"
              => holdsLock(t)
        /\ rdlock_owner # End /\ writers_queue # <<>> /\ writers_queue' # <<>> /\ rdlock_owner' # End
           => \A g \in Members(readers_queue') : ownership'[g] => ownership[g]
        /\ wrlock_owner # End /\ wrlock_owner' \notin {End, wrlock_owner}
           => readers_queue = <<>>
      ]_vars

(* Every request that waits is granted or times out: no wake-up is lost.   *)
(* The exception is a query that holds the lock for ever, its threads      *)
(* entering by the fast path before the others leave.                      *)
WaitersAreServed ==
    \A t \in Threads :
        \/ thread[t].state = "waiting" ~> thread[t].state # "waiting"
        \/ \E q \in Queries : <>[](owner_queries[q] > 0)
==============================================================================
