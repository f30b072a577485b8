-------------------------- MODULE InsertSafetyProofs --------------------------
(***************************************************************************)
(* No merge, mutation or DROP PART swallows an insert that can still       *)
(* commit: the claim of the proof sketch in canMergeTwoParts, for any      *)
(* number of replicas, predicates, mutations and drops.                    *)
(***************************************************************************)
EXTENDS MergeAssignmentInvariant, TLAPS

-----------------------------------------------------------------------------
(* Nothing becomes unsafe when the only number that can newly be locked is *)
(* the one allocated now.                                                  *)
LEMMA SafeStays ==
    ASSUME NEW n \in Nat, NEW m \in Nat, n <= m, NEW F, NEW G, G \subseteq F \cup {n}
    PROVE  /\ \A e \in LogEntries : SafeEntry(e, n, F) => SafeEntry(e, m, G)
           /\ \A p \in Parts : SafePart(p, n, F) => SafePart(p, m, G)
           /\ \A q \in Predicates : SafePredicate(q, n, F) => SafePredicate(q, m, G)
  <1>1. \A p \in Parts : p.max_block < n => p.max_block < m /\ n \notin Blocks(p)
    BY DEF Parts, PartInfo, Blocks
  <1>2. \A p \in Parts : p.max_block < n /\ Clear(p, F) => Clear(p, G)
    BY Zenon, <1>1 DEF Clear
  <1>3. \A e \in LogEntries : SafeEntry(e, n, F) => SafeEntry(e, m, G)
    <2> SUFFICES ASSUME NEW e \in LogEntries, SafeEntry(e, n, F) PROVE SafeEntry(e, m, G)
      BY Zenon
    <2>1. e.new_part \in Parts
      BY Zenon DEF LogEntries
    <2> QED BY Zenon, <1>1, <1>2, <2>1 DEF SafeEntry
  <1>4. \A p \in Parts : SafePart(p, n, F) => SafePart(p, m, G)
    BY Zenon, <1>1, <1>2 DEF SafePart
  <1>5. \A q \in Predicates : SafePredicate(q, n, F) => SafePredicate(q, m, G)
    <2> SUFFICES ASSUME NEW q \in Predicates, SafePredicate(q, n, F)
                 PROVE  SafePredicate(q, m, G)
      OBVIOUS
    <2>1. q.entry \in LogEntries /\ q.prev \subseteq Parts
      BY Zenon DEF Predicates
    <2>2. \A p \in q.prev : p.max_block < n /\ p.max_block < m /\ ~(n <= p.max_block)
      BY <1>1, <2>1 DEF SafePredicate, Parts, PartInfo
    <2>3. Knows(q, F) => Knows(q, G)
      BY Zenon, <2>2 DEF Knows
    <2> QED BY Zenon, <1>3, <2>1, <2>2, <2>3 DEF SafePredicate
  <1> QED BY Zenon, <1>3, <1>4, <1>5

(* A step that hands out at most one number.                               *)
FlightStep ==
    /\ next_block' \in Nat /\ next_block <= next_block'
    /\ locks' \subseteq locks \cup {next_block}

LEMMA LogStays ==
    ASSUME IInv, FlightStep, log' = log PROVE LogSafe'
  <1>1. next_block \in Nat /\ log \in Seq(LogEntries)
    BY Zenon DEF IInv, TypeInv, TypeOK
  <1>2. \A i \in 1 .. Len(log) : log[i] \in LogEntries
    BY <1>1
  <1> QED BY Zenon, <1>1, <1>2, SafeStays DEF IInv, SwallowInv, LogSafe, FlightStep

LEMMA LogGrows ==
    ASSUME IInv, FlightStep, NEW e \in LogEntries, log' = Append(log, e),
           SafeEntry(e, next_block', locks')
    PROVE  LogSafe'
  <1>1. next_block \in Nat /\ log \in Seq(LogEntries)
    BY Zenon DEF IInv, TypeInv, TypeOK
  <1>2. Len(log') = Len(log) + 1 /\ Len(log) \in Nat
    BY <1>1
  <1>3. \A i \in 1 .. Len(log) : log[i] \in LogEntries /\ log'[i] = log[i]
    BY <1>1
  <1>4. log'[Len(log) + 1] = e
    BY <1>1
  <1>5. \A i \in 1 .. Len(log) : SafeEntry(log'[i], next_block', locks')
    BY Zenon, <1>1, <1>3, SafeStays DEF IInv, SwallowInv, LogSafe, FlightStep
  <1>6. \A i \in 1 .. Len(log') : i \in 1 .. Len(log) \/ i = Len(log) + 1
    BY <1>2
  <1> QED BY Zenon, <1>4, <1>5, <1>6 DEF LogSafe

LEMMA QueuesStay ==
    ASSUME IInv, FlightStep, virtual_parts' = virtual_parts PROVE QueuesSafe'
  <1>1. next_block \in Nat /\ \A r \in Replicas : virtual_parts[r] \subseteq Parts
    BY Zenon DEF IInv, TypeInv, TypeOK
  <1> QED BY Zenon, <1>1, SafeStays DEF IInv, SwallowInv, QueuesSafe, FlightStep

LEMMA PredicatesStay ==
    ASSUME IInv, FlightStep, pred' = pred PROVE PredicatesSafe'
  <1>1. next_block \in Nat /\ \A w \in Assigners : pred[w] \in Predicates
    BY Zenon DEF IInv, TypeInv, TypeOK
  <1> QED BY Zenon, <1>1, SafeStays DEF IInv, SwallowInv, PredicatesSafe, FlightStep

LEMMA PredicateChanges ==
    ASSUME IInv, FlightStep, NEW w \in Assigners, NEW q,
           pred' = [pred EXCEPT ![w] = q], SafePredicate(q, next_block', locks')
    PROVE  PredicatesSafe'
  <1>1. /\ next_block \in Nat /\ \A v \in Assigners : pred[v] \in Predicates
        /\ \A v \in Assigners : pred'[v] = IF v = w THEN q ELSE pred[v]
    BY Zenon DEF IInv, TypeInv, TypeOK
  <1> QED BY Zenon, <1>1, SafeStays DEF IInv, SwallowInv, PredicatesSafe, FlightStep

(* Queries only release numbers or take the next one.                      *)
Moves ==
    \/ locks' \subseteq locks /\ next_block' = next_block
    \/ locks' \subseteq locks \cup {next_block} /\ next_block' = next_block + 1

LEMMA MovesAreSafe ==
    ASSUME IInv, Moves, inserts' \subseteq inserts
    PROVE  /\ FlightStep
           /\ \A b \in locks' : b < next_block'
           /\ \A i \in inserts' : i.number < next_block'
  <1>1. /\ next_block \in Nat /\ \A i \in inserts : i.number \in Nat /\ i.number < next_block
        /\ \A b \in locks : b \in Nat /\ b < next_block
    BY Zenon DEF IInv, TypeInv, TypeOK, SwallowInv, Allocated
  <1>2. \A b \in locks' : b < next_block'
    BY <1>1 DEF Moves
  <1>3. \A i \in inserts' : i.number < next_block'
    BY <1>1 DEF Moves
  <1>4. FlightStep
    BY <1>1 DEF Moves, FlightStep
  <1> QED BY Zenon, <1>2, <1>3, <1>4

(* A query that leaves the log, the queues and the predicates alone.       *)
LEMMA ClientStep ==
    ASSUME IInv, FlightStep, Allocated', UNCHANGED <<log, queues, pred>>
    PROVE  SwallowInv'
  <1>1. UNCHANGED <<virtual_parts, pull>>
    BY Zenon DEF queues
  <1>2. LogSafe' /\ QueuesSafe' /\ PredicatesSafe'
    BY Zenon, <1>1, LogStays, QueuesStay, PredicatesStay
  <1>3. Waiting'
    BY Zenon, <1>1 DEF IInv, SwallowInv, Waiting
  <1> QED BY Zenon, <1>2, <1>3 DEF SwallowInv

(* The same with one safe entry appended to the log.                       *)
LEMMA ClientAppends ==
    ASSUME IInv, FlightStep, Allocated', UNCHANGED <<queues, pred>>,
           NEW e \in LogEntries, log' = Append(log, e),
           SafeEntry(e, next_block', locks')
    PROVE  SwallowInv'
  <1>1. UNCHANGED <<virtual_parts, pull>>
    BY Zenon DEF queues
  <1>2. LogSafe' /\ QueuesSafe' /\ PredicatesSafe'
    BY Zenon, <1>1, LogGrows, QueuesStay, PredicatesStay
  <1>3. Waiting'
    BY Zenon, <1>1 DEF IInv, SwallowInv, Waiting
  <1> QED BY Zenon, <1>2, <1>3 DEF SwallowInv

LEMMA DroppersAllocated ==
    ASSUME IInv, UNCHANGED dropper, FlightStep
    PROVE  \A d \in Droppers : dropper'[d].number <= next_block'
  <1>1. next_block \in Nat /\ \A d \in Droppers : dropper[d].number \in Nat
    BY Zenon DEF IInv, TypeInv, TypeOK
  <1> QED BY <1>1 DEF IInv, SwallowInv, Allocated, FlightStep

LEMMA InsertSafe == IInv /\ Insert => SwallowInv'
  <1> SUFFICES ASSUME IInv, Insert PROVE SwallowInv'
    BY Zenon
  <1>0. next_block \in Nat /\ \A i \in inserts : i.number \in Nat
    BY Zenon DEF IInv, TypeInv, TypeOK
  <1>1. ASSUME NEW content \in LockContents, InsertLock(content) PROVE SwallowInv'
    <2>1. /\ next_block' = next_block + 1
          /\ locks' = locks \cup {next_block}
          /\ inserts' = inserts \cup {[number |-> next_block, content |-> content]}
      BY Zenon, <1>1 DEF InsertLock, allocateBlockNumber
    <2>2. \A i \in inserts' : i \in inserts \/ i.number = next_block
      BY <2>1
    <2>3. /\ \A i \in inserts : i.number < next_block
          /\ \A b \in locks : b \in Nat /\ b < next_block
      BY Zenon DEF IInv, TypeInv, TypeOK, SwallowInv, Allocated
    <2>4. FlightStep
      BY <1>0, <2>1 DEF FlightStep
    <2>5. /\ \A i \in inserts' : i.number < next_block'
          /\ \A b \in locks' : b < next_block'
      BY <1>0, <2>1, <2>2, <2>3
    <2>6. Allocated'
      BY Zenon, <1>1, <2>4, <2>5, DroppersAllocated DEF InsertLock, Allocated
    <2> QED BY Zenon, <1>1, <2>4, <2>6, ClientStep DEF InsertLock
  <1>2. ASSUME NEW i \in inserts, InsertCommit(i) PROVE SwallowInv'
    <2> DEFINE e == Entry("GET_PART", Part(Partition, i.number, i.number, 0, 0), {})
    <2>1. /\ log' = Append(log, e) /\ locks' = locks \ {i.number}
          /\ inserts' = inserts \ {i}
          /\ UNCHANGED <<next_block, dropper, queues, pred>>
      BY Zenon, <1>2 DEF InsertCommit, AppendToLog
    <2>2. FlightStep /\ Allocated'
      <3>1. Moves /\ inserts' \subseteq inserts
        BY Zenon, <2>1 DEF Moves
      <3> QED BY Zenon, <2>1, <3>1, MovesAreSafe, DroppersAllocated DEF Allocated
    <2>4. i.number \notin locks'
      BY Zenon, <2>1
    <2>5. i.number < next_block'
      BY Zenon, <2>1 DEF IInv, SwallowInv, Allocated
    <2>6. e \in LogEntries
      BY <1>0 DEF Entry, LogEntries, EntryTypes, Part, Partition, Parts, PartInfo, Levels, MAX_LEVEL
    <2>7. e.type = "GET_PART" /\ e.new_part.max_block = i.number
          /\ Blocks(e.new_part) = {i.number}
      BY <1>0 DEF Entry, Part, Blocks
    <2>8. SafeEntry(e, next_block', locks')
      BY Zenon, <2>4, <2>5, <2>7 DEF SafeEntry, Clear
    <2> HIDE DEF e
    <2> QED BY Zenon, <2>1, <2>2, <2>6, <2>8, ClientAppends
  <1>3. ASSUME NEW i \in inserts, InsertCancelled(i) \/ InsertAbort(i) PROVE SwallowInv'
    <2>1. /\ locks' \subseteq locks /\ inserts' \subseteq inserts
          /\ UNCHANGED <<next_block, log, dropper, queues, pred>>
      BY Zenon, <1>3 DEF InsertCancelled, InsertAbort, zk
    <2>2. FlightStep /\ Allocated'
      <3>1. Moves /\ inserts' \subseteq inserts
        BY Zenon, <2>1 DEF Moves
      <3> QED BY Zenon, <2>1, <3>1, MovesAreSafe, DroppersAllocated DEF Allocated
    <2> QED BY Zenon, <2>1, <2>2, ClientStep
  <1> QED BY Zenon, <1>1, <1>2, <1>3 DEF Insert

LEMMA MutateSafe ==
    ASSUME IInv, NEW m \in Mutators, Mutate(m) PROVE SwallowInv'
  <1>1. Moves /\ UNCHANGED <<inserts, log, dropper, queues, pred>>
    BY Zenon DEF Moves, Mutate, MutateReadVersion, MutateAllocate, MutateCommit, MutateConflict,
           MutateUnlock, allocateBlockNumber, zk
  <1>2. FlightStep
    BY Zenon, <1>1, MovesAreSafe
  <1>3. Allocated'
    BY Zenon, <1>1, <1>2, MovesAreSafe, DroppersAllocated DEF Allocated
  <1> QED BY Zenon, <1>1, <1>2, <1>3, ClientStep

LEMMA DropPartitionSafe ==
    ASSUME IInv, NEW d \in Droppers, DropPartition(d) PROVE SwallowInv'
  <1>0. /\ next_block \in Nat
        /\ dropper[d] \in [pc : DropperSteps, seen : Nat, number : Nat]
        /\ dropper[d].number <= next_block
    BY Zenon DEF IInv, TypeInv, TypeOK, SwallowInv, Allocated
  <1>1. Moves /\ UNCHANGED <<inserts, queues, pred>>
    BY Zenon DEF Moves, DropPartition, DropReadVersion, DropAllocate, DropCancelInsert, DropCleared,
           DropEmpty, DropCommit, DropConflict, allocateBlockNumber, zk, clients
  <1>2. FlightStep
    BY Zenon, <1>1, MovesAreSafe
  <1>3. \A c \in Droppers : dropper'[c].number <= next_block'
    <2>0. dropper \in [Droppers -> [pc : DropperSteps, seen : Nat, number : Nat]]
      BY Zenon DEF IInv, TypeInv, TypeOK
    <2>1. /\ dropper'[d].number \in {0, next_block, dropper[d].number}
          /\ \A c \in Droppers : c # d => dropper'[c] = dropper[c]
      <3>1. CASE DropReadVersion(d)
        BY Zenon, <3>1, <2>0 DEF DropReadVersion
      <3>2. CASE DropAllocate(d)
        BY Zenon, <3>2, <2>0 DEF DropAllocate
      <3>3. CASE DropCancelInsert(d)
        BY Zenon, <3>3 DEF DropCancelInsert, clients
      <3>4. CASE DropCleared(d)
        BY Zenon, <3>4, <2>0 DEF DropCleared
      <3>5. CASE DropCommit(d)
        BY Zenon, <3>5, <2>0 DEF DropCommit, NoDrop
      <3>6. CASE DropConflict(d)
        BY Zenon, <3>6, <2>0 DEF DropConflict, NoDrop
      <3>7. CASE DropEmpty(d)
        BY Zenon, <3>7, <2>0 DEF DropEmpty
      <3> QED BY Zenon, <3>1, <3>2, <3>3, <3>4, <3>5, <3>6, <3>7 DEF DropPartition
    <2>2. \A c \in Droppers : dropper[c].number \in Nat /\ dropper[c].number <= next_block
      BY Zenon DEF IInv, TypeInv, TypeOK, SwallowInv, Allocated
    <2>3. \A c \in Droppers : dropper[c].number <= next_block'
      BY <1>0, <1>2, <2>2 DEF FlightStep
    <2>4. 0 <= next_block' /\ next_block <= next_block'
      BY <1>2 DEF FlightStep
    <2> QED BY Zenon, <2>1, <2>3, <2>4
  <1>4. Allocated'
    BY Zenon, <1>1, <1>3, MovesAreSafe DEF Allocated
  <1>5. CASE log' = log
    BY Zenon, <1>1, <1>2, <1>4, <1>5, ClientStep
  <1>6. CASE DropCommit(d) /\ dropper[d].number # 0
    <2> DEFINE n == dropper[d].number
               e == Entry("DROP_RANGE", DropRangePart(n), {})
    <2>1. log' = Append(log, e) /\ next_block' = next_block
      BY Zenon, <1>6 DEF DropCommit, AppendToLog
    <2>2. n - 1 \in Nat /\ n - 1 < next_block
      BY <1>0, <1>6
    <2>3. DropRangePart(n) \in Parts
      BY <2>2 DEF DropRangePart, Part, Partition, Parts, PartInfo, Levels, MAX_LEVEL, MAX_BLOCK_NUMBER
    <2>4. e \in LogEntries
      BY Zenon, <2>3 DEF Entry, LogEntries, EntryTypes
    <2>5. e.type = "DROP_RANGE" /\ isFakeDropRangePart(e.new_part)
          /\ e.new_part.max_block = n - 1
      BY Zenon DEF Entry, DropRangePart, Part, isFakeDropRangePart
    <2>6. SafeEntry(e, next_block', locks')
      BY Zenon, <2>1, <2>2, <2>5 DEF SafeEntry
    <2> HIDE DEF e
    <2> QED BY Zenon, <1>1, <1>2, <1>4, <2>1, <2>4, <2>6, ClientAppends
  <1>7. log' = log \/ (DropCommit(d) /\ dropper[d].number # 0)
    BY Zenon DEF DropPartition, DropReadVersion, DropAllocate, DropCancelInsert, DropCleared,
           DropEmpty, DropCommit, DropConflict, zk
  <1> QED BY Zenon, <1>5, <1>6, <1>7

-----------------------------------------------------------------------------
(* Steps of replicas and assigners hand out no number.                     *)
LEMMA Quiet ==
    ASSUME IInv, UNCHANGED <<next_block, locks, inserts, dropper>>
    PROVE  FlightStep /\ Allocated'
  <1>1. next_block \in Nat
    BY Zenon DEF IInv, TypeInv, TypeOK
  <1>2. Allocated'
    BY Zenon DEF IInv, SwallowInv, Allocated
  <1> QED BY <1>1, <1>2 DEF FlightStep

LEMMA ReplicaSafe ==
    ASSUME IInv, NEW r \in Replicas, Replica(r) PROVE SwallowInv'
  <1>0. /\ pull \in [Replicas -> Pulls] /\ pred \in [Assigners -> Predicates]
        /\ virtual_parts \in [Replicas -> SUBSET Parts]
        /\ log_pointer \in [Replicas -> Nat] /\ log \in Seq(LogEntries)
        /\ pull[r].upto <= Len(log)
    BY Zenon DEF IInv, TypeInv, TypeOK, Bounded
  <1>1. UNCHANGED <<next_block, locks, inserts, dropper, log>>
    BY Zenon DEF Replica, PullStep, queueUpdatingTask, PullListLog, PullUpdateMutations,
           PullCopyEntry, PullDone, mutationsUpdatingTask, ExecuteDropRange, zk, clients
  <1>2. FlightStep /\ Allocated' /\ LogSafe'
    BY Zenon, <1>1, Quiet, LogStays
  <1>3. CASE /\ UNCHANGED <<virtual_parts, pred>>
             /\ \A s \in Replicas : pull'[s].waiter \in {pull[s].waiter, {}}
    <2>1. Waiting'
      BY Zenon, <1>3 DEF IInv, SwallowInv, Waiting
    <2> QED BY Zenon, <1>2, <1>3, <2>1, QueuesStay, PredicatesStay DEF SwallowInv
  <1>4. CASE /\ UNCHANGED <<pull, pred>>
             /\ \E V : /\ virtual_parts' = [virtual_parts EXCEPT ![r] = V]
                       /\ \A p \in V : SafePart(p, next_block, locks)
    <2>1. QueuesSafe'
      BY Zenon, <1>0, <1>1, <1>2, <1>4 DEF IInv, SwallowInv, QueuesSafe
    <2>2. Waiting'
      BY Zenon, <1>4 DEF IInv, SwallowInv, Waiting
    <2> QED BY Zenon, <1>2, <1>4, <2>1, <2>2, PredicatesStay DEF SwallowInv
  <1>5. CASE queueUpdatingTask(r)
    <2>1. \A s \in Replicas : pull'[s].waiter \in {pull[s].waiter, {}}
      BY Zenon, <1>0, <1>5 DEF queueUpdatingTask, PullStart, NoPull
    <2> QED BY Zenon, <1>3, <1>5, <2>1 DEF queueUpdatingTask
  <1>6. CASE PullListLog(r)
    <2>1. \A s \in Replicas : pull'[s].waiter = pull[s].waiter
      BY Zenon, <1>0, <1>6 DEF PullListLog, Pulls
    <2> QED BY Zenon, <1>3, <1>6, <2>1 DEF PullListLog
  <1>7. CASE PullUpdateMutations(r)
    <2>1. \A s \in Replicas : pull'[s].waiter = pull[s].waiter
      BY Zenon, <1>0, <1>7 DEF PullUpdateMutations, Pulls
    <2> QED BY Zenon, <1>3, <1>7, <2>1 DEF PullUpdateMutations
  <1>8. CASE PullCopyEntry(r)
    <2> DEFINE entry == log[log_pointer[r] + 1]
               V == insertUnlocked(virtual_parts[r], entry)
    <2>1. log_pointer[r] + 1 \in 1 .. Len(log)
      BY <1>0, <1>8 DEF PullCopyEntry, Pulls
    <2>2. SafeEntry(entry, next_block, locks)
      BY Zenon, <2>1 DEF IInv, SwallowInv, LogSafe
    <2>3. SafePart(entry.new_part, next_block, locks)
      BY Zenon, <2>2 DEF SafeEntry, SafePart
    <2>4. V \subseteq virtual_parts[r] \cup {entry.new_part}
      BY Zenon DEF insertUnlocked, addPart, removePartAndCoveredParts
    <2>5. \A p \in V : SafePart(p, next_block, locks)
      BY Zenon, <2>3, <2>4 DEF IInv, SwallowInv, QueuesSafe
    <2>6. /\ virtual_parts' = [virtual_parts EXCEPT ![r] = V]
          /\ UNCHANGED <<pull, pred>>
      BY Zenon, <1>0, <1>8 DEF PullCopyEntry
    <2> HIDE DEF V
    <2> QED BY Zenon, <1>4, <2>5, <2>6
  <1>9. CASE PullDone(r)
    <2>1. \A w \in Assigners :
             pred'[w] = IF w \in pull[r].waiter
                        THEN [pred[w] EXCEPT !.stage = "ready", !.version = pull[r].version]
                        ELSE pred[w]
      BY Zenon, <1>9 DEF PullDone
    <2>2. \A s \in Replicas : pull'[s] = IF s = r THEN NoPull ELSE pull[s]
      BY Zenon, <1>0, <1>9 DEF PullDone
    <2>3. ASSUME NEW w \in Assigners PROVE SafePredicate(pred'[w], next_block, locks)
      <3>1. SafePredicate(pred[w], next_block, locks)
        BY Zenon DEF IInv, SwallowInv, PredicatesSafe
      <3>2. CASE w \notin pull[r].waiter
        BY Zenon, <2>1, <3>1, <3>2
      <3>3. CASE w \in pull[r].waiter
        <4>1. pred[w].stage = "pulling"
          BY Zenon, <3>3 DEF IInv, SwallowInv, Waiting
        <4>2. /\ pred'[w].prev = pred[w].prev /\ pred'[w].committing = pred[w].committing
              /\ pred'[w].stage = "ready"
          BY Zenon, <1>0, <2>1, <3>3 DEF Predicates
        <4>3. Knows(pred[w], locks)
          BY Zenon, <3>1, <4>1 DEF SafePredicate
        <4>4. Knows(pred'[w], locks)
          BY Zenon, <4>2, <4>3 DEF Knows
        <4>5. "ready" # "selected"
          BY Zenon
        <4> QED BY Zenon, <3>1, <4>2, <4>4, <4>5 DEF SafePredicate
      <3> QED BY Zenon, <3>2, <3>3
    <2>4. PredicatesSafe'
      BY Zenon, <1>1, <1>2, <2>3 DEF PredicatesSafe
    <2>5. QueuesSafe'
      BY Zenon, <1>2, <1>9, QueuesStay DEF PullDone
    <2>6. Waiting'
      <3> SUFFICES ASSUME NEW s \in Replicas, NEW w \in pull'[s].waiter
                   PROVE  pred'[w].stage = "pulling" /\ Home[w] = s
        BY Zenon DEF Waiting
      <3>1. s # r /\ w \in pull[s].waiter
        BY <2>2 DEF NoPull
      <3>2. pred[w].stage = "pulling" /\ Home[w] = s
        BY Zenon, <3>1 DEF IInv, SwallowInv, Waiting
      <3>3. w \in Assigners
        BY Zenon, <1>0, <3>1 DEF Pulls
      <3>4. w \notin pull[r].waiter
        BY Zenon, <3>1, <3>2 DEF IInv, SwallowInv, Waiting
      <3> QED BY Zenon, <2>1, <3>2, <3>3, <3>4
    <2> QED BY Zenon, <1>2, <2>4, <2>5, <2>6 DEF SwallowInv
  <1>10. CASE mutationsUpdatingTask(r)
    BY Zenon, <1>3, <1>10 DEF mutationsUpdatingTask
  <1>11. CASE ExecuteDropRange(r)
    <2>1. PICK p \in virtual_parts[r] :
             virtual_parts' = [virtual_parts EXCEPT ![r] = remove(@, p)]
      BY Zenon, <1>11 DEF ExecuteDropRange
    <2>2. virtual_parts' = [virtual_parts EXCEPT ![r] = remove(virtual_parts[r], p)]
      BY Zenon, <1>0, <2>1
    <2>3. \A q \in remove(virtual_parts[r], p) : SafePart(q, next_block, locks)
      BY Zenon DEF IInv, SwallowInv, QueuesSafe, remove
    <2> QED BY Zenon, <1>4, <1>11, <2>2, <2>3 DEF ExecuteDropRange
  <1> QED BY Zenon, <1>5, <1>6, <1>7, <1>8, <1>9, <1>10, <1>11 DEF Replica, PullStep

-----------------------------------------------------------------------------
(* A merge that canMergeTwoParts has agreed to is safe.                    *)
LEMMA MergedRangeIsSafe ==
    ASSUME IInv, MergesAreClear, NEW w \in Assigners, pred[w].stage = "ready",
           NEW S \in SUBSET {p \in mergeable(Home[w]) : canMergeSinglePart(w, p)},
           NEW first \in S, NEW last \in S, NEW top \in S, NEW newest \in S,
           assign(S, first, last, top, newest),
           \A p, q \in S : consecutive(S, p, q) => canMergeTwoParts(w, p, q)
    PROVE  SafeEntry(Entry("MERGE_PARTS", futurePart(first, last, top, newest), S),
                     next_block, locks)
  <1>1. Home[w] \in Replicas /\ last \in virtual_parts[Home[w]]
    BY Zenon, ConstantsAssumption DEF mergeable
  <1>2. last.max_block < next_block
    BY Zenon, <1>1 DEF IInv, SwallowInv, QueuesSafe, SafePart
  <1>3. futurePart(first, last, top, newest).max_block = last.max_block
    BY Zenon DEF futurePart, Part
  <1>4. Clear(futurePart(first, last, top, newest), locks)
    BY Zenon DEF MergesAreClear, Selection
  <1> QED BY Zenon, <1>2, <1>3, <1>4 DEF SafeEntry, Entry

(* A predicate that is not being pulled for may change in any safe way.    *)
LEMMA PredicateStep ==
    ASSUME IInv, NEW w \in Assigners, pred[w].stage # "pulling",
           NEW q, pred' = [pred EXCEPT ![w] = q],
           SafePredicate(q, next_block, locks),
           UNCHANGED <<next_block, locks, inserts, dropper, virtual_parts, pull>>
    PROVE  Allocated' /\ QueuesSafe' /\ PredicatesSafe' /\ Waiting' /\ FlightStep
  <1>1. FlightStep /\ Allocated'
    BY Zenon, Quiet
  <1>2. QueuesSafe' /\ PredicatesSafe'
    BY Zenon, <1>1, QueuesStay, PredicateChanges
  <1>3. Waiting'
    <2>1. \A r \in Replicas : pull[r].waiter \subseteq Assigners
      BY Zenon DEF IInv, TypeInv, TypeOK, Pulls
    <2>2. \A v \in Assigners : v # w => pred'[v] = pred[v]
      BY Zenon DEF IInv, TypeInv, TypeOK
    <2> QED BY <2>1, <2>2 DEF IInv, SwallowInv, Waiting
  <1> QED BY Zenon, <1>1, <1>2, <1>3

(* Choosing an entry.                                                      *)
LEMMA SelectSafe ==
    ASSUME IInv, NEW w \in Assigners, pred[w].stage = "ready", NEW e,
           e.type # "DROP_RANGE", SafeEntry(e, next_block, locks), Select(w, e)
    PROVE  SwallowInv'
  <1> DEFINE q == [NoPredicate EXCEPT !.stage = "selected", !.entry = e,
                                      !.version = pred[w].version]
  <1>1. q.stage = "selected" /\ q.prev = {} /\ q.entry = e
    BY Zenon DEF NoPredicate
  <1>2. SafePredicate(q, next_block, locks)
    BY Zenon, <1>1 DEF SafePredicate
  <1>3. pred' = [pred EXCEPT ![w] = q] /\ UNCHANGED <<zk, clients, queues>>
    BY Zenon DEF Select
  <1> HIDE DEF q
  <1>4. UNCHANGED <<next_block, locks, inserts, dropper, virtual_parts, pull, log>>
    BY Zenon, <1>3 DEF zk, clients, queues
  <1> QED BY Zenon, <1>2, <1>3, <1>4, PredicateStep, LogStays DEF SwallowInv

LEMMA NoPredicateSafe == \A n, F : SafePredicate(NoPredicate, n, F)
  BY Zenon DEF SafePredicate, NoPredicate

LEMMA AssignerSafe ==
    ASSUME IInv, MergesAreClear, NEW w \in Assigners, Assigner(w) PROVE SwallowInv'
  <1>0. /\ pull \in [Replicas -> Pulls] /\ pred \in [Assigners -> Predicates]
        /\ Home[w] \in Replicas /\ virtual_parts[Home[w]] \subseteq Parts
    BY Zenon, ConstantsAssumption DEF IInv, TypeInv, TypeOK
  <1>1. SafePredicate(pred[w], next_block, locks)
    BY Zenon DEF IInv, SwallowInv, PredicatesSafe
  <1>2. \A p \in virtual_parts[Home[w]] : SafePart(p, next_block, locks)
    BY Zenon, <1>0 DEF IInv, SwallowInv, QueuesSafe
  <1>3. CASE PredCopyParts(w)
    <2> DEFINE q == [pred[w] EXCEPT !.stage = "copied", !.prev = virtual_parts[Home[w]]]
    <2>1. q.stage = "copied" /\ q.prev = virtual_parts[Home[w]]
      BY Zenon, <1>0 DEF Predicates
    <2>2. SafePredicate(q, next_block, locks)
      BY Zenon, <1>2, <2>1 DEF SafePredicate, SafePart
    <2>3. pred' = [pred EXCEPT ![w] = q] /\ pred[w].stage = "idle"
          /\ UNCHANGED <<zk, clients, queues>>
      BY Zenon, <1>0, <1>3 DEF PredCopyParts
    <2> HIDE DEF q
    <2>4. UNCHANGED <<next_block, locks, inserts, dropper, virtual_parts, pull, log>>
      BY Zenon, <2>3 DEF zk, clients, queues
    <2> QED BY Zenon, <2>2, <2>3, <2>4, PredicateStep, LogStays DEF SwallowInv
  <1>4. CASE getCommittingBlocks(w)
    <2> DEFINE q == [pred[w] EXCEPT !.stage = "loaded", !.committing = locks]
    <2>1. q.stage = "loaded" /\ q.prev = pred[w].prev /\ q.committing = locks
      BY Zenon, <1>0 DEF Predicates
    <2>2. Knows(q, locks)
      BY Zenon, <2>1 DEF Knows
    <2>3. SafePredicate(q, next_block, locks)
      BY Zenon, <1>1, <2>1, <2>2 DEF SafePredicate
    <2>4. pred' = [pred EXCEPT ![w] = q] /\ pred[w].stage = "copied"
          /\ UNCHANGED <<zk, clients, queues>>
      BY Zenon, <1>0, <1>4 DEF getCommittingBlocks
    <2> HIDE DEF q
    <2>5. UNCHANGED <<next_block, locks, inserts, dropper, virtual_parts, pull, log>>
      BY Zenon, <2>4 DEF zk, clients, queues
    <2> QED BY Zenon, <2>3, <2>4, <2>5, PredicateStep, LogStays DEF SwallowInv
  <1>5. CASE PredPullLogs(w)
    <2> DEFINE q == [pred[w] EXCEPT !.stage = "pulling"]
    <2>1. q.stage = "pulling" /\ q.prev = pred[w].prev /\ q.committing = pred[w].committing
      BY Zenon, <1>0 DEF Predicates
    <2>2. pred' = [pred EXCEPT ![w] = q] /\ pred[w].stage = "loaded"
          /\ UNCHANGED <<zk, clients, virtual_parts>>
      BY Zenon, <1>0, <1>5 DEF PredPullLogs
    <2>3. Knows(q, locks)
      BY Zenon, <1>1, <2>1, <2>2 DEF SafePredicate, Knows
    <2>4. SafePredicate(q, next_block, locks)
      BY Zenon, <1>1, <2>1, <2>3 DEF SafePredicate
    <2>5. pull'[Home[w]].waiter = {w} /\ \A s \in Replicas : s # Home[w] => pull'[s] = pull[s]
      BY Zenon, <1>0, <1>5 DEF PredPullLogs, PullStart, NoPull
    <2> HIDE DEF q
    <2>6. UNCHANGED <<next_block, locks, inserts, dropper, log>>
      BY Zenon, <2>2 DEF zk, clients
    <2>7. FlightStep /\ Allocated'
      BY Zenon, <2>6, Quiet
    <2>8. LogSafe' /\ QueuesSafe' /\ PredicatesSafe'
      BY Zenon, <2>2, <2>4, <2>6, <2>7, LogStays, QueuesStay, PredicateChanges
    <2>9. Waiting'
      <3> SUFFICES ASSUME NEW s \in Replicas, NEW v \in pull'[s].waiter
                   PROVE  pred'[v].stage = "pulling" /\ Home[v] = s
        BY Zenon DEF Waiting
      <3>1. CASE s = Home[w]
        BY Zenon, <1>0, <2>1, <2>2, <2>5, <3>1
      <3>2. CASE s # Home[w]
        <4>1. v \in pull[s].waiter /\ v \in Assigners
          BY Zenon, <1>0, <2>5, <3>2 DEF Pulls
        <4>2. pred[v].stage = "pulling" /\ Home[v] = s
          BY Zenon, <4>1 DEF IInv, SwallowInv, Waiting
        <4> QED BY Zenon, <1>0, <2>2, <3>2, <4>1, <4>2
      <3> QED BY Zenon, <3>1, <3>2
    <2> QED BY Zenon, <2>7, <2>8, <2>9 DEF SwallowInv
  <1>6. CASE SelectPartsToMerge(w)
    <2>1. PICK S \in SUBSET {p \in mergeable(Home[w]) : canMergeSinglePart(w, p)} :
             \E first, last, top, newest \in S :
               /\ assign(S, first, last, top, newest)
               /\ \A p, q \in S : consecutive(S, p, q) => canMergeTwoParts(w, p, q)
               /\ Select(w, Entry("MERGE_PARTS", futurePart(first, last, top, newest), S))
      BY Zenon, <1>6 DEF SelectPartsToMerge
    <2>2. PICK first \in S, last \in S, top \in S, newest \in S :
               /\ assign(S, first, last, top, newest)
               /\ \A p, q \in S : consecutive(S, p, q) => canMergeTwoParts(w, p, q)
               /\ Select(w, Entry("MERGE_PARTS", futurePart(first, last, top, newest), S))
      BY Zenon, <2>1
    <2>3. pred[w].stage = "ready"
      BY Zenon, <1>6 DEF SelectPartsToMerge
    <2> DEFINE e == Entry("MERGE_PARTS", futurePart(first, last, top, newest), S)
    <2>4. SafeEntry(e, next_block, locks)
      BY Zenon, <2>2, <2>3, MergedRangeIsSafe
    <2>5. e.type # "DROP_RANGE"
      BY Zenon DEF Entry
    <2> QED BY Zenon, <2>2, <2>3, <2>4, <2>5, SelectSafe
  <1>7. CASE SelectPartToMutate(w)
    <2>1. PICK p \in mergeable(Home[w]), i \in 1 .. loaded[Home[w]] :
             Select(w, Entry("MUTATE_PART", [p EXCEPT !.mutation = mutations[i]], {p}))
      BY Zenon, <1>7 DEF SelectPartToMutate
    <2> DEFINE e == Entry("MUTATE_PART", [p EXCEPT !.mutation = mutations[i]], {p})
    <2>2. p \in Parts /\ p.max_block < next_block /\ Clear(p, locks)
      BY Zenon, <1>0, <1>2 DEF mergeable, SafePart
    <2>3. /\ e.type = "MUTATE_PART" /\ e.new_part.max_block = p.max_block
          /\ e.new_part.min_block = p.min_block
      BY Zenon, <2>2 DEF Entry, Parts, PartInfo
    <2>4. SafeEntry(e, next_block, locks)
      BY Zenon, <2>2, <2>3 DEF SafeEntry, Clear, Blocks
    <2> QED BY Zenon, <1>7, <2>1, <2>3, <2>4, SelectSafe DEF SelectPartToMutate
  <1>8. CASE SelectPartToDrop(w)
    <2>1. PICK p \in mergeable(Home[w]) : Select(w, Entry("DROP_PART", p, {}))
      BY Zenon, <1>8 DEF SelectPartToDrop
    <2>2. p.max_block < next_block /\ Clear(p, locks)
      BY Zenon, <1>0, <1>2 DEF mergeable, SafePart
    <2>3. SafeEntry(Entry("DROP_PART", p, {}), next_block, locks)
      BY Zenon, <2>2 DEF SafeEntry, Entry
    <2>4. Entry("DROP_PART", p, {}).type # "DROP_RANGE"
      BY Zenon DEF Entry
    <2> QED BY Zenon, <1>8, <2>1, <2>3, <2>4, SelectSafe DEF SelectPartToDrop
  <1>9. CASE CreateLogEntry(w)
    <2>1. /\ log' = Append(log, pred[w].entry) /\ pred[w].stage = "selected"
          /\ pred' = [pred EXCEPT ![w] = NoPredicate]
          /\ UNCHANGED <<next_block, locks, clients, queues>>
      BY Zenon, <1>9 DEF CreateLogEntry, AppendToLog
    <2>2. pred[w].entry \in LogEntries /\ SafeEntry(pred[w].entry, next_block, locks)
      BY Zenon, <1>0, <1>1, <2>1 DEF Predicates, SafePredicate
    <2>3. UNCHANGED <<next_block, locks, inserts, dropper, virtual_parts, pull>>
      BY Zenon, <2>1 DEF clients, queues
    <2>4. Allocated' /\ QueuesSafe' /\ PredicatesSafe' /\ Waiting' /\ FlightStep
      BY Zenon, <2>1, <2>3, NoPredicateSafe, PredicateStep
    <2>5. LogSafe'
      BY Zenon, <2>1, <2>2, <2>3, <2>4, LogGrows
    <2> QED BY Zenon, <2>4, <2>5 DEF SwallowInv
  <1>10. CASE LogUpdated(w) \/ CannotSelect(w)
    <2>1. /\ pred[w].stage # "pulling" /\ pred' = [pred EXCEPT ![w] = NoPredicate]
          /\ UNCHANGED <<zk, clients, queues>>
      BY Zenon, <1>10 DEF LogUpdated, CannotSelect
    <2>2. UNCHANGED <<next_block, locks, inserts, dropper, virtual_parts, pull, log>>
      BY Zenon, <2>1 DEF zk, clients, queues
    <2> QED BY Zenon, <2>1, <2>2, NoPredicateSafe, PredicateStep, LogStays DEF SwallowInv
  <1> QED BY Zenon, <1>3, <1>4, <1>5, <1>6, <1>7, <1>8, <1>9, <1>10 DEF Assigner

-----------------------------------------------------------------------------
LEMMA InitSafe == Init => SwallowInv
  <1> SUFFICES ASSUME Init PROVE SwallowInv
    BY Zenon
  <1>2. Allocated /\ LogSafe /\ QueuesSafe
    BY DEF Init, Allocated, LogSafe, QueuesSafe, NoDrop
  <1>3. PredicatesSafe
    BY Zenon, NoPredicateSafe DEF Init, PredicatesSafe
  <1>4. Waiting
    BY Zenon DEF Init, Waiting, NoPull
  <1> QED BY Zenon, <1>2, <1>3, <1>4 DEF SwallowInv

LEMMA StepSafe == IInv /\ MergesAreClear /\ [Next]_vars => SwallowInv'
  <1> SUFFICES ASSUME IInv, MergesAreClear, [Next]_vars PROVE SwallowInv'
    BY Zenon
  <1>2. CASE Next
    BY Zenon, <1>2, InsertSafe, MutateSafe, DropPartitionSafe, ReplicaSafe, AssignerSafe
       DEF Next
  <1>3. CASE UNCHANGED vars
    <2>1. UNCHANGED <<next_block, locks, inserts, dropper, log, queues, pred>>
      BY Zenon, <1>3 DEF vars, zk, clients
    <2>2. FlightStep /\ Allocated'
      BY Zenon, <2>1, Quiet
    <2> QED BY Zenon, <2>1, <2>2, ClientStep
  <1> QED BY Zenon, <1>2, <1>3

-----------------------------------------------------------------------------
(* Predicates and what they have not seen.                                 *)
LEMMA SeesMore ==
    ASSUME NEW q, NEW L, NEW M, NEW k \in Nat, NEW n \in Nat, NEW k1 \in Nat, NEW n1 \in Nat,
           k <= k1, n <= n1, Len(L) \in Nat, Len(M) \in Nat, Sees(q, L, k, M, n)
    PROVE  Sees(q, L, k1, M, n1)
  <1>1. /\ \A j \in k1 + 1 .. Len(L) : j \in k + 1 .. Len(L)
        /\ \A j \in n1 + 1 .. Len(M) : j \in n + 1 .. Len(M)
    OBVIOUS
  <1> QED BY Zenon, <1>1 DEF Sees

LEMMA SeesAppend ==
    ASSUME NEW q, NEW L \in Seq(LogEntries), NEW M \in Seq(Nat), NEW k \in Nat, NEW n \in Nat,
           Sees(q, L, k, M, n)
    PROVE  /\ \A e : e.type = "GET_PART" /\ Unseen(q, e.new_part.min_block)
                        => Sees(q, Append(L, e), k, M, n)
           /\ \A v : Unseen(q, v) => Sees(q, L, k, Append(M, v), n)
  <1>1. ASSUME NEW e, e.type = "GET_PART", Unseen(q, e.new_part.min_block)
        PROVE  Sees(q, Append(L, e), k, M, n)
    <2>1. \A j \in k + 1 .. Len(Append(L, e)) :
              \/ j \in k + 1 .. Len(L) /\ Append(L, e)[j] = L[j]
              \/ Append(L, e)[j] = e
      OBVIOUS
    <2> QED BY Zenon, <1>1, <2>1 DEF Sees
  <1>2. ASSUME NEW v, Unseen(q, v) PROVE Sees(q, L, k, Append(M, v), n)
    <2>1. \A j \in n + 1 .. Len(Append(M, v)) :
              \/ j \in n + 1 .. Len(M) /\ Append(M, v)[j] = M[j]
              \/ Append(M, v)[j] = v
      OBVIOUS
    <2> QED BY Zenon, <1>2, <2>1 DEF Sees
  <1> QED BY Zenon, <1>1, <1>2

LEMMA SeesAll ==
    ASSUME NEW q, NEW L, NEW M, Len(L) \in Nat, Len(M) \in Nat
    PROVE  Sees(q, L, Len(L), M, Len(M))
  <1>1. Len(L) + 1 .. Len(L) = {} /\ Len(M) + 1 .. Len(M) = {}
    OBVIOUS
  <1> QED BY Zenon, <1>1 DEF Sees

LEMMA SeesSame ==
    ASSUME NEW q, NEW p, p.prev = q.prev, p.committing = q.committing,
           NEW L, NEW M, NEW k, NEW n, Sees(q, L, k, M, n)
    PROVE  Sees(p, L, k, M, n)
  BY Zenon DEF Sees, Unseen

LEMMA ViewTypes ==
    ASSUME TypeInv
    PROVE  /\ log \in Seq(LogEntries) /\ mutations \in Seq(Nat)
           /\ Len(log) \in Nat /\ Len(mutations) \in Nat /\ log_version \in Nat
           /\ pull \in [Replicas -> Pulls] /\ pred \in [Assigners -> Predicates]
           /\ log_pointer \in [Replicas -> Nat] /\ loaded \in [Replicas -> Nat]
           /\ \A r \in Replicas : /\ pull[r].version \in Nat /\ pull[r].upto \in Nat
                                  /\ pull[r].mut \in Nat /\ pull[r].waiter \subseteq Assigners
           /\ \A w \in Assigners : Home[w] \in Replicas /\ pred[w].version \in Nat
  <1>1. /\ log \in Seq(LogEntries) /\ mutations \in Seq(Nat) /\ log_version \in Nat
        /\ pull \in [Replicas -> Pulls] /\ pred \in [Assigners -> Predicates]
        /\ log_pointer \in [Replicas -> Nat] /\ loaded \in [Replicas -> Nat]
    BY Zenon DEF TypeInv, TypeOK
  <1>2. Len(log) \in Nat /\ Len(mutations) \in Nat
    BY <1>1
  <1>3. \A r \in Replicas : /\ pull[r].version \in Nat /\ pull[r].upto \in Nat
                            /\ pull[r].mut \in Nat /\ pull[r].waiter \subseteq Assigners
    BY Zenon, <1>1 DEF Pulls
  <1>4. \A w \in Assigners : Home[w] \in Replicas /\ pred[w].version \in Nat
    BY Zenon, <1>1, ConstantsAssumption DEF Predicates
  <1> QED BY Zenon, <1>1, <1>2, <1>3, <1>4

(* A step that changes the version of /log: what was read before is stale. *)
LEMMA ViewsStale ==
    ASSUME TypeInv, ViewsInv, log_version' = log_version + 1, UNCHANGED pull,
           \A w \in Assigners : pred'[w].version \in Nat /\ pred'[w].version <= log_version
    PROVE  ViewsInv'
  <1>1. \A x \in Nat : x <= log_version => x <= log_version' /\ x # log_version'
    BY ViewTypes
  <1>2. \A r \in Replicas : pull'[r].version <= log_version' /\ pull'[r].version # log_version'
    BY Zenon, <1>1, ViewTypes DEF ViewsInv
  <1>3. \A w \in Assigners : pred'[w].version <= log_version' /\ pred'[w].version # log_version'
    BY Zenon, <1>1
  <1> QED BY Zenon, <1>2, <1>3 DEF ViewsInv, PullSees, PredSees

(* A step that leaves it: an insert or a mutation at most, with a number   *)
(* that was locked.                                                        *)
LEMMA ViewsGrow ==
    ASSUME IInv, ViewsInv, UNCHANGED <<log_version, queues, pred>>,
           \A q, k, n : k \in Nat /\ n \in Nat /\ Knows(q, locks) /\ Sees(q, log, k, mutations, n)
                            => Sees(q, log', k, mutations', n)
    PROVE  ViewsInv'
  <1>0. TypeInv /\ UNCHANGED <<log_pointer, loaded, pull>>
    BY Zenon DEF IInv, queues
  <1>1. ASSUME NEW w \in Assigners, pred[w].stage \in {"pulling", "ready"}
        PROVE  Knows(pred[w], locks)
    BY Zenon, <1>1 DEF IInv, SwallowInv, PredicatesSafe, SafePredicate
  <1>2. ASSUME NEW w \in Assigners PROVE PredSees(w)'
    <2>1. PredSees(w) /\ log_pointer[Home[w]] \in Nat /\ loaded[Home[w]] \in Nat
      BY Zenon, <1>0, ViewTypes DEF ViewsInv
    <2> QED BY Zenon, <1>0, <1>1, <2>1 DEF PredSees
  <1>3. ASSUME NEW r \in Replicas PROVE PullSees(r)'
    <2>1. /\ PullSees(r) /\ pull[r].upto \in Nat /\ pull[r].mut \in Nat /\ loaded[r] \in Nat
          /\ \A w \in pull[r].waiter : w \in Assigners /\ pred[w].stage = "pulling"
      BY Zenon, <1>0, ViewTypes DEF ViewsInv, IInv, SwallowInv, Waiting
    <2>2. \A w \in pull[r].waiter : Knows(pred[w], locks)
      BY Zenon, <1>1, <2>1
    <2> QED BY Zenon, <1>0, <2>1, <2>2 DEF PullSees
  <1> QED BY Zenon, <1>0, <1>2, <1>3 DEF ViewsInv

LEMMA ViewsClients ==
    ASSUME IInv, Owners, ViewsInv,
           Insert \/ (\E m \in Mutators : Mutate(m)) \/ (\E d \in Droppers : DropPartition(d))
    PROVE  ViewsInv'
  <1>0. TypeInv /\ log \in Seq(LogEntries) /\ mutations \in Seq(Nat)
    BY Zenon, ViewTypes DEF IInv
  <1>1. CASE UNCHANGED <<log, mutations, log_version, queues, pred>>
    BY Zenon, <1>1, ViewsGrow
  <1>2. ASSUME NEW i \in inserts, InsertCommit(i) PROVE ViewsInv'
    <2> DEFINE e == Entry("GET_PART", Part(Partition, i.number, i.number, 0, 0), {})
    <2>1. /\ log' = Append(log, e) /\ i.number \in locks
          /\ UNCHANGED <<mutations, log_version, queues, pred>>
      BY Zenon, <1>2 DEF InsertCommit, AppendToLog
    <2>2. e.type = "GET_PART" /\ e.new_part.min_block = i.number
      BY Zenon DEF Entry, Part
    <2> HIDE DEF e
    <2>3. \A q : Knows(q, locks) => Unseen(q, e.new_part.min_block)
      BY Zenon, <2>1, <2>2 DEF Knows, Unseen
    <2>4. ASSUME NEW q, NEW k \in Nat, NEW n \in Nat, Knows(q, locks), Sees(q, log, k, mutations, n)
          PROVE  Sees(q, log', k, mutations', n)
      BY Zenon, <1>0, <2>1, <2>2, <2>3, <2>4, SeesAppend
    <2> QED BY Zenon, <2>1, <2>4, ViewsGrow
  <1>3. ASSUME NEW m \in Mutators, MutateCommit(m) PROVE ViewsInv'
    <2>1. /\ mutations' = Append(mutations, mutator[m].number) /\ mutator[m].pc = "commit"
          /\ UNCHANGED <<log, log_version, queues, pred>>
      BY Zenon, <1>3 DEF MutateCommit
    <2>2. mutator[m].number \in locks
      BY Zenon, <2>1 DEF Owners, Locked, MHolds
    <2>3. \A q : Knows(q, locks) => Unseen(q, mutator[m].number)
      BY Zenon, <2>2 DEF Knows, Unseen
    <2>4. ASSUME NEW q, NEW k \in Nat, NEW n \in Nat, Knows(q, locks), Sees(q, log, k, mutations, n)
          PROVE  Sees(q, log', k, mutations', n)
      BY Zenon, <1>0, <2>1, <2>3, <2>4, SeesAppend
    <2> QED BY Zenon, <2>1, <2>4, ViewsGrow
  <1>4. ASSUME NEW d \in Droppers, DropCommit(d) PROVE ViewsInv'
    <2>1. log_version' = log_version + 1 /\ UNCHANGED <<queues, pred>>
      BY Zenon, <1>4 DEF DropCommit
    <2>2. \A w \in Assigners : pred'[w].version \in Nat /\ pred'[w].version <= log_version
      BY Zenon, <1>0, <2>1, ViewTypes DEF ViewsInv
    <2> QED BY Zenon, <1>0, <2>1, <2>2, ViewsStale DEF queues
  <1>5. Insert => \/ UNCHANGED <<log, mutations, log_version, queues, pred>>
                  \/ \E i \in inserts : InsertCommit(i)
    BY Zenon DEF Insert, InsertLock, InsertCancelled, InsertAbort, zk
  <1>6. \A m \in Mutators : Mutate(m) =>
            UNCHANGED <<log, mutations, log_version, queues, pred>> \/ MutateCommit(m)
    BY Zenon DEF Mutate, MutateReadVersion, MutateAllocate, MutateConflict, MutateUnlock, zk
  <1>7. \A d \in Droppers : DropPartition(d) =>
            UNCHANGED <<log, mutations, log_version, queues, pred>> \/ DropCommit(d)
    BY Zenon DEF DropPartition, DropReadVersion, DropAllocate, DropEmpty, DropCancelInsert,
           DropCleared, DropConflict, zk
  <1> QED BY Zenon, <1>1, <1>2, <1>3, <1>4, <1>5, <1>6, <1>7

(* A replica copies more, or loads more.                                   *)
LEMMA ViewsReplica ==
    ASSUME IInv, ViewsInv, NEW r \in Replicas, UNCHANGED <<log_version, log, mutations>>,
           pull'[r].version <= log_version, PullSees(r)',
           \A w \in Assigners : pred'[w].version <= log_version,
           \A w \in Assigners : \/ pred'[w] = pred[w]
                                \/ w \in pull[r].waiter /\ PredSees(w)',
           \A s \in Replicas : /\ log_pointer'[s] \in Nat /\ log_pointer[s] <= log_pointer'[s]
                               /\ loaded'[s] \in Nat /\ loaded[s] <= loaded'[s],
           \A s \in Replicas \ {r} : pull'[s] = pull[s] /\ loaded'[s] = loaded[s]
    PROVE  ViewsInv'
  <1>0. TypeInv
    BY Zenon DEF IInv
  <1>1. ASSUME NEW w \in Assigners PROVE PredSees(w)'
    <2>1. CASE pred'[w] = pred[w]
      <3>1. /\ PredSees(w) /\ Home[w] \in Replicas /\ Len(log) \in Nat /\ Len(mutations) \in Nat
            /\ log_pointer[Home[w]] \in Nat /\ loaded[Home[w]] \in Nat
        BY Zenon, <1>0, ViewTypes DEF ViewsInv
      <3>2. /\ log_pointer'[Home[w]] \in Nat /\ log_pointer[Home[w]] <= log_pointer'[Home[w]]
            /\ loaded'[Home[w]] \in Nat /\ loaded[Home[w]] <= loaded'[Home[w]]
        BY Zenon, <3>1
      <3>3. ASSUME Sees(pred[w], log, log_pointer[Home[w]], mutations, loaded[Home[w]])
            PROVE  Sees(pred[w], log, log_pointer'[Home[w]], mutations, loaded'[Home[w]])
        BY Zenon, <3>1, <3>2, <3>3, SeesMore
      <3> QED BY Zenon, <2>1, <3>1, <3>3 DEF PredSees
    <2> QED BY Zenon, <2>1
  <1>2. ASSUME NEW s \in Replicas, s # r PROVE PullSees(s)' /\ pull'[s].version <= log_version
    <2>1. \A w \in pull[s].waiter : w \in Assigners /\ w \notin pull[r].waiter
      BY Zenon, <1>0, <1>2, ViewTypes DEF IInv, SwallowInv, Waiting
    <2>2. \A w \in pull[s].waiter : pred'[w] = pred[w]
      BY Zenon, <2>1
    <2>3. pull'[s] = pull[s] /\ loaded'[s] = loaded[s]
      BY Zenon, <1>2
    <2> QED BY Zenon, <2>2, <2>3 DEF ViewsInv, PullSees
  <1> QED BY Zenon, <1>1, <1>2 DEF ViewsInv

LEMMA updateMutationsGrows ==
    ASSUME TypeInv, NEW r \in Replicas, NEW least \in Nat, updateMutations(r, least)
    PROVE  /\ \A s \in Replicas : loaded'[s] \in Nat /\ loaded[s] <= loaded'[s]
           /\ least <= loaded'[r] /\ \A s \in Replicas \ {r} : loaded'[s] = loaded[s]
  <1>1. PICK k \in 0 .. Len(mutations) :
            k >= least /\ k >= loaded[r] /\ loaded' = [loaded EXCEPT ![r] = k]
    BY Zenon DEF updateMutations
  <1>2. loaded \in [Replicas -> Nat] /\ k \in Nat
    BY <1>1, ViewTypes
  <1>3. loaded'[r] = k /\ \A s \in Replicas \ {r} : loaded'[s] = loaded[s]
    BY Zenon, <1>1, <1>2
  <1> QED BY <1>1, <1>2, <1>3

LEMMA ViewsReplicas ==
    ASSUME IInv, ViewsInv, NEW r \in Replicas, Replica(r)
    PROVE  ViewsInv'
  <1>0. /\ TypeInv /\ pull \in [Replicas -> Pulls] /\ pred \in [Assigners -> Predicates]
        /\ log_pointer \in [Replicas -> Nat] /\ loaded \in [Replicas -> Nat]
        /\ pull[r].upto \in Nat /\ pull[r].mut \in Nat /\ loaded[r] \in Nat
        /\ Len(log) \in Nat /\ Len(mutations) \in Nat /\ log_version \in Nat
        /\ log_pointer[r] \in Nat
    BY Zenon, ViewTypes DEF IInv
  <1>1. /\ \A s \in Replicas : /\ log_pointer[s] \in Nat /\ log_pointer[s] <= log_pointer[s]
                               /\ loaded[s] \in Nat /\ loaded[s] <= loaded[s]
        /\ 0 <= log_version
    BY <1>0
  <1>2. PullSees(r) /\ pull[r].version <= log_version
        /\ \A w \in Assigners : pred[w].version <= log_version
    BY Zenon DEF ViewsInv
  <1>3. /\ UNCHANGED <<log_version, log, mutations>>
        /\ \A s \in Replicas \ {r} : pull'[s] = pull[s]
    BY Zenon, <1>0 DEF Replica, PullStep, queueUpdatingTask, PullStart, PullListLog,
           PullUpdateMutations, PullCopyEntry, PullDone, mutationsUpdatingTask, ExecuteDropRange, zk
  <1>4. CASE queueUpdatingTask(r)
    <2>1. /\ pull'[r].stage = "list_log" /\ pull'[r].version = 0
          /\ UNCHANGED <<log_pointer, loaded, pred>>
      BY Zenon, <1>0, <1>4 DEF queueUpdatingTask, PullStart, NoPull
    <2>2. PullSees(r)'
      BY Zenon, <2>1 DEF PullSees
    <2> QED BY Zenon, <1>1, <1>2, <1>3, <2>1, <2>2, ViewsReplica
  <1>5. CASE PullListLog(r)
    <2>1. /\ pull'[r].stage = "mutations" /\ pull'[r].version = pull[r].version
          /\ pull'[r].upto = Len(log) /\ pull'[r].mut = Len(mutations)
          /\ UNCHANGED <<log_pointer, loaded, pred>>
      BY Zenon, <1>0, <1>5 DEF PullListLog, Pulls
    <2>2. PullSees(r)'
      BY Zenon, <1>0, <1>3, <2>1, SeesAll DEF PullSees
    <2> QED BY Zenon, <1>1, <1>2, <1>3, <2>1, <2>2, ViewsReplica
  <1>6. CASE PullUpdateMutations(r)
    <2>1. /\ pull[r].stage = "mutations" /\ updateMutations(r, pull[r].mut)
          /\ pull'[r].stage = "copy" /\ pull'[r].version = pull[r].version
          /\ pull'[r].upto = pull[r].upto /\ pull'[r].waiter = pull[r].waiter
          /\ UNCHANGED <<log_pointer, pred>>
      BY Zenon, <1>0, <1>6 DEF PullUpdateMutations, Pulls
    <2>2. /\ \A s \in Replicas : loaded'[s] \in Nat /\ loaded[s] <= loaded'[s]
          /\ pull[r].mut <= loaded'[r] /\ \A s \in Replicas \ {r} : loaded'[s] = loaded[s]
      BY Zenon, <1>0, <2>1, updateMutationsGrows
    <2>3. ASSUME NEW q, Sees(q, log, pull[r].upto, mutations, pull[r].mut)
          PROVE  Sees(q, log, pull[r].upto, mutations, loaded'[r])
      <3> DEFINE k == pull[r].upto
                 n == pull[r].mut
                 n1 == loaded'[r]
      <3>1. k \in Nat /\ n \in Nat /\ n1 \in Nat /\ k <= k /\ n <= n1 /\ Sees(q, log, k, mutations, n)
        BY <1>0, <2>2, <2>3
      <3>2. Len(log) \in Nat /\ Len(mutations) \in Nat
        BY Zenon, <1>0
      <3> HIDE DEF k, n, n1
      <3>3. Sees(q, log, k, mutations, n1)
        BY Zenon, <3>1, <3>2, SeesMore
      <3> QED BY Zenon, <3>3 DEF k, n1
    <2>4. PullSees(r)'
      BY Zenon, <1>2, <1>3, <2>1, <2>3 DEF PullSees
    <2> QED BY Zenon, <1>1, <1>2, <1>3, <2>1, <2>2, <2>4, ViewsReplica
  <1>7. CASE PullCopyEntry(r)
    <2>1. log_pointer' = [log_pointer EXCEPT ![r] = log_pointer[r] + 1] /\ UNCHANGED <<pull, loaded, pred>>
      BY Zenon, <1>0, <1>7 DEF PullCopyEntry
    <2>2. \A s \in Replicas : log_pointer'[s] \in Nat /\ log_pointer[s] <= log_pointer'[s]
      BY <1>0, <2>1
    <2>3. PullSees(r)'
      BY Zenon, <1>2, <1>3, <2>1 DEF PullSees
    <2> QED BY Zenon, <1>1, <1>2, <1>3, <2>1, <2>2, <2>3, ViewsReplica
  <1>8. CASE PullDone(r)
    <2>1. /\ pull'[r] = NoPull /\ UNCHANGED <<log_pointer, loaded>> /\ pull[r].stage = "copy"
          /\ pull[r].upto <= log_pointer[r]
          /\ \A w \in Assigners :
               pred'[w] = IF w \in pull[r].waiter
                          THEN [pred[w] EXCEPT !.stage = "ready", !.version = pull[r].version]
                          ELSE pred[w]
      <3>1. log_pointer[r] >= pull[r].upto
        BY Zenon, <1>8 DEF PullDone
      <3>2. pull[r].upto <= log_pointer[r]
        BY <1>0, <3>1
      <3> QED BY Zenon, <1>0, <1>8, <3>2 DEF PullDone
    <2>2. pull'[r].waiter = {} /\ pull'[r].version = 0 /\ pull'[r].version <= log_version
      <3>1. pull'[r].waiter = {} /\ pull'[r].version = 0
        <4>1. NoPull.waiter = {} /\ NoPull.version = 0
          BY DEF NoPull
        <4> QED BY Zenon, <2>1, <4>1
      <3> QED BY Zenon, <1>1, <3>1
    <2>3. PullSees(r)'
      BY Zenon, <2>2 DEF PullSees
    <2>4. \A w \in Assigners : w \in pull[r].waiter =>
             /\ pred'[w].version = pull[r].version /\ pred'[w].prev = pred[w].prev
             /\ pred'[w].committing = pred[w].committing
      BY Zenon, <1>0, <2>1 DEF Predicates
    <2>5. ASSUME NEW w \in Assigners, w \in pull[r].waiter PROVE PredSees(w)'
      <3>1. Home[w] = r
        BY Zenon, <2>5 DEF IInv, SwallowInv, Waiting
      <3>2. pull[r].upto <= log_pointer[r] /\ loaded[r] <= loaded[r]
        BY Zenon, <1>1, <2>1
      <3>3. ASSUME Sees(pred[w], log, pull[r].upto, mutations, loaded[r])
            PROVE  Sees(pred'[w], log, log_pointer[r], mutations, loaded[r])
        <4>1. Sees(pred'[w], log, pull[r].upto, mutations, loaded[r])
          BY Zenon, <2>4, <2>5, <3>3, SeesSame
        <4> QED BY Zenon, <1>0, <3>2, <4>1, SeesMore
      <3> QED BY Zenon, <1>2, <1>3, <2>1, <2>4, <2>5, <3>1, <3>3 DEF PredSees, PullSees
    <2>6. \A w \in Assigners : pred'[w].version <= log_version
      BY Zenon, <1>2, <2>1, <2>4
    <2>7. \A w \in Assigners : pred'[w] = pred[w] \/ (w \in pull[r].waiter /\ PredSees(w)')
      BY Zenon, <2>1, <2>5
    <2> QED BY Zenon, <1>1, <1>3, <2>1, <2>2, <2>3, <2>6, <2>7, ViewsReplica
  <1>9. CASE mutationsUpdatingTask(r)
    <2>1. updateMutations(r, loaded[r] + 1) /\ UNCHANGED <<log_pointer, pull, pred>>
      BY Zenon, <1>9 DEF mutationsUpdatingTask
    <2>2. /\ \A s \in Replicas : loaded'[s] \in Nat /\ loaded[s] <= loaded'[s]
          /\ \A s \in Replicas \ {r} : loaded'[s] = loaded[s]
      <3>1. loaded[r] + 1 \in Nat
        BY <1>0
      <3> QED BY Zenon, <1>0, <2>1, <3>1, updateMutationsGrows
    <2>3. ASSUME NEW q, Sees(q, log, pull[r].upto, mutations, loaded[r])
          PROVE  Sees(q, log, pull[r].upto, mutations, loaded'[r])
      <3>1. pull[r].upto <= pull[r].upto
        BY <1>0
      <3> QED BY Zenon, <1>0, <2>2, <2>3, <3>1, SeesMore
    <2>4. PullSees(r)'
      BY Zenon, <1>2, <1>3, <2>1, <2>3 DEF PullSees
    <2> QED BY Zenon, <1>1, <1>2, <1>3, <2>1, <2>2, <2>4, ViewsReplica
  <1>10. CASE ExecuteDropRange(r)
    <2>1. UNCHANGED <<log_pointer, loaded, pull, pred>>
      BY Zenon, <1>10 DEF ExecuteDropRange
    <2>2. PullSees(r)'
      BY Zenon, <1>2, <1>3, <2>1 DEF PullSees
    <2> QED BY Zenon, <1>1, <1>2, <1>3, <2>1, <2>2, ViewsReplica
  <1> QED BY Zenon, <1>4, <1>5, <1>6, <1>7, <1>8, <1>9, <1>10 DEF Replica, PullStep

LEMMA ViewsAssigner ==
    ASSUME IInv, ViewsInv, NEW w \in Assigners, Assigner(w)
    PROVE  ViewsInv'
  <1>0. /\ TypeInv /\ pull \in [Replicas -> Pulls] /\ pred \in [Assigners -> Predicates]
        /\ log_version \in Nat /\ Home[w] \in Replicas
        /\ \A r \in Replicas : pull[r].waiter \subseteq Assigners
        /\ \A u \in Assigners : pred[u].version \in Nat
    BY Zenon, ViewTypes DEF IInv
  <1>1. NoPredicate.version = 0 /\ NoPredicate.stage = "idle" /\ 0 <= log_version /\ log_version <= log_version
    BY <1>0 DEF NoPredicate
  <1>2. /\ \A u \in Assigners : pred[u].version <= log_version
        /\ \A r \in Replicas : pull[r].version <= log_version
    BY Zenon DEF ViewsInv
  <1>3. ASSUME NEW q, q.stage # "ready", q.version <= log_version, pred' = [pred EXCEPT ![w] = q],
               pred[w].stage # "pulling", UNCHANGED <<log_version, log, mutations, queues>>
        PROVE  ViewsInv'
    <2>1. \A u \in Assigners : pred'[u] = IF u = w THEN q ELSE pred[u]
      BY Zenon, <1>0, <1>3
    <2>2. \A u \in Assigners : pred'[u].version <= log_version /\ PredSees(u)'
      <3> TAKE u \in Assigners
      <3>1. CASE u = w
        BY Zenon, <1>3, <2>1, <3>1 DEF PredSees
      <3>2. CASE u # w
        BY Zenon, <1>3, <2>1, <3>2 DEF PredSees, ViewsInv, queues
      <3> QED BY Zenon, <3>1, <3>2
    <2>3. ASSUME NEW r \in Replicas PROVE PullSees(r)' /\ pull'[r].version <= log_version
      <3>1. \A u \in pull[r].waiter : pred'[u] = pred[u]
        <4>1. \A u \in pull[r].waiter : u \in Assigners /\ u # w
          BY Zenon, <1>0, <1>3 DEF IInv, SwallowInv, Waiting
        <4> QED BY Zenon, <2>1, <4>1
      <3>2. UNCHANGED <<pull, loaded, log_version, log, mutations>>
        BY Zenon, <1>3 DEF queues
      <3> QED BY Zenon, <3>1, <3>2 DEF ViewsInv, PullSees
    <2> QED BY Zenon, <1>3, <2>2, <2>3 DEF ViewsInv
  <1>4. CASE PredCopyParts(w)
    <2> DEFINE q == [pred[w] EXCEPT !.stage = "copied", !.prev = virtual_parts[Home[w]]]
    <2>1. pred' = [pred EXCEPT ![w] = q] /\ pred[w].stage = "idle"
          /\ UNCHANGED <<log_version, log, mutations, queues>>
      BY Zenon, <1>0, <1>4 DEF PredCopyParts, zk
    <2>2. q.stage = "copied" /\ q.version = pred[w].version
      BY Zenon, <1>0 DEF Predicates
    <2> HIDE DEF q
    <2> QED BY Zenon, <1>2, <1>3, <2>1, <2>2
  <1>5. CASE getCommittingBlocks(w)
    <2> DEFINE q == [pred[w] EXCEPT !.stage = "loaded", !.committing = locks]
    <2>1. pred' = [pred EXCEPT ![w] = q] /\ pred[w].stage = "copied"
          /\ UNCHANGED <<log_version, log, mutations, queues>>
      BY Zenon, <1>0, <1>5 DEF getCommittingBlocks, zk
    <2>2. q.stage = "loaded" /\ q.version = pred[w].version
      BY Zenon, <1>0 DEF Predicates
    <2> HIDE DEF q
    <2> QED BY Zenon, <1>2, <1>3, <2>1, <2>2
  <1>6. CASE PredPullLogs(w)
    <2> DEFINE q == [pred[w] EXCEPT !.stage = "pulling"]
    <2>1. pred' = [pred EXCEPT ![w] = q] /\ pred[w].stage = "loaded"
          /\ UNCHANGED <<log_version, log, mutations, log_pointer, loaded>>
      BY Zenon, <1>0, <1>6 DEF PredPullLogs, zk
    <2>2. q.stage = "pulling" /\ q.version = pred[w].version
      BY Zenon, <1>0 DEF Predicates
    <2> HIDE DEF q
    <2>3. \A u \in Assigners : pred'[u] = IF u = w THEN q ELSE pred[u]
      BY Zenon, <1>0, <2>1
    <2>4. \A u \in Assigners : pred'[u].version <= log_version /\ PredSees(u)'
      <3> TAKE u \in Assigners
      <3>1. CASE u = w
        BY Zenon, <1>2, <2>1, <2>2, <2>3, <3>1 DEF PredSees
      <3>2. CASE u # w
        BY Zenon, <2>1, <2>3, <3>2 DEF PredSees, ViewsInv
      <3> QED BY Zenon, <3>1, <3>2
    <2>5. /\ \A r \in Replicas \ {Home[w]} : pull'[r] = pull[r]
          /\ pull'[Home[w]].stage = "list_log" /\ pull'[Home[w]].version \in {0, log_version}
      BY Zenon, <1>0, <1>6 DEF PredPullLogs, PullStart, NoPull
    <2>6. ASSUME NEW r \in Replicas PROVE PullSees(r)' /\ pull'[r].version <= log_version
      <3>1. CASE r = Home[w]
        BY Zenon, <1>1, <2>5, <3>1 DEF PullSees
      <3>2. CASE r # Home[w]
        <4>1. \A u \in pull[r].waiter : pred'[u] = pred[u]
          BY Zenon, <1>0, <2>1, <2>3 DEF IInv, SwallowInv, Waiting
        <4> QED BY Zenon, <2>1, <2>5, <3>2, <4>1 DEF ViewsInv, PullSees
      <3> QED BY Zenon, <3>1, <3>2
    <2> QED BY Zenon, <2>1, <2>4, <2>6 DEF ViewsInv
  <1>7. CASE SelectPartsToMerge(w) \/ SelectPartToMutate(w) \/ SelectPartToDrop(w)
    <2>1. PICK e : Select(w, e) /\ pred[w].stage = "ready"
      BY Zenon, <1>7 DEF SelectPartsToMerge, SelectPartToMutate, SelectPartToDrop
    <2> DEFINE q == [NoPredicate EXCEPT !.stage = "selected", !.entry = e, !.version = pred[w].version]
    <2>2. pred' = [pred EXCEPT ![w] = q] /\ UNCHANGED <<log_version, log, mutations, queues>>
      BY Zenon, <2>1 DEF Select, zk
    <2>3. q.stage = "selected" /\ q.version = pred[w].version
      BY Zenon DEF NoPredicate
    <2> HIDE DEF q
    <2> QED BY Zenon, <1>2, <1>3, <2>1, <2>2, <2>3
  <1>8. CASE LogUpdated(w) \/ CannotSelect(w)
    <2>1. /\ pred' = [pred EXCEPT ![w] = NoPredicate] /\ pred[w].stage # "pulling"
          /\ UNCHANGED <<log_version, log, mutations, queues>>
      BY Zenon, <1>8 DEF LogUpdated, CannotSelect, zk
    <2> QED BY Zenon, <1>1, <1>3, <2>1
  <1>9. CASE CreateLogEntry(w)
    <2>1. /\ pred' = [pred EXCEPT ![w] = NoPredicate] /\ log_version' = log_version + 1
          /\ UNCHANGED queues
      BY Zenon, <1>9 DEF CreateLogEntry
    <2>2. \A u \in Assigners : pred'[u] = IF u = w THEN NoPredicate ELSE pred[u]
      BY Zenon, <1>0, <2>1
    <2>3. \A u \in Assigners : pred'[u].version \in Nat /\ pred'[u].version <= log_version
      <3>1. 0 \in Nat
        OBVIOUS
      <3> QED BY Zenon, <1>0, <1>1, <1>2, <2>2, <3>1
    <2> QED BY Zenon, <1>0, <2>1, <2>3, ViewsStale DEF queues
  <1> QED BY Zenon, <1>4, <1>5, <1>6, <1>7, <1>8, <1>9 DEF Assigner

LEMMA ViewsStep == IInv /\ Owners /\ ViewsInv /\ [Next]_vars => ViewsInv'
  <1> SUFFICES ASSUME IInv, Owners, ViewsInv, [Next]_vars PROVE ViewsInv'
    OBVIOUS
  <1>1. CASE UNCHANGED vars
    BY Zenon, <1>1, ViewsGrow DEF vars, zk
  <1> QED BY Zenon, <1>1, ViewsClients, ViewsReplicas, ViewsAssigner DEF Next

LEMMA ViewsInit == Init => ViewsInv
  <1> SUFFICES ASSUME Init PROVE ViewsInv
    OBVIOUS
  <1>1. /\ log_version = 0 /\ \A r \in Replicas : pull[r].version = 0 /\ pull[r].waiter = {}
        /\ \A w \in Assigners : pred[w].version = 0 /\ pred[w].stage = "idle"
    BY DEF Init, NoPull, NoPredicate
  <1>2. \A r \in Replicas : PullSees(r)
    BY Zenon, <1>1 DEF PullSees
  <1>3. \A w \in Assigners : PredSees(w)
    BY <1>1 DEF PredSees
  <1> QED BY <1>1, <1>2, <1>3 DEF ViewsInv
==============================================================================
