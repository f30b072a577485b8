------------------------ MODULE MergeAssignmentProofs ------------------------
(***************************************************************************)
(* Proofs about MergeAssignment, for any number of replicas, assigners and *)
(* clients and for any bounds.                                             *)
(***************************************************************************)
EXTENDS MergeAssignmentInvariant, TLAPS

-----------------------------------------------------------------------------
(* addPart and the removals only ever take from S and p.                   *)
LEMMA PartSetSubset ==
    ASSUME NEW S, NEW p
    PROVE  /\ addPart(S, p) \subseteq S \cup {p}
           /\ removePartAndCoveredParts(S, p) \subseteq S
           /\ remove(S, p) \subseteq S
  BY Zenon DEF addPart, removePartAndCoveredParts, remove

(* A name built from naturals in order is a part.                          *)
LEMMA PartType ==
    ASSUME NEW a \in Nat, NEW b \in Nat, a <= b, NEW l \in Levels, NEW m \in Nat
    PROVE  Part(Partition, a, b, l, m) \in Parts
  BY Zenon DEF Part, Partition, Parts, PartInfo

LEMMA SmallLevels == \A n \in Nat : n <= MAX_LEVEL => n \in Levels
  BY DEF Levels

LEMMA LevelFacts == MAX_LEVEL \in Levels /\ MAX_BLOCK_NUMBER \in Nat /\ 0 \in Levels
  BY DEF Levels, MAX_LEVEL, MAX_BLOCK_NUMBER

LEMMA NoEntryType == NoEntry \in LogEntries
  BY PartType, LevelFacts DEF NoEntry, Entry, LogEntries, EntryTypes

(* What a merge of mergeable parts is called.                              *)
LEMMA FuturePartType ==
    ASSUME TypeOK, NEW r \in Replicas, NEW S \in SUBSET mergeable(r),
           NEW first \in S, NEW last \in S, NEW top \in S, NEW newest \in S,
           assign(S, first, last, top, newest)
    PROVE  futurePart(first, last, top, newest) \in Parts
  <1>1. \A q \in S : q \in Parts /\ ~isFakeDropRangePart(q)
    BY Zenon DEF TypeOK, mergeable
  <1>2. top.level \in Nat /\ top.level < MAX_LEVEL
    BY <1>1 DEF isFakeDropRangePart, Parts, PartInfo, Levels, MAX_LEVEL
  <1>3. top.level + 1 \in Levels
    BY <1>2 DEF Levels, MAX_LEVEL
  <1>4. /\ first.min_block \in Nat /\ last.min_block \in Nat /\ last.max_block \in Nat
        /\ last.min_block <= last.max_block /\ newest.mutation \in Nat
    BY Zenon, <1>1 DEF Parts, PartInfo
  <1>5. first.min_block <= last.min_block
    BY Zenon DEF assign
  <1>6. first.min_block <= last.max_block
    BY <1>4, <1>5
  <1> QED BY Zenon, <1>3, <1>4, <1>6, PartType DEF futurePart

LEMMA RestingTypes ==
    /\ NoMutation \in [pc : MutatorSteps, seen : Nat, number : Nat]
    /\ NoDrop \in [pc : DropperSteps, seen : Nat, number : Nat]
    /\ NoPull \in Pulls
    /\ NoPredicate \in Predicates
  <1>1. NoMutation \in [pc : MutatorSteps, seen : Nat, number : Nat]
    BY Zenon DEF MutatorSteps, NoMutation
  <1>2. NoDrop \in [pc : DropperSteps, seen : Nat, number : Nat]
    BY Zenon DEF DropperSteps, NoDrop
  <1>3. NoPull \in Pulls
    BY Zenon DEF NoPull, Pulls
  <1>4. NoPredicate \in Predicates
    BY Zenon, NoEntryType DEF NoPredicate, Predicates
  <1> QED BY Zenon, <1>1, <1>2, <1>3, <1>4

(* The initial state has the types and bounds.                             *)
LEMMA InitType == Init => TypeInv
  <1> SUFFICES ASSUME Init PROVE TypeInv
    BY Zenon
  <1>1. TypeOK
    BY RestingTypes DEF Init, TypeOK
  <1>2. Bounded
    BY DEF Init, Bounded, NoPull
  <1> QED BY Zenon, <1>1, <1>2 DEF TypeInv

-----------------------------------------------------------------------------
LEMMA InsertType == TypeInv /\ Insert => TypeInv'
  <1> SUFFICES ASSUME TypeInv, Insert PROVE TypeInv'
    BY Zenon
  <1> USE DEF TypeInv
  <1>1. ASSUME NEW content \in LockContents, InsertLock(content) PROVE TypeInv'
    <2>1. [number |-> next_block, content |-> content] \in [number : Nat, content : Contents]
      BY Zenon, ConstantsAssumption DEF TypeOK
    <2>2. inserts' \subseteq [number : Nat, content : Contents]
      BY Zenon, <1>1, <2>1 DEF InsertLock, TypeOK
    <2>3. next_block' \in Nat /\ locks' \subseteq Nat
      <3>1. allocateBlockNumber
        BY Zenon, <1>1 DEF InsertLock
      <3> QED BY <3>1 DEF allocateBlockNumber, TypeOK
    <2>4. UNCHANGED <<log, log_version, mutations, alter_partition_version,
                      mutator, dropper, queues, pred>>
      BY Zenon, <1>1 DEF InsertLock
    <2>5. TypeOK'
      BY Zenon, <2>2, <2>3, <2>4 DEF TypeOK, queues
    <2>6. Bounded'
      BY Zenon, <1>1 DEF InsertLock, Bounded, queues
    <2> QED BY Zenon, <2>5, <2>6
  <1>2. ASSUME NEW i \in inserts, InsertCommit(i) PROVE TypeInv'
    <2>1. Entry("GET_PART", Part(Partition, i.number, i.number, 0, 0), {}) \in LogEntries
      BY PartType, LevelFacts DEF Entry, LogEntries, EntryTypes, TypeOK
    <2>2. log' \in Seq(LogEntries) /\ Len(log') = Len(log) + 1
      BY <1>2, <2>1 DEF InsertCommit, AppendToLog, TypeOK
    <2>3. TypeOK'
      BY Zenon, <1>2, <2>2 DEF InsertCommit, TypeOK, queues
    <2>4. Bounded'
      BY <1>2, <2>2 DEF InsertCommit, Bounded, queues, TypeOK, Pulls
    <2> QED BY Zenon, <2>3, <2>4
  <1>3. ASSUME NEW i \in inserts, InsertCancelled(i) PROVE TypeInv'
    BY Zenon, <1>3 DEF InsertCancelled, TypeOK, Bounded, zk, queues
  <1>4. ASSUME NEW i \in inserts, InsertAbort(i) PROVE TypeInv'
    BY Zenon, <1>4 DEF InsertAbort, TypeOK, Bounded, queues
  <1> QED BY Zenon, <1>1, <1>2, <1>3, <1>4 DEF Insert

LEMMA MutateType ==
    ASSUME TypeInv, NEW m \in Mutators, Mutate(m) PROVE TypeInv'
  <1> USE DEF TypeInv
  <1> DEFINE T == [pc : MutatorSteps, seen : Nat, number : Nat]
  <1>0. mutator[m] \in T
    BY Zenon DEF TypeOK
  <1>1. CASE MutateReadVersion(m)
    <2>1. [pc |-> "allocate", seen |-> Len(mutations), number |-> 0] \in T
      BY DEF TypeOK, MutatorSteps
    <2> QED BY Zenon, <1>1, <2>1 DEF MutateReadVersion, TypeOK, Bounded, zk, queues
  <1>2. CASE MutateAllocate(m)
    <2>1. [mutator[m] EXCEPT !.pc = "commit", !.number = next_block] \in T
      BY Zenon, <1>0 DEF TypeOK, MutatorSteps
    <2> QED BY <1>2, <2>1 DEF MutateAllocate, allocateBlockNumber, TypeOK, Bounded, queues
  <1>3. CASE MutateCommit(m)
    <2>1. [mutator[m] EXCEPT !.pc = "committed", !.seen = 0] \in T
      BY Zenon, <1>0 DEF MutatorSteps
    <2>2. mutations' \in Seq(Nat) /\ Len(mutations') = Len(mutations) + 1
      BY <1>0, <1>3 DEF MutateCommit, TypeOK
    <2>3. TypeOK'
      BY Zenon, <1>3, <2>1, <2>2 DEF MutateCommit, TypeOK, queues
    <2>4. Bounded'
      BY <1>3, <2>2 DEF MutateCommit, TypeOK, Bounded, queues
    <2> QED BY Zenon, <2>3, <2>4
  <1>4. CASE MutateConflict(m)
    <2>1. [mutator[m] EXCEPT !.pc = "conflict", !.seen = 0] \in T
      BY Zenon, <1>0 DEF MutatorSteps
    <2> QED BY Zenon, <1>4, <2>1 DEF MutateConflict, TypeOK, Bounded, zk, queues
  <1>5. CASE MutateUnlock(m)
    <2>1. \A pc \in {"done", "start"} : [NoMutation EXCEPT !.pc = pc] \in T
      BY Zenon, RestingTypes DEF MutatorSteps
    <2> QED BY Zenon, <1>5, <2>1 DEF MutateUnlock, TypeOK, Bounded, queues
  <1> QED BY Zenon, <1>1, <1>2, <1>3, <1>4, <1>5 DEF Mutate

LEMMA DropPartitionType ==
    ASSUME TypeInv, NEW d \in Droppers, DropPartition(d) PROVE TypeInv'
  <1> USE DEF TypeInv
  <1> DEFINE T == [pc : DropperSteps, seen : Nat, number : Nat]
  <1>0. dropper[d] \in T
    BY Zenon DEF TypeOK
  <1>1. CASE DropReadVersion(d)
    <2>1. [pc |-> "allocate", seen |-> alter_partition_version, number |-> 0] \in T
      BY Zenon DEF TypeOK, DropperSteps
    <2> QED BY Zenon, <1>1, <2>1 DEF DropReadVersion, TypeOK, Bounded, zk, queues
  <1>2. CASE DropAllocate(d)
    <2>1. [dropper[d] EXCEPT !.pc = "clear", !.number = next_block] \in T
      BY Zenon, <1>0 DEF TypeOK, DropperSteps
    <2> QED BY <1>2, <2>1 DEF DropAllocate, allocateBlockNumber, TypeOK, Bounded, queues
  <1>3. CASE DropCancelInsert(d)
    BY Zenon, <1>3 DEF DropCancelInsert, TypeOK, Bounded, clients, queues
  <1>4. CASE DropCleared(d)
    <2>1. [dropper[d] EXCEPT !.pc = "commit"] \in T
      BY Zenon, <1>0 DEF DropperSteps
    <2> QED BY Zenon, <1>4, <2>1 DEF DropCleared, TypeOK, Bounded, zk, queues
  <1>5. CASE DropCommit(d)
    <2>1. [NoDrop EXCEPT !.pc = "done"] \in T
      BY Zenon, RestingTypes DEF DropperSteps
    <2>2. log' \in Seq(LogEntries) /\ Len(log') >= Len(log)
      <3>1. CASE dropper[d].number = 0
        BY <1>5, <3>1 DEF DropCommit, TypeOK
      <3>2. CASE dropper[d].number # 0
        <4>1. dropper[d].number - 1 \in Nat
          BY <1>0, <3>2
        <4>2. DropRangePart(dropper[d].number) \in Parts
          BY <4>1, PartType, LevelFacts DEF DropRangePart
        <4>3. Entry("DROP_RANGE", DropRangePart(dropper[d].number), {}) \in LogEntries
          BY Zenon, <4>2 DEF Entry, LogEntries, EntryTypes
        <4>4. log' = Append(log, Entry("DROP_RANGE", DropRangePart(dropper[d].number), {}))
          BY Zenon, <1>5, <3>2 DEF DropCommit, AppendToLog
        <4>5. log \in Seq(LogEntries)
          BY Zenon DEF TypeOK
        <4> QED BY <4>3, <4>4, <4>5
      <3> QED BY Zenon, <3>1, <3>2
    <2>3. TypeOK'
      <3>1. /\ locks' = locks \ {dropper[d].number}
            /\ log_version' = log_version + 1
            /\ alter_partition_version' = alter_partition_version + 1
            /\ dropper' = [dropper EXCEPT ![d] = [NoDrop EXCEPT !.pc = "done"]]
            /\ UNCHANGED <<next_block, mutations, inserts, mutator, queues, pred>>
        BY Zenon, <1>5 DEF DropCommit
      <3>2. locks' \subseteq Nat
        BY Zenon, <3>1 DEF TypeOK
      <3>3. log_version' \in Nat /\ alter_partition_version' \in Nat
        BY <3>1 DEF TypeOK
      <3>4. dropper' \in [Droppers -> T]
        BY Zenon, <2>1, <3>1 DEF TypeOK
      <3>5. UNCHANGED <<next_block, mutations, inserts, mutator, log_pointer,
                        virtual_parts, loaded, pull, pred>>
        BY Zenon, <3>1 DEF queues
      <3> QED BY Zenon, <2>2, <3>2, <3>3, <3>4, <3>5 DEF TypeOK
    <2>4. Bounded'
      <3>1. UNCHANGED <<mutations, loaded, pull>>
        BY Zenon, <1>5 DEF DropCommit, queues
      <3>2. Len(log) \in Nat /\ Len(log') \in Nat /\ \A r \in Replicas : pull[r].upto \in Nat
        BY <2>2 DEF TypeOK, Pulls
      <3> QED BY <2>2, <3>1, <3>2 DEF Bounded
    <2> QED BY <2>3, <2>4
  <1>6. CASE DropConflict(d)
    BY Zenon, <1>6, RestingTypes DEF DropConflict, TypeOK, Bounded, queues
  <1>7. CASE DropEmpty(d)
    <2>1. [dropper[d] EXCEPT !.pc = "commit"] \in T
      BY <1>0 DEF DropperSteps
    <2> QED BY Zenon, <1>7, <2>1 DEF DropEmpty, TypeOK, Bounded, queues
  <1> QED BY Zenon, <1>1, <1>2, <1>3, <1>4, <1>5, <1>6, <1>7 DEF DropPartition

(* Starting a pull, for the task or for a predicate.                       *)
LEMMA PullStartType ==
    ASSUME TypeInv, NEW r \in Replicas, NEW waiter \in SUBSET Assigners,
           PullStart(r, waiter), UNCHANGED <<log, mutations, loaded>>
    PROVE  pull' \in [Replicas -> Pulls] /\ Bounded'
  <1> USE DEF TypeInv
  <1> DEFINE new == [NoPull EXCEPT !.stage = "list_log", !.waiter = waiter,
                                   !.version = IF waiter = {} THEN 0 ELSE log_version]
  <1>1. new \in Pulls /\ new.upto = 0
    BY Zenon, RestingTypes DEF Pulls, NoPull, TypeOK
  <1>2. pull' = [pull EXCEPT ![r] = new]
    BY Zenon DEF PullStart
  <1> HIDE DEF new
  <1>3. Len(log) \in Nat
    BY DEF TypeOK
  <1> QED BY <1>1, <1>2, <1>3 DEF TypeOK, Bounded

LEMMA updateMutationsType ==
    ASSUME TypeInv, NEW r \in Replicas, NEW least, updateMutations(r, least)
    PROVE  /\ loaded' \in [Replicas -> Nat]
           /\ \A s \in Replicas : loaded'[s] <= Len(mutations)
  BY DEF TypeInv, TypeOK, Bounded, updateMutations

LEMMA ReplicaType ==
    ASSUME TypeInv, NEW r \in Replicas, Replica(r) PROVE TypeInv'
  <1> USE DEF TypeInv
  <1>0. pull[r] \in Pulls
    BY Zenon DEF TypeOK
  <1>1. CASE queueUpdatingTask(r)
    BY Zenon, <1>1, PullStartType DEF queueUpdatingTask, TypeOK, zk, clients
  <1>2. CASE PullListLog(r)
    <2>0. Len(log) \in Nat /\ Len(mutations) \in Nat
      BY DEF TypeOK
    <2>1. [pull[r] EXCEPT !.stage = "mutations", !.upto = Len(log),
                          !.mut = Len(mutations)] \in Pulls
      BY Zenon, <1>0, <2>0 DEF Pulls
    <2>2. TypeOK'
      BY Zenon, <1>2, <2>1 DEF PullListLog, TypeOK, zk, clients
    <2>3. Bounded'
      <3>1. UNCHANGED <<log, mutations, loaded>>
        BY Zenon, <1>2 DEF PullListLog, zk
      <3>2. pull \in [Replicas -> Pulls]
        BY DEF TypeOK
      <3>3. \A s \in Replicas : pull'[s].upto \in {pull[s].upto, Len(log)}
        BY <1>2, <3>2 DEF PullListLog, Pulls
      <3> QED BY <2>0, <3>1, <3>3 DEF Bounded
    <2> QED BY <2>2, <2>3
  <1>3. CASE PullUpdateMutations(r)
    <2>1. [pull[r] EXCEPT !.stage = "copy", !.mut = 0] \in Pulls
      BY Zenon, <1>0 DEF Pulls
    <2>2. /\ loaded' \in [Replicas -> Nat]
          /\ \A s \in Replicas : loaded'[s] <= Len(mutations)
      BY Zenon, <1>3, updateMutationsType DEF PullUpdateMutations
    <2>3. TypeOK'
      BY Zenon, <1>3, <2>1, <2>2 DEF PullUpdateMutations, TypeOK, zk, clients
    <2>4. \A s \in Replicas : pull'[s].upto = pull[s].upto
      BY Zenon, <1>3 DEF PullUpdateMutations, TypeOK, Pulls
    <2>5. Bounded'
      BY Zenon, <1>3, <2>2, <2>4 DEF PullUpdateMutations, Bounded, zk
    <2> QED BY <2>3, <2>5
  <1>4. CASE PullCopyEntry(r)
    <2> DEFINE entry == log[log_pointer[r] + 1]
    <2>1. log_pointer[r] + 1 \in 1 .. Len(log)
      BY <1>4, <1>0 DEF PullCopyEntry, TypeOK, Bounded, Pulls
    <2>2. entry.new_part \in Parts
      <3>1. log \in Seq(LogEntries)
        BY Zenon DEF TypeOK
      <3>2. entry \in LogEntries
        BY <2>1, <3>1
      <3> QED BY Zenon, <3>2 DEF LogEntries
    <2>3. insertUnlocked(virtual_parts[r], entry) \subseteq Parts
      BY <2>2, PartSetSubset DEF insertUnlocked, TypeOK
    <2>4. /\ log_pointer' = [log_pointer EXCEPT ![r] = @ + 1]
          /\ virtual_parts' = [virtual_parts EXCEPT ![r] = insertUnlocked(@, entry)]
          /\ UNCHANGED <<zk, clients, loaded, pull, pred>>
      BY Zenon, <1>4 DEF PullCopyEntry
    <2> HIDE DEF entry
    <2>5. TypeOK'
      BY <2>3, <2>4 DEF TypeOK, zk, clients
    <2>6. Bounded'
      BY Zenon, <2>4 DEF Bounded, zk
    <2> QED BY <2>5, <2>6
  <1>5. CASE PullDone(r)
    <2>1. \A w \in Assigners :
             [pred[w] EXCEPT !.stage = "ready", !.version = pull[r].version] \in Predicates
      <3>1. pull[r].version \in Nat /\ \A w \in Assigners : pred[w] \in Predicates
        BY <1>0 DEF TypeOK, Pulls
      <3> QED BY Zenon, <3>1 DEF Predicates
    <2>2. pred' \in [Assigners -> Predicates]
      BY Zenon, <1>5, <2>1 DEF PullDone, TypeOK
    <2>3. TypeOK'
      BY Zenon, <1>5, <2>2, RestingTypes DEF PullDone, TypeOK, zk, clients
    <2>4. NoPull.upto = 0 /\ Len(log) \in Nat
      BY DEF NoPull, TypeOK
    <2>5. \A s \in Replicas : pull'[s] = IF s = r THEN NoPull ELSE pull[s]
      BY Zenon, <1>5 DEF PullDone, TypeOK
    <2>6. UNCHANGED <<log, mutations, loaded>>
      BY Zenon, <1>5 DEF PullDone, zk
    <2>7. Bounded'
      BY <2>4, <2>5, <2>6 DEF Bounded
    <2> QED BY <2>3, <2>7
  <1>6. CASE mutationsUpdatingTask(r)
    <2>1. /\ loaded' \in [Replicas -> Nat]
          /\ \A s \in Replicas : loaded'[s] <= Len(mutations)
      BY Zenon, <1>6, updateMutationsType DEF mutationsUpdatingTask
    <2> QED BY Zenon, <1>6, <2>1 DEF mutationsUpdatingTask, TypeOK, Bounded, zk, clients
  <1>7. CASE ExecuteDropRange(r)
    <2>1. virtual_parts' \in [Replicas -> SUBSET Parts]
      BY <1>7, PartSetSubset DEF ExecuteDropRange, TypeOK
    <2> QED BY Zenon, <1>7, <2>1 DEF ExecuteDropRange, TypeOK, Bounded, zk, clients
  <1> QED BY Zenon, <1>1, <1>2, <1>3, <1>4, <1>5, <1>6, <1>7 DEF Replica, PullStep

(* Storing a well-typed predicate changes nothing else.                    *)
LEMMA PredicateType ==
    ASSUME TypeInv, NEW w \in Assigners, NEW p \in Predicates,
           pred' = [pred EXCEPT ![w] = p], UNCHANGED <<zk, clients, queues>>
    PROVE  TypeInv'
  <1>1. pred' \in [Assigners -> Predicates]
    BY Zenon DEF TypeInv, TypeOK
  <1> QED BY Zenon, <1>1 DEF TypeInv, TypeOK, Bounded, zk, clients, queues

LEMMA SelectType ==
    ASSUME TypeInv, NEW w \in Assigners, NEW entry \in LogEntries, Select(w, entry)
    PROVE  TypeInv'
  <1> DEFINE new == [NoPredicate EXCEPT !.stage = "selected", !.entry = entry,
                                        !.version = pred[w].version]
  <1>1. new \in Predicates
    BY Zenon, RestingTypes DEF TypeInv, TypeOK, Predicates
  <1>2. pred' = [pred EXCEPT ![w] = new] /\ UNCHANGED <<zk, clients, queues>>
    BY Zenon DEF Select
  <1> HIDE DEF new
  <1> QED BY Zenon, <1>1, <1>2, PredicateType

LEMMA AssignerType ==
    ASSUME TypeInv, NEW w \in Assigners, Assigner(w) PROVE TypeInv'
  <1> USE DEF TypeInv
  <1>0. /\ pred[w] \in Predicates /\ Home[w] \in Replicas
        /\ virtual_parts[Home[w]] \subseteq Parts
    BY Zenon, ConstantsAssumption DEF TypeOK
  <1>1. CASE PredCopyParts(w)
    <2>1. [pred[w] EXCEPT !.stage = "copied", !.prev = virtual_parts[Home[w]]] \in Predicates
      BY Zenon, <1>0 DEF Predicates
    <2>2. pred' = [pred EXCEPT ![w] = [pred[w] EXCEPT !.stage = "copied",
                                            !.prev = virtual_parts[Home[w]]]]
      BY Zenon, <1>1 DEF PredCopyParts, TypeOK
    <2> QED BY Zenon, <1>1, <2>1, <2>2, PredicateType DEF PredCopyParts
  <1>2. CASE getCommittingBlocks(w)
    <2>1. [pred[w] EXCEPT !.stage = "loaded", !.committing = locks] \in Predicates
      BY Zenon, <1>0 DEF Predicates, TypeOK
    <2>2. pred' = [pred EXCEPT ![w] = [pred[w] EXCEPT !.stage = "loaded",
                                            !.committing = locks]]
      BY Zenon, <1>2 DEF getCommittingBlocks, TypeOK
    <2> QED BY Zenon, <1>2, <2>1, <2>2, PredicateType DEF getCommittingBlocks
  <1>3. CASE PredPullLogs(w)
    <2>1. [pred[w] EXCEPT !.stage = "pulling"] \in Predicates
      BY Zenon, <1>0 DEF Predicates
    <2>2. pred' \in [Assigners -> Predicates]
      BY Zenon, <1>3, <2>1 DEF PredPullLogs, TypeOK
    <2>3. pull' \in [Replicas -> Pulls] /\ Bounded'
      BY Zenon, <1>0, <1>3, PullStartType DEF PredPullLogs, zk
    <2> QED BY Zenon, <1>3, <2>2, <2>3 DEF PredPullLogs, TypeOK, zk, clients
  <1>4. CASE SelectPartsToMerge(w)
    <2>1. PICK S \in SUBSET {p \in mergeable(Home[w]) : canMergeSinglePart(w, p)} :
             \E first, last, top, newest \in S :
               /\ assign(S, first, last, top, newest)
               /\ Select(w, Entry("MERGE_PARTS", futurePart(first, last, top, newest), S))
      BY Zenon, <1>4 DEF SelectPartsToMerge
    <2>2. PICK first \in S, last \in S, top \in S, newest \in S :
               /\ assign(S, first, last, top, newest)
               /\ Select(w, Entry("MERGE_PARTS", futurePart(first, last, top, newest), S))
      BY Zenon, <2>1
    <2>3. S \in SUBSET mergeable(Home[w])
      BY Zenon
    <2>4. S \subseteq Parts
      BY Zenon, <1>0, <2>3 DEF mergeable
    <2>5. futurePart(first, last, top, newest) \in Parts
      BY Zenon, <1>0, <2>2, <2>3, FuturePartType
    <2>6. Entry("MERGE_PARTS", futurePart(first, last, top, newest), S) \in LogEntries
      BY Zenon, <2>4, <2>5 DEF Entry, LogEntries, EntryTypes
    <2> QED BY Zenon, <2>2, <2>6, SelectType
  <1>5. CASE SelectPartToMutate(w)
    <2>1. PICK p \in mergeable(Home[w]), i \in 1 .. loaded[Home[w]] :
             Select(w, Entry("MUTATE_PART", [p EXCEPT !.mutation = mutations[i]], {p}))
      BY Zenon, <1>5 DEF SelectPartToMutate
    <2>2. mutations[i] \in Nat
      <3>1. loaded[Home[w]] \in Nat /\ loaded[Home[w]] <= Len(mutations)
        BY Zenon, <1>0 DEF TypeOK, Bounded
      <3>2. i \in 1 .. Len(mutations)
        BY <3>1 DEF TypeOK
      <3> QED BY <3>2 DEF TypeOK
    <2>3. p \in Parts
      BY Zenon, <1>0 DEF mergeable
    <2>4. [p EXCEPT !.mutation = mutations[i]] \in Parts
      BY Zenon, <2>2, <2>3 DEF Parts, PartInfo
    <2>5. Entry("MUTATE_PART", [p EXCEPT !.mutation = mutations[i]], {p}) \in LogEntries
      BY Zenon, <2>3, <2>4 DEF Entry, LogEntries, EntryTypes
    <2> QED BY Zenon, <2>1, <2>5, SelectType
  <1>6. CASE SelectPartToDrop(w)
    <2>1. PICK p \in mergeable(Home[w]) : Select(w, Entry("DROP_PART", p, {}))
      BY Zenon, <1>6 DEF SelectPartToDrop
    <2>2. Entry("DROP_PART", p, {}) \in LogEntries
      BY Zenon, <1>0 DEF mergeable, Entry, LogEntries, EntryTypes
    <2> QED BY Zenon, <2>1, <2>2, SelectType
  <1>7. CASE CreateLogEntry(w)
    <2>1. log' = Append(log, pred[w].entry) /\ pred[w].entry \in LogEntries
      BY Zenon, <1>7, <1>0 DEF CreateLogEntry, AppendToLog, Predicates
    <2>2. log' \in Seq(LogEntries) /\ Len(log') = Len(log) + 1
      BY <2>1 DEF TypeOK
    <2>3. TypeOK'
      BY <1>7, <2>2, RestingTypes DEF CreateLogEntry, TypeOK, clients, queues
    <2>4. Bounded'
      BY <1>7, <2>2 DEF CreateLogEntry, TypeOK, Bounded, queues, Pulls
    <2> QED BY <2>3, <2>4
  <1>8. CASE LogUpdated(w)
    BY Zenon, <1>8, RestingTypes, PredicateType DEF LogUpdated
  <1>9. CASE CannotSelect(w)
    BY Zenon, <1>9, RestingTypes, PredicateType DEF CannotSelect
  <1> QED BY Zenon, <1>1, <1>2, <1>3, <1>4, <1>5, <1>6, <1>7, <1>8, <1>9 DEF Assigner

LEMMA TypeStep == TypeInv /\ [Next]_vars => TypeInv'
  <1> SUFFICES ASSUME TypeInv, [Next]_vars PROVE TypeInv'
    BY Zenon
  <1>1. CASE Next
    BY Zenon, <1>1, InsertType, MutateType, DropPartitionType, ReplicaType, AssignerType DEF Next
  <1>2. CASE UNCHANGED vars
    BY Zenon, <1>2 DEF TypeInv, TypeOK, Bounded, vars, zk, clients, queues
  <1> QED BY Zenon, <1>1, <1>2

(* Every variable keeps its type, whatever the constants: in particular a  *)
(* future part is always a well-formed name, and indices into the log and  *)
(* into the mutations stay inside them.                                    *)
THEOREM TypeCorrect == Spec => []TypeInv
  BY InitType, TypeStep, PTL DEF Spec

(* TypeOK alone: getFakePartCoveringAllPartsInPartition, the merge         *)
(* selector and the inserts log only non-empty ranges of blocks, and no    *)
(* version, pointer or count leaves the naturals.                          *)
THEOREM TypeIsInvariant == Spec => []TypeOK
  <1>1. TypeInv => TypeOK
    BY Zenon DEF TypeInv
  <1> QED BY <1>1, TypeCorrect, PTL

-----------------------------------------------------------------------------
LEMMA OrderStays ==
    ASSUME TypeInv, OrderInv, UNCHANGED <<mutations, mutator>>,
           next_block' \in {next_block, next_block + 1}
    PROVE  OrderInv'
  <1>1. /\ next_block \in Nat /\ mutations \in Seq(Nat)
        /\ \A m \in Mutators : mutator[m].number \in Nat
    BY Zenon DEF TypeInv, TypeOK
  <1>2. \A i \in 1 .. Len(mutations) : mutations[i] \in Nat
    BY <1>1
  <1> QED BY <1>1, <1>2 DEF OrderInv, MutationsAreOrdered

LEMMA OrderMutate ==
    ASSUME TypeInv, OrderInv, NEW m \in Mutators, Mutate(m) PROVE OrderInv'
  <1>0. /\ next_block \in Nat /\ mutations \in Seq(Nat) /\ Len(mutations) \in Nat
        /\ mutator \in [Mutators -> [pc : MutatorSteps, seen : Nat, number : Nat]]
    BY DEF TypeInv, TypeOK
  <1>t. \A i \in 1 .. Len(mutations) : mutations[i] \in Nat
    BY <1>0
  <1>1. CASE MutateReadVersion(m)
    <2>1. /\ \A n \in Mutators : n # m => mutator'[n] = mutator[n]
          /\ mutator'[m].seen = Len(mutations) /\ mutator'[m].pc = "allocate"
          /\ UNCHANGED <<mutations, next_block>>
      BY Zenon, <1>0, <1>1 DEF MutateReadVersion, zk
    <2>2. \A n \in Mutators : n # m =>
              /\ mutator'[n].seen <= Len(mutations')
              /\ mutator'[n].pc = "commit" =>
                    /\ mutator'[n].number < next_block'
                    /\ \A i \in 1 .. mutator'[n].seen : mutations'[i] < mutator'[n].number
      BY Zenon, <2>1 DEF OrderInv
    <2>3. mutator'[m].seen <= Len(mutations') /\ mutator'[m].pc # "commit"
      BY <1>0, <2>1
    <2>4. MutationsAreOrdered' /\ \A i \in 1 .. Len(mutations') : mutations'[i] < next_block'
      BY Zenon, <2>1 DEF OrderInv, MutationsAreOrdered
    <2> QED BY Zenon, <2>2, <2>3, <2>4 DEF OrderInv
  <1>2. CASE MutateAllocate(m)
    <2>1. /\ \A n \in Mutators : n # m => mutator'[n] = mutator[n]
          /\ mutator'[m].seen = mutator[m].seen /\ mutator'[m].number = next_block
          /\ mutations' = mutations /\ next_block' = next_block + 1
      BY Zenon, <1>0, <1>2 DEF MutateAllocate, allocateBlockNumber
    <2>2. \A n \in Mutators : mutator[n].number \in Nat /\ mutator[n].seen \in Nat
      BY Zenon, <1>0
    <2>3. \A i \in 1 .. mutator[m].seen : i \in 1 .. Len(mutations)
      BY <1>0, <2>2 DEF OrderInv
    <2>4. MutationsAreOrdered' /\ \A i \in 1 .. Len(mutations') : mutations'[i] < next_block'
      BY <1>0, <1>t, <2>1 DEF OrderInv, MutationsAreOrdered
    <2>5. \A n \in Mutators : n # m =>
              /\ mutator'[n].seen <= Len(mutations')
              /\ mutator'[n].pc = "commit" =>
                    /\ mutator'[n].number < next_block'
                    /\ \A i \in 1 .. mutator'[n].seen : mutations'[i] < mutator'[n].number
      BY <1>0, <2>1, <2>2 DEF OrderInv
    <2>6. /\ mutator'[m].seen <= Len(mutations') /\ mutator'[m].number < next_block'
          /\ \A i \in 1 .. mutator'[m].seen : mutations'[i] < mutator'[m].number
      BY <1>0, <2>1, <2>3 DEF OrderInv
    <2> QED BY Zenon, <2>4, <2>5, <2>6 DEF OrderInv
  <1>3. CASE MutateCommit(m)
    <2>1. /\ \A n \in Mutators : n # m => mutator'[n] = mutator[n]
          /\ mutator'[m].seen = 0 /\ mutator'[m].pc = "committed"
          /\ mutations' = Append(mutations, mutator[m].number)
          /\ mutator[m].pc = "commit" /\ mutator[m].seen = Len(mutations)
          /\ UNCHANGED next_block
      BY Zenon, <1>0, <1>3 DEF MutateCommit
    <2>2. /\ Len(mutations') = Len(mutations) + 1
          /\ \A i \in 1 .. Len(mutations) : mutations'[i] = mutations[i]
          /\ mutations'[Len(mutations) + 1] = mutator[m].number
      BY <1>0, <2>1
    <2>3. mutator[m].number \in Nat /\ mutator[m].number < next_block
          /\ \A i \in 1 .. Len(mutations) : mutations[i] < mutator[m].number
      BY Zenon, <1>0, <2>1 DEF OrderInv
    <2>4. \A i \in 1 .. Len(mutations') : i \in 1 .. Len(mutations) \/ i = Len(mutations) + 1
      BY <1>0, <2>2
    <2>5. \A i \in 1 .. Len(mutations') : mutations'[i] < next_block'
      BY Zenon, <2>1, <2>2, <2>3, <2>4 DEF OrderInv
    <2>6. MutationsAreOrdered'
      <3> SUFFICES ASSUME NEW i \in 1 .. Len(mutations'), NEW j \in 1 .. Len(mutations'), i < j
                   PROVE  mutations'[i] < mutations'[j]
        BY Zenon DEF MutationsAreOrdered
      <3>1. i \in 1 .. Len(mutations)
        BY <1>0, <2>2
      <3>2. CASE j \in 1 .. Len(mutations)
        BY Zenon, <2>2, <3>1, <3>2 DEF OrderInv, MutationsAreOrdered
      <3>3. CASE j = Len(mutations) + 1
        BY Zenon, <2>2, <2>3, <3>1, <3>3
      <3> QED BY Zenon, <2>4, <3>2, <3>3
    <2>7. ASSUME NEW n \in Mutators, n # m
          PROVE  /\ mutator'[n].seen <= Len(mutations')
                 /\ mutator'[n].pc = "commit" =>
                      /\ mutator'[n].number < next_block'
                      /\ \A i \in 1 .. mutator'[n].seen : mutations'[i] < mutator'[n].number
      <3>1. mutator'[n] = mutator[n] /\ mutator[n].seen \in Nat /\ mutator[n].seen <= Len(mutations)
        BY Zenon, <1>0, <2>1, <2>7 DEF OrderInv
      <3>2. \A i \in 1 .. mutator[n].seen : i \in 1 .. Len(mutations)
        BY <1>0, <3>1
      <3>3. \A i \in 1 .. mutator[n].seen : mutations'[i] = mutations[i]
        BY Zenon, <2>2, <3>2
      <3>4. mutator[n].seen <= Len(mutations')
        BY <1>0, <2>2, <3>1
      <3> QED BY Zenon, <2>1, <3>1, <3>3, <3>4 DEF OrderInv
    <2>8. mutator'[m].seen <= Len(mutations') /\ mutator'[m].pc # "commit"
      BY <1>0, <2>1, <2>2
    <2> QED BY Zenon, <2>5, <2>6, <2>7, <2>8 DEF OrderInv
  <1>4. CASE MutateConflict(m) \/ MutateUnlock(m)
    <2>1. /\ \A n \in Mutators : n # m => mutator'[n] = mutator[n]
          /\ mutator'[m].seen = 0 /\ mutator'[m].pc # "commit"
          /\ UNCHANGED <<mutations, next_block>>
      <3>1. CASE MutateConflict(m)
        BY Zenon, <1>0, <3>1 DEF MutateConflict, zk
      <3>2. CASE MutateUnlock(m)
        BY Zenon, <1>0, <3>2 DEF MutateUnlock, NoMutation
      <3> QED BY Zenon, <1>4, <3>1, <3>2
    <2>2. \A n \in Mutators : n # m =>
              /\ mutator'[n].seen <= Len(mutations')
              /\ mutator'[n].pc = "commit" =>
                    /\ mutator'[n].number < next_block'
                    /\ \A i \in 1 .. mutator'[n].seen : mutations'[i] < mutator'[n].number
      BY Zenon, <2>1 DEF OrderInv
    <2>3. mutator'[m].seen <= Len(mutations') /\ mutator'[m].pc # "commit"
      BY <1>0, <2>1
    <2>4. MutationsAreOrdered' /\ \A i \in 1 .. Len(mutations') : mutations'[i] < next_block'
      BY Zenon, <2>1 DEF OrderInv, MutationsAreOrdered
    <2> QED BY <2>2, <2>3, <2>4 DEF OrderInv
  <1> QED BY Zenon, <1>1, <1>2, <1>3, <1>4 DEF Mutate

LEMMA OrderStep == TypeInv /\ OrderInv /\ [Next]_vars => OrderInv'
  <1> SUFFICES ASSUME TypeInv, OrderInv, [Next]_vars PROVE OrderInv'
    BY Zenon
  <1>1. CASE Insert
    <2>1. UNCHANGED <<mutations, mutator>> /\ next_block' \in {next_block, next_block + 1}
      BY Zenon, <1>1 DEF Insert, InsertLock, InsertCommit, InsertCancelled, InsertAbort,
                  allocateBlockNumber, zk
    <2> QED BY Zenon, <2>1, OrderStays
  <1>2. ASSUME NEW m \in Mutators, Mutate(m) PROVE OrderInv'
    BY Zenon, <1>2, OrderMutate
  <1>3. ASSUME NEW d \in Droppers, DropPartition(d) PROVE OrderInv'
    <2>1. UNCHANGED <<mutations, mutator>> /\ next_block' \in {next_block, next_block + 1}
      BY Zenon, <1>3 DEF DropPartition, DropReadVersion, DropAllocate, DropEmpty, DropCancelInsert,
                  DropCleared, DropCommit, DropConflict, allocateBlockNumber, zk, clients
    <2> QED BY Zenon, <2>1, OrderStays
  <1>4. ASSUME NEW r \in Replicas, Replica(r) PROVE OrderInv'
    <2>1. UNCHANGED <<mutations, mutator>> /\ next_block' = next_block
      BY Zenon, <1>4 DEF Replica, PullStep, queueUpdatingTask, PullListLog, PullUpdateMutations,
           PullCopyEntry, PullDone, mutationsUpdatingTask, ExecuteDropRange, zk, clients
    <2> QED BY Zenon, <2>1, OrderStays
  <1>5. ASSUME NEW w \in Assigners, Assigner(w) PROVE OrderInv'
    <2>1. UNCHANGED <<mutations, mutator>> /\ next_block' = next_block
      BY Zenon, <1>5 DEF Assigner, PredCopyParts, getCommittingBlocks, PredPullLogs,
           SelectPartsToMerge, SelectPartToMutate, SelectPartToDrop, Select, CreateLogEntry,
           LogUpdated, CannotSelect, zk, clients
    <2> QED BY <2>1, OrderStays
  <1>6. CASE UNCHANGED vars
    BY Zenon, <1>6, OrderStays DEF vars, zk, clients
  <1> QED BY Zenon, <1>1, <1>2, <1>3, <1>4, <1>5, <1>6 DEF Next

LEMMA OrderInit == Init => OrderInv
  BY DEF Init, OrderInv, MutationsAreOrdered, NoMutation

(* mutate() retries on a conflict of versions, with a new block number:    *)
(* the nodes of /mutations are in the order of their versions, whatever    *)
(* queries run concurrently.                                               *)
THEOREM MutationsStayOrdered == Spec => []MutationsAreOrdered
  <1>1. OrderInv => MutationsAreOrdered
    BY Zenon DEF OrderInv
  <1> QED BY <1>1, OrderInit, OrderStep, TypeCorrect, PTL DEF Spec

-----------------------------------------------------------------------------
LEMMA LoadedMore ==
    ASSUME NEW K, NEW J, K \subseteq J
    PROVE  /\ \A p : PartLoaded(p, K) => PartLoaded(p, J)
           /\ \A e : EntryLoaded(e, K) => EntryLoaded(e, J)
  BY Zenon DEF PartLoaded, EntryLoaded

LEMMA KnownMore ==
    ASSUME NEW M \in Seq(Nat), NEW j \in Nat, NEW k \in Nat, j <= k
    PROVE  Known(M, j) \subseteq Known(M, k)
  <1>1. \A i \in 1 .. j : i \in 1 .. k
    OBVIOUS
  <1> QED BY Zenon, <1>1 DEF Known

LEMMA KnownAppend ==
    ASSUME NEW M \in Seq(Nat), NEW v \in Nat, NEW k \in Nat, k <= Len(M)
    PROVE  Known(Append(M, v), k) = Known(M, k)
  <1>1. \A i \in 1 .. k : i \in 1 .. Len(M) /\ Append(M, v)[i] = M[i]
    OBVIOUS
  <1> QED BY Zenon, <1>1 DEF Known

LEMMA LogEntryTypes ==
    ASSUME TypeInv
    PROVE  /\ log \in Seq(LogEntries) /\ Len(log) \in Nat
           /\ mutations \in Seq(Nat) /\ Len(mutations) \in Nat
           /\ \A r \in Replicas : /\ log_pointer[r] \in Nat /\ loaded[r] \in Nat
                                  /\ pull[r].upto \in Nat /\ pull[r].mut \in Nat
                                  /\ loaded[r] <= Len(mutations) /\ pull[r].upto <= Len(log)
  BY DEF TypeInv, TypeOK, Bounded, Pulls

(* An entry is appended that is applicable with the mutations there are.   *)
LEMMA LoadedAppend ==
    ASSUME TypeInv, LoadedInv, NEW e, log' = Append(log, e),
           EntryLoaded(e, Known(mutations, Len(mutations))),
           UNCHANGED <<mutations, queues>>
    PROVE  LogLoaded' /\ \A r \in Replicas : QueueLoaded(r)'
  <1>0. UNCHANGED <<mutations, log_pointer, virtual_parts, loaded, pull>>
    BY Zenon DEF queues
  <1>1. /\ Len(log') = Len(log) + 1 /\ log'[Len(log) + 1] = e
        /\ \A i \in 1 .. Len(log) : log'[i] = log[i]
    BY LogEntryTypes
  <1>2. \A i \in 1 .. Len(log') : i \in 1 .. Len(log) \/ i = Len(log) + 1
    BY <1>1, LogEntryTypes
  <1>3. LogLoaded'
    BY Zenon, <1>0, <1>1, <1>2 DEF LoadedInv, LogLoaded
  <1>4. ASSUME NEW r \in Replicas PROVE QueueLoaded(r)'
    <2>1. QueueLoaded(r)
      BY Zenon DEF LoadedInv
    <2>2. /\ \A i \in 1 .. log_pointer[r] : log'[i] = log[i]
          /\ \A i \in 1 .. pull[r].upto : log'[i] = log[i]
          /\ log_pointer[r] <= Len(log')
      BY <1>1, <2>1, LogEntryTypes DEF QueueLoaded
    <2>3. mergeable(r)' = mergeable(r)
      BY Zenon, <1>0 DEF mergeable
    <2> QED BY Zenon, <1>0, <2>1, <2>2, <2>3 DEF QueueLoaded
  <1> QED BY Zenon, <1>3, <1>4

(* A mutation is appended, or nothing this invariant speaks of changes.    *)
LEMMA LoadedMutate ==
    ASSUME TypeInv, LoadedInv, UNCHANGED <<log, queues, pred>>,
           mutations' = mutations \/ \E v \in Nat : mutations' = Append(mutations, v)
    PROVE  LoadedInv'
  <1>0. UNCHANGED <<log_pointer, virtual_parts, loaded, pull>>
    BY Zenon DEF queues
  <1>1. /\ Len(mutations) <= Len(mutations') /\ mutations' \in Seq(Nat)
        /\ Len(mutations') \in Nat
        /\ \A k \in Nat : k <= Len(mutations) => Known(mutations', k) = Known(mutations, k)
    <2>1. CASE mutations' = mutations
      BY <2>1, LogEntryTypes
    <2>2. CASE mutations' # mutations
      <3>1. PICK v \in Nat : mutations' = Append(mutations, v)
        BY Zenon, <2>2
      <3>2. mutations \in Seq(Nat) /\ Len(mutations) \in Nat
        BY Zenon, LogEntryTypes
      <3>3. /\ mutations' \in Seq(Nat) /\ Len(mutations') = Len(mutations) + 1
        BY <3>1, <3>2
      <3>4. \A k \in Nat : k <= Len(mutations) => Known(mutations', k) = Known(mutations, k)
        BY <3>1, <3>2, KnownAppend, Zenon
      <3> QED BY <3>2, <3>3, <3>4
    <2> QED BY Zenon, <2>1, <2>2
  <1>3. Known(mutations, Len(mutations)) \subseteq Known(mutations', Len(mutations'))
    BY <1>1, KnownMore, LogEntryTypes
  <1>4. LogLoaded' /\ PredLoaded'
    BY Zenon, <1>3, LoadedMore DEF LoadedInv, LogLoaded, PredLoaded
  <1>5. ASSUME NEW r \in Replicas PROVE QueueLoaded(r)'
    <2>1. QueueLoaded(r)
      BY Zenon DEF LoadedInv
    <2>2. /\ Known(mutations', loaded[r]) = Known(mutations, loaded[r])
          /\ pull[r].stage = "mutations" =>
                /\ pull[r].mut <= Len(mutations')
                /\ Known(mutations', pull[r].mut) = Known(mutations, pull[r].mut)
      BY <1>1, <2>1, LogEntryTypes DEF QueueLoaded
    <2>3. mergeable(r)' = mergeable(r)
      BY Zenon, <1>0 DEF mergeable
    <2> QED BY Zenon, <1>0, <2>1, <2>2, <2>3 DEF QueueLoaded
  <1> QED BY Zenon, <1>4, <1>5 DEF LoadedInv

LEMMA LoadedClients ==
    ASSUME TypeInv, LoadedInv,
           Insert \/ (\E m \in Mutators : Mutate(m)) \/ (\E d \in Droppers : DropPartition(d))
    PROVE  LoadedInv'
  <1>1. CASE UNCHANGED <<log, mutations, queues, pred>>
    BY Zenon, <1>1, LoadedMutate
  <1>2. ASSUME NEW i \in inserts, InsertCommit(i) PROVE LoadedInv'
    <2> DEFINE e == Entry("GET_PART", Part(Partition, i.number, i.number, 0, 0), {})
    <2>1. EntryLoaded(e, Known(mutations, Len(mutations)))
      BY Zenon DEF EntryLoaded, PartLoaded, Entry, Part
    <2>2. log' = Append(log, e) /\ UNCHANGED <<mutations, queues, pred>>
      BY Zenon, <1>2 DEF InsertCommit, AppendToLog
    <2>3. PredLoaded'
      BY Zenon, <2>2 DEF LoadedInv, PredLoaded
    <2> HIDE DEF e
    <2> QED BY Zenon, <2>1, <2>2, <2>3, LoadedAppend DEF LoadedInv
  <1>3. ASSUME NEW m \in Mutators, MutateCommit(m) PROVE LoadedInv'
    <2>1. mutator[m].number \in Nat
      BY Zenon DEF TypeInv, TypeOK
    <2> QED BY Zenon, <1>3, <2>1, LoadedMutate DEF MutateCommit
  <1>4. ASSUME NEW d \in Droppers, DropCommit(d), dropper[d].number # 0 PROVE LoadedInv'
    <2> DEFINE e == Entry("DROP_RANGE", DropRangePart(dropper[d].number), {})
    <2>1. EntryLoaded(e, Known(mutations, Len(mutations)))
      BY Zenon DEF EntryLoaded, Entry, DropRangePart, Part, isFakeDropRangePart
    <2>2. log' = Append(log, e) /\ UNCHANGED <<mutations, queues, pred>>
      BY Zenon, <1>4 DEF DropCommit, AppendToLog
    <2>3. PredLoaded'
      BY Zenon, <2>2 DEF LoadedInv, PredLoaded
    <2> HIDE DEF e
    <2> QED BY Zenon, <2>1, <2>2, <2>3, LoadedAppend DEF LoadedInv
  <1>5. Insert => UNCHANGED <<log, mutations, queues, pred>> \/ \E i \in inserts : InsertCommit(i)
    BY Zenon DEF Insert, InsertLock, InsertCancelled, InsertAbort, zk
  <1>6. \A m \in Mutators : Mutate(m) =>
            UNCHANGED <<log, mutations, queues, pred>> \/ MutateCommit(m)
    BY Zenon DEF Mutate, MutateReadVersion, MutateAllocate, MutateConflict, MutateUnlock, zk
  <1>7. \A d \in Droppers : DropPartition(d) =>
            \/ UNCHANGED <<log, mutations, queues, pred>>
            \/ DropCommit(d) /\ dropper[d].number # 0
    BY Zenon DEF DropPartition, DropReadVersion, DropAllocate, DropEmpty, DropCancelInsert,
           DropCleared, DropCommit, DropConflict, zk
  <1> QED BY Zenon, <1>1, <1>2, <1>3, <1>4, <1>5, <1>6, <1>7

(* The frame of a step of replica r: the others keep their queues.         *)
LEMMA LoadedReplica ==
    ASSUME TypeInv, LoadedInv, NEW r \in Replicas, QueueLoaded(r)',
           UNCHANGED <<log, mutations>>,
           \A w \in Assigners : pred'[w].stage = "selected" => pred'[w] = pred[w],
           \A s \in Replicas \ {r} : /\ log_pointer'[s] = log_pointer[s]
                                     /\ virtual_parts'[s] = virtual_parts[s]
                                     /\ loaded'[s] = loaded[s] /\ pull'[s] = pull[s]
    PROVE  LoadedInv'
  <1>1. LogLoaded' /\ PredLoaded'
    BY Zenon DEF LoadedInv, LogLoaded, PredLoaded
  <1>2. ASSUME NEW s \in Replicas, s # r PROVE QueueLoaded(s)'
    <2>1. mergeable(s)' = mergeable(s)
      BY Zenon, <1>2 DEF mergeable
    <2> QED BY Zenon, <1>2, <2>1 DEF LoadedInv, QueueLoaded
  <1> QED BY Zenon, <1>1, <1>2 DEF LoadedInv

(* updateMutations only adds.                                              *)
LEMMA updateMutationsAdds ==
    ASSUME TypeInv, NEW r \in Replicas, NEW least \in Nat, updateMutations(r, least)
    PROVE  /\ Known(mutations, loaded[r]) \subseteq Known(mutations, loaded'[r])
           /\ Known(mutations, least) \subseteq Known(mutations, loaded'[r])
           /\ \A s \in Replicas \ {r} : loaded'[s] = loaded[s]
  <1>1. PICK k \in 0 .. Len(mutations) :
            k >= least /\ k >= loaded[r] /\ loaded' = [loaded EXCEPT ![r] = k]
    BY Zenon DEF updateMutations
  <1>2. loaded \in [Replicas -> Nat] /\ k \in Nat /\ mutations \in Seq(Nat)
    BY DEF TypeInv, TypeOK
  <1>3. loaded[r] \in Nat /\ loaded'[r] = k /\ \A s \in Replicas \ {r} : loaded'[s] = loaded[s]
    BY Zenon, <1>1, <1>2
  <1>4. least <= k /\ loaded[r] <= k
    BY Zenon, <1>1, <1>2, <1>3
  <1> QED BY Zenon, <1>2, <1>3, <1>4, KnownMore

LEMMA LoadedReplicas ==
    ASSUME TypeInv, LoadedInv, NEW r \in Replicas, Replica(r)
    PROVE  LoadedInv'
  <1>0. /\ pull \in [Replicas -> Pulls] /\ log_pointer \in [Replicas -> Nat]
        /\ virtual_parts \in [Replicas -> SUBSET Parts]
        /\ loaded \in [Replicas -> Nat]
        /\ pull[r] \in Pulls /\ Len(log) \in Nat /\ Len(mutations) \in Nat
        /\ pull[r].mut \in Nat /\ pull[r].upto \in Nat /\ pull[r].upto <= Len(log)
        /\ log_pointer[r] \in Nat /\ loaded[r] \in Nat
    BY Zenon, LogEntryTypes DEF TypeInv, TypeOK
  <1>q. QueueLoaded(r)
    BY Zenon DEF LoadedInv
  <1>1. CASE queueUpdatingTask(r)
    <2>1. /\ \A s \in Replicas \ {r} : pull'[s] = pull[s]
          /\ pull'[r].stage = "list_log"
          /\ UNCHANGED <<log, mutations, log_pointer, virtual_parts, loaded, pred>>
      BY Zenon, <1>0, <1>1 DEF queueUpdatingTask, PullStart, NoPull, zk
    <2>2. QueueLoaded(r)'
      BY Zenon, <1>q, <2>1 DEF QueueLoaded, mergeable
    <2> QED BY Zenon, <2>1, <2>2, LoadedReplica
  <1>2. CASE PullListLog(r)
    <2>1. /\ \A s \in Replicas \ {r} : pull'[s] = pull[s]
          /\ pull'[r].stage = "mutations" /\ pull'[r].upto = Len(log)
          /\ pull'[r].mut = Len(mutations)
          /\ UNCHANGED <<log, mutations, log_pointer, virtual_parts, loaded, pred>>
      BY Zenon, <1>0, <1>2 DEF PullListLog, zk, Pulls
    <2>2. mergeable(r)' = mergeable(r) /\ LogLoaded /\ Len(mutations) <= Len(mutations)
      BY <1>0, <2>1 DEF mergeable, LoadedInv
    <2>3. QueueLoaded(r)'
      BY Zenon, <1>q, <2>1, <2>2 DEF QueueLoaded, LogLoaded
    <2> QED BY Zenon, <2>1, <2>3, LoadedReplica
  <1>3. CASE PullUpdateMutations(r)
    <2>1. /\ \A s \in Replicas \ {r} : pull'[s] = pull[s]
          /\ pull'[r].stage = "copy" /\ pull'[r].upto = pull[r].upto
          /\ pull[r].stage = "mutations" /\ updateMutations(r, pull[r].mut)
          /\ UNCHANGED <<log, mutations, log_pointer, virtual_parts, pred>>
      BY Zenon, <1>0, <1>3 DEF PullUpdateMutations, zk, Pulls
    <2>2. /\ Known(mutations, loaded[r]) \subseteq Known(mutations, loaded'[r])
          /\ Known(mutations, pull[r].mut) \subseteq Known(mutations, loaded'[r])
          /\ \A s \in Replicas \ {r} : loaded'[s] = loaded[s]
      BY Zenon, <1>0, <2>1, updateMutationsAdds
    <2>3. mergeable(r)' = mergeable(r)
      BY Zenon, <2>1 DEF mergeable
    <2>4. QueueLoaded(r)'
      BY Zenon, <1>q, <2>1, <2>2, <2>3, LoadedMore DEF QueueLoaded
    <2> QED BY Zenon, <2>1, <2>2, <2>4, LoadedReplica
  <1>4. CASE PullCopyEntry(r)
    <2> DEFINE entry == log[log_pointer[r] + 1]
               V == insertUnlocked(virtual_parts[r], entry)
               K == Known(mutations, loaded[r])
    <2>1. /\ pull[r].stage = "copy" /\ log_pointer[r] < pull[r].upto
          /\ log_pointer' = [log_pointer EXCEPT ![r] = log_pointer[r] + 1]
          /\ virtual_parts' = [virtual_parts EXCEPT ![r] = V]
          /\ UNCHANGED <<log, mutations, loaded, pull, pred>>
      BY Zenon, <1>0, <1>4 DEF PullCopyEntry, zk
    <2>2. log_pointer[r] + 1 \in 1 .. pull[r].upto /\ log_pointer[r] + 1 <= Len(log)
      BY <1>0, <2>1
    <2>3. EntryLoaded(entry, K)
      BY Zenon, <1>q, <2>1, <2>2 DEF QueueLoaded
    <2>4. V \subseteq virtual_parts[r] \cup {entry.new_part}
      BY PartSetSubset DEF insertUnlocked
    <2>5. virtual_parts'[r] = V /\ log_pointer'[r] = log_pointer[r] + 1
      BY Zenon, <1>0, <2>1
    <2>6. \A p \in mergeable(r)' : PartLoaded(p, K)
      <3>1. \A p \in mergeable(r)' : p \in V /\ ~isFakeDropRangePart(p)
        BY Zenon, <2>5 DEF mergeable
      <3>2. \A p \in virtual_parts[r] : ~isFakeDropRangePart(p) => PartLoaded(p, K)
        BY Zenon, <1>q DEF QueueLoaded, mergeable
      <3>3. ~isFakeDropRangePart(entry.new_part) => PartLoaded(entry.new_part, K)
        BY Zenon, <2>3 DEF EntryLoaded
      <3> HIDE DEF V, K, entry
      <3> QED BY Zenon, <2>4, <3>1, <3>2, <3>3
    <2>7. \A i \in 1 .. log_pointer'[r] : i \in 1 .. log_pointer[r] \/ i = log_pointer[r] + 1
      BY <1>0, <2>5
    <2>8. \A i \in 1 .. log_pointer'[r] : EntryLoaded(log[i], K)
      BY Zenon, <1>q, <2>3, <2>7 DEF QueueLoaded
    <2>9. QueueLoaded(r)'
      BY Zenon, <1>q, <2>1, <2>2, <2>5, <2>6, <2>8 DEF QueueLoaded
    <2>10. \A s \in Replicas \ {r} : /\ log_pointer'[s] = log_pointer[s]
                                     /\ virtual_parts'[s] = virtual_parts[s]
      BY Zenon, <1>0, <2>1
    <2> QED BY Zenon, <2>1, <2>9, <2>10, LoadedReplica
  <1>5. CASE PullDone(r)
    <2>0. pull' = [pull EXCEPT ![r] = NoPull]
          /\ UNCHANGED <<log, mutations, log_pointer, virtual_parts, loaded>>
      BY Zenon, <1>5 DEF PullDone, zk
    <2>1. /\ \A s \in Replicas \ {r} : pull'[s] = pull[s]
          /\ pull'[r].stage = "idle"
          /\ UNCHANGED <<log, mutations, log_pointer, virtual_parts, loaded>>
      BY Zenon, <1>0, <2>0 DEF NoPull
    <2>2. \A w \in Assigners : pred'[w].stage = "selected" => pred'[w] = pred[w]
      <3>1. \A w \in Assigners : pred[w] \in Predicates
        BY Zenon DEF TypeInv, TypeOK
      <3> QED BY Zenon, <1>5, <3>1 DEF PullDone, Predicates
    <2>3. QueueLoaded(r)'
      BY Zenon, <1>q, <2>1 DEF QueueLoaded, mergeable
    <2> QED BY Zenon, <2>1, <2>2, <2>3, LoadedReplica
  <1>6. CASE mutationsUpdatingTask(r)
    <2>1. /\ updateMutations(r, loaded[r] + 1)
          /\ UNCHANGED <<log, mutations, log_pointer, virtual_parts, pull, pred>>
      BY Zenon, <1>6 DEF mutationsUpdatingTask, zk
    <2>2. /\ Known(mutations, loaded[r]) \subseteq Known(mutations, loaded'[r])
          /\ \A s \in Replicas \ {r} : loaded'[s] = loaded[s]
      BY <1>0, <2>1, updateMutationsAdds
    <2>3. mergeable(r)' = mergeable(r)
      BY Zenon, <2>1 DEF mergeable
    <2>4. QueueLoaded(r)'
      BY Zenon, <1>q, <2>1, <2>2, <2>3, LoadedMore DEF QueueLoaded
    <2> QED BY Zenon, <2>1, <2>2, <2>4, LoadedReplica
  <1>7. CASE ExecuteDropRange(r)
    <2>1. PICK p \in virtual_parts[r] :
             virtual_parts' = [virtual_parts EXCEPT ![r] = remove(@, p)]
      BY Zenon, <1>7 DEF ExecuteDropRange
    <2>2. /\ virtual_parts'[r] \subseteq virtual_parts[r]
          /\ \A s \in Replicas \ {r} : virtual_parts'[s] = virtual_parts[s]
          /\ UNCHANGED <<log, mutations, log_pointer, loaded, pull, pred>>
      BY Zenon, <1>0, <1>7, <2>1, PartSetSubset DEF ExecuteDropRange, zk
    <2>3. mergeable(r)' \subseteq mergeable(r)
      BY Zenon, <2>2 DEF mergeable
    <2>4. QueueLoaded(r)'
      BY Zenon, <1>q, <2>2, <2>3 DEF QueueLoaded
    <2> QED BY Zenon, <2>2, <2>4, LoadedReplica
  <1> QED BY Zenon, <1>1, <1>2, <1>3, <1>4, <1>5, <1>6, <1>7 DEF Replica, PullStep

(* Assigners select entries for parts of their replica's queue, or for a   *)
(* mutation it has loaded.                                                 *)
LEMMA LoadedSelect ==
    ASSUME TypeInv, LoadedInv, NEW w \in Assigners, NEW e, Select(w, e),
           EntryLoaded(e, Known(mutations, Len(mutations)))
    PROVE  LoadedInv'
  <1>1. /\ pred'[w].entry = e /\ \A v \in Assigners \ {w} : pred'[v] = pred[v]
        /\ UNCHANGED <<log, mutations, log_pointer, virtual_parts, loaded, pull>>
    BY Zenon DEF Select, NoPredicate, TypeInv, TypeOK, zk, queues
  <1>2. PredLoaded'
    BY Zenon, <1>1 DEF LoadedInv, PredLoaded
  <1>3. LogLoaded' /\ \A r \in Replicas : QueueLoaded(r)'
    BY Zenon, <1>1 DEF LoadedInv, LogLoaded, QueueLoaded, mergeable
  <1> QED BY Zenon, <1>2, <1>3 DEF LoadedInv

LEMMA LoadedAssigner ==
    ASSUME TypeInv, LoadedInv, NEW w \in Assigners, Assigner(w)
    PROVE  LoadedInv'
  <1> DEFINE r == Home[w]
             K == Known(mutations, Len(mutations))
  <1>0. /\ pred \in [Assigners -> Predicates] /\ pull \in [Replicas -> Pulls]
        /\ r \in Replicas /\ QueueLoaded(r) /\ loaded[r] \in Nat /\ loaded[r] <= Len(mutations)
        /\ mutations \in Seq(Nat) /\ Len(mutations) \in Nat
    BY Zenon, ConstantsAssumption, LogEntryTypes DEF TypeInv, TypeOK, LoadedInv
  <1>k. Known(mutations, loaded[r]) \subseteq K
    BY Zenon, <1>0, KnownMore
  <1>p. \A p \in mergeable(r) : PartLoaded(p, K)
    <2>1. \A p : PartLoaded(p, Known(mutations, loaded[r])) => PartLoaded(p, K)
      BY Zenon, <1>k, LoadedMore
    <2> QED BY Zenon, <1>0, <2>1 DEF QueueLoaded
  <1>1. CASE PredCopyParts(w) \/ getCommittingBlocks(w)
    <2>1. /\ \A v \in Assigners : pred'[v].stage = "selected" => pred'[v] = pred[v]
          /\ UNCHANGED <<log, mutations, log_pointer, virtual_parts, loaded, pull>>
      BY Zenon, <1>0, <1>1 DEF PredCopyParts, getCommittingBlocks, Predicates, zk, queues
    <2>2. QueueLoaded(r)'
      BY Zenon, <1>0, <2>1 DEF QueueLoaded, mergeable
    <2> QED BY Zenon, <1>0, <2>1, <2>2, LoadedReplica
  <1>2. CASE PredPullLogs(w)
    <2>1. /\ \A v \in Assigners : pred'[v].stage = "selected" => pred'[v] = pred[v]
          /\ pull'[r].stage = "list_log" /\ \A s \in Replicas \ {r} : pull'[s] = pull[s]
          /\ UNCHANGED <<log, mutations, log_pointer, virtual_parts, loaded>>
      BY Zenon, <1>0, <1>2 DEF PredPullLogs, PullStart, NoPull, Predicates, zk
    <2>2. QueueLoaded(r)'
      BY Zenon, <1>0, <2>1 DEF QueueLoaded, mergeable
    <2> QED BY Zenon, <1>0, <2>1, <2>2, LoadedReplica
  <1>3. CASE SelectPartsToMerge(w)
    <2>1. PICK S \in SUBSET {p \in mergeable(r) : canMergeSinglePart(w, p)} :
             \E first, last, top, newest \in S :
               Select(w, Entry("MERGE_PARTS", futurePart(first, last, top, newest), S))
      BY Zenon, <1>3 DEF SelectPartsToMerge
    <2>2. PICK first \in S, last \in S, top \in S, newest \in S :
               Select(w, Entry("MERGE_PARTS", futurePart(first, last, top, newest), S))
      BY Zenon, <2>1
    <2>3. newest \in mergeable(r) /\ PartLoaded(newest, K)
      BY Zenon, <1>p
    <2>4. EntryLoaded(Entry("MERGE_PARTS", futurePart(first, last, top, newest), S), K)
      BY Zenon, <2>3 DEF EntryLoaded, PartLoaded, Entry, futurePart, Part
    <2> QED BY Zenon, <2>2, <2>4, LoadedSelect
  <1>4. CASE SelectPartToMutate(w)
    <2>1. PICK p \in mergeable(r), i \in 1 .. loaded[r] :
             Select(w, Entry("MUTATE_PART", [p EXCEPT !.mutation = mutations[i]], {p}))
      BY Zenon, <1>4 DEF SelectPartToMutate
    <2>2. mutations[i] \in K
      BY Zenon, <1>k DEF Known
    <2>3. p \in Parts
      BY Zenon, <1>0 DEF mergeable, TypeInv, TypeOK
    <2>4. [p EXCEPT !.mutation = mutations[i]].mutation = mutations[i]
      BY Zenon, <2>3 DEF Parts, PartInfo
    <2>5. EntryLoaded(Entry("MUTATE_PART", [p EXCEPT !.mutation = mutations[i]], {p}), K)
      BY Zenon, <2>2, <2>4 DEF EntryLoaded, PartLoaded, Entry
    <2> QED BY Zenon, <2>1, <2>5, LoadedSelect
  <1>5. CASE SelectPartToDrop(w)
    <2>1. PICK p \in mergeable(r) : Select(w, Entry("DROP_PART", p, {}))
      BY Zenon, <1>5 DEF SelectPartToDrop
    <2>2. EntryLoaded(Entry("DROP_PART", p, {}), K)
      BY Zenon, <1>p DEF EntryLoaded, Entry
    <2> QED BY Zenon, <2>1, <2>2, LoadedSelect
  <1>6. CASE CreateLogEntry(w)
    <2>1. /\ log' = Append(log, pred[w].entry) /\ pred[w].stage = "selected"
          /\ pred' = [pred EXCEPT ![w] = NoPredicate]
          /\ UNCHANGED <<mutations, queues>>
      BY Zenon, <1>6 DEF CreateLogEntry, AppendToLog
    <2>2. EntryLoaded(pred[w].entry, K)
      BY Zenon, <2>1 DEF LoadedInv, PredLoaded
    <2>3. PredLoaded'
      BY Zenon, <1>0, <2>1 DEF LoadedInv, PredLoaded, NoPredicate
    <2> QED BY Zenon, <2>1, <2>2, <2>3, LoadedAppend DEF LoadedInv
  <1>7. CASE LogUpdated(w) \/ CannotSelect(w)
    <2>1. /\ \A v \in Assigners : pred'[v].stage = "selected" => pred'[v] = pred[v]
          /\ UNCHANGED <<log, mutations, log_pointer, virtual_parts, loaded, pull>>
      BY <1>0, <1>7 DEF LogUpdated, CannotSelect, NoPredicate, zk, queues
    <2>2. QueueLoaded(r)'
      BY <1>0, <2>1 DEF QueueLoaded, mergeable
    <2> QED BY <1>0, <2>1, <2>2, LoadedReplica
  <1> QED BY Zenon, <1>1, <1>2, <1>3, <1>4, <1>5, <1>6, <1>7 DEF Assigner

LEMMA LoadedStep == TypeInv /\ LoadedInv /\ [Next]_vars => LoadedInv'
  <1> SUFFICES ASSUME TypeInv, LoadedInv, [Next]_vars PROVE LoadedInv'
    OBVIOUS
  <1>1. CASE Next
    BY Zenon, <1>1, LoadedClients, LoadedReplicas, LoadedAssigner DEF Next
  <1>2. CASE UNCHANGED vars
    BY Zenon, <1>2, LoadedMutate DEF vars, zk
  <1> QED BY Zenon, <1>1, <1>2

LEMMA LoadedInit == Init => LoadedInv
  BY DEF Init, LoadedInv, LogLoaded, PredLoaded, QueueLoaded, NoPull, NoPredicate, mergeable

(* pullLogsToQueue lists the log before updateMutations lists /mutations:  *)
(* when a replica has a MUTATE_PART entry in its queue, it has loaded the  *)
(* mutation.                                                               *)
THEOREM MutationsAreLoadedInTime == Spec => []MutationLoadedBeforeEntry
  <1>1. LoadedInv => MutationLoadedBeforeEntry
    BY Zenon DEF LoadedInv, QueueLoaded, EntryLoaded, Known, MutationLoadedBeforeEntry
  <1> QED BY <1>1, LoadedInit, LoadedStep, TypeCorrect, PTL DEF Spec

-----------------------------------------------------------------------------
(* Block numbers and their owners.                                         *)
(* Nobody takes a number, and those who still hold one keep it locked.     *)
LEMMA OwnersStay ==
    ASSUME Owners, next_block' = next_block, locks' \subseteq locks, inserts' \subseteq inserts,
           \A i \in inserts' : i.number \notin Known(mutations', Len(mutations')),
           \A m \in Mutators : MHolds(m)' =>
               /\ MHolds(m) /\ mutator'[m].number = mutator[m].number
               /\ mutator[m].number \in locks'
           , \A d \in Droppers : DHolds(d)' =>
               /\ DHolds(d) /\ dropper'[d].number = dropper[d].number
               /\ dropper[d].number = 0 \/ dropper[d].number \in locks'
    PROVE  Owners'
  <1>1. Locked'
    BY Zenon DEF Owners, Locked
  <1>2. Apart'
    <2>1. InsertsApart'
      <3>1. ASSUME NEW i \in inserts', NEW m \in Mutators, MHolds(m)'
            PROVE  i.number # mutator'[m].number
        <4>1. i \in inserts /\ MHolds(m) /\ mutator'[m].number = mutator[m].number
          BY Zenon, <3>1
        <4>2. i.number # mutator[m].number
          BY Zenon, <4>1 DEF Owners, Apart, InsertsApart
        <4> QED BY Zenon, <4>1, <4>2
      <3>2. ASSUME NEW i \in inserts', NEW d \in Droppers, DHolds(d)'
            PROVE  i.number # dropper'[d].number
        <4>1. i \in inserts /\ DHolds(d) /\ dropper'[d].number = dropper[d].number
          BY Zenon, <3>2
        <4>2. i.number # dropper[d].number
          BY Zenon, <4>1 DEF Owners, Apart, InsertsApart
        <4> QED BY Zenon, <4>1, <4>2
      <3> QED BY Zenon, <3>1, <3>2 DEF InsertsApart
    <2>2. MutatorsApart'
      BY Zenon DEF Owners, Apart, MutatorsApart
    <2>3. DroppersApart'
      BY Zenon DEF Owners, Apart, DroppersApart
    <2> QED BY Zenon, <2>1, <2>2, <2>3 DEF Apart
  <1> QED BY Zenon, <1>1, <1>2 DEF Owners

(* A number that is handed out is nobody's yet.                            *)
LEMMA FreshNumber ==
    ASSUME TypeInv, OrderInv, Owners
    PROVE  /\ next_block \notin locks /\ next_block \in Nat /\ next_block < next_block + 1
           /\ next_block \notin Known(mutations, Len(mutations))
           /\ \A i \in inserts : i.number # next_block /\ i.number < next_block + 1
           /\ \A b \in locks : b < next_block + 1
           /\ \A m \in Mutators : MHolds(m) => mutator[m].number # next_block
           /\ \A d \in Droppers : DHolds(d) =>
                 dropper[d].number # next_block /\ dropper[d].number < next_block + 1
  <1>1. /\ next_block \in Nat /\ \A b \in locks : b \in Nat /\ b < next_block
        /\ \A i \in inserts : i.number \in Nat /\ i.number < next_block
        /\ mutations \in Seq(Nat)
    BY Zenon DEF TypeInv, TypeOK, Owners, Locked
  <1>2. /\ next_block \notin locks /\ \A b \in locks : b < next_block + 1
        /\ \A i \in inserts : i.number # next_block /\ i.number < next_block + 1
    BY <1>1
  <1>3. \A i \in 1 .. Len(mutations) : mutations[i] # next_block
    BY <1>1 DEF OrderInv
  <1>4. \A d \in Droppers : DHolds(d) =>
            dropper[d].number \in Nat /\ dropper[d].number < next_block
    BY Zenon DEF TypeInv, TypeOK, Owners, Locked
  <1>5. \A d \in Droppers : DHolds(d) =>
            dropper[d].number # next_block /\ dropper[d].number < next_block + 1
    BY <1>1, <1>4
  <1>6. next_block < next_block + 1
    BY <1>1
  <1> QED BY Zenon, <1>1, <1>2, <1>3, <1>5, <1>6 DEF Known, Owners, Locked

LEMMA OwnersInsert ==
    ASSUME TypeInv, OrderInv, Owners, Insert PROVE Owners'
  <1>0. UNCHANGED <<mutations, mutator, dropper>>
    BY Zenon DEF Insert, InsertLock, InsertCommit, InsertCancelled, InsertAbort, zk
  <1>1. \A m \in Mutators : MHolds(m)' <=> MHolds(m)
    BY Zenon, <1>0 DEF MHolds
  <1>2. \A d \in Droppers : DHolds(d)' <=> DHolds(d)
    BY Zenon, <1>0 DEF DHolds
  <1>3. ASSUME NEW content \in LockContents, InsertLock(content) PROVE Owners'
    <2>1. /\ next_block < MaxBlocks /\ next_block' = next_block + 1
          /\ locks' = locks \cup {next_block}
          /\ inserts' = inserts \cup {[number |-> next_block, content |-> content]}
      BY Zenon, <1>3 DEF InsertLock, allocateBlockNumber
    <2>2. next_block' <= MaxBlocks
      BY <2>1, FreshNumber, ConstantsAssumption
    <2>3. \A i \in inserts' : i \in inserts \/ i.number = next_block
      BY <2>1
    <2>4. Locked'
      BY Zenon, <1>0, <1>1, <1>2, <2>1, <2>2, <2>3, FreshNumber DEF Owners, Locked
    <2>5. Apart'
      <3>1. InsertsApart'
        BY Zenon, <1>0, <1>1, <1>2, <2>3, FreshNumber DEF Owners, Apart, InsertsApart
      <3>2. MutatorsApart' /\ DroppersApart'
        BY Zenon, <1>0, <1>1, <1>2 DEF Owners, Apart, MutatorsApart, DroppersApart
      <3> QED BY Zenon, <3>1, <3>2 DEF Apart
    <2> QED BY Zenon, <2>4, <2>5 DEF Owners
  <1>4. ASSUME NEW i \in inserts, InsertCommit(i) \/ InsertCancelled(i) \/ InsertAbort(i)
        PROVE  Owners'
    <2>1. /\ next_block' = next_block /\ inserts' \subseteq inserts
          /\ locks' = locks \/ locks' = locks \ {i.number}
      BY Zenon, <1>4 DEF InsertCommit, InsertCancelled, InsertAbort, zk
    <2>2. \A m \in Mutators : MHolds(m) => mutator[m].number \in locks'
      BY Zenon, <2>1 DEF Owners, Locked, Apart, InsertsApart, MutatorsApart, DroppersApart
    <2>3. \A d \in Droppers : DHolds(d) => dropper[d].number = 0 \/ dropper[d].number \in locks'
      BY Zenon, <2>1 DEF Owners, Locked, Apart, InsertsApart, MutatorsApart, DroppersApart
    <2>4. \A j \in inserts' : j.number \notin Known(mutations', Len(mutations'))
      BY Zenon, <1>0, <2>1 DEF Owners, Apart, InsertsApart
    <2> QED BY Zenon, <1>0, <1>1, <1>2, <2>1, <2>2, <2>3, <2>4, OwnersStay
  <1> QED BY Zenon, <1>3, <1>4 DEF Insert

LEMMA OwnersMutate ==
    ASSUME TypeInv, OrderInv, Owners, NEW m \in Mutators, Mutate(m) PROVE Owners'
  <1>0. /\ mutator \in [Mutators -> [pc : MutatorSteps, seen : Nat, number : Nat]]
        /\ mutations \in Seq(Nat)
    BY Zenon DEF TypeInv, TypeOK
  <1>1. UNCHANGED <<inserts, dropper>> /\ \A n \in Mutators \ {m} : mutator'[n] = mutator[n]
    BY Zenon, <1>0 DEF Mutate, MutateReadVersion, MutateAllocate, MutateCommit,
       MutateConflict, MutateUnlock
  <1>2. \A d \in Droppers : DHolds(d)' <=> DHolds(d)
    BY Zenon, <1>1 DEF DHolds
  <1>3. \A n \in Mutators \ {m} : MHolds(n)' <=> MHolds(n)
    BY Zenon, <1>1 DEF MHolds
  <1>4. CASE MutateAllocate(m)
    <2>1. /\ next_block < MaxBlocks /\ next_block' = next_block + 1
          /\ locks' = locks \cup {next_block} /\ mutations' = mutations
          /\ mutator'[m].number = next_block
      BY Zenon, <1>0, <1>4 DEF MutateAllocate, allocateBlockNumber
    <2>2. next_block' <= MaxBlocks
      BY <2>1, FreshNumber, ConstantsAssumption
    <2>3. Locked'
      BY Zenon, <1>1, <1>2, <1>3, <2>1, <2>2, FreshNumber DEF Owners, Locked
    <2>4. \A n \in Mutators : MHolds(n)' =>
             \/ n = m /\ mutator'[n].number = next_block
             \/ n # m /\ MHolds(n) /\ mutator'[n].number = mutator[n].number
      BY Zenon, <1>1, <1>3, <2>1
    <2>5. Apart'
      <3>1. InsertsApart'
        <4>1. \A i \in inserts : /\ i.number # next_block
                                 /\ i.number \notin Known(mutations, Len(mutations))
          BY Zenon, FreshNumber DEF Owners, Apart, InsertsApart
        <4>2. ASSUME NEW i \in inserts, NEW n \in Mutators, MHolds(n)'
              PROVE  i.number # mutator'[n].number
          BY Zenon, <2>4, <4>1, <4>2 DEF Owners, Apart, InsertsApart
        <4>3. ASSUME NEW i \in inserts, NEW d \in Droppers, DHolds(d)'
              PROVE  i.number # dropper'[d].number
          BY Zenon, <1>1, <1>2, <4>3 DEF Owners, Apart, InsertsApart
        <4> QED BY Zenon, <1>1, <2>1, <4>1, <4>2, <4>3 DEF InsertsApart
      <3>2. MutatorsApart'
        BY Zenon, <1>1, <1>2, <2>4, FreshNumber DEF Owners, Apart, MutatorsApart
      <3>3. DroppersApart'
        BY Zenon, <1>1, <1>2 DEF Owners, Apart, DroppersApart
      <3> QED BY Zenon, <3>1, <3>2, <3>3 DEF Apart
    <2> QED BY Zenon, <2>3, <2>5 DEF Owners
  <1>5. CASE MutateReadVersion(m) \/ MutateConflict(m) \/ MutateCommit(m)
    <2>1. /\ next_block' = next_block /\ locks' = locks
          /\ MHolds(m)' => MHolds(m) /\ mutator'[m].number = mutator[m].number
      <3>1. CASE MutateReadVersion(m)
        BY <1>0, <3>1 DEF MutateReadVersion, MHolds, zk
      <3>2. CASE MutateConflict(m)
        BY Zenon, <1>0, <3>2 DEF MutateConflict, MHolds, zk
      <3>3. CASE MutateCommit(m)
        BY Zenon, <1>0, <3>3 DEF MutateCommit, MHolds
      <3> QED BY Zenon, <1>5, <3>1, <3>2, <3>3
    <2>2. \A i \in inserts' : i.number \notin Known(mutations', Len(mutations'))
      <3>1. CASE mutations' = mutations
        BY Zenon, <1>1, <3>1 DEF Owners, Apart, InsertsApart
      <3>2. CASE mutations' = Append(mutations, mutator[m].number) /\ MHolds(m)
        <4>1. \A v \in Known(mutations', Len(mutations')) :
                 v \in Known(mutations, Len(mutations)) \/ v = mutator[m].number
          BY <1>0, <3>2 DEF Known
        <4> QED BY Zenon, <1>1, <3>2, <4>1 DEF Owners, Apart, InsertsApart
      <3> QED BY Zenon, <1>5, <3>1, <3>2
          DEF MutateReadVersion, MutateConflict, MutateCommit, MHolds, zk
    <2>3. \A n \in Mutators : MHolds(n)' =>
               /\ MHolds(n) /\ mutator'[n].number = mutator[n].number
               /\ mutator[n].number \in locks'
      BY Zenon, <1>1, <1>3, <2>1 DEF Owners, Locked
    <2> QED BY Zenon, <1>1, <1>2, <2>1, <2>2, <2>3, OwnersStay DEF Owners, Locked
  <1>6. CASE MutateUnlock(m)
    <2>1. /\ next_block' = next_block /\ locks' = locks \ {mutator[m].number}
          /\ mutations' = mutations /\ MHolds(m) /\ ~MHolds(m)'
      BY <1>0, <1>6 DEF MutateUnlock, NoMutation, MHolds
    <2>2. \A n \in Mutators : MHolds(n)' =>
               /\ MHolds(n) /\ mutator'[n].number = mutator[n].number
               /\ mutator[n].number \in locks'
      BY Zenon, <1>1, <1>3, <2>1 DEF Owners, Locked, Apart, InsertsApart, MutatorsApart, DroppersApart
    <2>3. \A d \in Droppers : DHolds(d)' =>
               /\ DHolds(d) /\ dropper'[d].number = dropper[d].number
               /\ dropper[d].number = 0 \/ dropper[d].number \in locks'
      BY Zenon, <1>1, <1>2, <2>1 DEF Owners, Locked, Apart, InsertsApart, MutatorsApart, DroppersApart
    <2>4. \A i \in inserts' : i.number \notin Known(mutations', Len(mutations'))
      BY Zenon, <1>1, <2>1 DEF Owners, Apart, InsertsApart
    <2> QED BY Zenon, <1>1, <2>1, <2>2, <2>3, <2>4, OwnersStay
  <1> QED BY Zenon, <1>4, <1>5, <1>6 DEF Mutate

LEMMA OwnersDrop ==
    ASSUME TypeInv, OrderInv, Owners, NEW d \in Droppers, DropPartition(d) PROVE Owners'
  <1>0. dropper \in [Droppers -> [pc : DropperSteps, seen : Nat, number : Nat]]
    BY Zenon DEF TypeInv, TypeOK
  <1>1. /\ UNCHANGED <<inserts, mutator, mutations>>
        /\ \A c \in Droppers \ {d} : dropper'[c] = dropper[c]
    BY Zenon, <1>0 DEF DropPartition, DropReadVersion, DropAllocate, DropEmpty,
       DropCancelInsert, DropCleared, DropCommit, DropConflict, zk, clients
  <1>2. \A m \in Mutators : MHolds(m)' <=> MHolds(m)
    BY Zenon, <1>1 DEF MHolds
  <1>3. \A c \in Droppers \ {d} : DHolds(c)' <=> DHolds(c)
    BY Zenon, <1>1 DEF DHolds
  <1>4. \A i \in inserts' : i.number \notin Known(mutations', Len(mutations'))
    BY Zenon, <1>1 DEF Owners, Apart, InsertsApart
  <1>5. CASE DropAllocate(d)
    <2>1. /\ next_block < MaxBlocks /\ next_block' = next_block + 1
          /\ locks' = locks \cup {next_block} /\ dropper'[d].number = next_block
      BY Zenon, <1>0, <1>5 DEF DropAllocate, allocateBlockNumber
    <2>2. next_block' <= MaxBlocks
      BY <2>1, FreshNumber, ConstantsAssumption
    <2>3. Locked'
      BY Zenon, <1>1, <1>2, <1>3, <2>1, <2>2, FreshNumber DEF Owners, Locked
    <2>4. \A c \in Droppers : DHolds(c)' =>
             \/ c = d /\ dropper'[c].number = next_block
             \/ c # d /\ DHolds(c) /\ dropper'[c].number = dropper[c].number
      BY Zenon, <1>1, <1>3, <2>1
    <2>5. Apart'
      <3>1. InsertsApart'
        <4>1. \A i \in inserts : i.number # next_block
          BY Zenon, FreshNumber
        <4>2. ASSUME NEW i \in inserts, NEW c \in Droppers, DHolds(c)'
              PROVE  i.number # dropper'[c].number
          BY Zenon, <2>4, <4>1, <4>2 DEF Owners, Apart, InsertsApart
        <4>3. ASSUME NEW i \in inserts, NEW m \in Mutators, MHolds(m)'
              PROVE  i.number # mutator'[m].number
          BY Zenon, <1>1, <1>2, <4>3 DEF Owners, Apart, InsertsApart
        <4> QED BY Zenon, <1>1, <1>4, <4>2, <4>3 DEF InsertsApart
      <3>2. MutatorsApart'
        BY Zenon, <1>1, <1>2, <2>4, FreshNumber DEF Owners, Apart, MutatorsApart
      <3>3. DroppersApart'
        BY Zenon, <1>1, <2>4, FreshNumber DEF Owners, Apart, DroppersApart
      <3> QED BY Zenon, <3>1, <3>2, <3>3 DEF Apart
    <2> QED BY Zenon, <2>3, <2>5 DEF Owners
  <1>6. CASE DropReadVersion(d) \/ DropCleared(d)
    <2>1. /\ next_block' = next_block /\ locks' = locks
          /\ DHolds(d)' => DHolds(d) /\ dropper'[d].number = dropper[d].number
      <3>1. CASE DropReadVersion(d)
        BY <1>0, <3>1 DEF DropReadVersion, DHolds, zk
      <3>2. CASE DropCleared(d)
        BY Zenon, <1>0, <3>2 DEF DropCleared, DHolds, zk
      <3> QED BY Zenon, <1>6, <3>1, <3>2
    <2>2. \A c \in Droppers : DHolds(c)' =>
               /\ DHolds(c) /\ dropper'[c].number = dropper[c].number
               /\ dropper[c].number = 0 \/ dropper[c].number \in locks'
      BY Zenon, <1>1, <1>3, <2>1 DEF Owners, Locked
    <2> QED BY Zenon, <1>1, <1>2, <1>4, <2>1, <2>2, OwnersStay DEF Owners, Locked
  <1>7. CASE DropCancelInsert(d)
    <2>1. PICK i \in inserts : locks' = locks \ {i.number}
      BY Zenon, <1>7 DEF DropCancelInsert, cancellable
    <2>2. next_block' = next_block /\ dropper' = dropper /\ locks' \subseteq locks
      BY Zenon, <1>7, <2>1 DEF DropCancelInsert, clients
    <2>3. \A c \in Droppers : DHolds(c)' =>
               /\ DHolds(c) /\ dropper'[c].number = dropper[c].number
               /\ dropper[c].number = 0 \/ dropper[c].number \in locks'
      BY Zenon, <2>1, <2>2 DEF Owners, Locked, Apart, DHolds, InsertsApart, MutatorsApart, DroppersApart
    <2>4. \A m \in Mutators : MHolds(m) => mutator[m].number \in locks'
      BY Zenon, <2>1 DEF Owners, Locked, Apart, InsertsApart, MutatorsApart, DroppersApart
    <2> QED BY Zenon, <1>1, <1>2, <1>4, <2>2, <2>3, <2>4, OwnersStay
  <1>8. CASE DropEmpty(d) \/ DropCommit(d) \/ DropConflict(d)
    <2>1. /\ next_block' = next_block /\ locks' = locks \ {dropper[d].number} /\ DHolds(d)
          /\ DHolds(d)' => dropper'[d].number = 0 /\ dropper[d].number = 0
      <3>1. CASE DropEmpty(d)
        BY Zenon, <1>0, <3>1 DEF DropEmpty, DHolds
      <3>2. CASE DropCommit(d)
        BY <1>0, <3>2 DEF DropCommit, NoDrop, DHolds
      <3>3. CASE DropConflict(d)
        BY <1>0, <3>3 DEF DropConflict, NoDrop, DHolds
      <3> QED BY Zenon, <1>8, <3>1, <3>2, <3>3
    <2>2. \A c \in Droppers : DHolds(c)' =>
               /\ DHolds(c) /\ dropper'[c].number = dropper[c].number
               /\ dropper[c].number = 0 \/ dropper[c].number \in locks'
      BY Zenon, <1>1, <1>3, <2>1 DEF Owners, Locked, Apart, InsertsApart, MutatorsApart, DroppersApart
    <2>3. \A m \in Mutators : MHolds(m) => mutator[m].number \in locks'
      BY Zenon, <2>1 DEF Owners, Locked, Apart, InsertsApart, MutatorsApart, DroppersApart
    <2> QED BY Zenon, <1>1, <1>2, <1>4, <2>1, <2>2, <2>3, OwnersStay
  <1> QED BY Zenon, <1>5, <1>6, <1>7, <1>8 DEF DropPartition

LEMMA OwnersStep == TypeInv /\ OrderInv /\ Owners /\ [Next]_vars => Owners'
  <1> SUFFICES ASSUME TypeInv, OrderInv, Owners, [Next]_vars PROVE Owners'
    BY Zenon
  <1>1. CASE UNCHANGED <<next_block, locks, inserts, mutations, mutator, dropper>>
    <2>1. \A m \in Mutators : MHolds(m)' <=> MHolds(m)
      BY Zenon, <1>1 DEF MHolds
    <2>2. \A d \in Droppers : DHolds(d)' <=> DHolds(d)
      BY Zenon, <1>1 DEF DHolds
    <2> QED BY Zenon, <1>1, <2>1, <2>2, OwnersStay DEF Owners, Locked, Apart, InsertsApart
  <1>2. ASSUME NEW r \in Replicas, Replica(r) PROVE Owners'
    BY Zenon, <1>1, <1>2 DEF Replica, PullStep, queueUpdatingTask, PullListLog,
       PullUpdateMutations, PullCopyEntry, PullDone, mutationsUpdatingTask, ExecuteDropRange,
       zk, clients
  <1>3. ASSUME NEW w \in Assigners, Assigner(w) PROVE Owners'
    BY Zenon, <1>1, <1>3 DEF Assigner, PredCopyParts, getCommittingBlocks, PredPullLogs,
       SelectPartsToMerge, SelectPartToMutate, SelectPartToDrop, Select, CreateLogEntry,
       LogUpdated, CannotSelect, zk, clients
  <1>4. CASE UNCHANGED vars
    BY Zenon, <1>1, <1>4 DEF vars, zk, clients
  <1> QED BY Zenon, <1>2, <1>3, <1>4, OwnersInsert, OwnersMutate, OwnersDrop DEF Next

LEMMA OwnersInit == Init => Owners
  BY ConstantsAssumption DEF Init, Owners, Locked, Apart, InsertsApart, MutatorsApart,
     DroppersApart, MHolds, DHolds, NoMutation, NoDrop


-----------------------------------------------------------------------------
LEMMA EndsAppend ==
    ASSUME NEW L \in Seq(LogEntries), NEW e
    PROVE  Ends(Append(L, e)) =
               Ends(L) \cup (IF e.type = "DROP_RANGE" THEN {e.new_part.max_block} ELSE {})
  <1> DEFINE n == Len(L)
             M == Append(L, e)
  <1>1. /\ n \in Nat /\ Len(M) = n + 1 /\ M[n + 1] = e /\ n + 1 \in 1 .. n + 1
        /\ \A k \in 1 .. n : M[k] = L[k] /\ k \in 1 .. n + 1
        /\ \A k \in 1 .. n + 1 : k \in 1 .. n \/ k = n + 1
    OBVIOUS
  <1> HIDE DEF n, M
  <1>2. ASSUME NEW x \in Ends(M)
        PROVE  x \in Ends(L) \/ (e.type = "DROP_RANGE" /\ x = e.new_part.max_block)
    BY Zenon, <1>1 DEF Ends, n
  <1>3. Ends(L) \subseteq Ends(M)
    BY Zenon, <1>1 DEF Ends, n
  <1>4. e.type = "DROP_RANGE" => e.new_part.max_block \in Ends(M)
    BY Zenon, <1>1 DEF Ends, n
  <1> QED BY Zenon, <1>2, <1>3, <1>4 DEF M

(* No insert gets a lock, and no drop moves on.                            *)
LEMMA DropsStay ==
    ASSUME TypeInv, DropsInv, UNCHANGED <<dropper, alter_partition_version>>,
           Ends(log') = Ends(log), inserts' \subseteq inserts,
           \A i \in inserts' : Pending(i)' => Pending(i),
           next_block' \in {next_block, next_block + 1}
    PROVE  DropsInv'
  <1>1. \A x \in Ends(log) : x + 1 < next_block'
    <2>1. next_block \in Nat
      BY Zenon DEF TypeInv, TypeOK
    <2> QED BY <2>1 DEF DropsInv
  <1>2. ASSUME NEW d \in Droppers PROVE DropperOK(d)'
    <2>1. DropperOK(d) /\ (DHolds(d)' <=> DHolds(d))
      BY Zenon DEF DropsInv, DHolds
    <2> QED BY Zenon, <2>1 DEF DropperOK
  <1> QED BY Zenon, <1>1, <1>2 DEF DropsInv

LEMMA DropsInsert ==
    ASSUME LockContents \subseteq {"insert"}, TypeInv, Owners, DropsInv, Insert
    PROVE  DropsInv'
  <1>0. log \in Seq(LogEntries) /\ next_block \in Nat
    BY Zenon DEF TypeInv, TypeOK
  <1>1. ASSUME NEW content \in LockContents, InsertLock(content) PROVE DropsInv'
    <2> DEFINE j == [number |-> next_block, content |-> content]
    <2>1. /\ next_block' = next_block + 1 /\ locks' = locks \cup {next_block}
          /\ inserts' = inserts \cup {j} /\ UNCHANGED <<log, dropper, alter_partition_version>>
      BY Zenon, <1>1 DEF InsertLock, allocateBlockNumber
    <2>2. j.number = next_block /\ j.content = "insert"
      OBVIOUS
    <2>3. \A i \in inserts : Pending(i)' => Pending(i)
      <3>1. \A i \in inserts : i.number # next_block
        BY <1>0 DEF Owners, Locked, TypeInv, TypeOK
      <3> QED BY Zenon, <2>1, <3>1 DEF Pending
    <2>4. ASSUME NEW x \in Ends(log) PROVE x \in Nat /\ x + 1 < next_block' /\ x < j.number
      BY <1>0, <2>1, <2>2 DEF DropsInv
    <2>5. ASSUME NEW d \in Droppers PROVE DropperOK(d)'
      <3>1. DropperOK(d) /\ (DHolds(d)' <=> DHolds(d)) /\ dropper' = dropper
        BY Zenon, <2>1 DEF DropsInv, DHolds
      <3>2. dropper[d].pc = "commit" => dropper[d].number <= j.number
        <4>1. dropper[d].pc = "commit" => dropper[d].number < next_block
          BY Zenon DEF Owners, Locked, DHolds
        <4>2. dropper[d].number \in Nat
          BY Zenon DEF TypeInv, TypeOK
        <4> QED BY <1>0, <2>2, <4>1, <4>2
      <3> HIDE DEF j
      <3> QED BY Zenon, <2>1, <2>3, <3>1, <3>2 DEF DropperOK
    <2> HIDE DEF j
    <2> QED BY Zenon, <2>1, <2>2, <2>3, <2>4, <2>5 DEF DropsInv
  <1>2. ASSUME NEW i \in inserts, InsertCommit(i) \/ InsertCancelled(i) \/ InsertAbort(i)
        PROVE  DropsInv'
    <2>1. /\ next_block' = next_block /\ inserts' \subseteq inserts /\ locks' \subseteq locks
          /\ UNCHANGED <<dropper, alter_partition_version>>
          /\ \/ log' = log
             \/ log' = Append(log, Entry("GET_PART", Part(Partition, i.number, i.number, 0, 0), {}))
      BY Zenon, <1>2 DEF InsertCommit, InsertCancelled, InsertAbort, AppendToLog, zk
    <2>2. Ends(log') = Ends(log)
      <3>1. Entry("GET_PART", Part(Partition, i.number, i.number, 0, 0), {}).type # "DROP_RANGE"
        BY DEF Entry
      <3> QED BY Zenon, <1>0, <2>1, <3>1, EndsAppend
    <2> QED BY Zenon, <2>1, <2>2, DropsStay DEF Pending
  <1> QED BY Zenon, <1>1, <1>2 DEF Insert

LEMMA DropsDrop ==
    ASSUME TypeInv, Owners, DropsInv, NEW d \in Droppers, DropPartition(d)
    PROVE  DropsInv'
  <1>0. /\ dropper \in [Droppers -> [pc : DropperSteps, seen : Nat, number : Nat]]
        /\ log \in Seq(LogEntries) /\ next_block \in Nat /\ alter_partition_version \in Nat
        /\ dropper[d].number \in Nat /\ \A i \in inserts : i.number \in Nat
    BY Zenon DEF TypeInv, TypeOK
  <1>1. /\ inserts' = inserts /\ \A c \in Droppers \ {d} : dropper'[c] = dropper[c]
        /\ next_block' \in {next_block, next_block + 1}
        /\ locks' \subseteq locks \cup {next_block}
    BY Zenon, <1>0 DEF DropPartition, DropReadVersion, DropAllocate, DropEmpty,
       DropCancelInsert, DropCleared, DropCommit, DropConflict, zk, clients, allocateBlockNumber
  <1>2. \A i \in inserts' : Pending(i)' => Pending(i)
    <2>1. \A i \in inserts : i.number # next_block
      BY <1>0 DEF Owners, Locked
    <2> QED BY Zenon, <1>1, <2>1 DEF Pending
  <1>3. DropperOK(d) /\ \A x \in Ends(log) : x \in Nat /\ x + 1 < next_block /\ x + 1 < next_block'
    BY <1>0, <1>1 DEF DropsInv
  <1>4. CASE UNCHANGED <<log, alter_partition_version>> /\ DropperOK(d)'
    <2>1. ASSUME NEW c \in Droppers, c # d PROVE DropperOK(c)'
      <3>1. DropperOK(c) /\ dropper'[c] = dropper[c] /\ (DHolds(c)' <=> DHolds(c))
        BY Zenon, <1>1, <2>1 DEF DropsInv, DHolds
      <3> QED BY Zenon, <1>1, <1>2, <1>4, <3>1 DEF DropperOK
    <2>2. \A c \in Droppers : DropperOK(c)'
      BY Zenon, <1>4, <2>1
    <2> QED BY Zenon, <1>1, <1>2, <1>3, <1>4, <2>2 DEF DropsInv
  <1>5. CASE DropReadVersion(d) \/ DropConflict(d)
    <2>1. /\ dropper'[d].pc \in {"allocate", "start"} /\ UNCHANGED <<log, alter_partition_version>>
          /\ dropper'[d].pc = "allocate" => dropper'[d].seen = alter_partition_version
      BY <1>0, <1>5 DEF DropReadVersion, DropConflict, NoDrop, zk
    <2>2. alter_partition_version <= alter_partition_version
      BY <1>0
    <2>3. DropperOK(d)'
      BY <2>1, <2>2 DEF DropperOK, DHolds
    <2> QED BY Zenon, <1>4, <2>1, <2>3
  <1>6. CASE DropAllocate(d)
    <2>1. /\ dropper'[d].pc = "clear" /\ dropper'[d].number = next_block
          /\ dropper'[d].seen = dropper[d].seen /\ dropper[d].pc = "allocate"
          /\ UNCHANGED <<log, alter_partition_version>>
      BY Zenon, <1>0, <1>6 DEF DropAllocate
    <2>2. dropper'[d].seen <= alter_partition_version /\ dropper'[d].pc # "commit"
      BY <1>3, <2>1 DEF DropperOK
    <2>3. DropperOK(d)'
      BY Zenon, <1>3, <2>1, <2>2 DEF DropperOK
    <2> QED BY Zenon, <1>4, <2>1, <2>3
  <1>7. CASE DropEmpty(d) \/ DropCancelInsert(d) \/ DropCleared(d)
    <2>1. /\ dropper'[d].number = dropper[d].number /\ dropper'[d].seen = dropper[d].seen
          /\ dropper[d].pc = "clear" /\ UNCHANGED <<log, alter_partition_version>>
      <3>1. CASE DropEmpty(d)
        BY Zenon, <1>0, <3>1 DEF DropEmpty
      <3>2. CASE DropCancelInsert(d)
        BY Zenon, <3>2 DEF DropCancelInsert, clients
      <3>3. CASE DropCleared(d)
        BY Zenon, <1>0, <3>3 DEF DropCleared, zk
      <3> QED BY Zenon, <1>7, <3>1, <3>2, <3>3
    <2>2. ASSUME dropper'[d].pc = "commit", NEW i \in inserts, Pending(i)
          PROVE  dropper[d].number <= i.number
      <3>1. CASE DropEmpty(d)
        <4>1. dropper[d].number = 0
          BY Zenon, <3>1 DEF DropEmpty
        <4> QED BY <1>0, <4>1
      <3>2. CASE DropCancelInsert(d)
        <4>1. dropper' = dropper
          BY Zenon, <3>2 DEF DropCancelInsert, clients
        <4> QED BY <2>1, <2>2, <4>1
      <3>3. CASE DropCleared(d)
        <4>1. ~(i.number < dropper[d].number)
          BY Zenon, <2>2, <3>3 DEF DropCleared, cancellable, Pending, DropsInv
        <4> QED BY <1>0, <4>1
      <3> QED BY Zenon, <1>7, <3>1, <3>2, <3>3
    <2>3. dropper[d].seen <= alter_partition_version /\ DHolds(d)
      BY <1>3, <2>1 DEF DropperOK, DHolds
    <2>4. DropperOK(d)'
      BY Zenon, <1>1, <1>2, <1>3, <2>1, <2>2, <2>3 DEF DropperOK
    <2> QED BY Zenon, <1>4, <2>1, <2>4
  <1>8. CASE DropCommit(d)
    <2> DEFINE n == dropper[d].number
    <2>1. /\ dropper[d].pc = "commit" /\ dropper'[d].pc = "done"
          /\ alter_partition_version' = alter_partition_version + 1 /\ next_block' = next_block
          /\ \/ n = 0 /\ log' = log
             \/ n # 0 /\ log' = Append(log, Entry("DROP_RANGE", DropRangePart(n), {}))
      BY Zenon, <1>0, <1>8 DEF DropCommit, AppendToLog, NoDrop
    <2>2. \A x \in Ends(log') : x \in Ends(log) \/ (n # 0 /\ x = n - 1)
      <3>1. Entry("DROP_RANGE", DropRangePart(n), {}).new_part.max_block = n - 1
        BY Zenon DEF Entry, DropRangePart, Part
      <3> HIDE DEF n
      <3> QED BY Zenon, <1>0, <2>1, <3>1, EndsAppend
    <2>3. n < next_block /\ \A i \in inserts : Pending(i) => n <= i.number
      BY Zenon, <1>3, <2>1 DEF Owners, Locked, DHolds, DropperOK
    <2>4. n # 0 => n - 1 \in Nat /\ n - 1 + 1 < next_block /\ \A i \in inserts : n <= i.number => n - 1 < i.number
      BY <1>0, <2>3
    <2>5. ASSUME NEW c \in Droppers PROVE DropperOK(c)'
      <3>1. CASE c = d
        BY <2>1, <3>1 DEF DropperOK, DHolds
      <3>2. CASE c # d
        <4>1. DropperOK(c) /\ dropper'[c] = dropper[c] /\ (DHolds(c)' <=> DHolds(c))
          BY Zenon, <1>1, <3>2 DEF DropsInv, DHolds
        <4>2. dropper[c].seen \in Nat
          BY Zenon, <1>0
        <4>3. DHolds(c) => dropper[c].pc \in {"allocate", "clear", "commit"}
          BY Zenon DEF DHolds
        <4>4. /\ dropper[c].seen <= alter_partition_version =>
                     /\ dropper[c].seen <= alter_partition_version'
                     /\ dropper[c].seen # alter_partition_version'
          BY <1>0, <2>1, <4>2
        <4> QED BY Zenon, <1>1, <1>2, <4>1, <4>3, <4>4 DEF DropperOK
      <3> QED BY Zenon, <3>1, <3>2
    <2>6. \A x \in Ends(log') : x \in Nat /\ x + 1 < next_block'
      BY Zenon, <1>3, <2>1, <2>2, <2>4
    <2>7. \A x \in Ends(log'), i \in inserts : Pending(i) => x < i.number
      BY Zenon, <2>2, <2>3, <2>4 DEF DropsInv
    <2> QED BY Zenon, <1>1, <1>2, <2>5, <2>6, <2>7 DEF DropsInv
  <1> QED BY Zenon, <1>5, <1>6, <1>7, <1>8 DEF DropPartition

LEMMA DropsStep ==
    ASSUME LockContents \subseteq {"insert"},
           TypeInv, OrderInv, Owners, NoRangeChosen, DropsInv, [Next]_vars
    PROVE  DropsInv'
  <1>0. /\ log \in Seq(LogEntries) /\ next_block \in Nat
        /\ \A i \in inserts : i.number # next_block
    <2>1. log \in Seq(LogEntries) /\ next_block \in Nat
      BY Zenon DEF TypeInv, TypeOK
    <2> QED BY Zenon, <2>1, FreshNumber
  <1>1. CASE /\ UNCHANGED <<log, inserts, dropper, alter_partition_version>>
             /\ \/ UNCHANGED next_block /\ locks' \subseteq locks
                \/ next_block' = next_block + 1 /\ locks' \subseteq locks \cup {next_block}
    <2>1. \A i \in inserts' : Pending(i)' => Pending(i)
      BY Zenon, <1>0, <1>1 DEF Pending
    <2> QED BY Zenon, <1>1, <2>1, DropsStay
  <1>2. ASSUME NEW m \in Mutators, Mutate(m) PROVE DropsInv'
    BY Zenon, <1>1, <1>2 DEF Mutate, MutateReadVersion, MutateAllocate, MutateCommit,
       MutateConflict, MutateUnlock, allocateBlockNumber, zk
  <1>3. ASSUME NEW r \in Replicas, Replica(r) PROVE DropsInv'
    BY Zenon, <1>1, <1>3 DEF Replica, PullStep, queueUpdatingTask, PullListLog,
       PullUpdateMutations, PullCopyEntry, PullDone, mutationsUpdatingTask, ExecuteDropRange,
       zk, clients
  <1>4. ASSUME NEW w \in Assigners, Assigner(w) PROVE DropsInv'
    <2>1. CASE CreateLogEntry(w)
      <3>1. /\ log' = Append(log, pred[w].entry) /\ pred[w].stage = "selected"
            /\ UNCHANGED <<next_block, locks, inserts, dropper, alter_partition_version>>
        BY Zenon, <2>1 DEF CreateLogEntry, AppendToLog, clients
      <3>2. Ends(log') = Ends(log)
        BY Zenon, <1>0, <3>1, EndsAppend DEF NoRangeChosen
      <3> QED BY Zenon, <3>1, <3>2, DropsStay DEF Pending
    <2> QED BY Zenon, <1>1, <1>4, <2>1 DEF Assigner, PredCopyParts, getCommittingBlocks, PredPullLogs,
       SelectPartsToMerge, SelectPartToMutate, SelectPartToDrop, Select,
       LogUpdated, CannotSelect, zk, clients
  <1>5. CASE UNCHANGED vars
    BY Zenon, <1>1, <1>5 DEF vars, zk, clients
  <1> QED BY Zenon, <1>2, <1>3, <1>4, <1>5, DropsInsert, DropsDrop DEF Next

LEMMA DropsInit == Init => DropsInv
  <1> SUFFICES ASSUME Init PROVE DropsInv
    OBVIOUS
  <1>1. inserts = {} /\ log = <<>>
    BY Zenon DEF Init
  <1>2. Ends(log) = {}
    BY <1>1 DEF Ends
  <1>3. \A d \in Droppers : dropper[d].pc = "start"
    BY DEF Init, NoDrop
  <1> QED BY <1>1, <1>2, <1>3 DEF DropsInv, DropperOK, DHolds
==============================================================================
