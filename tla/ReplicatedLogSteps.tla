-------------------------- MODULE ReplicatedLogSteps --------------------------
(***************************************************************************)
(* Every step of MergeAssignment keeps the log what the inductive          *)
(* invariants LogInv and AgreeInv of MergeAssignmentInvariant say it is.   *)
(***************************************************************************)
EXTENDS ReplicatedLogProofs

-----------------------------------------------------------------------------
LEMMA LogLength == \A L \in Seq(LogEntries) : Len(L) \in Nat
  OBVIOUS

LEMMA BaseFacts ==
    ASSUME Base
    PROVE  /\ TypeInv /\ log \in Seq(LogEntries) /\ Len(log) \in Nat /\ locks \subseteq Nat
           /\ \A r \in Replicas : /\ log_pointer[r] \in 0 .. Len(log)
                                  /\ virtual_parts[r] \in SUBSET Parts
           /\ \A i \in 1 .. Len(log) : /\ log[i].new_part \in Parts
                                       /\ SafeEntry(log[i], next_block, locks)
  <1>1. TypeInv /\ log \in Seq(LogEntries) /\ Len(log) \in Nat
    BY Zenon, LogLength DEF Base, IInv, TypeInv, TypeOK
  <1>2. /\ locks \subseteq Nat
        /\ \A r \in Replicas : log_pointer[r] \in Nat /\ virtual_parts[r] \in SUBSET Parts
    BY Zenon, <1>1 DEF TypeInv, TypeOK
  <1>3. \A r \in Replicas : log_pointer[r] <= Len(log)
    BY Zenon DEF Base, LoadedInv, QueueLoaded
  <1>4. \A r \in Replicas : log_pointer[r] \in 0 .. Len(log)
    BY <1>1, <1>2, <1>3
  <1>5. \A i \in 1 .. Len(log) : log[i].new_part \in Parts
    BY Zenon, <1>1, LogTypes
  <1>6. \A i \in 1 .. Len(log) : SafeEntry(log[i], next_block, locks)
    BY Zenon DEF Base, IInv, SwallowInv, LogSafe
  <1> QED BY Zenon, <1>1, <1>2, <1>4, <1>5, <1>6

(* A replica's queue depends on what it has read only.                     *)
LEMMA QueuesSame ==
    ASSUME Base, LogInv, NEW e, log' = log \/ log' = Append(log, e),
           UNCHANGED <<log_pointer, virtual_parts>>
    PROVE  \A r \in Replicas : QueueOK(r)'
  <1> TAKE r \in Replicas
  <1>1. QueueOK(r) /\ log_pointer[r] \in 0 .. Len(log) /\ log \in Seq(LogEntries)
    BY Zenon, BaseFacts DEF LogInv
  <1>2. log_pointer[r] \in Nat /\ \A i \in 1 .. log_pointer[r] : log[i] = log'[i]
    BY <1>1
  <1>3. /\ AliveIn(log, log_pointer[r]) = AliveIn(log', log_pointer[r])
        /\ RangesIn(log, log_pointer[r]) = RangesIn(log', log_pointer[r])
    BY Zenon, <1>2, PrefixSame
  <1> QED BY Zenon, <1>1, <1>3 DEF QueueOK

-----------------------------------------------------------------------------
(* Appending.                                                              *)

(* The part of an insert that commits is apart from all of the log.        *)
LEMMA InsertFits ==
    ASSUME Base, LogInv, NEW i \in inserts, i.number \in locks
    PROVE  Inserted(log, Len(log),
                    Entry("GET_PART", Part(Partition, i.number, i.number, 0, 0), {}))
  <1> DEFINE e == Entry("GET_PART", Part(Partition, i.number, i.number, 0, 0), {})
  <1>1. /\ e.type = "GET_PART" /\ e.source_parts = {}
        /\ e.new_part = Part(Partition, i.number, i.number, 0, 0)
    BY Zenon DEF Entry
  <1>2. e.new_part.min_block = i.number /\ e.new_part.max_block = i.number
    BY Zenon DEF Entry, Part
  <1>3. ASSUME NEW k \in 1 .. Len(log) PROVE isDisjoint(e.new_part, log[k].new_part)
    <2>1. /\ i.number \in Nat /\ log[k].new_part \in Parts /\ SafeEntry(log[k], next_block, locks)
      BY Zenon, BaseFacts
    <2>2. log[k].new_part.min_block \in Nat /\ log[k].new_part.max_block \in Nat
      BY Zenon, <2>1, PartFields
    <2>3. CASE log[k].type = "DROP_RANGE"
      <3>1. log[k].new_part.max_block \in Ends(log)
        BY Zenon, <2>3 DEF Ends
      <3>2. log[k].new_part.max_block < i.number
        BY Zenon, <3>1 DEF Base, DropsInv, Pending
      <3> QED BY <1>2, <2>1, <2>2, <3>2 DEF isDisjoint
    <2>4. CASE log[k].type # "DROP_RANGE"
      <3>1. i.number \notin Blocks(log[k].new_part)
        BY Zenon, <2>1, <2>4 DEF SafeEntry, Clear
      <3> HIDE DEF e
      <3> QED BY <1>2, <2>1, <2>2, <3>1 DEF isDisjoint, Blocks
    <2> QED BY Zenon, <2>3, <2>4
  <1> HIDE DEF e
  <1> QED BY Zenon, <1>1, <1>2, <1>3 DEF Inserted, e

(* A range is dropped up to a number that is still locked: no part spans   *)
(* it, and the drops before had smaller ones.                              *)
LEMMA DropFits ==
    ASSUME Base, LogInv, NEW d \in Droppers, dropper[d].pc = "commit",
           dropper[d].seen = alter_partition_version, dropper[d].number # 0
    PROVE  Dropped(log, Len(log), Entry("DROP_RANGE", DropRangePart(dropper[d].number), {}))
  <1> DEFINE n == dropper[d].number
             e == Entry("DROP_RANGE", DropRangePart(n), {})
  <1>0. /\ n \in locks /\ n \in Nat
        /\ \A x \in Ends(log) : x \in Nat /\ x + 1 < n
    <2>1. DHolds(d) /\ DropperOK(d)
      BY Zenon DEF DHolds, Base, DropsInv
    <2>2. n \in locks
      BY Zenon, <2>1 DEF Base, Owners, Locked
    <2> QED BY Zenon, <2>1, <2>2, BaseFacts DEF DropperOK, Base, DropsInv
  <1>1. /\ e.type = "DROP_RANGE" /\ e.source_parts = {}
        /\ e.new_part = Part(Partition, 0, n - 1, MAX_LEVEL, MAX_BLOCK_NUMBER)
    BY Zenon DEF Entry, DropRangePart
  <1> HIDE DEF n, e
  <1>2. /\ e.new_part.partition_id = Partition /\ e.new_part.min_block = 0
        /\ e.new_part.max_block = n - 1
        /\ e.new_part.level = MAX_LEVEL /\ e.new_part.mutation = MAX_BLOCK_NUMBER
    BY <1>1, PartBuilt
  <1>3. ASSUME NEW i \in 1 .. Len(log), log[i].type = "DROP_RANGE"
        PROVE  log[i].new_part.max_block < e.new_part.max_block
    <2>1. log[i].new_part.max_block \in Ends(log)
      BY Zenon, <1>3 DEF Ends
    <2> QED BY <1>0, <1>2, <2>1
  <1>4. ASSUME NEW i \in 1 .. Len(log), log[i].type # "DROP_RANGE"
        PROVE  isDisjoint(e.new_part, log[i].new_part) \/ contains(e.new_part, log[i].new_part)
    <2> DEFINE p == log[i].new_part
    <2>1. p \in Parts /\ SafeEntry(log[i], next_block, locks)
      BY Zenon, BaseFacts
    <2>2. n \notin Blocks(p)
      BY Zenon, <1>0, <1>4, <2>1 DEF SafeEntry, Clear
    <2>3. p.level < MAX_LEVEL /\ p.mutation < MAX_BLOCK_NUMBER /\ p.partition_id = Partition
      BY Zenon, <1>4, BaseFacts, PartsOfTheLog DEF LogInv, LogOK
    <2>4. /\ p.min_block \in Nat /\ p.max_block \in Nat /\ p.level \in Nat /\ p.mutation \in Nat
          /\ p.min_block <= p.max_block
      BY Zenon, <2>1, PartFields
    <2> HIDE DEF p
    <2>5. p.max_block <= n - 1 \/ n - 1 < p.min_block
      BY <1>0, <2>2, <2>4 DEF Blocks
    <2>6. CASE n - 1 < p.min_block
      BY Zenon, <1>2, <2>6 DEF isDisjoint, p
    <2>7. CASE p.max_block <= n - 1
      <3>1. /\ e.new_part.min_block <= p.min_block /\ e.new_part.max_block >= p.max_block
            /\ e.new_part.level >= p.level /\ e.new_part.mutation >= p.mutation
        BY <1>0, <1>2, <2>3, <2>4, <2>7, SpecialLevels
      <3> QED BY Zenon, <1>2, <2>3, <3>1 DEF contains, p
    <2> QED BY Zenon, <2>5, <2>6, <2>7
  <1> QED BY Zenon, <1>1, <1>2, <1>3, <1>4 DEF Dropped, n, e

(* An insert commits while an assigner has chosen an entry: the entry is   *)
(* clear of its number.                                                    *)
LEMMA LogInsert ==
    ASSUME Base, LogInv, NEW i \in inserts, InsertCommit(i)
    PROVE  LogInv'
  <1> DEFINE e == Entry("GET_PART", Part(Partition, i.number, i.number, 0, 0), {})
             A == AliveIn(log, Len(log))
  <1>1. /\ i.number \in locks /\ Len(log) < MaxLog /\ log' = Append(log, e)
        /\ UNCHANGED <<log_version, log_pointer, virtual_parts, pred>>
    BY Zenon DEF InsertCommit, AppendToLog, queues
  <1>2. Inserted(log, Len(log), e)
    BY Zenon, <1>1, InsertFits
  <1>3. e \in LogEntries /\ log \in Seq(LogEntries)
    <2>1. i.number \in Nat /\ i.number <= i.number /\ log \in Seq(LogEntries)
      BY <1>1, BaseFacts
    <2> QED BY <2>1 DEF Entry, LogEntries, EntryTypes, Part, Partition, Parts, PartInfo, Levels, MAX_LEVEL
  <1>a. e.type = "GET_PART" /\ e.new_part.min_block = i.number /\ e.new_part.max_block = i.number
    BY Zenon DEF Entry, Part
  <1> HIDE DEF e
  <1>4. LogOK(log')
    BY Zenon, <1>1, <1>2, <1>3, LogGrowsOK DEF LogInv, EntryOK
  <1>5. \A r \in Replicas : QueueOK(r)'
    BY Zenon, <1>1, QueuesSame
  <1>6. AliveIn(log', Len(log')) = A \cup {e.new_part}
    <2> DEFINE n == Len(log)
    <2>1. /\ n \in Nat /\ Len(log') = n + 1 /\ log'[n + 1] = e
          /\ \A k \in 1 .. n : log[k] = log'[k]
      BY <1>1, <1>3
    <2>2. AliveIn(log', n + 1) = Covered(AliveIn(log', n), e)
      BY Zenon, <2>1, OneMore
    <2>3. AliveIn(log', n) = A
      BY Zenon, <2>1, PrefixSame
    <2>4. ASSUME NEW x \in A PROVE ~contains(e.new_part, x)
      <3>1. PICK k \in 1 .. n : x = log[k].new_part
        BY Zenon DEF AliveIn
      <3>2. isDisjoint(e.new_part, x) /\ x \in Parts /\ e.new_part \in Parts
        BY Zenon, <1>2, <1>3, <3>1, LogTypes DEF Inserted, LogEntries
      <3> QED BY Zenon, <3>2, ContainsOverlaps
    <2>5. e.type \in Producing
      BY Zenon, <1>a DEF Producing
    <2> HIDE DEF A, n
    <2>6. {x \in A : ~contains(e.new_part, x)} = A
      BY Zenon, <2>4
    <2> QED BY Zenon, <2>1, <2>2, <2>3, <2>5, <2>6 DEF Covered
  <1>7. ASSUME NEW w \in Assigners PROVE ChoiceOK(w)'
    <2>1. CASE pred[w].stage = "selected" /\ pred[w].version = log_version
      <3>1. Assigned(A, pred[w].entry)
        BY Zenon, <2>1 DEF LogInv, ChoiceOK
      <3>2. SafeEntry(pred[w].entry, next_block, locks) /\ pred[w].entry.type # "DROP_RANGE"
        BY Zenon, <2>1 DEF Base, IInv, SwallowInv, PredicatesSafe, SafePredicate
      <3>3. i.number \notin Blocks(pred[w].entry.new_part)
        BY Zenon, <1>1, <3>2 DEF SafeEntry, Clear
      <3>4. i.number \in Nat /\ pred[w].entry.new_part \in Parts
        BY Zenon, <1>1, BaseFacts DEF TypeInv, TypeOK, Predicates, LogEntries
      <3>5. pred[w].entry.new_part.min_block \in Nat /\ pred[w].entry.new_part.max_block \in Nat
        BY Zenon, <3>4, PartFields
      <3>6. isDisjoint(pred[w].entry.new_part, e.new_part)
        BY <1>a, <3>3, <3>4, <3>5 DEF isDisjoint, Blocks
      <3>7. Assigned(A \cup {e.new_part}, pred[w].entry)
        BY Zenon, <3>1, <3>6, AssignedMore
      <3> QED BY Zenon, <1>1, <1>6, <3>7 DEF ChoiceOK
    <2> QED BY Zenon, <1>1, <2>1 DEF ChoiceOK
  <1> QED BY Zenon, <1>4, <1>5, <1>7 DEF LogInv

(* When the version of /log changes, what was chosen before is too old to  *)
(* be logged.                                                              *)
LEMMA VersionsExpire ==
    ASSUME Base, log_version' = log_version + 1, NEW w \in Assigners
    PROVE  pred[w].version # log_version'
  <1>1. pred[w].version \in Nat /\ log_version \in Nat
    BY Zenon, BaseFacts DEF TypeInv, TypeOK, Predicates
  <1>2. pred[w].version <= log_version
    BY Zenon DEF Base, ViewsInv
  <1> QED BY <1>1, <1>2

LEMMA ChoicesExpire ==
    ASSUME Base, log_version' = log_version + 1, NEW w \in Assigners,
           pred'[w] = pred[w] \/ pred'[w].stage # "selected"
    PROVE  ChoiceOK(w)'
  BY Zenon, VersionsExpire DEF ChoiceOK

LEMMA LogDrop ==
    ASSUME Base, LogInv, NEW d \in Droppers, DropCommit(d)
    PROVE  LogInv'
  <1> DEFINE n == dropper[d].number
             e == Entry("DROP_RANGE", DropRangePart(n), {})
  <1>1. /\ dropper[d].pc = "commit" /\ dropper[d].seen = alter_partition_version
        /\ IF n = 0 THEN log' = log ELSE Len(log) < MaxLog /\ log' = Append(log, e)
        /\ log_version' = log_version + 1
        /\ UNCHANGED <<log_pointer, virtual_parts, pred>>
    BY Zenon DEF DropCommit, AppendToLog, queues
  <1>2. \A w \in Assigners : ChoiceOK(w)'
    BY Zenon, <1>1, ChoicesExpire
  <1>3. log' = log \/ log' = Append(log, e)
    BY Zenon, <1>1
  <1>4. \A r \in Replicas : QueueOK(r)'
    BY Zenon, <1>1, <1>3, QueuesSame
  <1>5. LogOK(log')
    <2>1. CASE n = 0
      BY Zenon, <1>1, <2>1 DEF LogInv
    <2>2. CASE n # 0
      <3>1. n \in Nat /\ log \in Seq(LogEntries)
        BY Zenon, BaseFacts DEF TypeInv, TypeOK
      <3>2. n - 1 \in Nat
        BY <2>2, <3>1
      <3>3. DropRangePart(n) \in Parts
        <4> DEFINE m == n - 1
        <4>1. 0 <= m
          BY <3>2
        <4> HIDE DEF m
        <4>2. Part(Partition, 0, m, MAX_LEVEL, MAX_BLOCK_NUMBER) \in Parts
          BY SMT, <3>2, <4>1, SpecialLevels DEF m, Part, Partition, Parts, PartInfo
        <4> QED BY Zenon, <4>2 DEF m, DropRangePart
      <3>4. e \in LogEntries
        BY <3>3 DEF Entry, LogEntries, EntryTypes
      <3>5. EntryOK(log, Len(log), e)
        BY Zenon, <1>1, <2>2, DropFits DEF EntryOK
      <3> HIDE DEF e
      <3> QED BY Zenon, <1>1, <2>2, <3>1, <3>4, <3>5, LogGrowsOK DEF LogInv
    <2> QED BY Zenon, <2>1, <2>2
  <1> QED BY Zenon, <1>2, <1>4, <1>5 DEF LogInv

(* An assigner logs its choice: the check of the version says that it      *)
(* still fits.                                                             *)
LEMMA LogCreate ==
    ASSUME Base, LogInv, NEW w \in Assigners, CreateLogEntry(w)
    PROVE  LogInv'
  <1> DEFINE e == pred[w].entry
  <1>1. /\ pred[w].stage = "selected" /\ pred[w].version = log_version
        /\ Len(log) < MaxLog /\ log' = Append(log, e)
        /\ log_version' = log_version + 1 /\ pred' = [pred EXCEPT ![w] = NoPredicate]
        /\ UNCHANGED <<log_pointer, virtual_parts>>
    BY Zenon DEF CreateLogEntry, AppendToLog, queues
  <1>2. pred \in [Assigners -> Predicates] /\ log \in Seq(LogEntries)
    BY Zenon, BaseFacts DEF TypeInv, TypeOK
  <1>3. NoPredicate.stage # "selected"
    BY DEF NoPredicate
  <1>4. \A v \in Assigners : pred'[v] = pred[v] \/ pred'[v].stage # "selected"
    BY Zenon, <1>1, <1>2, <1>3
  <1>5. \A v \in Assigners : ChoiceOK(v)'
    BY Zenon, <1>1, <1>4, ChoicesExpire
  <1>6. \A r \in Replicas : QueueOK(r)'
    BY Zenon, <1>1, QueuesSame
  <1>7. EntryOK(log, Len(log), e)
    BY Zenon, <1>1 DEF LogInv, ChoiceOK, EntryOK
  <1>8. LogOK(log')
    BY Zenon, <1>1, <1>2, <1>7, LogGrowsOK DEF LogInv, Predicates
  <1> QED BY Zenon, <1>5, <1>6, <1>8 DEF LogInv

-----------------------------------------------------------------------------
(* Steps that leave the log alone.                                         *)
LEMMA LogUntouched ==
    ASSUME LogInv, UNCHANGED <<log, log_version, log_pointer, virtual_parts>>,
           \A w \in Assigners : pred'[w] = pred[w] \/ pred'[w].stage # "selected"
    PROVE  LogInv'
  <1>1. \A r \in Replicas : QueueOK(r)'
    BY Zenon DEF LogInv, QueueOK
  <1>2. \A w \in Assigners : ChoiceOK(w)'
    BY Zenon DEF LogInv, ChoiceOK
  <1> QED BY Zenon, <1>1, <1>2 DEF LogInv

(* The next entry of a replica fits what the replica has, which becomes    *)
(* what the log says one entry later.                                      *)
LEMMA NextEntry ==
    ASSUME Base, LogInv, NEW r \in Replicas, NEW k, k = log_pointer[r], k < Len(log)
    PROVE  /\ ~insertionFails(virtual_parts[r], log[k + 1])
           /\ Reflects(insertUnlocked(virtual_parts[r], log[k + 1]),
                       AliveIn(log, k + 1), RangesIn(log, k + 1))
  <1> DEFINE e == log[k + 1]
             V == virtual_parts[r]
             A == AliveIn(log, k)
             D == RangesIn(log, k)
  <1>1. log \in Seq(LogEntries) /\ Len(log) \in Nat /\ k \in 0 .. Len(log) /\ V \in SUBSET Parts
    BY Zenon, BaseFacts
  <1>2. k + 1 \in 1 .. Len(log) /\ k \in Nat /\ k + 1 - 1 = k
    BY <1>1
  <1>3. /\ SetOK(A, D, k) /\ k < MAX_LEVEL /\ e \in LogEntries
        /\ A \in SUBSET Parts /\ D \in SUBSET Parts
    <2>1. LogOK(log)
      BY Zenon DEF LogInv
    <2>2. k < MAX_LEVEL
      BY <1>1, <1>2, <2>1, ConstantsAssumption DEF LogOK, MAX_LEVEL
    <2>3. A \in SUBSET Parts /\ D \in SUBSET Parts
      BY Zenon, <1>1, PrefixTypes
    <2> QED BY Zenon, <1>1, <1>2, <2>1, <2>2, <2>3, LogTypes DEF LogOK
  <1>4. Fits(A, D, k, e)
    <2>1. \A j \in 1 .. Len(log) : EntryOK(log, j - 1, log[j])
      BY Zenon DEF LogInv, LogOK
    <2>2. EntryOK(log, k + 1 - 1, e)
      BY <1>2, <2>1
    <2>3. EntryOK(log, k, e)
      BY Zenon, <1>2, <2>2
    <2> QED BY Zenon, <1>1, <1>3, <2>3, EntryFits
  <1>5. Reflects(V, A, D)
    BY Zenon DEF LogInv, QueueOK
  <1>6. ~insertionFails(V, e) /\ Reflects(insertUnlocked(V, e), Covered(A, e), Ranges(D, e))
    <2>1. V \in SUBSET Parts /\ k \in Nat
      BY Zenon, <1>1, <1>2
    <2> HIDE DEF e, V, A, D
    <2> QED BY Zenon, <1>3, <1>4, <1>5, <2>1, QueueNext
  <1>7. /\ AliveIn(log, k + 1) = Covered(A, e)
        /\ RangesIn(log, k + 1) = Ranges(D, e)
    BY Zenon, <1>2, OneMore
  <1> QED BY Zenon, <1>6, <1>7

(* A replica copies an entry: its parts become those of one entry more.    *)
LEMMA LogCopy ==
    ASSUME Base, LogInv, NEW r \in Replicas, PullCopyEntry(r)
    PROVE  LogInv'
  <1> DEFINE k == log_pointer[r]
             W == insertUnlocked(virtual_parts[r], log[k + 1])
  <1>1. /\ k < pull[r].upto /\ log_pointer' = [log_pointer EXCEPT ![r] = k + 1]
        /\ virtual_parts' = [virtual_parts EXCEPT ![r] = W]
        /\ UNCHANGED <<log, log_version, pred>>
    BY Zenon DEF PullCopyEntry, zk
  <1>2. /\ log_pointer \in [Replicas -> Nat] /\ virtual_parts \in [Replicas -> SUBSET Parts]
        /\ Len(log) \in Nat /\ k \in 0 .. Len(log)
        /\ pull[r].upto \in Nat /\ pull[r].upto <= Len(log)
    BY Zenon, BaseFacts DEF TypeInv, TypeOK, Bounded, Pulls
  <1>3. k < Len(log)
    BY <1>1, <1>2
  <1>4. Reflects(W, AliveIn(log, k + 1), RangesIn(log, k + 1))
    BY Zenon, <1>3, NextEntry
  <1> HIDE DEF k, W
  <1>5. ASSUME NEW s \in Replicas PROVE QueueOK(s)'
    <2>1. CASE s = r
      <3>1. virtual_parts'[r] = W /\ log_pointer'[r] = k + 1
        BY Zenon, <1>1, <1>2
      <3> QED BY Zenon, <1>1, <1>4, <2>1, <3>1 DEF QueueOK
    <2>2. CASE s # r
      <3>1. virtual_parts'[s] = virtual_parts[s] /\ log_pointer'[s] = log_pointer[s]
        BY Zenon, <1>1, <1>2, <2>2
      <3> QED BY Zenon, <1>1, <3>1 DEF LogInv, QueueOK
    <2> QED BY Zenon, <2>1, <2>2
  <1>6. \A w \in Assigners : ChoiceOK(w)'
    BY Zenon, <1>1 DEF LogInv, ChoiceOK
  <1> QED BY Zenon, <1>1, <1>5, <1>6 DEF LogInv

LEMMA LogExecute ==
    ASSUME Base, LogInv, NEW r \in Replicas, ExecuteDropRange(r)
    PROVE  LogInv'
  <1>1. PICK p \in virtual_parts[r] :
           /\ isFakeDropRangePart(p)
           /\ virtual_parts' = [virtual_parts EXCEPT ![r] = remove(virtual_parts[r], p)]
    BY Zenon DEF ExecuteDropRange
  <1>2. UNCHANGED <<log, log_version, log_pointer, pred>>
    BY Zenon DEF ExecuteDropRange, zk
  <1>3. virtual_parts \in [Replicas -> SUBSET Parts]
    BY Zenon, BaseFacts DEF TypeInv, TypeOK
  <1>4. ASSUME NEW s \in Replicas PROVE QueueOK(s)'
    <2>1. QueueOK(s)
      BY Zenon DEF LogInv
    <2>2. CASE s = r
      <3>1. virtual_parts'[r] = virtual_parts[r] \ {p}
        BY Zenon, <1>1, <1>3 DEF remove
      <3>2. Reflects(virtual_parts[r] \ {p}, AliveIn(log, log_pointer[r]),
                     RangesIn(log, log_pointer[r]))
        BY Zenon, <1>1, <2>1, <2>2 DEF QueueOK, Reflects
      <3> QED BY Zenon, <1>2, <2>2, <3>1, <3>2 DEF QueueOK
    <2>3. CASE s # r
      <3>1. virtual_parts'[s] = virtual_parts[s]
        BY Zenon, <1>1, <1>3, <2>3
      <3> QED BY Zenon, <1>2, <2>1, <3>1 DEF QueueOK
    <2> QED BY Zenon, <2>2, <2>3
  <1>5. \A w \in Assigners : ChoiceOK(w)'
    BY Zenon, <1>2 DEF LogInv, ChoiceOK
  <1> QED BY Zenon, <1>2, <1>4, <1>5 DEF LogInv

-----------------------------------------------------------------------------
(* What an assigner chooses.                                               *)

(* A part the predicate may merge was there, or inside one that was, when  *)
(* it copied the parts: a number unseen below its end was committing.      *)
LEMMA UnseenIsCommitting ==
    ASSUME IInv, NEW w \in Assigners, NEW q \in Parts, canMergeSinglePart(w, q),
           NEW b \in Nat, b <= q.max_block, Unseen(pred[w], b)
    PROVE  b \in pred[w].committing
  <1>1. PICK x : x \in getContainingPart(pred[w].prev, q)
    BY Zenon DEF canMergeSinglePart
  <1>2. x \in pred[w].prev /\ x.max_block >= q.max_block
    BY Zenon, <1>1, ContainingPartContains DEF contains
  <1>3. b <= x.max_block
    <2>1. x \in Parts
      BY Zenon, <1>2 DEF IInv, TypeInv, TypeOK, Predicates
    <2>2. x.max_block \in Nat /\ q.max_block \in Nat
      BY Zenon, <2>1, PartFields
    <2> QED BY <1>2, <2>2
  <1> QED BY Zenon, <1>2, <1>3 DEF Unseen

(* The heart of the argument.  A number inside the range of a merge but in *)
(* none of its sources lies between two neighbours.  If the predicate has  *)
(* not seen it, it is among the committing blocks, and canMergeTwoParts    *)
(* would have found it there.                                              *)
LEMMA NothingUnseenInside ==
    ASSUME IInv, NEW w \in Assigners, NEW S, NEW first, NEW last, NEW top, NEW newest,
           Selection(w, S, first, last, top, newest),
           NEW b \in Nat, first.min_block <= b, b <= last.max_block,
           \A q \in S : b \notin Blocks(q), Unseen(pred[w], b)
    PROVE  FALSE
  <1>1. Home[w] \in Replicas /\ virtual_parts[Home[w]] \subseteq Parts
    BY Zenon, ConstantsAssumption DEF IInv, TypeInv, TypeOK
  <1>2. \A q \in S : q \in Parts /\ canMergeSinglePart(w, q)
    BY Zenon, <1>1 DEF Selection, mergeable
  <1>3. \A q \in S : first.min_block <= q.min_block /\ q.min_block <= last.min_block
    BY Zenon DEF Selection, assign
  <1>4. S \in SUBSET Parts /\ first \in S /\ last \in S
    BY Zenon, <1>2 DEF Selection
  <1>5. PICK x \in S, y \in S : consecutive(S, x, y) /\ x.max_block < b /\ b < y.min_block
    BY Zenon, <1>3, <1>4, Enclosed
  <1>6. canMergeTwoParts(w, x, y)
    BY Zenon, <1>5 DEF Selection
  <1>7. /\ x.max_block \in Nat /\ y.min_block \in Nat /\ y.max_block \in Nat
        /\ y.min_block <= y.max_block
    BY Zenon, <1>2, PartFields
  <1>8. ~(x.max_block > y.min_block) /\ b <= y.max_block
    BY <1>5, <1>7
  <1>9. \A c \in pred[w].committing : ~(x.max_block < c /\ c < y.min_block)
    BY Zenon, <1>6, <1>8 DEF canMergeTwoParts
  <1>10. b \in pred[w].committing
    BY Zenon, <1>2, <1>8, UnseenIsCommitting
  <1> QED BY Zenon, <1>5, <1>9, <1>10

(* So the range of a merge holds no locked number.                         *)
LEMMA MergedRangeIsClear == IInv => MergesAreClear
  <1> SUFFICES ASSUME IInv, NEW w \in Assigners, pred[w].stage = "ready",
                      NEW S \in SUBSET mergeable(Home[w]),
                      NEW first \in S, NEW last \in S, NEW top \in S, NEW newest \in S,
                      Selection(w, S, first, last, top, newest)
               PROVE  Clear(futurePart(first, last, top, newest), locks)
    BY Zenon DEF MergesAreClear
  <1>1. /\ Home[w] \in Replicas /\ virtual_parts[Home[w]] \subseteq Parts
        /\ locks \subseteq Nat
    BY Zenon, ConstantsAssumption DEF IInv, TypeInv, TypeOK
  <1>2. \A q \in S : /\ q \in Parts /\ q \in virtual_parts[Home[w]] /\ ~isFakeDropRangePart(q)
    BY Zenon, <1>1 DEF mergeable
  <1>3. \A q \in S : Clear(q, locks)
    BY Zenon, <1>1, <1>2 DEF IInv, SwallowInv, QueuesSafe, SafePart
  <1>4. Knows(pred[w], locks)
    BY Zenon DEF IInv, SwallowInv, PredicatesSafe, SafePredicate
  <1>5. ASSUME NEW b \in locks, first.min_block <= b, b <= last.max_block PROVE FALSE
    <2>1. \A q \in S : b \notin Blocks(q)
      BY Zenon, <1>3 DEF Clear
    <2>2. Unseen(pred[w], b)
      BY Zenon, <1>4 DEF Knows, Unseen
    <2> QED BY Zenon, <1>1, <1>5, <2>1, <2>2, NothingUnseenInside
  <1>6. /\ futurePart(first, last, top, newest).min_block = first.min_block
        /\ futurePart(first, last, top, newest).max_block = last.max_block
    BY Zenon DEF futurePart, Part
  <1>7. first.min_block \in Nat /\ last.max_block \in Nat
    BY Zenon, <1>2, PartFields
  <1> QED BY <1>1, <1>5, <1>6, <1>7 DEF Clear, Blocks

(* What a predicate that is up to date sees of the log.                    *)
LEMMA ViewOfTheLog ==
    ASSUME Base, LogInv, NEW w \in Assigners, pred[w].stage = "ready",
           pred[w].version = log_version, NEW k, k = log_pointer[Home[w]]
    PROVE  /\ Home[w] \in Replicas /\ k \in 0 .. Len(log) /\ k \in Nat /\ k <= MAX_LEVEL
           /\ Reflects(virtual_parts[Home[w]], AliveIn(log, k), RangesIn(log, k))
           /\ mergeable(Home[w]) = AliveIn(log, k)
           /\ SetOK(AliveIn(log, k), RangesIn(log, k), k)
           /\ AliveIn(log, k) \in SUBSET Parts /\ RangesIn(log, k) \in SUBSET Parts
           /\ virtual_parts[Home[w]] \in SUBSET Parts
           /\ \A j \in k + 1 .. Len(log) :
                 log[j].type = "GET_PART" /\ Unseen(pred[w], log[j].new_part.min_block)
           /\ \A j \in loaded[Home[w]] + 1 .. Len(mutations) : Unseen(pred[w], mutations[j])
  <1>1. Home[w] \in Replicas
    BY Zenon, ConstantsAssumption
  <1>2. k \in 0 .. Len(log) /\ log \in Seq(LogEntries) /\ virtual_parts[Home[w]] \in SUBSET Parts
    BY Zenon, <1>1, BaseFacts
  <1>3. LogOK(log) /\ QueueOK(Home[w])
    BY Zenon, <1>1 DEF LogInv
  <1>4. k \in Nat /\ k <= MAX_LEVEL
    BY <1>2, <1>3, ConstantsAssumption DEF LogOK, MAX_LEVEL
  <1>5. AliveIn(log, k) \in SUBSET Parts /\ RangesIn(log, k) \in SUBSET Parts
    BY Zenon, <1>2, PrefixTypes
  <1>6. Reflects(virtual_parts[Home[w]], AliveIn(log, k), RangesIn(log, k))
    BY Zenon, <1>3 DEF QueueOK
  <1>7. mergeable(Home[w]) = AliveIn(log, k)
    BY Zenon, <1>6 DEF Reflects, mergeable
  <1>8. SetOK(AliveIn(log, k), RangesIn(log, k), k)
    BY Zenon, <1>2, <1>3 DEF LogOK
  <1>9. Sees(pred[w], log, k, mutations, loaded[Home[w]])
    BY Zenon DEF Base, ViewsInv, PredSees
  <1> QED BY Zenon, <1>1, <1>2, <1>4, <1>5, <1>6, <1>7, <1>8, <1>9 DEF Sees

(* getCurrentMutationVersion is the last loaded mutation up to the data    *)
(* version: a loaded one is below both or above both.                      *)
LEMMA CurrentVersion ==
    ASSUME TypeInv, NEW r \in Replicas, NEW n \in Nat, NEW v \in Known(mutations, loaded[r])
    PROVE  /\ v \in Nat
           /\ getCurrentMutationVersion(r, n) \in Nat
           /\ v <= n <=> v <= getCurrentMutationVersion(r, n)
  <1> DEFINE applied == {u \in {mutations[i] : i \in 1 .. loaded[r]} : u <= n}
             c == getCurrentMutationVersion(r, n)
  <1>1. \A i \in 1 .. loaded[r] : mutations[i] \in Nat
    <2>1. mutations \in Seq(Nat) /\ loaded[r] \in Nat /\ loaded[r] <= Len(mutations)
      BY Zenon DEF TypeInv, TypeOK, Bounded
    <2> QED BY <2>1
  <1>2. applied \in SUBSET Nat /\ \A u \in applied : u <= n
    BY Zenon, <1>1
  <1>3. c = IF applied = {} THEN 0 ELSE CHOOSE u \in applied : \A t \in applied : t <= u
    BY Zenon DEF getCurrentMutationVersion
  <1>4. v \in Nat /\ (v <= n => v \in applied)
    BY Zenon, <1>1 DEF Known
  <1> HIDE DEF applied, c
  <1>5. CASE applied = {}
    <2>1. c = 0 /\ ~(v <= n)
      BY Zenon, <1>3, <1>4, <1>5
    <2> QED BY <1>4, <2>1 DEF c
  <1>6. CASE applied # {}
    <2>1. \E u \in applied : \A t \in applied : t <= u
      BY Zenon, <1>2, <1>6, GreatestNat
    <2>2. c \in applied /\ \A t \in applied : t <= c
      BY Zenon, <1>3, <1>6, <2>1
    <2>3. c \in Nat /\ c <= n
      BY Zenon, <1>2, <2>2
    <2>4. v <= c => v <= n
      BY <1>4, <2>3
    <2> QED BY Zenon, <1>4, <2>2, <2>3, <2>4 DEF c
  <1> QED BY Zenon, <1>5, <1>6

(* A merge of the parts a predicate sees is a merge of the whole log: its  *)
(* range overlaps no other part that was there, nor one inserted since.    *)
LEMMA MergeIsAssigned ==
    ASSUME Base, LogInv, NEW w \in Assigners, pred[w].stage = "ready",
           pred[w].version = log_version,
           NEW S, NEW first, NEW last, NEW top, NEW newest,
           Selection(w, S, first, last, top, newest)
    PROVE  Assigned(AliveIn(log, Len(log)),
                    Entry("MERGE_PARTS", futurePart(first, last, top, newest), S))
  <1> DEFINE k == log_pointer[Home[w]]
             A == AliveIn(log, k)
             D == RangesIn(log, k)
             V == virtual_parts[Home[w]]
             n == Len(log)
             f == futurePart(first, last, top, newest)
             e == Entry("MERGE_PARTS", f, S)
  <1>1. /\ Home[w] \in Replicas /\ k \in 0 .. n /\ k \in Nat /\ k <= MAX_LEVEL
        /\ Reflects(V, A, D) /\ mergeable(Home[w]) = A /\ SetOK(A, D, k)
        /\ A \in SUBSET Parts /\ D \in SUBSET Parts /\ V \in SUBSET Parts
        /\ \A j \in k + 1 .. n :
              log[j].type = "GET_PART" /\ Unseen(pred[w], log[j].new_part.min_block)
    BY Zenon, ViewOfTheLog
  <1>2. /\ S \in SUBSET A /\ first \in S /\ last \in S /\ top \in S /\ newest \in S
        /\ assign(S, first, last, top, newest)
        /\ \A p, q \in S : consecutive(S, p, q) => canMergeTwoParts(w, p, q)
    BY Zenon, <1>1 DEF Selection
  <1>3. /\ A \subseteq AliveIn(log, n)
        /\ \A x \in AliveIn(log, n) : x \in A \/
             \E j \in k + 1 .. n :
                 x = log[j].new_part /\ \A y \in A : isDisjoint(x, y)
    BY Zenon, <1>1, BaseFacts, InsertsKeep DEF LogInv
  <1>4. f.min_block = first.min_block /\ f.max_block = last.max_block /\ f.partition_id = Partition
    BY Zenon DEF futurePart, Part
  <1> HIDE DEF k, A, D, V, n, f
  <1>5. \A q \in A : /\ q.min_block \in Nat /\ q.max_block \in Nat /\ q.min_block <= q.max_block
                     /\ q.partition_id = Partition
    BY Zenon, <1>1, PartFields DEF SetOK
  <1>6. ASSUME NEW x \in S PROVE ~isDisjoint(f, x)
    <2>1. x = last \/ isDisjoint(x, last)
      BY Zenon, <1>1, <1>2 DEF SetOK
    <2>2. first.min_block <= x.min_block /\ x.min_block <= last.min_block
      BY Zenon, <1>2 DEF assign
    <2>3. x \in A /\ first \in A /\ last \in A
      BY Zenon, <1>2
    <2> QED BY <1>4, <1>5, <2>1, <2>2, <2>3 DEF isDisjoint
  <1>7. ASSUME NEW b \in Nat, first.min_block <= b, b <= last.max_block,
               \A q \in S : b \notin Blocks(q)
        PROVE  \E y, z \in S : /\ canMergeTwoParts(w, y, z)
                               /\ y.max_block < b /\ b < z.min_block
    <2>1. S \in SUBSET Parts
      BY Zenon, <1>1, <1>2
    <2>2. \A q \in S : first.min_block <= q.min_block /\ q.min_block <= last.min_block
      BY Zenon, <1>2 DEF assign
    <2>3. PICK y \in S, z \in S : consecutive(S, y, z) /\ y.max_block < b /\ b < z.min_block
      BY Zenon, <1>2, <1>7, <2>1, <2>2, Enclosed
    <2> QED BY Zenon, <1>2, <2>3
  <1>8. ASSUME NEW x \in A, x \notin S, ~isDisjoint(f, x) PROVE FALSE
    <2> DEFINE b == x.min_block
    <2>1. \A q \in S : q \in A /\ isDisjoint(x, q)
      BY Zenon, <1>1, <1>2, <1>8 DEF SetOK
    <2>2. /\ b \in Nat /\ \A q \in S : b \notin Blocks(q)
      BY <1>5, <2>1 DEF isDisjoint, Blocks
    <2>3. first.min_block <= b /\ b <= last.max_block
      <3>1. first \in A /\ last \in A /\ isDisjoint(x, first)
        BY Zenon, <1>2, <2>1
      <3> QED BY <1>4, <1>5, <1>8, <3>1 DEF isDisjoint
    <2> HIDE DEF b
    <2>4. PICK y \in S, z \in S : canMergeTwoParts(w, y, z) /\ y.max_block < b /\ b < z.min_block
      BY Zenon, <1>7, <2>2, <2>3
    <2>5. y \in A /\ z \in A
      BY Zenon, <1>2
    <2>6. y.max_block + 1 < z.min_block /\ ~(y.max_block > z.min_block)
      BY <1>5, <2>2, <2>4, <2>5
    <2>7. getPartsCoveredBy(V, Part(Partition, y.max_block + 1, z.min_block - 1,
                                    MAX_LEVEL, MAX_BLOCK_NUMBER)) = {}
      BY Zenon, <2>4, <2>6 DEF canMergeTwoParts, V
    <2> QED BY Zenon, <1>1, <2>4, <2>5, <2>6, <2>7, GapIsEmpty DEF b
  <1>9. ASSUME NEW x, NEW j \in k + 1 .. n, x = log[j].new_part, \A y \in A : isDisjoint(x, y),
               ~isDisjoint(f, x)
        PROVE  FALSE
    <2> DEFINE b == x.min_block
    <2>1. j \in 1 .. Len(log) /\ log \in Seq(LogEntries) /\ LogOK(log)
      <3>1. n \in Nat
        BY Zenon, BaseFacts DEF n
      <3>2. j \in 1 .. n
        BY <1>1, <3>1
      <3> QED BY Zenon, <3>2, BaseFacts DEF LogInv, n
    <2>2. log[j].type = "GET_PART" /\ Unseen(pred[w], b)
      BY Zenon, <1>1, <1>9
    <2>3. Inserted(log, j - 1, log[j])
      BY Zenon, <2>1, <2>2, EntryKinds
    <2>4. x \in Parts /\ x = Part(Partition, b, b, 0, 0)
      BY Zenon, <1>9, <2>1, <2>3, LogTypes DEF Inserted
    <2>5. x.min_block = b /\ x.max_block = b /\ x.partition_id = Partition /\ b \in Nat
      <3> HIDE DEF b
      <3>1. x.min_block = b /\ x.max_block = b /\ x.partition_id = Partition
        BY SMT, <2>4, PartBuilt
      <3> QED BY Zenon, <2>4, <3>1, PartFields
    <2> HIDE DEF b
    <2>6. \A q \in S : b \notin Blocks(q)
      <3> TAKE q \in S
      <3>1. q \in A /\ isDisjoint(x, q)
        BY Zenon, <1>2, <1>9
      <3> QED BY <1>5, <2>5, <3>1 DEF isDisjoint, Blocks
    <2>7. first.min_block <= b /\ b <= last.max_block
      <3>1. first \in A /\ last \in A
        BY Zenon, <1>2
      <3> QED BY <1>4, <1>5, <1>9, <2>5, <3>1 DEF isDisjoint
    <2> QED BY Zenon, <2>2, <2>5, <2>6, <2>7, NothingUnseenInside DEF Base
  <1>10. S = {x \in AliveIn(log, n) : ~isDisjoint(f, x)}
    BY Zenon, <1>2, <1>3, <1>6, <1>8, <1>9
  <1>11. e.type = "MERGE_PARTS" /\ e.new_part = f /\ e.source_parts = S
    BY Zenon DEF Entry
  <1> HIDE DEF e
  <1> QED BY Zenon, <1>2, <1>10, <1>11 DEF Assigned, MergeOf, e, f, n

(* A mutation is chosen for a part whose data version is below it.         *)
LEMMA MutationIsAssigned ==
    ASSUME Base, LogInv, NEW w \in Assigners, pred[w].stage = "ready",
           pred[w].version = log_version,
           NEW p \in mergeable(Home[w]), NEW i \in 1 .. loaded[Home[w]],
           mutations[i] > getCurrentMutationVersion(Home[w], getDataVersion(p))
    PROVE  Assigned(AliveIn(log, Len(log)),
                    Entry("MUTATE_PART", [p EXCEPT !.mutation = mutations[i]], {p}))
  <1> DEFINE k == log_pointer[Home[w]]
             A == AliveIn(log, k)
             v == mutations[i]
             q == [p EXCEPT !.mutation = v]
             e == Entry("MUTATE_PART", q, {p})
  <1>1. /\ Home[w] \in Replicas /\ k \in 0 .. Len(log) /\ p \in A /\ A \in SUBSET Parts
        /\ SetOK(A, RangesIn(log, k), k)
        /\ \A j \in k + 1 .. Len(log) : log[j].type = "GET_PART"
    BY Zenon, ViewOfTheLog
  <1>2. p \in AliveIn(log, Len(log))
    BY Zenon, <1>1, BaseFacts, InsertsKeep DEF LogInv
  <1>3. /\ p.min_block \in Nat /\ p.mutation \in Nat /\ (p.mutation = 0 \/ p.min_block < p.mutation)
    BY Zenon, <1>1, PartFields DEF SetOK
  <1>4. TypeInv /\ v \in Known(mutations, loaded[Home[w]])
    BY Zenon, BaseFacts DEF Known
  <1>5. v \in Nat /\ v > getDataVersion(p)
    <2> DEFINE m == getDataVersion(p)
               c == getCurrentMutationVersion(Home[w], m)
    <2>1. m \in Nat
      BY <1>3 DEF getDataVersion
    <2> HIDE DEF m, v
    <2>2. v \in Nat /\ c \in Nat /\ (v <= m <=> v <= c)
      BY Zenon, <1>1, <1>4, <2>1, CurrentVersion
    <2>3. v > c
      BY Zenon DEF v, m
    <2> HIDE DEF c
    <2>4. v > m
      BY <2>1, <2>2, <2>3
    <2> QED BY Zenon, <2>2, <2>4 DEF m
  <1>6. v < MAX_BLOCK_NUMBER
    <2>1. i \in 1 .. Len(mutations)
      <3>1. mutations \in Seq(Nat) /\ loaded[Home[w]] \in Nat /\ loaded[Home[w]] <= Len(mutations)
        BY Zenon, <1>1, <1>4 DEF TypeInv, TypeOK, Bounded
      <3> QED BY <3>1
    <2>2. v < next_block /\ next_block <= MaxBlocks /\ next_block \in Nat
      BY Zenon, <1>4, <2>1 DEF Base, OrderInv, Owners, Locked, TypeInv, TypeOK
    <2> QED BY <1>5, <2>2, ConstantsAssumption, SpecialLevels
  <1>7. p.mutation < v /\ p.min_block < v
    BY <1>3, <1>5 DEF getDataVersion
  <1>8. q.mutation = v
    <2>1. p \in PartInfo
      BY Zenon, <1>1 DEF Parts
    <2> QED BY <2>1 DEF PartInfo
  <1>9. e.type = "MUTATE_PART" /\ e.new_part = q /\ e.source_parts = {p}
    BY Zenon DEF Entry
  <1>10. q = [p EXCEPT !.mutation = q.mutation]
    BY Zenon, <1>8
  <1> HIDE DEF e, q, v
  <1> QED BY Zenon, <1>2, <1>6, <1>7, <1>8, <1>9, <1>10 DEF Assigned, MutationOf, e, q, v

LEMMA LogSelect ==
    ASSUME Base, LogInv, NEW w \in Assigners, NEW e, Select(w, e),
           pred[w].version = log_version => Assigned(AliveIn(log, Len(log)), e)
    PROVE  LogInv'
  <1>1. UNCHANGED <<log, log_version, log_pointer, virtual_parts>>
    BY Zenon DEF Select, zk, queues
  <1>2. \A r \in Replicas : QueueOK(r)'
    BY Zenon, <1>1 DEF LogInv, QueueOK
  <1> DEFINE q == [NoPredicate EXCEPT !.stage = "selected", !.entry = e, !.version = pred[w].version]
  <1>3. q.entry = e /\ q.version = pred[w].version
    BY DEF NoPredicate
  <1>4. pred \in [Assigners -> Predicates] /\ pred' = [pred EXCEPT ![w] = q]
    BY Zenon, BaseFacts DEF TypeInv, TypeOK, Select
  <1> HIDE DEF q
  <1>5. ASSUME NEW v \in Assigners PROVE ChoiceOK(v)'
    <2>1. CASE v = w
      <3>1. pred'[v] = q
        BY Zenon, <1>4, <2>1
      <3> QED BY Zenon, <1>1, <1>3, <2>1, <3>1 DEF ChoiceOK
    <2>2. CASE v # w
      <3>1. pred'[v] = pred[v]
        BY Zenon, <1>4, <2>2
      <3> QED BY Zenon, <1>1, <3>1 DEF LogInv, ChoiceOK
    <2> QED BY Zenon, <2>1, <2>2
  <1> QED BY Zenon, <1>1, <1>2, <1>5 DEF LogInv

-----------------------------------------------------------------------------
(* The sources of a merge agree on the mutations.                          *)

(* A new mutation has a locked number, above all others: it is outside of  *)
(* every part.                                                             *)
LEMMA FreshMutation ==
    ASSUME NEW A \in SUBSET Parts, NEW D, NEW k \in Nat, k < MAX_LEVEL, SetOK(A, D, k),
           NEW e \in LogEntries, e.type = "MERGE_PARTS" => MergeOf(A, e),
           NEW n \in Nat, n \notin Blocks(e.new_part),
           NEW K, PartLoaded(e.new_part, K), \A u \in K : u < n
    PROVE  Consistent(e, n)
  <1>1. SplitFree(e.new_part, n)
    BY Zenon DEF SplitFree
  <1>2. ASSUME e.type = "MERGE_PARTS" PROVE Agree(e, n)
    <2>1. e.new_part \in Parts /\ e.source_parts \subseteq Parts
      BY Zenon DEF LogEntries
    <2>2. e.new_part.mutation \in Nat
      BY Zenon, <2>1, PartFields
    <2>3. ASSUME n <= e.new_part.mutation, NEW x \in e.source_parts
          PROVE  n <= getDataVersion(x)
      <3>1. e.new_part.mutation = 0 \/ e.new_part.mutation < n
        BY Zenon DEF PartLoaded
      <3>2. n = 0
        BY <2>2, <2>3, <3>1
      <3>3. x.mutation \in Nat /\ x.min_block \in Nat
        BY Zenon, <2>1, PartFields
      <3> QED BY <3>2, <3>3 DEF getDataVersion
    <2> QED BY Zenon, <1>1, <1>2, <2>3, MergeAgrees
  <1> QED BY Zenon, <1>1, <1>2 DEF Consistent

LEMMA LogBound ==
    ASSUME Base, LogInv
    PROVE  /\ Len(log) < MAX_LEVEL /\ Len(log) \in Nat
           /\ AliveIn(log, Len(log)) \in SUBSET Parts
           /\ SetOK(AliveIn(log, Len(log)), RangesIn(log, Len(log)), Len(log))
  <1>1. log \in Seq(LogEntries) /\ Len(log) \in Nat /\ LogOK(log)
    BY Zenon, BaseFacts DEF LogInv
  <1>2. Len(log) < MAX_LEVEL /\ Len(log) \in 0 .. Len(log)
    BY <1>1, ConstantsAssumption DEF LogOK, MAX_LEVEL
  <1> QED BY Zenon, <1>1, <1>2, PrefixTypes DEF LogOK

LEMMA AgreeMutate ==
    ASSUME Base, LogInv, AgreeInv, NEW m \in Mutators, MutateCommit(m)
    PROVE  AgreeInv'
  <1> DEFINE n == mutator[m].number
             K == Known(mutations, Len(mutations))
  <1>1. /\ mutator[m].pc = "commit" /\ mutator[m].seen = Len(mutations)
        /\ mutations' = Append(mutations, n) /\ UNCHANGED <<log, log_version, pred>>
    BY Zenon DEF MutateCommit
  <1>2. TypeInv /\ mutations \in Seq(Nat) /\ log \in Seq(LogEntries)
    BY Zenon, BaseFacts DEF TypeInv, TypeOK
  <1>3. n \in locks /\ n \in Nat
    <2>1. MHolds(m)
      BY Zenon, <1>1 DEF MHolds
    <2> QED BY Zenon, <2>1, BaseFacts DEF Base, Owners, Locked
  <1>4. \A u \in K : u < n
    <2>1. \A i \in 1 .. Len(mutations) : mutations[i] < n
      BY Zenon, <1>1 DEF Base, OrderInv
    <2> QED BY Zenon, <2>1 DEF Known
  <1>5. \A v \in Known(mutations, Len(mutations))' : v \in K \/ v = n
    <2>1. /\ \A i \in 1 .. Len(mutations') : i \in 1 .. Len(mutations) \/ i = Len(mutations')
          /\ \A i \in 1 .. Len(mutations) : mutations'[i] = mutations[i]
          /\ mutations'[Len(mutations')] = n
      BY <1>1, <1>2, <1>3
    <2> QED BY Zenon, <2>1 DEF Known
  <1> HIDE DEF n, K
  <1>6. ASSUME NEW i \in 1 .. Len(log) PROVE Consistent(log[i], n)
    <2>1. CASE log[i].type \in Producing
      <3>1. log[i].type # "DROP_RANGE"
        BY <2>1 DEF Producing
      <3>2. n \notin Blocks(log[i].new_part)
        BY Zenon, <1>3, <3>1, BaseFacts DEF SafeEntry, Clear
      <3>3. PartLoaded(log[i].new_part, K)
        BY Zenon, <3>1 DEF Base, LoadedInv, LogLoaded, EntryLoaded, K
      <3>4. log[i].type = "MERGE_PARTS" => MergeOf(AliveIn(log, i - 1), log[i])
        BY Zenon, <1>2, EntryKinds DEF LogInv
      <3>5. /\ i - 1 \in Nat /\ i - 1 < MAX_LEVEL /\ log[i] \in LogEntries
            /\ SetOK(AliveIn(log, i - 1), RangesIn(log, i - 1), i - 1)
            /\ AliveIn(log, i - 1) \in SUBSET Parts
        BY Zenon, <1>2, PrefixBefore DEF LogInv
      <3> QED BY Zenon, <1>3, <1>4, <3>2, <3>3, <3>4, <3>5, FreshMutation
    <2>2. CASE log[i].type \notin Producing
      BY <2>2 DEF Consistent, Producing
    <2> QED BY Zenon, <2>1, <2>2
  <1>7. ASSUME NEW w \in Assigners, pred[w].stage = "selected", pred[w].version = log_version
        PROVE  Consistent(pred[w].entry, n)
    <2> DEFINE e == pred[w].entry
    <2>1. e \in LogEntries
      BY Zenon, <1>2 DEF TypeInv, TypeOK, Predicates
    <2>2. SafeEntry(e, next_block, locks) /\ e.type # "DROP_RANGE"
      BY Zenon, <1>7 DEF Base, IInv, SwallowInv, PredicatesSafe, SafePredicate
    <2>3. n \notin Blocks(e.new_part)
      BY Zenon, <1>3, <2>2 DEF SafeEntry, Clear
    <2>4. PartLoaded(e.new_part, K)
      BY Zenon, <1>7, <2>2 DEF Base, LoadedInv, PredLoaded, EntryLoaded, K
    <2>5. Assigned(AliveIn(log, Len(log)), e)
      BY Zenon, <1>7 DEF LogInv, ChoiceOK
    <2> HIDE DEF e
    <2>6. e.type = "MERGE_PARTS" => MergeOf(AliveIn(log, Len(log)), e)
      BY <2>5 DEF Assigned
    <2>7. Consistent(e, n)
      BY Zenon, <1>3, <1>4, <2>1, <2>3, <2>4, <2>6, LogBound, FreshMutation
    <2> QED BY Zenon, <2>7 DEF e
  <1> QED BY Zenon, <1>1, <1>5, <1>6, <1>7 DEF AgreeInv, K

(* Steps that create no mutation.                                          *)
LEMMA AgreeGrows ==
    ASSUME AgreeInv, log \in Seq(LogEntries), UNCHANGED mutations, NEW e,
           log' = log \/ (/\ log' = Append(log, e)
                          /\ \A v \in Known(mutations, Len(mutations)) : Consistent(e, v)),
           \A w \in Assigners : \/ pred'[w].stage # "selected" \/ pred'[w].version # log_version'
                                \/ (pred'[w] = pred[w] /\ log_version' = log_version)
    PROVE  AgreeInv'
  <1> DEFINE K == Known(mutations, Len(mutations))
  <1>1. Known(mutations, Len(mutations))' = K
    BY Zenon DEF Known
  <1>2. ASSUME NEW v \in K, NEW i \in 1 .. Len(log') PROVE Consistent(log'[i], v)
    <2>1. CASE log' = log
      BY Zenon, <1>2, <2>1 DEF AgreeInv
    <2>2. CASE log' = Append(log, e) /\ Consistent(e, v)
      <3>1. (i \in 1 .. Len(log) /\ log'[i] = log[i]) \/ log'[i] = e
        BY <2>2
      <3> QED BY Zenon, <1>2, <2>2, <3>1 DEF AgreeInv
    <2> QED BY Zenon, <1>2, <2>1, <2>2
  <1>3. ASSUME NEW v \in K, NEW w \in Assigners, pred'[w].stage = "selected",
               pred'[w].version = log_version'
        PROVE  Consistent(pred'[w].entry, v)
    <2>1. pred'[w] = pred[w] /\ log_version' = log_version
      BY Zenon, <1>3
    <2> QED BY Zenon, <1>3, <2>1 DEF AgreeInv
  <1> QED BY Zenon, <1>1, <1>2, <1>3 DEF AgreeInv

(* A mutation is loaded, or it is above all that are.                      *)
LEMMA LoadedOrNot ==
    ASSUME Base, NEW r \in Replicas, NEW v \in Known(mutations, Len(mutations)),
           v \notin Known(mutations, loaded[r])
    PROVE  /\ \E j \in loaded[r] + 1 .. Len(mutations) : v = mutations[j]
           /\ \A u \in Known(mutations, loaded[r]) : u < v
  <1>1. /\ mutations \in Seq(Nat) /\ loaded[r] \in Nat /\ loaded[r] <= Len(mutations)
    BY Zenon, BaseFacts DEF TypeInv, TypeOK, Bounded
  <1>2. PICK j \in 1 .. Len(mutations) : v = mutations[j] /\ j \notin 1 .. loaded[r]
    BY Zenon DEF Known
  <1>3. /\ j \in loaded[r] + 1 .. Len(mutations)
        /\ \A i \in 1 .. loaded[r] : i \in 1 .. Len(mutations) /\ i < j
    BY <1>1, <1>2
  <1>4. \A i \in 1 .. loaded[r] : mutations[i] < mutations[j]
    BY Zenon, <1>2, <1>3 DEF Base, OrderInv, MutationsAreOrdered
  <1> QED BY Zenon, <1>2, <1>3, <1>4 DEF Known

(* canMergeTwoParts compares the current versions: two neighbours are both *)
(* below a loaded mutation, or both above it.                              *)
LEMMA NeighboursAgree ==
    ASSUME Base, NEW w \in Assigners, NEW x \in Parts, NEW y \in Parts, canMergeTwoParts(w, x, y),
           NEW v \in Known(mutations, loaded[Home[w]])
    PROVE  v <= getDataVersion(x) <=> v <= getDataVersion(y)
  <1> DEFINE a == getDataVersion(x)
             b == getDataVersion(y)
  <1>1. Home[w] \in Replicas /\ TypeInv
    BY Zenon, ConstantsAssumption, BaseFacts
  <1>2. a \in Nat /\ b \in Nat
    BY PartFields DEF getDataVersion
  <1>3. getCurrentMutationVersion(Home[w], a) = getCurrentMutationVersion(Home[w], b)
    BY Zenon DEF canMergeTwoParts
  <1> HIDE DEF a, b
  <1>4. /\ v <= a <=> v <= getCurrentMutationVersion(Home[w], a)
        /\ v <= b <=> v <= getCurrentMutationVersion(Home[w], b)
    BY Zenon, <1>1, <1>2, CurrentVersion
  <1>5. v <= a <=> v <= b
    BY Zenon, <1>3, <1>4
  <1> QED BY Zenon, <1>5 DEF a, b

(* A mutation inside the range of a merge has been applied to a source.    *)
LEMMA MergeIsSplitFree ==
    ASSUME Base, LogInv, AgreeInv, NEW w \in Assigners, pred[w].stage = "ready",
           pred[w].version = log_version,
           NEW S, NEW first, NEW last, NEW top, NEW newest,
           Selection(w, S, first, last, top, newest),
           NEW v \in Known(mutations, Len(mutations)), v \in Nat,
           first.min_block <= v, v <= last.max_block
    PROVE  \E x \in S : v <= x.mutation
  <1> DEFINE k == log_pointer[Home[w]]
             A == AliveIn(log, k)
  <1>1. /\ Home[w] \in Replicas /\ k \in 0 .. Len(log) /\ mergeable(Home[w]) = A
        /\ SetOK(A, RangesIn(log, k), k) /\ A \in SUBSET Parts
        /\ \A j \in loaded[Home[w]] + 1 .. Len(mutations) : Unseen(pred[w], mutations[j])
    BY Zenon, ViewOfTheLog
  <1>2. S \in SUBSET A /\ first \in S /\ last \in S
    BY Zenon, <1>1 DEF Selection
  <1>3. ASSUME NEW x \in S, v \in Blocks(x) PROVE v <= x.mutation
    <2>1. PICK i \in 1 .. k : x = log[i].new_part /\ LiveIn(log, i, k)
      BY Zenon, <1>2 DEF AliveIn
    <2>2. i \in 1 .. Len(log)
      <3>1. Len(log) \in Nat
        BY Zenon, BaseFacts
      <3> QED BY <1>1, <3>1
    <2>3. SplitFree(x, v)
      BY Zenon, <2>1, <2>2 DEF AgreeInv, Consistent, LiveIn
    <2> QED BY Zenon, <1>3, <2>3 DEF SplitFree
  <1>4. ASSUME \A x \in S : v \notin Blocks(x) PROVE \E x \in S : v <= x.mutation
    <2>1. v \in Known(mutations, loaded[Home[w]])
      <3> SUFFICES ASSUME v \notin Known(mutations, loaded[Home[w]]) PROVE FALSE
        BY Zenon
      <3>1. PICK j \in loaded[Home[w]] + 1 .. Len(mutations) : v = mutations[j]
        BY Zenon, <1>1, LoadedOrNot
      <3>2. Unseen(pred[w], v)
        BY Zenon, <1>1, <3>1
      <3> QED BY Zenon, <1>4, <3>2, NothingUnseenInside DEF Base
    <2>2. S \in SUBSET Parts
      BY Zenon, <1>1, <1>2
    <2>3. \A q \in S : first.min_block <= q.min_block /\ q.min_block <= last.min_block
      BY Zenon DEF Selection, assign
    <2>4. PICK y \in S, z \in S : consecutive(S, y, z) /\ y.max_block < v /\ v < z.min_block
      BY Zenon, <1>2, <1>4, <2>2, <2>3, Enclosed
    <2>5. canMergeTwoParts(w, y, z)
      BY Zenon, <2>4 DEF Selection
    <2>6. v <= getDataVersion(y) <=> v <= getDataVersion(z)
      BY Zenon, <2>1, <2>2, <2>5, NeighboursAgree
    <2>7. /\ y.min_block \in Nat /\ y.max_block \in Nat /\ y.mutation \in Nat
          /\ y.min_block <= y.max_block /\ z.min_block \in Nat /\ z.mutation \in Nat
      BY Zenon, <2>2, PartFields
    <2>8. z.mutation = 0 \/ z.min_block < z.mutation
      BY Zenon, <1>1, <1>2 DEF SetOK
    <2>9. v <= y.mutation
      BY <2>4, <2>6, <2>7, <2>8 DEF getDataVersion
    <2> QED BY Zenon, <2>9
  <1> QED BY Zenon, <1>3, <1>4

(* A mutation applied to one source of a merge is applied to all.          *)
LEMMA SourcesAgree ==
    ASSUME Base, LogInv, NEW w \in Assigners, pred[w].stage = "ready",
           pred[w].version = log_version,
           NEW S, NEW first, NEW last, NEW top, NEW newest,
           Selection(w, S, first, last, top, newest),
           NEW v \in Known(mutations, Len(mutations)), v \in Nat,
           v <= newest.mutation, NEW x \in S
    PROVE  v <= getDataVersion(x)
  <1> DEFINE k == log_pointer[Home[w]]
             A == AliveIn(log, k)
  <1>1. /\ Home[w] \in Replicas /\ mergeable(Home[w]) = A
        /\ SetOK(A, RangesIn(log, k), k) /\ A \in SUBSET Parts
    BY Zenon, ViewOfTheLog
  <1>2. S \in SUBSET A /\ S \in SUBSET Parts /\ newest \in S
    BY Zenon, <1>1 DEF Selection
  <1>3. /\ newest.mutation \in Nat /\ newest.min_block \in Nat
        /\ x.mutation \in Nat /\ x.min_block \in Nat
    BY Zenon, <1>2, PartFields
  <1>4. CASE v = 0
    BY <1>3, <1>4 DEF getDataVersion
  <1>5. CASE v # 0
    <2>1. v <= getDataVersion(newest)
      BY <1>3, <1>5 DEF getDataVersion
    <2>2. v \in Known(mutations, loaded[Home[w]])
      <3> SUFFICES ASSUME v \notin Known(mutations, loaded[Home[w]]) PROVE FALSE
        BY Zenon
      <3>1. PartLoaded(newest, Known(mutations, loaded[Home[w]]))
        BY Zenon, <1>1, <1>2 DEF Base, LoadedInv, QueueLoaded
      <3>2. newest.mutation = 0 \/ newest.mutation < v
        BY Zenon, <1>1, <3>1, LoadedOrNot DEF PartLoaded
      <3> QED BY <1>3, <1>5, <3>2
    <2> DEFINE U == {y \in S : v <= getDataVersion(y)}
    <2>3. \A y, z \in S : consecutive(S, y, z) => (y \in U <=> z \in U)
      <3> SUFFICES ASSUME NEW y \in S, NEW z \in S, consecutive(S, y, z)
                   PROVE  v <= getDataVersion(y) <=> v <= getDataVersion(z)
        BY Zenon
      <3>1. canMergeTwoParts(w, y, z)
        BY Zenon DEF Selection
      <3> QED BY Zenon, <1>2, <2>2, <3>1, NeighboursAgree
    <2>4. \A y, z \in S : y.min_block = z.min_block => y = z
      <3> SUFFICES ASSUME NEW y \in S, NEW z \in S, y.min_block = z.min_block, isDisjoint(y, z)
                   PROVE  FALSE
        BY Zenon, <1>1, <1>2 DEF SetOK
      <3>1. /\ y.partition_id = Partition /\ z.partition_id = Partition
            /\ y.min_block \in Nat /\ y.max_block \in Nat /\ y.min_block <= y.max_block
            /\ z.min_block \in Nat /\ z.max_block \in Nat /\ z.min_block <= z.max_block
        BY Zenon, <1>1, <1>2, PartFields DEF SetOK
      <3> QED BY <3>1 DEF isDisjoint
    <2>5. U \in SUBSET S /\ newest \in U
      BY Zenon, <1>2, <2>1
    <2>6. x \in U
      <3> HIDE DEF U
      <3> QED BY Zenon, <1>2, <2>3, <2>4, <2>5, Chain
    <2> QED BY Zenon, <2>6
  <1> QED BY Zenon, <1>4, <1>5

LEMMA MergeIsConsistent ==
    ASSUME Base, LogInv, AgreeInv, NEW w \in Assigners, pred[w].stage = "ready",
           pred[w].version = log_version,
           NEW S, NEW first, NEW last, NEW top, NEW newest,
           Selection(w, S, first, last, top, newest),
           NEW v \in Known(mutations, Len(mutations))
    PROVE  Consistent(Entry("MERGE_PARTS", futurePart(first, last, top, newest), S), v)
  <1> DEFINE k == log_pointer[Home[w]]
             A == AliveIn(log, k)
             f == futurePart(first, last, top, newest)
             e == Entry("MERGE_PARTS", f, S)
  <1>1. /\ k \in Nat /\ k <= MAX_LEVEL /\ mergeable(Home[w]) = A
        /\ SetOK(A, RangesIn(log, k), k) /\ A \in SUBSET Parts
    BY Zenon, ViewOfTheLog
  <1>2. /\ S \in SUBSET A /\ S \in SUBSET Parts
        /\ first \in S /\ last \in S /\ top \in S /\ newest \in S
        /\ assign(S, first, last, top, newest)
    BY Zenon, <1>1 DEF Selection
  <1>3. v \in Nat
    <2>1. mutations \in Seq(Nat)
      BY Zenon, BaseFacts DEF TypeInv, TypeOK
    <2> QED BY <2>1 DEF Known
  <1>4. /\ f.partition_id = Partition /\ f.min_block = first.min_block
        /\ f.max_block = last.max_block
        /\ f.level = top.level + 1 /\ f.mutation = newest.mutation
    BY Zenon DEF futurePart, Part
  <1>5. f \in Parts
    <2>1. /\ first.min_block \in Nat /\ last.max_block \in Nat /\ last.min_block \in Nat
          /\ last.min_block <= last.max_block
          /\ top.level \in Nat /\ newest.mutation \in Nat
      BY Zenon, <1>2, PartFields
    <2>2. first.min_block <= last.min_block /\ top.level < k
      BY Zenon, <1>1, <1>2 DEF assign, SetOK
    <2>3. first.min_block <= last.max_block /\ top.level + 1 \in Levels
      BY <1>1, <2>1, <2>2, SpecialLevels DEF Levels
    <2> QED BY <2>1, <2>3 DEF futurePart, Part, Partition, Parts, PartInfo
  <1> HIDE DEF f, k, A
  <1>6. e.type = "MERGE_PARTS" /\ e.new_part = f /\ e.source_parts = S
    BY Zenon DEF Entry
  <1>7. e \in LogEntries
    BY <1>2, <1>5 DEF Entry, LogEntries, EntryTypes
  <1>8. Assigned(AliveIn(log, Len(log)), e)
    BY Zenon, MergeIsAssigned DEF f
  <1> HIDE DEF e
  <1>9. MergeOf(AliveIn(log, Len(log)), e)
    BY <1>6, <1>8 DEF Assigned
  <1>10. SplitFree(f, v)
    <2> SUFFICES ASSUME v \in Blocks(f) PROVE v <= f.mutation
      BY Zenon DEF SplitFree
    <2>1. first.min_block <= v /\ v <= last.max_block
      <3>1. first.min_block \in Nat /\ last.max_block \in Nat
        BY Zenon, <1>2, PartFields
      <3> QED BY <1>3, <1>4, <3>1 DEF Blocks
    <2>2. PICK x \in S : v <= x.mutation
      BY Zenon, <1>3, <2>1, MergeIsSplitFree
    <2>3. x.mutation <= newest.mutation /\ x.mutation \in Nat /\ newest.mutation \in Nat
      BY Zenon, <1>2, PartFields DEF assign
    <2> QED BY <1>3, <1>4, <2>2, <2>3
  <1>11. v <= f.mutation => \A x \in S : v <= getDataVersion(x)
    BY Zenon, <1>3, <1>4, SourcesAgree
  <1>12. Agree(e, v)
    BY Zenon, <1>3, <1>6, <1>7, <1>9, <1>10, <1>11, LogBound, MergeAgrees
  <1> QED BY Zenon, <1>6, <1>10, <1>12 DEF Consistent, e, f

LEMMA MutationIsConsistent ==
    ASSUME Base, LogInv, AgreeInv, NEW w \in Assigners, pred[w].stage = "ready",
           pred[w].version = log_version,
           NEW p \in mergeable(Home[w]), NEW i \in 1 .. loaded[Home[w]],
           mutations[i] > getCurrentMutationVersion(Home[w], getDataVersion(p)),
           NEW v \in Known(mutations, Len(mutations))
    PROVE  Consistent(Entry("MUTATE_PART", [p EXCEPT !.mutation = mutations[i]], {p}), v)
  <1> DEFINE k == log_pointer[Home[w]]
             q == [p EXCEPT !.mutation = mutations[i]]
             e == Entry("MUTATE_PART", q, {p})
  <1>0. e.type = "MUTATE_PART" /\ e.new_part = q
    BY Zenon DEF Entry
  <1>1. k \in 0 .. Len(log) /\ p \in AliveIn(log, k) /\ p \in Parts
    BY Zenon, ViewOfTheLog
  <1>2. PICK j \in 1 .. k : p = log[j].new_part /\ LiveIn(log, j, k)
    BY Zenon, <1>1 DEF AliveIn
  <1>3. j \in 1 .. Len(log)
    <2>1. Len(log) \in Nat
      BY Zenon, BaseFacts
    <2> QED BY <1>1, <2>1
  <1>4. SplitFree(p, v)
    BY Zenon, <1>2, <1>3 DEF AgreeInv, Consistent, LiveIn
  <1>5. Assigned(AliveIn(log, Len(log)), e)
    BY Zenon, MutationIsAssigned
  <1>6. /\ q.min_block = p.min_block /\ q.max_block = p.max_block /\ q.mutation = mutations[i]
    <2>1. p \in PartInfo
      BY Zenon, <1>1 DEF Parts
    <2> QED BY <2>1 DEF PartInfo
  <1>7. p.mutation < q.mutation /\ q.mutation \in Nat /\ v \in Nat
    <2>1. PICK s \in AliveIn(log, Len(log)) : e.source_parts = {s} /\ s.mutation < e.new_part.mutation
      <3>1. e.type # "MERGE_PARTS" /\ e.type # "DROP_PART"
        BY <1>0
      <3> HIDE DEF e
      <3> QED BY Zenon, <1>5, <3>1 DEF Assigned, MutationOf
    <2>2. e.source_parts = {p}
      BY Zenon DEF Entry
    <2>3. s = p
      BY Zenon, <2>1, <2>2
    <2>4. mutations \in Seq(Nat) /\ loaded[Home[w]] \in Nat /\ loaded[Home[w]] <= Len(mutations)
      BY Zenon, ConstantsAssumption, BaseFacts DEF TypeInv, TypeOK, Bounded
    <2>5. mutations[i] \in Nat /\ v \in Nat
      BY <2>4 DEF Known
    <2> QED BY Zenon, <1>0, <1>6, <2>1, <2>3, <2>5
  <1> HIDE DEF q, e
  <1>8. SplitFree(q, v)
    <2>1. p.mutation \in Nat /\ p.min_block \in Nat /\ p.max_block \in Nat
      BY Zenon, <1>1, PartFields
    <2> QED BY <1>4, <1>6, <1>7, <2>1 DEF SplitFree, Blocks
  <1>9. Consistent(e, v)
    BY <1>0, <1>8 DEF Consistent
  <1> QED BY Zenon, <1>9 DEF e, q

LEMMA AgreeSelect ==
    ASSUME Base, AgreeInv, NEW w \in Assigners, NEW e, Select(w, e),
           pred[w].version = log_version =>
               \A v \in Known(mutations, Len(mutations)) : Consistent(e, v)
    PROVE  AgreeInv'
  <1> DEFINE q == [NoPredicate EXCEPT !.stage = "selected", !.entry = e, !.version = pred[w].version]
  <1>1. UNCHANGED <<log, log_version, mutations>>
    BY Zenon DEF Select, zk
  <1>2. q.entry = e /\ q.version = pred[w].version
    BY DEF NoPredicate
  <1>3. pred \in [Assigners -> Predicates] /\ pred' = [pred EXCEPT ![w] = q]
    BY Zenon, BaseFacts DEF TypeInv, TypeOK, Select
  <1> HIDE DEF q
  <1>4. Known(mutations, Len(mutations))' = Known(mutations, Len(mutations))
    BY Zenon, <1>1 DEF Known
  <1>5. ASSUME NEW u \in Assigners, pred'[u].stage = "selected", pred'[u].version = log_version',
               NEW v \in Known(mutations, Len(mutations))
        PROVE  Consistent(pred'[u].entry, v)
    <2>1. CASE u = w
      <3>1. pred'[u] = q
        BY Zenon, <1>3, <2>1
      <3> QED BY Zenon, <1>1, <1>2, <1>5, <3>1
    <2>2. CASE u # w
      <3>1. pred'[u] = pred[u]
        BY Zenon, <1>3, <2>2
      <3> QED BY Zenon, <1>1, <1>5, <3>1 DEF AgreeInv
    <2> QED BY Zenon, <2>1, <2>2
  <1>6. \A v \in Known(mutations, Len(mutations)) : \A i \in 1 .. Len(log') : Consistent(log'[i], v)
    BY Zenon, <1>1 DEF AgreeInv
  <1> QED BY Zenon, <1>4, <1>5, <1>6 DEF AgreeInv

LEMMA AgreeStays ==
    ASSUME Base, AgreeInv, UNCHANGED <<log, log_version, mutations>>,
           \A w \in Assigners : pred'[w] = pred[w] \/ pred'[w].stage # "selected"
    PROVE  AgreeInv'
  <1>1. log \in Seq(LogEntries)
    BY Zenon, BaseFacts
  <1> QED BY Zenon, <1>1, AgreeGrows

LEMMA AssignerStep ==
    ASSUME Base, LogInv, AgreeInv, NEW w \in Assigners, Assigner(w)
    PROVE  LogInv' /\ AgreeInv'
  <1>0. pred \in [Assigners -> Predicates] /\ log \in Seq(LogEntries)
    BY Zenon, BaseFacts DEF TypeInv, TypeOK
  <1>1. ASSUME NEW q, q.stage # "selected", pred' = [pred EXCEPT ![w] = q],
               UNCHANGED <<log, log_version, log_pointer, virtual_parts, mutations>>
        PROVE  LogInv' /\ AgreeInv'
    <2>1. \A v \in Assigners : pred'[v] = pred[v] \/ pred'[v].stage # "selected"
      BY Zenon, <1>0, <1>1
    <2> QED BY Zenon, <1>1, <2>1, LogUntouched, AgreeStays
  <1>2. CASE PredCopyParts(w)
    <2> DEFINE q == [pred[w] EXCEPT !.stage = "copied", !.prev = virtual_parts[Home[w]]]
    <2>1. pred' = [pred EXCEPT ![w] = q] /\ UNCHANGED <<log, log_version, log_pointer, virtual_parts, mutations>>
      BY Zenon, <1>2 DEF PredCopyParts, zk, queues
    <2>2. q.stage # "selected"
      BY <1>0 DEF Predicates
    <2> HIDE DEF q
    <2> QED BY Zenon, <1>1, <2>1, <2>2
  <1>3. CASE getCommittingBlocks(w)
    <2> DEFINE q == [pred[w] EXCEPT !.stage = "loaded", !.committing = locks]
    <2>1. pred' = [pred EXCEPT ![w] = q] /\ UNCHANGED <<log, log_version, log_pointer, virtual_parts, mutations>>
      BY Zenon, <1>3 DEF getCommittingBlocks, zk, queues
    <2>2. q.stage # "selected"
      BY <1>0 DEF Predicates
    <2> HIDE DEF q
    <2> QED BY Zenon, <1>1, <2>1, <2>2
  <1>4. CASE PredPullLogs(w)
    <2> DEFINE q == [pred[w] EXCEPT !.stage = "pulling"]
    <2>1. pred' = [pred EXCEPT ![w] = q] /\ UNCHANGED <<log, log_version, log_pointer, virtual_parts, mutations>>
      BY Zenon, <1>4 DEF PredPullLogs, zk
    <2>2. q.stage # "selected"
      BY <1>0 DEF Predicates
    <2> HIDE DEF q
    <2> QED BY Zenon, <1>1, <2>1, <2>2
  <1>5. CASE SelectPartsToMerge(w)
    <2>1. PICK S \in SUBSET {p \in mergeable(Home[w]) : canMergeSinglePart(w, p)} :
               \E first, last, top, newest \in S :
                   /\ assign(S, first, last, top, newest)
                   /\ \A p, q \in S : consecutive(S, p, q) => canMergeTwoParts(w, p, q)
                   /\ Select(w, Entry("MERGE_PARTS", futurePart(first, last, top, newest), S))
      BY Zenon, <1>5 DEF SelectPartsToMerge
    <2>2. PICK first \in S, last \in S, top \in S, newest \in S :
                   /\ assign(S, first, last, top, newest)
                   /\ \A p, q \in S : consecutive(S, p, q) => canMergeTwoParts(w, p, q)
                   /\ Select(w, Entry("MERGE_PARTS", futurePart(first, last, top, newest), S))
      BY Zenon, <2>1
    <2>3. Selection(w, S, first, last, top, newest)
      BY Zenon, <2>2 DEF Selection
    <2>4. pred[w].stage = "ready"
      BY Zenon, <1>5 DEF SelectPartsToMerge
    <2>5. pred[w].version = log_version => \A v \in Known(mutations, Len(mutations)) :
             Consistent(Entry("MERGE_PARTS", futurePart(first, last, top, newest), S), v)
      BY Zenon, <2>3, <2>4, MergeIsConsistent
    <2>6. pred[w].version = log_version =>
             Assigned(AliveIn(log, Len(log)),
                      Entry("MERGE_PARTS", futurePart(first, last, top, newest), S))
      BY Zenon, <2>3, <2>4, MergeIsAssigned
    <2> QED BY Zenon, <2>2, <2>5, <2>6, LogSelect, AgreeSelect
  <1>6. CASE SelectPartToMutate(w)
    <2>1. PICK p \in mergeable(Home[w]), i \in 1 .. loaded[Home[w]] :
             /\ mutations[i] > getCurrentMutationVersion(Home[w], getDataVersion(p))
             /\ Select(w, Entry("MUTATE_PART", [p EXCEPT !.mutation = mutations[i]], {p}))
      BY Zenon, <1>6 DEF SelectPartToMutate
    <2>2. pred[w].stage = "ready"
      BY Zenon, <1>6 DEF SelectPartToMutate
    <2>3. pred[w].version = log_version => \A v \in Known(mutations, Len(mutations)) :
             Consistent(Entry("MUTATE_PART", [p EXCEPT !.mutation = mutations[i]], {p}), v)
      BY Zenon, <2>1, <2>2, MutationIsConsistent
    <2>4. pred[w].version = log_version =>
             Assigned(AliveIn(log, Len(log)),
                      Entry("MUTATE_PART", [p EXCEPT !.mutation = mutations[i]], {p}))
      BY Zenon, <2>1, <2>2, MutationIsAssigned
    <2> QED BY Zenon, <2>1, <2>3, <2>4, LogSelect, AgreeSelect
  <1>7. CASE SelectPartToDrop(w)
    <2>1. PICK p \in mergeable(Home[w]) : Select(w, Entry("DROP_PART", p, {}))
      BY Zenon, <1>7 DEF SelectPartToDrop
    <2>2. pred[w].stage = "ready"
      BY Zenon, <1>7 DEF SelectPartToDrop
    <2>3. ASSUME pred[w].version = log_version PROVE p \in AliveIn(log, Len(log))
      <3> DEFINE k == log_pointer[Home[w]]
      <3>1. /\ k \in 0 .. Len(log) /\ p \in AliveIn(log, k)
            /\ \A j \in k + 1 .. Len(log) : log[j].type = "GET_PART"
        BY Zenon, <2>2, <2>3, ViewOfTheLog
      <3> QED BY Zenon, <3>1, BaseFacts, InsertsKeep DEF LogInv
    <2>4. pred[w].version = log_version =>
             Assigned(AliveIn(log, Len(log)), Entry("DROP_PART", p, {}))
      BY Zenon, <2>3 DEF Assigned, Entry
    <2>5. \A v : Consistent(Entry("DROP_PART", p, {}), v)
      BY DEF Consistent, Entry, Producing
    <2> QED BY Zenon, <2>1, <2>4, <2>5, LogSelect, AgreeSelect
  <1>8. CASE LogUpdated(w) \/ CannotSelect(w)
    <2>1. NoPredicate.stage # "selected"
      BY DEF NoPredicate
    <2> QED BY Zenon, <1>1, <1>8, <2>1 DEF LogUpdated, CannotSelect, zk, queues
  <1>9. CASE CreateLogEntry(w)
    <2> DEFINE e == pred[w].entry
    <2>1. /\ pred[w].stage = "selected" /\ pred[w].version = log_version
          /\ log' = Append(log, e) /\ log_version' = log_version + 1
          /\ pred' = [pred EXCEPT ![w] = NoPredicate] /\ UNCHANGED mutations
      BY Zenon, <1>9 DEF CreateLogEntry, AppendToLog
    <2>2. NoPredicate.stage # "selected"
      BY DEF NoPredicate
    <2>3. \A v \in Assigners : pred'[v].stage # "selected" \/ pred'[v].version # log_version'
      BY Zenon, <1>0, <2>1, <2>2, VersionsExpire
    <2>4. \A v \in Known(mutations, Len(mutations)) : Consistent(e, v)
      BY Zenon, <2>1 DEF AgreeInv
    <2> HIDE DEF e
    <2>5. LogInv'
      BY Zenon, <1>9, LogCreate
    <2>6. log \in Seq(LogEntries)
      BY Zenon, BaseFacts
    <2> QED BY Zenon, <2>1, <2>3, <2>4, <2>5, <2>6, AgreeGrows
  <1> QED BY Zenon, <1>2, <1>3, <1>4, <1>5, <1>6, <1>7, <1>8, <1>9 DEF Assigner

LEMMA ReplicaStep ==
    ASSUME Base, LogInv, AgreeInv, NEW r \in Replicas, Replica(r)
    PROVE  LogInv' /\ AgreeInv'
  <1>1. CASE PullDone(r)
    <2>1. UNCHANGED <<log, log_version, log_pointer, virtual_parts, mutations>>
      BY Zenon, <1>1 DEF PullDone, zk
    <2>2. pred \in [Assigners -> Predicates]
      BY Zenon, BaseFacts DEF TypeInv, TypeOK
    <2>3. ASSUME NEW w \in Assigners PROVE pred'[w] = pred[w] \/ pred'[w].stage # "selected"
      <3> DEFINE q == [pred[w] EXCEPT !.stage = "ready", !.version = pull[r].version]
      <3>1. pred'[w] = q \/ pred'[w] = pred[w]
        BY Zenon, <1>1 DEF PullDone
      <3>2. q.stage = "ready"
        BY <2>2 DEF Predicates
      <3> HIDE DEF q
      <3> QED BY <3>1, <3>2
    <2> QED BY Zenon, <2>1, <2>3, LogUntouched, AgreeStays
  <1>2. CASE \/ queueUpdatingTask(r) \/ PullListLog(r) \/ PullUpdateMutations(r)
             \/ mutationsUpdatingTask(r)
    <2>1. UNCHANGED <<log, log_version, log_pointer, virtual_parts, mutations, pred>>
      BY Zenon, <1>2 DEF queueUpdatingTask, PullListLog, PullUpdateMutations,
                         mutationsUpdatingTask, zk
    <2> QED BY Zenon, <2>1, LogUntouched, AgreeStays
  <1>3. CASE PullCopyEntry(r) \/ ExecuteDropRange(r)
    <2>1. UNCHANGED <<log, log_version, mutations, pred>>
      BY Zenon, <1>3 DEF PullCopyEntry, ExecuteDropRange, zk
    <2> QED BY Zenon, <1>3, <2>1, LogCopy, LogExecute, AgreeStays
  <1> QED BY Zenon, <1>1, <1>2, <1>3 DEF Replica, PullStep

LEMMA ClientsStep ==
    ASSUME Base, LogInv, AgreeInv,
           \/ Insert \/ (\E m \in Mutators : Mutate(m))
           \/ (\E d \in Droppers : DropPartition(d))
    PROVE  LogInv' /\ AgreeInv'
  <1>1. CASE \E i \in inserts : InsertCommit(i)
    <2>1. PICK i \in inserts : InsertCommit(i)
      BY Zenon, <1>1
    <2>2. LogInv'
      BY Zenon, <2>1, LogInsert
    <2> DEFINE e == Entry("GET_PART", Part(Partition, i.number, i.number, 0, 0), {})
    <2>3. log' = Append(log, e) /\ UNCHANGED <<log_version, mutations, pred>>
      BY Zenon, <2>1 DEF InsertCommit, AppendToLog
    <2>4. /\ e.type = "GET_PART" /\ i.number \in Nat
          /\ e.new_part.min_block = i.number /\ e.new_part.max_block = i.number
      <3>1. i.number \in Nat
        BY Zenon, <2>1, BaseFacts DEF InsertCommit
      <3> QED BY Zenon, <3>1 DEF Entry, Part
    <2> HIDE DEF e
    <2>5. ASSUME NEW v \in Known(mutations, Len(mutations)) PROVE Consistent(e, v)
      <3>1. v # i.number
        BY Zenon DEF Base, Owners, Apart, InsertsApart
      <3>2. v \notin Blocks(e.new_part)
        BY <2>4, <3>1 DEF Blocks
      <3> QED BY <2>4, <3>2 DEF Consistent, SplitFree
    <2>6. log \in Seq(LogEntries)
      BY Zenon, BaseFacts
    <2> QED BY Zenon, <2>2, <2>3, <2>5, <2>6, AgreeGrows
  <1>2. CASE \E d \in Droppers : DropCommit(d)
    <2>1. PICK d \in Droppers : DropCommit(d)
      BY Zenon, <1>2
    <2>2. LogInv'
      BY Zenon, <2>1, LogDrop
    <2> DEFINE e == Entry("DROP_RANGE", DropRangePart(dropper[d].number), {})
    <2>3. /\ log' = log \/ log' = Append(log, e)
          /\ log_version' = log_version + 1 /\ UNCHANGED <<mutations, pred>>
      BY Zenon, <2>1 DEF DropCommit, AppendToLog
    <2>4. \A v : Consistent(e, v)
      BY DEF Consistent, Entry, Producing
    <2> HIDE DEF e
    <2>5. \A w \in Assigners : pred'[w].version # log_version'
      BY Zenon, <2>3, VersionsExpire
    <2>6. log \in Seq(LogEntries)
      BY Zenon, BaseFacts
    <2> QED BY Zenon, <2>2, <2>3, <2>4, <2>5, <2>6, AgreeGrows
  <1>3. CASE Insert /\ ~\E i \in inserts : InsertCommit(i)
    <2>1. UNCHANGED <<log, log_version, log_pointer, virtual_parts, mutations, pred>>
      BY Zenon, <1>3 DEF Insert, InsertLock, InsertCancelled, InsertAbort, zk, queues
    <2> QED BY Zenon, <2>1, LogUntouched, AgreeStays
  <1>4. CASE \E m \in Mutators : Mutate(m)
    <2>1. UNCHANGED <<log, log_version, log_pointer, virtual_parts, pred>>
      BY Zenon, <1>4 DEF Mutate, MutateReadVersion, MutateAllocate, MutateCommit,
                         MutateConflict, MutateUnlock, zk, queues
    <2>2. LogInv'
      BY Zenon, <2>1, LogUntouched
    <2>3. CASE \E m \in Mutators : MutateCommit(m)
      BY Zenon, <2>2, <2>3, AgreeMutate
    <2>4. CASE ~\E m \in Mutators : MutateCommit(m)
      <3>1. UNCHANGED mutations
        BY Zenon, <1>4, <2>4 DEF Mutate, MutateReadVersion, MutateAllocate,
                                 MutateConflict, MutateUnlock, zk
      <3> QED BY Zenon, <2>1, <2>2, <3>1, AgreeStays
    <2> QED BY Zenon, <2>3, <2>4
  <1>5. CASE (\E d \in Droppers : DropPartition(d)) /\ ~\E d \in Droppers : DropCommit(d)
    <2>1. UNCHANGED <<log, log_version, log_pointer, virtual_parts, mutations, pred>>
      BY Zenon, <1>5 DEF DropPartition, DropReadVersion, DropAllocate, DropEmpty,
                         DropCancelInsert, DropCleared, DropConflict, zk, queues
    <2> QED BY Zenon, <2>1, LogUntouched, AgreeStays
  <1> QED BY Zenon, <1>1, <1>2, <1>3, <1>4, <1>5

LEMMA LogStep == Base /\ LogInv /\ AgreeInv /\ [Next]_vars => LogInv' /\ AgreeInv'
  <1> SUFFICES ASSUME Base, LogInv, AgreeInv, [Next]_vars PROVE LogInv' /\ AgreeInv'
    BY Zenon
  <1>1. CASE UNCHANGED vars
    <2>1. UNCHANGED <<log, log_version, log_pointer, virtual_parts, mutations, pred>>
      BY Zenon, <1>1 DEF vars, zk, queues
    <2> QED BY Zenon, <2>1, LogUntouched, AgreeStays
  <1> QED BY Zenon, <1>1, ClientsStep, ReplicaStep, AssignerStep DEF Next

LEMMA LogInit == Init => LogInv /\ AgreeInv
  <1> SUFFICES ASSUME Init PROVE LogInv /\ AgreeInv
    BY Zenon
  <1>1. log = <<>> /\ Len(log) = 0 /\ 0 \in Nat
    BY DEF Init
  <1>2. (\A i \in 1 .. 0 : FALSE) /\ (\A k \in 0 .. 0 : k = 0) /\ 0 <= MaxLog
    BY ConstantsAssumption
  <1>3. AliveIn(log, 0) = {} /\ RangesIn(log, 0) = {}
    BY Zenon, <1>2 DEF AliveIn, RangesIn
  <1>4. LogOK(log)
    <2>1. SetOK({}, {}, 0)
      BY Zenon DEF SetOK
    <2> QED BY Zenon, <1>1, <1>2, <1>3, <2>1 DEF LogOK, Grows, Kept
  <1>5. ASSUME NEW r \in Replicas PROVE QueueOK(r)
    <2>1. virtual_parts[r] = {} /\ log_pointer[r] = 0
      BY Zenon DEF Init
    <2> QED BY Zenon, <1>3, <2>1 DEF QueueOK, Reflects
  <1>6. ASSUME NEW w \in Assigners PROVE ChoiceOK(w)
    <2>1. pred[w] = NoPredicate /\ NoPredicate.stage # "selected"
      BY DEF Init, NoPredicate
    <2> QED BY Zenon, <2>1 DEF ChoiceOK
  <1>7. AgreeInv
    <2>1. mutations = <<>> /\ Len(mutations) = 0
      BY DEF Init
    <2> QED BY Zenon, <1>2, <2>1 DEF AgreeInv, Known
  <1> QED BY Zenon, <1>4, <1>5, <1>6, <1>7 DEF LogInv
==============================================================================
