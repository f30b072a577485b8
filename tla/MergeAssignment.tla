--------------------------- MODULE MergeAssignment ---------------------------
(***************************************************************************)
(* How the replicas of one ReplicatedMergeTree table agree on merges,      *)
(* mutations and drops through ZooKeeper, for one partition.               *)
(*                                                                         *)
(* Clients insert, mutate and drop; each takes a block number by creating  *)
(* an ephemeral sequential node.  Replicas pull the shared log into their  *)
(* queues.  Assigners (the merge selecting task, OPTIMIZE, DROP PART)      *)
(* build a ReplicatedMergeTreeMergePredicate in three separate steps and   *)
(* append an entry if the version of /log has not changed since.           *)
(*                                                                         *)
(* Every ZooKeeper request is one step; so is every critical section of a  *)
(* replica's state_mutex.                                                  *)
(***************************************************************************)
EXTENDS ActiveDataPartSet, Sequences

CONSTANTS
    Replicas,
    Assigners,       (* threads that build a merge predicate               *)
    Home,            (* the replica each assigner runs on                  *)
    MergeSelectors,  (* the assigners that select merges and mutations     *)
    PartDroppers,    (* the assigners that execute DROP PART queries       *)
    Mutators,        (* ALTER ... UPDATE/DELETE queries                    *)
    Droppers,        (* DROP PARTITION queries                             *)
    LockContents,    (* contents of the locks of inserts: subset of below  *)
    MaxBlocks,       (* bound on allocated block numbers                   *)
    MaxLog           (* bound on log entries                               *)

(* createEphemeralLockInZooKeeper: LEGACY_LOCK_INSERT for an insert with a *)
(* deduplication path, LEGACY_LOCK_OTHER for anything else.                *)
Contents == {"insert", "other"}

ASSUME ConstantsAssumption ==
    /\ Home \in [Assigners -> Replicas]
    /\ MergeSelectors \cup PartDroppers \subseteq Assigners
    /\ LockContents \subseteq Contents
    /\ MaxBlocks \in Nat
    /\ MaxBlocks < MAX_BLOCK_NUMBER
    /\ MaxLog \in Nat
    /\ MaxLog < MAX_LEVEL

VARIABLES
    next_block,      (* sequence counter of block_numbers/<partition>      *)
    locks,           (* block numbers whose ephemeral node exists          *)
    inserts,         (* inserts holding a number they have not committed   *)
    log,             (* the nodes of /log                                  *)
    log_version,     (* data version of /log                               *)
    mutations,       (* versions of the nodes of /mutations, in order      *)
    alter_partition_version,
    mutator,         (* progress of each mutation query                    *)
    dropper,         (* progress of each DROP PARTITION query              *)
    log_pointer,     (* per replica: entries copied to its queue           *)
    virtual_parts,   (* per replica                                        *)
    loaded,          (* per replica: how many mutations it has loaded      *)
    pull,            (* per replica: the pullLogsToQueue in progress       *)
    pred             (* per assigner: its merge predicate                  *)

zk == <<next_block, locks, log, log_version, mutations, alter_partition_version>>
clients == <<inserts, mutator, dropper>>
queues == <<log_pointer, virtual_parts, loaded, pull>>
vars == <<zk, clients, queues, pred>>

-----------------------------------------------------------------------------
Partition == 0

EntryTypes == {"GET_PART", "MERGE_PARTS", "MUTATE_PART", "DROP_PART", "DROP_RANGE"}

Entry(type, new_part, source_parts) ==
    [type |-> type, new_part |-> new_part, source_parts |-> source_parts]

LogEntries == [type : EntryTypes, new_part : Parts, source_parts : SUBSET Parts]

(* Append one entry; only merges, mutations and drops touch the version.   *)
AppendToLog(entry) ==
    /\ Len(log) < MaxLog
    /\ log' = Append(log, entry)

-----------------------------------------------------------------------------
(* Block numbers: ReplicatedMergeTreeSink, EphemeralLockInZooKeeper.       *)

allocateBlockNumber ==
    /\ next_block < MaxBlocks
    /\ next_block' = next_block + 1
    /\ locks' = locks \cup {next_block}

InsertLock(content) ==
    /\ allocateBlockNumber
    /\ inserts' = inserts \cup {[number |-> next_block, content |-> content]}
    /\ UNCHANGED <<log, log_version, mutations, alter_partition_version,
                   mutator, dropper, queues, pred>>

(* One multi creates the log entry and removes the lock, or fails.         *)
InsertCommit(i) ==
    /\ i.number \in locks
    /\ AppendToLog(Entry("GET_PART", Part(Partition, i.number, i.number, 0, 0), {}))
    /\ locks' = locks \ {i.number}
    /\ inserts' = inserts \ {i}
    /\ UNCHANGED <<next_block, log_version, mutations, alter_partition_version,
                   mutator, dropper, queues, pred>>

(* The multi found no lock to remove: cancelled by a concurrent drop.      *)
InsertCancelled(i) ==
    /\ i.number \notin locks
    /\ inserts' = inserts \ {i}
    /\ UNCHANGED <<zk, mutator, dropper, queues, pred>>

(* An exception or the end of the session removes the lock.                *)
InsertAbort(i) ==
    /\ locks' = locks \ {i.number}
    /\ inserts' = inserts \ {i}
    /\ UNCHANGED <<next_block, log, log_version, mutations,
                   alter_partition_version, mutator, dropper, queues, pred>>

-----------------------------------------------------------------------------
(* StorageReplicatedMergeTree::mutate.                                     *)

NoMutation == [pc |-> "start", seen |-> 0, number |-> 0]

MutateReadVersion(m) ==
    /\ mutator[m].pc = "start"
    /\ mutator' = [mutator EXCEPT ![m] =
            [pc |-> "allocate", seen |-> Len(mutations), number |-> 0]]
    /\ UNCHANGED <<zk, inserts, dropper, queues, pred>>

MutateAllocate(m) ==
    /\ mutator[m].pc = "allocate"
    /\ allocateBlockNumber
    /\ mutator' = [mutator EXCEPT ![m].pc = "commit", ![m].number = next_block]
    /\ UNCHANGED <<log, log_version, mutations, alter_partition_version,
                   inserts, dropper, queues, pred>>

(* Mutated form: the version of /mutations is not checked.                 *)
MutateCommit_unchecked(m) ==
    /\ mutator[m].pc = "commit"
    /\ mutations' = Append(mutations, mutator[m].number)
    /\ mutator' = [mutator EXCEPT ![m].pc = "committed", ![m].seen = 0]
    /\ UNCHANGED <<next_block, locks, log, log_version, alter_partition_version,
                   inserts, dropper, queues, pred>>

(* The multi checks and sets the version of /mutations, which grows by one *)
(* with every mutation; the block number stays locked across it.           *)
MutateCommit(m) ==
    /\ mutator[m].pc = "commit"
    /\ mutator[m].seen = Len(mutations)
    /\ mutations' = Append(mutations, mutator[m].number)
    /\ mutator' = [mutator EXCEPT ![m].pc = "committed", ![m].seen = 0]
    /\ UNCHANGED <<next_block, locks, log, log_version, alter_partition_version,
                   inserts, dropper, queues, pred>>

MutateConflict(m) ==
    /\ mutator[m].pc = "commit"
    /\ mutator[m].seen # Len(mutations)
    /\ mutator' = [mutator EXCEPT ![m].pc = "conflict", ![m].seen = 0]
    /\ UNCHANGED <<zk, inserts, dropper, queues, pred>>

(* partition_block_numbers_holder.reset(), then stop or try again.         *)
MutateUnlock(m) ==
    /\ mutator[m].pc \in {"committed", "conflict"}
    /\ locks' = locks \ {mutator[m].number}
    /\ mutator' = [mutator EXCEPT ![m] =
            [NoMutation EXCEPT !.pc = IF mutator[m].pc = "committed"
                                      THEN "done" ELSE "start"]]
    /\ UNCHANGED <<next_block, log, log_version, mutations,
                   alter_partition_version, inserts, dropper, queues, pred>>

-----------------------------------------------------------------------------
(* DROP PARTITION: dropAllPartsInPartitions.                               *)

NoDrop == [pc |-> "start", seen |-> 0, number |-> 0]

(* Mutated form: the version of the drop is the delimiting number.         *)
DropRangePart_versioned(number) == Part(Partition, 0, number - 1, MAX_LEVEL, number)

DropRangePart(number) ==
    Part(Partition, 0, number - 1, MAX_LEVEL, MAX_BLOCK_NUMBER)

DropReadVersion(d) ==
    /\ dropper[d].pc = "start"
    /\ dropper' = [dropper EXCEPT ![d] =
            [pc |-> "allocate", seen |-> alter_partition_version, number |-> 0]]
    /\ UNCHANGED <<zk, inserts, mutator, queues, pred>>

(* getFakePartCoveringAllPartsInPartition takes the delimiting number.     *)
DropAllocate(d) ==
    /\ dropper[d].pc = "allocate"
    /\ allocateBlockNumber
    /\ dropper' = [dropper EXCEPT ![d].pc = "clear", ![d].number = next_block]
    /\ UNCHANGED <<log, log_version, mutations, alter_partition_version,
                   inserts, mutator, queues, pred>>

(* Number 0 delimits an empty partition: its lock is released at once and  *)
(* nothing will be logged.                                                 *)
DropEmpty(d) ==
    /\ dropper[d].pc = "clear"
    /\ dropper[d].number = 0
    /\ locks' = locks \ {dropper[d].number}
    /\ dropper' = [dropper EXCEPT ![d].pc = "commit"]
    /\ UNCHANGED <<next_block, log, log_version, mutations,
                   alter_partition_version, inserts, mutator, queues, pred>>

(* Mutated form: the locks of inserts are left alone.                      *)
cancellable_none(number) == {}

(* clearLockedBlockNumbersInPartition skips the locks of other queries and *)
(* removes those of inserts, one request each.                             *)
cancellable(number) ==
    {i \in inserts : i.number \in locks /\ i.number < number /\ i.content = "insert"}

DropCancelInsert(d) ==
    /\ dropper[d].pc = "clear"
    /\ \E i \in cancellable(dropper[d].number) : locks' = locks \ {i.number}
    /\ UNCHANGED <<next_block, log, log_version, mutations,
                   alter_partition_version, clients, queues, pred>>

DropCleared(d) ==
    /\ dropper[d].pc = "clear"
    /\ dropper[d].number # 0
    /\ cancellable(dropper[d].number) = {}
    /\ dropper' = [dropper EXCEPT ![d].pc = "commit"]
    /\ UNCHANGED <<zk, inserts, mutator, queues, pred>>

(* Mutated form: no check for an empty partition.                          *)
DropCommit_empty(d) ==
    /\ dropper[d].pc = "commit"
    /\ dropper[d].seen = alter_partition_version
    /\ AppendToLog(Entry("DROP_RANGE", DropRangePart(dropper[d].number), {}))
    /\ locks' = locks \ {dropper[d].number}
    /\ log_version' = log_version + 1
    /\ alter_partition_version' = alter_partition_version + 1
    /\ dropper' = [dropper EXCEPT ![d] = [NoDrop EXCEPT !.pc = "done"]]
    /\ UNCHANGED <<next_block, mutations, inserts, mutator, queues, pred>>

(* With nothing to drop no entry is logged, but the versions still change. *)
DropCommit(d) ==
    /\ dropper[d].pc = "commit"
    /\ dropper[d].seen = alter_partition_version
    /\ IF dropper[d].number = 0
       THEN log' = log
       ELSE AppendToLog(Entry("DROP_RANGE", DropRangePart(dropper[d].number), {}))
    /\ locks' = locks \ {dropper[d].number}
    /\ log_version' = log_version + 1
    /\ alter_partition_version' = alter_partition_version + 1
    /\ dropper' = [dropper EXCEPT ![d] = [NoDrop EXCEPT !.pc = "done"]]
    /\ UNCHANGED <<next_block, mutations, inserts, mutator, queues, pred>>

DropConflict(d) ==
    /\ dropper[d].pc = "commit"
    /\ dropper[d].seen # alter_partition_version
    /\ locks' = locks \ {dropper[d].number}
    /\ dropper' = [dropper EXCEPT ![d] = NoDrop]
    /\ UNCHANGED <<next_block, log, log_version, mutations,
                   alter_partition_version, inserts, mutator, queues, pred>>

-----------------------------------------------------------------------------
(* ReplicatedMergeTreeQueue::pullLogsToQueue, under the replica's          *)
(* pull_logs_to_queue_mutex.  It is called by the queue updating task      *)
(* (nobody waits) or by the constructor of an assigner's predicate.        *)

NoPull == [stage |-> "idle", waiter |-> {}, version |-> 0, upto |-> 0, mut |-> 0]

PullStart(r, waiter) ==
    /\ pull[r].stage = "idle"
    /\ pull' = [pull EXCEPT ![r] =
            [NoPull EXCEPT !.stage = "list_log", !.waiter = waiter,
                           !.version = IF waiter = {} THEN 0 ELSE log_version]]

queueUpdatingTask(r) ==
    /\ PullStart(r, {})
    /\ UNCHANGED <<zk, clients, log_pointer, virtual_parts, loaded, pred>>

PullListLog(r) ==
    /\ pull[r].stage = "list_log"
    /\ pull' = [pull EXCEPT ![r].stage = "mutations", ![r].upto = Len(log),
                            ![r].mut = Len(mutations)]
    /\ UNCHANGED <<zk, clients, log_pointer, virtual_parts, loaded, pred>>

(* Mutated form: /mutations is listed before the log.                      *)
updateMutations_early(r, least) ==
    \E k \in 0 .. Len(mutations) :
        k >= loaded[r] /\ loaded' = [loaded EXCEPT ![r] = k]

(* updateMutations lists /mutations and later adds what is new under       *)
(* state_mutex.  What it adds is what it listed a while ago: at least what *)
(* was there when its caller listed the log, at most what is there now.    *)
updateMutations(r, least) ==
    \E k \in 0 .. Len(mutations) :
        /\ k >= least /\ k >= loaded[r]
        /\ loaded' = [loaded EXCEPT ![r] = k]

PullUpdateMutations(r) ==
    /\ pull[r].stage = "mutations"
    /\ updateMutations(r, pull[r].mut)
    /\ pull' = [pull EXCEPT ![r].stage = "copy", ![r].mut = 0]
    /\ UNCHANGED <<zk, clients, log_pointer, virtual_parts, pred>>

mutationsUpdatingTask(r) ==
    /\ updateMutations(r, loaded[r] + 1)
    /\ UNCHANGED <<zk, clients, log_pointer, virtual_parts, pull, pred>>

insertUnlocked(S, entry) ==
    IF entry.type = "DROP_PART"
    THEN removePartAndCoveredParts(S, entry.new_part)
    ELSE addPart(S, entry.new_part)

(* What makes virtual_parts.add throw, and the server terminate.           *)
insertionFails(S, entry) ==
    entry.type # "DROP_PART" /\ addOutcome(S, entry.new_part) = "HasIntersectingPart"

(* Entries are copied in batches of 1, 2, 4 ... 100, each inserted under   *)
(* one lock; here one at a time, which allows every state a batch leaves.  *)
PullCopyEntry(r) ==
    LET entry == log[log_pointer[r] + 1]
    IN  /\ pull[r].stage = "copy"
        /\ log_pointer[r] < pull[r].upto
        /\ ~insertionFails(virtual_parts[r], entry)
        /\ log_pointer' = [log_pointer EXCEPT ![r] = @ + 1]
        /\ virtual_parts' = [virtual_parts EXCEPT ![r] = insertUnlocked(@, entry)]
        /\ UNCHANGED <<zk, clients, loaded, pull, pred>>

(* Mutated form: the mutex is not released.                                *)
PullDone_locked(r) ==
    /\ pull[r].stage = "copy"
    /\ log_pointer[r] >= pull[r].upto
    /\ UNCHANGED vars

(* Returns the version of /log read at the start to the waiting predicate. *)
PullDone(r) ==
    /\ pull[r].stage = "copy"
    /\ log_pointer[r] >= pull[r].upto
    /\ pred' = [w \in Assigners |->
                   IF w \in pull[r].waiter
                   THEN [pred[w] EXCEPT !.stage = "ready", !.version = pull[r].version]
                   ELSE pred[w]]
    /\ pull' = [pull EXCEPT ![r] = NoPull]
    /\ UNCHANGED <<zk, clients, log_pointer, virtual_parts, loaded>>

(* The queue has executed a DROP_RANGE entry: the fake part goes.          *)
ExecuteDropRange(r) ==
    /\ \E p \in virtual_parts[r] :
           /\ isFakeDropRangePart(p)
           /\ virtual_parts' = [virtual_parts EXCEPT ![r] = remove(@, p)]
    /\ UNCHANGED <<zk, clients, log_pointer, loaded, pull, pred>>

-----------------------------------------------------------------------------
(* ReplicatedMergeTreeMergePredicate.                                      *)

NoEntry == Entry("GET_PART", Part(Partition, 0, 0, 0, 0), {})

NoPredicate == [stage |-> "idle", prev |-> {}, committing |-> {},
                version |-> 0, entry |-> NoEntry]

PredCopyParts(w) ==
    /\ pred[w].stage = "idle"
    /\ pred' = [pred EXCEPT ![w].stage = "copied",
                            ![w].prev = virtual_parts[Home[w]]]
    /\ UNCHANGED <<zk, clients, queues>>

getCommittingBlocks(w) ==
    /\ pred[w].stage = "copied"
    /\ pred' = [pred EXCEPT ![w].stage = "loaded", ![w].committing = locks]
    /\ UNCHANGED <<zk, clients, queues>>

PredPullLogs(w) ==
    /\ pred[w].stage = "loaded"
    /\ PullStart(Home[w], {w})
    /\ pred' = [pred EXCEPT ![w].stage = "pulling"]
    /\ UNCHANGED <<zk, clients, log_pointer, virtual_parts, loaded>>

(* Of the loaded mutations, the greatest version up to data_version.       *)
getCurrentMutationVersion(r, data_version) ==
    LET applied == {v \in {mutations[i] : i \in 1 .. loaded[r]} : v <= data_version}
    IN  IF applied = {} THEN 0 ELSE CHOOSE v \in applied : \A u \in applied : u <= v

(* Mutated form: parts read after prev_virtual_parts was copied will do.   *)
canMergeSinglePart_fresh(w, p) == getContainingPart(virtual_parts[Home[w]], p) = {p}

canMergeSinglePart(w, p) ==
    /\ getContainingPart(pred[w].prev, p) # {}
    /\ getContainingPart(virtual_parts[Home[w]], p) = {p}

(* Mutated forms: the gap is not searched, mutation versions not compared. *)
canMergeTwoParts_gap(w, left, right) ==
    /\ canMergeSinglePart(w, left)
    /\ canMergeSinglePart(w, right)
    /\ \A b \in pred[w].committing : ~(left.max_block < b /\ b < right.min_block)
    /\ getCurrentMutationVersion(Home[w], getDataVersion(left))
         = getCurrentMutationVersion(Home[w], getDataVersion(right))

canMergeTwoParts_versions(w, left, right) ==
    /\ canMergeSinglePart(w, left)
    /\ canMergeSinglePart(w, right)
    /\ \A b \in pred[w].committing : ~(left.max_block < b /\ b < right.min_block)
    /\ \A p \in virtual_parts[Home[w]] :
           ~(left.max_block < p.min_block /\ p.max_block < right.min_block)

canMergeTwoParts(w, left, right) ==
    LET swapped == left.max_block > right.min_block
        lo == IF swapped THEN right.min_block ELSE left.max_block
        hi == IF swapped THEN left.max_block ELSE right.min_block
        parts == virtual_parts[Home[w]]
    IN  /\ canMergeSinglePart(w, left)
        /\ canMergeSinglePart(w, right)
        /\ \A b \in pred[w].committing : ~(lo < b /\ b < hi)
        /\ lo + 1 < hi =>
              getPartsCoveredBy(parts,
                  Part(Partition, lo + 1, hi - 1, MAX_LEVEL, MAX_BLOCK_NUMBER)) = {}
        /\ getCurrentMutationVersion(Home[w], getDataVersion(left))
             = getCurrentMutationVersion(Home[w], getDataVersion(right))

(* What a replica may have on disk of its virtual parts: it can merge only *)
(* those, but any of them may be there or not.                             *)
mergeable(r) == {p \in virtual_parts[r] : ~isFakeDropRangePart(p)}

consecutive(S, left, right) ==
    /\ left \in S /\ right \in S
    /\ left.min_block < right.min_block
    /\ \A p \in S : p.min_block <= left.min_block \/ right.min_block <= p.min_block

(* FutureMergedMutatedPart::assign: the ends of the range, one level above *)
(* the highest, the newest mutation.                                       *)
futurePart(first, last, top, newest) ==
    Part(Partition, first.min_block, last.max_block, top.level + 1, newest.mutation)

assign(S, first, last, top, newest) ==
    \A q \in S : /\ first.min_block <= q.min_block
                 /\ q.min_block <= last.min_block
                 /\ q.level <= top.level
                 /\ q.mutation <= newest.mutation

(* From here on the predicate is only good for its version.                *)
Select(w, entry) ==
    /\ pred' = [pred EXCEPT ![w] =
            [NoPredicate EXCEPT !.stage = "selected", !.entry = entry,
                                !.version = pred[w].version]]
    /\ UNCHANGED <<zk, clients, queues>>

(* A range of local parts, each acceptable alone and with its successor.   *)
SelectPartsToMerge(w) ==
    /\ pred[w].stage = "ready"
    /\ \E S \in SUBSET {p \in mergeable(Home[w]) : canMergeSinglePart(w, p)} :
       \E first, last, top, newest \in S :
           /\ assign(S, first, last, top, newest)
           /\ \A p, q \in S : consecutive(S, p, q) => canMergeTwoParts(w, p, q)
           /\ Select(w, Entry("MERGE_PARTS", futurePart(first, last, top, newest), S))

(* Mutated form: prev_virtual_parts searched instead of virtual_parts.     *)
SelectPartToMutate_stale(w) ==
    /\ pred[w].stage = "ready"
    /\ \E p \in pred[w].prev, i \in 1 .. loaded[Home[w]] :
           /\ ~isFakeDropRangePart(p)
           /\ mutations[i] > getCurrentMutationVersion(Home[w], getDataVersion(p))
           /\ Select(w, Entry("MUTATE_PART", [p EXCEPT !.mutation = mutations[i]], {p}))

(* getDesiredMutationVersion: barriers, alters and the limit per entry     *)
(* decide how far beyond the current version it goes.                      *)
SelectPartToMutate(w) ==
    /\ pred[w].stage = "ready"
    /\ \E p \in mergeable(Home[w]), i \in 1 .. loaded[Home[w]] :
           /\ getContainingPart(virtual_parts[Home[w]], p) = {p}
           /\ mutations[i] > getCurrentMutationVersion(Home[w], getDataVersion(p))
           /\ Select(w, Entry("MUTATE_PART", [p EXCEPT !.mutation = mutations[i]], {p}))

SelectPartToDrop(w) ==
    /\ pred[w].stage = "ready"
    /\ \E p \in mergeable(Home[w]) :
           /\ canMergeSinglePart(w, p)
           /\ Select(w, Entry("DROP_PART", p, {}))

(* Mutated form: the version of /log is not checked.                       *)
CreateLogEntry_unchecked(w) ==
    /\ pred[w].stage = "selected"
    /\ AppendToLog(pred[w].entry)
    /\ log_version' = log_version + 1
    /\ pred' = [pred EXCEPT ![w] = NoPredicate]
    /\ UNCHANGED <<next_block, locks, mutations, alter_partition_version,
                   clients, queues>>

(* The multi that checks the version of /log and appends the entry.        *)
CreateLogEntry(w) ==
    /\ pred[w].stage = "selected"
    /\ pred[w].version = log_version
    /\ AppendToLog(pred[w].entry)
    /\ log_version' = log_version + 1
    /\ pred' = [pred EXCEPT ![w] = NoPredicate]
    /\ UNCHANGED <<next_block, locks, mutations, alter_partition_version,
                   clients, queues>>

LogUpdated(w) ==
    /\ pred[w].stage = "selected"
    /\ pred[w].version # log_version
    /\ pred' = [pred EXCEPT ![w] = NoPredicate]
    /\ UNCHANGED <<zk, clients, queues>>

(* Nothing was selected.                                                   *)
CannotSelect(w) ==
    /\ pred[w].stage = "ready"
    /\ pred' = [pred EXCEPT ![w] = NoPredicate]
    /\ UNCHANGED <<zk, clients, queues>>

-----------------------------------------------------------------------------
Init ==
    /\ next_block = 0
    /\ locks = {}
    /\ inserts = {}
    /\ log = <<>>
    /\ log_version = 0
    /\ mutations = <<>>
    /\ alter_partition_version = 0
    /\ mutator = [m \in Mutators |-> NoMutation]
    /\ dropper = [d \in Droppers |-> NoDrop]
    /\ log_pointer = [r \in Replicas |-> 0]
    /\ virtual_parts = [r \in Replicas |-> {}]
    /\ loaded = [r \in Replicas |-> 0]
    /\ pull = [r \in Replicas |-> NoPull]
    /\ pred = [w \in Assigners |-> NoPredicate]

Insert ==
    \/ \E content \in LockContents : InsertLock(content)
    \/ \E i \in inserts : InsertCommit(i) \/ InsertCancelled(i) \/ InsertAbort(i)

Mutate(m) ==
    \/ MutateReadVersion(m) \/ MutateAllocate(m)
    \/ MutateCommit(m) \/ MutateConflict(m) \/ MutateUnlock(m)

DropPartition(d) ==
    \/ DropReadVersion(d) \/ DropAllocate(d) \/ DropEmpty(d) \/ DropCancelInsert(d)
    \/ DropCleared(d) \/ DropCommit(d) \/ DropConflict(d)

PullStep(r) ==
    \/ PullListLog(r) \/ PullUpdateMutations(r)
    \/ PullCopyEntry(r) \/ PullDone(r)

Replica(r) ==
    \/ queueUpdatingTask(r) \/ PullStep(r)
    \/ mutationsUpdatingTask(r) \/ ExecuteDropRange(r)

Assigner(w) ==
    \/ PredCopyParts(w) \/ getCommittingBlocks(w) \/ PredPullLogs(w)
    \/ w \in MergeSelectors /\ (SelectPartsToMerge(w) \/ SelectPartToMutate(w))
    \/ w \in PartDroppers /\ SelectPartToDrop(w)
    \/ CreateLogEntry(w) \/ LogUpdated(w) \/ CannotSelect(w)

Next ==
    \/ Insert
    \/ \E m \in Mutators : Mutate(m)
    \/ \E d \in Droppers : DropPartition(d)
    \/ \E r \in Replicas : Replica(r)
    \/ \E w \in Assigners : Assigner(w)

Spec == Init /\ [][Next]_vars

(* Replicas keep pulling and executing: the watch on /log reschedules the  *)
(* queue updating task, and pullLogsToQueue runs to its end.  Clients and  *)
(* assigners may stop at any point.                                        *)
Fairness ==
    \A r \in Replicas : /\ WF_vars(queueUpdatingTask(r))
                        /\ WF_vars(PullStep(r))
                        /\ WF_vars(ExecuteDropRange(r))

FairSpec == Spec /\ Fairness

-----------------------------------------------------------------------------
MutatorSteps == {"start", "allocate", "commit", "committed", "conflict", "done"}
DropperSteps == {"start", "allocate", "clear", "commit", "done"}
Pulls == [stage : {"idle", "list_log", "mutations", "copy"},
          waiter : SUBSET Assigners, version : Nat, upto : Nat, mut : Nat]
Predicates == [stage : {"idle", "copied", "loaded", "pulling", "ready", "selected"},
               prev : SUBSET Parts, committing : SUBSET Nat, version : Nat,
               entry : LogEntries]

(* The type invariant.  Parts is where it is more than bookkeeping: every  *)
(* part in the log and in virtual_parts is a valid, non-empty range.       *)
TypeOK ==
    /\ next_block \in Nat
    /\ locks \subseteq Nat
    /\ inserts \subseteq [number : Nat, content : Contents]
    /\ log \in Seq(LogEntries)
    /\ log_version \in Nat
    /\ mutations \in Seq(Nat)
    /\ alter_partition_version \in Nat
    /\ mutator \in [Mutators -> [pc : MutatorSteps, seen : Nat, number : Nat]]
    /\ dropper \in [Droppers -> [pc : DropperSteps, seen : Nat, number : Nat]]
    /\ log_pointer \in [Replicas -> Nat]
    /\ virtual_parts \in [Replicas -> SUBSET Parts]
    /\ loaded \in [Replicas -> Nat]
    /\ pull \in [Replicas -> Pulls]
    /\ pred \in [Assigners -> Predicates]

(* An insert that can still commit: it holds its number.                   *)
InFlight == {i.number : i \in {j \in inserts : j.number \in locks}}

Indices(type) == {i \in 1 .. Len(log) : log[i].type = type}

Produces == Indices("GET_PART") \cup Indices("MERGE_PARTS") \cup Indices("MUTATE_PART")

(* "Part ... intersects ... It is a bug": no entry a replica has still to  *)
(* pull makes virtual_parts.add throw, which would terminate the server.   *)
NoIntersectingParts ==
    \A r \in Replicas :
        log_pointer[r] < Len(log) =>
            ~insertionFails(virtual_parts[r], log[log_pointer[r] + 1])

(* "no new parts will ever appear in the range of blocks between left and  *)
(* right": no part in the log covers the block number of an insert that    *)
(* can still commit, so neither a merge nor a DROP PART swallows its data. *)
(* (A DROP_RANGE is meant to; see DropRangeIsolation.)                     *)
NoInsertIsSwallowed ==
    \A i \in 1 .. Len(log) :
        log[i].type # "DROP_RANGE" => Blocks(log[i].new_part) \cap InFlight = {}

(* A merge loses nothing: a block inserted anywhere in its range was in    *)
(* the log before it, and is in one of its source parts unless a drop      *)
(* between the two removed it.                                             *)
MergeKeepsBlocks ==
    \A j \in Indices("MERGE_PARTS"), i \in Indices("GET_PART") :
        LET b == log[i].new_part.min_block
        IN  b \in Blocks(log[j].new_part) =>
              /\ i < j
              /\ \/ \E p \in log[j].source_parts : b \in Blocks(p)
                 \/ \E k \in i + 1 .. j - 1 :
                        log[k].type \in {"DROP_PART", "DROP_RANGE"}
                        /\ b \in Blocks(log[k].new_part)

(* The parts an entry takes.                                               *)
Consumed(i) == IF log[i].type = "DROP_PART" THEN {log[i].new_part}
                                            ELSE log[i].source_parts

(* "any part can be mutated only once or merged only once": no part is     *)
(* taken by two entries, whatever replicas assigned them.                  *)
EachPartIsTakenOnce ==
    \A i, j \in 1 .. Len(log) : i # j => Consumed(i) \cap Consumed(j) = {}

(* "all source parts for a single merge must have the same mutation        *)
(* version": every mutation, those created after the merge included, is    *)
(* applied to all its sources and to its result or to none of them.        *)
MergeSourcesAgreeOnMutations ==
    \A j \in Indices("MERGE_PARTS"), k \in 1 .. Len(mutations) :
        \A p \in log[j].source_parts :
            (mutations[k] <= getDataVersion(p))
                <=> (mutations[k] <= getDataVersion(log[j].new_part))

(* "mutation entries appear in /mutations in the order of their mutation   *)
(* versions".                                                              *)
MutationsAreOrdered ==
    \A i, j \in 1 .. Len(mutations) : i < j => mutations[i] < mutations[j]

(* "When a replica encounters a MUTATE_PART command, it is guaranteed that *)
(* the corresponding mutation entry is already loaded".                    *)
MutationLoadedBeforeEntry ==
    \A r \in Replicas : \A i \in 1 .. log_pointer[r] :
        log[i].type = "MUTATE_PART" =>
            \E k \in 1 .. loaded[r] : mutations[k] = log[i].new_part.mutation

(* "merges of deleted parts with other parts do not appear in the log",    *)
(* and nothing appears in a dropped range after it was dropped.            *)
DropRangeIsolation ==
    \A k \in Indices("DROP_RANGE"), i \in Produces :
        \/ isDisjoint(log[i].new_part, log[k].new_part)
        \/ i < k /\ contains(log[k].new_part, log[i].new_part)

(* The replicas' virtual parts are a function of the log they have read:   *)
(* once all have read all of it and executed the drops, they are equal.    *)
ReplicasAgree ==
    \A r, s \in Replicas :
        log_pointer[r] = log_pointer[s] => mergeable(r) = mergeable(s)

(* Every replica that keeps pulling gets to the end of the log, although   *)
(* its pulls share one mutex with those of the predicates; and no fake     *)
(* part of a DROP_RANGE blocks merges for ever: each is removed from       *)
(* virtual_parts when its entry has been executed.                         *)
ReplicasCatchUp ==
    <>[](\A r \in Replicas :
            /\ log_pointer[r] = Len(log)
            /\ \A p \in virtual_parts[r] : ~isFakeDropRangePart(p))
==============================================================================
