# A TLA+ model of ClickHouse's replication and locking protocols

The repository is ClickHouse, a column-oriented database server. Most of its code
transforms data; the part worth a model is where several actors (replicas, background
tasks, queries, threads) change shared state step by step. This project models those
parts, checks small instances with TLC, and proves the most important facts for every
instance with TLAPS. Source paths below are relative to `src/src/`.

Contents: 1 inventory, 2 modules and code, 3 runs, 4 bounds, fairness and abstractions,
5 proofs, 6 disagreements found, 7 not modelled, 8 plan.

## 1. Inventory

### ReplicatedMergeTree (`Storages/MergeTree/`, `Storages/StorageReplicatedMergeTree.cpp`)

A table is a set of *parts*, each named by partition, block range, level and mutation
version. Replicas share state only through ZooKeeper (or ClickHouse Keeper).

| Part of the system | State | Operations | Talks to |
| --- | --- | --- | --- |
| `MergeTreePartInfo` | none (a name) | order, `contains`, `isDisjoint` | everything below |
| `ActiveDataPartSet` | map from part info to name | `add`, `tryAddPart`, `remove`, `removePartAndCoveredParts`, `removePartsCoveredBy`, searches | queue, storage |
| Block numbers (`EphemeralLockInZooKeeper`) | sequence counter and ephemeral nodes per partition | allocate, unlock, disappear with the session | inserts, mutations, drops, merge predicates |
| `ReplicatedMergeTreeSink` | the block being inserted, its lock, deduplication node | lock, commit in one multi, retry, quorum | `/log`, `/blocks` |
| Mutations (`StorageReplicatedMergeTree::mutate`) | `/mutations` and its version | allocate numbers, create the entry, retry on conflict | queue |
| `DROP PARTITION` (`dropAllPartsInPartitions`) | `alter_partition_version` | take a delimiting number, cancel inserts, log `DROP_RANGE` | queue |
| Merge selection (`mergeSelectingTask`, `ReplicatedMergeTreeMergePredicate`, `DROP PART`) | predicate built in three stages, version of `/log` | select, append an entry if `/log` is unchanged | queue, `/log` |
| `ReplicatedMergeTreeQueue` | `current_parts`, `virtual_parts`, queue, mutations with `parts_to_do`, drop ranges | `pullLogsToQueue`, `updateMutations`, `load`, selection and execution of entries, `removePartProducingOpsInRange`, finalization of mutations | all of the above |
| `ReplicatedMergeTreeAltersSequence` | state per alter version | add, finish metadata or data alters | queue |
| `ReplicatedMergeTreeRestartingThread`, lost replicas | session, `is_active`, `is_lost` | reinitialise, clone a replica, clean the log | queue |
| `PartMovesBetweenShardsOrchestrator` | a state per move | step, retry, roll back | two tables' logs |

### Other protocols

| Part of the system | State | Hard behaviour |
| --- | --- | --- |
| `Common/RWLock` | two queues of groups, owner iterators, counts per query | timeouts against grants, several owner groups, rollback on exceptions, recursion through the fast path |
| `Common/ConcurrencyControl` | waiters, current waiter, slots | grants while allocations are freed |
| `Common/ConcurrentBoundedQueue`, `ThreadPool`, `BackgroundSchedulePool`, `MergeTreeBackgroundExecutor` | queues, capacity, shutdown flag | lost wake-ups, cancellation of a running task |
| `Common/AsyncLoader` | jobs, dependencies, pools | priority inheritance, cancellation |
| `Coordination` (Keeper) | nodes, uncommitted deltas, changelog, snapshots, sessions | rollback of preprocessed requests, recovery of a truncated log |
| `Interpreters/TransactionLog` | CSN log, running transactions | unknown outcome of a commit |
| `Interpreters/Cache/FileCache` | segments, downloaders, size limit | hand-over of a downloader, eviction while in use |
| `Interpreters/DDLWorker`, `Databases/DatabaseReplicated` | task queue in ZooKeeper | execution at most once, recovery |
| `Interpreters/AsynchronousInsertQueue` | batches per key | timeout against size flush, shutdown |
| `Storages/MergeTree/ParallelReplicasReadingCoordinator` | ranges to hand out | each range read once |
| `Processors/Executors/PipelineExecutor` | processor states, task queues | hand-over between threads |
| `Common/OvercommitTracker` | picked query, freed memory | waiting for a query that never stops |

Parsers, analyzer, planner, functions, aggregation, formats, columns, disks, buffers,
network code, access control, dictionaries and backups are sequential transformations or
input and output; they have no protocol a small instance would exercise.

### Behaviours that are hard to test

They are listed with their lines as `hazards` in `PROJECT.json`. The central one: a
merge joins parts whose block numbers need not be adjacent, so it must be sure that
nothing will ever be inserted between them. `ReplicatedMergeTreeQueue.cpp` argues this in
a comment ("no new parts will ever appear in the range of blocks between left and
right") from the order in which three things are read. The argument crosses every actor
of the table, and no unit test can hold it.

## 2. Modules and how they correspond to the code

    MergeTreePartInfo <- ActiveDataPartSet <- ActiveDataPartSetSpec <- ActiveDataPartSetProofs
                                 ^                    ^- MC_ActiveDataPartSet
                                 |- MergeAssignment <- MC_MergeAssignment
                                 |        ^- MergeAssignmentInvariant
                                 |             ^- MergeAssignmentProofs <--------.
                                 |             |- InsertSafetyProofs <-----------|- MergeAssignmentTheorems
                                 |             '- ReplicatedLogProofs <- ReplicatedLogSteps
                                 |- ReplicatedMergeTreeQueue <- MC_ReplicatedMergeTreeQueue
    ReplicatedMergeTreeAltersSequence <-^
    DeduplicatedInserts <- (INSTANCE) ReplicatedMergeTreeSink <- MC_ReplicatedMergeTreeSink
                                 ^- SinkInvariant <- SinkProofs
    RWLock <- MC_RWLock
         ^- RWLockProofs

`A <- B` means that B extends A.

**`MergeTreePartInfo`**: a part name is a record of five fields; `Less`, `contains`,
`isDisjoint`, `getDataVersion` and `isFakeDropRangePart` are the methods of the struct.
The text form of names is left out.

**`ActiveDataPartSet`**: each method as an operator from the set of keys to the new set
or the result. `std::map` iteration is kept: `lowerBound` and `predecessor` are the
neighbours of a position, `LeftRun` and `RightRun` the contiguous elements the loops
pass, `LeftStop` and `RightStop` the elements that end them. `addPart` keeps the order of
the code: what `addImpl` has erased before it meets an intersection stays erased.
`ActiveDataPartSetSpec` is one such object under any sequence of calls.

**`MergeAssignment`** composes the actors of one partition of one table.

| Actions | Code |
| --- | --- |
| `InsertLock`, `InsertCommit`, `InsertCancelled`, `InsertAbort` | `createEphemeralLockInZooKeeper`, `commitPart`, end of session |
| `MutateReadVersion` ... `MutateUnlock` | `mutate` |
| `DropReadVersion` ... `DropConflict` | `dropAllPartsInPartitions`, `getFakePartCoveringAllPartsInPartition`, `clearLockedBlockNumbersInPartition` |
| `queueUpdatingTask`, `PullListLog`, `PullUpdateMutations`, `PullCopyEntry`, `PullDone` | `pullLogsToQueue` under `pull_logs_to_queue_mutex` |
| `mutationsUpdatingTask` | `updateMutations` outside a pull |
| `ExecuteDropRange` | `updateStateOnQueueEntryRemoval` for a `DROP_RANGE` |
| `PredCopyParts`, `getCommittingBlocks`, `PredPullLogs` | the constructor of the predicate: `prev_virtual_parts`, committing blocks, pull, in this order |
| `SelectPartsToMerge`, `SelectPartToMutate`, `SelectPartToDrop`, `CannotSelect` | the selector with `canMergeSinglePart` and `canMergeTwoParts`; `getDesiredMutationVersion`; `dropPartImpl` |
| `CreateLogEntry`, `LogUpdated` | the multi that checks the version of `/log` |

State: `next_block`, `locks`, `log`, `log_version`, `mutations` and
`alter_partition_version` are in ZooKeeper; `log_pointer`, `virtual_parts`, `loaded` and
`pull` belong to a replica; `pred`, `inserts`, `mutator` and `dropper` are local to a
task or a query. One step is one ZooKeeper request or one critical section.

**`ReplicatedMergeTreeSink`** is the commit of inserted parts, with everything that can
happen between its requests.

| Actions | Code |
| --- | --- |
| `allocateBlockNumber`, `allocateBlockNumberLost`, `FoundDuplicate`, `FoundConflict` | the lock stage of `commitPart`, with the answer, without it, and when an id is taken (ordinary and asynchronous inserts, the second also by `AsyncBlockIDsCache`) |
| `ResolveDuplicate` | `resolve_duplicate_stage` |
| `MultiOk`, `MultiLost`, `MultiFails`, `MultiConflict`, `MultiCancelled` | the outcomes of the multi of `commit_new_part_stage` |
| `VerifyFound`, `VerifyNotFound`, `VerifyFails` | the retry loop that looks for a part whose commit has no answer, with the part left to the part check thread at the end |
| `LocalCommit`, `RequestFails` | the commit of the transaction on the disk; a request without a session (`ZooKeeperRetriesControl`) |
| `SessionLost`, `RestartingThread`, `Expire`, `Crash`, `Start` | end of a session for all queries of a server, its ephemeral nodes, crash and start-up with the comparison of disk and ZooKeeper |
| `PartCheck`, `CacheUpdate`, `clearOldBlocks` | `ReplicatedMergeTreePartCheckThread`, `AsyncBlockIDsCache::update`, `clearOldBlocks` of the cleanup thread |
| `DropAllocate` ... `DropCommit`, `executeDropRange` | `DROP PARTITION` as an insert sees it: a number, the cancelled locks, the removed block ids, the log entry, its execution |

**`DeduplicatedInserts`** is the abstract specification the sink implements: what `INSERT`
promises to a client. A part is written in one step; a row is never written by a second
insert while its id is remembered, nor twice by one insert; `ok` means that all rows are in
the table, `error` that this insert wrote none. The refinement mapping reads the table off
the log entries and what the parts contain, and the remembered ids off `/blocks`.

**`ReplicatedMergeTreeQueue`** is the queue of one replica. The rest of the cluster is a
*history*: log entries, mutations and kills in the order of their transactions;
`MergeAssignment` shows what the cluster may write. `q` is the queue object; every method
that changes it under `state_mutex` is an operator from `q` to `q` with the name of the
method (`insertUnlocked`, `addPartToMutations`, `updateStateOnQueueEntryRemoval` as
`updateStateOnSuccess` and `updateStateOnFailure`, ...). Actions are what threads do between
ZooKeeper requests and critical sections:

| Actions | Code |
| --- | --- |
| `pullLogsToQueue`, `PullMutations`, `PullBatch`, `PullBatchLost`, `mutationsUpdatingTask` | `pullLogsToQueue` in batches, `updateMutations` |
| `selectEntryToProcess` | the selection with `shouldExecuteLogEntry`: future parts, drop ranges, alters |
| `PartExists`, `PrepareMerge`, `FindReplica`, `CannotExecute`, `ExecutionFails` | the start of an entry: nothing to do, merge or mutate here, fetch it or a covering part, failure |
| `CommitPart`, `CommitPartLost`, `clearOldParts` | the commit of its part, with and without an answer; the removal of what was rolled back |
| `executeMetadataAlter` | `ALTER_METADATA` |
| `removePartProducingOpsInRange`, `executeDropRange` | `DROP_RANGE` and `DROP_PART`, which wait for entries already running |
| `removeProcessedEntry`, `removeQueueNode` | the entry leaves memory and then ZooKeeper |
| `tryFinalizeMutations`, `getCommittingBlocks`, `FinalizeMutations`, `FinalizeMutationsLost` | finalization of mutations, request by request |
| `removeMutation` | `KILL MUTATION` |
| `SessionLost`, `Crash`, `partialShutdown`, `tryStartup` | the restarting thread, `initialize` and `load` |

**`ReplicatedMergeTreeAltersSequence`**: the methods of the class, from the map of alters to
the new map; the queue calls them where the code does.

**`RWLock`**: `getLock` is `FastPath`, `AcquireFree`, `JoinOwners` or `Wait`, by the
branch the call takes under the mutex; a waiting thread ends with `Wake`, `WakeThrows`
(`owner_queries.emplace` throws and the request is rolled back) or `Timeout`; `unlock` is
the destructor of the holder. Iterators of the two lists are identifiers of groups.

## 3. Runs

| Run | Instance | States | Shows |
| --- | --- | --- | --- |
| `active_data_part_set` | 2 crowded partitions, 3 blocks, levels 0, 1, MAX | 1530 | searches that look only at neighbours return what a scan would; parts stay disjoint; adding uncovers nothing |
| `selectors` | 2 assigners of one replica, merges and `DROP PART`, 2 blocks, 5 entries | 925 thousand | `EachPartIsTakenOnce`, `NoIntersectingParts` |
| `mutations` | 1 replica, 2 mutation queries, 3 blocks, 4 entries | 718 thousand | `MergeSourcesAgreeOnMutations`, `MutationsAreOrdered`, `NoIntersectingParts` |
| `drops` | 1 replica, 1 mutation, 2 `DROP PARTITION`, 3 blocks, 4 entries | 1.9 million | `DropRangeIsolation`, `NoInsertIsSwallowed`, `MergeKeepsBlocks`, `NoIntersectingParts` |
| `replicas` | 2 replicas, 1 mutation, 1 drop, 2 blocks, 2 entries, fairness | 431 thousand | `ReplicasAgree`, `MutationLoadedBeforeEntry`, `ReplicasCatchUp`, `TypeOK` |
| `rwlock` | 5 threads, two of one query, timeouts, failing allocations, fairness | 63 thousand | `MutualExclusion`, `LockIsConsistent` (the class's assertions), `OneWaitingReadersGroup`, `ReadersWaitForWriters`, `QueryOwnersAreCounted`, `PhasesAlternate`, `WaitersAreServed` |
| `sink` | 2 inserts in 3 combinations (same block, with and without deduplication, overlapping asynchronous blocks), 1 retry, 3 numbers, 2 events, fairness | 444 thousand | `ImplementsPromise`, `CommittedPartIsKeptUnlessKilled`, `VisiblePartIsCommittedOrChecked`, `EverythingIsSettled`, `TypeOK` |
| `queue` | 5 histories of up to 5 events, 1 fault, fairness | 115 thousand | `CaughtUpReplicaHasTheParts`, `PartsNeverIntersect`, `VirtualPartsAreCurrentPartsAndQueue`, `QueueIsInZooKeeper`, `FinishedMutationIsAppliedOrQueued`, `AltersAreExecutedInOrder`, `CatchesUp`, `TypeOK` |
| `drop_unlocked`, `sink_killed`, `queue_mutation`, `queue_alters` | | | the violations of section 6 |

Every property has a mutant: the definition of the code it depends on is changed the way
a bug would change it (`..._unchecked`, `..._stale`, `..._early` next to the original),
and TLC then finds the property violated.

## 4. Bounds, fairness, abstractions

**Bounds.** `MaxBlocks` bounds the block numbers and `MaxLog` the log. Three block
numbers are what an insert between two parts needs; two parts, a merge across a gap and
the `DROP_PART` that made the gap need five entries; a mutation between two inserts and
the merge it must prevent need three numbers and three entries. Two actors of a kind are
enough for every race over one version node, because a version conflict involves two.
The five threads of `RWLock` give two owner groups, a waiting writer, a waiting group of
readers and a thread on the fast path at the same time. In `sink`, `MaxEvents` counts lost
sessions, lost answers, crashes, ids that grow old and drops together: two of them are a
retry that fails a second time, or an id that is forgotten between an attempt and its
repetition; three numbers are two attempts of one insert and one of the other. In `queue`,
each history is the shortest in which its entries compete (a merge across a dropped part, a
partition dropped and written again, an insert committed late between a mutation and its
end, two alters, a killed alter), and one fault strikes at every point of it.

Larger instances were run by hand, without an error: `EachPartIsTakenOnce` for assigners on
two replicas, 2 blocks and 4 entries (7.6 million states); two mutations and a drop with 3
blocks and 4 entries (2.2 million); `replicas` with two drops (1.4 million).

Runs of `MergeAssignment` and `RWLock` keep deadlock checking on: replicas can always pull
again and threads always ask again. In `sink` and `queue` the system really may stop, when
every query is answered and the history is executed.

**Fairness.**

- `replicas`: replicas keep pulling and executing. The watch on `/log` reschedules
  `queueUpdatingTask`, and a pull runs to its end. Nothing is assumed of clients and
  assigners; they may stop anywhere.
- `rwlock`: a woken thread runs and a holder is eventually destroyed; timeouts are never
  required to fire. Threads of one query that hold the lock by turns re-enter through the
  fast path, and a waiting writer then waits as long as they do. That is how the fast path
  is meant to work; `WaitersAreServed` excepts exactly this.
- `sink`: threads of queries run, the restarting and the part check thread are rescheduled
  until they succeed, a stopped server is started again, ZooKeeper expires the nodes of
  dead sessions. No fairness for clients, the cleanup, drops or faults. The number of
  faults is finite (`MaxEvents`), so "in the end" means after the last one.
- `queue`: background tasks run again and again and a thread goes on until it has to wait,
  stated as "what is ready is not left so for ever" (`[]<>~Ready(i)` and its like), plus
  weak fairness for the selection of entries, which takes the first executable one and
  moves it to the end of the queue. A part can be fetched from some replica that has executed the log.

**Abstractions of `MergeAssignment`.**

- One partition. Numbers, locks and merges of different partitions are independent.
- Which virtual parts a replica has on disk is any subset of them. Quorum, pinned part
  uuids, projections and size limits only remove candidates, so they remove behaviours.
- `getDesiredMutationVersion` may stop at any loaded version above the current one:
  barriers, unfinished alters and the limit per entry only choose among them.
- Entries are copied one at a time; the code inserts batches under one lock. Every state
  after a batch is a state of the model.
- `updateMutations` adds some prefix of `/mutations` between what was there when its
  caller listed the log and what is there now.
- A range of parts is selected in one step; the code takes `state_mutex` per pair, so
  `virtual_parts` may change between pairs.
- The lock of a drop that lost a version race is released in the step that notices.
- `REPLACE_RANGE` and the loss of a mutation's or a drop's session are not modelled here.
  `KILL MUTATION`, finalization, failed entries and restarts are in the queue module.

**Abstractions of `ReplicatedMergeTreeSink`.** One partition; a query inserts one block; a
row is named by its block id. A request whose answer is lost closes the session of the
whole server, as `ZooKeeper::finalize` does, and has been executed or not. The timeout and
the kill of a query are one nondeterministic end of a retry loop. `MaxRetries` is
`insert_keeper_max_retries`; back-off times are left out. `orphans` is auxiliary: the locks
of dead sessions that ZooKeeper has not expired yet.

**Abstractions of `ReplicatedMergeTreeQueue`.** One partition. Other replicas execute the
log in order, each at its own pace, so what can be fetched is what some prefix of the
history leaves. Whether a merge is made here or fetched is free. Limits of the pools, sizes
and back-off only delay an entry, and are left to the scheduler's choice. `leftover` is
auxiliary: the entries whose node outlived their removal from memory, which
`removeProcessedEntry` accepts.

## 5. Proofs

All theorems hold for every value of the constants: any number of replicas, assigners,
queries, blocks, entries, rows, retries and faults (the bounds are arbitrary naturals,
below the limits of the integer types where that matters).

- `ActiveDataPartSetProofs`: the set of parts is always disjoint, and so the
  neighbour-only searches are right. The inductive invariant is
  `Inv == part_info_to_name \subseteq Universe /\ PartsDisjoint`. The work is in the
  lemmas on the order: among disjoint parts of one partition, `operator<` orders by block
  number, so that the parts a part contains are contiguous and the only candidates for
  overlap are where the run ends. `UniverseAssumption` says only that names are
  well-formed. From this follow the theorems on containing parts, intersections, covered
  parts and coverage.
- `MergeAssignment`. Its invariants are stated in `MergeAssignmentInvariant`; TLC checked
  each of them on the instances of section 3 before it was proved.
  - `MergeAssignmentProofs`: `TypeOK`, with `Bounded` (no replica has loaded more mutations
    than exist, no pull goes beyond the log it listed), without which an index could leave
    its sequence. `MutationsAreOrdered`, from `OrderInv`: a query about to commit has a
    number above the versions it has seen, and the version of `/mutations` lets it commit
    only if those are all. `MutationLoadedBeforeEntry`, from `LoadedInv`: what is needed for
    the entries up to the end of a pull is in `/mutations` when the pull has listed the log.
    Here are also the invariants `Owners` (no block number has two owners), `DropsInv`
    (after `clearLockedBlockNumbersInPartition` no insert below the number of the drop can
    commit; `/alter_partition_version` orders the drops) and `ViewsInv`.
  - `InsertSafetyProofs`: `NoInsertIsSwallowed`, the claim the comment above
    `canMergeTwoParts` argues for. It is not inductive: it says nothing about a predicate
    that is about to commit. `IInv` adds that
    1. numbers are handed out in order (`Allocated`);
    2. parts in every `virtual_parts` cover no locked number unless they are fake drop
       parts (`QueuesSafe`), because they came from the log;
    3. a predicate that has read the committing blocks knows every locked number below the
       end of a part of its `prev` (`Knows`). Here the order of reads matters: a number
       allocated later is greater than all those parts;
    4. a selected entry covers no locked number (`PredicatesSafe`): between two chosen
       neighbours (`Enclosed`) every such number would be a committing block in the gap,
       which `canMergeTwoParts` refuses.
  - `ReplicatedLogProofs` is about the log alone, as a sequence: the parts that are alive
    after `k` entries (`AliveIn`), and what it means that the next entry was made from them
    (`EntryOK`). A log whose entries are all made so leaves a disjoint set of parts after
    every prefix, produces no part twice (`Grows`) and loses no block (`Kept`).
  - `ReplicatedLogSteps` shows that the program only appends such entries. The invariant
    `LogInv` says that the log is well made, that every replica has in `virtual_parts`
    exactly the parts alive in the prefix it has copied, and that what an assigner has
    chosen is made from the parts of the *whole* log as long as the version of `/log` is the
    one it read. The last needs `ViewsInv`: with the version unchanged, all that was
    appended since are inserts, and their numbers lie beyond the parts the predicate may
    merge or among its committing blocks. `AgreeInv` says the same of mutations created
    since.
  - `MergeAssignmentTheorems` combines them: `NoIntersectingParts`, `ReplicasAgree`,
    `EachPartIsTakenOnce`, `DropRangeIsolation`, `MergeKeepsBlocks` and
    `MergeSourcesAgreeOnMutations`, all for one partition with any number of replicas,
    assigners, mutations and drops. They assume `LockContents \subseteq {"insert"}`, that
    is, every insert holds a lock that `DROP PARTITION` recognises (deduplication is on).
    Without it `DropRangeIsolation` is false, as `drop_unlocked` shows (section 6), and the
    log is not well made in this sense.
- `RWLockProofs`: all safety properties of `RWLock` and the action property
  `PhasesAlternate`, for any number of threads and queries. The properties are far from
  inductive one by one; the invariant `Inv` is
  1. `LockOK`: there is a number `k` such that the first `k` groups of readers are the
     owners, at most one group follows them, and only while a writer waits; `rdlock_owner`
     is group `k`; if `k` is 0 the first writer owns the lock or both queues are empty
     (`Phase`, `Owning`). The same `k` describes read phases, write phases and the free lock,
     so one lemma per change of the lists suffices (`ReadersJoin`, `WriterLeaves`,
     `WakeReaders`, ...);
  2. `RequestsOK`: every request refers to a group in the queue of its type, writers to one
     of their own, holders to owners; `requests` counts the threads attached to a group, and
     a group in a queue has at least one. Hence a new group always finds a free identifier
     (`FreshIsFresh`, by the pigeonhole principle), and `unlock()`'s conditions cannot fail;
  3. `QueryOwnersAreCounted`, so that a thread on the fast path has another holder of its
     query beside it, and `rdlock_owner` is a group when it is dereferenced
     (`FastPathGroup`).
- `SinkProofs`: the commit protocol implements the promise of `INSERT`
  (`SinkImplementsPromise`), keeps committed parts (`CommittedPartsAreKept`) and shows
  nothing it may have to take back (`VisiblePartsAreCommitted`), from one inductive
  invariant, `IInv` of `SinkInvariant`:
  1. `OwnPart`: the part of an attempt in flight is the insert's own, with the rows that are
     left, still `PreActive` and in nobody's check queue. No other actor may touch it;
  2. `CommitsOnce`: an insert has at most one part in the log, and until it is answered that
     is the part of the current attempt, whose outcome is known to the thread or being
     looked for. This is why a retry cannot write a row twice although the id was
     forgotten in between;
  3. `RowsLeft`: the rows filtered out of an asynchronous insert are in the table, so `ok`
     is true at the end;
  4. `Remembered`: an id in `/blocks` or in a cache belongs to a row that was written;
  5. `SessionInv`: sessions are numbered, and the lock of an attempt is an orphan only if
     its session is over, so a multi that succeeds removes a lock that nothing else will
     remove; no query is at work on a server that has stopped.

  TLC checked `IInv` on the instance of `sink` before it was proved. There is one lemma per
  action, each showing `IInv'` and that the step is a step of the promise or leaves it
  unchanged. `SinkAssumption` states what the code guarantees of a block: an ordinary
  insert has one id, an asynchronous one is deduplicated.

Only model-checked:

- liveness (`ReplicasCatchUp`, `WaitersAreServed`, `EverythingIsSettled`, `CatchesUp`), which
  needs fairness and `ENABLED`;
- `ReplicatedMergeTreeQueue`: what a replica must have is defined by folds over a history
  and over the queue, so most of its invariants need an induction over data that the provers
  do not have. `QueueIsInZooKeeper` and `PartsNeverIntersect` look within reach; no proof of
  them has been written yet. Its calls to `ActiveDataPartSet` rest on the theorems above.

## 6. Disagreements between the code and its comments

1. **`drop_unlocked`.** `clearLockedBlockNumbersInPartition` explains
   (`Storages/StorageReplicatedMergeTree.cpp:7862`) that an insert that holds a number below
   that of a `DROP PARTITION` must be waited for or cancelled, or it commits a part inside
   the dropped range. The code recognises inserts by the content of their locks, and an
   insert without deduplication writes the content of "other" queries. Such an insert
   commits after the `DROP_RANGE` entry. With deduplication on, `drops` shows that the
   claim holds.
2. **`sink_killed`.** When the answer to a commit is lost, `commitPart` looks for the part in
   a retry loop and says that it can't delete the local part
   (`ReplicatedMergeTreeSink.cpp:932`). A query that is killed, or runs out of time, between
   two looks leaves the loop by an exception, the transaction is rolled back, and the part
   that ZooKeeper has is gone. `CommittedPartIsKeptUnlessKilled` shows, and the proof for
   every instance, that this is the only way.
3. **`queue_mutation`.** A lost answer to the commit of a mutated part rolls the local part
   back; the comment says that this is not a problem because the entry is executed again
   (`MutateFromLogEntryTask.cpp:277`). Meanwhile `initialize` counts the part of ZooKeeper as
   mutated, and the mutation is reported as done although the active part is not mutated.
   `FinishedMutationIsAppliedOrQueued` shows that it will be.
4. **`queue_alters`.** `clear()` does not reset `alter_sequence`. If the mutation of an
   `ALTER` is killed while the session is lost, its version stays at the head and no later
   `ALTER_METADATA` is executed before the server restarts. `CatchesUp` excepts this.

## 7. Not modelled

- In the parts that are modelled: quorum inserts, `ATTACH`, `REPLACE_RANGE`, `MOVE
  PARTITION`, pinned part uuids, zero-copy replication, the search of the part check thread
  on other replicas, cleanup of the log, lost replicas and `cloneReplica`. They add
  operations on the same state; the properties above say nothing of them.
- The other protocols of section 1 have no module yet. Each would be a project of the size
  of one of the modules above, with its own state.
- The rest of the repository transforms data or moves bytes. A small instance of a parser,
  a planner or an aggregate function says nothing of the real one, so the share of the
  source that these modules cover is small and stays so.

## 8. Plan

Done: part names and active parts, merge assignment, `RWLock`, the replication queue with
alters, the sink with its abstract specification; proofs of the safety properties of all of
them but the queue. Next, in this order:

1. `REPLACE_RANGE`, lost replicas and the cleanup of the log, in the queue module.
2. The parts of the queue's invariant that need no fold: `QueueIsInZooKeeper` and
   `PartsNeverIntersect`.
3. Selection of a range pair by pair; two partitions for mutations, which lock a number
   in each.
4. An abstract readers-writers lock that `RWLock` implements.
5. `ConcurrencyControl`: slots never exceed the limit unless the limit shrank, every
   waiter is reached by the round robin.
6. `ConcurrentBoundedQueue`, `AsyncLoader`, `FileCache`, `TransactionLog`, Keeper's
   uncommitted state, `PartMovesBetweenShardsOrchestrator`.
