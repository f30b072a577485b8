------------------------ MODULE ReplicatedMergeTreeSink ------------------------
(***************************************************************************)
(* The commit of inserted parts: ReplicatedMergeTreeSinkImpl::commitPart   *)
(* with its retries, the loss of ZooKeeper sessions and of answers, server *)
(* crashes, the deduplication of blocks (of ordinary and of asynchronous   *)
(* inserts), the check of parts of unknown status, the cleanup of old      *)
(* block ids and a concurrent DROP PARTITION.  One partition.              *)
(*                                                                         *)
(* Every ZooKeeper request is a step of its own.  When the answer of a     *)
(* request that changes something is lost, the request has either been     *)
(* executed or not by the time the client looks again.  The client closes  *)
(* the session on every such error, for all queries of its server.         *)
(***************************************************************************)
EXTENDS Naturals, FiniteSets

CONSTANTS
    Replicas,
    Inserts,         (* INSERT queries, each of one block                  *)
    Ids,             (* rows, named by their block ids                     *)
    Dedup,           (* the rows that are inserted with deduplication      *)
    Workloads,       (* what the queries insert, and how: [rows, async]    *)
    MaxRetries,      (* insert_keeper_max_retries                          *)
    MaxBlocks,       (* bound on allocated block numbers                   *)
    MaxEvents        (* bound on lost sessions, crashes, ids that grow old *)
                     (* and DROP PARTITION queries, taken together         *)

Requests == [rows : SUBSET Ids, async : BOOLEAN]

(* A block without deduplication is inserted by the ordinary sink, a block *)
(* of the ordinary sink has a single id.                                   *)
ASSUME SinkAssumption ==
    /\ "none" \notin Inserts
    /\ Dedup \subseteq Ids
    /\ Workloads \subseteq [Inserts -> Requests]
    /\ \A w \in Workloads, i \in Inserts :
          IF w[i].async THEN w[i].rows # {} /\ w[i].rows \subseteq Dedup
                        ELSE \E id \in Ids : w[i].rows = {id}
    /\ \A w \in Workloads, i, j \in Inserts :
          w[i].async # w[j].async => w[i].rows \cap w[j].rows = {}
    /\ MaxRetries \in Nat /\ MaxBlocks \in Nat /\ MaxEvents \in Nat

Numbers == 0 .. MaxBlocks - 1
NoNumber == MaxBlocks

VARIABLES
    request, home,        (* the query: what is inserted and where         *)
    sink, answer,         (* the thread of the query, what the client got  *)
    next_block, locks,    (* /block_numbers                                *)
    orphans,              (* the locks whose session is dead               *)
    blocks,               (* /blocks and /async_blocks                     *)
    log, part_nodes,      (* GET_PART entries, /replicas/../parts          *)
    part,                 (* what was written under a number               *)
    local,                (* state of a part in data_parts of its replica  *)
    session, epoch,       (* the session of each server, and its number    *)
    check_queue,          (* the part check threads                        *)
    cache, cache_due,     (* AsyncBlockIDsCache                            *)
    drop, events

query == <<request, home>>
thread == <<sink, answer>>
keeper == <<next_block, locks, orphans, blocks, log, part_nodes>>
server == <<part, local, check_queue>>
caches == <<cache, cache_due>>
sessions == <<session, epoch>>
vars == <<query, thread, keeper, server, caches, sessions, drop, events>>

Stages == {"lock", "multi", "commit", "verify", "duplicate", "done"}
Answers == {"none", "ok", "error", "unknown", "cancelled"}

(* The locals of commitPart: the stage, the rows that are left, the number *)
(* of the current attempt and the session its lock belongs to, and the     *)
(* failures that ZooKeeperRetriesControl has counted.                      *)
Started(q) ==
    [stage |-> "lock", rows |-> q.rows, number |-> NoNumber, failures |-> 0,
     verify_failures |-> 0, epoch |-> 0]
Ended ==
    [stage |-> "done", rows |-> {}, number |-> NoNumber, failures |-> 0,
     verify_failures |-> 0, epoch |-> 0]

NoPart == [rows |-> {}, insert |-> "none"]
NumbersOf(r) == {n \in Numbers : part[n].insert # "none" /\ home[part[n].insert] = r}
AsyncIds == UNION {request[i].rows : i \in {j \in Inserts : request[j].async}}

At(i, s) == sink[i].stage = s
Up(i) == session[home[i]] = "up"

(* Every iteration of a retry loop takes the current session and stays     *)
(* with it.                                                                *)
Connected(i) == Up(i) /\ sink[i].epoch = epoch[home[i]]

(* The ids of the block that are taken; none without deduplication.        *)
Conflicts(i) == {id \in sink[i].rows \cap Dedup : blocks[id] # NoNumber}

Init ==
    /\ request \in Workloads
    /\ home \in [Inserts -> Replicas]
    /\ sink = [i \in Inserts |-> Started(request[i])]
    /\ answer = [i \in Inserts |-> "none"]
    /\ next_block = 0
    /\ locks = {}
    /\ orphans = {}
    /\ blocks = [id \in Ids |-> NoNumber]
    /\ log = {}
    /\ part_nodes = {}
    /\ part = [n \in Numbers |-> NoPart]
    /\ local = [n \in Numbers |-> "none"]
    /\ session = [r \in Replicas |-> "up"]
    /\ epoch = [r \in Replicas |-> 0]
    /\ check_queue = {}
    /\ cache = [r \in Replicas |-> {}]
    /\ cache_due = [r \in Replicas |-> TRUE]
    /\ drop = [step |-> "start", max |-> NoNumber, ids |-> {}, executed |-> {}]
    /\ events = 0

Event ==
    /\ events < MaxEvents
    /\ events' = events + 1

(***************************************************************************)
(* Sessions                                                                *)
(***************************************************************************)
(* Answers are lost with the session, whose ephemeral nodes, those of L,   *)
(* are left to ZooKeeper.                                                  *)
LoseSession(r, L) ==
    /\ session[r] = "up"
    /\ Event
    /\ session' = [session EXCEPT ![r] = "lost"]
    /\ orphans' = orphans \cup L
    /\ UNCHANGED epoch

SessionLost(r) ==
    /\ LoseSession(r, locks \cap NumbersOf(r))
    /\ UNCHANGED <<query, thread, next_block, locks, blocks, log, part_nodes,
                   server, caches, drop>>

(* The restarting thread opens a new session and starts the tasks again.   *)
RestartingThread(r) ==
    /\ session[r] = "lost"
    /\ session' = [session EXCEPT ![r] = "up"]
    /\ epoch' = [epoch EXCEPT ![r] = @ + 1]
    /\ cache_due' = [cache_due EXCEPT ![r] = TRUE]
    /\ UNCHANGED <<query, thread, keeper, server, cache, drop, events>>

(* ZooKeeper removes the ephemeral nodes of a dead session.                *)
Expire(n) ==
    /\ n \in orphans
    /\ orphans' = orphans \ {n}
    /\ locks' = locks \ {n}
    /\ UNCHANGED <<query, thread, next_block, blocks, log, part_nodes, server,
                   caches, sessions, drop, events>>

(***************************************************************************)
(* commitPart                                                              *)
(***************************************************************************)
Switch(i, stage) ==
    /\ sink' = [sink EXCEPT ![i].stage = stage]
    /\ UNCHANGED answer

Finish(i, a) ==
    /\ sink' = [sink EXCEPT ![i] = Ended]
    /\ answer' = [answer EXCEPT ![i] = a]

(* Mutant: one retry too many.                                             *)
Retry_again(i, stage) ==
    \/ /\ sink[i].failures <= MaxRetries
       /\ sink' = [sink EXCEPT ![i].failures = @ + 1, ![i].stage = stage,
                               ![i].number = NoNumber, ![i].epoch = 0]
       /\ UNCHANGED answer
    \/ Finish(i, "error")

(* ZooKeeperRetriesControl: one more failure, and the next iteration at    *)
(* that stage unless the limit is passed; the query may also run into its  *)
(* time limit or be killed before the next iteration.                      *)
Retry(i, stage) ==
    \/ /\ sink[i].failures + 1 <= MaxRetries
       /\ sink' = [sink EXCEPT ![i].failures = @ + 1, ![i].stage = stage,
                               ![i].number = NoNumber, ![i].epoch = 0]
       /\ UNCHANGED answer
    \/ Finish(i, "error")

(* finishDelayedChunk of an asynchronous insert: the rows whose ids are    *)
(* taken are filtered out, and what remains is committed as a new part.    *)
filterBlockDuplicate(i, C) ==
    /\ cache_due' = [cache_due EXCEPT ![home[i]] = TRUE]
    /\ IF sink[i].rows \subseteq C
       THEN Finish(i, "ok")
       ELSE /\ sink' = [sink EXCEPT ![i].rows = @ \ C, ![i].failures = 0,
                                    ![i].stage = "lock"]
            /\ UNCHANGED answer

CachedConflicts(i) ==
    IF request[i].async THEN sink[i].rows \cap cache[home[i]] ELSE {}

MayLock(i) ==
    /\ At(i, "lock")
    /\ Up(i)
    /\ CachedConflicts(i) = {}

CreateLock(i) ==
    /\ MayLock(i)
    /\ Conflicts(i) = {}
    /\ next_block < MaxBlocks
    /\ next_block' = next_block + 1
    /\ locks' = locks \cup {next_block}

(* The lock is created and the temporary part gets its name from it.       *)
allocateBlockNumber(i) ==
    /\ CreateLock(i)
    /\ sink' = [sink EXCEPT ![i].stage = "multi", ![i].number = next_block,
                            ![i].epoch = epoch[home[i]]]
    /\ part' = [part EXCEPT ![next_block] = [rows |-> sink[i].rows, insert |-> i]]
    /\ local' = [local EXCEPT ![next_block] = "PreActive"]
    /\ UNCHANGED <<query, answer, orphans, blocks, log, part_nodes,
                   check_queue, caches, sessions, drop, events>>

(* The lock is created but the answer is lost.                             *)
allocateBlockNumberLost(i) ==
    /\ CreateLock(i)
    /\ LoseSession(home[i], {next_block} \cup (locks \cap NumbersOf(home[i])))
    /\ Retry(i, "lock")
    /\ UNCHANGED <<query, blocks, log, part_nodes, server, caches, drop>>

(* The id is taken: no lock is created.                                    *)
FoundDuplicate(i) ==
    /\ MayLock(i)
    /\ ~request[i].async
    /\ Conflicts(i) # {}
    /\ Switch(i, "duplicate")
    /\ UNCHANGED <<query, keeper, server, caches, sessions, drop, events>>

(* ZooKeeper names the first id that is taken, the cache all it knows of.  *)
FoundConflict(i) ==
    /\ At(i, "lock")
    /\ request[i].async
    /\ \/ /\ CachedConflicts(i) # {}
          /\ filterBlockDuplicate(i, CachedConflicts(i))
       \/ /\ MayLock(i)
          /\ \E id \in Conflicts(i) : filterBlockDuplicate(i, {id})
    /\ UNCHANGED <<query, keeper, server, cache, sessions, drop, events>>

(* resolve_duplicate_stage; the node may have been removed meanwhile.      *)
ResolveDuplicate(i) ==
    /\ At(i, "duplicate")
    /\ Up(i)
    /\ Finish(i, IF Conflicts(i) = {} THEN "error" ELSE "ok")
    /\ UNCHANGED <<query, keeper, server, caches, sessions, drop, events>>

(* A request without a session, or an iteration while the table is         *)
(* read-only.                                                              *)
RequestFails(i) ==
    /\ At(i, "lock") \/ At(i, "duplicate")
    /\ ~Up(i)
    /\ Retry(i, sink[i].stage)
    /\ UNCHANGED <<query, keeper, server, caches, sessions, drop, events>>

(* The multi request of commit_new_part_stage.                             *)
CommitInKeeper(i, n) ==
    /\ At(i, "multi")
    /\ Connected(i)
    /\ n \in locks
    /\ Conflicts(i) = {}
    /\ log' = log \cup {n}
    /\ part_nodes' = part_nodes \cup {n}
    /\ blocks' = [id \in Ids |-> IF id \in sink[i].rows \cap Dedup THEN n ELSE blocks[id]]
    /\ locks' = locks \ {n}

MultiOk(i) ==
    /\ CommitInKeeper(i, sink[i].number)
    /\ Switch(i, "commit")
    /\ UNCHANGED <<query, next_block, orphans, server, caches, sessions, drop, events>>

Verify(i) ==
    /\ sink' = [sink EXCEPT ![i].stage = "verify", ![i].verify_failures = sink[i].failures]
    /\ UNCHANGED answer

(* Mutant: an insert whose answer was lost does not look for the part.     *)
MultiLost_unverified(i) ==
    /\ CommitInKeeper(i, sink[i].number)
    /\ LoseSession(home[i], locks' \cap NumbersOf(home[i]))
    /\ Retry(i, "lock")
    /\ UNCHANGED <<query, next_block, server, caches, drop>>

MultiLost(i) ==
    /\ CommitInKeeper(i, sink[i].number)
    /\ LoseSession(home[i], locks' \cap NumbersOf(home[i]))
    /\ Verify(i)
    /\ UNCHANGED <<query, next_block, server, caches, drop>>

(* A multi request without a session: it is not executed.                  *)
MultiFails(i) ==
    /\ At(i, "multi")
    /\ ~Connected(i)
    /\ Verify(i)
    /\ UNCHANGED <<query, keeper, server, caches, sessions, drop, events>>

(* transaction.rollback()                                                  *)
Rollback(i) == local' = [local EXCEPT ![sink[i].number] = "none"]

(* Mutant: the lock is not given back.                                     *)
MultiConflict_locked(i) ==
    /\ At(i, "multi")
    /\ Connected(i)
    /\ sink[i].number \in locks
    /\ Rollback(i)
    /\ \E id \in Conflicts(i) :
          IF request[i].async THEN filterBlockDuplicate(i, {id})
                              ELSE Switch(i, "duplicate") /\ UNCHANGED cache_due
    /\ UNCHANGED <<query, keeper, part, check_queue, cache, sessions, drop, events>>

(* Someone has committed the same id meanwhile; the lock is given back.    *)
MultiConflict(i) ==
    /\ At(i, "multi")
    /\ Connected(i)
    /\ sink[i].number \in locks
    /\ Rollback(i)
    /\ locks' = locks \ {sink[i].number}
    /\ \E id \in Conflicts(i) :
          IF request[i].async THEN filterBlockDuplicate(i, {id})
                              ELSE Switch(i, "duplicate") /\ UNCHANGED cache_due
    /\ UNCHANGED <<query, next_block, orphans, blocks, log, part_nodes, part,
                   check_queue, cache, sessions, drop, events>>

(* DROP PARTITION has removed the lock.                                    *)
MultiCancelled(i) ==
    /\ At(i, "multi")
    /\ Connected(i)
    /\ sink[i].number \notin locks
    /\ Rollback(i)
    /\ Finish(i, "error")
    /\ UNCHANGED <<query, keeper, part, check_queue, caches, sessions, drop, events>>

(* The answer of the multi request was lost: look for the part node.       *)
VerifyFound(i) ==
    /\ At(i, "verify")
    /\ Up(i)
    /\ sink[i].number \in part_nodes
    /\ Switch(i, "commit")
    /\ UNCHANGED <<query, keeper, server, caches, sessions, drop, events>>

(* Not committed: back to a temporary part, and again with a new number.   *)
VerifyNotFound(i) ==
    /\ At(i, "verify")
    /\ Up(i)
    /\ sink[i].number \notin part_nodes
    /\ Rollback(i)
    /\ Retry(i, "lock")
    /\ UNCHANGED <<query, keeper, part, check_queue, caches, sessions, drop, events>>

(* Mutant: the part is removed, as if it were known not to be committed.   *)
VerifyFails_rollback(i) ==
    /\ At(i, "verify")
    /\ ~Up(i)
    /\ IF sink[i].verify_failures + 1 > MaxRetries
       THEN Rollback(i) /\ Finish(i, "unknown")
       ELSE /\ sink' = [sink EXCEPT ![i].verify_failures = @ + 1]
            /\ UNCHANGED <<answer, local>>
    /\ UNCHANGED <<query, keeper, part, check_queue, caches, sessions, drop, events>>

(* Mutant: the part is kept and nobody checks it later.                    *)
VerifyFails_unchecked(i) ==
    /\ At(i, "verify")
    /\ ~Up(i)
    /\ IF sink[i].verify_failures + 1 > MaxRetries
       THEN /\ local' = [local EXCEPT ![sink[i].number] = "Active"]
            /\ Finish(i, "unknown")
       ELSE /\ sink' = [sink EXCEPT ![i].verify_failures = @ + 1]
            /\ UNCHANGED <<answer, local>>
    /\ UNCHANGED <<query, keeper, part, check_queue, caches, sessions, drop, events>>

(* After the last failure the part is kept and its check is scheduled; the *)
(* check of the time limit before a further attempt may throw, which       *)
(* unwinds and rolls the transaction back.                                 *)
VerifyFails(i) ==
    /\ At(i, "verify")
    /\ ~Up(i)
    /\ IF sink[i].verify_failures + 1 > MaxRetries
       THEN /\ local' = [local EXCEPT ![sink[i].number] = "Active"]
            /\ check_queue' = check_queue \cup {sink[i].number}
            /\ Finish(i, "unknown")
       ELSE /\ UNCHANGED check_queue
            /\ \/ /\ sink' = [sink EXCEPT ![i].verify_failures = @ + 1]
                  /\ UNCHANGED <<answer, local>>
               \/ Rollback(i) /\ Finish(i, "cancelled")
    /\ UNCHANGED <<query, keeper, part, caches, sessions, drop, events>>

(* transaction.commit(): the part becomes visible.                         *)
LocalCommit(i) ==
    /\ At(i, "commit")
    /\ local' = [local EXCEPT ![sink[i].number] = "Active"]
    /\ Finish(i, "ok")
    /\ UNCHANGED <<query, keeper, part, check_queue, caches, sessions, drop, events>>

(***************************************************************************)
(* The server: crash, start, part check, caches                            *)
(***************************************************************************)
(* The directories of PreActive and Active parts stay on disk.             *)
Crash(r) ==
    LET stopped == {i \in Inserts : home[i] = r /\ ~At(i, "done")} IN
    /\ session[r] # "crashed"
    /\ Event
    /\ session' = [session EXCEPT ![r] = "crashed"]
    /\ orphans' = orphans \cup (locks \cap NumbersOf(r))
    /\ sink' = [i \in Inserts |-> IF i \in stopped THEN Ended ELSE sink[i]]
    /\ answer' = [i \in Inserts |-> IF i \in stopped THEN "unknown" ELSE answer[i]]
    /\ check_queue' = check_queue \ NumbersOf(r)
    /\ cache' = [cache EXCEPT ![r] = {}]
    /\ UNCHANGED <<query, next_block, locks, blocks, log, part_nodes, part,
                   local, cache_due, epoch, drop>>

(* checkParts: what is on disk but not in ZooKeeper is put aside.          *)
Start(r) ==
    /\ session[r] = "crashed"
    /\ session' = [session EXCEPT ![r] = "up"]
    /\ cache_due' = [cache_due EXCEPT ![r] = TRUE]
    /\ local' = [n \in Numbers |->
                    IF n \notin NumbersOf(r) \/ local[n] = "none" THEN local[n]
                    ELSE IF n \in part_nodes THEN "Active" ELSE "none"]
    /\ UNCHANGED <<query, thread, keeper, part, check_queue, cache, epoch,
                   drop, events>>

(* checkPartAndFix of a part of unknown status, when it is old enough.     *)
PartCheck(n) ==
    /\ n \in check_queue
    /\ session[home[part[n].insert]] = "up"
    /\ check_queue' = check_queue \ {n}
    /\ local' = IF n \in part_nodes THEN local ELSE [local EXCEPT ![n] = "none"]
    /\ UNCHANGED <<query, thread, keeper, part, caches, sessions, drop, events>>

(* AsyncBlockIDsCache::update                                              *)
CacheUpdate(r) ==
    /\ cache_due[r]
    /\ session[r] = "up"
    /\ cache_due' = [cache_due EXCEPT ![r] = FALSE]
    /\ cache' = [cache EXCEPT ![r] = {id \in AsyncIds : blocks[id] # NoNumber}]
    /\ UNCHANGED <<query, thread, keeper, server, sessions, drop, events>>

(* An id leaves the deduplication window.                                  *)
clearOldBlocks(id) ==
    /\ blocks[id] # NoNumber
    /\ Event
    /\ blocks' = [blocks EXCEPT ![id] = NoNumber]
    /\ UNCHANGED <<query, thread, next_block, locks, orphans, log, part_nodes,
                   server, caches, sessions, drop>>

(***************************************************************************)
(* DROP PARTITION                                                          *)
(***************************************************************************)
(* The range ends before a number allocated for the purpose.               *)
DropAllocate ==
    /\ drop.step = "start"
    /\ Event
    /\ 0 < next_block /\ next_block < MaxBlocks
    /\ next_block' = next_block + 1
    /\ drop' = [drop EXCEPT !.step = "locks", !.max = next_block - 1]
    /\ UNCHANGED <<query, thread, locks, orphans, blocks, log, part_nodes,
                   server, caches, sessions>>

(* Only the locks of inserts with deduplication are recognised as locks of *)
(* inserts.                                                                *)
clearLockedBlockNumbersInPartition ==
    /\ drop.step = "locks"
    /\ LET cancelled == {n \in locks : n <= drop.max /\ part[n].rows \subseteq Dedup}
       IN  locks' = locks \ cancelled /\ orphans' = orphans \ cancelled
    /\ drop' = [drop EXCEPT !.step = "list"]
    /\ UNCHANGED <<query, thread, next_block, blocks, log, part_nodes, server,
                   caches, sessions, events>>

getClearBlocksInPartitionOps ==
    /\ drop.step = "list"
    /\ drop' = [drop EXCEPT !.step = "blocks",
                            !.ids = {id \in Ids : blocks[id] <= drop.max}]
    /\ UNCHANGED <<query, thread, keeper, server, caches, sessions, events>>

(* One multi request: an id that is gone already makes all of it fail, and *)
(* the failure is ignored.                                                 *)
clearBlocksInPartition ==
    /\ drop.step = "blocks"
    /\ blocks' = IF \A id \in drop.ids : blocks[id] # NoNumber
                 THEN [id \in Ids |-> IF id \in drop.ids THEN NoNumber ELSE blocks[id]]
                 ELSE blocks
    /\ drop' = [drop EXCEPT !.step = "log", !.ids = {}]
    /\ UNCHANGED <<query, thread, next_block, locks, orphans, log, part_nodes,
                   server, caches, sessions, events>>

DropCommit ==
    /\ drop.step = "log"
    /\ drop' = [drop EXCEPT !.step = "logged"]
    /\ UNCHANGED <<query, thread, keeper, server, caches, sessions, events>>

Dropped(n) == n <= drop.max

(* A replica executes the entry: Active parts of the range and parts that  *)
(* wait for a check are removed; PreActive parts are not looked at.        *)
executeDropRange(r) ==
    /\ drop.step = "logged"
    /\ r \notin drop.executed
    /\ session[r] = "up"
    /\ LET removed == {n \in NumbersOf(r) : Dropped(n) /\ (local[n] = "Active" \/ n \in check_queue)}
       IN  /\ local' = [n \in Numbers |-> IF n \in removed THEN "none" ELSE local[n]]
           /\ part_nodes' = part_nodes \ removed
           /\ check_queue' = check_queue \ removed
    /\ drop' = [drop EXCEPT !.executed = @ \cup {r}]
    /\ UNCHANGED <<query, thread, next_block, locks, orphans, blocks, log,
                   part, caches, sessions, events>>

Insert(i) ==
    \/ allocateBlockNumber(i)
    \/ FoundDuplicate(i)
    \/ FoundConflict(i)
    \/ ResolveDuplicate(i)
    \/ RequestFails(i)
    \/ MultiOk(i)
    \/ MultiFails(i)
    \/ MultiConflict(i)
    \/ MultiCancelled(i)
    \/ VerifyFound(i)
    \/ VerifyNotFound(i)
    \/ VerifyFails(i)
    \/ LocalCommit(i)

Server(r) ==
    \/ RestartingThread(r)
    \/ Start(r)
    \/ CacheUpdate(r)

Drop ==
    \/ DropAllocate
    \/ clearLockedBlockNumbersInPartition
    \/ getClearBlocksInPartitionOps
    \/ clearBlocksInPartition
    \/ DropCommit
    \/ \E r \in Replicas : executeDropRange(r)

Fault ==
    \/ \E i \in Inserts : allocateBlockNumberLost(i) \/ MultiLost(i)
    \/ \E r \in Replicas : SessionLost(r) \/ Crash(r)

Next ==
    \/ \E i \in Inserts : Insert(i)
    \/ \E r \in Replicas : Server(r)
    \/ \E n \in Numbers : Expire(n) \/ PartCheck(n)
    \/ \E id \in Ids : clearOldBlocks(id)
    \/ Drop
    \/ Fault

Spec == Init /\ [][Next]_vars

(* Threads run, the restarting and the part check thread are rescheduled   *)
(* until they succeed, servers are started again, ZooKeeper expires the    *)
(* nodes of dead sessions.  Nothing makes clients, the cleanup or faults   *)
(* go on.                                                                  *)
FairSpec ==
    /\ Spec
    /\ \A i \in Inserts : WF_vars(Insert(i))
    /\ \A r \in Replicas : WF_vars(RestartingThread(r)) /\ WF_vars(Start(r))
    /\ WF_vars(\E n \in Numbers : Expire(n))
    /\ WF_vars(\E n \in Numbers : PartCheck(n))

(***************************************************************************)
(* Properties                                                              *)
(***************************************************************************)
(* Every variable has its type; the nodes in ZooKeeper name parts that     *)
(* were written.                                                           *)
TypeOK ==
    /\ request \in Workloads
    /\ home \in [Inserts -> Replicas]
    /\ sink \in [Inserts -> [stage : Stages, rows : SUBSET Ids, number : 0 .. NoNumber,
                             failures : 0 .. MaxRetries, verify_failures : 0 .. MaxRetries,
                             epoch : 0 .. MaxEvents]]
    /\ answer \in [Inserts -> Answers]
    /\ next_block \in 0 .. MaxBlocks
    /\ orphans \subseteq locks /\ locks \subseteq 0 .. next_block - 1
    /\ blocks \in [Ids -> 0 .. NoNumber]
    /\ part_nodes \subseteq log /\ log \subseteq 0 .. next_block - 1
    /\ \A n \in log : part[n].insert \in Inserts
    /\ local \in [Numbers -> {"none", "PreActive", "Active"}]
    /\ session \in [Replicas -> {"up", "lost", "crashed"}]
    /\ epoch \in [Replicas -> 0 .. MaxEvents]
    /\ check_queue \subseteq Numbers
    /\ cache \in [Replicas -> SUBSET Ids]
    /\ cache_due \in [Replicas -> BOOLEAN]

(* A row is in the table once, and the client is told the truth: the       *)
(* commit protocol implements the promise of INSERT, whatever answers are  *)
(* lost, however often a query retries and whichever server stops.         *)
Promised == INSTANCE DeduplicatedInserts WITH
    Parts <- Numbers,
    request <- [i \in Inserts |-> request[i].rows],
    table <- {[name |-> n, insert |-> part[n].insert, rows |-> part[n].rows] : n \in log},
    remembered <- {id \in Ids : blocks[id] # NoNumber}

ImplementsPromise == Promised!Spec

(* commitPart ("we can't delete the local part, as if the changes were     *)
(* applied then inserted block appeared in /blocks/"): a part that is      *)
(* registered in ZooKeeper for the replica that wrote it is on the disk of *)
(* that replica, also while the outcome of its commit is being found out   *)
(* and after a crash.                                                      *)
CommittedPartIsKept ==
    \A n \in part_nodes : local[n] # "none"

(* The same, except for queries that were killed or ran into their time    *)
(* limit while they looked for the outcome of the commit.                  *)
CommittedPartIsKeptUnlessKilled ==
    \A n \in part_nodes : local[n] = "none" => answer[part[n].insert] = "cancelled"

(* A visible part that ZooKeeper does not know is one of unknown status    *)
(* whose check is scheduled: a replica never shows rows that it may not    *)
(* have to give up again, unless the server is down.                       *)
VisiblePartIsCommittedOrChecked ==
    \A n \in Numbers :
        local[n] = "Active" => \/ n \in part_nodes
                               \/ n \in check_queue
                               \/ session[home[part[n].insert]] = "crashed"

(* Every lock of a block number goes away, a lock that stays would stop    *)
(* all merges across it; and no replica goes on to show a part that        *)
(* ZooKeeper does not know.                                                *)
EverythingIsSettled ==
    <>[](/\ locks = {}
         /\ \A n \in Numbers : local[n] = "Active" => n \in part_nodes)
================================================================================
