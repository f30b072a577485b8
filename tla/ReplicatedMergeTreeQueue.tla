---------------------- MODULE ReplicatedMergeTreeQueue -----------------------
(***************************************************************************)
(* The replication queue of one replica: how it copies /log, keeps track   *)
(* of the parts it will have, chooses what to execute, executes entries    *)
(* on several threads and out of order, and recovers its state after a     *)
(* lost ZooKeeper session or a restart (ReplicatedMergeTreeQueue, with     *)
(* DropPartsRanges and ReplicatedMergeTreeAltersSequence, and the parts of *)
(* StorageReplicatedMergeTree that execute entries).                       *)
(*                                                                         *)
(* What the rest of the cluster does is a history: the log entries other   *)
(* replicas append, the mutations they create and kill, in the order of    *)
(* their ZooKeeper transactions.  MergeAssignment shows which histories    *)
(* the cluster writes.  An entry is named by its position in the history;  *)
(* nodes of the replica's /queue have the same order.                      *)
(*                                                                         *)
(* The other replicas are assumed to execute the log in order, each at its *)
(* own pace: what can be fetched from them is what some prefix leaves.     *)
(***************************************************************************)
EXTENDS ActiveDataPartSet, ReplicatedMergeTreeAltersSequence, SequencesExt

CONSTANTS
    Histories,       (* what the cluster may write                         *)
    MaxEvents,       (* bound on their length                              *)
    Executed,        (* events the replica has executed at the start       *)
    MaxFaults        (* bound on lost sessions, crashes and failed entries *)

Producing == {"GET_PART", "MERGE_PARTS", "MUTATE_PART"}
Dropping == {"DROP_RANGE", "DROP_PART"}
EntryTypes == Producing \cup Dropping \cup {"ALTER_METADATA"}

(* MUTATION creates a node of /mutations, KILL removes it; ALTER_METADATA  *)
(* creates one in the same transaction when its mutation is not 0.         *)
EventTypes == EntryTypes \cup {"MUTATION", "KILL"}

Events == [type : EventTypes, part : Parts, source : SUBSET Parts,
           alter : Nat, mutation : Nat]

ASSUME QueueAssumption ==
    /\ \A h \in Histories :
          Len(h) \in Executed .. MaxEvents /\ \A i \in DOMAIN h : h[i] \in Events
    /\ MaxEvents \in Nat /\ Executed \in 0 .. MaxEvents /\ MaxFaults \in Nat

VARIABLES
    history,         (* one of Histories                                   *)
    now,             (* how much of it has happened                        *)
    zk,              (* the replica's nodes: log_pointer, queue, parts and *)
                     (* mutation_pointer                                   *)
    q,               (* the queue object in memory, see below              *)
    exec,            (* the entries being executed                         *)
    parts,           (* active parts of the replica                        *)
    outdated,        (* parts rolled back or dropped whose node remains    *)
    metadata_version,
    pull,            (* the pullLogsToQueue in progress                    *)
    finalize,        (* the tryFinalizeMutations in progress               *)
    session,         (* "ok", "lost", or "shutdown" once that is noticed   *)
    faults,
    leftover         (* auxiliary: entries whose node survived their       *)
                     (* removal from memory                                *)

cluster == <<history, now>>
disk == <<parts, outdated, metadata_version>>
tasks == <<pull, finalize>>
vars == <<cluster, zk, q, exec, disk, tasks, session, faults, leftover>>

-----------------------------------------------------------------------------
(* The history.                                                            *)

Type(i) == history[i].type
PartOf(i) == history[i].part
AlterOf(i) == history[i].alter

(* Entries of /log at a moment of the history.                             *)
Log(k) == {i \in 1 .. k : Type(i) \in EntryTypes}

CreatesMutation(i) == Type(i) \in {"MUTATION", "ALTER_METADATA"}

(* The nodes of /mutations, and the ALTER a mutation belongs to, or 0.     *)
Mutations(k) ==
    {history[i].mutation : i \in {j \in 1 .. k : CreatesMutation(j)}}
        \ ({history[i].mutation : i \in {j \in 1 .. k : Type(j) = "KILL"}} \cup {0})

AlterOfMutation(n) ==
    history[CHOOSE i \in DOMAIN history :
                CreatesMutation(i) /\ history[i].mutation = n].alter

(* Inserts that still hold a number lower than one already given out.      *)
CommittingBlocks(k) ==
    {PartOf(i).min_block : i \in {j \in k + 1 .. Len(history) :
        /\ Type(j) = "GET_PART"
        /\ \E e \in 1 .. k : \/ history[e].mutation > PartOf(j).min_block
                             \/ /\ Type(e) = "GET_PART"
                                /\ PartOf(e).min_block > PartOf(j).min_block}}

(* The active parts of a replica that has executed the first k events.     *)
ApplyEvent(S, e) ==
    CASE e.type \in Producing -> addPart(S, e.part)
      [] e.type \in Dropping -> removePartAndCoveredParts(S, e.part)
      [] OTHER -> S

AppliedTo == [h \in Histories |-> [k \in 0 .. Len(h) |->
                 FoldLeft(ApplyEvent, {}, SubSeq(h, 1, k))]]
Applied(k) == AppliedTo[history][k]

-----------------------------------------------------------------------------
(* Fold F over a set of entries, in the order of their nodes.              *)
InOrder(F(_, _), base, S) ==
    MapThenFoldSet(LAMBDA x, acc : F(acc, x), base,
                   LAMBDA x : x, LAMBDA s : Max(s), S)

(* The set an ActiveDataPartSet holds after P is added to it in any order. *)
ActiveParts(P) == {p \in P : \A r \in P : contains(r, p) => r = p}

getVirtualPartNames(i) ==
    IF Type(i) \in Producing \cup {"DROP_RANGE"} THEN {PartOf(i)} ELSE {}

isAlterMutation(i) == Type(i) = "MUTATE_PART" /\ AlterOf(i) # 0

-----------------------------------------------------------------------------
(* The queue object: operators from one state of it to the next, each      *)
(* executed under state_mutex.                                             *)

NoMutations == [n \in {} |-> [parts_to_do |-> {}, is_done |-> FALSE]]

EmptyQueue ==
    [queue |-> <<>>, virtual_parts |-> {}, current_parts |-> {},
     drop_parts |-> {}, mutations |-> NoMutations, mutation_pointer |-> 0,
     alter_sequence |-> NoAlters, intersecting |-> FALSE]

(* add() throws on an intersection: virtual parts, current parts.          *)
addVirtualPart(Q, p) ==
    [Q EXCEPT !.virtual_parts = addPart(@, p),
              !.intersecting = @ \/ addOutcome(Q.virtual_parts, p) = "HasIntersectingPart"]

addCurrentPart(Q, p) ==
    [Q EXCEPT !.current_parts = addPart(@, p),
              !.intersecting = @ \/ addOutcome(Q.current_parts, p) = "HasIntersectingPart"]

addPartToMutations(Q, p) ==
    [Q EXCEPT
        !.mutations = [n \in DOMAIN @ |->
            IF n > getDataVersion(p)
            THEN [@[n] EXCEPT !.parts_to_do = addPart(@, p)]
            ELSE @[n]],
        !.intersecting = @ \/ \E n \in DOMAIN Q.mutations :
            /\ n > getDataVersion(p)
            /\ addOutcome(Q.mutations[n].parts_to_do, p) = "HasIntersectingPart"]

removeCoveredPartsFromMutations(Q, p, remove_part, remove_covered_parts) ==
    [Q EXCEPT !.mutations = [n \in DOMAIN @ |->
        [@[n] EXCEPT !.parts_to_do =
            CASE remove_part /\ remove_covered_parts -> removePartAndCoveredParts(@, p)
              [] remove_covered_parts -> removePartsCoveredBy(@, p)
              [] remove_part -> remove(@, p)]]]

(* DropPartsRanges.                                                        *)
isAffectedByDropPart(Q, p) == \E d \in Q.drop_parts : ~isDisjoint(PartOf(d), p)
hasDropPart(Q, p) == \E d \in Q.drop_parts : contains(PartOf(d), p)

isGoingToBeDroppedImpl(Q, p) ==
    \/ \E v \in getContainingPart(Q.virtual_parts, p) : isFakeDropRangePart(v)
    \/ hasDropPart(Q, p)

(* Mutated form: a DROP_PART leaves the virtual parts alone.               *)
insertUnlocked_virtual(Q, i) ==
    LET added == CASE Type(i) \in Producing ->
                        addPartToMutations(addVirtualPart(Q, PartOf(i)), PartOf(i))
                   [] Type(i) = "DROP_RANGE" -> addVirtualPart(Q, PartOf(i))
                   [] Type(i) = "DROP_PART" -> [Q EXCEPT !.drop_parts = @ \cup {i}]
                   [] Type(i) = "ALTER_METADATA" ->
                        [Q EXCEPT !.alter_sequence = addMetadataAlter(@, AlterOf(i))]
    IN  [added EXCEPT !.queue =
            IF Type(i) \in Dropping THEN <<i>> \o @ ELSE Append(@, i)]

insertUnlocked(Q, i) ==
    LET added == CASE Type(i) \in Producing ->
                        addPartToMutations(addVirtualPart(Q, PartOf(i)), PartOf(i))
                   [] Type(i) = "DROP_RANGE" -> addVirtualPart(Q, PartOf(i))
                   [] Type(i) = "DROP_PART" ->
                        removeCoveredPartsFromMutations(
                            [Q EXCEPT !.drop_parts = @ \cup {i},
                                      !.virtual_parts =
                                          removePartAndCoveredParts(@, PartOf(i))],
                            PartOf(i), TRUE, TRUE)
                   [] Type(i) = "ALTER_METADATA" ->
                        [Q EXCEPT !.alter_sequence = addMetadataAlter(@, AlterOf(i))]
    IN  [added EXCEPT !.queue =
            IF Type(i) \in Dropping THEN <<i>> \o @ ELSE Append(@, i)]

(* Mutated form: a DROP_PART that was executed stays in drop_parts.        *)
updateStateOnSuccess_dropping(Q, i, actual) ==
    LET RemoveCovered(R, p) == removeCoveredPartsFromMutations(R, p, FALSE, TRUE)
        jumped == FoldSet(LAMBDA p, R : RemoveCovered(R, p), Q, actual)
        p == PartOf(i)
    IN  CASE Type(i) \in Producing -> RemoveCovered(addCurrentPart(jumped, p), p)
          [] Type(i) = "DROP_RANGE" ->
               [RemoveCovered(addCurrentPart(jumped, p), p) EXCEPT
                    !.current_parts = remove(@, p), !.virtual_parts = remove(@, p)]
          [] Type(i) = "DROP_PART" ->
               [jumped EXCEPT !.current_parts = removePartAndCoveredParts(@, p)]
          [] Type(i) = "ALTER_METADATA" ->
               [jumped EXCEPT !.alter_sequence = finishMetadataAlter(@, AlterOf(i))]

(* updateStateOnQueueEntryRemoval of an entry that was executed; actual    *)
(* holds the larger part fetched instead of its own, if any.               *)
updateStateOnSuccess(Q, i, actual) ==
    LET RemoveCovered(R, p) == removeCoveredPartsFromMutations(R, p, FALSE, TRUE)
        jumped == FoldSet(LAMBDA p, R : RemoveCovered(R, p), Q, actual)
        p == PartOf(i)
    IN  CASE Type(i) \in Producing -> RemoveCovered(addCurrentPart(jumped, p), p)
          [] Type(i) = "DROP_RANGE" ->
               [RemoveCovered(addCurrentPart(jumped, p), p) EXCEPT
                    !.current_parts = remove(@, p), !.virtual_parts = remove(@, p)]
          [] Type(i) = "DROP_PART" ->
               [jumped EXCEPT !.current_parts = removePartAndCoveredParts(@, p),
                              !.drop_parts = @ \ {i}]
          [] Type(i) = "ALTER_METADATA" ->
               [jumped EXCEPT !.alter_sequence = finishMetadataAlter(@, AlterOf(i))]

(* The same for an entry that another one removes: only entries that       *)
(* produce a part are.                                                     *)
updateStateOnFailure(Q, i) ==
    removeCoveredPartsFromMutations(
        [Q EXCEPT !.virtual_parts = remove(@, PartOf(i))], PartOf(i), TRUE, FALSE)

(* getQueueRepresentation and getPartNamesToMutate: the parts a mutation   *)
(* found in ZooKeeper still has to be applied to, the queue included.      *)
getPartNamesToMutate(Q, n) ==
    LET current == {p \in getPartsCoveredBy(Q.current_parts,
                              Part(0, 0, n, MAX_LEVEL, MAX_BLOCK_NUMBER)) :
                        getDataVersion(p) < n}
        Represent(S, i) ==
            CASE Type(i) \in Dropping -> removePartAndCoveredParts(S, PartOf(i))
              [] Type(i) \in Producing /\ getDataVersion(PartOf(i)) < n ->
                    addPart(S, PartOf(i))
              [] OTHER -> S
    IN  InOrder(Represent, current, ToSet(Q.queue))

(* Mutations that are gone from ZooKeeper are forgotten, new ones loaded.  *)
forgetMutation(Q, n) ==
    [Q EXCEPT !.mutations = [m \in DOMAIN @ \ {n} |-> @[m]],
              !.alter_sequence =
                  IF ~Q.mutations[n].is_done /\ AlterOfMutation(n) # 0
                  THEN finishDataAlter(@, AlterOfMutation(n)) ELSE @]

loadMutation(Q, n) ==
    [Q EXCEPT !.mutations = [m \in DOMAIN @ \cup {n} |->
                  IF m = n
                  THEN [parts_to_do |-> getPartNamesToMutate(Q, n), is_done |-> FALSE]
                  ELSE @[m]],
              !.alter_sequence =
                  IF AlterOfMutation(n) # 0 /\ n > Q.mutation_pointer
                  THEN addMutationForAlter(@, AlterOfMutation(n)) ELSE @]

updateMutations(Q, k) ==
    LET forgotten == InOrder(forgetMutation, Q, DOMAIN Q.mutations \ Mutations(k))
    IN  InOrder(loadMutation, forgotten, Mutations(k) \ DOMAIN Q.mutations)

(* The first part of tryFinalizeMutations: mutations up to the pointer.    *)
markDone(Q, n) ==
    [Q EXCEPT !.mutations[n] = [parts_to_do |-> {}, is_done |-> TRUE],
              !.alter_sequence = finishDataAlter(@, AlterOfMutation(n))]

(* Its last part: a mutation found finished.                               *)
finishMutation(Q, n) ==
    IF n \notin DOMAIN Q.mutations THEN Q
    ELSE [Q EXCEPT !.mutations[n].is_done = TRUE,
                   !.alter_sequence =
                       IF AlterOfMutation(n) # 0
                       THEN finishDataAlter(@, AlterOfMutation(n)) ELSE @]

removeCurrentPartsFromMutations(Q) ==
    FoldSet(LAMBDA p, R : removeCoveredPartsFromMutations(R, p, FALSE, TRUE),
            Q, Q.current_parts)

(* initialize(): clear() leaves drop_parts and alter_sequence alone.       *)
initialize(Q) ==
    [EmptyQueue EXCEPT !.virtual_parts = ActiveParts(zk.parts),
                       !.current_parts = ActiveParts(zk.parts),
                       !.drop_parts = Q.drop_parts,
                       !.alter_sequence = Q.alter_sequence,
                       !.intersecting = Q.intersecting]

load(Q) == [InOrder(insertUnlocked, Q, zk.queue)
                EXCEPT !.mutation_pointer = zk.mutation_pointer]

-----------------------------------------------------------------------------
(* Entries being executed.                                                 *)

Executing == DOMAIN exec

(* future_parts: the parts being made, with the entries that make them.    *)
future_parts == UNION {{<<p, i>> : p \in getVirtualPartNames(i) \cup exec[i].actual} :
                          i \in Executing}

IsFuturePart(p) == \E f \in future_parts : f[1] = p

(* A drop range may start while the entries it covers are executed.        *)
isCoveredByFutureParts(p) ==
    \E f \in future_parts :
        /\ ~isDisjoint(f[1], p)
        /\ ~(isFakeDropRangePart(p) /\ contains(p, f[1]) /\ f[1] # p)

ExecutingDropRanges == {PartOf(i) : i \in {j \in Executing : Type(j) \in Dropping}}

(* The checks of shouldExecuteLogEntry that come before the one on alters. *)
MayExecute(i) ==
    /\ \A p \in getVirtualPartNames(i) : ~isCoveredByFutureParts(p)
    /\ Type(i) \in Producing =>
          /\ ~isAffectedByDropPart(q, PartOf(i))
          /\ ~isGoingToBeDroppedImpl(q, PartOf(i))
    /\ \A p \in history[i].source : ~IsFuturePart(p)

shouldExecuteLogEntry(i) ==
    /\ MayExecute(i)
    /\ Type(i) = "ALTER_METADATA" => canExecuteMetaAlter(q.alter_sequence, AlterOf(i))
    /\ isAlterMutation(i) => canExecuteDataAlter(q.alter_sequence, AlterOf(i))
    /\ Type(i) \in Dropping => \A r \in ExecutingDropRanges : isDisjoint(PartOf(i), r)

shouldExecuteThrows(i) ==
    MayExecute(i) /\ isAlterMutation(i) /\ DataAlterThrows(q.alter_sequence, AlterOf(i))

Selected == [stage |-> "selected", actual |-> {}, wait |-> {}, removed |-> FALSE]

Start(i) == exec' = [j \in Executing \cup {i} |-> IF j = i THEN Selected ELSE exec[j]]
End(i) == exec' = [j \in Executing \ {i} |-> exec[j]]
SetStage(i, stage) == exec' = [exec EXCEPT ![i].stage = stage]

Waited(i) == exec[i].wait \cap Executing \subseteq {i}

NoPull == [stage |-> "idle", upto |-> 0, owner |-> "update"]
NoFinalize == [stage |-> "idle", candidates |-> {}, committing |-> {}]

(* The session expires: requests in progress fail.                         *)
LoseSession ==
    /\ session = "ok" /\ session' = "lost"
    /\ faults < MaxFaults /\ faults' = faults + 1
    /\ pull' = NoPull /\ finalize' = NoFinalize
    /\ leftover' = leftover \cup {i \in Executing : exec[i].stage = "removed"}

(* The first entry of the queue that should be executed; nothing is        *)
(* selected when a check before it throws.                                 *)
isSelected(i) ==
    \E j \in DOMAIN q.queue :
        /\ i = q.queue[j] /\ i \notin Executing
        /\ shouldExecuteLogEntry(i)
        /\ \A k \in 1 .. j - 1 :
              q.queue[k] \in Executing \/ ~(shouldExecuteLogEntry(q.queue[k])
                                             \/ shouldExecuteThrows(q.queue[k]))

(* The selected entry goes to the end of the queue.                        *)
selectEntryToProcess ==
    /\ session # "shutdown"
    /\ \E i \in ToSet(q.queue) :
          /\ isSelected(i)
          /\ q' = [q EXCEPT !.queue = Append(SelectSeq(@, LAMBDA j : j # i), i)]
          /\ Start(i)
    /\ UNCHANGED <<cluster, zk, disk, tasks, session, faults, leftover>>

-----------------------------------------------------------------------------
(* Executing an entry that produces a part: executeLogEntry, executeFetch, *)
(* ReplicatedMergeMutateTaskBase.                                          *)

Covering(i) == getContainingPart(parts, PartOf(i))

(* The part exists already, or one that covers it.                         *)
PartExists(i) ==
    /\ session = "ok"
    /\ exec[i].stage = "selected" /\ Type(i) \in Producing
    /\ Covering(i) \cap zk.parts # {}
    /\ SetStage(i, "executed")
    /\ UNCHANGED <<cluster, zk, q, disk, tasks, session, faults, leftover>>

(* prepare(): a merge or a mutation has its sources.                       *)
PrepareMerge(i) ==
    /\ session = "ok"
    /\ exec[i].stage = "selected" /\ Type(i) \in {"MERGE_PARTS", "MUTATE_PART"}
    /\ Covering(i) \cap zk.parts = {}
    /\ history[i].source \subseteq parts
    /\ SetStage(i, "prepared")
    /\ UNCHANGED <<cluster, zk, q, disk, tasks, session, faults, leftover>>

(* addFuturePartIfNotCoveredByThem: may p be fetched instead of its own    *)
(* part, and which executing entries have to finish first?                 *)
canFetchInstead(i, p) ==
    /\ getContainingPart(q.virtual_parts, p) # {}
    /\ ~isAffectedByDropPart(q, p)
    /\ ~IsFuturePart(p)
    /\ \A f \in future_parts : isDisjoint(f[1], p) \/ f[2] <= i

EntriesToWait(p) == {f[2] : f \in {g \in future_parts : ~isDisjoint(g[1], p)}}

(* The part an entry will commit.                                         *)
Result(i) == IF exec[i].actual = {} THEN PartOf(i) ELSE CHOOSE p \in exec[i].actual : TRUE

(* findReplicaHavingCoveringPart: another replica has executed a prefix of *)
(* the log, and has the part or one that covers it.                        *)
FindReplicaAt(i, k) ==
    /\ session = "ok"
    /\ exec[i].stage = "selected" /\ Type(i) \in Producing
    /\ Covering(i) \cap zk.parts = {}
    /\ \E p \in getContainingPart(Applied(k), PartOf(i)) :
          \/ p = PartOf(i) /\ SetStage(i, "prepared")
          \/ /\ p # PartOf(i)
             /\ canFetchInstead(i, p)
             /\ exec' = [exec EXCEPT ![i].stage = "prepared", ![i].actual = {p},
                                     ![i].wait = EntriesToWait(p)]
    /\ UNCHANGED <<cluster, zk, q, disk, tasks, session, faults, leftover>>

FindReplica(i) == \E k \in 0 .. now : FindReplicaAt(i, k)

(* What the replica could do with the entry it has just selected if every  *)
(* other replica had executed the whole log.                               *)
HasNoSource(i) ==
    /\ Type(i) \in Producing /\ exec[i].stage = "selected"
    /\ Covering(i) \cap zk.parts = {}
    /\ ~(history[i].source # {} /\ history[i].source \subseteq parts)
    /\ \A p \in getContainingPart(Applied(now), PartOf(i)) :
          p # PartOf(i) /\ ~canFetchInstead(i, p)

(* The part was renamed but a rolled back one of the same name is in the   *)
(* way until it is cleared.                                                *)
NameIsTaken(i) == exec[i].stage = "prepared" /\ Result(i) \in outdated

(* No replica has the part, the fetch is refused, the session is lost: the *)
(* entry stays in the queue.                                               *)
CannotExecute(i) ==
    /\ Waited(i) /\ exec[i].stage \in {"selected", "prepared"}
    /\ session # "ok" \/ HasNoSource(i) \/ NameIsTaken(i)
    /\ End(i)
    /\ UNCHANGED <<cluster, zk, q, disk, tasks, session, faults, leftover>>

(* Any other exception, a cancelled merge, a broken connection.            *)
ExecutionFails(i) ==
    /\ faults < MaxFaults /\ faults' = faults + 1
    /\ Waited(i) /\ exec[i].stage \in {"selected", "prepared", "dropping"}
    /\ End(i)
    /\ UNCHANGED <<cluster, zk, q, disk, tasks, session, leftover>>

Intersects(p) == addOutcome(parts, p) = "HasIntersectingPart"

MayCommit(i) ==
    /\ session = "ok"
    /\ exec[i].stage = "prepared" /\ Waited(i)
    /\ Result(i) \notin outdated
    /\ ~Intersects(Result(i))

(* checkPartChecksumsAndCommit.                                            *)
CommitPart(i) ==
    /\ MayCommit(i)
    /\ parts' = addPart(parts, Result(i))
    /\ zk' = [zk EXCEPT !.parts = (@ \ (parts \ parts')) \cup ({Result(i)} \cap parts')]
    /\ SetStage(i, "executed")
    /\ UNCHANGED <<cluster, q, outdated, metadata_version, tasks, session, faults, leftover>>

(* The transaction is applied and its answer lost: the local part is       *)
(* rolled back and the entry stays.                                        *)
CommitPartLost(i) ==
    /\ MayCommit(i)
    /\ LoseSession
    /\ zk' = [zk EXCEPT !.parts = @ \cup {Result(i)}]
    /\ outdated' = outdated \cup {Result(i)}
    /\ End(i)
    /\ UNCHANGED <<cluster, q, parts, metadata_version>>

(* clearOldPartsAndRemoveFromZK.                                           *)
clearOldParts(p) ==
    /\ session = "ok"
    /\ p \in outdated
    /\ outdated' = outdated \ {p}
    /\ zk' = [zk EXCEPT !.parts = @ \ {p}]
    /\ UNCHANGED <<cluster, q, exec, parts, metadata_version, tasks, session, faults, leftover>>

-----------------------------------------------------------------------------
(* Executing the other entries.                                            *)

(* An older version than the current one needs nothing from ZooKeeper.     *)
executeMetadataAlter(i) ==
    /\ session = "ok" \/ AlterOf(i) < metadata_version
    /\ exec[i].stage = "selected" /\ Type(i) = "ALTER_METADATA"
    /\ metadata_version' = Max({metadata_version, AlterOf(i)})
    /\ SetStage(i, "executed")
    /\ UNCHANGED <<cluster, zk, q, parts, outdated, tasks, session, faults, leftover>>

(* The entries removePartProducingOpsInRange takes out of the queue.       *)
OpsInRange(i) == {j \in ToSet(q.queue) : Type(j) \in Producing /\ contains(PartOf(i), PartOf(j))}

(* Mutated form: it does not wait for the entries that are executing.      *)
removePartProducingOpsInRange_nowait(i) ==
    /\ exec[i].stage = "selected" /\ Type(i) \in Dropping
    /\ LET ops == OpsInRange(i) IN
       /\ q' = [InOrder(updateStateOnFailure, q, ops)
                   EXCEPT !.queue = SelectSeq(@, LAMBDA j : j \notin ops)]
       /\ zk' = IF session = "ok" THEN [zk EXCEPT !.queue = @ \ ops] ELSE zk
       /\ exec' = [j \in Executing |->
                      IF j = i THEN [exec[i] EXCEPT !.stage = "dropping"]
                      ELSE [exec[j] EXCEPT !.removed = @ \/ j \in ops]]
    /\ UNCHANGED <<cluster, disk, tasks, session, faults, leftover>>

(* executeDropRange, first part; the nodes are not removed when the        *)
(* session is lost.                                                        *)
removePartProducingOpsInRange(i) ==
    /\ exec[i].stage = "selected" /\ Type(i) \in Dropping
    /\ LET ops == OpsInRange(i) IN
       /\ q' = [InOrder(updateStateOnFailure, q, ops)
                   EXCEPT !.queue = SelectSeq(@, LAMBDA j : j \notin ops)]
       /\ zk' = IF session = "ok" THEN [zk EXCEPT !.queue = @ \ ops] ELSE zk
       /\ exec' = [j \in Executing |->
                      IF j = i THEN [exec[i] EXCEPT !.stage = "dropping",
                                                    !.wait = ops \cap Executing]
                      ELSE [exec[j] EXCEPT !.removed = @ \/ j \in ops]]
    /\ UNCHANGED <<cluster, disk, tasks, session, faults, leftover>>

(* Mutated form: a DROP_PART that is repeated takes no notice of what      *)
(* replaced its part.                                                      *)
DropIsSkipped_never(i) == FALSE

(* grabActivePartsToRemoveForDropRange: DROP_PART of a part that some      *)
(* larger part has replaced drops nothing; a part that sticks out of the   *)
(* range is a logical error.                                               *)
DropIsSkipped(i) ==
    LET r == PartOf(i) IN
    /\ ~isFakeDropRangePart(r) /\ r.min_block # 0
    /\ \E p \in parts : /\ p.min_block <= r.min_block /\ p.max_block >= r.max_block
                        /\ p.mutation >= r.mutation
                        /\ <<p.min_block, p.max_block, p.mutation>>
                              # <<r.min_block, r.max_block, r.mutation>>

SticksOut(r, p) == ~isDisjoint(r, p) /\ ~(Blocks(p) \subseteq Blocks(r))

grabActivePartsToRemove(i) ==
    IF DropIsSkipped(i) THEN {} ELSE {p \in parts : Blocks(p) \subseteq Blocks(PartOf(i))}

(* executeDropRange, second part: the parts leave the working set, then    *)
(* ZooKeeper; without a session the second, unless there is nothing to do, *)
(* does not happen and the entry stays.                                    *)
executeDropRange(i) ==
    /\ exec[i].stage = "dropping" /\ Waited(i)
    /\ DropIsSkipped(i) \/ ~\E p \in parts : SticksOut(PartOf(i), p)
    /\ LET active == grabActivePartsToRemove(i)
           inactive == {p \in outdated : contains(PartOf(i), p)}
       IN  /\ parts' = parts \ active
           /\ IF session = "ok" \/ active \cup inactive = {}
              THEN /\ outdated' = outdated \ inactive
                   /\ zk' = [zk EXCEPT !.parts = @ \ (active \cup inactive)]
                   /\ SetStage(i, "executed")
              ELSE /\ outdated' = outdated \cup active
                   /\ UNCHANGED zk
                   /\ End(i)
    /\ UNCHANGED <<cluster, q, metadata_version, tasks, session, faults, leftover>>

(* removeProcessedEntry: from memory first, unless another entry has       *)
(* removed it, then from ZooKeeper.                                        *)
removeProcessedEntry(i) ==
    /\ exec[i].stage = "executed"
    /\ IF exec[i].removed
       THEN End(i) /\ UNCHANGED q
       ELSE /\ q' = [updateStateOnSuccess(q, i, exec[i].actual)
                        EXCEPT !.queue = SelectSeq(@, LAMBDA j : j # i)]
            /\ SetStage(i, "removed")
    /\ UNCHANGED <<cluster, zk, disk, tasks, session, faults, leftover>>

removeQueueNode(i) ==
    /\ exec[i].stage = "removed"
    /\ zk' = IF session = "ok" THEN [zk EXCEPT !.queue = @ \ {i}] ELSE zk
    /\ End(i)
    /\ UNCHANGED <<cluster, q, disk, tasks, session, faults, leftover>>

-----------------------------------------------------------------------------
(* pullLogsToQueue, for the queue updating task or for a merge predicate.  *)

Unpulled(k) == {i \in Log(k) : i > zk.log_pointer}

pullLogsToQueue(owner) ==
    /\ session = "ok"
    /\ pull.stage = "idle"
    /\ \/ owner = "update" /\ Unpulled(now) # {}
       \/ owner = "finalize" /\ finalize.stage = "committing"
    /\ pull' = [stage |-> "listed", upto |-> now, owner |-> owner]
    /\ finalize' = [finalize EXCEPT !.stage = IF owner = "finalize" THEN "pulling" ELSE @]
    /\ UNCHANGED <<cluster, zk, q, exec, disk, session, faults, leftover>>

(* The pull is over: the merge predicate goes on.                          *)
EndPull ==
    /\ pull' = NoPull
    /\ finalize' = [finalize EXCEPT !.stage = IF pull.owner = "finalize" THEN "pulled" ELSE @]

(* Mutations are loaded after the log is listed and before its entries     *)
(* are inserted.                                                           *)
PullMutations ==
    /\ session = "ok"
    /\ pull.stage = "listed"
    /\ q' = updateMutations(q, now)
    /\ IF Unpulled(pull.upto) = {} THEN EndPull
       ELSE pull' = [pull EXCEPT !.stage = "entries"] /\ UNCHANGED finalize
    /\ UNCHANGED <<cluster, zk, exec, disk, session, faults, leftover>>

(* Mutated forms: the pointer falls behind; the nodes are not created.     *)
CopyToQueue_behind(batch) ==
    zk' = [zk EXCEPT !.queue = @ \cup batch, !.log_pointer = Max(batch) - 1]

CopyToQueue_pointer(batch) == zk' = [zk EXCEPT !.log_pointer = Max(batch)]

CopyToQueue(batch) ==
    zk' = [zk EXCEPT !.queue = @ \cup batch, !.log_pointer = Max(batch)]

(* One batch: the transaction, then the queue in memory.  The batch size   *)
(* starts with one entry and is doubled.                                   *)
Batches ==
    LET unpulled == Unpulled(pull.upto) IN {{Min(unpulled)}, unpulled}

PullBatch ==
    /\ session = "ok"
    /\ pull.stage = "entries"
    /\ \E batch \in Batches :
          /\ CopyToQueue(batch)
          /\ q' = InOrder(insertUnlocked, q, batch)
          /\ IF batch = Unpulled(pull.upto) THEN EndPull ELSE UNCHANGED tasks
    /\ UNCHANGED <<cluster, exec, disk, session, faults, leftover>>

(* The answer to the transaction is lost: memory is not updated.           *)
PullBatchLost ==
    /\ pull.stage = "entries"
    /\ LoseSession
    /\ \E batch \in Batches : CopyToQueue(batch)
    /\ UNCHANGED <<cluster, q, exec, disk>>

mutationsUpdatingTask ==
    /\ session = "ok"
    /\ DOMAIN q.mutations # Mutations(now)
    /\ q' = updateMutations(q, now)
    /\ UNCHANGED <<cluster, zk, exec, disk, tasks, session, faults, leftover>>

-----------------------------------------------------------------------------
(* tryFinalizeMutations: candidates, committing blocks, the log, and only  *)
(* then the decision.                                                      *)

Unfinalized ==
    {n \in DOMAIN q.mutations : /\ ~q.mutations[n].is_done
                                /\ \/ n <= q.mutation_pointer
                                   \/ q.mutations[n].parts_to_do = {}}

tryFinalizeMutations ==
    /\ session = "ok"
    /\ finalize.stage = "idle"
    /\ Unfinalized # {}
    /\ LET passed == {n \in Unfinalized : n <= q.mutation_pointer}
           candidates == Unfinalized \ passed
       IN  /\ q' = InOrder(markDone, q, passed)
           /\ finalize' = IF candidates = {} THEN finalize
                          ELSE [finalize EXCEPT !.stage = "candidates",
                                                !.candidates = candidates]
    /\ UNCHANGED <<cluster, zk, exec, disk, pull, session, faults, leftover>>

getCommittingBlocks ==
    /\ session = "ok"
    /\ finalize.stage = "candidates"
    /\ finalize' = [finalize EXCEPT !.stage = "committing",
                                    !.committing = CommittingBlocks(now)]
    /\ UNCHANGED <<cluster, zk, q, exec, disk, pull, session, faults, leftover>>

(* Mutated form: inserts in progress are not considered.                   *)
isMutationFinished_unchecked(n) ==
    n \in DOMAIN q.mutations => q.mutations[n].parts_to_do = {}

isMutationFinished(n) ==
    /\ \A b \in finalize.committing : b >= n
    /\ n \in DOMAIN q.mutations => q.mutations[n].parts_to_do = {}

Finished == {n \in finalize.candidates : isMutationFinished(n)}

FinalizeMutations ==
    /\ session = "ok"
    /\ finalize.stage = "pulled"
    /\ finalize' = NoFinalize
    /\ IF Finished = {} THEN UNCHANGED <<zk, q>>
       ELSE /\ zk' = [zk EXCEPT !.mutation_pointer = Max(Finished)]
            /\ q' = [InOrder(finishMutation, q, Finished)
                        EXCEPT !.mutation_pointer = Max(Finished)]
    /\ UNCHANGED <<cluster, exec, disk, pull, session, faults, leftover>>

(* The answer to the write of mutation_pointer is lost.                    *)
FinalizeMutationsLost ==
    /\ finalize.stage = "pulled" /\ Finished # {}
    /\ LoseSession
    /\ zk' = [zk EXCEPT !.mutation_pointer = Max(Finished)]
    /\ UNCHANGED <<cluster, q, exec, disk>>

-----------------------------------------------------------------------------
(* The other replicas; KILL MUTATION executed by this one (removeMutation  *)
(* finishes the alter even of a mutation that is done).                    *)

OtherReplicas ==
    /\ now < Len(history)
    /\ now' = now + 1
    /\ UNCHANGED <<history, zk, q, exec, disk, tasks, session, faults, leftover>>

removeMutation ==
    /\ session = "ok"
    /\ now < Len(history) /\ Type(now + 1) = "KILL"
    /\ now' = now + 1
    /\ LET n == history[now'].mutation IN
       q' = IF n \notin DOMAIN q.mutations THEN q
            ELSE forgetMutation([q EXCEPT !.mutations[n].is_done = FALSE], n)
    /\ UNCHANGED <<history, zk, exec, disk, tasks, session, faults, leftover>>

-----------------------------------------------------------------------------
(* Faults and recovery.                                                    *)

SessionLost ==
    /\ LoseSession
    /\ UNCHANGED <<cluster, zk, q, exec, disk>>

(* The server stops.  At its start every part on disk is active that no    *)
(* other one covers.                                                       *)
Crash ==
    /\ LoseSession
    /\ exec' = [i \in {} |-> Selected]
    /\ q' = EmptyQueue
    /\ parts' = ActiveParts(parts \cup outdated)
    /\ outdated' = {}
    /\ UNCHANGED <<cluster, zk, metadata_version>>

(* The restarting thread stops the background tasks.                       *)
partialShutdown ==
    /\ session = "lost" /\ session' = "shutdown"
    /\ UNCHANGED <<cluster, zk, q, exec, disk, tasks, faults, leftover>>

(* When the executing entries are done it loads the queue again.           *)
tryStartup ==
    /\ session = "shutdown" /\ session' = "ok"
    /\ Executing = {}
    /\ LET loaded == updateMutations(load(initialize(q)), now)
           new == Unpulled(now)
       IN  /\ q' = removeCurrentPartsFromMutations(InOrder(insertUnlocked, loaded, new))
           /\ zk' = IF new = {} THEN zk
                    ELSE [zk EXCEPT !.queue = @ \cup new, !.log_pointer = Max(new)]
    /\ UNCHANGED <<cluster, exec, disk, tasks, faults, leftover>>

-----------------------------------------------------------------------------
Init ==
    /\ history \in Histories
    /\ now = Executed
    /\ parts = Applied(now) /\ outdated = {} /\ metadata_version = 0
    /\ zk = [log_pointer |-> now, queue |-> {}, parts |-> parts, mutation_pointer |-> 0]
    /\ q = [EmptyQueue EXCEPT !.virtual_parts = parts, !.current_parts = parts]
    /\ exec = [i \in {} |-> Selected]
    /\ pull = NoPull /\ finalize = NoFinalize
    /\ session = "ok" /\ faults = 0 /\ leftover = {}

Execute(i) ==
    \/ PartExists(i) \/ PrepareMerge(i) \/ CommitPart(i) \/ CannotExecute(i)
    \/ executeMetadataAlter(i)
    \/ removePartProducingOpsInRange(i) \/ executeDropRange(i)
    \/ removeProcessedEntry(i) \/ removeQueueNode(i)

Pull == pullLogsToQueue("update") \/ pullLogsToQueue("finalize") \/ PullMutations \/ PullBatch
Finalize == tryFinalizeMutations \/ getCommittingBlocks \/ FinalizeMutations
Cleanup == \E p \in outdated : clearOldParts(p)

Fault ==
    \/ SessionLost \/ Crash \/ PullBatchLost \/ FinalizeMutationsLost
    \/ \E i \in Executing : CommitPartLost(i) \/ ExecutionFails(i)

Next ==
    \/ OtherReplicas \/ removeMutation
    \/ selectEntryToProcess
    \/ \E i \in Executing : Execute(i) \/ FindReplica(i)
    \/ Pull \/ mutationsUpdatingTask \/ Finalize
    \/ Cleanup \/ partialShutdown \/ tryStartup \/ Fault

Spec == Init /\ [][Next]_vars

(* Background tasks run again and again, and every thread goes on until it *)
(* has to wait: whatever is ready is not left so for ever.  Of the other   *)
(* replicas it is only assumed that a part can be fetched from one that    *)
(* has executed the log (HasNoSource).                                     *)
Ready(i) == i \in Executing /\ Waited(i)

FairSpec ==
    /\ Spec
    /\ WF_exec(session # "shutdown" /\ \E i \in ToSet(q.queue) : isSelected(i) /\ Start(i))
    /\ \A i \in 1 .. MaxEvents : []<>~Ready(i)
    /\ []<>~(session = "ok" /\ Unpulled(now) # {} /\ pull.stage = "idle")
    /\ []<>~(session = "ok" /\ DOMAIN q.mutations # Mutations(now))
    /\ []<>~(session = "ok" /\ Unfinalized # {} /\ finalize.stage = "idle")
    /\ []<>(pull.stage = "idle") /\ []<>(finalize.stage = "idle")
    /\ []<>~(session = "ok" /\ outdated # {})
    /\ []<>(session # "lost") /\ []<>~(session = "shutdown" /\ Executing = {})

-----------------------------------------------------------------------------
(* What each piece of state ranges over: positions of the log, sets of     *)
(* parts the log names, stages of the executing entries.                   *)
TypeOK ==
    LET named == {PartOf(i) : i \in DOMAIN history}
        stages == {"selected", "prepared", "dropping", "executed", "removed"}
    IN  /\ now \in 0 .. Len(history)
        /\ zk.log_pointer \in 0 .. now /\ zk.queue \subseteq Log(zk.log_pointer)
        /\ zk.parts \cup parts \cup outdated \subseteq named
        /\ zk.mutation_pointer \in {0} \cup {history[i].mutation : i \in DOMAIN history}
        /\ q.virtual_parts \cup q.current_parts \subseteq named
        /\ q.drop_parts \subseteq Log(now) /\ IsInjective(q.queue)
        /\ \A n \in DOMAIN q.mutations : q.mutations[n].parts_to_do \subseteq named
        /\ \A v \in DOMAIN q.alter_sequence : q.alter_sequence[v] \in AlterState
        /\ Executing \subseteq Log(now)
        /\ \A i \in Executing :
              /\ exec[i].stage \in stages /\ exec[i].removed \in BOOLEAN
              /\ exec[i].actual \subseteq named /\ exec[i].wait \subseteq Log(now)
        /\ pull.stage \in {"idle", "listed", "entries"}
        /\ finalize.stage \in {"idle", "candidates", "committing", "pulling", "pulled"}
        /\ session \in {"ok", "lost", "shutdown"}
        /\ metadata_version \in Nat /\ faults \in 0 .. MaxFaults /\ leftover \subseteq Log(now)

(* Everything the cluster has written is pulled and executed.              *)
CaughtUp ==
    /\ session = "ok"
    /\ Unpulled(now) = {} /\ zk.queue = {} /\ Executing = {}

(* A replica that has executed its queue has the parts of every other      *)
(* replica that has, whatever it executed first, fetched instead, lost or  *)
(* repeated on the way: no part is lost, and none that was dropped is back *)
(* unless it was the part of an entry whose node outlived it.              *)
CaughtUpReplicaHasTheParts ==
    CaughtUp => /\ Applied(now) \subseteq parts
                /\ parts \ Applied(now) \subseteq {PartOf(i) : i \in leftover}

(* No operation of the queue finds parts that intersect: neither in its    *)
(* own sets, where add() throws and the server terminates, nor when a      *)
(* part is committed or dropped ("It is a bug").                           *)
PartsNeverIntersect ==
    /\ ~q.intersecting
    /\ \A i \in Executing : Waited(i) =>
          /\ exec[i].stage = "prepared" => ~Intersects(Result(i))
          /\ exec[i].stage = "dropping" /\ ~DropIsSkipped(i) =>
                ~\E p \in parts : SticksOut(PartOf(i), p)

(* The invariant insertUnlocked and updateStateOnQueueEntryRemoval rely    *)
(* on: virtual_parts = current_parts + queue.                              *)
VirtualPartsAreCurrentPartsAndQueue ==
    session = "ok" =>
        LET Replay(S, i) == IF Type(i) = "DROP_RANGE" THEN addPart(S, PartOf(i))
                            ELSE ApplyEvent(S, history[i])
        IN  q.virtual_parts = InOrder(Replay, q.current_parts, ToSet(q.queue))

(* The queue in memory is the queue in ZooKeeper, but for the entries that *)
(* have just been executed: a crash forgets and repeats nothing else.      *)
QueueIsInZooKeeper ==
    session = "ok" =>
        zk.queue = ToSet(q.queue) \cup {i \in Executing : exec[i].stage = "removed"}

isMarkedDone(n) ==
    \/ n <= zk.mutation_pointer
    \/ n \in DOMAIN q.mutations /\ q.mutations[n].is_done

Mutated(p, n) == p.min_block < n => getDataVersion(p) >= n

(* An entry that is still in the queue will mutate p to n or more.         *)
WillBeMutated(p, n) ==
    \E i \in zk.queue : contains(PartOf(i), p) /\ getDataVersion(PartOf(i)) >= n

(* A mutation that is done, here or according to mutation_pointer, has     *)
(* been applied to every part of the replica it concerns, and no insert    *)
(* can still bring it a part it concerns.                                  *)
FinishedMutationIsApplied ==
    \A n \in Mutations(now) : isMarkedDone(n) =>
        /\ \A p \in parts : Mutated(p, n)
        /\ \A b \in CommittingBlocks(now) : b >= n

(* The same when the answer to the commit of a mutated part may be lost:   *)
(* what is not mutated yet will be by an entry of the queue.               *)
FinishedMutationIsAppliedOrQueued ==
    \A n \in Mutations(now) : isMarkedDone(n) =>
        /\ \A p \in parts : Mutated(p, n) \/ WillBeMutated(p, n)
        /\ \A b \in CommittingBlocks(now) : b >= n

(* ALTERs are executed one by one: the metadata of one is not changed      *)
(* before the mutations of older ones are done.                            *)
AltersAreExecutedInOrder ==
    \A n \in Mutations(now) :
        AlterOfMutation(n) # 0 /\ AlterOfMutation(n) < metadata_version => isMarkedDone(n)

(* alter_sequence holds the ALTERs the replica still has to execute: each  *)
(* version has its ALTER_METADATA in the queue or a mutation that is not   *)
(* done.                                                                   *)
isCurrentAlter(v) ==
    \/ \E i \in ToSet(q.queue) : Type(i) = "ALTER_METADATA" /\ AlterOf(i) = v
    \/ \E n \in DOMAIN q.mutations : AlterOfMutation(n) = v /\ ~q.mutations[n].is_done

AlterSequenceHoldsCurrentAlters ==
    session = "ok" => \A v \in DOMAIN q.alter_sequence : isCurrentAlter(v)

(* The replica catches up with whatever the cluster has written, and       *)
(* finishes the mutations, unless a node outlived its entry or an ALTER    *)
(* that was killed is still at the head of alter_sequence.                 *)
CatchesUp ==
    <>[](\/ /\ CaughtUp
            /\ now = Len(history) => \A n \in Mutations(now) : n <= zk.mutation_pointer
         \/ leftover # {}
         \/ ~AlterSequenceHoldsCurrentAlters)
==============================================================================
