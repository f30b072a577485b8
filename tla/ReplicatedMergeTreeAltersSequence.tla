------------------ MODULE ReplicatedMergeTreeAltersSequence ------------------
(***************************************************************************)
(* The operations of class ReplicatedMergeTreeAltersSequence: the order in *)
(* which a replica executes ALTERs.  An ALTER has a metadata stage, the    *)
(* ALTER_METADATA entry of the queue, and a data stage, its mutation.  The *)
(* std::map queue_state is the function A from the versions it holds.      *)
(***************************************************************************)
EXTENDS Naturals

AlterState == [metadata_finished : BOOLEAN, data_finished : BOOLEAN]

NoAlters == [v \in {} |-> [metadata_finished |-> TRUE, data_finished |-> TRUE]]

isHead(A, v) == v \in DOMAIN A /\ \A u \in DOMAIN A : v <= u

(* v is at least the head; false of an empty map.                          *)
reachesHead(A, v) == \E u \in DOMAIN A : u <= v

erase(A, v) == [u \in DOMAIN A \ {v} |-> A[u]]

put(A, v, state) == [u \in DOMAIN A \cup {v} |-> IF u = v THEN state ELSE A[u]]

(* Mutated form: the data stage is taken for finished.                     *)
addMutationForAlter_finished(A, v) ==
    IF v \notin DOMAIN A
    THEN put(A, v, [metadata_finished |-> TRUE, data_finished |-> FALSE])
    ELSE A

addMutationForAlter(A, v) ==
    IF v \notin DOMAIN A
    THEN put(A, v, [metadata_finished |-> TRUE, data_finished |-> FALSE])
    ELSE [A EXCEPT ![v].data_finished = FALSE]

addMetadataAlter(A, v) ==
    IF v \notin DOMAIN A
    THEN put(A, v, [metadata_finished |-> FALSE, data_finished |-> TRUE])
    ELSE [A EXCEPT ![v].metadata_finished = FALSE]

finishMetadataAlter(A, v) ==
    IF A[v].data_finished
    THEN erase(A, v)
    ELSE [A EXCEPT ![v].metadata_finished = TRUE]

(* operator[] creates a missing version with both stages unfinished.       *)
finishDataAlter(A, v) ==
    IF ~reachesHead(A, v) THEN A
    ELSE IF v \in DOMAIN A /\ A[v].metadata_finished THEN erase(A, v)
    ELSE put(A, v, [metadata_finished |-> FALSE, data_finished |-> TRUE])

(* at() throws for a version that is past the head and not in the map.     *)
DataAlterThrows(A, v) == reachesHead(A, v) /\ v \notin DOMAIN A

canExecuteDataAlter(A, v) ==
    reachesHead(A, v) => v \in DOMAIN A /\ A[v].metadata_finished

canExecuteMetaAlter(A, v) == isHead(A, v)
==============================================================================
