--------------------- MODULE MC_ReplicatedMergeTreeQueue ---------------------
(***************************************************************************)
(* Histories of the cluster for ReplicatedMergeTreeQueue.                  *)
(***************************************************************************)
EXTENDS ReplicatedMergeTreeQueue

P(lo, hi, level, mutation) == Part(0, lo, hi, level, mutation)
Block(b) == P(b, b, 0, 0)

Event(type, part, source, alter, mutation) ==
    [type |-> type, part |-> part, source |-> source, alter |-> alter,
     mutation |-> mutation]

GET_PART(b) == Event("GET_PART", Block(b), {}, 0, 0)
MERGE_PARTS(part, source) == Event("MERGE_PARTS", part, source, 0, 0)
MUTATE_PART(part, source, alter) == Event("MUTATE_PART", part, {source}, alter, 0)
DROP_RANGE(hi) ==
    Event("DROP_RANGE", P(0, hi, MAX_LEVEL, MAX_BLOCK_NUMBER), {}, 0, 0)
DROP_PART(part) == Event("DROP_PART", part, {}, 0, 0)
MUTATION(n) == Event("MUTATION", Block(0), {}, 0, n)
ALTER_METADATA(alter, n) == Event("ALTER_METADATA", Block(0), {}, alter, n)
KILL(n) == Event("KILL", Block(0), {}, 0, n)

(* A part in the middle is dropped and a merge bridges the gap.            *)
DropPart == <<GET_PART(0), GET_PART(1), GET_PART(2), DROP_PART(Block(1)),
              MERGE_PARTS(P(0, 2, 1, 0), {Block(0), Block(2)})>>

(* A partition with a merge is dropped and written to again.               *)
DropPartition == <<GET_PART(0), GET_PART(1),
                   MERGE_PARTS(P(0, 1, 1, 0), {Block(0), Block(1)}),
                   DROP_RANGE(2), GET_PART(3)>>

(* Insert 1 is committed after mutation 2 was created.                     *)
Mutate == <<GET_PART(0), MUTATION(2), MUTATE_PART(P(0, 0, 0, 2), Block(0), 0),
            GET_PART(1), MUTATE_PART(P(1, 1, 0, 2), Block(1), 0)>>

(* Two ALTERs with mutations.                                              *)
TwoAlters == <<GET_PART(0), ALTER_METADATA(1, 1),
               MUTATE_PART(P(0, 0, 0, 1), Block(0), 1),
               ALTER_METADATA(2, 2),
               MUTATE_PART(P(0, 0, 0, 2), P(0, 0, 0, 1), 2)>>

(* The mutation of the first of two ALTERs is killed.                      *)
KilledAlter == <<GET_PART(0), ALTER_METADATA(1, 1), KILL(1), ALTER_METADATA(2, 0)>>

AllHistories == {DropPart, DropPartition, Mutate, TwoAlters, KilledAlter}
OnlyTwoAlters == {TwoAlters}
OnlyKilledAlter == {KilledAlter}
==============================================================================
