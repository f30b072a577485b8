-------------------------- MODULE MergeTreePartInfo --------------------------
(***************************************************************************)
(* The algebra of MergeTree part names: struct MergeTreePartInfo of        *)
(* src/Storages/MergeTree/MergeTreePartInfo.h.  A part is identified by    *)
(* its partition, the range of block numbers it covers, its merge level    *)
(* and the version of the last mutation applied to it.                     *)
(*                                                                         *)
(* Partition ids are strings in the code and naturals here: only their     *)
(* equality and their order are used.                                      *)
(***************************************************************************)
EXTENDS Naturals

CONSTANT LEGACY_MAX_LEVEL   (* numeric_limits<UInt32>::max() in the code *)

MAX_LEVEL == 999999999
MAX_BLOCK_NUMBER == 999999999

ASSUME LegacyMaxLevelAssumption ==
    LEGACY_MAX_LEVEL \in Nat /\ LEGACY_MAX_LEVEL > MAX_LEVEL

(* Levels that occur: what merges produce, or one of the two artificial    *)
(* levels of fake DROP_RANGE parts.                                        *)
Levels == {l \in Nat : l <= MAX_LEVEL \/ l = LEGACY_MAX_LEVEL}

PartInfo == [partition_id : Nat, min_block : Nat, max_block : Nat,
             level : Levels, mutation : Nat]

(* Every part the program names covers at least one block.                 *)
Parts == {p \in PartInfo : p.min_block <= p.max_block}

Part(partition_id, min_block, max_block, level, mutation) ==
    [partition_id |-> partition_id, min_block |-> min_block,
     max_block |-> max_block, level |-> level, mutation |-> mutation]

(* operator<: lexicographic on the five fields.                            *)
Less(p, q) ==
    \/ p.partition_id < q.partition_id
    \/ p.partition_id = q.partition_id /\ p.min_block < q.min_block
    \/ p.partition_id = q.partition_id /\ p.min_block = q.min_block
       /\ p.max_block < q.max_block
    \/ p.partition_id = q.partition_id /\ p.min_block = q.min_block
       /\ p.max_block = q.max_block /\ p.level < q.level
    \/ p.partition_id = q.partition_id /\ p.min_block = q.min_block
       /\ p.max_block = q.max_block /\ p.level = q.level
       /\ p.mutation < q.mutation

(* Mutations with a greater version still have to be applied to p.         *)
getDataVersion(p) == IF p.mutation # 0 THEN p.mutation ELSE p.min_block

sameBlockRange(p, q) == p.min_block = q.min_block /\ p.max_block = q.max_block

contains(p, q) ==
    /\ p.partition_id = q.partition_id
    /\ p.min_block <= q.min_block
    /\ p.max_block >= q.max_block
    /\ p.level >= q.level
    /\ p.mutation >= q.mutation
    /\ \/ sameBlockRange(p, q)
       \/ p.level > q.level
       \/ p.level \in {MAX_LEVEL, LEGACY_MAX_LEVEL}

isDisjoint(p, q) ==
    \/ p.partition_id # q.partition_id
    \/ p.min_block > q.max_block
    \/ p.max_block < q.min_block

isFakeDropRangePart(p) == p.level \in {MAX_LEVEL, LEGACY_MAX_LEVEL}

(* The block numbers a part stands for.                                    *)
Blocks(p) == p.min_block .. p.max_block
==============================================================================
