----------------------- MODULE MC_ReplicatedMergeTreeSink ----------------------
(***************************************************************************)
(* Instances of ReplicatedMergeTreeSink.                                   *)
(***************************************************************************)
EXTENDS ReplicatedMergeTreeSink, TLC

Sync(id) == [rows |-> {id}, async |-> FALSE]
Async(S) == [rows |-> S, async |-> TRUE]
Both(p, q) == "i1" :> p @@ "i2" :> q

(* Block "a" with and "u" without deduplication, and asynchronous inserts  *)
(* that share some or all of their rows.                                   *)
AllWorkloads == {
    Both(Sync("a"), Sync("a")), Both(Sync("a"), Sync("u")),
    Both(Async({"b"}), Async({"b", "c"}))}
================================================================================
