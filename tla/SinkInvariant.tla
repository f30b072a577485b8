---------------------------- MODULE SinkInvariant -----------------------------
(***************************************************************************)
(* The inductive invariant of commitPart: what the attempts of an insert,  *)
(* the sessions, the part nodes and the memory of block ids have to do     *)
(* with each other in every state.                                         *)
(***************************************************************************)
EXTENDS ReplicatedMergeTreeSink

-----------------------------------------------------------------------------
(* The inductive invariant.                                                *)

PartRecords == [rows : SUBSET Ids, insert : Inserts \cup {"none"}]
Steps == {"start", "locks", "list", "blocks", "log", "logged"}
Drops == [step : Steps, max : 0 .. NoNumber, ids : SUBSET Ids,
          executed : SUBSET Replicas]

TypeInv ==
    /\ TypeOK
    /\ part \in [Numbers -> PartRecords]
    /\ drop \in Drops
    /\ events \in 0 .. MaxEvents

(* Sessions are numbered by the events that end them, and a lock of an     *)
(* attempt is given up only when its session is.                           *)
SessionInv ==
    /\ \A r \in Replicas : /\ epoch[r] <= events
                           /\ session[r] = "lost" => epoch[r] < events
    /\ \A i \in Inserts :
          /\ At(i, "multi") => sink[i].epoch <= epoch[home[i]]
          /\ At(i, "multi") /\ sink[i].number \in orphans =>
                session[home[i]] = "lost" \/ sink[i].epoch < epoch[home[i]]
          /\ session[home[i]] = "crashed" => At(i, "done")

InFlight(i) == sink[i].stage \in {"multi", "commit", "verify"}

(* The part of an attempt is its own, and no one else touches it.          *)
OwnPart(i) ==
    LET n == sink[i].number IN
    InFlight(i) => /\ n < next_block
                   /\ part[n] = [rows |-> sink[i].rows, insert |-> i]
                   /\ local[n] = "PreActive"
                   /\ n \notin check_queue

(* An insert has committed at most one part, the one of this attempt.      *)
CommitsOnce(i) ==
    LET n == sink[i].number IN
    /\ \A k \in log : part[k].insert = i =>
          \/ At(i, "done")
          \/ (At(i, "commit") \/ At(i, "verify")) /\ k = n
    /\ At(i, "commit") => n \in part_nodes
    /\ At(i, "verify") /\ n \in log => n \in part_nodes

InTable(id) == \E n \in log : id \in part[n].rows

(* What is left of a block, and what became of the rest.                   *)
RowsLeft(i) ==
    ~At(i, "done") =>
        /\ answer[i] = "none"
        /\ sink[i].rows # {} /\ sink[i].rows \subseteq request[i].rows
        /\ ~request[i].async => sink[i].rows = request[i].rows
        /\ At(i, "duplicate") => ~request[i].async
        /\ \A id \in request[i].rows \ sink[i].rows : InTable(id)

(* Ids are remembered, in ZooKeeper and in the caches, for rows that were  *)
(* written.                                                                *)
Remembered ==
    /\ \A id \in Ids : blocks[id] # NoNumber => id \in Dedup /\ InTable(id)
    /\ \A r \in Replicas : \A id \in cache[r] : InTable(id)

LocalParts ==
    /\ check_queue \subseteq 0 .. next_block - 1
    /\ \A n \in Numbers : local[n] # "none" => n < next_block /\ part[n].insert \in Inserts

IInv ==
    /\ TypeInv
    /\ SessionInv
    /\ \A i \in Inserts : OwnPart(i) /\ CommitsOnce(i) /\ RowsLeft(i)
    /\ Remembered
    /\ LocalParts
    /\ CommittedPartIsKeptUnlessKilled
    /\ VisiblePartIsCommittedOrChecked
==============================================================================
