-------------------------- MODULE DeduplicatedInserts --------------------------
(***************************************************************************)
(* What INSERT promises to a client of a ReplicatedMergeTree table.        *)
(*                                                                         *)
(* A row, here the piece of data that has one block id, is written in one  *)
(* indivisible step together with the other rows of its part.  While the   *)
(* table remembers the id of a row no second insert writes that row; an    *)
(* insert never writes the same row twice, remembered or not.  "ok" means  *)
(* that every row is in the table, "error" that this insert wrote none.    *)
(* "unknown" and "cancelled" promise nothing.                              *)
(***************************************************************************)
EXTENDS Naturals, FiniteSets

CONSTANTS
    Inserts,         (* INSERT queries                                     *)
    Ids,             (* rows, named by their block ids                     *)
    Dedup,           (* the rows that are inserted with deduplication      *)
    Parts            (* names of parts                                     *)

VARIABLES
    request,         (* the rows each insert brings                        *)
    table,           (* the parts that were ever written, and by whom      *)
    remembered,      (* the block ids the table still remembers            *)
    answer           (* what each client was told                          *)

vars == <<request, table, remembered, answer>>

Answers == {"none", "ok", "error", "unknown", "cancelled"}

WrittenBy(i) == {w \in table : w.insert = i}

Init ==
    /\ request \in [Inserts -> SUBSET Ids]
    /\ table = {}
    /\ remembered = {}
    /\ answer = [i \in Inserts |-> "none"]

(* Part p with the rows of S appears in the table.                         *)
Write(i, p, S) ==
    /\ answer[i] = "none"
    /\ S # {}
    /\ S \cap remembered = {}
    /\ \A w \in WrittenBy(i) : w.rows \cap S = {}
    /\ \A w \in table : w.name # p
    /\ table' = table \cup {[name |-> p, insert |-> i, rows |-> S]}
    /\ remembered' = remembered \cup (S \cap Dedup)
    /\ UNCHANGED <<request, answer>>

(* Old block ids, and those of a dropped partition, are forgotten.         *)
Forget ==
    /\ remembered' \in SUBSET remembered
    /\ UNCHANGED <<request, table, answer>>

IsInTable(i, id) ==
    \E w \in table : id \in w.rows /\ (id \notin Dedup => w.insert = i)

Promise(i, a) ==
    /\ a = "ok" => \A id \in request[i] : IsInTable(i, id)
    /\ a = "error" => WrittenBy(i) = {}

Reply(i, a) ==
    /\ answer[i] = "none"
    /\ a # "none"
    /\ Promise(i, a)
    /\ answer' = [answer EXCEPT ![i] = a]
    /\ UNCHANGED <<request, table, remembered>>

(* A server that stops answers all its inserts in one step.                *)
Disconnect(I) ==
    /\ \A i \in I : answer[i] = "none"
    /\ answer' = [i \in Inserts |-> IF i \in I THEN "unknown" ELSE answer[i]]
    /\ UNCHANGED <<request, table, remembered>>

Next ==
    \/ \E i \in Inserts : \E p \in Parts, S \in SUBSET request[i] : Write(i, p, S)
    \/ Forget
    \/ \E i \in Inserts, a \in Answers : Reply(i, a)
    \/ \E I \in SUBSET Inserts : Disconnect(I)

Spec == Init /\ [][Next]_vars
================================================================================
