----------------------- MODULE MergeAssignmentInvariant -----------------------
(***************************************************************************)
(* The inductive invariants from which the properties of MergeAssignment   *)
(* are proved.                                                             *)
(***************************************************************************)
EXTENDS MergeAssignment

-----------------------------------------------------------------------------
(* Types, and the bounds that keep indices inside their sequences: a       *)
(* replica has loaded no more mutations than there are, and pulls no       *)
(* further than the log it has listed.                                     *)
Bounded ==
    /\ \A r \in Replicas : loaded[r] <= Len(mutations)
    /\ \A r \in Replicas : pull[r].upto <= Len(log)

TypeInv == TypeOK /\ Bounded

-----------------------------------------------------------------------------
(* The order of mutations.  Every number that has been handed out is below *)
(* next_block; a query that will commit has a number above the versions it *)
(* has seen, and the version check of /mutations lets it commit only if    *)
(* those are all there are.                                                *)
OrderInv ==
    /\ MutationsAreOrdered
    /\ \A i \in 1 .. Len(mutations) : mutations[i] < next_block
    /\ \A m \in Mutators :
          /\ mutator[m].seen <= Len(mutations)
          /\ mutator[m].pc = "commit" =>
                /\ mutator[m].number < next_block
                /\ \A i \in 1 .. mutator[m].seen : mutations[i] < mutator[m].number

-----------------------------------------------------------------------------
(* Mutations are known before the entries that need them.  Known(M, k) are *)
(* the versions of the first k mutations; a part or an entry is applicable *)
(* with them if its version is one of them.                                *)
Known(M, k) == {M[i] : i \in 1 .. k}

PartLoaded(p, K) == p.mutation = 0 \/ p.mutation \in K

EntryLoaded(e, K) ==
    /\ e.type = "DROP_RANGE" => isFakeDropRangePart(e.new_part)
    /\ e.type # "DROP_RANGE" => PartLoaded(e.new_part, K)
    /\ e.type = "MUTATE_PART" => e.new_part.mutation \in K

LogLoaded ==
    \A i \in 1 .. Len(log) : EntryLoaded(log[i], Known(mutations, Len(mutations)))

PredLoaded ==
    \A w \in Assigners : pred[w].stage = "selected" =>
        EntryLoaded(pred[w].entry, Known(mutations, Len(mutations)))

(* What replica r has loaded suffices for the entries it has copied, and,  *)
(* from updateMutations on, for those it is going to copy.                 *)
QueueLoaded(r) ==
    /\ log_pointer[r] <= Len(log)
    /\ \A p \in mergeable(r) : PartLoaded(p, Known(mutations, loaded[r]))
    /\ \A i \in 1 .. log_pointer[r] : EntryLoaded(log[i], Known(mutations, loaded[r]))
    /\ pull[r].stage = "mutations" =>
          /\ pull[r].mut <= Len(mutations)
          /\ \A i \in 1 .. pull[r].upto : EntryLoaded(log[i], Known(mutations, pull[r].mut))
    /\ pull[r].stage = "copy" =>
          \A i \in 1 .. pull[r].upto : EntryLoaded(log[i], Known(mutations, loaded[r]))

LoadedInv == LogLoaded /\ PredLoaded /\ \A r \in Replicas : QueueLoaded(r)

-----------------------------------------------------------------------------
(* Who holds which block number.  A mutation holds its number until it     *)
(* unlocks it, a drop until its entry is logged.                           *)
MHolds(m) == mutator[m].pc \in {"commit", "committed", "conflict"}
DHolds(d) == dropper[d].pc \in {"clear", "commit"}

Locked ==
    /\ next_block <= MaxBlocks
    /\ \A b \in locks : b < next_block
    /\ \A i \in inserts : i.number < next_block
    /\ \A m \in Mutators : MHolds(m) => mutator[m].number \in locks
    /\ \A d \in Droppers : DHolds(d) =>
          /\ dropper[d].number < next_block
          /\ dropper[d].number = 0 \/ dropper[d].number \in locks

(* No number has two owners, and none is both a block and a mutation.      *)
InsertsApart ==
    \A i \in inserts :
        /\ i.number \notin Known(mutations, Len(mutations))
        /\ \A m \in Mutators : MHolds(m) => i.number # mutator[m].number
        /\ \A d \in Droppers : DHolds(d) => i.number # dropper[d].number

MutatorsApart ==
    \A m \in Mutators : MHolds(m) =>
        /\ \A n \in Mutators : MHolds(n) /\ mutator[n].number = mutator[m].number => n = m
        /\ \A d \in Droppers : DHolds(d) => dropper[d].number # mutator[m].number

DroppersApart ==
    \A c, d \in Droppers :
        DHolds(c) /\ DHolds(d) /\ dropper[c].number = dropper[d].number => c = d

Apart == InsertsApart /\ MutatorsApart /\ DroppersApart

Owners == Locked /\ Apart

-----------------------------------------------------------------------------
(* Where the dropped ranges end.  When clearLockedBlockNumbersInPartition  *)
(* is done, no insert below the delimiting number can commit any more,     *)
(* provided every insert has a lock that it may cancel; and the version of *)
(* /alter_partition_version orders the drops.                              *)
Ends(L) == {L[k].new_part.max_block : k \in {j \in 1 .. Len(L) : L[j].type = "DROP_RANGE"}}

Pending(i) == i.number \in locks

DropperOK(d) ==
    /\ dropper[d].pc \in {"allocate", "clear", "commit"} =>
          dropper[d].seen <= alter_partition_version
    /\ dropper[d].pc = "commit" => \A i \in inserts : Pending(i) => dropper[d].number <= i.number
    /\ DHolds(d) /\ dropper[d].seen = alter_partition_version =>
          \A x \in Ends(log) : x + 1 < dropper[d].number

DropsInv ==
    /\ \A i \in inserts : i.content = "insert"
    /\ \A d \in Droppers : DropperOK(d)
    /\ \A x \in Ends(log) : x \in Nat /\ x + 1 < next_block
    /\ \A x \in Ends(log), i \in inserts : Pending(i) => x < i.number

(* No assigner chooses to drop a range.                                    *)
NoRangeChosen ==
    \A w \in Assigners : pred[w].stage = "selected" => pred[w].entry.type # "DROP_RANGE"

-----------------------------------------------------------------------------
(* No insert is swallowed.  The operators take the next block number n     *)
(* and the numbers F that are locked: those of inserts in flight, and      *)
(* those of mutations and drops in progress.                               *)

Clear(p, F) == Blocks(p) \cap F = {}

SafeEntry(e, n, F) ==
    /\ e.new_part.max_block < n
    /\ e.type = "DROP_RANGE" => isFakeDropRangePart(e.new_part)
    /\ e.type # "DROP_RANGE" => Clear(e.new_part, F)

SafePart(p, n, F) == p.max_block < n /\ (isFakeDropRangePart(p) \/ Clear(p, F))

(* What a predicate in progress knows.  Its committing blocks were read    *)
(* after the parts it may merge, so every number still locked below the    *)
(* end of one of those parts is among them.                                *)
Knows(q, F) ==
    \A p \in q.prev, b \in F : b <= p.max_block => b \in q.committing

(* What SelectPartsToMerge may choose, and what the searches of            *)
(* canMergeTwoParts make sure of.                                          *)
Selection(w, S, first, last, top, newest) ==
    /\ S \subseteq {p \in mergeable(Home[w]) : canMergeSinglePart(w, p)}
    /\ first \in S /\ last \in S /\ top \in S /\ newest \in S
    /\ assign(S, first, last, top, newest)
    /\ \A p, q \in S : consecutive(S, p, q) => canMergeTwoParts(w, p, q)

MergesAreClear ==
    \A w \in Assigners : pred[w].stage = "ready" =>
        \A S \in SUBSET mergeable(Home[w]) : \A first, last, top, newest \in S :
            Selection(w, S, first, last, top, newest)
                => Clear(futurePart(first, last, top, newest), locks)

SafePredicate(q, n, F) ==
    /\ \A p \in q.prev : p.max_block < n
    /\ q.stage \in {"loaded", "pulling", "ready"} => Knows(q, F)
    /\ q.stage = "selected" =>
          q.entry.type # "DROP_RANGE" /\ SafeEntry(q.entry, n, F)

(* Numbers are handed out in order.                                        *)
Allocated ==
    /\ \A b \in locks : b < next_block
    /\ \A i \in inserts : i.number < next_block
    /\ \A d \in Droppers : dropper[d].number <= next_block

LogSafe == \A i \in 1 .. Len(log) : SafeEntry(log[i], next_block, locks)

QueuesSafe ==
    \A r \in Replicas : \A p \in virtual_parts[r] : SafePart(p, next_block, locks)

PredicatesSafe == \A w \in Assigners : SafePredicate(pred[w], next_block, locks)

Waiting ==
    \A r \in Replicas : \A w \in pull[r].waiter :
        pred[w].stage = "pulling" /\ Home[w] = r

SwallowInv == Allocated /\ LogSafe /\ QueuesSafe /\ PredicatesSafe /\ Waiting

IInv == TypeInv /\ SwallowInv

-----------------------------------------------------------------------------
(* What a predicate may have missed, as long as the version of /log is the *)
(* one it has read: inserts and mutations whose numbers were still locked  *)
(* when it read the committing blocks, or allocated after it.              *)
Unseen(q, b) == \A p \in q.prev : b <= p.max_block => b \in q.committing

(* Beyond entry k of the log L and mutation n of M.                        *)
Sees(q, L, k, M, n) ==
    /\ \A j \in k + 1 .. Len(L) : L[j].type = "GET_PART" /\ Unseen(q, L[j].new_part.min_block)
    /\ \A j \in n + 1 .. Len(M) : Unseen(q, M[j])

PullSees(r) ==
    pull[r].version = log_version => \A w \in pull[r].waiter :
        /\ pull[r].stage = "mutations" => Sees(pred[w], log, pull[r].upto, mutations, pull[r].mut)
        /\ pull[r].stage = "copy" => Sees(pred[w], log, pull[r].upto, mutations, loaded[r])

PredSees(w) ==
    pred[w].stage = "ready" /\ pred[w].version = log_version =>
        Sees(pred[w], log, log_pointer[Home[w]], mutations, loaded[Home[w]])

ViewsInv ==
    /\ \A r \in Replicas : pull[r].version <= log_version /\ PullSees(r)
    /\ \A w \in Assigners : pred[w].version <= log_version /\ PredSees(w)

-----------------------------------------------------------------------------
(* The parts that exist after k entries, whoever reads them: those         *)
(* produced and not covered by a later entry; and the dropped ranges.      *)
Producing == {"GET_PART", "MERGE_PARTS", "MUTATE_PART"}

LiveIn(L, i, k) ==
    /\ L[i].type \in Producing
    /\ \A m \in i + 1 .. k : ~contains(L[m].new_part, L[i].new_part)

AliveIn(L, k) == {L[i].new_part : i \in {j \in 1 .. k : LiveIn(L, j, k)}}
RangesIn(L, k) == {L[i].new_part : i \in {j \in 1 .. k : L[j].type = "DROP_RANGE"}}

(* An entry made from the parts A: a merge takes every part that overlaps  *)
(* its result, a mutation replaces one part by a newer one, DROP PART      *)
(* removes one.                                                            *)
MergeOf(A, e) ==
    /\ e.source_parts = {x \in A : ~isDisjoint(e.new_part, x)}
    /\ \E first, last, top, newest \in e.source_parts :
          /\ assign(e.source_parts, first, last, top, newest)
          /\ e.new_part = futurePart(first, last, top, newest)

MutationOf(A, e) ==
    \E p \in A : /\ e.source_parts = {p}
                 /\ e.new_part = [p EXCEPT !.mutation = e.new_part.mutation]
                 /\ p.mutation < e.new_part.mutation /\ p.min_block < e.new_part.mutation
                 /\ e.new_part.mutation < MAX_BLOCK_NUMBER

Assigned(A, e) ==
    \/ e.type = "MERGE_PARTS" /\ MergeOf(A, e)
    \/ e.type = "MUTATE_PART" /\ MutationOf(A, e)
    \/ e.type = "DROP_PART" /\ e.new_part \in A /\ e.source_parts = {}

(* An insert is clear of everything before it.  A dropped range splits no  *)
(* earlier part and ends after the earlier ranges.                         *)
Inserted(L, k, e) ==
    /\ e.type = "GET_PART" /\ e.source_parts = {}
    /\ e.new_part = Part(Partition, e.new_part.min_block, e.new_part.min_block, 0, 0)
    /\ \A i \in 1 .. k : isDisjoint(e.new_part, L[i].new_part)

Dropped(L, k, e) ==
    /\ e.type = "DROP_RANGE" /\ e.source_parts = {}
    /\ e.new_part = Part(Partition, 0, e.new_part.max_block, MAX_LEVEL, MAX_BLOCK_NUMBER)
    /\ \A i \in 1 .. k :
          IF L[i].type = "DROP_RANGE"
          THEN L[i].new_part.max_block < e.new_part.max_block
          ELSE isDisjoint(e.new_part, L[i].new_part) \/ contains(e.new_part, L[i].new_part)

EntryOK(L, k, e) == Assigned(AliveIn(L, k), e) \/ Inserted(L, k, e) \/ Dropped(L, k, e)

(* The parts of a table: disjoint, all after every dropped range, with the *)
(* levels and versions of real parts.                                      *)
SetOK(A, D, k) ==
    /\ \A x, y \in A : x = y \/ isDisjoint(x, y)
    /\ \A x \in A, d \in D : d.max_block < x.min_block
    /\ \A x \in A : /\ x.partition_id = Partition /\ x.level < k
                    /\ x.mutation < MAX_BLOCK_NUMBER
                    /\ x.mutation = 0 \/ x.min_block < x.mutation
    /\ \A d \in D : d = Part(Partition, 0, d.max_block, MAX_LEVEL, MAX_BLOCK_NUMBER)

(* A later part is apart from an earlier one, or covers more blocks, or    *)
(* covers it.  So no part is ever produced twice, dropped or not.          *)
Beyond(e, p) ==
    \/ isDisjoint(e.new_part, p)
    \/ /\ p.min_block <= e.new_part.min_block /\ e.new_part.max_block <= p.max_block
       /\ ~sameBlockRange(e.new_part, p)
    \/ /\ e.type # "DROP_PART" /\ contains(p, e.new_part) /\ p # e.new_part

Grows(L) ==
    \A i, j \in 1 .. Len(L) :
        i < j /\ L[i].type # "DROP_RANGE" /\ L[j].type \in Producing
            => Beyond(L[i], L[j].new_part)

(* An inserted block is in a part until an entry drops it.                 *)
Kept(L) ==
    \A i \in 1 .. Len(L) : \A k \in i .. Len(L) : L[i].type = "GET_PART" =>
        LET b == L[i].new_part.min_block
        IN  \/ \E x \in AliveIn(L, k) : b \in Blocks(x)
            \/ \E m \in i + 1 .. k : /\ L[m].type \in {"DROP_PART", "DROP_RANGE"}
                                     /\ b \in Blocks(L[m].new_part)

LogOK(L) ==
    /\ Len(L) <= MaxLog
    /\ \A k \in 1 .. Len(L) : EntryOK(L, k - 1, L[k]) /\ L[k].new_part.partition_id = Partition
    /\ \A k \in 0 .. Len(L) : SetOK(AliveIn(L, k), RangesIn(L, k), k)
    /\ Grows(L)
    /\ Kept(L)

-----------------------------------------------------------------------------
(* The inductive invariant of the log.  Every replica has the parts that   *)
(* are alive in the log it has read, and fake parts of ranges dropped in   *)
(* it.  What an assigner has chosen fits the whole log, as long as nothing *)
(* but inserts was appended since it read the version.                     *)
Reflects(V, A, D) ==
    /\ {p \in V : ~isFakeDropRangePart(p)} = A
    /\ {p \in V : isFakeDropRangePart(p)} \subseteq D

QueueOK(r) ==
    Reflects(virtual_parts[r], AliveIn(log, log_pointer[r]), RangesIn(log, log_pointer[r]))

ChoiceOK(w) ==
    pred[w].stage = "selected" /\ pred[w].version = log_version =>
        Assigned(AliveIn(log, Len(log)), pred[w].entry)

LogInv ==
    /\ LogOK(log)
    /\ \A r \in Replicas : QueueOK(r)
    /\ \A w \in Assigners : ChoiceOK(w)

(* The sources of a merge agree on the mutations.  A mutation whose number *)
(* is inside the range of a part has been applied to all of it; and it is  *)
(* applied to all sources of a merge and to its result, or to none.        *)
SplitFree(p, v) == v \in Blocks(p) => v <= p.mutation

Agree(e, v) ==
    \A p \in e.source_parts : v <= getDataVersion(p) <=> v <= getDataVersion(e.new_part)

Consistent(e, v) ==
    /\ e.type \in Producing => SplitFree(e.new_part, v)
    /\ e.type = "MERGE_PARTS" => Agree(e, v)

AgreeInv ==
    \A v \in Known(mutations, Len(mutations)) :
        /\ \A i \in 1 .. Len(log) : Consistent(log[i], v)
        /\ \A w \in Assigners : pred[w].stage = "selected" /\ pred[w].version = log_version =>
              Consistent(pred[w].entry, v)

Base == IInv /\ OrderInv /\ LoadedInv /\ Owners /\ DropsInv /\ ViewsInv
==============================================================================
