-------------------------- MODULE ReplicatedLogProofs --------------------------
(***************************************************************************)
(* What the shared log says about the parts, and why appending the entries *)
(* the program appends keeps it so.  The operators take a log L and a      *)
(* number k of its entries, so that they speak of every prefix a replica   *)
(* may have copied.                                                        *)
(***************************************************************************)
EXTENDS MergeAssignmentInvariant, WellFoundedInduction, TLAPS

-----------------------------------------------------------------------------
(* Least and greatest elements, from the well-foundedness of <.            *)
LEMMA LeastNat ==
    ASSUME NEW T \in SUBSET Nat, T # {}
    PROVE  \E x \in T : \A y \in T : x <= y
  <1>1. \E x \in T : \A y \in T : ~(<<y, x>> \in OpToRel(<, Nat))
    BY Zenon, NatLessThanWellFounded, WFMin
  <1>2. PICK x \in T : \A y \in T : ~(<<y, x>> \in OpToRel(<, Nat))
    BY Zenon, <1>1
  <1>3. ASSUME NEW y \in T, y < x PROVE FALSE
    <2>1. <<y, x>> \in OpToRel(<, Nat)
      BY Zenon, <1>3 DEF OpToRel
    <2> QED BY Zenon, <1>2, <2>1
  <1>4. \A y \in T : x \in Nat /\ y \in Nat /\ ~(y < x)
    BY Zenon, <1>3
  <1> QED BY <1>4

LEMMA GreatestNat ==
    ASSUME NEW T \in SUBSET Nat, T # {}, NEW b \in Nat, \A t \in T : t <= b
    PROVE  \E x \in T : \A y \in T : y <= x
  <1> DEFINE U == {b - t : t \in T}
  <1>1. U \in SUBSET Nat
    <2>1. \A t \in T : b - t \in Nat
      OBVIOUS
    <2> QED BY Zenon, <2>1
  <1>2. U # {}
    BY Zenon
  <1>3. PICK u \in U : \A v \in U : u <= v
    <2> HIDE DEF U
    <2> QED BY Zenon, <1>1, <1>2, LeastNat
  <1>4. PICK x \in T : u = b - x
    BY Zenon
  <1>5. \A y \in T : y <= x
    BY <1>3, <1>4
  <1> QED BY Zenon, <1>5

(* Where a number lies between the parts of a range, two neighbours of the *)
(* range enclose it.                                                       *)
LEMMA Enclosed ==
    ASSUME NEW S \in SUBSET Parts, NEW first \in S, NEW last \in S, NEW b \in Nat,
           \A q \in S : first.min_block <= q.min_block /\ q.min_block <= last.min_block,
           first.min_block <= b, b <= last.max_block,
           \A q \in S : b \notin Blocks(q)
    PROVE  \E x, y \in S : /\ consecutive(S, x, y)
                           /\ x.max_block < b /\ b < y.min_block
  <1>0. \A q \in S : /\ q.min_block \in Nat /\ q.max_block \in Nat
                     /\ ~(q.min_block <= b /\ b <= q.max_block)
    BY DEF Parts, PartInfo, Blocks
  <1> DEFINE L == {q.min_block : q \in {s \in S : s.min_block <= b}}
             H == {q.min_block : q \in {s \in S : b < s.min_block}}
  <1>1. L \in SUBSET Nat /\ L # {} /\ \A t \in L : t <= b
    BY Zenon, <1>0
  <1>2. H \in SUBSET Nat /\ H # {}
    BY <1>0
  <1>3. PICK l \in L : \A m \in L : m <= l
    <2> HIDE DEF L
    <2> QED BY Zenon, <1>1, GreatestNat
  <1>4. PICK h \in H : \A m \in H : h <= m
    <2> HIDE DEF H
    <2> QED BY Zenon, <1>2, LeastNat
  <1>5. PICK x \in S : x.min_block = l /\ x.min_block <= b
    BY Zenon
  <1>6. PICK y \in S : y.min_block = h /\ b < y.min_block
    BY Zenon
  <1>7. \A p \in S : p.min_block <= x.min_block \/ y.min_block <= p.min_block
    BY <1>0, <1>3, <1>4, <1>5, <1>6
  <1>8. x.min_block < y.min_block /\ x.max_block < b
    BY <1>0, <1>5, <1>6
  <1> QED BY Zenon, <1>6, <1>7, <1>8 DEF consecutive

(* What the search of the containing part returns does contain it.         *)
LEMMA ContainingPartContains ==
    ASSUME NEW S, NEW p, NEW x \in getContainingPart(S, p)
    PROVE  x \in S /\ contains(x, p)
  BY Zenon DEF getContainingPart, lowerBound, predecessor, AtOrAfter, Before

-----------------------------------------------------------------------------
(* Parts.                                                                  *)
LEMMA PartFields ==
    \A p \in Parts : /\ p.partition_id \in Nat /\ p.min_block \in Nat /\ p.max_block \in Nat
                     /\ p.level \in Nat /\ p.mutation \in Nat /\ p.min_block <= p.max_block
  BY DEF Parts, PartInfo, Levels

LEMMA SpecialLevels == MAX_LEVEL \in Nat /\ MAX_LEVEL \in Levels /\ MAX_BLOCK_NUMBER \in Nat
  BY DEF Levels, MAX_LEVEL, MAX_BLOCK_NUMBER

LEMMA PartBuilt ==
    ASSUME NEW a, NEW b, NEW c, NEW d, NEW e
    PROVE  /\ Part(a, b, c, d, e).partition_id = a /\ Part(a, b, c, d, e).min_block = b
           /\ Part(a, b, c, d, e).max_block = c /\ Part(a, b, c, d, e).level = d
           /\ Part(a, b, c, d, e).mutation = e
  BY DEF Part

LEMMA DisjointSymmetric ==
    ASSUME NEW p \in Parts, NEW q \in Parts
    PROVE  isDisjoint(p, q) <=> isDisjoint(q, p)
  BY PartFields DEF isDisjoint

(* A part overlaps what it contains, and two parts that contain each other *)
(* are the same.                                                           *)
LEMMA ContainsOverlaps ==
    ASSUME NEW p \in Parts, NEW q \in Parts, contains(p, q)
    PROVE  /\ ~isDisjoint(p, q) /\ ~isDisjoint(q, p)
           /\ contains(q, p) => p = q
  <1>1. ~isDisjoint(p, q) /\ ~isDisjoint(q, p)
    BY PartFields DEF isDisjoint, contains
  <1>2. ASSUME contains(q, p) PROVE p = q
    <2>1. /\ p.partition_id = q.partition_id /\ p.min_block = q.min_block
          /\ p.max_block = q.max_block /\ p.level = q.level /\ p.mutation = q.mutation
      BY <1>2, PartFields DEF contains
    <2> QED BY <2>1 DEF Parts, PartInfo
  <1> QED BY <1>1, <1>2

LEMMA ContainsSelf == \A p \in Parts : contains(p, p)
  BY PartFields DEF contains, sameBlockRange

(* What is disjoint from a part is disjoint from what is inside it.        *)
LEMMA DisjointInside ==
    ASSUME NEW p \in Parts, NEW q \in Parts, NEW r \in Parts,
           r.partition_id = q.partition_id,
           q.min_block <= r.min_block, r.max_block <= q.max_block, isDisjoint(p, q)
    PROVE  isDisjoint(p, r)
  BY PartFields DEF isDisjoint

-----------------------------------------------------------------------------
(* ActiveDataPartSet, when a part fits: it contains or is apart from each  *)
(* part of the set.  Then the walks from its position pass all that it     *)
(* contains.                                                               *)
LEMMA LessStarts ==
    ASSUME NEW x \in Parts, NEW y \in Parts, x.partition_id = y.partition_id
    PROVE  /\ Less(x, y) => x.min_block <= y.min_block
           /\ ~Less(x, y) => y.min_block <= x.min_block
           /\ ~Less(x, x)
  BY PartFields DEF Less

LEMMA RunsFit ==
    ASSUME NEW V \in SUBSET Parts, NEW p \in Parts,
           \A x \in V : x.partition_id = p.partition_id,
           \A x \in V : isDisjoint(p, x) \/ contains(p, x)
    PROVE  LeftRun(V, p) \cup RightRun(V, p) = {x \in V : contains(p, x)}
  <1>1. \A x \in LeftRun(V, p) \cup RightRun(V, p) : x \in V /\ contains(p, x)
    BY LessStarts DEF LeftRun, RightRun, Before, AtOrAfter
  <1>2. ASSUME NEW x \in V, contains(p, x), Less(x, p) PROVE x \in LeftRun(V, p)
    <2>1. ASSUME NEW y \in V, Less(y, p), ~Less(y, x) PROVE contains(p, y)
      <3>1. /\ y.min_block <= p.min_block /\ x.min_block <= y.min_block
            /\ p.min_block <= x.min_block
        BY <1>2, <2>1, LessStarts DEF contains
      <3>2. ~isDisjoint(p, y)
        BY <3>1, PartFields DEF isDisjoint
      <3> QED BY <3>2
    <2> QED BY <1>2, <2>1 DEF LeftRun, Before
  <1>3. ASSUME NEW x \in V, contains(p, x), ~Less(x, p) PROVE x \in RightRun(V, p)
    <2>1. ASSUME NEW y \in V, ~Less(y, p), ~Less(x, y) PROVE contains(p, y)
      <3>1. /\ p.min_block <= y.min_block /\ y.min_block <= x.min_block
            /\ x.max_block <= p.max_block
        BY <1>3, <2>1, LessStarts, PartFields DEF contains
      <3>2. ~isDisjoint(p, y)
        BY <3>1, PartFields DEF isDisjoint
      <3> QED BY <3>2
    <2> QED BY <1>3, <2>1 DEF RightRun, AtOrAfter
  <1> QED BY <1>1, <1>2, <1>3

(* add() erases exactly the parts it covers, and does not fail.            *)
LEMMA AddFits ==
    ASSUME NEW V \in SUBSET Parts, NEW p \in Parts,
           \A x \in V : x.partition_id = p.partition_id,
           \A x \in V : isDisjoint(p, x) \/ (contains(p, x) /\ x # p)
    PROVE  /\ addPart(V, p) = {x \in V : ~contains(p, x)} \cup {p}
           /\ addOutcome(V, p) = "Added"
  <1>1. \A x \in V : ~contains(x, p)
    BY ContainsOverlaps
  <1>2. getContainingPart(V, p) = {}
    BY <1>1 DEF getContainingPart, lowerBound, predecessor, AtOrAfter, Before
  <1>3. ~intersectsOnTheLeft(V, p) /\ ~intersectsOnTheRight(V, p)
    BY DEF intersectsOnTheLeft, intersectsOnTheRight, LeftStop, RightStop, Before, AtOrAfter
  <1>4. LeftRun(V, p) \cup RightRun(V, p) = {x \in V : contains(p, x)}
    BY RunsFit
  <1> QED BY <1>2, <1>3, <1>4 DEF addPart, addOutcome

(* getPartsCoveredBy never finds less than what is covered.                *)
LEMMA CoveredFits ==
    ASSUME NEW V \in SUBSET Parts, NEW p \in Parts,
           \A x \in V : x.partition_id = p.partition_id,
           \A x \in V : isDisjoint(p, x) \/ contains(p, x)
    PROVE  getPartsCoveredBy(V, p) = {x \in V : contains(p, x)}
  <1>1. \A x \in LeftStop(V, p) \cup RightStop(V, p) : x \in V /\ isDisjoint(p, x)
    BY DEF LeftStop, RightStop, Before, AtOrAfter
  <1>2. \A x \in LeftStop(V, p) \cup RightStop(V, p) : ~contains(x, p)
    BY <1>1, ContainsOverlaps
  <1> QED BY <1>2, RunsFit DEF getPartsCoveredBy

(* DROP PART of a part apart from the others removes just it.              *)
LEMMA RemoveFits ==
    ASSUME NEW V \in SUBSET Parts, NEW p \in V,
           \A x \in V : x.partition_id = p.partition_id,
           \A x \in V : x = p \/ isDisjoint(p, x)
    PROVE  removePartAndCoveredParts(V, p) = V \ {p}
  <1>1. contains(p, p)
    BY Zenon, ContainsSelf
  <1>2. getPartsCoveredBy(V, p) = {x \in V : contains(p, x)}
    BY <1>1, CoveredFits
  <1>3. \A x \in V : contains(p, x) => x = p
    BY ContainsOverlaps
  <1> QED BY <1>2, <1>3 DEF removePartAndCoveredParts

-----------------------------------------------------------------------------
(* Prefixes of the log.                                                    *)
LEMMA PrefixSame ==
    ASSUME NEW L, NEW M, NEW k \in Nat, \A i \in 1 .. k : L[i] = M[i]
    PROVE  AliveIn(L, k) = AliveIn(M, k) /\ RangesIn(L, k) = RangesIn(M, k)
  <1>1. \A i \in 1 .. k : \A m \in i + 1 .. k : m \in 1 .. k
    OBVIOUS
  <1>2. \A i \in 1 .. k : LiveIn(L, i, k) <=> LiveIn(M, i, k)
    BY Zenon, <1>1 DEF LiveIn
  <1> QED BY Zenon, <1>2 DEF AliveIn, RangesIn

LEMMA LogTypes ==
    ASSUME NEW L \in Seq(LogEntries), NEW i \in 1 .. Len(L)
    PROVE  /\ L[i] \in LogEntries /\ L[i].type \in EntryTypes
           /\ L[i].new_part \in Parts /\ L[i].source_parts \subseteq Parts
  <1>1. L[i] \in LogEntries
    OBVIOUS
  <1> QED BY <1>1 DEF LogEntries

LEMMA PrefixTypes ==
    ASSUME NEW L \in Seq(LogEntries), NEW k \in 0 .. Len(L)
    PROVE  /\ \A i \in 1 .. k : L[i] \in LogEntries /\ L[i].new_part \in Parts
           /\ \A x \in AliveIn(L, k) :
                 \E i \in 1 .. k : x = L[i].new_part /\ LiveIn(L, i, k)
           /\ \A x \in RangesIn(L, k) :
                 \E i \in 1 .. k : x = L[i].new_part /\ L[i].type = "DROP_RANGE"
           /\ AliveIn(L, k) \subseteq Parts /\ RangesIn(L, k) \subseteq Parts
  <1>1. \A i \in 1 .. k : L[i] \in LogEntries
    OBVIOUS
  <1>2. \A i \in 1 .. k : L[i].new_part \in Parts
    BY <1>1 DEF LogEntries
  <1> QED BY Zenon, <1>1, <1>2 DEF AliveIn, RangesIn

(* One entry more: it covers what it contains and adds what it produces.   *)
Covered(A, e) ==
    {x \in A : ~contains(e.new_part, x)}
        \cup (IF e.type \in Producing THEN {e.new_part} ELSE {})

Ranges(D, e) == D \cup (IF e.type = "DROP_RANGE" THEN {e.new_part} ELSE {})

LEMMA OneMore ==
    ASSUME NEW L, NEW k \in Nat
    PROVE  /\ AliveIn(L, k + 1) = Covered(AliveIn(L, k), L[k + 1])
           /\ RangesIn(L, k + 1) = Ranges(RangesIn(L, k), L[k + 1])
  <1>1. /\ \A i \in 1 .. k : i \in 1 .. k + 1
        /\ \A i \in 1 .. k + 1 : i \in 1 .. k \/ i = k + 1
        /\ k + 1 \in 1 .. k + 1
    OBVIOUS
  <1>2. /\ \A i \in 1 .. k : \A m \in i + 1 .. k + 1 : m \in i + 1 .. k \/ m = k + 1
        /\ \A i \in 1 .. k : k + 1 \in i + 1 .. k + 1
        /\ \A i \in 1 .. k : \A m \in i + 1 .. k : m \in i + 1 .. k + 1
        /\ \A m \in k + 1 + 1 .. k + 1 : FALSE
    OBVIOUS
  <1>3. \A i \in 1 .. k :
          LiveIn(L, i, k + 1) <=> LiveIn(L, i, k) /\ ~contains(L[k + 1].new_part, L[i].new_part)
    BY Zenon, <1>2 DEF LiveIn
  <1>4. LiveIn(L, k + 1, k + 1) <=> L[k + 1].type \in Producing
    BY Zenon, <1>2 DEF LiveIn
  <1>5. ASSUME NEW x \in AliveIn(L, k + 1) PROVE x \in Covered(AliveIn(L, k), L[k + 1])
    <2>1. PICK i \in 1 .. k + 1 : x = L[i].new_part /\ LiveIn(L, i, k + 1)
      BY Zenon DEF AliveIn
    <2>2. CASE i \in 1 .. k
      <3>1. x \in AliveIn(L, k) /\ ~contains(L[k + 1].new_part, x)
        BY Zenon, <1>3, <2>1, <2>2 DEF AliveIn
      <3> QED BY Zenon, <3>1 DEF Covered
    <2>3. CASE i = k + 1
      BY Zenon, <1>4, <2>1, <2>3 DEF Covered
    <2> QED BY <1>1, <2>2, <2>3
  <1>6. ASSUME NEW x \in Covered(AliveIn(L, k), L[k + 1]) PROVE x \in AliveIn(L, k + 1)
    <2>1. CASE x \in AliveIn(L, k) /\ ~contains(L[k + 1].new_part, x)
      <3>1. PICK i \in 1 .. k : x = L[i].new_part /\ LiveIn(L, i, k)
        BY Zenon, <2>1 DEF AliveIn
      <3> QED BY Zenon, <1>1, <1>3, <2>1, <3>1 DEF AliveIn
    <2>2. CASE L[k + 1].type \in Producing /\ x = L[k + 1].new_part
      BY Zenon, <1>1, <1>4, <2>2 DEF AliveIn
    <2> QED BY Zenon, <2>1, <2>2 DEF Covered
  <1>7. RangesIn(L, k + 1) = Ranges(RangesIn(L, k), L[k + 1])
    <2>1. ASSUME NEW x \in RangesIn(L, k + 1) PROVE x \in Ranges(RangesIn(L, k), L[k + 1])
      BY Zenon, <1>1 DEF RangesIn, Ranges
    <2>2. ASSUME NEW x \in Ranges(RangesIn(L, k), L[k + 1]) PROVE x \in RangesIn(L, k + 1)
      BY Zenon, <1>1 DEF RangesIn, Ranges
    <2> QED BY Zenon, <2>1, <2>2
  <1> QED BY Zenon, <1>5, <1>6, <1>7

-----------------------------------------------------------------------------
(* What a log entry makes of the parts.                                    *)

(* The sources of a merge lie inside its result.                           *)
LEMMA MergeContains ==
    ASSUME NEW A \in SUBSET Parts, NEW D, NEW k \in Nat, k < MAX_LEVEL, SetOK(A, D, k),
           NEW e \in LogEntries, MergeOf(A, e)
    PROVE  /\ e.source_parts \subseteq A
           /\ e.new_part.partition_id = Partition
           /\ e.new_part.level < k + 1 /\ e.new_part.mutation < MAX_BLOCK_NUMBER
           /\ e.new_part.mutation = 0 \/ e.new_part.min_block < e.new_part.mutation
           /\ \A x \in e.source_parts :
                 contains(e.new_part, x) /\ x.level < e.new_part.level
           /\ \E x \in e.source_parts : x.min_block = e.new_part.min_block
           /\ \E x \in e.source_parts : x.max_block = e.new_part.max_block
  <1> DEFINE S == e.source_parts
             p == e.new_part
  <1>1. S \subseteq A /\ S \subseteq Parts /\ p \in Parts
    BY DEF MergeOf, LogEntries
  <1>2. PICK first \in S, last \in S, top \in S, newest \in S :
            assign(S, first, last, top, newest) /\ p = futurePart(first, last, top, newest)
    BY Zenon DEF MergeOf
  <1>3. /\ p.partition_id = Partition /\ p.min_block = first.min_block
        /\ p.max_block = last.max_block /\ p.level = top.level + 1
        /\ p.mutation = newest.mutation
    BY <1>2, PartBuilt DEF futurePart
  <1> HIDE DEF S, p
  <1>4. \A x \in S : /\ x \in Parts /\ x.partition_id = Partition /\ x.level < k
                     /\ x.mutation < MAX_BLOCK_NUMBER
                     /\ x.mutation = 0 \/ x.min_block < x.mutation
                     /\ x = last \/ isDisjoint(x, last)
                     /\ first.min_block <= x.min_block /\ x.min_block <= last.min_block
                     /\ x.level <= top.level /\ x.mutation <= newest.mutation
    BY <1>1, <1>2 DEF SetOK, assign
  <1>5. ASSUME NEW x \in S PROVE contains(p, x) /\ x.level < p.level
    <2>1. x.max_block <= last.max_block
      BY <1>4, PartFields DEF isDisjoint
    <2>2. x.level < p.level /\ p.level >= x.level
      BY <1>3, <1>4, PartFields
    <2>3. p.mutation >= x.mutation /\ p.min_block <= x.min_block /\ p.max_block >= x.max_block
      BY <1>1, <1>3, <1>4, <2>1, PartFields
    <2>4. p.level > x.level
      BY <1>1, <1>4, <2>2, PartFields
    <2> QED BY <1>3, <1>4, <2>2, <2>3, <2>4 DEF contains
  <1>6. p.level < k + 1 /\ p.mutation < MAX_BLOCK_NUMBER
    BY <1>3, <1>4, PartFields
  <1>7. p.mutation = 0 \/ p.min_block < p.mutation
    <2>1. first.min_block <= newest.min_block
          /\ (newest.mutation = 0 \/ newest.min_block < newest.mutation)
      BY <1>4
    <2>2. /\ first.min_block \in Nat /\ newest.min_block \in Nat /\ newest.mutation \in Nat
      BY <1>4, PartFields
    <2> QED BY <1>3, <2>1, <2>2
  <1> QED BY <1>1, <1>3, <1>5, <1>6, <1>7 DEF S, p

LEMMA MutationContains ==
    ASSUME NEW A \in SUBSET Parts, NEW D, NEW k \in Nat, SetOK(A, D, k),
           NEW e \in LogEntries, MutationOf(A, e)
    PROVE  \E p \in A :
             /\ e.source_parts = {p} /\ contains(e.new_part, p) /\ e.new_part # p
             /\ e.new_part.partition_id = Partition /\ sameBlockRange(e.new_part, p)
             /\ e.new_part.level = p.level /\ p.mutation < e.new_part.mutation
             /\ p.min_block < e.new_part.mutation /\ e.new_part.mutation < MAX_BLOCK_NUMBER
  <1>1. PICK p \in A : /\ e.source_parts = {p}
                       /\ e.new_part = [p EXCEPT !.mutation = e.new_part.mutation]
                       /\ p.mutation < e.new_part.mutation /\ p.min_block < e.new_part.mutation
                       /\ e.new_part.mutation < MAX_BLOCK_NUMBER
    BY Zenon DEF MutationOf
  <1>2. p \in Parts /\ p.partition_id = Partition /\ e.new_part \in Parts
    BY DEF SetOK, LogEntries
  <1>3. /\ e.new_part.partition_id = p.partition_id /\ e.new_part.min_block = p.min_block
        /\ e.new_part.max_block = p.max_block /\ e.new_part.level = p.level
    BY <1>1, <1>2 DEF Parts, PartInfo
  <1>4. e.new_part # p /\ e.new_part.mutation >= p.mutation
    BY <1>1, <1>2, PartFields
  <1>5. contains(e.new_part, p)
    BY <1>2, <1>3, <1>4, PartFields DEF contains, sameBlockRange
  <1> QED BY <1>1, <1>2, <1>3, <1>4, <1>5 DEF sameBlockRange

(* An entry fits the parts and ranges before it.                           *)
Fits(A, D, k, e) ==
    LET p == e.new_part
    IN  /\ p.partition_id = Partition
        /\ e.type # "DROP_PART" =>
              \A x \in A : isDisjoint(p, x) \/ (contains(p, x) /\ x # p)
        /\ e.type \in Producing =>
              /\ p.level < k + 1 /\ p.mutation < MAX_BLOCK_NUMBER
              /\ p.mutation = 0 \/ p.min_block < p.mutation
              /\ \A d \in D : d.max_block < p.min_block
        /\ e.type = "DROP_PART" => p \in A
        /\ e.type = "DROP_RANGE" =>
              /\ p = Part(Partition, 0, p.max_block, MAX_LEVEL, MAX_BLOCK_NUMBER)
              /\ \A d \in D : d.max_block < p.max_block

LEMMA MergeFits ==
    ASSUME NEW A \in SUBSET Parts, NEW D \in SUBSET Parts, NEW k \in Nat, k < MAX_LEVEL,
           SetOK(A, D, k), NEW e \in LogEntries, e.type = "MERGE_PARTS", MergeOf(A, e)
    PROVE  Fits(A, D, k, e)
  <1>1. e.new_part \in Parts
    BY DEF LogEntries
  <1>2. \A x \in A : x \in e.source_parts \/ isDisjoint(e.new_part, x)
    BY DEF MergeOf
  <1>3. \A x \in e.source_parts : contains(e.new_part, x) /\ x # e.new_part
    <2>1. \A x \in e.source_parts :
             x \in A /\ contains(e.new_part, x) /\ x.level < e.new_part.level
      BY Zenon, MergeContains
    <2>2. \A x \in A : x.level \in Nat
      BY PartFields
    <2> QED BY <2>1, <2>2
  <1>4. PICK first \in A : first.min_block = e.new_part.min_block
    BY Zenon, MergeContains
  <1>5. \A d \in D : d.max_block < e.new_part.min_block
    BY <1>4 DEF SetOK
  <1>6. /\ e.new_part.partition_id = Partition
        /\ e.new_part.level < k + 1 /\ e.new_part.mutation < MAX_BLOCK_NUMBER
        /\ e.new_part.mutation = 0 \/ e.new_part.min_block < e.new_part.mutation
    BY Zenon, MergeContains
  <1> QED BY <1>2, <1>3, <1>5, <1>6 DEF Fits

LEMMA MutationFits ==
    ASSUME NEW A \in SUBSET Parts, NEW D \in SUBSET Parts, NEW k \in Nat,
           SetOK(A, D, k), NEW e \in LogEntries, e.type = "MUTATE_PART", MutationOf(A, e)
    PROVE  Fits(A, D, k, e)
  <1>1. PICK p \in A :
             /\ contains(e.new_part, p) /\ e.new_part # p
             /\ e.new_part.partition_id = Partition /\ sameBlockRange(e.new_part, p)
             /\ e.new_part.level = p.level
             /\ p.min_block < e.new_part.mutation /\ e.new_part.mutation < MAX_BLOCK_NUMBER
    BY Zenon, MutationContains
  <1>2. e.new_part \in Parts /\ p \in Parts
    BY DEF LogEntries
  <1>3. ASSUME NEW x \in A, x # p PROVE isDisjoint(e.new_part, x)
    <2>1. isDisjoint(p, x) /\ p.partition_id = Partition
      BY <1>3 DEF SetOK
    <2> QED BY <1>1, <2>1 DEF isDisjoint, sameBlockRange
  <1>4. \A d \in D : d.max_block < e.new_part.min_block
    BY <1>1 DEF SetOK, sameBlockRange
  <1>5. e.new_part.level < k + 1 /\ e.new_part.min_block < e.new_part.mutation
    BY <1>1, <1>2, PartFields DEF SetOK, sameBlockRange
  <1> QED BY <1>1, <1>3, <1>4, <1>5 DEF Fits

LEMMA EntryFits ==
    ASSUME NEW L \in Seq(LogEntries), NEW k \in 0 .. Len(L), k < MAX_LEVEL,
           SetOK(AliveIn(L, k), RangesIn(L, k), k), NEW e \in LogEntries, EntryOK(L, k, e)
    PROVE  Fits(AliveIn(L, k), RangesIn(L, k), k, e)
  <1> DEFINE A == AliveIn(L, k)
             D == RangesIn(L, k)
             p == e.new_part
  <1>1. A \in SUBSET Parts /\ D \in SUBSET Parts /\ k \in Nat /\ p \in Parts
    <2>1. A \in SUBSET Parts /\ D \in SUBSET Parts
      BY Zenon, PrefixTypes
    <2> QED BY <2>1 DEF LogEntries
  <1>2. /\ \A x \in A : \E i \in 1 .. k : x = L[i].new_part /\ L[i].type \in Producing
        /\ \A d \in D : \E i \in 1 .. k : d = L[i].new_part /\ L[i].type = "DROP_RANGE"
    BY Zenon, PrefixTypes DEF LiveIn
  <1>3. CASE e.type = "MERGE_PARTS" /\ MergeOf(A, e)
    BY <1>1, <1>3, MergeFits
  <1>4. CASE e.type = "MUTATE_PART" /\ MutationOf(A, e)
    BY <1>1, <1>4, MutationFits
  <1>5. CASE e.type = "DROP_PART" /\ p \in A
    <2> HIDE DEF A, D
    <2>1. p.partition_id = Partition
      BY <1>5 DEF SetOK, A, D
    <2> QED BY <1>5, <2>1 DEF Fits, Producing, A, D
  <1>6. CASE Inserted(L, k, e)
    <2>1. /\ p.partition_id = Partition /\ p.min_block = p.max_block /\ p.level = 0
          /\ p.mutation = 0
      BY <1>6, PartBuilt DEF Inserted
    <2>2. \A x \in A \cup D : isDisjoint(p, x)
      BY Zenon, <1>2, <1>6 DEF Inserted
    <2>3. ASSUME NEW d \in D PROVE d.max_block < p.min_block
      <3>1. d.partition_id = Partition /\ d.min_block = 0 /\ isDisjoint(p, d)
        BY <2>2, PartBuilt DEF SetOK
      <3> QED BY <1>1, <2>1, <3>1, PartFields DEF isDisjoint
    <2>4. 0 < k + 1 /\ 0 < MAX_BLOCK_NUMBER
      BY <1>1 DEF MAX_BLOCK_NUMBER
    <2>5. e.type = "GET_PART"
      BY <1>6 DEF Inserted
    <2> HIDE DEF A, D, p
    <2> QED BY <2>1, <2>2, <2>3, <2>4, <2>5 DEF Fits, A, D, p
  <1>7. CASE Dropped(L, k, e)
    <2>1. /\ e.type = "DROP_RANGE"
          /\ p = Part(Partition, 0, p.max_block, MAX_LEVEL, MAX_BLOCK_NUMBER)
      BY <1>7 DEF Dropped
    <2>2. p.partition_id = Partition /\ p.level = MAX_LEVEL
      BY <2>1, PartBuilt
    <2>3. \A d \in D : d.max_block < p.max_block
      BY Zenon, <1>2, <1>7 DEF Dropped
    <2>4. \A t \in Producing : t # "DROP_RANGE"
      BY DEF Producing
    <2>5. ASSUME NEW x \in A PROVE isDisjoint(p, x) \/ contains(p, x)
      <3>1. \A i \in 1 .. k : L[i].type # "DROP_RANGE" =>
                isDisjoint(p, L[i].new_part) \/ contains(p, L[i].new_part)
        BY Zenon, <1>7 DEF Dropped
      <3>2. PICK i \in 1 .. k : x = L[i].new_part /\ L[i].type \in Producing
        BY Zenon, <1>2
      <3> QED BY Zenon, <2>4, <3>1, <3>2
    <2>6. \A x \in A : x # p
      BY <1>1, <2>2, PartFields DEF SetOK
    <2> HIDE DEF A, D, p
    <2> QED BY <2>1, <2>2, <2>3, <2>4, <2>5, <2>6 DEF Fits, A, D, p
  <1> QED BY <1>3, <1>4, <1>5, <1>6, <1>7 DEF EntryOK, Assigned

(* After an entry that fits, the parts are again those of a table.         *)
LEMMA SetNext ==
    ASSUME NEW A \in SUBSET Parts, NEW D \in SUBSET Parts, NEW k \in Nat, SetOK(A, D, k),
           NEW e \in LogEntries, Fits(A, D, k, e)
    PROVE  SetOK(Covered(A, e), Ranges(D, e), k + 1)
  <1> DEFINE p == e.new_part
  <1>1. p \in Parts /\ e.type \in EntryTypes
    BY DEF LogEntries
  <1>2. \A x \in Covered(A, e) :
            \/ x \in A /\ ~contains(p, x)
            \/ x = p /\ e.type \in Producing
    BY Zenon DEF Covered
  <1>3. \A x \in A : x.level \in Nat /\ x.level < k + 1
    BY PartFields DEF SetOK
  <1>4. \A x \in A : e.type \in Producing /\ ~contains(p, x) => isDisjoint(p, x) /\ isDisjoint(x, p)
    BY <1>1, DisjointSymmetric DEF Fits, Producing
  <1>5. \A x, y \in Covered(A, e) : x = y \/ isDisjoint(x, y)
    BY Zenon, <1>2, <1>4 DEF SetOK
  <1>6. \A x \in Covered(A, e), d \in D : d.max_block < x.min_block
    BY Zenon, <1>2 DEF SetOK, Fits
  <1>7. ASSUME NEW x \in Covered(A, e), e.type = "DROP_RANGE" PROVE p.max_block < x.min_block
    <2>1. x \in A /\ ~contains(p, x)
      BY <1>2, <1>7 DEF Producing
    <2>2. isDisjoint(p, x) /\ p.min_block = 0 /\ x.partition_id = Partition
          /\ p.partition_id = Partition
      BY <1>7, <2>1, PartBuilt DEF Fits, SetOK
    <2> QED BY <1>1, <2>1, <2>2, PartFields DEF isDisjoint
  <1>8. \A x \in Covered(A, e) : /\ x.partition_id = Partition /\ x.level < k + 1
                                 /\ x.mutation < MAX_BLOCK_NUMBER
                                 /\ x.mutation = 0 \/ x.min_block < x.mutation
    BY Zenon, <1>2, <1>3 DEF SetOK, Fits
  <1>9. \A d \in Ranges(D, e) : d \in D \/ (d = p /\ e.type = "DROP_RANGE")
    BY Zenon DEF Ranges
  <1>10. \A x \in Covered(A, e), d \in Ranges(D, e) : d.max_block < x.min_block
    BY Zenon, <1>6, <1>7, <1>9
  <1>11. \A d \in Ranges(D, e) :
            d = Part(Partition, 0, d.max_block, MAX_LEVEL, MAX_BLOCK_NUMBER)
    BY Zenon, <1>9 DEF SetOK, Fits
  <1> QED BY Zenon, <1>5, <1>8, <1>10, <1>11 DEF SetOK

(* A replica that copies an entry that fits: virtual_parts.add does not    *)
(* throw, and the queue has the parts the log says.                        *)
LEMMA QueueNext ==
    ASSUME NEW A \in SUBSET Parts, NEW D \in SUBSET Parts, NEW k \in Nat, k < MAX_LEVEL,
           SetOK(A, D, k), NEW e \in LogEntries, Fits(A, D, k, e), NEW V \in SUBSET Parts,
           Reflects(V, A, D)
    PROVE  /\ ~insertionFails(V, e)
           /\ Reflects(insertUnlocked(V, e), Covered(A, e), Ranges(D, e))
  <1> USE DEF Reflects
  <1> DEFINE p == e.new_part
  <1>1. p \in Parts /\ e.type \in EntryTypes
    BY DEF LogEntries
  <1>2. MAX_LEVEL \in Nat /\ LEGACY_MAX_LEVEL \in Nat /\ LEGACY_MAX_LEVEL > MAX_LEVEL
    BY LegacyMaxLevelAssumption DEF MAX_LEVEL
  <1>3. \A x \in V : x \in A \/ x \in D
    OBVIOUS
  <1>4. \A x \in V : x.partition_id = p.partition_id
    <2>1. \A x \in A : x.partition_id = Partition
      BY DEF SetOK
    <2>2. \A x \in D : x.partition_id = Partition
      BY PartBuilt DEF SetOK
    <2>3. p.partition_id = Partition
      BY DEF Fits
    <2> QED BY <1>3, <2>1, <2>2, <2>3
  <1>5. e.type \in Producing => ~isFakeDropRangePart(p)
    BY <1>1, <1>2, PartFields DEF Fits, isFakeDropRangePart
  <1>6. e.type = "DROP_RANGE" => isFakeDropRangePart(p)
    BY PartBuilt DEF Fits, isFakeDropRangePart
  <1>7. CASE e.type # "DROP_PART"
    <2>1. \A x \in A : isDisjoint(p, x) \/ (contains(p, x) /\ x # p)
      BY <1>7 DEF Fits
    <2>2. ASSUME NEW x \in D PROVE isDisjoint(p, x) \/ (contains(p, x) /\ x # p)
      <3>1. /\ x.partition_id = Partition /\ x.min_block = 0 /\ x.level = MAX_LEVEL
            /\ x.mutation = MAX_BLOCK_NUMBER
        BY PartBuilt DEF SetOK
      <3>2. CASE e.type \in Producing
        BY <1>1, <3>2, PartFields DEF Fits, isDisjoint
      <3>3. CASE e.type = "DROP_RANGE"
        <4>1. /\ p.partition_id = Partition /\ p.min_block = 0 /\ p.level = MAX_LEVEL
              /\ p.mutation = MAX_BLOCK_NUMBER /\ x.max_block < p.max_block
          BY <3>3, PartBuilt DEF Fits
        <4> QED BY <1>1, <3>1, <4>1, PartFields DEF contains
      <3> QED BY <1>1, <1>7, <3>2, <3>3 DEF EntryTypes, Producing
    <2>3. \A x \in V : isDisjoint(p, x) \/ (contains(p, x) /\ x # p)
      BY <1>3, <2>1, <2>2
    <2>4. /\ insertUnlocked(V, e) = {x \in V : ~contains(p, x)} \cup {p}
          /\ addOutcome(V, p) = "Added"
      BY <1>1, <1>4, <1>7, <2>3, AddFits DEF insertUnlocked
    <2>5. ~insertionFails(V, e)
      BY <2>4 DEF insertionFails
    <2>6. CASE e.type \in Producing
      <3>1. e.type # "DROP_RANGE" /\ ~isFakeDropRangePart(p)
        BY <1>5, <2>6 DEF Producing
      <3> QED BY Zenon, <2>4, <2>5, <2>6, <3>1 DEF Covered, Ranges
    <2>7. CASE e.type = "DROP_RANGE"
      <3>1. e.type \notin Producing /\ isFakeDropRangePart(p)
        BY <1>6, <2>7 DEF Producing
      <3> QED BY Zenon, <2>4, <2>5, <2>7, <3>1 DEF Covered, Ranges
    <2> QED BY <1>1, <1>7, <2>6, <2>7 DEF EntryTypes, Producing
  <1>8. CASE e.type = "DROP_PART"
    <2>1. p \in A /\ p \in V
      BY <1>8 DEF Fits
    <2>2. \A x \in A : x = p \/ isDisjoint(p, x)
      BY <2>1 DEF SetOK
    <2>3. ASSUME NEW x \in D PROVE isDisjoint(p, x)
      <3>1. x.max_block < p.min_block
        BY <2>1 DEF SetOK
      <3> QED BY <1>1, <3>1, PartFields DEF isDisjoint
    <2>4. insertUnlocked(V, e) = V \ {p}
      BY <1>3, <1>4, <1>8, <2>1, <2>2, <2>3, RemoveFits DEF insertUnlocked
    <2>5. \A x \in A : contains(p, x) <=> x = p
      <3>1. contains(p, p)
        BY Zenon, <1>1, ContainsSelf
      <3> QED BY <1>1, <2>2, <3>1, ContainsOverlaps
    <2>6. Covered(A, e) = A \ {p} /\ Ranges(D, e) = D
      BY <1>8, <2>5 DEF Covered, Ranges, Producing
    <2>7. ~insertionFails(V, e)
      BY <1>8 DEF insertionFails
    <2> QED BY Zenon, <2>4, <2>6, <2>7
  <1> QED BY <1>7, <1>8

-----------------------------------------------------------------------------
(* No part is produced twice.                                              *)

(* While a part lives, the entries after it are apart from it.             *)
LEMMA AliveApart ==
    ASSUME NEW L \in Seq(LogEntries), LogOK(L), NEW k \in 0 .. Len(L),
           NEW c \in 1 .. k, LiveIn(L, c, k), NEW i \in c + 1 .. k, L[i].type # "DROP_RANGE"
    PROVE  isDisjoint(L[i].new_part, L[c].new_part)
  <1> DEFINE p == L[i].new_part
             x == L[c].new_part
  <1>1. /\ i \in 1 .. Len(L) /\ c \in 1 .. i - 1 /\ i - 1 \in 0 .. Len(L) /\ i \in 0 .. Len(L)
        /\ c \in 1 .. i /\ \A m \in c + 1 .. i : m \in c + 1 .. k
        /\ \A m \in c + 1 .. i - 1 : m \in c + 1 .. k
        /\ \A m \in i + 1 .. i : FALSE
    OBVIOUS
  <1>2. LiveIn(L, c, i - 1) /\ LiveIn(L, c, i) /\ ~contains(p, x)
    BY Zenon, <1>1 DEF LiveIn
  <1>3. x \in AliveIn(L, i - 1) /\ x \in AliveIn(L, i)
    BY Zenon, <1>1, <1>2 DEF AliveIn
  <1>4. p \in Parts /\ x \in Parts /\ L[i] \in LogEntries
    <2>1. c \in 1 .. Len(L)
      OBVIOUS
    <2> QED BY Zenon, <1>1, <2>1, LogTypes
  <1>5. /\ SetOK(AliveIn(L, i), RangesIn(L, i), i)
        /\ SetOK(AliveIn(L, i - 1), RangesIn(L, i - 1), i - 1)
        /\ EntryOK(L, i - 1, L[i])
    BY Zenon, <1>1 DEF LogOK
  <1>6. CASE L[i].type \in Producing
    <2>1. i \in 1 .. i
      BY <1>1
    <2>2. p \in AliveIn(L, i)
      BY Zenon, <1>1, <1>6, <2>1 DEF AliveIn, LiveIn
    <2>3. p # x
      BY Zenon, <1>2, <1>4, ContainsSelf
    <2> QED BY Zenon, <1>3, <1>5, <2>2, <2>3 DEF SetOK
  <1>7. CASE L[i].type = "DROP_PART"
    <2>1. p \in AliveIn(L, i - 1)
      BY <1>5, <1>7 DEF EntryOK, Assigned, Inserted, Dropped
    <2>2. p # x
      BY Zenon, <1>2, <1>4, ContainsSelf
    <2> QED BY Zenon, <1>3, <1>5, <2>1, <2>2 DEF SetOK
  <1> QED BY <1>4, <1>6, <1>7 DEF LogEntries, EntryTypes, Producing

LEMMA ContainsTransitive ==
    ASSUME NEW p \in Parts, NEW q \in Parts, NEW r \in Parts,
           contains(p, q), contains(q, r), p.level > q.level \/ sameBlockRange(p, q)
    PROVE  contains(p, r)
  BY PartFields DEF contains, sameBlockRange, Parts, PartInfo, Levels

LEMMA BeyondSource ==
    ASSUME NEW L \in Seq(LogEntries), LogOK(L), NEW c \in 1 .. Len(L), LiveIn(L, c, Len(L)),
           NEW i \in 1 .. Len(L), L[i].type # "DROP_RANGE",
           NEW p \in Parts, contains(p, L[c].new_part),
           \/ p.level > L[c].new_part.level
           \/ sameBlockRange(p, L[c].new_part) /\ p.mutation > L[c].new_part.mutation
    PROVE  Beyond(L[i], p) \/ isDisjoint(L[i].new_part, L[c].new_part)
  <1> DEFINE s == L[c].new_part
             q == L[i].new_part
  <1>1. s \in Parts /\ q \in Parts /\ L[c].type \in Producing
    BY Zenon, LogTypes DEF LiveIn
  <1>2. Len(L) \in Nat /\ Len(L) \in 0 .. Len(L)
    OBVIOUS
  <1>3. /\ s.level \in Nat /\ s.mutation \in Nat /\ q.level \in Nat /\ q.mutation \in Nat
        /\ p.level \in Nat /\ p.mutation \in Nat
    BY <1>1, PartFields
  <1>4. CASE c < i
    <2>1. i \in c + 1 .. Len(L)
      BY <1>2, <1>4
    <2> QED BY Zenon, <1>2, <2>1, AliveApart
  <1>5. CASE c = i
    <2>1. p # s
      BY <1>3
    <2>2. L[i].type # "DROP_PART"
      BY <1>1, <1>5 DEF Producing
    <2> QED BY Zenon, <1>5, <2>1, <2>2 DEF Beyond
  <1>6. CASE c > i
    <2>1. i < c
      BY <1>6
    <2>2. Beyond(L[i], s)
      BY Zenon, <1>1, <2>1 DEF LogOK, Grows
    <2>3. CASE /\ s.min_block <= q.min_block /\ q.max_block <= s.max_block
               /\ ~sameBlockRange(q, s)
      <3>1. /\ p.min_block <= q.min_block /\ q.max_block <= p.max_block
            /\ ~sameBlockRange(q, p)
        <4>1. p.min_block <= s.min_block /\ s.max_block <= p.max_block
          BY Zenon DEF contains
        <4>2. /\ p.min_block \in Nat /\ p.max_block \in Nat /\ s.min_block \in Nat
              /\ s.max_block \in Nat /\ q.min_block \in Nat /\ q.max_block \in Nat
          BY <1>1, PartFields
        <4> HIDE DEF s, q
        <4> QED BY <2>3, <4>1, <4>2 DEF sameBlockRange
      <3> QED BY Zenon, <3>1 DEF Beyond
    <2>4. CASE L[i].type # "DROP_PART" /\ contains(s, q)
      <3>1. contains(p, q)
        BY Zenon, <1>1, <2>4, ContainsTransitive
      <3>2. s.level >= q.level /\ s.mutation >= q.mutation
        BY Zenon, <2>4 DEF contains
      <3>3. p # q
        BY <1>3, <3>2
      <3> QED BY Zenon, <2>4, <3>1, <3>3 DEF Beyond
    <2> QED BY Zenon, <2>2, <2>3, <2>4 DEF Beyond
  <1>7. c < i \/ c = i \/ c > i
    OBVIOUS
  <1> QED BY <1>4, <1>5, <1>6, <1>7

LEMMA BeyondMerge ==
    ASSUME NEW L \in Seq(LogEntries), LogOK(L), Len(L) < MAX_LEVEL, NEW e \in LogEntries,
           MergeOf(AliveIn(L, Len(L)), e), NEW i \in 1 .. Len(L), L[i].type # "DROP_RANGE"
    PROVE  Beyond(L[i], e.new_part)
  <1> DEFINE n == Len(L)
             A == AliveIn(L, n)
             p == e.new_part
             q == L[i].new_part
  <1>1. n \in Nat /\ n \in 0 .. n
    OBVIOUS
  <1>2. p \in Parts /\ q \in Parts
    BY Zenon, LogTypes DEF LogEntries
  <1>3. A \subseteq Parts /\ \A x \in A : \E c \in 1 .. n : x = L[c].new_part /\ LiveIn(L, c, n)
    BY Zenon, <1>1, PrefixTypes
  <1>4. SetOK(A, RangesIn(L, n), n)
    BY Zenon, <1>1 DEF LogOK
  <1>5. /\ e.source_parts \subseteq A /\ p.partition_id = Partition
        /\ \A x \in e.source_parts : contains(p, x) /\ x.level < p.level
        /\ \E x \in e.source_parts : x.min_block = p.min_block
        /\ \E x \in e.source_parts : x.max_block = p.max_block
    BY Zenon, <1>1, <1>3, <1>4, MergeContains
  <1>6. ASSUME NEW x \in e.source_parts PROVE Beyond(L[i], p) \/ isDisjoint(q, x)
    <2>1. PICK c \in 1 .. n : x = L[c].new_part /\ LiveIn(L, c, n)
      BY Zenon, <1>3, <1>5
    <2>2. x \in Parts
      BY Zenon, <1>3, <1>5
    <2>3. p.level > x.level
      BY <1>2, <1>5, <2>2, PartFields
    <2> HIDE DEF n, p, q
    <2> QED BY Zenon, <1>2, <1>5, <2>1, <2>3, BeyondSource DEF n, p, q
  <1>7. PICK first \in e.source_parts : first.min_block = p.min_block
    BY Zenon, <1>5
  <1>8. PICK last \in e.source_parts : last.max_block = p.max_block
    BY Zenon, <1>5
  <1>9. /\ first \in Parts /\ last \in Parts /\ first.partition_id = Partition
        /\ last.partition_id = Partition /\ q.partition_id = Partition
    BY Zenon, <1>3, <1>4, <1>5 DEF SetOK, LogOK
  <1>10. /\ first.max_block <= p.max_block /\ p.min_block <= last.min_block
    BY <1>2, <1>5, <1>9, PartFields DEF contains
  <1>11. ASSUME isDisjoint(q, first), isDisjoint(q, last) PROVE Beyond(L[i], p)
    <2> HIDE DEF p, q
    <2>1. \/ isDisjoint(q, p)
          \/ /\ p.min_block <= q.min_block /\ q.max_block <= p.max_block
             /\ ~sameBlockRange(q, p)
      BY <1>2, <1>5, <1>7, <1>8, <1>9, <1>10, <1>11, PartFields DEF isDisjoint, sameBlockRange
    <2> QED BY Zenon, <2>1 DEF Beyond, p, q
  <1> QED BY Zenon, <1>6, <1>11

LEMMA BeyondMutation ==
    ASSUME NEW L \in Seq(LogEntries), LogOK(L), NEW e \in LogEntries,
           MutationOf(AliveIn(L, Len(L)), e), NEW i \in 1 .. Len(L), L[i].type # "DROP_RANGE"
    PROVE  Beyond(L[i], e.new_part)
  <1> DEFINE n == Len(L)
             A == AliveIn(L, n)
             p == e.new_part
             q == L[i].new_part
  <1>1. n \in Nat /\ n \in 0 .. n
    OBVIOUS
  <1>2. p \in Parts /\ q \in Parts
    BY Zenon, LogTypes DEF LogEntries
  <1>3. A \subseteq Parts /\ \A x \in A : \E c \in 1 .. n : x = L[c].new_part /\ LiveIn(L, c, n)
    BY Zenon, <1>1, PrefixTypes
  <1>4. SetOK(A, RangesIn(L, n), n)
    BY Zenon, <1>1 DEF LogOK
  <1>5. PICK s \in A : /\ contains(p, s) /\ p.partition_id = Partition
                       /\ sameBlockRange(p, s) /\ s.mutation < p.mutation
    BY Zenon, <1>1, <1>3, <1>4, MutationContains
  <1>6. PICK c \in 1 .. n : s = L[c].new_part /\ LiveIn(L, c, n)
    BY Zenon, <1>3
  <1>7. p.mutation > s.mutation /\ s.partition_id = Partition
    BY <1>2, <1>3, <1>4, <1>5, PartFields DEF SetOK
  <1>8. Beyond(L[i], p) \/ isDisjoint(q, s)
    <2> HIDE DEF n, p, q
    <2> QED BY Zenon, <1>2, <1>5, <1>6, <1>7, BeyondSource DEF n, p, q
  <1>9. isDisjoint(q, s) => isDisjoint(q, p)
    BY <1>5, <1>7 DEF isDisjoint, sameBlockRange
  <1> QED BY Zenon, <1>8, <1>9 DEF Beyond

LEMMA BeyondNext ==
    ASSUME NEW L \in Seq(LogEntries), LogOK(L), Len(L) < MAX_LEVEL, NEW e \in LogEntries,
           EntryOK(L, Len(L), e), e.type \in Producing,
           NEW i \in 1 .. Len(L), L[i].type # "DROP_RANGE"
    PROVE  Beyond(L[i], e.new_part)
  <1>1. CASE MergeOf(AliveIn(L, Len(L)), e)
    BY Zenon, <1>1, BeyondMerge
  <1>2. CASE MutationOf(AliveIn(L, Len(L)), e)
    BY Zenon, <1>2, BeyondMutation
  <1>3. CASE Inserted(L, Len(L), e)
    <2>1. isDisjoint(e.new_part, L[i].new_part)
      BY Zenon, <1>3 DEF Inserted
    <2>2. e.new_part \in Parts /\ L[i].new_part \in Parts
      BY Zenon, LogTypes DEF LogEntries
    <2> QED BY Zenon, <2>1, <2>2, DisjointSymmetric DEF Beyond
  <1>4. e.type # "DROP_PART" /\ e.type # "DROP_RANGE"
    BY DEF Producing
  <1> QED BY Zenon, <1>1, <1>2, <1>3, <1>4 DEF EntryOK, Assigned, Dropped

(* Appending an entry that is as it should be.                             *)
LEMMA LogGrowsOK ==
    ASSUME NEW L \in Seq(LogEntries), LogOK(L), Len(L) < MaxLog,
           NEW e \in LogEntries, EntryOK(L, Len(L), e)
    PROVE  LogOK(Append(L, e))
  <1> DEFINE n == Len(L)
             M == Append(L, e)
             p == e.new_part
  <1>0. n \in Nat /\ n \in 0 .. n /\ n < MAX_LEVEL /\ n + 1 <= MaxLog
    BY ConstantsAssumption, SpecialLevels
  <1>1. /\ M \in Seq(LogEntries) /\ Len(M) = n + 1 /\ M[n + 1] = e
        /\ \A i \in 1 .. n : M[i] = L[i]
    OBVIOUS
  <1> HIDE DEF n, M, p
  <1>2. ASSUME NEW k \in 0 .. n
        PROVE  AliveIn(M, k) = AliveIn(L, k) /\ RangesIn(M, k) = RangesIn(L, k)
    <2>1. k \in Nat /\ \A i \in 1 .. k : i \in 1 .. n
      BY <1>0
    <2> QED BY Zenon, <1>1, <2>1, PrefixSame
  <1>3. /\ AliveIn(M, n + 1) = Covered(AliveIn(L, n), e)
        /\ RangesIn(M, n + 1) = Ranges(RangesIn(L, n), e)
    BY Zenon, <1>0, <1>1, <1>2, OneMore
  <1>4. SetOK(AliveIn(L, n), RangesIn(L, n), n) /\ AliveIn(L, n) \in SUBSET Parts
        /\ RangesIn(L, n) \in SUBSET Parts
    BY Zenon, <1>0, PrefixTypes DEF LogOK, n
  <1>5. Fits(AliveIn(L, n), RangesIn(L, n), n, e)
    BY Zenon, <1>0, <1>4, EntryFits DEF n
  <1>6. \A k \in 0 .. Len(M) : SetOK(AliveIn(M, k), RangesIn(M, k), k)
    <2>1. SetOK(AliveIn(M, n + 1), RangesIn(M, n + 1), n + 1)
      BY Zenon, <1>0, <1>3, <1>4, <1>5, SetNext
    <2>2. \A k \in 0 .. n + 1 : k \in 0 .. n \/ k = n + 1
      BY <1>0
    <2> QED BY Zenon, <1>1, <1>2, <2>1, <2>2 DEF LogOK, n
  <1>7. \A k \in 1 .. n + 1 : k \in 1 .. n \/ k = n + 1
    BY <1>0
  <1>8. ASSUME NEW k \in 1 .. n + 1
        PROVE  EntryOK(M, k - 1, M[k]) /\ M[k].new_part.partition_id = Partition
    <2>1. k - 1 \in 0 .. n /\ (\A i \in 1 .. k - 1 : i \in 1 .. n) /\ n + 1 - 1 = n
      BY <1>0
    <2>2. \A f \in LogEntries : EntryOK(L, k - 1, f) => EntryOK(M, k - 1, f)
      BY Zenon, <1>1, <1>2, <2>1 DEF EntryOK, Inserted, Dropped
    <2>3. CASE k \in 1 .. n
      <3>1. EntryOK(L, k - 1, L[k]) /\ L[k].new_part.partition_id = Partition
        BY Zenon, <2>3 DEF LogOK, n
      <3>2. L[k] \in LogEntries
        BY Zenon, <2>3, LogTypes DEF n
      <3> QED BY Zenon, <1>1, <2>2, <2>3, <3>1, <3>2
    <2>4. CASE k = n + 1
      <3>1. k - 1 = n
        BY <1>0, <2>4
      <3>2. EntryOK(L, k - 1, e) /\ M[k] = e /\ p.partition_id = Partition
        BY Zenon, <1>1, <1>5, <2>4, <3>1 DEF n, p, Fits
      <3> QED BY Zenon, <2>2, <3>2 DEF p
    <2> QED BY <1>7, <2>3, <2>4
  <1>9. Grows(M)
    <2> SUFFICES ASSUME NEW i \in 1 .. n + 1, NEW j \in 1 .. n + 1, i < j,
                        M[i].type # "DROP_RANGE", M[j].type \in Producing
                 PROVE  Beyond(M[i], M[j].new_part)
      BY Zenon, <1>1 DEF Grows
    <2>1. i \in 1 .. n
      BY <1>0
    <2>2. CASE j \in 1 .. n
      BY Zenon, <1>1, <2>1, <2>2 DEF LogOK, Grows, n
    <2>3. CASE j = n + 1
      BY Zenon, <1>0, <1>1, <2>1, <2>3, BeyondNext DEF n
    <2> QED BY <1>7, <2>2, <2>3
  <1>10. Kept(M)
    <2> SUFFICES ASSUME NEW i \in 1 .. n + 1, NEW k \in i .. n + 1, M[i].type = "GET_PART",
                        NEW b, b = M[i].new_part.min_block
                 PROVE  \/ \E x \in AliveIn(M, k) : b \in Blocks(x)
                        \/ \E m \in i + 1 .. k : /\ M[m].type \in {"DROP_PART", "DROP_RANGE"}
                                                 /\ b \in Blocks(M[m].new_part)
      BY Zenon, <1>1 DEF Kept
    <2>1. CASE k # n + 1
      <3>1. i \in 1 .. n /\ k \in i .. n /\ k \in 0 .. n /\ \A m \in i + 1 .. k : m \in 1 .. n
        BY <1>0, <2>1
      <3>2. \/ \E x \in AliveIn(L, k) : b \in Blocks(x)
            \/ \E m \in i + 1 .. k : /\ L[m].type \in {"DROP_PART", "DROP_RANGE"}
                                     /\ b \in Blocks(L[m].new_part)
        BY Zenon, <1>1, <3>1 DEF LogOK, Kept, n
      <3> QED BY Zenon, <1>1, <1>2, <3>1, <3>2
    <2>2. CASE k = n + 1 /\ i = n + 1
      <3>1. e.type \in Producing /\ p \in Parts
        BY <1>1, <2>2 DEF Producing, LogEntries, p
      <3>2. p \in AliveIn(M, k)
        BY Zenon, <1>3, <2>2, <3>1 DEF Covered, p
      <3>3. b \in Blocks(p)
        BY <1>1, <2>2, <3>1, PartFields DEF Blocks, p
      <3> QED BY Zenon, <3>2, <3>3
    <2>3. CASE k = n + 1 /\ i \in 1 .. n
      <3>1. n \in i .. n /\ \A m \in i + 1 .. n : m \in 1 .. n /\ m \in i + 1 .. k
        BY <1>0, <2>3
      <3>2. \/ \E x \in AliveIn(L, n) : b \in Blocks(x)
            \/ \E m \in i + 1 .. n : /\ L[m].type \in {"DROP_PART", "DROP_RANGE"}
                                     /\ b \in Blocks(L[m].new_part)
        BY Zenon, <1>1, <2>3, <3>1 DEF LogOK, Kept, n
      <3>3. CASE \E m \in i + 1 .. n : /\ L[m].type \in {"DROP_PART", "DROP_RANGE"}
                                       /\ b \in Blocks(L[m].new_part)
        BY Zenon, <1>1, <3>1, <3>3
      <3>4. ASSUME NEW x \in AliveIn(L, n), b \in Blocks(x), ~contains(p, x)
            PROVE  \E y \in AliveIn(M, k) : b \in Blocks(y)
        BY Zenon, <1>3, <2>3, <3>4 DEF Covered, p
      <3>5. ASSUME NEW x \in AliveIn(L, n), b \in Blocks(x), contains(p, x)
            PROVE  \/ \E y \in AliveIn(M, k) : b \in Blocks(y)
                   \/ \E m \in i + 1 .. k : /\ M[m].type \in {"DROP_PART", "DROP_RANGE"}
                                            /\ b \in Blocks(M[m].new_part)
        <4>1. x \in Parts /\ p \in Parts /\ e.type \in EntryTypes
          BY <1>4 DEF LogEntries, p
        <4>2. b \in Blocks(p)
          <5>1. p.min_block <= x.min_block /\ x.max_block <= p.max_block
            BY Zenon, <3>5 DEF contains
          <5>2. /\ p.min_block \in Nat /\ p.max_block \in Nat
                /\ x.min_block \in Nat /\ x.max_block \in Nat
            BY <4>1, PartFields
          <5> QED BY <3>5, <5>1, <5>2 DEF Blocks
        <4>3. CASE e.type \in Producing
          BY Zenon, <1>3, <2>3, <4>2, <4>3 DEF Covered, p
        <4>4. CASE e.type \in {"DROP_PART", "DROP_RANGE"}
          <5>1. n + 1 \in i + 1 .. k
            BY <1>0, <2>3
          <5> QED BY Zenon, <1>1, <4>2, <4>4, <5>1 DEF p
        <4> QED BY <4>1, <4>3, <4>4 DEF EntryTypes, Producing
      <3> QED BY Zenon, <3>2, <3>3, <3>4, <3>5
    <2> QED BY <1>7, <2>1, <2>2, <2>3
  <1> QED BY Zenon, <1>0, <1>1, <1>6, <1>8, <1>9, <1>10 DEF LogOK, M

-----------------------------------------------------------------------------
(* What an entry takes away from the parts before it.                      *)
Takes(e) == IF e.type = "DROP_PART" THEN {e.new_part} ELSE e.source_parts

LEMMA EntryKinds ==
    ASSUME NEW L \in Seq(LogEntries), LogOK(L), NEW j \in 1 .. Len(L)
    PROVE  /\ L[j].type = "GET_PART" => Inserted(L, j - 1, L[j])
           /\ L[j].type = "MERGE_PARTS" => MergeOf(AliveIn(L, j - 1), L[j])
           /\ L[j].type = "MUTATE_PART" => MutationOf(AliveIn(L, j - 1), L[j])
           /\ L[j].type = "DROP_PART" => L[j].new_part \in AliveIn(L, j - 1)
           /\ L[j].type = "DROP_RANGE" => Dropped(L, j - 1, L[j])
           /\ L[j].type \in {"GET_PART", "DROP_RANGE"} => L[j].source_parts = {}
  <1>1. EntryOK(L, j - 1, L[j])
    BY Zenon DEF LogOK
  <1> QED BY <1>1 DEF EntryOK, Assigned, Inserted, Dropped

LEMMA PrefixBefore ==
    ASSUME NEW L \in Seq(LogEntries), LogOK(L), NEW j \in 1 .. Len(L)
    PROVE  /\ j - 1 \in Nat /\ j - 1 \in 0 .. Len(L) /\ j \in 0 .. Len(L) /\ j - 1 < MAX_LEVEL
           /\ SetOK(AliveIn(L, j - 1), RangesIn(L, j - 1), j - 1)
           /\ SetOK(AliveIn(L, j), RangesIn(L, j), j)
           /\ AliveIn(L, j - 1) \in SUBSET Parts
           /\ L[j] \in LogEntries
  <1>1. j - 1 \in Nat /\ j - 1 \in 0 .. Len(L) /\ j \in 0 .. Len(L)
    OBVIOUS
  <1>2. j - 1 < MAX_LEVEL
    BY <1>1, ConstantsAssumption DEF LogOK, MAX_LEVEL
  <1> QED BY Zenon, <1>1, <1>2, PrefixTypes, LogTypes DEF LogOK

LEMMA TakesLive ==
    ASSUME NEW L \in Seq(LogEntries), LogOK(L), NEW j \in 1 .. Len(L), NEW x \in Takes(L[j])
    PROVE  /\ x \in AliveIn(L, j - 1)
           /\ contains(L[j].new_part, x)
           /\ L[j].type \in Producing => L[j].new_part # x
  <1>1. L[j].type \in EntryTypes /\ L[j].new_part \in Parts
    BY Zenon, LogTypes
  <1>2. CASE L[j].type = "MERGE_PARTS"
    <2>1. /\ x \in AliveIn(L, j - 1) /\ contains(L[j].new_part, x)
          /\ x.level < L[j].new_part.level /\ x \in Parts
      <3>1. x \in L[j].source_parts
        BY <1>2 DEF Takes
      <3>2. MergeOf(AliveIn(L, j - 1), L[j])
        BY Zenon, <1>2, EntryKinds
      <3>3. \A y \in L[j].source_parts :
               /\ y \in AliveIn(L, j - 1) /\ contains(L[j].new_part, y)
               /\ y.level < L[j].new_part.level
        BY Zenon, <3>2, PrefixBefore, MergeContains
      <3> QED BY Zenon, <3>1, <3>3, PrefixBefore
    <2>2. L[j].new_part # x
      BY <1>1, <2>1, PartFields
    <2> QED BY <2>1, <2>2
  <1>3. CASE L[j].type = "MUTATE_PART"
    <2>1. x \in L[j].source_parts
      BY <1>3 DEF Takes
    <2>2. PICK p \in AliveIn(L, j - 1) :
             /\ L[j].source_parts = {p} /\ contains(L[j].new_part, p) /\ L[j].new_part # p
      <3>1. MutationOf(AliveIn(L, j - 1), L[j])
        BY Zenon, <1>3, EntryKinds
      <3> QED BY Zenon, <3>1, PrefixBefore, MutationContains
    <2> QED BY Zenon, <2>1, <2>2
  <1>4. CASE L[j].type = "DROP_PART"
    <2>1. x = L[j].new_part /\ L[j].type \notin Producing
      BY <1>4 DEF Takes, Producing
    <2> QED BY Zenon, <1>1, <1>4, <2>1, EntryKinds, ContainsSelf
  <1>5. ~(L[j].type \in {"GET_PART", "DROP_RANGE"})
    <2>1. L[j].type \in {"GET_PART", "DROP_RANGE"} => L[j].source_parts = {}
      BY Zenon, EntryKinds
    <2> QED BY <2>1 DEF Takes
  <1> QED BY <1>1, <1>2, <1>3, <1>4, <1>5 DEF EntryTypes

LEMMA TakenOnce ==
    ASSUME NEW L \in Seq(LogEntries), LogOK(L), NEW i \in 1 .. Len(L), NEW j \in 1 .. Len(L),
           i < j, NEW x \in Takes(L[i]), x \in Takes(L[j])
    PROVE  FALSE
  <1>1. /\ i - 1 \in 0 .. Len(L) /\ j - 1 \in 0 .. Len(L)
        /\ \A c \in 1 .. j - 1 : c \in 1 .. Len(L) /\ (c < i \/ c = i \/ i < c)
        /\ \A c \in 1 .. j - 1 : c < i => i \in c + 1 .. j - 1
        /\ \A c \in 1 .. i - 1 : c \in 1 .. Len(L) /\ c < i
    OBVIOUS
  <1>2. PICK c \in 1 .. j - 1 : x = L[c].new_part /\ LiveIn(L, c, j - 1)
    BY Zenon, <1>1, TakesLive, PrefixTypes
  <1>3. PICK a \in 1 .. i - 1 : x = L[a].new_part /\ LiveIn(L, a, i - 1)
    BY Zenon, <1>1, TakesLive, PrefixTypes
  <1>4. contains(L[i].new_part, x) /\ (L[i].type \in Producing => L[i].new_part # x)
    BY Zenon, TakesLive
  <1>5. CASE c < i
    BY Zenon, <1>1, <1>2, <1>4, <1>5 DEF LiveIn
  <1>6. CASE c = i
    BY Zenon, <1>2, <1>4, <1>6 DEF LiveIn
  <1>7. CASE i < c
    <2>1. a < c /\ a \in 1 .. Len(L) /\ c \in 1 .. Len(L)
      BY <1>1, <1>7
    <2>2. L[a].type \in Producing /\ L[c].type \in Producing
      BY Zenon, <1>2, <1>3 DEF LiveIn
    <2>3. L[a].type # "DROP_RANGE"
      BY <2>2 DEF Producing
    <2>4. Beyond(L[a], x)
      BY Zenon, <1>2, <2>1, <2>2, <2>3 DEF LogOK, Grows
    <2>5. x \in Parts
      BY Zenon, <1>3, <2>1, LogTypes
    <2>6. ~isDisjoint(x, x)
      BY Zenon, <2>5, ContainsSelf, ContainsOverlaps
    <2> QED BY Zenon, <1>3, <2>4, <2>6 DEF Beyond, sameBlockRange
  <1> QED BY Zenon, <1>1, <1>5, <1>6, <1>7

(* A block inserted into the range of a merge is in one of its sources.    *)
LEMMA KeepsBlocks ==
    ASSUME NEW L \in Seq(LogEntries), LogOK(L), NEW j \in 1 .. Len(L), L[j].type = "MERGE_PARTS",
           NEW i \in 1 .. Len(L), L[i].type = "GET_PART",
           L[i].new_part.min_block \in Blocks(L[j].new_part)
    PROVE  /\ i < j
           /\ \/ \E p \in L[j].source_parts : L[i].new_part.min_block \in Blocks(p)
              \/ \E k \in i + 1 .. j - 1 : /\ L[k].type \in {"DROP_PART", "DROP_RANGE"}
                                           /\ L[i].new_part.min_block \in Blocks(L[k].new_part)
  <1> DEFINE p == L[j].new_part
             q == L[i].new_part
             b == q.min_block
  <1>1. /\ p \in Parts /\ q \in Parts /\ p.partition_id = Partition
        /\ q.partition_id = Partition
    BY Zenon, LogTypes DEF LogOK
  <1>2. b \in Nat /\ p.min_block <= b /\ b <= p.max_block
    BY <1>1, PartFields DEF Blocks
  <1>3. ~isDisjoint(q, p)
    BY <1>1, <1>2, PartFields DEF isDisjoint
  <1>4. i < j
    <2>1. ASSUME j < i PROVE FALSE
      <3>1. j \in 1 .. i - 1
        BY <2>1
      <3> QED BY Zenon, <1>3, <3>1, EntryKinds DEF Inserted
    <2>2. i # j
      OBVIOUS
    <2> QED BY <2>1, <2>2
  <1>5. j - 1 \in i .. Len(L)
    BY <1>4
  <1>6. \/ \E x \in AliveIn(L, j - 1) : b \in Blocks(x)
        \/ \E m \in i + 1 .. j - 1 : /\ L[m].type \in {"DROP_PART", "DROP_RANGE"}
                                     /\ b \in Blocks(L[m].new_part)
    BY Zenon, <1>5 DEF LogOK, Kept
  <1>7. ASSUME NEW x \in AliveIn(L, j - 1), b \in Blocks(x) PROVE x \in L[j].source_parts
    <2>1. x \in Parts /\ x.partition_id = Partition
      BY Zenon, PrefixBefore DEF SetOK
    <2>2. x.min_block <= b /\ b <= x.max_block
      BY <1>2, <1>7, <2>1, PartFields DEF Blocks
    <2>3. ~isDisjoint(p, x)
      BY <1>1, <1>2, <2>1, <2>2, PartFields DEF isDisjoint
    <2>4. MergeOf(AliveIn(L, j - 1), L[j])
      BY Zenon, EntryKinds
    <2>5. L[j].source_parts = {y \in AliveIn(L, j - 1) : ~isDisjoint(p, y)}
      BY Zenon, <2>4 DEF MergeOf
    <2> QED BY Zenon, <2>3, <2>5
  <1> QED BY Zenon, <1>4, <1>6, <1>7

(* A dropped range splits nothing before it and meets nothing after it.    *)
LEMMA RangesIsolate ==
    ASSUME NEW L \in Seq(LogEntries), LogOK(L), NEW k \in 1 .. Len(L), L[k].type = "DROP_RANGE",
           NEW i \in 1 .. Len(L), L[i].type \in Producing
    PROVE  \/ isDisjoint(L[i].new_part, L[k].new_part)
           \/ i < k /\ contains(L[k].new_part, L[i].new_part)
  <1>1. L[i].new_part \in Parts /\ L[k].new_part \in Parts /\ L[i].type # "DROP_RANGE"
    BY LogTypes DEF Producing
  <1>2. CASE i < k
    <2>1. i \in 1 .. k - 1
      BY <1>2
    <2>2. Dropped(L, k - 1, L[k])
      BY Zenon, EntryKinds
    <2>3. \/ isDisjoint(L[k].new_part, L[i].new_part)
          \/ contains(L[k].new_part, L[i].new_part)
      BY Zenon, <1>1, <2>1, <2>2 DEF Dropped
    <2> QED BY Zenon, <1>1, <1>2, <2>3, DisjointSymmetric
  <1>3. CASE k < i
    <2>1. k \in 1 .. i /\ i \in 1 .. i /\ \A m \in i + 1 .. i : FALSE
      BY <1>3
    <2>2. L[k].new_part \in RangesIn(L, i) /\ L[i].new_part \in AliveIn(L, i)
      BY Zenon, <2>1 DEF RangesIn, AliveIn, LiveIn
    <2>3. L[k].new_part.max_block < L[i].new_part.min_block
      BY Zenon, <2>2, PrefixBefore DEF SetOK
    <2> QED BY <1>1, <2>3, PartFields DEF isDisjoint
  <1>4. i < k \/ k < i
    BY <1>1
  <1> QED BY Zenon, <1>2, <1>3, <1>4

(* Parts in the log are below the level and the version of dropped ranges. *)
LEMMA PartsOfTheLog ==
    ASSUME NEW L \in Seq(LogEntries), LogOK(L), NEW i \in 1 .. Len(L), L[i].type # "DROP_RANGE"
    PROVE  /\ L[i].new_part.level < MAX_LEVEL /\ L[i].new_part.mutation < MAX_BLOCK_NUMBER
           /\ L[i].new_part.mutation = 0 \/ L[i].new_part.min_block < L[i].new_part.mutation
  <1> DEFINE p == L[i].new_part
  <1>1. /\ i \in 1 .. i /\ (\A m \in i + 1 .. i : FALSE) /\ i <= MaxLog /\ i \in Nat
    BY ConstantsAssumption DEF LogOK
  <1>2. L[i].type \in EntryTypes /\ p \in Parts
    BY Zenon, LogTypes
  <1>3. p \in AliveIn(L, i) \/ p \in AliveIn(L, i - 1)
    <2>1. CASE L[i].type \in Producing
      BY Zenon, <1>1, <2>1 DEF AliveIn, LiveIn
    <2>2. CASE L[i].type = "DROP_PART"
      BY Zenon, <2>2, EntryKinds
    <2> QED BY <1>2, <2>1, <2>2 DEF EntryTypes, Producing
  <1>4. /\ p.level < i \/ p.level < i - 1
        /\ p.mutation < MAX_BLOCK_NUMBER
        /\ p.mutation = 0 \/ p.min_block < p.mutation
    BY Zenon, <1>3, PrefixBefore DEF SetOK
  <1>5. p.level < MAX_LEVEL
    <2>1. p.level \in Nat
      BY <1>2, PartFields
    <2> QED BY <1>1, <1>4, <2>1, ConstantsAssumption DEF MAX_LEVEL
  <1> QED BY Zenon, <1>4, <1>5

-----------------------------------------------------------------------------
(* An entry made from A can be made from A and parts apart from its result. *)
LEMMA AssignedMore ==
    ASSUME NEW A, NEW B, NEW e, Assigned(A, e), \A y \in B : isDisjoint(e.new_part, y)
    PROVE  Assigned(A \cup B, e)
  <1>1. {x \in A \cup B : ~isDisjoint(e.new_part, x)} = {x \in A : ~isDisjoint(e.new_part, x)}
    BY Zenon
  <1>2. MergeOf(A, e) => MergeOf(A \cup B, e)
    BY Zenon, <1>1 DEF MergeOf
  <1>3. MutationOf(A, e) => MutationOf(A \cup B, e)
    BY Zenon DEF MutationOf
  <1> QED BY Zenon, <1>2, <1>3 DEF Assigned

(* After inserts only, the parts are what they were and the inserted ones. *)
LEMMA InsertsKeep ==
    ASSUME NEW L \in Seq(LogEntries), LogOK(L), NEW k \in 0 .. Len(L),
           \A j \in k + 1 .. Len(L) : L[j].type = "GET_PART"
    PROVE  /\ AliveIn(L, k) \subseteq AliveIn(L, Len(L))
           /\ \A x \in AliveIn(L, Len(L)) : x \in AliveIn(L, k) \/
                \E j \in k + 1 .. Len(L) :
                    x = L[j].new_part /\ \A y \in AliveIn(L, k) : isDisjoint(x, y)
  <1> DEFINE n == Len(L)
  <1>0. /\ n \in Nat /\ k \in Nat /\ k <= n /\ n \in 0 .. n
        /\ \A i \in 1 .. k : i \in 1 .. n
        /\ \A i \in 1 .. n : i \in 1 .. k \/ i \in k + 1 .. n
        /\ \A i \in 1 .. k : \A m \in i + 1 .. k : m \in i + 1 .. n
        /\ \A i \in 1 .. k : \A m \in i + 1 .. n : m \in i + 1 .. k \/ m \in k + 1 .. n
        /\ \A m \in k + 1 .. n : m \in 1 .. n /\ \A i \in 1 .. k : i \in 1 .. m - 1
    OBVIOUS
  <1>1. ASSUME NEW m \in k + 1 .. n, NEW i \in 1 .. k
        PROVE  isDisjoint(L[m].new_part, L[i].new_part)
    <2>1. m \in 1 .. n /\ i \in 1 .. m - 1 /\ L[m].type = "GET_PART"
      BY Zenon, <1>0
    <2>2. Inserted(L, m - 1, L[m])
      BY Zenon, <2>1, EntryKinds
    <2> QED BY Zenon, <2>1, <2>2 DEF Inserted
  <1>2. ASSUME NEW x \in AliveIn(L, k)
        PROVE  /\ x \in AliveIn(L, n)
               /\ \A m \in k + 1 .. n : isDisjoint(L[m].new_part, x)
    <2>1. PICK i \in 1 .. k : x = L[i].new_part /\ LiveIn(L, i, k)
      BY Zenon DEF AliveIn
    <2>2. \A m \in k + 1 .. n : ~contains(L[m].new_part, L[i].new_part)
      <3> TAKE m \in k + 1 .. n
      <3>1. m \in 1 .. n /\ i \in 1 .. n
        BY Zenon, <1>0
      <3>2. L[m].new_part \in Parts /\ L[i].new_part \in Parts
        BY Zenon, <3>1, LogTypes
      <3> QED BY Zenon, <1>1, <3>2, ContainsOverlaps
    <2>3. LiveIn(L, i, n)
      BY Zenon, <1>0, <2>1, <2>2 DEF LiveIn
    <2> QED BY Zenon, <1>0, <1>1, <2>1, <2>3 DEF AliveIn
  <1>3. ASSUME NEW x \in AliveIn(L, n), x \notin AliveIn(L, k)
        PROVE  \E j \in k + 1 .. n : x = L[j].new_part
    <2>1. PICK i \in 1 .. n : x = L[i].new_part /\ LiveIn(L, i, n)
      BY Zenon DEF AliveIn
    <2>2. i \in 1 .. k => LiveIn(L, i, k)
      BY Zenon, <1>0, <2>1 DEF LiveIn
    <2>3. i \notin 1 .. k
      BY Zenon, <1>3, <2>1, <2>2 DEF AliveIn
    <2> QED BY Zenon, <1>0, <2>1, <2>3
  <1> QED BY Zenon, <1>2, <1>3 DEF n

(* canMergeTwoParts looks for a part between two others: there is none.    *)
LEMMA GapIsEmpty ==
    ASSUME NEW A \in SUBSET Parts, NEW D \in SUBSET Parts, NEW k \in Nat, k <= MAX_LEVEL,
           SetOK(A, D, k), NEW V \in SUBSET Parts,
           Reflects(V, A, D),
           NEW y \in A, NEW z \in A, y.max_block + 1 < z.min_block,
           getPartsCoveredBy(V, Part(Partition, y.max_block + 1, z.min_block - 1,
                                     MAX_LEVEL, MAX_BLOCK_NUMBER)) = {},
           NEW x \in A, y.max_block < x.min_block, x.min_block < z.min_block
    PROVE  FALSE
  <1> USE DEF Reflects
  <1> DEFINE a == y.max_block + 1
             b == z.min_block - 1
             g == Part(Partition, a, b, MAX_LEVEL, MAX_BLOCK_NUMBER)
  <1>1. /\ a \in Nat /\ b \in Nat /\ a <= b
        /\ y.min_block \in Nat /\ y.max_block \in Nat /\ z.min_block \in Nat /\ z.max_block \in Nat
        /\ y.min_block <= y.max_block /\ z.min_block <= z.max_block
    BY PartFields
  <1>2. g \in Parts
    BY Zenon, <1>1, SpecialLevels DEF Part, Partition, Parts, PartInfo
  <1>3. /\ g.partition_id = Partition /\ g.min_block = a /\ g.max_block = b
        /\ g.level = MAX_LEVEL /\ g.mutation = MAX_BLOCK_NUMBER
    <2> HIDE DEF a, b
    <2> QED BY SMT, PartBuilt
  <1> HIDE DEF g
  <1>4. ASSUME NEW v \in A PROVE isDisjoint(g, v) \/ contains(g, v)
    <2>1. /\ v.partition_id = Partition /\ v.level < k /\ v.mutation < MAX_BLOCK_NUMBER
          /\ v = y \/ isDisjoint(v, y)
          /\ v = z \/ isDisjoint(v, z)
      BY Zenon DEF SetOK
    <2>2. /\ v.min_block \in Nat /\ v.max_block \in Nat /\ v.level \in Nat /\ v.mutation \in Nat
          /\ v.min_block <= v.max_block
      BY Zenon, PartFields
    <2>3. y.partition_id = Partition /\ z.partition_id = Partition
      BY Zenon DEF SetOK
    <2>4. v.max_block < a \/ v.min_block > b \/ (a <= v.min_block /\ v.max_block <= b)
      BY <1>1, <2>1, <2>2, <2>3 DEF isDisjoint
    <2>5. v.level <= MAX_LEVEL /\ v.mutation <= MAX_BLOCK_NUMBER
      BY <2>1, <2>2, SpecialLevels
    <2> HIDE DEF a, b
    <2>6. CASE v.max_block < a
      BY <1>1, <1>3, <2>2, <2>6 DEF isDisjoint
    <2>7. CASE v.min_block > b
      BY <1>1, <1>3, <2>2, <2>7 DEF isDisjoint
    <2>8. CASE a <= v.min_block /\ v.max_block <= b
      <3>1. g.max_block >= v.max_block /\ g.level >= v.level /\ g.mutation >= v.mutation
        BY <1>1, <1>3, <2>2, <2>5, <2>8, SpecialLevels
      <3> QED BY Zenon, <1>3, <2>1, <2>8, <3>1 DEF contains
    <2> QED BY Zenon, <2>4, <2>6, <2>7, <2>8
  <1>5. ASSUME NEW d \in D PROVE isDisjoint(g, d) /\ d.partition_id = Partition
    <2>1. d.max_block < y.min_block /\ d = Part(Partition, 0, d.max_block, MAX_LEVEL, MAX_BLOCK_NUMBER)
      BY Zenon DEF SetOK
    <2>2. d.max_block \in Nat
      BY Zenon, PartFields
    <2>3. d.partition_id = Partition
      <3> DEFINE c == d.max_block
      <3> HIDE DEF c
      <3>1. d = Part(Partition, 0, c, MAX_LEVEL, MAX_BLOCK_NUMBER)
        BY Zenon, <2>1 DEF c
      <3> QED BY SMT, <3>1, PartBuilt
    <2>4. g.min_block > d.max_block
      BY <1>1, <1>3, <2>1, <2>2
    <2> QED BY Zenon, <2>3, <2>4 DEF isDisjoint
  <1>6. ASSUME NEW v \in V
        PROVE  v.partition_id = g.partition_id /\ (isDisjoint(g, v) \/ contains(g, v))
    <2>1. v \in A \/ v \in D
      BY Zenon
    <2> QED BY Zenon, <1>3, <1>4, <1>5, <2>1 DEF SetOK
  <1>7. getPartsCoveredBy(V, g) = {v \in V : contains(g, v)}
    BY Zenon, <1>2, <1>6, CoveredFits
  <1>8. x \in V /\ ~contains(g, x)
    BY Zenon, <1>7 DEF g
  <1>9. isDisjoint(g, x)
    BY Zenon, <1>4, <1>8
  <1>10. /\ x.partition_id = Partition /\ z.partition_id = Partition /\ x.min_block \in Nat
         /\ x.max_block \in Nat /\ x.min_block <= x.max_block
    BY Zenon, PartFields DEF SetOK
  <1> QED BY <1>1, <1>3, <1>9, <1>10 DEF isDisjoint

-----------------------------------------------------------------------------
(* The sources of a merge and the mutations.                               *)

(* What holds of one part of a range and passes from neighbour to          *)
(* neighbour holds of all.                                                 *)
LEMMA ChainUp ==
    ASSUME NEW S \in SUBSET Parts, \A x, y \in S : x.min_block = y.min_block => x = y,
           NEW U \in SUBSET S, \A x, y \in S : consecutive(S, x, y) /\ x \in U => y \in U,
           NEW u \in U, NEW w \in S, u.min_block <= w.min_block
    PROVE  w \in U
  <1> SUFFICES ASSUME w \notin U PROVE FALSE
    BY Zenon
  <1>0. \A q \in S : q.min_block \in Nat
    BY Zenon, PartFields
  <1> DEFINE T == {q.min_block : q \in {s \in U : s.min_block <= w.min_block}}
             H == {q.min_block : q \in {s \in S : ~\E t \in U : /\ t.min_block <= w.min_block
                                                                /\ s.min_block <= t.min_block}}
  <1>1. T \in SUBSET Nat /\ T # {} /\ (\A t \in T : t <= w.min_block) /\ w.min_block \in Nat
    <2>1. u.min_block \in T
      BY Zenon
    <2>2. T \in SUBSET Nat
      BY Zenon, <1>0
    <2>3. \A t \in T : t <= w.min_block
      BY Zenon
    <2> QED BY Zenon, <1>0, <2>1, <2>2, <2>3
  <1>2. PICK m \in T : \A t \in T : t <= m
    <2> HIDE DEF T
    <2> QED BY Zenon, <1>1, GreatestNat
  <1>3. PICK a \in U : a.min_block = m /\ a.min_block <= w.min_block
    BY Zenon
  <1>4. a.min_block # w.min_block
    BY Zenon, <1>3
  <1>5. H \in SUBSET Nat /\ w.min_block \in H
    <2>1. H \in SUBSET Nat
      BY Zenon, <1>0
    <2>2. ASSUME NEW t \in U, t.min_block <= w.min_block, w.min_block <= t.min_block PROVE FALSE
      <3>1. t.min_block = w.min_block
        BY <1>0, <2>2
      <3> QED BY Zenon, <3>1
    <2> QED BY Zenon, <2>1, <2>2
  <1>6. PICK h \in H : \A t \in H : h <= t
    <2> HIDE DEF H
    <2> QED BY Zenon, <1>5, LeastNat
  <1>7. PICK b \in S : /\ b.min_block = h
                       /\ ~\E t \in U : t.min_block <= w.min_block /\ b.min_block <= t.min_block
    BY Zenon
  <1>8. h <= w.min_block
    BY Zenon, <1>5, <1>6
  <1>9. a.min_block < b.min_block
    <2>1. ~(b.min_block <= a.min_block)
      BY Zenon, <1>3, <1>7
    <2> QED BY <1>0, <2>1
  <1>10. ASSUME NEW p \in S PROVE p.min_block <= a.min_block \/ b.min_block <= p.min_block
    <2>1. CASE p.min_block \in H
      BY Zenon, <1>6, <1>7, <2>1
    <2>2. CASE p.min_block \notin H
      <3>1. PICK t \in U : t.min_block <= w.min_block /\ p.min_block <= t.min_block
        BY Zenon, <2>2
      <3>2. t.min_block <= a.min_block
        BY Zenon, <1>2, <1>3, <3>1
      <3> QED BY <1>0, <3>1, <3>2
    <2> QED BY Zenon, <2>1, <2>2
  <1>11. consecutive(S, a, b)
    BY Zenon, <1>9, <1>10 DEF consecutive
  <1>12. b \in U
    BY Zenon, <1>11
  <1>13. b.min_block <= b.min_block
    BY <1>0
  <1> QED BY Zenon, <1>7, <1>8, <1>12, <1>13

LEMMA Chain ==
    ASSUME NEW S \in SUBSET Parts, \A x, y \in S : x.min_block = y.min_block => x = y,
           NEW U \in SUBSET S, \A x, y \in S : consecutive(S, x, y) => (x \in U <=> y \in U),
           NEW u \in U, NEW w \in S
    PROVE  w \in U
  <1>0. u.min_block \in Nat /\ w.min_block \in Nat
    BY Zenon, PartFields
  <1>1. CASE u.min_block <= w.min_block
    BY Zenon, <1>1, ChainUp
  <1>2. CASE w.min_block <= u.min_block
    <2> DEFINE W == S \ U
    <2> SUFFICES ASSUME w \notin U PROVE FALSE
      BY Zenon
    <2>1. W \in SUBSET S /\ w \in W /\ u \in S
      BY Zenon
    <2>2. \A x, y \in S : consecutive(S, x, y) /\ x \in W => y \in W
      BY Zenon
    <2>3. u \in W
      <3> HIDE DEF W
      <3> QED BY Zenon, <1>2, <2>1, <2>2, ChainUp
    <2> QED BY Zenon, <2>3
  <1> QED BY <1>0, <1>1, <1>2

(* Outside its range a mutation is above or below a merge altogether.      *)
LEMMA MergeAgrees ==
    ASSUME NEW A \in SUBSET Parts, NEW D, NEW k \in Nat, k < MAX_LEVEL, SetOK(A, D, k),
           NEW e \in LogEntries, MergeOf(A, e), NEW v \in Nat, SplitFree(e.new_part, v),
           v <= e.new_part.mutation => \A x \in e.source_parts : v <= getDataVersion(x)
    PROVE  Agree(e, v)
  <1> DEFINE f == e.new_part
  <1>1. /\ e.source_parts \subseteq A
        /\ f.mutation = 0 \/ f.min_block < f.mutation
        /\ \A x \in e.source_parts : contains(f, x)
    BY Zenon, MergeContains
  <1>2. f \in Parts
    BY Zenon DEF LogEntries
  <1>3. /\ f.min_block \in Nat /\ f.max_block \in Nat /\ f.mutation \in Nat
        /\ f.min_block <= f.max_block
    BY Zenon, <1>2, PartFields
  <1>4. ASSUME NEW x \in e.source_parts PROVE v <= getDataVersion(x) <=> v <= getDataVersion(f)
    <2>1. /\ x.min_block \in Nat /\ x.max_block \in Nat /\ x.mutation \in Nat
          /\ x.min_block <= x.max_block
      BY Zenon, <1>1, PartFields
    <2>2. x.mutation = 0 \/ x.min_block < x.mutation
      BY Zenon, <1>1 DEF SetOK
    <2>3. f.min_block <= x.min_block /\ f.max_block >= x.max_block /\ f.mutation >= x.mutation
      BY Zenon, <1>1 DEF contains
    <2> HIDE DEF f
    <2>4. CASE v <= f.mutation
      <3>1. v <= getDataVersion(x)
        BY Zenon, <2>4 DEF f
      <3>2. v <= getDataVersion(f)
        BY <1>3, <2>4 DEF getDataVersion
      <3> QED BY Zenon, <3>1, <3>2
    <2>5. CASE ~(v <= f.mutation)
      <3>1. v < f.min_block \/ v > f.max_block
        BY <1>3, <2>5 DEF SplitFree, Blocks, f
      <3> QED BY <1>1, <1>3, <2>1, <2>2, <2>3, <2>5, <3>1 DEF getDataVersion, f
    <2> QED BY Zenon, <2>4, <2>5
  <1> QED BY Zenon, <1>4 DEF Agree
==============================================================================
