----------------------- MODULE ActiveDataPartSetProofs ------------------------
(***************************************************************************)
(* What ActiveDataPartSet promises, for any set of parts: although its     *)
(* searches look only at the neighbours of the position of a part, they    *)
(* find what a scan of the whole set would, because the parts of the set   *)
(* are disjoint; and adding keeps them so.                                 *)
(***************************************************************************)
EXTENDS ActiveDataPartSetSpec, WellFoundedInduction, TLAPS

Disjoint(S) == \A x, y \in S : x = y \/ isDisjoint(x, y)

(* operator< is a strict total order.                                      *)
LEMMA LessIsOrder ==
    /\ \A p \in Parts : ~Less(p, p)
    /\ \A p, q \in Parts : Less(p, q) \/ p = q \/ Less(q, p)
    /\ \A p, q, r \in Parts : Less(p, q) /\ Less(q, r) => Less(p, r)
  <1>1. \A p \in Parts : /\ p.partition_id \in Nat /\ p.min_block \in Nat
                         /\ p.max_block \in Nat /\ p.level \in Nat /\ p.mutation \in Nat
    BY DEF Parts, PartInfo, Levels
  <1>2. \A p, q \in Parts :
            /\ p.partition_id = q.partition_id /\ p.min_block = q.min_block
            /\ p.max_block = q.max_block /\ p.level = q.level /\ p.mutation = q.mutation
            => p = q
    BY DEF Parts, PartInfo
  <1>3. \A p \in Parts : ~Less(p, p)
    BY <1>1 DEF Less
  <1>4. \A p, q \in Parts : Less(p, q) \/ p = q \/ Less(q, p)
    BY <1>1, <1>2 DEF Less
  <1>5. \A p, q, r \in Parts : Less(p, q) /\ Less(q, r) => Less(p, r)
    BY <1>1 DEF Less
  <1> QED BY <1>3, <1>4, <1>5

LEMMA PartFields ==
    \A p \in Parts : /\ p.partition_id \in Nat /\ p.min_block \in Nat
                     /\ p.max_block \in Nat /\ p.min_block <= p.max_block
  BY DEF Parts, PartInfo

(* What the order says of partitions and first blocks.                     *)
LEMMA LessStarts ==
    ASSUME NEW p \in Parts, NEW q \in Parts, Less(p, q)
    PROVE  /\ p.partition_id <= q.partition_id
           /\ p.partition_id = q.partition_id => p.min_block <= q.min_block
  BY PartFields DEF Less

(* Among disjoint parts of one partition the order is that of the blocks.  *)
LEMMA LessMeansLeft ==
    ASSUME NEW S \in SUBSET Parts, Disjoint(S), NEW x \in S, NEW y \in S, Less(x, y),
           x.partition_id = y.partition_id
    PROVE  x.max_block < y.min_block
  <1>1. x # y
    BY LessIsOrder
  <1>2. isDisjoint(x, y)
    BY <1>1 DEF Disjoint
  <1> QED BY <1>2, LessStarts, PartFields DEF isDisjoint

LEMMA LeastNat ==
    ASSUME NEW T \in SUBSET Nat, T # {}
    PROVE  \E x \in T : \A y \in T : x <= y
  <1>1. PICK x \in T : \A y \in T : ~(<<y, x>> \in OpToRel(<, Nat))
    BY NatLessThanWellFounded, WFMin
  <1>2. ASSUME NEW y \in T, y < x PROVE FALSE
    <2>1. <<y, x>> \in OpToRel(<, Nat)
      BY <1>2 DEF OpToRel
    <2> QED BY <1>1, <2>1
  <1>3. \A y \in T : x \in Nat /\ y \in Nat /\ ~(y < x)
    BY <1>2
  <1> QED BY <1>3

(* A part before p that reaches into p is the one just before p.           *)
LEMMA OverlapOnTheLeft ==
    ASSUME NEW S \in SUBSET Parts, Disjoint(S), NEW p \in Parts, NEW x \in S,
           Less(x, p), ~isDisjoint(p, x)
    PROVE  \A y \in Before(S, p) : ~Less(x, y)
  <1> SUFFICES ASSUME NEW y \in S, Less(y, p), Less(x, y) PROVE FALSE
    BY DEF Before
  <1>1. x.partition_id = p.partition_id /\ x.max_block >= p.min_block
    BY PartFields DEF isDisjoint
  <1>2. y.partition_id = p.partition_id /\ y.min_block <= p.min_block
    BY <1>1, LessStarts, PartFields
  <1>3. x.max_block < y.min_block
    BY <1>1, <1>2, LessMeansLeft
  <1> QED BY <1>1, <1>2, <1>3, PartFields

(* The first part at or after p that p does not contain ends the walk to   *)
(* the right; if it starts inside p, p and it intersect.                   *)
LEMMA OverlapOnTheRight ==
    ASSUME NEW S \in SUBSET Parts, Disjoint(S), NEW p \in Parts,
           NEW x \in AtOrAfter(S, p), ~isDisjoint(p, x), x \notin RightRun(S, p)
    PROVE  intersectsOnTheRight(S, p)
  <1>0. x \in S /\ ~Less(x, p) /\ x.partition_id = p.partition_id /\ x.min_block <= p.max_block
    BY PartFields DEF AtOrAfter, isDisjoint
  <1>1. PICK z \in AtOrAfter(S, p) : ~Less(x, z) /\ ~contains(p, z)
    BY DEF RightRun
  <1> DEFINE Bad == {y \in AtOrAfter(S, p) : ~contains(p, y) /\ y.partition_id = p.partition_id}
             T == {y.min_block : y \in Bad}
  <1>2. z \in Bad /\ z.min_block <= x.min_block
    <2>1. z \in S /\ ~Less(z, p)
      BY DEF AtOrAfter
    <2>2. z = x \/ Less(z, x)
      BY <1>0, <1>1, <2>1, LessIsOrder
    <2>3. z = p \/ Less(p, z)
      BY <2>1, LessIsOrder
    <2>4. z.partition_id = p.partition_id /\ z.min_block <= x.min_block
      BY <1>0, <2>1, <2>2, <2>3, LessStarts, PartFields
    <2> QED BY <1>1, <2>4
  <1>3. Bad \subseteq S
    BY DEF AtOrAfter
  <1>4. T \in SUBSET Nat /\ T # {}
    BY <1>2, <1>3, PartFields
  <1>5. PICK t \in T : \A u \in T : t <= u
    <2> HIDE DEF T
    <2> QED BY <1>4, LeastNat
  <1>6. PICK y \in Bad : \A v \in Bad : y.min_block <= v.min_block
    BY <1>5
  <1>7. y \in S /\ ~Less(y, p) /\ ~contains(p, y) /\ y.partition_id = p.partition_id
    BY <1>6 DEF AtOrAfter
  <1>8. y = p \/ Less(p, y)
    BY <1>7, LessIsOrder
  <1>9. p.min_block <= y.min_block
    BY <1>7, <1>8, LessStarts, PartFields
  <1>10. ASSUME NEW v \in AtOrAfter(S, p), Less(v, y) PROVE contains(p, v)
    <2>1. v \in S /\ ~Less(v, p)
      BY DEF AtOrAfter
    <2>2. v = p \/ Less(p, v)
      BY <2>1, LessIsOrder
    <2>3. v.partition_id = p.partition_id
      BY <1>7, <1>10, <2>1, <2>2, LessStarts, PartFields
    <2>4. v.max_block < y.min_block
      BY <1>7, <1>10, <2>1, <2>3, LessMeansLeft
    <2>5. ~(y.min_block <= v.min_block)
      BY <1>7, <2>1, <2>4, PartFields
    <2>6. v \notin Bad
      BY <1>6, <2>5
    <2> QED BY <2>3, <2>6
  <1>11. y \in RightStop(S, p)
    <2>1. y \in AtOrAfter(S, p)
      OBVIOUS
    <2> QED BY <1>7, <1>10, <2>1 DEF RightStop
  <1>12. y.min_block <= p.max_block
    <2>1. y.min_block <= z.min_block
      BY <1>2, <1>6
    <2>2. z \in S
      BY DEF AtOrAfter
    <2> QED BY <1>0, <1>2, <1>7, <2>1, <2>2, PartFields
  <1>13. ~isDisjoint(p, y)
    BY <1>7, <1>9, <1>12, PartFields DEF isDisjoint
  <1> QED BY <1>11, <1>13 DEF intersectsOnTheRight

(* Hence no overlapping part is overlooked.                                *)
LEMMA OverlapIsSeen ==
    ASSUME NEW S \in SUBSET Parts, Disjoint(S), NEW p \in Parts, NEW x \in S,
           ~isDisjoint(p, x)
    PROVE  \/ x \in LeftRun(S, p) \cup RightRun(S, p)
           \/ intersectsOnTheLeft(S, p) \/ intersectsOnTheRight(S, p)
  <1>1. CASE Less(x, p)
    <2>1. x \in Before(S, p) /\ \A y \in Before(S, p) : ~Less(x, y)
      BY <1>1, OverlapOnTheLeft DEF Before
    <2>2. \A y \in Before(S, p) : ~Less(y, x) => y = x
      BY <2>1, LessIsOrder DEF Before
    <2>3. CASE contains(p, x)
      BY <2>1, <2>2, <2>3 DEF LeftRun
    <2>4. CASE ~contains(p, x)
      <3>1. x \in LeftStop(S, p)
        BY <2>1, <2>4 DEF LeftStop
      <3> QED BY <3>1 DEF intersectsOnTheLeft
    <2> QED BY <2>3, <2>4
  <1>2. CASE ~Less(x, p)
    <2>1. x \in AtOrAfter(S, p)
      BY <1>2 DEF AtOrAfter
    <2> QED BY <2>1, OverlapOnTheRight
  <1> QED BY <1>1, <1>2

LEMMA RunsAreContained ==
    ASSUME NEW S \in SUBSET Parts, NEW p, NEW x \in LeftRun(S, p) \cup RightRun(S, p)
    PROVE  x \in S /\ contains(p, x)
  <1>1. x \in S
    BY DEF LeftRun, RightRun, Before, AtOrAfter
  <1>2. ~Less(x, x)
    BY <1>1, LessIsOrder
  <1> QED BY <1>1, <1>2 DEF LeftRun, RightRun

-----------------------------------------------------------------------------
(* The operations keep the parts disjoint.                                 *)
LEMMA AddKeepsDisjoint ==
    ASSUME NEW S \in SUBSET Parts, Disjoint(S), NEW p \in Parts
    PROVE  Disjoint(addPart(S, p))
  <1> DEFINE runs == LeftRun(S, p) \cup RightRun(S, p)
  <1>1. CASE addPart(S, p) \subseteq S
    BY <1>1 DEF Disjoint
  <1>2. CASE ~(addPart(S, p) \subseteq S)
    <2>1. /\ ~intersectsOnTheLeft(S, p) /\ ~intersectsOnTheRight(S, p)
          /\ addPart(S, p) = (S \ runs) \cup {p}
      BY <1>2 DEF addPart
    <2>2. \A x \in S \ runs : isDisjoint(p, x)
      BY <2>1, OverlapIsSeen
    <2>3. \A x \in S \ runs : isDisjoint(x, p)
      BY <2>2, PartFields DEF isDisjoint
    <2> HIDE DEF runs
    <2> QED BY <2>1, <2>2, <2>3 DEF Disjoint
  <1> QED BY <1>1, <1>2

LEMMA RemovalsShrink ==
    ASSUME NEW S, NEW p
    PROVE  /\ remove(S, p) \subseteq S
           /\ removePartAndCoveredParts(S, p) \subseteq S
           /\ removePartsCoveredBy(S, p) \subseteq S
           /\ addPart(S, p) \subseteq S \cup {p}
  BY DEF remove, removePartAndCoveredParts, removePartsCoveredBy, addPart

Inv == part_info_to_name \subseteq Universe /\ PartsDisjoint

LEMMA InvIsInductive == Spec => []Inv
  <1>1. Init => Inv
    BY DEF Init, Inv, PartsDisjoint
  <1>2. Inv /\ [Next]_part_info_to_name => Inv'
    <2> SUFFICES ASSUME Inv, [Next]_part_info_to_name PROVE Inv'
      OBVIOUS
    <2>0. /\ part_info_to_name \in SUBSET Parts /\ Disjoint(part_info_to_name)
          /\ part_info_to_name \subseteq Universe /\ Universe \subseteq Parts
      BY UniverseAssumption DEF Inv, PartsDisjoint, Disjoint
    <2>1. ASSUME part_info_to_name' \subseteq part_info_to_name PROVE Inv'
      BY <2>0, <2>1 DEF Inv, PartsDisjoint, Disjoint
    <2>2. ASSUME NEW p \in Universe, Add(p) PROVE Inv'
      <3>1. part_info_to_name' = addPart(part_info_to_name, p)
        BY <2>2 DEF Add
      <3>2. Disjoint(part_info_to_name')
        BY <2>0, <3>1, AddKeepsDisjoint
      <3>3. part_info_to_name' \subseteq Universe
        BY <2>0, <3>1, RemovalsShrink
      <3> QED BY <3>2, <3>3 DEF Inv, PartsDisjoint, Disjoint
    <2>3. ASSUME NEW p \in Universe,
                 Remove(p) \/ RemovePartAndCoveredParts(p) \/ RemovePartsCoveredBy(p)
          PROVE  Inv'
      BY <2>1, <2>3, RemovalsShrink
         DEF Remove, RemovePartAndCoveredParts, RemovePartsCoveredBy
    <2> QED BY <2>1, <2>2, <2>3 DEF Next
  <1> QED BY <1>1, <1>2, PTL DEF Spec

(* The parts of an ActiveDataPartSet never overlap, whatever is added to   *)
(* it and removed from it: addImpl refuses every part that would overlap   *)
(* one it does not contain.                                                *)
THEOREM ActivePartsAreDisjoint == Spec => []PartsDisjoint
  <1>1. Inv => PartsDisjoint
    BY DEF Inv
  <1> QED BY <1>1, InvIsInductive, PTL

(* checkIntersectingParts and addImpl report an intersection exactly when  *)
(* there is one anywhere in the set.                                       *)
THEOREM IntersectionsAreDetected == Spec => []IntersectionIsDetected
  <1>1. Inv => IntersectionIsDetected
    <2> SUFFICES ASSUME Inv, NEW p \in Universe
                 PROVE  checkIntersectingParts(part_info_to_name, p)
                        <=> \E x \in part_info_to_name : ~isDisjoint(p, x) /\ ~contains(p, x)
      BY DEF IntersectionIsDetected
    <2>0. /\ part_info_to_name \in SUBSET Parts /\ Disjoint(part_info_to_name)
          /\ p \in Parts
      BY UniverseAssumption DEF Inv, PartsDisjoint, Disjoint
    <2>1. ASSUME checkIntersectingParts(part_info_to_name, p)
          PROVE  \E x \in part_info_to_name : ~isDisjoint(p, x) /\ ~contains(p, x)
      BY <2>1 DEF checkIntersectingParts, intersectsOnTheLeft, intersectsOnTheRight,
                  LeftStop, RightStop, Before, AtOrAfter
    <2>2. ASSUME NEW x \in part_info_to_name, ~isDisjoint(p, x), ~contains(p, x)
          PROVE  checkIntersectingParts(part_info_to_name, p)
      <3>1. x \notin LeftRun(part_info_to_name, p) \cup RightRun(part_info_to_name, p)
        BY <2>0, <2>2, RunsAreContained
      <3> QED BY <2>0, <2>2, <3>1, OverlapIsSeen DEF checkIntersectingParts
    <2> QED BY <2>1, <2>2
  <1> QED BY <1>1, InvIsInductive, PTL

(* Two parts that contain a common part overlap.                           *)
LEMMA ContainersOverlap ==
    ASSUME NEW x \in Parts, NEW y \in Parts, NEW p \in Parts,
           contains(x, p), contains(y, p)
    PROVE  ~isDisjoint(x, y)
  BY PartFields DEF contains, isDisjoint

(* getContainingPartImpl, which looks at two elements of the map, finds    *)
(* the containing part exactly when the set has one.                       *)
THEOREM ContainingPartsAreFound == Spec => []ContainingPartIsFound
  <1>1. Inv => ContainingPartIsFound
    <2> SUFFICES ASSUME Inv, NEW p \in Universe
                 PROVE  getContainingPart(part_info_to_name, p)
                        = {x \in part_info_to_name : contains(x, p)}
      BY DEF ContainingPartIsFound
    <2> DEFINE S == part_info_to_name
    <2>0. S \in SUBSET Parts /\ Disjoint(S) /\ p \in Parts
      BY UniverseAssumption DEF Inv, PartsDisjoint, Disjoint
    <2> HIDE DEF S
    <2>1. \A x, y \in S : contains(x, p) /\ contains(y, p) => x = y
      BY <2>0, ContainersOverlap DEF Disjoint
    <2>2. getContainingPart(S, p) \subseteq {x \in S : contains(x, p)}
      BY DEF getContainingPart, lowerBound, predecessor, AtOrAfter, Before
    <2>3. ASSUME NEW x \in S, contains(x, p) PROVE x \in getContainingPart(S, p)
      <3>0. ~isDisjoint(p, x) /\ x.partition_id = p.partition_id
            /\ x.min_block <= p.min_block
        BY <2>0, <2>3, PartFields DEF contains, isDisjoint
      <3>1. CASE Less(x, p)
        <4>1. x \in predecessor(S, p)
          BY <2>0, <3>0, <3>1, OverlapOnTheLeft DEF predecessor, Before
        <4>2. {y \in lowerBound(S, p) : contains(y, p)} = {}
          BY <2>1, <2>3, <3>1 DEF lowerBound, AtOrAfter
        <4> QED BY <2>3, <4>1, <4>2 DEF getContainingPart
      <3>2. CASE ~Less(x, p)
        <4>1. x = p \/ Less(p, x)
          BY <2>0, <3>2, LessIsOrder
        <4>2. p.min_block = x.min_block
          BY <2>0, <3>0, <4>1, LessStarts, PartFields
        <4>3. ASSUME NEW y \in S, ~Less(y, p), Less(y, x) PROVE FALSE
          <5>1. y = p \/ Less(p, y)
            BY <2>0, <4>3, LessIsOrder
          <5>2. y.partition_id = p.partition_id /\ p.min_block <= y.min_block
            BY <2>0, <3>0, <4>3, <5>1, LessStarts, PartFields
          <5>3. y.max_block < x.min_block
            BY <2>0, <3>0, <4>3, <5>2, LessMeansLeft
          <5> QED BY <2>0, <4>2, <5>2, <5>3, PartFields
        <4>4. x \in lowerBound(S, p)
          BY <3>2, <4>3 DEF lowerBound, AtOrAfter
        <4> QED BY <2>3, <4>4 DEF getContainingPart
      <3> QED BY <3>1, <3>2
    <2> QED BY <2>2, <2>3 DEF S
  <1> QED BY <1>1, InvIsInductive, PTL

(* getPartsCoveredByImpl returns all the parts p contains, for a p that    *)
(* partially overlaps nothing.                                             *)
THEOREM CoveredPartsAreAllFound == Spec => []CoveredPartsAreFound
  <1>1. Inv => CoveredPartsAreFound
    <2> SUFFICES ASSUME Inv, NEW p \in Universe,
                        \A x \in part_info_to_name :
                            isDisjoint(p, x) \/ contains(p, x) \/ contains(x, p)
                 PROVE  getPartsCoveredBy(part_info_to_name, p)
                        = {x \in part_info_to_name : contains(p, x)}
      BY DEF CoveredPartsAreFound
    <2> DEFINE S == part_info_to_name
               Stops == LeftStop(S, p) \cup RightStop(S, p)
    <2>0. /\ S \in SUBSET Parts /\ Disjoint(S) /\ p \in Parts
          /\ \A x \in S : isDisjoint(p, x) \/ contains(p, x) \/ contains(x, p)
      BY UniverseAssumption DEF Inv, PartsDisjoint, Disjoint
    <2> HIDE DEF S
    <2>1. \A x \in Stops : x \in S /\ ~contains(p, x)
      BY DEF LeftStop, RightStop, Before, AtOrAfter
    <2>2. \A y \in S : contains(p, y) => ~isDisjoint(p, y)
      BY <2>0, PartFields DEF contains, isDisjoint
    <2>3. CASE \E x \in Stops : contains(x, p)
      <3>1. PICK x \in Stops : contains(x, p)
        BY <2>3
      <3>2. ASSUME NEW y \in S, contains(p, y) PROVE FALSE
        <4>1. ~isDisjoint(x, y)
          BY <2>0, <2>1, <3>1, <3>2, PartFields DEF contains, isDisjoint
        <4>2. x = y
          BY <2>0, <2>1, <3>1, <4>1 DEF Disjoint
        <4> QED BY <2>1, <3>1, <3>2, <4>2
      <3>3. getPartsCoveredBy(S, p) = {}
        BY <3>1 DEF getPartsCoveredBy
      <3> QED BY <3>2, <3>3 DEF S
    <2>4. CASE ~ \E x \in Stops : contains(x, p)
      <3>1. getPartsCoveredBy(S, p) = LeftRun(S, p) \cup RightRun(S, p)
        BY <2>4 DEF getPartsCoveredBy
      <3>2. ~intersectsOnTheLeft(S, p) /\ ~intersectsOnTheRight(S, p)
        BY <2>0, <2>1, <2>4 DEF intersectsOnTheLeft, intersectsOnTheRight
      <3>3. \A y \in S : contains(p, y) => y \in LeftRun(S, p) \cup RightRun(S, p)
        BY <2>0, <2>2, <3>2, OverlapIsSeen
      <3>4. \A y \in LeftRun(S, p) \cup RightRun(S, p) : y \in S /\ contains(p, y)
        BY <2>0, RunsAreContained
      <3> QED BY <3>1, <3>3, <3>4 DEF S
    <2> QED BY <2>3, <2>4
  <1> QED BY <1>1, InvIsInductive, PTL

(* Adding a part uncovers no block.                                        *)
THEOREM AddUncoversNothing == Spec => []AddKeepsCoverage
  <1>1. Inv => AddKeepsCoverage
    <2> SUFFICES ASSUME Inv, NEW p \in Universe,
                        addOutcome(part_info_to_name, p) # "HasIntersectingPart",
                        NEW x \in part_info_to_name, NEW b \in Blocks(x)
                 PROVE  Covered(addPart(part_info_to_name, p), x.partition_id, b)
      BY DEF AddKeepsCoverage
    <2> DEFINE S == part_info_to_name
    <2>0. S \in SUBSET Parts /\ p \in Parts /\ x \in S
          /\ addOutcome(S, p) # "HasIntersectingPart"
      BY UniverseAssumption DEF Inv
    <2> HIDE DEF S
    <2>1. \/ addPart(S, p) = S
          \/ addPart(S, p) = (S \ (LeftRun(S, p) \cup RightRun(S, p))) \cup {p}
      BY <2>0 DEF addPart, addOutcome
    <2>2. CASE x \in addPart(S, p)
      BY <2>2 DEF Covered, S
    <2>3. CASE x \notin addPart(S, p)
      <3>1. contains(p, x) /\ p \in addPart(S, p)
        BY <2>0, <2>1, <2>3, RunsAreContained
      <3>2. p.partition_id = x.partition_id /\ b \in Blocks(p)
        BY <2>0, <3>1, PartFields DEF contains, Blocks
      <3> QED BY <3>1, <3>2 DEF Covered, S
    <2> QED BY <2>2, <2>3
  <1> QED BY <1>1, InvIsInductive, PTL
==============================================================================
