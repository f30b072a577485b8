-------------------------- MODULE ActiveDataPartSet --------------------------
(***************************************************************************)
(* The operations of class ActiveDataPartSet (ActiveDataPartSet.{h,cpp}).  *)
(* The class keeps a std::map ordered by MergeTreePartInfo::operator<; the *)
(* map is the set S of its keys here, and an iterator position is given by *)
(* a part p: the elements before p and those at or after p (lower_bound).  *)
(* The code only ever looks at the neighbours of that position and at the  *)
(* contiguous runs of contained parts next to it; so do these definitions. *)
(***************************************************************************)
EXTENDS MergeTreePartInfo

(* lower_bound(p) is the least element of AtOrAfter; --it the greatest of  *)
(* Before.                                                                 *)
Before(S, p) == {x \in S : Less(x, p)}
AtOrAfter(S, p) == {x \in S : ~Less(x, p)}

lowerBound(S, p) ==
    {x \in AtOrAfter(S, p) : \A y \in AtOrAfter(S, p) : ~Less(y, x)}

predecessor(S, p) ==
    {x \in Before(S, p) : \A y \in Before(S, p) : ~Less(x, y)}

(* Mutated form: only lower_bound is looked at.                            *)
getContainingPart_next(S, p) == {x \in lowerBound(S, p) : contains(x, p)}

(* The part the search returns, as a set: empty for end().                 *)
getContainingPart(S, p) ==
    LET next == {x \in lowerBound(S, p) : contains(x, p)}
        prev == {x \in predecessor(S, p) : contains(x, p)}
    IN  IF next # {} THEN next ELSE prev

(* Walking left (right) from the position while p contains the element:    *)
(* the elements passed, and the element that ends the walk, if any.        *)
LeftRun(S, p) ==
    {x \in Before(S, p) : \A y \in Before(S, p) : ~Less(y, x) => contains(p, y)}

RightRun(S, p) ==
    {x \in AtOrAfter(S, p) : \A y \in AtOrAfter(S, p) : ~Less(x, y) => contains(p, y)}

LeftStop(S, p) ==
    {x \in Before(S, p) :
        ~contains(p, x) /\ \A y \in Before(S, p) : Less(x, y) => contains(p, y)}

RightStop(S, p) ==
    {x \in AtOrAfter(S, p) :
        ~contains(p, x) /\ \A y \in AtOrAfter(S, p) : Less(y, x) => contains(p, y)}

(* Mutated form: no walk to the left.                                      *)
getPartsCoveredBy_right(S, p) ==
    IF \E x \in LeftStop(S, p) \cup RightStop(S, p) : contains(x, p)
    THEN {}
    ELSE RightRun(S, p)

getPartsCoveredBy(S, p) ==
    IF \E x \in LeftStop(S, p) \cup RightStop(S, p) : contains(x, p)
    THEN {}
    ELSE LeftRun(S, p) \cup RightRun(S, p)

(* Mutated form: the element at lower_bound instead of the end of the walk. *)
intersectsOnTheRight_near(S, p) ==
    \E x \in lowerBound(S, p) : ~contains(p, x) /\ ~isDisjoint(p, x)

intersectsOnTheLeft(S, p) == \E x \in LeftStop(S, p) : ~isDisjoint(p, x)
intersectsOnTheRight(S, p) == \E x \in RightStop(S, p) : ~isDisjoint(p, x)

(* addImpl erases while it walks, so the parts it has passed are gone even *)
(* when the walk ends in HasIntersectingPart.                              *)
AddPartOutcome == {"Added", "HasCovering", "HasIntersectingPart"}

addOutcome(S, p) ==
    IF getContainingPart(S, p) # {} THEN "HasCovering"
    ELSE IF intersectsOnTheLeft(S, p) \/ intersectsOnTheRight(S, p)
         THEN "HasIntersectingPart"
         ELSE "Added"

(* Mutated forms: intersections are not refused; one part too many goes.   *)
addPart_unchecked(S, p) ==
    IF getContainingPart(S, p) # {} THEN S
    ELSE (S \ (LeftRun(S, p) \cup RightRun(S, p))) \cup {p}

addPart_overrun(S, p) ==
    IF getContainingPart(S, p) # {} THEN S
    ELSE IF intersectsOnTheLeft(S, p) \/ intersectsOnTheRight(S, p) THEN S
    ELSE (S \ (LeftRun(S, p) \cup RightRun(S, p) \cup RightStop(S, p))) \cup {p}

addPart(S, p) ==
    IF getContainingPart(S, p) # {} THEN S
    ELSE IF intersectsOnTheLeft(S, p) THEN S \ LeftRun(S, p)
    ELSE IF intersectsOnTheRight(S, p) THEN S \ (LeftRun(S, p) \cup RightRun(S, p))
    ELSE (S \ (LeftRun(S, p) \cup RightRun(S, p))) \cup {p}

remove(S, p) == S \ {p}
removePartAndCoveredParts(S, p) == S \ ({p} \cup getPartsCoveredBy(S, p))
removePartsCoveredBy(S, p) == S \ (getPartsCoveredBy(S, p) \ {p})

(* checkIntersectingParts throws exactly when this holds.                  *)
checkIntersectingParts(S, p) ==
    intersectsOnTheLeft(S, p) \/ intersectsOnTheRight(S, p)
==============================================================================
