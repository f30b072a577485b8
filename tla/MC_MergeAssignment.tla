------------------------- MODULE MC_MergeAssignment --------------------------
(***************************************************************************)
(* Instances of MergeAssignment: two assigners on one replica, a single    *)
(* one, or none.                                                           *)
(***************************************************************************)
EXTENDS MergeAssignment, TLC

CONSTANTS r1, r2, a1, a2, m1, m2, d1, d2

HomeOne == a1 :> r1 @@ a2 :> r1
HomeSingle == a1 :> r1
HomeNone == [w \in {} |-> r1]

SymmetryAssigners == Permutations({a1, a2})
SymmetryMutators == Permutations({m1, m2})
SymmetryDroppers == Permutations({d1, d2})
==============================================================================
