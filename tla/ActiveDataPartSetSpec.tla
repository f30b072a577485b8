------------------------ MODULE ActiveDataPartSetSpec ------------------------
(***************************************************************************)
(* One ActiveDataPartSet under an arbitrary sequence of calls: add and     *)
(* tryAddPart (the same addImpl, whatever its outcome), remove,            *)
(* removePartAndCoveredParts and removePartsCoveredBy, for any part of the *)
(* constant set Universe.                                                  *)
(***************************************************************************)
EXTENDS ActiveDataPartSet

CONSTANT Universe

ASSUME UniverseAssumption == Universe \subseteq Parts

VARIABLE part_info_to_name

Init == part_info_to_name = {}

Add(p) == part_info_to_name' = addPart(part_info_to_name, p)

Remove(p) == part_info_to_name' = remove(part_info_to_name, p)

RemovePartAndCoveredParts(p) ==
    part_info_to_name' = removePartAndCoveredParts(part_info_to_name, p)

RemovePartsCoveredBy(p) ==
    part_info_to_name' = removePartsCoveredBy(part_info_to_name, p)

Next ==
    \E p \in Universe :
        \/ Add(p)
        \/ Remove(p)
        \/ RemovePartAndCoveredParts(p)
        \/ RemovePartsCoveredBy(p)

Spec == Init /\ [][Next]_part_info_to_name

-----------------------------------------------------------------------------
TypeOK == part_info_to_name \subseteq Universe

(* No two parts of the set share a block number of a partition: the        *)
(* property every reader of an active set relies on, kept by addImpl       *)
(* although it inspects only neighbours of the insertion point.            *)
PartsDisjoint ==
    \A x, y \in part_info_to_name : x = y \/ isDisjoint(x, y)

(* getContainingPartImpl looks at two elements ("A part can only be        *)
(* covered/overlapped by the previous or next one"), yet finds exactly     *)
(* what a scan of the whole set finds.                                     *)
ContainingPartIsFound ==
    \A p \in Universe :
        getContainingPart(part_info_to_name, p)
            = {x \in part_info_to_name : contains(x, p)}

(* The walks of addImpl and checkIntersectingParts stop at the first part  *)
(* that is not contained, yet report an intersection exactly when some     *)
(* part of the set overlaps p without being contained in it.               *)
IntersectionIsDetected ==
    \A p \in Universe :
        checkIntersectingParts(part_info_to_name, p)
            <=> \E x \in part_info_to_name : ~isDisjoint(p, x) /\ ~contains(p, x)

(* For a part that partially overlaps nothing, the contiguous scan of      *)
(* getPartsCoveredByImpl returns every part of the set it contains.        *)
CoveredPartsAreFound ==
    \A p \in Universe :
        (\A x \in part_info_to_name :
            isDisjoint(p, x) \/ contains(p, x) \/ contains(x, p))
        => getPartsCoveredBy(part_info_to_name, p)
            = {x \in part_info_to_name : contains(p, x)}

Covered(S, partition, b) ==
    \E x \in S : x.partition_id = partition /\ b \in Blocks(x)

(* Adding a part never uncovers a block: unless addImpl reports an         *)
(* intersection, each block covered before the call is covered after it,   *)
(* although the parts on both sides of the new one are erased.             *)
AddKeepsCoverage ==
    \A p \in Universe :
        addOutcome(part_info_to_name, p) # "HasIntersectingPart" =>
            \A x \in part_info_to_name : \A b \in Blocks(x) :
                Covered(addPart(part_info_to_name, p), x.partition_id, b)
==============================================================================
