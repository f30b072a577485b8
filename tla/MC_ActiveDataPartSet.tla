------------------------ MODULE MC_ActiveDataPartSet -------------------------
(***************************************************************************)
(* Two partitions; in the first every range of three blocks at levels 0, 1 *)
(* and MAX_LEVEL, unmutated or mutated; in the second a few parts, so that *)
(* runs of contained parts meet the border of a partition.                 *)
(***************************************************************************)
EXTENDS ActiveDataPartSetSpec

MCUniverse ==
    {p \in {Part(1, a, b, l, m) : a \in 1 .. 3, b \in 1 .. 3,
                                  l \in {0, 1, MAX_LEVEL}, m \in {0, 5}} :
        /\ p.min_block <= p.max_block
        /\ p.level = 0 => p.min_block = p.max_block
        /\ p.level = MAX_LEVEL => p.mutation = 5}
    \cup {Part(0, 3, 3, 0, 0), Part(2, 1, 1, 0, 0), Part(2, 1, 2, 1, 0)}
==============================================================================
