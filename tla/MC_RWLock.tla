------------------------------- MODULE MC_RWLock -------------------------------
(***************************************************************************)
(* Instances of RWLock.  Threads 1 and 2 belong to one query.              *)
(***************************************************************************)
EXTENDS RWLock

SharedQuery == [t \in Threads |-> IF t <= 2 THEN "q" ELSE IF t = 3 THEN "a" ELSE NO_QUERY]
================================================================================
