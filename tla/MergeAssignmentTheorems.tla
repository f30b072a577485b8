----------------------- MODULE MergeAssignmentTheorems -----------------------
(***************************************************************************)
(* The safety properties of MergeAssignment that follow from what its log  *)
(* is.  The assumption of all but the first, that inserts lock their block *)
(* numbers with the content a DROP PARTITION cancels, is needed: run       *)
(* drop_unlocked shows what happens without it.                            *)
(***************************************************************************)
EXTENDS MergeAssignmentProofs, InsertSafetyProofs, ReplicatedLogSteps

LEMMA InsertsAreSafe == Spec => []IInv
  <1>1. Init => IInv
    BY Zenon, InitType, InitSafe DEF IInv
  <1>2. IInv /\ [Next]_vars => IInv'
    BY Zenon, TypeStep, MergedRangeIsClear, StepSafe DEF IInv
  <1> QED BY <1>1, <1>2, PTL DEF Spec

(* Whatever the replicas, assigners, mutations and drops do, no entry of   *)
(* the log other than a DROP_RANGE covers the number of an insert that can *)
(* still commit.                                                           *)
THEOREM InsertsAreNeverSwallowed == Spec => []NoInsertIsSwallowed
  <1>1. InFlight \subseteq locks
    BY Zenon DEF InFlight
  <1>2. IInv => NoInsertIsSwallowed
    BY Zenon, <1>1 DEF IInv, SwallowInv, LogSafe, SafeEntry, Clear, NoInsertIsSwallowed
  <1> QED BY <1>2, InsertsAreSafe, PTL

LEMMA LogIsSound ==
    ASSUME LockContents \subseteq {"insert"}
    PROVE  Spec => [](Base /\ LogInv /\ AgreeInv)
  <1>1. Init => Base /\ LogInv /\ AgreeInv
    BY Zenon, InitType, InitSafe, OrderInit, LoadedInit, OwnersInit, DropsInit, ViewsInit,
       LogInit DEF Base, IInv
  <1>2. Base /\ [Next]_vars => Base'
    <2> SUFFICES ASSUME Base, [Next]_vars PROVE Base'
      BY Zenon
    <2>1. IInv'
      BY Zenon, TypeStep, MergedRangeIsClear, StepSafe DEF Base, IInv
    <2>2. NoRangeChosen
      BY Zenon DEF Base, IInv, SwallowInv, PredicatesSafe, SafePredicate, NoRangeChosen
    <2>3. DropsInv'
      BY Zenon, <2>2, DropsStep DEF Base, IInv
    <2>4. OrderInv' /\ LoadedInv' /\ Owners' /\ ViewsInv'
      BY Zenon, OrderStep, LoadedStep, OwnersStep, ViewsStep DEF Base, IInv
    <2> QED BY Zenon, <2>1, <2>3, <2>4 DEF Base
  <1> QED BY <1>1, <1>2, LogStep, PTL DEF Spec

(* virtual_parts.add never throws "intersects part": every entry of the    *)
(* log fits what a replica has when it comes to it, although merges,       *)
(* mutations and drops are assigned by several replicas that have read     *)
(* different prefixes of the log.                                          *)
THEOREM NoEntryIntersects ==
    ASSUME LockContents \subseteq {"insert"}
    PROVE  Spec => []NoIntersectingParts
  <1>1. Base /\ LogInv /\ AgreeInv => NoIntersectingParts
    BY Zenon, NextEntry DEF NoIntersectingParts
  <1> QED BY <1>1, LogIsSound, PTL

(* Replicas that have read the same prefix of the log have the same parts, *)
(* whatever they executed and whenever they pulled.                        *)
THEOREM ReplicasFollowTheLog ==
    ASSUME LockContents \subseteq {"insert"}
    PROVE  Spec => []ReplicasAgree
  <1>1. Base /\ LogInv /\ AgreeInv => ReplicasAgree
    <2>1. ASSUME LogInv, NEW r \in Replicas
          PROVE  mergeable(r) = AliveIn(log, log_pointer[r])
      BY Zenon, <2>1 DEF LogInv, QueueOK, Reflects, mergeable
    <2> QED BY Zenon, <2>1 DEF ReplicasAgree
  <1> QED BY <1>1, LogIsSound, PTL

(* The version of /log that createLogEntryToMergeParts checks makes the    *)
(* assigners exclude each other: no part is merged, mutated or dropped by  *)
(* two entries.                                                            *)
THEOREM PartsAreTakenOnce ==
    ASSUME LockContents \subseteq {"insert"}
    PROVE  Spec => []EachPartIsTakenOnce
  <1>1. Base /\ LogInv /\ AgreeInv => EachPartIsTakenOnce
    <2> SUFFICES ASSUME Base, LogInv PROVE EachPartIsTakenOnce
      BY Zenon
    <2>1. log \in Seq(LogEntries) /\ LogOK(log)
      BY Zenon, BaseFacts DEF LogInv
    <2>2. \A i, j \in 1 .. Len(log) : i < j => Consumed(i) \cap Consumed(j) = {}
      BY Zenon, <2>1, TakenOnce DEF Consumed, Takes
    <2>3. \A i, j \in 1 .. Len(log) : i # j => i < j \/ j < i
      OBVIOUS
    <2> QED BY Zenon, <2>2, <2>3 DEF EachPartIsTakenOnce
  <1> QED BY <1>1, LogIsSound, PTL

(* DROP PARTITION first waits for the inserts it may cancel and then locks *)
(* the merges out with the version of /log: a dropped range splits no part *)
(* that an earlier entry makes, and no later entry makes a part that       *)
(* overlaps it.                                                            *)
THEOREM DroppedRangesAreIsolated ==
    ASSUME LockContents \subseteq {"insert"}
    PROVE  Spec => []DropRangeIsolation
  <1>1. Base /\ LogInv /\ AgreeInv => DropRangeIsolation
    <2> SUFFICES ASSUME Base, LogInv PROVE DropRangeIsolation
      BY Zenon
    <2>1. log \in Seq(LogEntries) /\ LogOK(log)
      BY Zenon, BaseFacts DEF LogInv
    <2>2. \A i \in Produces : i \in 1 .. Len(log) /\ log[i].type \in Producing
      BY Zenon DEF Produces, Indices, Producing
    <2>3. \A k \in Indices("DROP_RANGE") : k \in 1 .. Len(log) /\ log[k].type = "DROP_RANGE"
      BY Zenon DEF Indices
    <2> QED BY Zenon, <2>1, <2>2, <2>3, RangesIsolate DEF DropRangeIsolation
  <1> QED BY <1>1, LogIsSound, PTL

(* A merge leaves no committed block of its range behind, unless it has    *)
(* been dropped before.                                                    *)
THEOREM MergesKeepTheirBlocks ==
    ASSUME LockContents \subseteq {"insert"}
    PROVE  Spec => []MergeKeepsBlocks
  <1>1. Base /\ LogInv /\ AgreeInv => MergeKeepsBlocks
    <2> SUFFICES ASSUME Base, LogInv PROVE MergeKeepsBlocks
      BY Zenon
    <2>1. log \in Seq(LogEntries) /\ LogOK(log)
      BY Zenon, BaseFacts DEF LogInv
    <2>2. \A t : \A k \in Indices(t) : k \in 1 .. Len(log) /\ log[k].type = t
      BY Zenon DEF Indices
    <2> QED BY Zenon, <2>1, <2>2, KeepsBlocks DEF MergeKeepsBlocks
  <1> QED BY <1>1, LogIsSound, PTL

(* canMergeTwoParts: every mutation, those that start after the merge was  *)
(* assigned included, is applied to all sources of a merge and to its      *)
(* result or to none of them.                                              *)
THEOREM MergedPartsAgree ==
    ASSUME LockContents \subseteq {"insert"}
    PROVE  Spec => []MergeSourcesAgreeOnMutations
  <1>1. Base /\ LogInv /\ AgreeInv => MergeSourcesAgreeOnMutations
    BY Zenon DEF AgreeInv, Consistent, Agree, Known, Indices, MergeSourcesAgreeOnMutations
  <1> QED BY <1>1, LogIsSound, PTL
==============================================================================
