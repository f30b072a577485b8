------------------------------ MODULE SinkProofs ------------------------------
(***************************************************************************)
(* commitPart implements the promise of INSERT, keeps what it has          *)
(* committed and shows nothing it may have to take back: for any number of *)
(* replicas, inserts, rows, retries and faults.                            *)
(***************************************************************************)
EXTENDS SinkInvariant, TLAPS

-----------------------------------------------------------------------------
(* What the operators on the locals of commitPart do.                      *)

Records == [stage : Stages, rows : SUBSET Ids, number : 0 .. NoNumber,
            failures : 0 .. MaxRetries, verify_failures : 0 .. MaxRetries,
            epoch : 0 .. MaxEvents]

SinkType == sink \in [Inserts -> Records] /\ answer \in [Inserts -> Answers]

(* The locals and the answer of every other insert stay what they are.     *)
OthersStay(i) ==
    \A j \in Inserts : j # i => sink'[j] = sink[j] /\ answer'[j] = answer[j]

Becomes(i, stage, rows, number) ==
    /\ sink'[i].stage = stage
    /\ sink'[i].rows = rows
    /\ sink'[i].number = number
    /\ answer'[i] = answer[i]

Ends(i, a) ==
    /\ sink'[i].stage = "done"
    /\ answer' = [answer EXCEPT ![i] = a]

LEMMA Bounds == MaxRetries \in Nat /\ MaxBlocks \in Nat /\ MaxEvents \in Nat
  BY Zenon, SinkAssumption

LEMMA Zeros == 0 \in 0 .. MaxRetries /\ 0 \in 0 .. MaxEvents /\ NoNumber \in 0 .. NoNumber
  BY Bounds DEF NoNumber

LEMMA RetriedRecord ==
    ASSUME NEW s \in Records, NEW f \in 0 .. MaxRetries, NEW stage \in Stages,
           NEW n \in 0 .. NoNumber, NEW e \in 0 .. MaxEvents
    PROVE  [s EXCEPT !.failures = f, !.stage = stage, !.number = n, !.epoch = e] \in Records
  BY Zenon DEF Records

LEMMA FilteredRecord ==
    ASSUME NEW s \in Records, NEW S \in SUBSET Ids, NEW stage \in Stages,
           NEW f \in 0 .. MaxRetries
    PROVE  [s EXCEPT !.rows = S, !.failures = f, !.stage = stage] \in Records
  BY Zenon DEF Records

LEMMA SwitchEffect ==
    ASSUME SinkType, NEW i \in Inserts, NEW stage \in Stages, Switch(i, stage)
    PROVE  /\ SinkType' /\ OthersStay(i)
           /\ Becomes(i, stage, sink[i].rows, sink[i].number)
           /\ sink'[i].epoch = sink[i].epoch
  <1>1. [sink[i] EXCEPT !.stage = stage] \in Records
    BY Zenon DEF SinkType, Records
  <1>2. sink' = [sink EXCEPT ![i] = [sink[i] EXCEPT !.stage = stage]]
    BY Zenon DEF Switch, SinkType
  <1> QED
    BY Zenon, <1>1, <1>2 DEF Switch, SinkType, Records, OthersStay, Becomes

LEMMA FinishEffect ==
    ASSUME SinkType, NEW i \in Inserts, NEW a \in Answers, Finish(i, a)
    PROVE  SinkType' /\ OthersStay(i) /\ Ends(i, a)
  <1>1. Ended \in Records /\ Ended.stage = "done"
    BY Bounds DEF Ended, Records, Stages, NoNumber
  <1> QED
    BY Zenon, <1>1 DEF Finish, SinkType, OthersStay, Ends

LEMMA RetryEffect ==
    ASSUME SinkType, NEW i \in Inserts, NEW stage \in Stages, Retry(i, stage)
    PROVE  /\ SinkType' /\ OthersStay(i)
           /\ \/ Becomes(i, stage, sink[i].rows, NoNumber) /\ answer' = answer
              \/ Ends(i, "error")
  <1>1. CASE Finish(i, "error")
    BY Zenon, <1>1, FinishEffect DEF Answers
  <1>2. CASE ~Finish(i, "error")
    <2> DEFINE new == [sink[i] EXCEPT !.failures = sink[i].failures + 1, !.stage = stage,
                                      !.number = NoNumber, !.epoch = 0]
    <2>1. sink[i] \in Records /\ sink[i].failures + 1 \in 0 .. MaxRetries
      BY <1>2, Bounds DEF SinkType, Records, Retry
    <2>2. new \in Records
      BY Zenon, <2>1, RetriedRecord, Zeros
    <2>4. new.rows = sink[i].rows /\ new.number = NoNumber /\ new.stage = stage
      BY Zenon, <2>1 DEF Records
    <2>3. sink' = [sink EXCEPT ![i] = new] /\ answer' = answer
      BY Zenon, <1>2 DEF Retry, SinkType
    <2> HIDE DEF new
    <2> QED
      BY Zenon, <2>2, <2>3, <2>4 DEF SinkType, OthersStay, Becomes
  <1> QED BY Zenon, <1>1, <1>2

LEMMA VerifyEffect ==
    ASSUME SinkType, NEW i \in Inserts, Verify(i)
    PROVE  /\ SinkType' /\ OthersStay(i)
           /\ Becomes(i, "verify", sink[i].rows, sink[i].number) /\ answer' = answer
  <1> DEFINE new == [sink[i] EXCEPT !.stage = "verify", !.verify_failures = sink[i].failures]
  <1>1. new \in Records /\ new.rows = sink[i].rows /\ new.number = sink[i].number
           /\ new.stage = "verify"
    BY Zenon DEF SinkType, Records, Stages
  <1>2. sink' = [sink EXCEPT ![i] = new] /\ answer' = answer
    BY Zenon DEF Verify, SinkType
  <1> HIDE DEF new
  <1> QED
    BY Zenon, <1>1, <1>2 DEF SinkType, OthersStay, Becomes

LEMMA FilterEffect ==
    ASSUME SinkType, NEW i \in Inserts, NEW C, filterBlockDuplicate(i, C)
    PROVE  /\ SinkType' /\ OthersStay(i)
           /\ \/ sink[i].rows \subseteq C /\ Ends(i, "ok")
              \/ /\ ~(sink[i].rows \subseteq C) /\ answer' = answer
                 /\ Becomes(i, "lock", sink[i].rows \ C, sink[i].number)
  <1>1. CASE sink[i].rows \subseteq C
    BY Zenon, <1>1, FinishEffect DEF filterBlockDuplicate, Answers
  <1>2. CASE ~(sink[i].rows \subseteq C)
    <2> DEFINE new == [sink[i] EXCEPT !.rows = sink[i].rows \ C, !.failures = 0, !.stage = "lock"]
    <2>0. sink[i] \in Records /\ sink[i].rows \ C \in SUBSET Ids /\ "lock" \in Stages
      BY Zenon DEF SinkType, Records, Stages
    <2>1. new \in Records
      BY Zenon, <2>0, FilteredRecord, Zeros
    <2>3. new.rows = sink[i].rows \ C /\ new.number = sink[i].number /\ new.stage = "lock"
      BY Zenon DEF SinkType, Records
    <2>2. sink' = [sink EXCEPT ![i] = new] /\ answer' = answer
      BY Zenon, <1>2 DEF filterBlockDuplicate, SinkType
    <2> HIDE DEF new
    <2> QED
      BY Zenon, <1>2, <2>1, <2>2, <2>3 DEF SinkType, OthersStay, Becomes
  <1> QED BY Zenon, <1>1, <1>2

-----------------------------------------------------------------------------
(* A step of insert i, and what it leaves alone: the other inserts, their  *)
(* parts, and every part that was written before.                          *)

OnlyOwnPart(i) ==
    /\ UNCHANGED query
    /\ next_block' \in {next_block, next_block + 1}
    /\ \A n \in 0 .. next_block - 1 : part'[n] = part[n]
    /\ \/ log' = log /\ part_nodes' = part_nodes
       \/ /\ At(i, "multi")
          /\ log' = log \cup {sink[i].number}
          /\ part_nodes' = part_nodes \cup {sink[i].number}
    /\ \A n \in 0 .. next_block - 1 :
          \/ InFlight(i) /\ n = sink[i].number
          \/ local'[n] = local[n] /\ (n \in check_queue' <=> n \in check_queue)

LEMMA Typed ==
    ASSUME TypeInv
    PROVE  /\ SinkType
           /\ home \in [Inserts -> Replicas] /\ request \in [Inserts -> Requests]
           /\ next_block \in Nat /\ next_block <= MaxBlocks
           /\ log \subseteq 0 .. next_block - 1 /\ log \subseteq Numbers
           /\ part_nodes \subseteq log
           /\ \A i \in Inserts : sink[i].number \in Nat /\ sink[i].rows \subseteq Ids
  <1>1. SinkType
    BY Zenon DEF TypeInv, TypeOK, SinkType, Records
  <1>2. request \in [Inserts -> Requests]
    BY Zenon, SinkAssumption DEF TypeInv, TypeOK
  <1>3. \A i \in Inserts : sink[i].number \in Nat /\ sink[i].rows \subseteq Ids
    BY <1>1, Bounds DEF SinkType, Records, NoNumber
  <1> QED
    BY <1>1, <1>2, <1>3, Bounds DEF TypeInv, TypeOK, Numbers

LEMMA TableGrows ==
    ASSUME TypeInv, NEW i \in Inserts, OnlyOwnPart(i), NEW id, InTable(id)
    PROVE  InTable(id)'
  BY Zenon, Typed DEF OnlyOwnPart, InTable

LEMMA OthersKeep ==
    ASSUME IInv, NEW i \in Inserts, OthersStay(i), OnlyOwnPart(i),
           NEW j \in Inserts, j # i
    PROVE  OwnPart(j)' /\ CommitsOnce(j)' /\ RowsLeft(j)'
  <1>0. TypeInv /\ OwnPart(i) /\ OwnPart(j) /\ CommitsOnce(j) /\ RowsLeft(j)
    BY Zenon DEF IInv
  <1>1. sink'[j] = sink[j] /\ answer'[j] = answer[j] /\ request' = request
    BY Zenon DEF OthersStay, OnlyOwnPart, query
  <1>2. OwnPart(j)'
    <2>1. InFlight(j) /\ InFlight(i) => sink[j].number # sink[i].number
      BY <1>0 DEF OwnPart
    <2> QED
      BY <1>0, <1>1, <2>1, Typed DEF OwnPart, OnlyOwnPart, InFlight
  <1>3. CommitsOnce(j)'
    <2>1. At(i, "multi") => part'[sink[i].number].insert = i
      BY <1>0, Typed DEF OwnPart, InFlight, At, OnlyOwnPart
    <2>2. \A k \in log' : part'[k].insert = j => k \in log /\ part[k].insert = j
      BY Zenon, <1>0, <2>1, Typed DEF OnlyOwnPart
    <2>3. part_nodes \subseteq part_nodes'
      BY Zenon DEF OnlyOwnPart
    <2>4. sink[j].number \in log' /\ At(j, "verify") => sink[j].number \in log
      BY <1>0, <2>1, Typed DEF OnlyOwnPart, OwnPart, InFlight, At
    <2> QED
      BY Zenon, <1>0, <1>1, <2>2, <2>3, <2>4 DEF CommitsOnce, At
  <1>4. RowsLeft(j)'
    BY Zenon, <1>0, <1>1, TableGrows DEF RowsLeft, At
  <1> QED BY Zenon, <1>2, <1>3, <1>4

LEMMA EndsKeeps ==
    ASSUME NEW i \in Inserts, NEW a, Ends(i, a)
    PROVE  OwnPart(i)' /\ CommitsOnce(i)' /\ RowsLeft(i)' /\ sink'[i].stage # "multi"
  BY Zenon DEF Ends, OwnPart, InFlight, CommitsOnce, RowsLeft, At

(* Sessions, when none begins or ends.                                     *)
LEMMA QuietSessions ==
    ASSUME IInv, NEW i \in Inserts, ~At(i, "done"), OthersStay(i),
           UNCHANGED <<home, session, epoch, events, orphans>>,
           sink'[i].stage # "multi"
    PROVE  SessionInv'
  <1>1. \A j \in Inserts : j # i => sink'[j] = sink[j]
    BY Zenon DEF OthersStay
  <1>2. SessionInv
    BY Zenon DEF IInv
  <1> QED
    BY Zenon, <1>1, <1>2 DEF SessionInv, At

(* What a step of an insert that is not yet committed, or no longer, does  *)
(* to its part: nothing, a rollback, or a commit.                          *)
PartEffect(i) ==
    LET n == sink[i].number IN
    \/ UNCHANGED <<local, check_queue>>
    \/ /\ InFlight(i) /\ Rollback(i) /\ UNCHANGED check_queue
       /\ n \notin part_nodes \/ Ends(i, "cancelled")
    \/ /\ InFlight(i) /\ local' = [local EXCEPT ![n] = "Active"]
       /\ \/ n \in part_nodes /\ UNCHANGED check_queue
          \/ check_queue' = check_queue \cup {n}

LEMMA InsertStep ==
    ASSUME IInv, NEW i \in Inserts, ~At(i, "done"), SinkType', OthersStay(i), PartEffect(i),
           UNCHANGED <<query, next_block, orphans, blocks, log, part_nodes, part,
                       cache, sessions, drop, events>>,
           cache_due' \in [Replicas -> BOOLEAN],
           locks' \subseteq locks, orphans \subseteq locks',
           sink'[i].stage # "multi",
           OwnPart(i)', CommitsOnce(i)', RowsLeft(i)'
    PROVE  IInv'
  <1> DEFINE n == sink[i].number
  <1>0. TypeInv /\ OwnPart(i) /\ RowsLeft(i)
    BY Zenon DEF IInv
  <1>1. InFlight(i) => n \in Numbers /\ n < next_block /\ part[n].insert = i
    BY <1>0, Typed, Bounds DEF OwnPart, Numbers
  <1>2. /\ local' \in [Numbers -> {"none", "PreActive", "Active"}]
        /\ check_queue' \subseteq Numbers
    <2>1. /\ local \in [Numbers -> {"none", "PreActive", "Active"}]
          /\ check_queue \subseteq Numbers
      BY Zenon, <1>0 DEF TypeInv, TypeOK
    <2> QED BY Zenon, <1>1, <2>1 DEF PartEffect, Rollback
  <1>3. TypeInv'
    BY Zenon, <1>0, <1>2 DEF TypeInv, TypeOK, SinkType, Records, query, sessions
  <1>4. SessionInv'
    BY Zenon, QuietSessions DEF query, sessions
  <1>8. \A k \in Numbers : \/ local'[k] = local[k]
                           \/ k = n /\ InFlight(i)
    BY Zenon, <1>0 DEF PartEffect, Rollback, TypeInv, TypeOK
  <1>5. OnlyOwnPart(i)
    <2>1. \A k \in 0 .. next_block - 1 : k \in Numbers
      BY <1>0, Typed, Bounds DEF Numbers
    <2>2. \A k \in Numbers : k # n => (k \in check_queue' <=> k \in check_queue)
      BY Zenon DEF PartEffect
    <2>3. \A k \in Numbers : InFlight(i) \/ (k \in check_queue' <=> k \in check_queue)
      BY Zenon DEF PartEffect
    <2>4. UNCHANGED query /\ next_block' = next_block /\ part' = part /\ log' = log
             /\ part_nodes' = part_nodes
      BY Zenon
    <2>5. \A k \in 0 .. next_block - 1 :
             \/ InFlight(i) /\ k = n
             \/ local'[k] = local[k] /\ (k \in check_queue' <=> k \in check_queue)
      BY Zenon, <1>8, <2>1, <2>2, <2>3
    <2> QED BY Zenon, <2>4, <2>5 DEF OnlyOwnPart
  <1>6. \A j \in Inserts : OwnPart(j)' /\ CommitsOnce(j)' /\ RowsLeft(j)'
    BY Zenon, <1>5, OthersKeep
  <1>7. Remembered'
    BY Zenon, <1>0 DEF IInv, Remembered, InTable
  <1>9. LocalParts'
    <2>1. LocalParts /\ next_block \in Nat /\ n \in Nat
      BY Zenon, <1>0, Typed DEF IInv
    <2>2. \A k \in check_queue' : k \in check_queue \/ (k = n /\ InFlight(i))
      BY Zenon DEF PartEffect
    <2>3. \A k \in check_queue' : k \in 0 .. next_block - 1
      <3>1. \A k \in check_queue : k \in 0 .. next_block - 1
        BY Zenon, <2>1 DEF LocalParts
      <3>2. InFlight(i) => n \in 0 .. next_block - 1
        BY <1>1, <2>1
      <3> QED BY Zenon, <2>2, <3>1, <3>2
    <2>4. \A k \in Numbers : local'[k] # "none" => k < next_block /\ part[k].insert \in Inserts
      BY Zenon, <1>1, <1>8, <2>1 DEF LocalParts
    <2> QED BY Zenon, <2>3, <2>4 DEF LocalParts
  <1>10. CommittedPartIsKeptUnlessKilled'
    <2>1. CommittedPartIsKeptUnlessKilled /\ part_nodes \subseteq Numbers
      BY Zenon, <1>0, Typed DEF IInv
    <2>2. InFlight(i) /\ n \in part_nodes => local'[n] # "none" \/ answer'[i] = "cancelled"
      <3>1. InFlight(i) => local[n] = "PreActive"
        BY Zenon, <1>0 DEF OwnPart
      <3>2. Ends(i, "cancelled") => answer'[i] = "cancelled"
        BY Zenon, <1>0 DEF Ends, TypeInv, TypeOK
      <3>3. CASE UNCHANGED <<local, check_queue>>
        BY Zenon, <3>1, <3>3
      <3>4. CASE ~UNCHANGED <<local, check_queue>>
        BY Zenon, <1>0, <1>1, <3>2, <3>4 DEF PartEffect, TypeInv, TypeOK
      <3> QED BY Zenon, <3>3, <3>4
    <2>3. \A j \in Inserts : answer[j] = "cancelled" => answer'[j] = "cancelled"
      BY Zenon, <1>0 DEF RowsLeft, OthersStay
    <2>4. \A k \in part_nodes : part[k].insert \in Inserts
      BY Zenon, <1>0, Typed DEF TypeInv, TypeOK
    <2> QED BY Zenon, <1>1, <1>8, <2>1, <2>2, <2>3, <2>4 DEF CommittedPartIsKeptUnlessKilled
  <1>11. VisiblePartIsCommittedOrChecked'
    <2>1. VisiblePartIsCommittedOrChecked /\ check_queue \subseteq check_queue'
      BY Zenon DEF IInv, PartEffect
    <2>2. InFlight(i) /\ local'[n] = "Active" => n \in part_nodes \cup check_queue'
      <3>1. InFlight(i) => local[n] = "PreActive"
        BY <1>0 DEF OwnPart
      <3> QED BY Zenon, <1>0, <1>1, <3>1 DEF PartEffect, Rollback, TypeInv, TypeOK
    <2> QED BY Zenon, <1>8, <2>1, <2>2 DEF VisiblePartIsCommittedOrChecked, query, sessions
  <1> QED BY Zenon, <1>3, <1>4, <1>6, <1>7, <1>9, <1>10, <1>11 DEF IInv

-----------------------------------------------------------------------------
(* Steps of the promise.                                                   *)

PromiseStep == Promised!Next \/ UNCHANGED Promised!vars

LEMMA PromiseStutters ==
    ASSUME UNCHANGED <<query, log, part, blocks, answer>>
    PROVE  PromiseStep
  BY Zenon DEF PromiseStep, Promised!vars, query

(* An insert without deduplication writes its only row itself.             *)
LEMMA RequestShape ==
    ASSUME TypeInv, NEW i \in Inserts
    PROVE  /\ request[i].async => request[i].rows # {} /\ request[i].rows \subseteq Dedup
           /\ ~request[i].async => \E id \in Ids : request[i].rows = {id}
  BY Zenon, SinkAssumption DEF TypeInv, TypeOK

LEMMA PromiseReplies ==
    ASSUME IInv, NEW i \in Inserts, ~At(i, "done"), NEW a \in Answers \ {"none"}, Ends(i, a),
           UNCHANGED <<query, log, part, blocks>>,
           a = "ok" => \A id \in request[i].rows :
                          \E n \in log : id \in part[n].rows /\ (id \notin Dedup => part[n].insert = i),
           a = "error" => \A n \in log : part[n].insert # i
    PROVE  PromiseStep
  <1>1. answer[i] = "none"
    BY Zenon DEF IInv, RowsLeft
  <1>2. Promised!Promise(i, a)
    <2>1. ASSUME a = "ok", NEW id \in request[i].rows
          PROVE  Promised!IsInTable(i, id)
      <3>1. PICK n \in log : id \in part[n].rows /\ (id \notin Dedup => part[n].insert = i)
        BY Zenon, <2>1
      <3> DEFINE w == [name |-> n, insert |-> part[n].insert, rows |-> part[n].rows]
      <3>2. w.rows = part[n].rows /\ w.insert = part[n].insert
        BY Zenon
      <3> QED BY Zenon, <3>1, <3>2 DEF Promised!IsInTable
    <2>2. a = "error" => Promised!WrittenBy(i) = {}
      BY DEF Promised!WrittenBy
    <2>3. [j \in Inserts |-> request[j].rows][i] = request[i].rows
      BY Zenon
    <2> QED BY Zenon, <2>1, <2>2, <2>3 DEF Promised!Promise
  <1>3. Promised!Reply(i, a)
    BY Zenon, <1>1, <1>2 DEF Promised!Reply, Ends, query
  <1>4. a \in Promised!Answers
    BY Zenon DEF Answers, Promised!Answers
  <1> QED BY Zenon, <1>3, <1>4 DEF PromiseStep, Promised!Next

-----------------------------------------------------------------------------
(* The steps of an insert.                                                 *)

NothingCommitted(i) == \A n \in log : part[n].insert # i

LEMMA Uncommitted ==
    ASSUME IInv, NEW i \in Inserts, ~At(i, "done"), NothingCommitted(i),
           UNCHANGED <<query, log, part, part_nodes>>,
           NEW stage \in {"lock", "duplicate"}, NEW rows, NEW number,
           Becomes(i, stage, rows, number),
           rows # {}, rows \subseteq sink[i].rows,
           ~request[i].async => rows = sink[i].rows,
           stage = "duplicate" => ~request[i].async,
           \A id \in sink[i].rows \ rows : InTable(id)
    PROVE  OwnPart(i)' /\ CommitsOnce(i)' /\ RowsLeft(i)' /\ sink'[i].stage # "multi"
  <1>0. RowsLeft(i)
    BY Zenon DEF IInv
  <1>1. sink'[i].stage = stage /\ sink'[i].rows = rows /\ answer'[i] = answer[i]
    BY Zenon DEF Becomes
  <1>2. OwnPart(i)' /\ sink'[i].stage # "multi"
    BY Zenon, <1>1 DEF OwnPart, InFlight
  <1>3. CommitsOnce(i)'
    BY Zenon, <1>1 DEF CommitsOnce, NothingCommitted, At
  <1>4. RowsLeft(i)'
    BY Zenon, <1>0, <1>1 DEF RowsLeft, InTable, At, query
  <1> QED BY Zenon, <1>2, <1>3, <1>4

LEMMA BeforeCommit ==
    ASSUME IInv, NEW i \in Inserts, sink[i].stage \in {"lock", "duplicate", "multi"}
    PROVE  NothingCommitted(i) /\ ~At(i, "done")
  BY Zenon DEF IInv, CommitsOnce, NothingCommitted, At

LEMMA CacheDueType ==
    ASSUME TypeInv
    PROVE  cache_due \in [Replicas -> BOOLEAN] /\ orphans \subseteq locks
  BY Zenon DEF TypeInv, TypeOK

(* The lock of a connected insert belongs to a live session.               *)
LEMMA LockIsOwned ==
    ASSUME IInv, NEW i \in Inserts, At(i, "multi"), Connected(i)
    PROVE  sink[i].number \notin orphans
  <1>1. SessionInv /\ TypeInv
    BY Zenon DEF IInv
  <1>2. epoch[home[i]] \in Nat /\ session[home[i]] = "up" /\ sink[i].epoch = epoch[home[i]]
    BY <1>1, Typed DEF TypeInv, TypeOK, Connected, Up
  <1> QED BY <1>1, <1>2 DEF SessionInv

(* When a session ends, the locks that are left behind are its own.        *)
LEMMA SessionEnds ==
    ASSUME IInv, NEW r \in Replicas, NEW L, LoseSession(r, L),
           L \subseteq NumbersOf(r) \cup {next_block}, UNCHANGED home,
           \A j \in Inserts : \/ sink'[j] = sink[j]
                              \/ sink'[j].stage # "multi" /\ sink[j].stage # "done"
    PROVE  /\ SessionInv'
           /\ session' \in [Replicas -> {"up", "lost", "crashed"}]
           /\ events' \in 0 .. MaxEvents
           /\ \A q \in Replicas : session'[q] = "crashed" <=> session[q] = "crashed"
  <1>0. TypeInv /\ SessionInv
    BY Zenon DEF IInv
  <1>1. /\ session[r] = "up" /\ session' = [session EXCEPT ![r] = "lost"]
        /\ events < MaxEvents /\ events' = events + 1
        /\ orphans' = orphans \cup L /\ epoch' = epoch
    BY Zenon DEF LoseSession, Event
  <1>2. /\ session \in [Replicas -> {"up", "lost", "crashed"}]
        /\ epoch \in [Replicas -> 0 .. MaxEvents]
        /\ events \in 0 .. MaxEvents
    BY Zenon, <1>0 DEF TypeInv, TypeOK
  <1>3. session'[r] = "lost" /\ \A q \in Replicas : q # r => session'[q] = session[q]
    BY Zenon, <1>1, <1>2
  <1>4. \A j \in Inserts : At(j, "multi") /\ sink[j].number \in L => home[j] = r
    <2>1. ASSUME NEW j \in Inserts, At(j, "multi"), sink[j].number \in L
          PROVE  home[j] = r
      <3>1. part[sink[j].number] = [rows |-> sink[j].rows, insert |-> j]
               /\ sink[j].number < next_block
        BY Zenon, <2>1 DEF IInv, OwnPart, InFlight, At
      <3>2. sink[j].number \in NumbersOf(r)
        BY <1>0, <2>1, <3>1, Typed
      <3> QED BY <3>1, <3>2 DEF NumbersOf
    <2> QED BY Zenon, <2>1
  <1>5. \A q \in Replicas : epoch'[q] <= events' /\ (session'[q] = "lost" => epoch'[q] < events')
    BY <1>0, <1>1, <1>2, Bounds DEF SessionInv
  <1>6. ASSUME NEW j \in Inserts
        PROVE  /\ At(j, "multi")' => sink'[j].epoch <= epoch'[home'[j]]
               /\ At(j, "multi")' /\ sink'[j].number \in orphans' =>
                     session'[home'[j]] = "lost" \/ sink'[j].epoch < epoch'[home'[j]]
               /\ session'[home'[j]] = "crashed" => At(j, "done")'
    <2>1. home[j] \in Replicas
      BY Zenon, <1>0, Typed
    <2>2. CASE sink'[j] = sink[j]
      BY Zenon, <1>0, <1>1, <1>3, <1>4, <2>1, <2>2 DEF SessionInv, At
    <2>3. CASE sink'[j].stage # "multi" /\ sink[j].stage # "done"
      BY Zenon, <1>0, <1>1, <1>3, <2>1, <2>3 DEF SessionInv, At
    <2> QED BY Zenon, <2>2, <2>3
  <1> QED BY <1>1, <1>2, <1>3, <1>5, <1>6, Bounds DEF SessionInv

-----------------------------------------------------------------------------
(* Steps of everyone else.                                                 *)

(* They may touch the parts of inserts that are over, not those in flight. *)
LEMMA InsertsStay ==
    ASSUME IInv, UNCHANGED <<query, thread, log, part>>,
           next_block' \in {next_block, next_block + 1},
           \A i \in Inserts : InFlight(i) =>
              LET n == sink[i].number
              IN  /\ local'[n] = local[n] /\ (n \in check_queue' => n \in check_queue)
                  /\ n \in part_nodes => n \in part_nodes'
    PROVE  \A i \in Inserts : OwnPart(i)' /\ CommitsOnce(i)' /\ RowsLeft(i)'
  <1>1. ASSUME NEW i \in Inserts
        PROVE  OwnPart(i)' /\ CommitsOnce(i)' /\ RowsLeft(i)'
    <2>0. OwnPart(i) /\ CommitsOnce(i) /\ RowsLeft(i) /\ TypeInv
      BY Zenon DEF IInv
    <2>1. sink' = sink /\ answer' = answer /\ request' = request
      BY Zenon DEF thread, query
    <2>2. OwnPart(i)'
      BY <2>0, <2>1, Typed DEF OwnPart, InFlight
    <2>3. CommitsOnce(i)'
      BY Zenon, <2>0, <2>1 DEF CommitsOnce, InFlight, At
    <2>4. RowsLeft(i)'
      BY Zenon, <2>0, <2>1 DEF RowsLeft, InTable, At
    <2> QED BY Zenon, <2>2, <2>3, <2>4
  <1> QED BY Zenon, <1>1

(* ... and most of them touch no part at all.                              *)
PartsStay == UNCHANGED <<query, thread, log, part, part_nodes, local, check_queue>>

LEMMA NothingMoves ==
    ASSUME IInv, PartsStay, next_block' \in {next_block, next_block + 1}
    PROVE  /\ \A i \in Inserts : OwnPart(i)' /\ CommitsOnce(i)' /\ RowsLeft(i)'
           /\ LocalParts' /\ CommittedPartIsKeptUnlessKilled'
           /\ log' \subseteq 0 .. next_block' - 1
  <1>0. TypeInv /\ LocalParts /\ CommittedPartIsKeptUnlessKilled
    BY Zenon DEF IInv
  <1>1. \A i \in Inserts : OwnPart(i)' /\ CommitsOnce(i)' /\ RowsLeft(i)'
    BY Zenon, InsertsStay DEF PartsStay
  <1>2. LocalParts'
    <2>1. \A n \in Numbers : n \in Nat
      BY Bounds DEF Numbers
    <2> QED BY <1>0, <2>1, Typed DEF LocalParts, PartsStay
  <1>3. CommittedPartIsKeptUnlessKilled'
    BY Zenon, <1>0 DEF CommittedPartIsKeptUnlessKilled, PartsStay, thread
  <1>4. log' \subseteq 0 .. next_block' - 1
    BY <1>0, Typed DEF PartsStay
  <1> QED BY Zenon, <1>1, <1>2, <1>3, <1>4

-----------------------------------------------------------------------------
(* The requests an insert makes before it commits.                         *)
LEMMA FoundDuplicateStep ==
    ASSUME IInv, NEW i \in Inserts, FoundDuplicate(i)
    PROVE  IInv' /\ PromiseStep
  <1>0. TypeInv /\ RowsLeft(i)
    BY Zenon DEF IInv
  <1>1. /\ UNCHANGED <<query, next_block, locks, orphans, blocks, log, part_nodes, part, local,
                       check_queue, cache, cache_due, sessions, drop, events, answer>>
        /\ Switch(i, "duplicate") /\ ~request[i].async /\ At(i, "lock")
    BY Zenon DEF FoundDuplicate, MayLock, keeper, server, caches, Switch
  <1>2. SinkType' /\ OthersStay(i) /\ Becomes(i, "duplicate", sink[i].rows, sink[i].number)
    BY Zenon, <1>0, <1>1, Typed, SwitchEffect DEF Stages
  <1>3. NothingCommitted(i) /\ ~At(i, "done")
    BY Zenon, <1>1, BeforeCommit DEF At
  <1>4. OwnPart(i)' /\ CommitsOnce(i)' /\ RowsLeft(i)' /\ sink'[i].stage # "multi"
    BY Zenon, <1>0, <1>1, <1>2, <1>3, Uncommitted DEF RowsLeft
  <1>5. IInv'
    BY Zenon, <1>0, <1>1, <1>2, <1>3, <1>4, InsertStep, CacheDueType DEF PartEffect
  <1>6. PromiseStep
    BY Zenon, <1>1, PromiseStutters
  <1> QED BY Zenon, <1>5, <1>6

LEMMA RequestFailsStep ==
    ASSUME IInv, NEW i \in Inserts, RequestFails(i)
    PROVE  IInv' /\ PromiseStep
  <1>0. TypeInv /\ RowsLeft(i)
    BY DEF IInv
  <1>1. /\ UNCHANGED <<query, next_block, locks, orphans, blocks, log, part_nodes, part, local,
                       check_queue, cache, cache_due, sessions, drop, events>>
        /\ Retry(i, sink[i].stage) /\ sink[i].stage \in {"lock", "duplicate"}
    BY Zenon DEF RequestFails, keeper, server, caches, At
  <1>2. /\ SinkType' /\ OthersStay(i)
        /\ \/ Becomes(i, sink[i].stage, sink[i].rows, NoNumber) /\ answer' = answer
           \/ Ends(i, "error")
    BY Zenon, <1>0, <1>1, Typed, RetryEffect DEF Stages
  <1>3. NothingCommitted(i) /\ ~At(i, "done")
    BY Zenon, <1>1, BeforeCommit
  <1>4. OwnPart(i)' /\ CommitsOnce(i)' /\ RowsLeft(i)' /\ sink'[i].stage # "multi"
    <2>1. CASE Becomes(i, sink[i].stage, sink[i].rows, NoNumber)
      BY Zenon, <1>0, <1>1, <1>3, <2>1, Uncommitted DEF RowsLeft, At
    <2>2. CASE Ends(i, "error")
      BY Zenon, <2>2, EndsKeeps
    <2> QED BY Zenon, <1>2, <2>1, <2>2
  <1>5. IInv'
    BY Zenon, <1>0, <1>1, <1>2, <1>3, <1>4, InsertStep, CacheDueType DEF PartEffect
  <1>6. PromiseStep
    BY Zenon, <1>1, <1>2, <1>3, PromiseStutters, PromiseReplies DEF NothingCommitted, Answers
  <1> QED BY <1>5, <1>6

LEMMA FilterKeeps ==
    ASSUME IInv, NEW i \in Inserts, NothingCommitted(i), ~At(i, "done"), request[i].async,
           UNCHANGED <<query, log, part, part_nodes, blocks>>,
           NEW C, \A id \in C : InTable(id), filterBlockDuplicate(i, C)
    PROVE  /\ OwnPart(i)' /\ CommitsOnce(i)' /\ RowsLeft(i)' /\ sink'[i].stage # "multi"
           /\ SinkType' /\ OthersStay(i)
           /\ cache_due' \in [Replicas -> BOOLEAN]
           /\ PromiseStep
  <1>0. TypeInv /\ RowsLeft(i)
    BY Zenon DEF IInv
  <1>1. /\ SinkType' /\ OthersStay(i)
        /\ \/ sink[i].rows \subseteq C /\ Ends(i, "ok")
           \/ /\ ~(sink[i].rows \subseteq C) /\ answer' = answer
              /\ Becomes(i, "lock", sink[i].rows \ C, sink[i].number)
    BY Zenon, <1>0, Typed, FilterEffect
  <1>2. cache_due' \in [Replicas -> BOOLEAN]
    BY Zenon, <1>0, CacheDueType DEF filterBlockDuplicate
  <1>3. CASE sink[i].rows \subseteq C /\ Ends(i, "ok")
    <2>1. \A id \in request[i].rows : id \in Dedup /\ InTable(id)
      BY Zenon, <1>0, <1>3, RequestShape DEF RowsLeft
    <2>2. PromiseStep
      BY Zenon, <1>3, <2>1, PromiseReplies DEF InTable, Answers
    <2> QED BY Zenon, <1>1, <1>2, <1>3, <2>2, EndsKeeps
  <1>4. CASE /\ ~(sink[i].rows \subseteq C) /\ answer' = answer
             /\ Becomes(i, "lock", sink[i].rows \ C, sink[i].number)
    <2>1. OwnPart(i)' /\ CommitsOnce(i)' /\ RowsLeft(i)' /\ sink'[i].stage # "multi"
      <3>1. \A id \in sink[i].rows \ (sink[i].rows \ C) : InTable(id)
        BY Zenon
      <3>2. sink[i].rows \ C # {} /\ sink[i].rows \ C \subseteq sink[i].rows
        BY Zenon, <1>4
      <3> QED BY Zenon, <1>4, <3>1, <3>2, Uncommitted
    <2>2. PromiseStep
      BY Zenon, <1>4, PromiseStutters
    <2> QED BY Zenon, <1>1, <1>2, <2>1, <2>2
  <1> QED BY Zenon, <1>1, <1>3, <1>4

(* A row whose id is taken, or is in a cache, is in the table.             *)
LEMMA TakenIsInTable ==
    ASSUME IInv, NEW i \in Inserts
    PROVE  /\ \A id \in Conflicts(i) : id \in sink[i].rows /\ id \in Dedup /\ InTable(id)
           /\ \A id \in CachedConflicts(i) : InTable(id)
  <1>1. TypeInv /\ Remembered
    BY Zenon DEF IInv
  <1>2. home[i] \in Replicas /\ sink[i].rows \subseteq Ids
    BY Zenon, <1>1, Typed
  <1> QED BY Zenon, <1>1, <1>2 DEF Remembered, Conflicts, CachedConflicts

LEMMA FoundConflictStep ==
    ASSUME IInv, NEW i \in Inserts, FoundConflict(i)
    PROVE  IInv' /\ PromiseStep
  <1>0. TypeInv
    BY Zenon DEF IInv
  <1>1. /\ UNCHANGED <<query, next_block, locks, orphans, blocks, log, part_nodes, part, local,
                       check_queue, cache, sessions, drop, events>>
        /\ request[i].async /\ At(i, "lock")
    BY Zenon DEF FoundConflict, keeper, server
  <1>2. NothingCommitted(i) /\ ~At(i, "done")
    BY Zenon, <1>1, BeforeCommit DEF At
  <1>3. PICK C : (\A id \in C : InTable(id)) /\ filterBlockDuplicate(i, C)
    BY Zenon, TakenIsInTable DEF FoundConflict
  <1>4. /\ OwnPart(i)' /\ CommitsOnce(i)' /\ RowsLeft(i)' /\ sink'[i].stage # "multi"
        /\ SinkType' /\ OthersStay(i)
        /\ cache_due' \in [Replicas -> BOOLEAN]
        /\ PromiseStep
    BY Zenon, <1>1, <1>2, <1>3, FilterKeeps
  <1>5. IInv'
    BY Zenon, <1>0, <1>1, <1>2, <1>4, InsertStep, CacheDueType DEF PartEffect
  <1> QED BY Zenon, <1>4, <1>5

LEMMA ResolveDuplicateStep ==
    ASSUME IInv, NEW i \in Inserts, ResolveDuplicate(i)
    PROVE  IInv' /\ PromiseStep
  <1> DEFINE a == IF Conflicts(i) = {} THEN "error" ELSE "ok"
  <1>0. TypeInv /\ RowsLeft(i)
    BY DEF IInv
  <1>1. /\ UNCHANGED <<query, next_block, locks, orphans, blocks, log, part_nodes, part, local,
                       check_queue, cache, cache_due, sessions, drop, events>>
        /\ Finish(i, a) /\ At(i, "duplicate")
    BY Zenon DEF ResolveDuplicate, keeper, server, caches
  <1>2. SinkType' /\ OthersStay(i) /\ Ends(i, a)
    BY Zenon, <1>0, <1>1, Typed, FinishEffect DEF Answers
  <1>3. NothingCommitted(i) /\ ~At(i, "done")
    BY Zenon, <1>1, BeforeCommit DEF At
  <1>4. IInv'
    BY Zenon, <1>0, <1>1, <1>2, <1>3, EndsKeeps, InsertStep, CacheDueType DEF PartEffect
  <1>5. a = "ok" => \A id \in request[i].rows : id \in Dedup /\ InTable(id)
    <2>1. ~request[i].async /\ sink[i].rows = request[i].rows
      BY Zenon, <1>0, <1>1 DEF RowsLeft, At
    <2>2. PICK id \in Ids : request[i].rows = {id}
      BY Zenon, <1>0, <2>1, RequestShape
    <2> QED BY Zenon, <2>1, <2>2, TakenIsInTable
  <1>6. PromiseStep
    <2>1. a \in Answers \ {"none"}
      BY Zenon DEF Answers
    <2>2. a = "error" => \A n \in log : part[n].insert # i
      BY Zenon, <1>3 DEF NothingCommitted
    <2>3. a = "ok" => \A id \in request[i].rows :
             \E n \in log : id \in part[n].rows /\ (id \notin Dedup => part[n].insert = i)
      BY Zenon, <1>5 DEF InTable
    <2> HIDE DEF a
    <2> QED BY Zenon, <1>1, <1>2, <1>3, <2>1, <2>2, <2>3, PromiseReplies
  <1> QED BY <1>4, <1>6

LEMMA StaysInFlight ==
    ASSUME IInv, NEW i \in Inserts, InFlight(i),
           UNCHANGED <<query, next_block, log, part, part_nodes, local, check_queue>>,
           NEW stage \in {"commit", "verify"},
           Becomes(i, stage, sink[i].rows, sink[i].number),
           stage = "commit" => sink[i].number \in part_nodes
    PROVE  OwnPart(i)' /\ CommitsOnce(i)' /\ RowsLeft(i)' /\ sink'[i].stage # "multi"
  <1>0. OwnPart(i) /\ CommitsOnce(i) /\ RowsLeft(i)
    BY Zenon DEF IInv
  <1>1. /\ sink'[i].stage = stage /\ sink'[i].rows = sink[i].rows
        /\ sink'[i].number = sink[i].number /\ answer'[i] = answer[i]
    BY Zenon DEF Becomes
  <1>2. OwnPart(i)' /\ sink'[i].stage # "multi"
    BY Zenon, <1>0, <1>1 DEF OwnPart, InFlight
  <1>3. CommitsOnce(i)'
    BY <1>0, <1>1 DEF CommitsOnce, OwnPart, InFlight, At
  <1>4. RowsLeft(i)'
    BY Zenon, <1>0, <1>1 DEF RowsLeft, InFlight, InTable, At, query
  <1> QED BY Zenon, <1>2, <1>3, <1>4

LEMMA MultiFailsStep ==
    ASSUME IInv, NEW i \in Inserts, MultiFails(i)
    PROVE  IInv' /\ PromiseStep
  <1>0. TypeInv
    BY DEF IInv
  <1>1. /\ UNCHANGED <<query, next_block, locks, orphans, blocks, log, part_nodes, part, local,
                       check_queue, cache, cache_due, sessions, drop, events>>
        /\ Verify(i) /\ InFlight(i) /\ ~At(i, "done")
    BY Zenon DEF MultiFails, keeper, server, caches, InFlight, At
  <1>2. /\ SinkType' /\ OthersStay(i) /\ answer' = answer
        /\ Becomes(i, "verify", sink[i].rows, sink[i].number)
    BY Zenon, <1>0, <1>1, Typed, VerifyEffect
  <1>3. OwnPart(i)' /\ CommitsOnce(i)' /\ RowsLeft(i)' /\ sink'[i].stage # "multi"
    BY Zenon, <1>1, <1>2, StaysInFlight
  <1>4. IInv'
    BY Zenon, <1>0, <1>1, <1>2, <1>3, InsertStep, CacheDueType DEF PartEffect
  <1> QED BY Zenon, <1>1, <1>2, <1>4, PromiseStutters

LEMMA VerifyFoundStep ==
    ASSUME IInv, NEW i \in Inserts, VerifyFound(i)
    PROVE  IInv' /\ PromiseStep
  <1>0. TypeInv
    BY DEF IInv
  <1>1. /\ UNCHANGED <<query, next_block, locks, orphans, blocks, log, part_nodes, part, local,
                       check_queue, cache, cache_due, sessions, drop, events, answer>>
        /\ Switch(i, "commit") /\ InFlight(i) /\ ~At(i, "done")
        /\ sink[i].number \in part_nodes
    BY Zenon DEF VerifyFound, keeper, server, caches, InFlight, At, Switch
  <1>2. /\ SinkType' /\ OthersStay(i)
        /\ Becomes(i, "commit", sink[i].rows, sink[i].number)
    BY Zenon, <1>0, <1>1, Typed, SwitchEffect DEF Stages
  <1>3. OwnPart(i)' /\ CommitsOnce(i)' /\ RowsLeft(i)' /\ sink'[i].stage # "multi"
    BY Zenon, <1>1, <1>2, StaysInFlight
  <1>4. IInv'
    BY Zenon, <1>0, <1>1, <1>2, <1>3, InsertStep, CacheDueType DEF PartEffect
  <1> QED BY Zenon, <1>1, <1>4, PromiseStutters

LEMMA MultiCancelledStep ==
    ASSUME IInv, NEW i \in Inserts, MultiCancelled(i)
    PROVE  IInv' /\ PromiseStep
  <1>0. TypeInv /\ OwnPart(i)
    BY Zenon DEF IInv
  <1>1. /\ UNCHANGED <<query, next_block, locks, orphans, blocks, log, part_nodes, part,
                       check_queue, cache, cache_due, sessions, drop, events>>
        /\ Rollback(i) /\ Finish(i, "error") /\ At(i, "multi") /\ InFlight(i)
    BY Zenon DEF MultiCancelled, keeper, caches, InFlight, At
  <1>2. SinkType' /\ OthersStay(i) /\ Ends(i, "error")
    BY Zenon, <1>0, <1>1, Typed, FinishEffect DEF Answers
  <1>3. NothingCommitted(i) /\ ~At(i, "done")
    BY Zenon, <1>1, BeforeCommit DEF At
  <1>4. sink[i].number \notin part_nodes
    BY <1>0, <1>1, <1>3, Typed DEF NothingCommitted, OwnPart
  <1>5. IInv'
    BY Zenon, <1>0, <1>1, <1>2, <1>3, <1>4, EndsKeeps, InsertStep, CacheDueType DEF PartEffect
  <1>6. PromiseStep
    BY Zenon, <1>1, <1>2, <1>3, PromiseReplies DEF NothingCommitted, Answers
  <1> QED BY <1>5, <1>6

LEMMA MultiConflictStep ==
    ASSUME IInv, NEW i \in Inserts, MultiConflict(i)
    PROVE  IInv' /\ PromiseStep
  <1>0. TypeInv /\ OwnPart(i) /\ RowsLeft(i)
    BY Zenon DEF IInv
  <1>1. /\ UNCHANGED <<query, next_block, orphans, blocks, log, part_nodes, part,
                       check_queue, cache, sessions, drop, events>>
        /\ Rollback(i) /\ At(i, "multi") /\ InFlight(i) /\ Connected(i)
        /\ locks' = locks \ {sink[i].number}
    BY Zenon DEF MultiConflict, InFlight, At
  <1>2. NothingCommitted(i) /\ ~At(i, "done")
    BY Zenon, <1>1, BeforeCommit DEF At
  <1>3. sink[i].number \notin part_nodes
    BY <1>0, <1>1, <1>2, Typed DEF NothingCommitted, OwnPart
  <1>4. /\ OwnPart(i)' /\ CommitsOnce(i)' /\ RowsLeft(i)' /\ sink'[i].stage # "multi"
        /\ SinkType' /\ OthersStay(i)
        /\ cache_due' \in [Replicas -> BOOLEAN]
        /\ PromiseStep
    <2>1. CASE request[i].async
      <3>1. PICK id \in Conflicts(i) : filterBlockDuplicate(i, {id})
        BY Zenon, <2>1 DEF MultiConflict
      <3> QED BY Zenon, <1>1, <1>2, <2>1, <3>1, FilterKeeps, TakenIsInTable
    <2>2. CASE ~request[i].async
      <3>1. Switch(i, "duplicate") /\ UNCHANGED <<answer, cache_due>>
        BY Zenon, <2>2 DEF MultiConflict, Switch
      <3>2. SinkType' /\ OthersStay(i) /\ Becomes(i, "duplicate", sink[i].rows, sink[i].number)
        BY Zenon, <1>0, <3>1, Typed, SwitchEffect DEF Stages
      <3>3. OwnPart(i)' /\ CommitsOnce(i)' /\ RowsLeft(i)' /\ sink'[i].stage # "multi"
        BY Zenon, <1>0, <1>1, <1>2, <2>2, <3>2, Uncommitted DEF RowsLeft
      <3>4. PromiseStep
        BY Zenon, <1>1, <3>1, PromiseStutters
      <3> QED BY Zenon, <1>0, <3>1, <3>2, <3>3, <3>4, CacheDueType
    <2> QED BY Zenon, <2>1, <2>2
  <1>5. locks' \subseteq locks /\ orphans \subseteq locks'
    BY Zenon, <1>0, <1>1, LockIsOwned, CacheDueType
  <1>6. IInv'
    BY Zenon, <1>1, <1>2, <1>3, <1>4, <1>5, InsertStep DEF PartEffect
  <1> QED BY <1>4, <1>6

LEMMA VerifyNotFoundStep ==
    ASSUME IInv, NEW i \in Inserts, VerifyNotFound(i)
    PROVE  IInv' /\ PromiseStep
  <1>0. TypeInv /\ CommitsOnce(i) /\ RowsLeft(i)
    BY Zenon DEF IInv
  <1>1. /\ UNCHANGED <<query, next_block, locks, orphans, blocks, log, part_nodes, part,
                       check_queue, cache, cache_due, sessions, drop, events>>
        /\ Rollback(i) /\ Retry(i, "lock") /\ At(i, "verify") /\ InFlight(i)
        /\ ~At(i, "done") /\ sink[i].number \notin part_nodes
    BY Zenon DEF VerifyNotFound, keeper, caches, InFlight, At
  <1>2. /\ SinkType' /\ OthersStay(i)
        /\ \/ Becomes(i, "lock", sink[i].rows, NoNumber) /\ answer' = answer
           \/ Ends(i, "error")
    BY Zenon, <1>0, <1>1, Typed, RetryEffect DEF Stages
  <1>3. NothingCommitted(i)
    BY Zenon, <1>0, <1>1 DEF CommitsOnce, NothingCommitted, At
  <1>4. OwnPart(i)' /\ CommitsOnce(i)' /\ RowsLeft(i)' /\ sink'[i].stage # "multi"
    <2>1. CASE Becomes(i, "lock", sink[i].rows, NoNumber)
      BY Zenon, <1>0, <1>1, <1>3, <2>1, Uncommitted DEF RowsLeft, At
    <2>2. CASE Ends(i, "error")
      BY <2>2, EndsKeeps
    <2> QED BY Zenon, <1>2, <2>1, <2>2
  <1>5. IInv'
    BY Zenon, <1>0, <1>1, <1>2, <1>4, InsertStep, CacheDueType DEF PartEffect
  <1>6. PromiseStep
    BY Zenon, <1>1, <1>2, <1>3, PromiseStutters, PromiseReplies DEF NothingCommitted, Answers
  <1> QED BY <1>5, <1>6

LEMMA CountedRecord ==
    ASSUME NEW s \in Records, NEW f \in 0 .. MaxRetries
    PROVE  /\ [s EXCEPT !.verify_failures = f] \in Records
           /\ [s EXCEPT !.verify_failures = f].stage = s.stage
           /\ [s EXCEPT !.verify_failures = f].rows = s.rows
           /\ [s EXCEPT !.verify_failures = f].number = s.number
  BY Zenon DEF Records

LEMMA VerifyFailsStep ==
    ASSUME IInv, NEW i \in Inserts, VerifyFails(i)
    PROVE  IInv' /\ PromiseStep
  <1>0. TypeInv /\ SinkType
    BY Zenon, Typed DEF IInv
  <1>1. /\ UNCHANGED <<query, next_block, locks, orphans, blocks, log, part_nodes, part,
                       cache, cache_due, sessions, drop, events>>
        /\ At(i, "verify") /\ InFlight(i) /\ ~At(i, "done")
    BY Zenon DEF VerifyFails, keeper, caches, InFlight, At
  <1>2. ASSUME NEW a \in {"unknown", "cancelled"}, Finish(i, a), PartEffect(i)
        PROVE  IInv' /\ PromiseStep
    <2>1. SinkType' /\ OthersStay(i) /\ Ends(i, a)
      BY Zenon, <1>0, <1>2, FinishEffect DEF Answers
    <2>2. IInv'
      BY Zenon, <1>0, <1>1, <1>2, <2>1, EndsKeeps, InsertStep, CacheDueType
    <2>3. PromiseStep
      BY Zenon, <1>1, <2>1, PromiseReplies DEF Answers
    <2> QED BY Zenon, <2>2, <2>3
  <1>3. CASE sink[i].verify_failures + 1 > MaxRetries
    BY Zenon, <1>1, <1>2, <1>3 DEF VerifyFails, PartEffect
  <1>4. CASE ~(sink[i].verify_failures + 1 > MaxRetries)
    <2>1. CASE Rollback(i) /\ Finish(i, "cancelled")
      <3>1. Ends(i, "cancelled") /\ UNCHANGED check_queue
        BY Zenon, <1>0, <1>4, <2>1, FinishEffect DEF VerifyFails, Answers
      <3> QED BY Zenon, <1>1, <1>2, <2>1, <3>1 DEF PartEffect
    <2>2. CASE ~(Rollback(i) /\ Finish(i, "cancelled"))
      <3> DEFINE new == [sink[i] EXCEPT !.verify_failures = sink[i].verify_failures + 1]
      <3>1. sink[i] \in Records /\ sink[i].verify_failures + 1 \in 0 .. MaxRetries
        BY <1>0, <1>4, Bounds DEF SinkType, Records
      <3>2. /\ new \in Records /\ new.rows = sink[i].rows /\ new.number = sink[i].number
            /\ new.stage = "verify"
        BY Zenon, <1>1, <3>1, CountedRecord DEF At
      <3>3. /\ sink' = [sink EXCEPT ![i] = new]
            /\ UNCHANGED <<answer, local, check_queue>>
        BY Zenon, <1>0, <1>4, <2>2 DEF VerifyFails, SinkType
      <3> HIDE DEF new
      <3>4. SinkType' /\ OthersStay(i) /\ Becomes(i, "verify", sink[i].rows, sink[i].number)
        BY Zenon, <1>0, <3>2, <3>3 DEF SinkType, OthersStay, Becomes
      <3>5. OwnPart(i)' /\ CommitsOnce(i)' /\ RowsLeft(i)' /\ sink'[i].stage # "multi"
        BY Zenon, <1>1, <3>3, <3>4, StaysInFlight
      <3>6. IInv'
        BY Zenon, <1>0, <1>1, <3>3, <3>4, <3>5, InsertStep, CacheDueType DEF PartEffect
      <3> QED BY Zenon, <1>1, <3>3, <3>6, PromiseStutters
    <2> QED BY Zenon, <2>1, <2>2
  <1> QED BY Zenon, <1>3, <1>4

-----------------------------------------------------------------------------
(* The multi request makes the part appear in the table.                   *)
LEMMA PromiseWrites ==
    ASSUME IInv, NEW i \in Inserts, CommitInKeeper(i, sink[i].number),
           UNCHANGED <<query, part, answer>>
    PROVE  PromiseStep
  <1>n. PICK n, S : n = sink[i].number /\ S = sink[i].rows
    BY Zenon
  <1> DEFINE table == {[name |-> k, insert |-> part[k].insert, rows |-> part[k].rows] : k \in log}
             remembered == {id \in Ids : blocks[id] # NoNumber}
  <1>0. TypeInv /\ OwnPart(i) /\ RowsLeft(i) /\ Remembered
    BY Zenon DEF IInv
  <1>1. /\ At(i, "multi") /\ Conflicts(i) = {} /\ log' = log \cup {n}
        /\ blocks' = [id \in Ids |-> IF id \in S \cap Dedup THEN n ELSE blocks[id]]
    BY Zenon, <1>n DEF CommitInKeeper
  <1>2. NothingCommitted(i) /\ ~At(i, "done")
    BY Zenon, <1>1, BeforeCommit DEF At
  <1>3. /\ part[n].rows = S /\ part[n].insert = i
        /\ n \in Numbers /\ n # NoNumber
    BY <1>0, <1>1, <1>n, Typed, Bounds DEF OwnPart, InFlight, At, Numbers, NoNumber
  <1>4. n \notin log
    BY Zenon, <1>2, <1>3 DEF NothingCommitted
  <1>5. answer[i] = "none" /\ S # {} /\ S \in SUBSET request[i].rows
    BY Zenon, <1>0, <1>2, <1>n DEF RowsLeft
  <1>6. S \cap remembered = {}
    BY Zenon, <1>0, <1>1, <1>n DEF Remembered, Conflicts
  <1>7. \A w \in table : w.insert # i /\ w.name # n
    BY <1>2, <1>4 DEF NothingCommitted
  <1>8. {[name |-> k, insert |-> part'[k].insert, rows |-> part'[k].rows] : k \in log'}
           = table \cup {[name |-> n, insert |-> i, rows |-> S]}
    BY Zenon, <1>1, <1>3
  <1>9. {id \in Ids : blocks'[id] # NoNumber} = remembered \cup (S \cap Dedup)
    BY Zenon, <1>0, <1>1, <1>3, <1>n, Typed
  <1>10. Promised!Write(i, n, S)
    <2>1. \A w \in Promised!WrittenBy(i) : w.rows \cap S = {}
      BY Zenon, <1>7 DEF Promised!WrittenBy
    <2>2. [j \in Inserts |-> request[j].rows]' = [j \in Inserts |-> request[j].rows]
      BY Zenon DEF query
    <2> QED BY Zenon, <1>5, <1>6, <1>7, <1>8, <1>9, <2>1, <2>2 DEF Promised!Write
  <1>11. S \in SUBSET ([j \in Inserts |-> request[j].rows][i])
    BY Zenon, <1>5
  <1>12. n \in Numbers
    BY Zenon, <1>3
  <1> QED BY Zenon, <1>10, <1>11, <1>12 DEF PromiseStep, Promised!Next

LEMMA CommitKeeps ==
    ASSUME IInv, NEW i \in Inserts, CommitInKeeper(i, sink[i].number),
           NEW stage \in {"commit", "verify"},
           Becomes(i, stage, sink[i].rows, sink[i].number), OthersStay(i),
           UNCHANGED <<query, answer, next_block, part, local, check_queue, cache>>,
           \A q \in Replicas : session'[q] = "crashed" <=> session[q] = "crashed"
    PROVE  /\ \A j \in Inserts : OwnPart(j)' /\ CommitsOnce(j)' /\ RowsLeft(j)'
           /\ Remembered' /\ LocalParts'
           /\ CommittedPartIsKeptUnlessKilled' /\ VisiblePartIsCommittedOrChecked'
           /\ log' \subseteq 0 .. next_block - 1 /\ part_nodes' \subseteq log'
           /\ \A n \in log' : part[n].insert \in Inserts
           /\ blocks' \in [Ids -> 0 .. NoNumber]
  <1> DEFINE n == sink[i].number
  <1>0. TypeInv /\ OwnPart(i) /\ RowsLeft(i) /\ Remembered
    BY Zenon DEF IInv
  <1>1. /\ At(i, "multi") /\ InFlight(i)
        /\ log' = log \cup {n} /\ part_nodes' = part_nodes \cup {n}
        /\ blocks' = [id \in Ids |-> IF id \in sink[i].rows \cap Dedup THEN n ELSE blocks[id]]
    BY Zenon DEF CommitInKeeper, InFlight, At
  <1>2. NothingCommitted(i) /\ ~At(i, "done")
    BY Zenon, <1>1, BeforeCommit DEF At
  <1>3. /\ part[n].rows = sink[i].rows /\ part[n].insert = i /\ n \in 0 .. next_block - 1
        /\ n \in Numbers /\ n \in 0 .. NoNumber
        /\ local[n] = "PreActive"
    BY <1>0, <1>1, Typed, Bounds DEF OwnPart, InFlight, At, Numbers, NoNumber
  <1>4. OnlyOwnPart(i)
    BY Zenon, <1>1 DEF OnlyOwnPart
  <1>5. OwnPart(i)' /\ CommitsOnce(i)' /\ RowsLeft(i)'
    <2>1. /\ sink'[i].stage = stage /\ sink'[i].rows = sink[i].rows
          /\ sink'[i].number = sink[i].number /\ answer'[i] = answer[i]
      BY Zenon DEF Becomes
    <2>2. OwnPart(i)'
      BY Zenon, <1>0, <1>1, <2>1 DEF OwnPart, InFlight
    <2>3. CommitsOnce(i)'
      BY Zenon, <1>1, <1>2, <2>1 DEF CommitsOnce, NothingCommitted, At
    <2>4. RowsLeft(i)'
      BY Zenon, <1>0, <1>1, <1>2, <1>4, <2>1, TableGrows DEF RowsLeft, At, query
    <2> QED BY Zenon, <2>2, <2>3, <2>4
  <1>6. \A j \in Inserts : OwnPart(j)' /\ CommitsOnce(j)' /\ RowsLeft(j)'
    BY Zenon, <1>4, <1>5, OthersKeep
  <1>7. Remembered'
    <2>1. ASSUME NEW id \in Ids, blocks'[id] # NoNumber
          PROVE  id \in Dedup /\ InTable(id)'
      <3>1. CASE id \in sink[i].rows \cap Dedup
        BY Zenon, <1>1, <1>3, <3>1 DEF InTable
      <3>2. CASE id \notin sink[i].rows \cap Dedup
        BY Zenon, <1>0, <1>1, <1>4, <2>1, <3>2, TableGrows DEF Remembered
      <3> QED BY Zenon, <3>1, <3>2
    <2> QED BY Zenon, <1>0, <1>4, <2>1, TableGrows DEF Remembered
  <1>8. LocalParts'
    BY Zenon DEF IInv, LocalParts
  <1>9. CommittedPartIsKeptUnlessKilled'
    <2>1. CommittedPartIsKeptUnlessKilled
      BY Zenon DEF IInv
    <2> QED BY Zenon, <1>1, <1>3, <2>1 DEF CommittedPartIsKeptUnlessKilled
  <1>10. VisiblePartIsCommittedOrChecked'
    <2>1. VisiblePartIsCommittedOrChecked /\ home' = home
      BY Zenon DEF IInv, query
    <2>2. \A k \in Numbers : local[k] = "Active" => home[part[k].insert] \in Replicas
      BY Zenon, <1>0, Typed DEF IInv, LocalParts
    <2> QED BY Zenon, <1>1, <2>1, <2>2 DEF VisiblePartIsCommittedOrChecked
  <1>11. /\ log' \subseteq 0 .. next_block - 1 /\ part_nodes' \subseteq log'
         /\ \A k \in log' : part[k].insert \in Inserts
    BY Zenon, <1>0, <1>1, <1>3, Typed DEF TypeInv, TypeOK
  <1>12. blocks' \in [Ids -> 0 .. NoNumber]
    BY Zenon, <1>0, <1>1, <1>3 DEF TypeInv, TypeOK
  <1> QED BY Zenon, <1>6, <1>7, <1>8, <1>9, <1>10, <1>11, <1>12

LEMMA MultiOkStep ==
    ASSUME IInv, NEW i \in Inserts, MultiOk(i)
    PROVE  IInv' /\ PromiseStep
  <1>0. TypeInv
    BY DEF IInv
  <1>1. /\ UNCHANGED <<query, answer, next_block, orphans, part, local, check_queue, cache,
                       cache_due, session, epoch, drop, events>>
        /\ CommitInKeeper(i, sink[i].number) /\ Switch(i, "commit")
        /\ At(i, "multi") /\ Connected(i) /\ locks' = locks \ {sink[i].number}
        /\ ~At(i, "done")
    BY Zenon DEF MultiOk, Switch, server, caches, sessions, CommitInKeeper, At
  <1>2. SinkType' /\ OthersStay(i) /\ Becomes(i, "commit", sink[i].rows, sink[i].number)
    BY Zenon, <1>0, <1>1, Typed, SwitchEffect DEF Stages
  <1>3. /\ \A j \in Inserts : OwnPart(j)' /\ CommitsOnce(j)' /\ RowsLeft(j)'
        /\ Remembered' /\ LocalParts'
        /\ CommittedPartIsKeptUnlessKilled' /\ VisiblePartIsCommittedOrChecked'
        /\ log' \subseteq 0 .. next_block - 1 /\ part_nodes' \subseteq log'
        /\ \A n \in log' : part[n].insert \in Inserts
        /\ blocks' \in [Ids -> 0 .. NoNumber]
    BY Zenon, <1>1, <1>2, CommitKeeps
  <1>4. locks' \subseteq locks /\ orphans \subseteq locks'
    BY Zenon, <1>0, <1>1, LockIsOwned, CacheDueType
  <1>5. TypeInv'
    BY Zenon, <1>0, <1>1, <1>2, <1>3, <1>4 DEF TypeInv, TypeOK, SinkType, Records, query
  <1>6. SessionInv'
    BY Zenon, <1>1, <1>2, QuietSessions DEF query, Becomes
  <1>7. PromiseStep
    BY Zenon, <1>1, PromiseWrites
  <1> QED BY Zenon, <1>3, <1>5, <1>6, <1>7 DEF IInv

LEMMA MultiLostStep ==
    ASSUME IInv, NEW i \in Inserts, MultiLost(i)
    PROVE  IInv' /\ PromiseStep
  <1> DEFINE L == locks' \cap NumbersOf(home[i])
  <1>0. TypeInv
    BY DEF IInv
  <1>1. /\ UNCHANGED <<query, next_block, part, local, check_queue, cache, cache_due, drop, epoch>>
        /\ CommitInKeeper(i, sink[i].number) /\ Verify(i) /\ LoseSession(home[i], L)
        /\ orphans' = orphans \cup L
        /\ At(i, "multi") /\ Connected(i) /\ locks' = locks \ {sink[i].number}
        /\ ~At(i, "done")
    BY Zenon DEF MultiLost, server, caches, CommitInKeeper, LoseSession, At
  <1>2. /\ SinkType' /\ OthersStay(i) /\ Becomes(i, "verify", sink[i].rows, sink[i].number)
        /\ answer' = answer
    BY Zenon, <1>0, <1>1, Typed, VerifyEffect
  <1>3. L \subseteq locks' /\ L \subseteq NumbersOf(home[i]) \cup {next_block}
    BY Zenon
  <1> HIDE DEF L
  <1>4. /\ SessionInv'
        /\ session' \in [Replicas -> {"up", "lost", "crashed"}]
        /\ events' \in 0 .. MaxEvents
        /\ \A q \in Replicas : session'[q] = "crashed" <=> session[q] = "crashed"
    <2>1. home[i] \in Replicas /\ home' = home
      BY Zenon, <1>0, <1>1, Typed DEF query
    <2>2. \A j \in Inserts : \/ sink'[j] = sink[j]
                             \/ sink'[j].stage # "multi" /\ sink[j].stage # "done"
      BY Zenon, <1>1, <1>2 DEF OthersStay, Becomes, At
    <2> QED BY Zenon, <1>1, <1>3, <2>1, <2>2, SessionEnds
  <1>5. /\ \A j \in Inserts : OwnPart(j)' /\ CommitsOnce(j)' /\ RowsLeft(j)'
        /\ Remembered' /\ LocalParts'
        /\ CommittedPartIsKeptUnlessKilled' /\ VisiblePartIsCommittedOrChecked'
        /\ log' \subseteq 0 .. next_block - 1 /\ part_nodes' \subseteq log'
        /\ \A n \in log' : part[n].insert \in Inserts
        /\ blocks' \in [Ids -> 0 .. NoNumber]
    BY Zenon, <1>1, <1>2, <1>4, CommitKeeps
  <1>6. locks' \subseteq locks /\ orphans' \subseteq locks'
    BY Zenon, <1>0, <1>1, <1>3, LockIsOwned, CacheDueType
  <1>7. TypeInv'
    BY Zenon, <1>0, <1>1, <1>2, <1>4, <1>5, <1>6 DEF TypeInv, TypeOK, SinkType, Records, query
  <1>8. PromiseStep
    BY Zenon, <1>1, <1>2, PromiseWrites
  <1> QED BY Zenon, <1>4, <1>5, <1>7, <1>8 DEF IInv

LEMMA LocalCommitStep ==
    ASSUME IInv, NEW i \in Inserts, LocalCommit(i)
    PROVE  IInv' /\ PromiseStep
  <1> DEFINE n == sink[i].number
  <1>0. TypeInv /\ OwnPart(i) /\ CommitsOnce(i) /\ RowsLeft(i)
    BY Zenon DEF IInv
  <1>1. /\ UNCHANGED <<query, next_block, locks, orphans, blocks, log, part_nodes, part,
                       check_queue, cache, cache_due, sessions, drop, events>>
        /\ local' = [local EXCEPT ![n] = "Active"]
        /\ Finish(i, "ok") /\ At(i, "commit") /\ InFlight(i) /\ ~At(i, "done")
    BY Zenon DEF LocalCommit, keeper, caches, InFlight, At
  <1>2. SinkType' /\ OthersStay(i) /\ Ends(i, "ok")
    BY Zenon, <1>0, <1>1, Typed, FinishEffect DEF Answers
  <1>3. n \in part_nodes
    BY Zenon, <1>0, <1>1 DEF CommitsOnce
  <1>4. IInv'
    BY Zenon, <1>0, <1>1, <1>2, <1>3, EndsKeeps, InsertStep, CacheDueType DEF PartEffect
  <1>5. ASSUME NEW id \in request[i].rows
        PROVE  \E k \in log : id \in part[k].rows /\ (id \notin Dedup => part[k].insert = i)
    <2>1. n \in log /\ part[n].rows = sink[i].rows /\ part[n].insert = i
      BY <1>0, <1>1, <1>3, Typed DEF OwnPart
    <2>2. CASE id \in sink[i].rows
      BY Zenon, <2>1, <2>2
    <2>3. CASE id \notin sink[i].rows
      BY Zenon, <1>0, <1>1, <2>3, RequestShape DEF RowsLeft, InTable
    <2> QED BY Zenon, <2>2, <2>3
  <1>6. PromiseStep
    BY Zenon, <1>1, <1>2, <1>5, PromiseReplies DEF Answers
  <1> QED BY <1>4, <1>6

-----------------------------------------------------------------------------
(* What servers, sessions and the other tasks of a replica do.             *)
LEMMA SessionLostStep ==
    ASSUME IInv, NEW r \in Replicas, SessionLost(r)
    PROVE  IInv' /\ PromiseStep
  <1> DEFINE L == locks \cap NumbersOf(r)
  <1>0. TypeInv
    BY Zenon DEF IInv
  <1>1. /\ PartsStay /\ UNCHANGED <<next_block, locks, blocks, cache, cache_due, drop, epoch>>
        /\ LoseSession(r, L) /\ orphans' = orphans \cup L
        /\ UNCHANGED <<home, sink, answer>>
    BY Zenon DEF SessionLost, PartsStay, server, caches, LoseSession, query, thread
  <1>2. L \subseteq locks /\ L \subseteq NumbersOf(r) \cup {next_block}
    BY Zenon
  <1> HIDE DEF L
  <1>3. /\ SessionInv'
        /\ session' \in [Replicas -> {"up", "lost", "crashed"}]
        /\ events' \in 0 .. MaxEvents
        /\ \A q \in Replicas : session'[q] = "crashed" <=> session[q] = "crashed"
    BY Zenon, <1>1, <1>2, SessionEnds
  <1>4. TypeInv'
    BY Zenon, <1>0, <1>1, <1>2, <1>3 DEF TypeInv, TypeOK, PartsStay, query
  <1>5. Remembered'
    BY Zenon, <1>1 DEF IInv, Remembered, InTable, PartsStay
  <1>6. VisiblePartIsCommittedOrChecked'
    <2>1. VisiblePartIsCommittedOrChecked
      BY Zenon DEF IInv
    <2>2. \A k \in Numbers : local[k] = "Active" => home[part[k].insert] \in Replicas
      BY Zenon, <1>0, Typed DEF IInv, LocalParts
    <2> QED BY Zenon, <1>1, <1>3, <2>1, <2>2 DEF VisiblePartIsCommittedOrChecked, PartsStay
  <1>7. PromiseStep
    BY Zenon, <1>1, PromiseStutters DEF PartsStay
  <1> QED BY Zenon, <1>1, <1>3, <1>4, <1>5, <1>6, <1>7, NothingMoves DEF IInv

LEMMA RestartingThreadStep ==
    ASSUME IInv, NEW r \in Replicas, RestartingThread(r)
    PROVE  IInv' /\ PromiseStep
  <1>0. TypeInv /\ SessionInv
    BY Zenon DEF IInv
  <1>1. /\ PartsStay
        /\ UNCHANGED <<next_block, locks, orphans, blocks, cache, drop, events>>
        /\ session[r] = "lost" /\ session' = [session EXCEPT ![r] = "up"]
        /\ epoch' = [epoch EXCEPT ![r] = epoch[r] + 1]
        /\ cache_due' = [cache_due EXCEPT ![r] = TRUE]
        /\ UNCHANGED <<home, sink, answer>>
    BY Zenon, <1>0 DEF RestartingThread, PartsStay, keeper, server, query, thread, TypeInv, TypeOK
  <1>2. /\ session \in [Replicas -> {"up", "lost", "crashed"}]
        /\ epoch \in [Replicas -> 0 .. MaxEvents]
        /\ events \in 0 .. MaxEvents
        /\ cache_due \in [Replicas -> BOOLEAN]
    BY Zenon, <1>0 DEF TypeInv, TypeOK
  <1>3. epoch[r] + 1 \in 0 .. MaxEvents /\ epoch[r] + 1 <= events
    BY <1>0, <1>1, <1>2, Bounds DEF SessionInv
  <1>4. /\ session' \in [Replicas -> {"up", "lost", "crashed"}]
        /\ epoch' \in [Replicas -> 0 .. MaxEvents]
        /\ cache_due' \in [Replicas -> BOOLEAN]
        /\ session'[r] = "up" /\ epoch'[r] = epoch[r] + 1
        /\ \A q \in Replicas : q # r => session'[q] = session[q] /\ epoch'[q] = epoch[q]
    BY Zenon, <1>1, <1>2, <1>3
  <1>5. TypeInv'
    BY Zenon, <1>0, <1>1, <1>4 DEF TypeInv, TypeOK, PartsStay, query
  <1>6. SessionInv'
    <2>1. \A q \in Replicas : epoch'[q] <= events' /\ (session'[q] = "lost" => epoch'[q] < events')
      BY Zenon, <1>0, <1>1, <1>3, <1>4 DEF SessionInv
    <2>2. ASSUME NEW j \in Inserts
          PROVE  /\ At(j, "multi")' => sink'[j].epoch <= epoch'[home'[j]]
                 /\ At(j, "multi")' /\ sink'[j].number \in orphans' =>
                       session'[home'[j]] = "lost" \/ sink'[j].epoch < epoch'[home'[j]]
                 /\ session'[home'[j]] = "crashed" => At(j, "done")'
      <3>1. home[j] \in Replicas /\ epoch[r] \in Nat /\ sink[j].epoch \in Nat
        BY <1>0, <1>2, Typed, Bounds DEF SinkType, Records
      <3>2. CASE home[j] = r
        BY <1>0, <1>1, <1>4, <3>1, <3>2 DEF SessionInv, At
      <3>3. CASE home[j] # r
        BY Zenon, <1>0, <1>1, <1>4, <3>1, <3>3 DEF SessionInv, At
      <3> QED BY Zenon, <3>2, <3>3
    <2> QED BY Zenon, <2>1, <2>2 DEF SessionInv
  <1>7. Remembered'
    BY Zenon, <1>1 DEF IInv, Remembered, InTable, PartsStay
  <1>8. VisiblePartIsCommittedOrChecked'
    <2>1. VisiblePartIsCommittedOrChecked
      BY DEF IInv
    <2>2. \A k \in Numbers : local[k] = "Active" => home[part[k].insert] \in Replicas
      BY Zenon, <1>0, Typed DEF IInv, LocalParts
    <2> QED BY Zenon, <1>1, <1>4, <2>1, <2>2 DEF VisiblePartIsCommittedOrChecked, PartsStay
  <1>9. PromiseStep
    BY Zenon, <1>1, PromiseStutters DEF PartsStay
  <1> QED BY Zenon, <1>1, <1>5, <1>6, <1>7, <1>8, <1>9, NothingMoves DEF IInv

LEMMA StartStep ==
    ASSUME IInv, NEW r \in Replicas, Start(r)
    PROVE  IInv' /\ PromiseStep
  <1>0. TypeInv /\ SessionInv /\ LocalParts
    BY Zenon DEF IInv
  <1>1. /\ UNCHANGED <<query, thread, next_block, locks, orphans, blocks, log, part_nodes, part,
                       check_queue, cache, epoch, drop, events, home, sink, answer>>
        /\ session[r] = "crashed" /\ session' = [session EXCEPT ![r] = "up"]
        /\ cache_due' = [cache_due EXCEPT ![r] = TRUE]
    BY Zenon DEF Start, keeper, query, thread
  <1>2. /\ session' \in [Replicas -> {"up", "lost", "crashed"}]
        /\ cache_due' \in [Replicas -> BOOLEAN]
        /\ session'[r] = "up" /\ \A q \in Replicas : q # r => session'[q] = session[q]
    BY Zenon, <1>0, <1>1 DEF TypeInv, TypeOK
  <1>3. /\ local' \in [Numbers -> {"none", "PreActive", "Active"}]
        /\ \A n \in Numbers :
              /\ n \notin NumbersOf(r) \/ local[n] = "none" => local'[n] = local[n]
              /\ n \in NumbersOf(r) /\ local[n] # "none" =>
                    local'[n] = IF n \in part_nodes THEN "Active" ELSE "none"
    BY Zenon, <1>0 DEF Start, TypeInv, TypeOK
  <1>4. TypeInv'
    BY Zenon, <1>0, <1>1, <1>2, <1>3 DEF TypeInv, TypeOK, query
  <1>5. SessionInv'
    <2>1. \A j \in Inserts : home[j] = r => At(j, "done") /\ ~At(j, "multi")
      BY Zenon, <1>0, <1>1 DEF SessionInv, At
    <2>2. \A j \in Inserts : home[j] \in Replicas
      BY Zenon, <1>0, Typed
    <2> QED BY Zenon, <1>0, <1>1, <1>2, <2>1, <2>2 DEF SessionInv, At
  <1>6. \A i \in Inserts : OwnPart(i)' /\ CommitsOnce(i)' /\ RowsLeft(i)'
    <2>1. ASSUME NEW i \in Inserts, InFlight(i)
          PROVE  local'[sink[i].number] = local[sink[i].number]
      <3>1. home[i] # r
        BY Zenon, <1>0, <1>1, <2>1 DEF SessionInv, InFlight, At
      <3>2. OwnPart(i)
        BY Zenon DEF IInv
      <3>3. sink[i].number \in Numbers /\ part[sink[i].number].insert = i
        BY <1>0, <2>1, <3>2, Typed, Bounds DEF OwnPart, Numbers
      <3> QED BY Zenon, <1>3, <3>1, <3>3 DEF NumbersOf
    <2> QED BY Zenon, <1>1, <2>1, InsertsStay
  <1>7. Remembered'
    BY Zenon, <1>1 DEF IInv, Remembered, InTable
  <1>8. LocalParts'
    BY Zenon, <1>0, <1>1, <1>3 DEF LocalParts
  <1>9. CommittedPartIsKeptUnlessKilled'
    <2>1. CommittedPartIsKeptUnlessKilled /\ part_nodes \subseteq Numbers
      BY Zenon, <1>0, Typed DEF IInv
    <2> QED BY Zenon, <1>1, <1>3, <2>1 DEF CommittedPartIsKeptUnlessKilled
  <1>10. VisiblePartIsCommittedOrChecked'
    <2>1. VisiblePartIsCommittedOrChecked
      BY DEF IInv
    <2>2. ASSUME NEW n \in Numbers, local'[n] = "Active", n \notin NumbersOf(r)
          PROVE  session'[home[part[n].insert]] = session[home[part[n].insert]]
      <3>1. part[n].insert \in Inserts /\ part[n].insert # "none"
        BY Zenon, <1>0, <1>3, <2>2, SinkAssumption DEF LocalParts
      <3> QED BY Zenon, <1>0, <1>2, <2>2, <3>1, Typed DEF NumbersOf
    <2> QED BY Zenon, <1>1, <1>3, <2>1, <2>2 DEF VisiblePartIsCommittedOrChecked
  <1>11. PromiseStep
    BY Zenon, <1>1, PromiseStutters
  <1> QED BY Zenon, <1>4, <1>5, <1>6, <1>7, <1>8, <1>9, <1>10, <1>11 DEF IInv

LEMMA CacheUpdateStep ==
    ASSUME IInv, NEW r \in Replicas, CacheUpdate(r)
    PROVE  IInv' /\ PromiseStep
  <1> DEFINE new == {id \in AsyncIds : blocks[id] # NoNumber}
  <1>0. TypeInv
    BY DEF IInv
  <1>1. /\ PartsStay
        /\ UNCHANGED <<next_block, locks, orphans, blocks, session, epoch, drop, events,
                       home, sink, answer>>
        /\ cache_due' = [cache_due EXCEPT ![r] = FALSE]
        /\ cache' = [cache EXCEPT ![r] = new]
    BY Zenon DEF CacheUpdate, PartsStay, keeper, server, sessions, query, thread
  <1>2. new \subseteq Ids
    <2>1. \A i \in Inserts : request[i].rows \subseteq Ids
      BY Zenon, <1>0, Typed DEF Requests
    <2> QED BY Zenon, <2>1 DEF AsyncIds
  <1>3. \A id \in new : InTable(id)
    BY Zenon, <1>2 DEF IInv, Remembered
  <1> HIDE DEF new
  <1>4. TypeInv'
    <2>1. cache' \in [Replicas -> SUBSET Ids] /\ cache_due' \in [Replicas -> BOOLEAN]
      BY Zenon, <1>0, <1>1, <1>2 DEF TypeInv, TypeOK
    <2> QED BY Zenon, <1>0, <1>1, <2>1 DEF TypeInv, TypeOK, PartsStay, query
  <1>5. SessionInv'
    BY Zenon, <1>1 DEF IInv, SessionInv, At
  <1>6. Remembered'
    <2>1. \A q \in Replicas : \A id \in cache'[q] : id \in cache[q] \/ id \in new
      BY Zenon, <1>0, <1>1 DEF TypeInv, TypeOK
    <2>2. Remembered /\ log' = log /\ part' = part
      BY Zenon, <1>1 DEF IInv, PartsStay
    <2> QED BY Zenon, <1>1, <1>3, <2>1, <2>2 DEF Remembered, InTable
  <1>7. VisiblePartIsCommittedOrChecked'
    BY Zenon, <1>1 DEF IInv, VisiblePartIsCommittedOrChecked, PartsStay
  <1>8. PromiseStep
    BY Zenon, <1>1, PromiseStutters DEF PartsStay
  <1> QED BY Zenon, <1>1, <1>4, <1>5, <1>6, <1>7, <1>8, NothingMoves DEF IInv

(* Steps that change locks, numbers, DROP PARTITION's locals or counters   *)
(* only.                                                                   *)
LEMMA BookkeepingStep ==
    ASSUME IInv, PartsStay, UNCHANGED <<blocks, cache, cache_due, sessions>>,
           \/ next_block' = next_block
           \/ next_block' = next_block + 1 /\ next_block < MaxBlocks,
           locks' \subseteq locks, orphans' \subseteq orphans, orphans' \subseteq locks',
           drop' \in Drops,
           \/ events' = events
           \/ events' = events + 1 /\ events < MaxEvents
    PROVE  IInv' /\ PromiseStep
  <1>0. TypeInv /\ SessionInv
    BY Zenon DEF IInv
  <1>1. UNCHANGED <<home, sink, answer, session, epoch>>
    BY Zenon DEF PartsStay, query, thread, sessions
  <1>2. next_block' \in 0 .. MaxBlocks /\ events' \in 0 .. MaxEvents
    BY <1>0, Typed, Bounds DEF TypeInv
  <1>3. locks' \subseteq 0 .. next_block' - 1
    BY <1>0, Typed DEF TypeInv, TypeOK
  <1>4. /\ \A i \in Inserts : OwnPart(i)' /\ CommitsOnce(i)' /\ RowsLeft(i)'
        /\ LocalParts' /\ CommittedPartIsKeptUnlessKilled'
        /\ log' \subseteq 0 .. next_block' - 1
    BY Zenon, NothingMoves
  <1>5. TypeInv'
    BY Zenon, <1>0, <1>1, <1>2, <1>3, <1>4 DEF TypeInv, TypeOK, PartsStay, query, thread
  <1>6. SessionInv'
    <2>1. events \in Nat /\ \A q \in Replicas : epoch[q] \in Nat
      BY <1>0, Bounds DEF TypeInv, TypeOK
    <2>2. \A q \in Replicas : epoch[q] <= events' /\ (session[q] = "lost" => epoch[q] < events')
      BY <1>0, <2>1 DEF SessionInv
    <2> QED BY Zenon, <1>0, <1>1, <2>2 DEF SessionInv, At
  <1>7. Remembered'
    BY Zenon DEF IInv, Remembered, InTable, PartsStay
  <1>8. VisiblePartIsCommittedOrChecked'
    BY Zenon, <1>1 DEF IInv, VisiblePartIsCommittedOrChecked, PartsStay
  <1>9. PromiseStep
    BY Zenon, <1>1, PromiseStutters DEF PartsStay
  <1> QED BY Zenon, <1>4, <1>5, <1>6, <1>7, <1>8, <1>9 DEF IInv

LEMMA ExpireStep ==
    ASSUME IInv, NEW n \in Numbers, Expire(n)
    PROVE  IInv' /\ PromiseStep
  <1>1. TypeInv
    BY Zenon DEF IInv
  <1>2. /\ PartsStay /\ UNCHANGED <<blocks, cache, cache_due, sessions, next_block, drop, events>>
        /\ locks' = locks \ {n} /\ orphans' = orphans \ {n}
    BY Zenon DEF Expire, PartsStay, server, caches
  <1> QED BY Zenon, <1>1, <1>2, BookkeepingStep DEF TypeInv, TypeOK

LEMMA PartCheckStep ==
    ASSUME IInv, NEW n \in Numbers, PartCheck(n)
    PROVE  IInv' /\ PromiseStep
  <1>0. TypeInv /\ LocalParts
    BY Zenon DEF IInv
  <1>1. /\ UNCHANGED <<query, thread, next_block, locks, orphans, blocks, log, part_nodes, part,
                       cache, cache_due, session, epoch, drop, events, home, sink, answer>>
        /\ n \in check_queue /\ check_queue' = check_queue \ {n}
    BY Zenon DEF PartCheck, keeper, query, thread, caches, sessions
  <1>2. /\ local' \in [Numbers -> {"none", "PreActive", "Active"}]
        /\ \A k \in Numbers : k # n \/ n \in part_nodes => local'[k] = local[k]
        /\ n \notin part_nodes => local'[n] = "none"
    BY Zenon, <1>0 DEF PartCheck, TypeInv, TypeOK
  <1>3. TypeInv'
    BY Zenon, <1>0, <1>1, <1>2 DEF TypeInv, TypeOK, query
  <1>4. SessionInv'
    BY Zenon, <1>1 DEF IInv, SessionInv, At
  <1>5. \A i \in Inserts : OwnPart(i)' /\ CommitsOnce(i)' /\ RowsLeft(i)'
    <2>1. ASSUME NEW i \in Inserts, InFlight(i)
          PROVE  local'[sink[i].number] = local[sink[i].number]
      <3>1. OwnPart(i)
        BY Zenon DEF IInv
      <3>2. sink[i].number \in Numbers /\ sink[i].number # n
        BY <1>0, <1>1, <2>1, <3>1, Typed, Bounds DEF OwnPart, Numbers
      <3> QED BY Zenon, <1>2, <3>2
    <2> QED BY Zenon, <1>1, <2>1, InsertsStay
  <1>6. Remembered'
    BY Zenon, <1>1 DEF IInv, Remembered, InTable
  <1>7. LocalParts'
    BY Zenon, <1>0, <1>1, <1>2 DEF LocalParts
  <1>8. CommittedPartIsKeptUnlessKilled'
    <2>1. CommittedPartIsKeptUnlessKilled /\ part_nodes \subseteq Numbers
      BY Zenon, <1>0, Typed DEF IInv
    <2> QED BY Zenon, <1>1, <1>2, <2>1 DEF CommittedPartIsKeptUnlessKilled
  <1>9. VisiblePartIsCommittedOrChecked'
    <2>1. VisiblePartIsCommittedOrChecked
      BY Zenon DEF IInv
    <2> QED BY Zenon, <1>1, <1>2, <2>1 DEF VisiblePartIsCommittedOrChecked
  <1>10. PromiseStep
    BY Zenon, <1>1, PromiseStutters
  <1> QED BY Zenon, <1>3, <1>4, <1>5, <1>6, <1>7, <1>8, <1>9, <1>10 DEF IInv

(* Ids are forgotten.                                                      *)
LEMMA ForgetStep ==
    ASSUME IInv, PartsStay,
           UNCHANGED <<next_block, locks, orphans, cache, cache_due, sessions>>,
           blocks' \in [Ids -> 0 .. NoNumber],
           \A id \in Ids : blocks'[id] = NoNumber \/ blocks'[id] = blocks[id],
           drop' \in Drops,
           \/ events' = events
           \/ events' = events + 1 /\ events < MaxEvents
    PROVE  IInv' /\ PromiseStep
  <1>0. TypeInv /\ SessionInv /\ Remembered
    BY Zenon DEF IInv
  <1>1. UNCHANGED <<request, home, sink, answer, session, epoch, log, part>>
    BY Zenon DEF PartsStay, query, thread, sessions
  <1>2. events' \in 0 .. MaxEvents
    BY <1>0, Bounds DEF TypeInv
  <1>3. TypeInv'
    BY Zenon, <1>0, <1>1, <1>2 DEF TypeInv, TypeOK, PartsStay, query, thread
  <1>4. SessionInv'
    <2>1. events \in Nat /\ \A q \in Replicas : epoch[q] \in Nat
      BY <1>0, Bounds DEF TypeInv, TypeOK
    <2>2. \A q \in Replicas : epoch[q] <= events' /\ (session[q] = "lost" => epoch[q] < events')
      BY <1>0, <2>1 DEF SessionInv
    <2> QED BY Zenon, <1>0, <1>1, <2>2 DEF SessionInv, At
  <1>5. Remembered'
    BY Zenon, <1>0, <1>1 DEF Remembered, InTable
  <1>6. VisiblePartIsCommittedOrChecked'
    BY Zenon, <1>1 DEF IInv, VisiblePartIsCommittedOrChecked, PartsStay
  <1>7. Promised!Forget
    <2>1. {id \in Ids : blocks'[id] # NoNumber} \in SUBSET {id \in Ids : blocks[id] # NoNumber}
      BY Zenon
    <2> QED BY Zenon, <1>1, <2>1 DEF Promised!Forget
  <1>8. PromiseStep
    BY Zenon, <1>7 DEF PromiseStep, Promised!Next
  <1> QED BY Zenon, <1>3, <1>4, <1>5, <1>6, <1>8, NothingMoves DEF IInv

LEMMA ClearOldBlocksStep ==
    ASSUME IInv, NEW id \in Ids, clearOldBlocks(id)
    PROVE  IInv' /\ PromiseStep
  <1>0. TypeInv
    BY DEF IInv
  <1>1. /\ PartsStay /\ UNCHANGED <<next_block, locks, orphans, cache, cache_due, sessions, drop>>
        /\ blocks' = [blocks EXCEPT ![id] = NoNumber]
        /\ events' = events + 1 /\ events < MaxEvents
    BY Zenon DEF clearOldBlocks, PartsStay, server, caches, Event
  <1>2. /\ blocks' \in [Ids -> 0 .. NoNumber]
        /\ \A x \in Ids : blocks'[x] = NoNumber \/ blocks'[x] = blocks[x]
    BY Zenon, <1>0, <1>1, Zeros DEF TypeInv, TypeOK
  <1> QED BY Zenon, <1>0, <1>1, <1>2, ForgetStep DEF TypeInv

LEMMA CrashStep ==
    ASSUME IInv, NEW r \in Replicas, Crash(r)
    PROVE  IInv' /\ PromiseStep
  <1>s. PICK stopped : stopped = {i \in Inserts : home[i] = r /\ ~At(i, "done")}
    BY Zenon
  <1>0. TypeInv /\ SessionInv
    BY DEF IInv
  <1>1. /\ UNCHANGED <<query, next_block, locks, blocks, log, part_nodes, part, local, cache_due,
                       epoch, drop, home, request>>
        /\ session' = [session EXCEPT ![r] = "crashed"]
        /\ orphans' = orphans \cup (locks \cap NumbersOf(r))
        /\ sink' = [i \in Inserts |-> IF i \in stopped THEN Ended ELSE sink[i]]
        /\ answer' = [i \in Inserts |-> IF i \in stopped THEN "unknown" ELSE answer[i]]
        /\ check_queue' = check_queue \ NumbersOf(r)
        /\ cache' = [cache EXCEPT ![r] = {}]
        /\ events' = events + 1 /\ events < MaxEvents
    BY Zenon, <1>s DEF Crash, Event, query
  <1>2. /\ \A i \in Inserts : i \in stopped => home[i] = r /\ ~At(i, "done") /\ sink'[i].stage = "done"
        /\ \A i \in Inserts : i \notin stopped => sink'[i] = sink[i] /\ answer'[i] = answer[i]
        /\ \A i \in Inserts : home[i] = r => sink'[i].stage = "done"
    BY Zenon, <1>s, <1>1 DEF Ended, At
  <1>3. SinkType'
    <2>1. Ended \in Records /\ "unknown" \in Answers
      BY Bounds DEF Ended, Records, Stages, NoNumber, Answers
    <2> QED BY Zenon, <1>0, <1>1, <2>1, Typed DEF SinkType
  <1>4. /\ session' \in [Replicas -> {"up", "lost", "crashed"}]
        /\ cache' \in [Replicas -> SUBSET Ids]
        /\ session'[r] = "crashed" /\ \A q \in Replicas : q # r => session'[q] = session[q]
        /\ \A q \in Replicas : cache'[q] \subseteq cache[q]
        /\ events' \in 0 .. MaxEvents /\ events \in Nat
    BY <1>0, <1>1, Bounds DEF TypeInv, TypeOK
  <1>5. TypeInv'
    BY Zenon, <1>0, <1>1, <1>3, <1>4 DEF TypeInv, TypeOK, SinkType, Records
  <1>6. SessionInv'
    <2>1. \A q \in Replicas : epoch[q] \in Nat
      BY <1>0, Bounds DEF TypeInv, TypeOK
    <2>2. \A q \in Replicas : epoch'[q] <= events' /\ (session'[q] = "lost" => epoch'[q] < events')
      BY <1>0, <1>1, <1>4, <2>1 DEF SessionInv
    <2>3. ASSUME NEW j \in Inserts
          PROVE  /\ At(j, "multi")' => sink'[j].epoch <= epoch'[home'[j]]
                 /\ At(j, "multi")' /\ sink'[j].number \in orphans' =>
                       session'[home'[j]] = "lost" \/ sink'[j].epoch < epoch'[home'[j]]
                 /\ session'[home'[j]] = "crashed" => At(j, "done")'
      <3>1. home[j] \in Replicas
        BY Zenon, <1>0, Typed
      <3>2. CASE home[j] = r
        BY Zenon, <1>1, <1>2, <3>2 DEF At
      <3>3. CASE home[j] # r
        <4>1. sink'[j] = sink[j]
          BY Zenon, <1>2, <3>3
        <4>2. At(j, "multi") => sink[j].number \notin NumbersOf(r)
          <5>1. OwnPart(j)
            BY DEF IInv
          <5>2. At(j, "multi") => part[sink[j].number].insert = j
            BY <5>1 DEF OwnPart, InFlight, At
          <5> QED BY Zenon, <3>3, <5>2 DEF NumbersOf
        <4> QED BY <1>0, <1>1, <1>4, <3>1, <3>3, <4>1, <4>2 DEF SessionInv, At
      <3> QED BY <3>2, <3>3
    <2> QED BY <2>2, <2>3 DEF SessionInv
  <1>7. \A i \in Inserts : OwnPart(i)' /\ CommitsOnce(i)' /\ RowsLeft(i)'
    <2>1. ASSUME NEW i \in Inserts
          PROVE  OwnPart(i)' /\ CommitsOnce(i)' /\ RowsLeft(i)'
      <3>0. OwnPart(i) /\ CommitsOnce(i) /\ RowsLeft(i)
        BY Zenon DEF IInv
      <3>1. CASE i \in stopped
        BY Zenon, <1>2, <3>1 DEF OwnPart, CommitsOnce, RowsLeft, InFlight, At
      <3>2. CASE i \notin stopped
        BY Zenon, <1>1, <1>2, <3>0, <3>2 DEF OwnPart, CommitsOnce, RowsLeft, InFlight, InTable, At
      <3> QED BY Zenon, <3>1, <3>2
    <2> QED BY Zenon, <2>1
  <1>8. Remembered'
    BY Zenon, <1>1, <1>4 DEF IInv, Remembered, InTable
  <1>9. LocalParts'
    BY Zenon, <1>1 DEF IInv, LocalParts
  <1>10. CommittedPartIsKeptUnlessKilled'
    <2>1. \A j \in Inserts : answer[j] = "cancelled" => answer'[j] = "cancelled"
      BY Zenon, <1>2 DEF IInv, RowsLeft
    <2>2. \A k \in part_nodes : part[k].insert \in Inserts
      BY Zenon, <1>0, Typed DEF TypeInv, TypeOK
    <2>3. CommittedPartIsKeptUnlessKilled
      BY Zenon DEF IInv
    <2> QED BY Zenon, <1>1, <2>1, <2>2, <2>3 DEF CommittedPartIsKeptUnlessKilled
  <1>11. VisiblePartIsCommittedOrChecked'
    <2>1. VisiblePartIsCommittedOrChecked
      BY DEF IInv
    <2>2. \A k \in Numbers : local[k] = "Active" => home[part[k].insert] \in Replicas
      BY <1>0, Typed DEF IInv, LocalParts
    <2> QED BY Zenon, <1>1, <1>4, <2>1, <2>2 DEF VisiblePartIsCommittedOrChecked, NumbersOf
  <1>12. PromiseStep
    <2>1. \A i \in stopped : answer[i] = "none"
      BY Zenon, <1>s DEF IInv, RowsLeft
    <2>2. Promised!Disconnect(stopped)
      BY Zenon, <1>1, <2>1 DEF Promised!Disconnect
    <2>3. stopped \in SUBSET Inserts
      BY Zenon, <1>s
    <2> QED BY Zenon, <2>2, <2>3 DEF PromiseStep, Promised!Next
  <1> QED BY <1>5, <1>6, <1>7, <1>8, <1>9, <1>10, <1>11, <1>12 DEF IInv

-----------------------------------------------------------------------------
LEMMA InitIInv == Init => IInv
  <1> SUFFICES ASSUME Init PROVE IInv
    BY Zenon
  <1>1. \A i \in Inserts : /\ sink[i] = Started(request[i])
                           /\ sink[i].stage = "lock" /\ sink[i].rows = request[i].rows
    BY Zenon DEF Init, Started
  <1>2. request \in [Inserts -> Requests]
    BY Zenon, SinkAssumption DEF Init
  <1>3. \A i \in Inserts : Started(request[i]) \in Records
    BY <1>2, Bounds DEF Started, Requests, Records, Stages, NoNumber
  <1>4. sink \in [Inserts -> Records] /\ answer \in [Inserts -> Answers]
    BY Zenon, <1>3 DEF Init, Answers
  <1>5. /\ part \in [Numbers -> PartRecords] /\ drop \in Drops
    BY Zenon, Zeros DEF Init, NoPart, PartRecords, Drops, Steps
  <1>6. TypeInv
    <2>1. /\ request \in Workloads /\ home \in [Inserts -> Replicas]
          /\ sink \in [Inserts -> [stage : Stages, rows : SUBSET Ids, number : 0 .. NoNumber,
                                   failures : 0 .. MaxRetries, verify_failures : 0 .. MaxRetries,
                                   epoch : 0 .. MaxEvents]]
          /\ answer \in [Inserts -> Answers]
      BY Zenon, <1>4 DEF Init, Records
    <2>2. /\ next_block \in 0 .. MaxBlocks
          /\ blocks \in [Ids -> 0 .. NoNumber] /\ events \in 0 .. MaxEvents
      BY Bounds, Zeros DEF Init
    <2>3. /\ orphans \subseteq locks /\ locks \subseteq 0 .. next_block - 1
          /\ part_nodes \subseteq log /\ log \subseteq 0 .. next_block - 1
          /\ \A n \in log : part[n].insert \in Inserts
          /\ check_queue \subseteq Numbers
      BY Zenon DEF Init
    <2>4. /\ local \in [Numbers -> {"none", "PreActive", "Active"}]
          /\ session \in [Replicas -> {"up", "lost", "crashed"}]
          /\ epoch \in [Replicas -> 0 .. MaxEvents]
          /\ cache \in [Replicas -> SUBSET Ids] /\ cache_due \in [Replicas -> BOOLEAN]
      BY Zenon, Zeros DEF Init
    <2> QED BY Zenon, <1>5, <2>1, <2>2, <2>3, <2>4 DEF TypeInv, TypeOK
  <1>7. SessionInv
    <2>1. \A r \in Replicas : epoch[r] = 0 /\ session[r] = "up"
      BY Zenon DEF Init
    <2>2. events = 0 /\ \A i \in Inserts : home[i] \in Replicas /\ ~At(i, "multi")
      BY Zenon, <1>1 DEF Init, At
    <2> QED BY <2>1, <2>2 DEF SessionInv
  <1>8. \A i \in Inserts : OwnPart(i) /\ CommitsOnce(i) /\ RowsLeft(i)
    <2>1. ASSUME NEW i \in Inserts
          PROVE  request[i].rows # {}
      <3>1. CASE request[i].async
        BY Zenon, <1>6, <3>1, RequestShape
      <3>2. CASE ~request[i].async
        <4>1. PICK id \in Ids : request[i].rows = {id}
          BY Zenon, <1>6, <3>2, RequestShape
        <4> QED BY Zenon, <4>1
      <3> QED BY Zenon, <3>1, <3>2
    <2> QED BY Zenon, <1>1, <2>1 DEF Init, OwnPart, CommitsOnce, RowsLeft, InFlight, At
  <1>9. Remembered /\ LocalParts
    BY Zenon DEF Init, Remembered, LocalParts
  <1>10. CommittedPartIsKeptUnlessKilled /\ VisiblePartIsCommittedOrChecked
    BY Zenon DEF Init, CommittedPartIsKeptUnlessKilled, VisiblePartIsCommittedOrChecked
  <1> QED BY Zenon, <1>6, <1>7, <1>8, <1>9, <1>10 DEF IInv

(* The allocation of a block number, answered and not.                     *)

LEMMA AllocatedRecord ==
    ASSUME NEW s \in Records, NEW n \in 0 .. NoNumber, NEW e \in 0 .. MaxEvents
    PROVE  [s EXCEPT !.stage = "multi", !.number = n, !.epoch = e] \in Records
  BY Zenon DEF Records, Stages

LEMMA AllocateEffect ==
    ASSUME TypeInv, NEW i \in Inserts, allocateBlockNumber(i)
    PROVE  /\ SinkType' /\ OthersStay(i) /\ answer' = answer
           /\ Becomes(i, "multi", sink[i].rows, next_block)
           /\ sink'[i].epoch = epoch[home[i]]
  <1> DEFINE new == [sink[i] EXCEPT !.stage = "multi", !.number = next_block,
                                    !.epoch = epoch[home[i]]]
  <1>0. SinkType
    BY Zenon, Typed
  <1>1. sink[i] \in Records /\ next_block \in 0 .. NoNumber /\ epoch[home[i]] \in 0 .. MaxEvents
    BY Zenon, <1>0 DEF SinkType, TypeInv, TypeOK, NoNumber
  <1>2. new \in Records
    BY Zenon, <1>1, AllocatedRecord
  <1>4. /\ new.stage = "multi" /\ new.rows = sink[i].rows
        /\ new.number = next_block /\ new.epoch = epoch[home[i]]
    BY Zenon, <1>1 DEF Records
  <1>3. sink' = [sink EXCEPT ![i] = new] /\ answer' = answer
    BY Zenon, <1>0 DEF allocateBlockNumber, SinkType
  <1> HIDE DEF new
  <1> QED BY Zenon, <1>0, <1>2, <1>3, <1>4 DEF SinkType, OthersStay, Becomes

LEMMA PromiseIgnoresUnwritten ==
    ASSUME UNCHANGED <<query, log, blocks, answer>>, \A n \in log : part'[n] = part[n]
    PROVE  PromiseStep
  <1>1. {[name |-> n, insert |-> part'[n].insert, rows |-> part'[n].rows] : n \in log'}
          = {[name |-> n, insert |-> part[n].insert, rows |-> part[n].rows] : n \in log}
    BY Zenon
  <1> QED BY Zenon, <1>1 DEF PromiseStep, Promised!vars, query

LEMMA AllocateStep ==
    ASSUME IInv, NEW i \in Inserts, allocateBlockNumber(i)
    PROVE  IInv' /\ PromiseStep
  <1>0. TypeInv /\ RowsLeft(i) /\ SessionInv /\ LocalParts
    BY Zenon DEF IInv
  <1>1. /\ UNCHANGED <<query, answer, orphans, blocks, log, part_nodes, check_queue, cache,
                       cache_due, session, epoch, drop, events>>
        /\ At(i, "lock") /\ Up(i) /\ next_block < MaxBlocks /\ next_block' = next_block + 1
        /\ locks' = locks \cup {next_block}
        /\ part' = [part EXCEPT ![next_block] = [rows |-> sink[i].rows, insert |-> i]]
        /\ local' = [local EXCEPT ![next_block] = "PreActive"]
    BY Zenon DEF allocateBlockNumber, CreateLock, MayLock, caches, sessions
  <1>2. /\ SinkType' /\ OthersStay(i)
        /\ sink'[i].stage = "multi" /\ sink'[i].rows = sink[i].rows
        /\ sink'[i].number = next_block /\ sink'[i].epoch = epoch[home[i]]
    BY Zenon, <1>0, AllocateEffect DEF Becomes
  <1>3. NothingCommitted(i) /\ ~At(i, "done")
    BY Zenon, <1>1, BeforeCommit DEF At
  <1>4. next_block \in Numbers /\ \A n \in 0 .. next_block - 1 : n \in Numbers /\ n # next_block
    BY <1>0, <1>1, Typed, Bounds DEF Numbers
  <1>5. /\ \A n \in Numbers : n # next_block => part'[n] = part[n] /\ local'[n] = local[n]
        /\ part'[next_block] = [rows |-> sink[i].rows, insert |-> i]
        /\ local'[next_block] = "PreActive"
        /\ part' \in [Numbers -> PartRecords]
        /\ local' \in [Numbers -> {"none", "PreActive", "Active"}]
    <2>1. /\ part \in [Numbers -> PartRecords]
          /\ local \in [Numbers -> {"none", "PreActive", "Active"}]
      BY Zenon, <1>0 DEF TypeInv, TypeOK
    <2>2. [rows |-> sink[i].rows, insert |-> i] \in PartRecords
      BY Zenon, <1>0, Typed DEF PartRecords
    <2> QED BY Zenon, <1>1, <1>4, <2>1, <2>2
  <1>6. TypeInv'
    <2>1. next_block' \in 0 .. MaxBlocks
      BY <1>0, <1>1, Typed, Bounds
    <2>2. orphans' \subseteq locks' /\ locks' \subseteq 0 .. next_block' - 1
      BY <1>0, <1>1 DEF TypeInv, TypeOK
    <2>3. part_nodes' \subseteq log' /\ log' \subseteq 0 .. next_block' - 1
      BY <1>0, <1>1 DEF TypeInv, TypeOK
    <2>4. \A n \in log' : part'[n].insert \in Inserts
      BY Zenon, <1>0, <1>1, <1>4, <1>5 DEF TypeInv, TypeOK
    <2> QED BY Zenon, <1>0, <1>1, <1>2, <1>5, <2>1, <2>2, <2>3, <2>4
            DEF TypeInv, TypeOK, SinkType, Records, query
  <1>7. SessionInv'
    <2>1. \A j \in Inserts : j # i => sink'[j] = sink[j]
      BY Zenon, <1>2 DEF OthersStay
    <2>2. next_block \notin orphans /\ epoch[home[i]] \in Nat /\ session[home[i]] = "up"
      BY <1>0, <1>1, Typed DEF TypeInv, TypeOK, Up
    <2> QED BY <1>0, <1>1, <1>2, <2>1, <2>2 DEF SessionInv, At, query
  <1>8. OnlyOwnPart(i)
    BY Zenon, <1>1, <1>4, <1>5 DEF OnlyOwnPart
  <1>9. OwnPart(i)' /\ CommitsOnce(i)' /\ RowsLeft(i)'
    <2>1. OwnPart(i)'
      BY <1>0, <1>1, <1>2, <1>5, Typed DEF OwnPart, LocalParts
    <2>2. CommitsOnce(i)'
      BY Zenon, <1>0, <1>1, <1>2, <1>3, <1>4, <1>5, Typed DEF CommitsOnce, NothingCommitted, At
    <2>3. RowsLeft(i)'
      BY Zenon, <1>0, <1>1, <1>2, <1>3, <1>8, TableGrows DEF RowsLeft, At, query
    <2> QED BY Zenon, <2>1, <2>2, <2>3
  <1>10. \A j \in Inserts : OwnPart(j)' /\ CommitsOnce(j)' /\ RowsLeft(j)'
    BY Zenon, <1>2, <1>8, <1>9, OthersKeep
  <1>11. Remembered'
    BY Zenon, <1>0, <1>1, <1>8, TableGrows DEF IInv, Remembered
  <1>12. LocalParts'
    <2>1. check_queue' \subseteq 0 .. next_block' - 1
      BY <1>0, <1>1, Typed DEF LocalParts
    <2>2. ASSUME NEW n \in Numbers, local'[n] # "none"
          PROVE  n < next_block' /\ part'[n].insert \in Inserts
      BY <1>0, <1>1, <1>5, <2>2, Typed, Bounds DEF LocalParts, Numbers
    <2> QED BY Zenon, <2>1, <2>2 DEF LocalParts
  <1>13. CommittedPartIsKeptUnlessKilled'
    BY Zenon, <1>0, <1>1, <1>4, <1>5, Typed DEF IInv, CommittedPartIsKeptUnlessKilled
  <1>14. VisiblePartIsCommittedOrChecked'
    <2>1. VisiblePartIsCommittedOrChecked /\ home' = home
      BY Zenon, <1>1 DEF IInv, query
    <2>2. ASSUME NEW n \in Numbers, local'[n] = "Active"
          PROVE  n # next_block /\ local[n] = "Active" /\ part'[n] = part[n]
      BY Zenon, <1>5, <2>2
    <2> QED BY Zenon, <1>1, <2>1, <2>2 DEF VisiblePartIsCommittedOrChecked
  <1>15. PromiseStep
    BY Zenon, <1>0, <1>1, <1>4, <1>5, Typed, PromiseIgnoresUnwritten
  <1> QED BY Zenon, <1>6, <1>7, <1>10, <1>11, <1>12, <1>13, <1>14, <1>15 DEF IInv

LEMMA AllocateLostStep ==
    ASSUME IInv, NEW i \in Inserts, allocateBlockNumberLost(i)
    PROVE  IInv' /\ PromiseStep
  <1> DEFINE L == {next_block} \cup (locks \cap NumbersOf(home[i]))
  <1>0. TypeInv /\ RowsLeft(i)
    BY Zenon DEF IInv
  <1>1. /\ UNCHANGED <<query, blocks, log, part_nodes, part, local, check_queue, cache,
                       cache_due, drop, epoch>>
        /\ At(i, "lock") /\ next_block < MaxBlocks /\ next_block' = next_block + 1
        /\ locks' = locks \cup {next_block} /\ orphans' = orphans \cup L
        /\ Retry(i, "lock") /\ LoseSession(home[i], L)
    BY Zenon DEF allocateBlockNumberLost, CreateLock, MayLock, caches, server, LoseSession
  <1>2. /\ SinkType' /\ OthersStay(i)
        /\ \/ Becomes(i, "lock", sink[i].rows, NoNumber) /\ answer' = answer
           \/ Ends(i, "error")
    BY Zenon, <1>0, <1>1, Typed, RetryEffect DEF Stages
  <1>3. NothingCommitted(i) /\ ~At(i, "done")
    BY Zenon, <1>1, BeforeCommit DEF At
  <1>4. OwnPart(i)' /\ CommitsOnce(i)' /\ RowsLeft(i)' /\ sink'[i].stage # "multi"
    <2>1. CASE Becomes(i, "lock", sink[i].rows, NoNumber)
      BY Zenon, <1>0, <1>1, <1>3, <2>1, Uncommitted DEF RowsLeft, At
    <2>2. CASE Ends(i, "error")
      BY Zenon, <2>2, EndsKeeps
    <2> QED BY Zenon, <1>2, <2>1, <2>2
  <1>5. /\ SessionInv'
        /\ session' \in [Replicas -> {"up", "lost", "crashed"}]
        /\ events' \in 0 .. MaxEvents
        /\ \A q \in Replicas : session'[q] = "crashed" <=> session[q] = "crashed"
    <2>1. L \subseteq NumbersOf(home[i]) \cup {next_block} /\ home[i] \in Replicas /\ home' = home
      BY Zenon, <1>0, <1>1, Typed DEF query
    <2>2. \A j \in Inserts : \/ sink'[j] = sink[j]
                             \/ sink'[j].stage # "multi" /\ sink[j].stage # "done"
      BY Zenon, <1>2, <1>3, <1>4 DEF OthersStay, At
    <2> HIDE DEF L
    <2> QED BY Zenon, <1>1, <2>1, <2>2, SessionEnds
  <1>6. TypeInv'
    <2>1. next_block' \in 0 .. MaxBlocks
      BY <1>0, <1>1, Typed, Bounds
    <2>2. orphans' \subseteq locks' /\ locks' \subseteq 0 .. next_block' - 1
      <3>1. orphans \subseteq locks /\ locks \subseteq 0 .. next_block - 1 /\ next_block \in Nat
        BY Zenon, <1>0, Typed DEF TypeInv, TypeOK
      <3>2. L \subseteq locks'
        BY Zenon, <1>1
      <3> HIDE DEF L
      <3>3. orphans' \subseteq locks'
        BY Zenon, <1>1, <3>1, <3>2
      <3>4. locks' \subseteq 0 .. next_block' - 1
        BY <1>1, <3>1
      <3> QED BY Zenon, <3>3, <3>4
    <2>3. log' \subseteq 0 .. next_block' - 1
      BY <1>0, <1>1 DEF TypeInv, TypeOK
    <2> QED BY Zenon, <1>0, <1>1, <1>2, <1>5, <2>1, <2>2, <2>3
            DEF TypeInv, TypeOK, SinkType, Records, query
  <1>7. OnlyOwnPart(i)
    BY Zenon, <1>1 DEF OnlyOwnPart
  <1>8. \A j \in Inserts : OwnPart(j)' /\ CommitsOnce(j)' /\ RowsLeft(j)'
    BY Zenon, <1>2, <1>4, <1>7, OthersKeep
  <1>9. Remembered'
    BY Zenon, <1>0, <1>1, <1>7, TableGrows DEF IInv, Remembered
  <1>10. LocalParts'
    <2>1. LocalParts /\ next_block \in Nat
      BY Zenon, <1>0, Typed DEF IInv
    <2>2. ASSUME NEW n \in Numbers, local'[n] # "none"
          PROVE  n < next_block' /\ part'[n].insert \in Inserts
      <3>1. n < next_block
        BY Zenon, <1>1, <2>1, <2>2 DEF LocalParts
      <3>2. part'[n].insert \in Inserts
        BY Zenon, <1>1, <2>1, <2>2 DEF LocalParts
      <3>3. next_block' = next_block + 1 /\ next_block \in Nat
        BY Zenon, <1>1, <2>1
      <3>4. n \in Nat
        BY Bounds DEF Numbers
      <3>5. n < next_block'
        BY <3>1, <3>3, <3>4
      <3> QED BY Zenon, <3>2, <3>5
    <2>3. check_queue' \subseteq 0 .. next_block' - 1
      <3>1. check_queue' \subseteq 0 .. next_block - 1
        BY Zenon, <1>1, <2>1 DEF LocalParts
      <3>2. next_block' = next_block + 1 /\ next_block \in Nat
        BY Zenon, <1>1, <2>1
      <3>3. 0 .. next_block - 1 \subseteq 0 .. next_block' - 1
        BY <3>2
      <3> QED BY Zenon, <3>1, <3>3
    <2> QED BY Zenon, <2>2, <2>3 DEF LocalParts
  <1>11. CommittedPartIsKeptUnlessKilled'
    <2>1. \A j \in Inserts : answer[j] = "cancelled" => answer'[j] = "cancelled"
      BY Zenon, <1>0, <1>2, <1>3 DEF RowsLeft, OthersStay
    <2>2. \A k \in part_nodes : part[k].insert \in Inserts
      BY Zenon, <1>0, Typed DEF TypeInv, TypeOK
    <2>3. CommittedPartIsKeptUnlessKilled
      BY Zenon DEF IInv
    <2> QED BY Zenon, <1>1, <2>1, <2>2, <2>3 DEF CommittedPartIsKeptUnlessKilled
  <1>12. VisiblePartIsCommittedOrChecked'
    BY Zenon, <1>0, <1>1, <1>5, Typed DEF IInv, LocalParts, VisiblePartIsCommittedOrChecked, query
  <1>13. PromiseStep
    BY Zenon, <1>1, <1>2, <1>3, PromiseStutters, PromiseReplies DEF NothingCommitted, Answers
  <1> QED BY Zenon, <1>5, <1>6, <1>8, <1>9, <1>10, <1>11, <1>12, <1>13 DEF IInv

-----------------------------------------------------------------------------
(* DROP PARTITION.                                                         *)

LEMMA ExecuteDropRangeStep ==
    ASSUME IInv, NEW r \in Replicas, executeDropRange(r)
    PROVE  IInv' /\ PromiseStep
  <1>s. PICK removed : removed = {n \in NumbersOf(r) : /\ Dropped(n)
                                                       /\ local[n] = "Active" \/ n \in check_queue}
    BY Zenon
  <1>0. TypeInv /\ LocalParts
    BY Zenon DEF IInv
  <1>1. /\ UNCHANGED <<query, thread, next_block, locks, orphans, blocks, log, part, cache,
                       cache_due, session, epoch, events, home, sink, answer>>
        /\ local' = [n \in Numbers |-> IF n \in removed THEN "none" ELSE local[n]]
        /\ part_nodes' = part_nodes \ removed
        /\ check_queue' = check_queue \ removed
        /\ drop' = [drop EXCEPT !.executed = drop.executed \cup {r}]
    BY Zenon, <1>s DEF executeDropRange, query, thread, caches, sessions
  <1>2. drop' \in Drops
    BY Zenon, <1>0, <1>1 DEF TypeInv, Drops
  <1>3. local' \in [Numbers -> {"none", "PreActive", "Active"}]
    BY Zenon, <1>0, <1>1 DEF TypeInv, TypeOK
  <1>4. \A n \in Numbers : local'[n] = IF n \in removed THEN "none" ELSE local[n]
    BY Zenon, <1>1
  <1>5. TypeInv'
    BY Zenon, <1>0, <1>1, <1>2, <1>3 DEF TypeInv, TypeOK, query
  <1>6. SessionInv'
    BY Zenon, <1>1 DEF IInv, SessionInv, At
  <1>7. \A i \in Inserts : OwnPart(i)' /\ CommitsOnce(i)' /\ RowsLeft(i)'
    <2>1. ASSUME NEW i \in Inserts, InFlight(i)
          PROVE  sink[i].number \notin removed /\ local'[sink[i].number] = local[sink[i].number]
      <3>1. /\ sink[i].number < next_block /\ local[sink[i].number] = "PreActive"
            /\ sink[i].number \notin check_queue
        BY Zenon, <2>1 DEF IInv, OwnPart
      <3>2. sink[i].number \in Numbers /\ sink[i].number \notin removed
        <4>1. sink[i].number \in Nat /\ next_block \in Nat /\ next_block <= MaxBlocks
          BY Zenon, <1>0, Typed
        <4>2. sink[i].number \in Numbers
          BY <3>1, <4>1, Bounds DEF Numbers
        <4>3. "PreActive" # "Active"
          OBVIOUS
        <4> QED BY Zenon, <1>s, <3>1, <4>2, <4>3
      <3> QED BY Zenon, <1>4, <3>2
    <2> QED BY Zenon, <1>1, <2>1, InsertsStay
  <1>8. Remembered'
    BY Zenon, <1>1 DEF IInv, Remembered, InTable
  <1>9. LocalParts'
    BY Zenon, <1>0, <1>1, <1>4 DEF LocalParts
  <1>10. CommittedPartIsKeptUnlessKilled'
    <2>1. CommittedPartIsKeptUnlessKilled /\ part_nodes \subseteq Numbers
      BY Zenon, <1>0, Typed DEF IInv
    <2> QED BY Zenon, <1>1, <1>4, <2>1 DEF CommittedPartIsKeptUnlessKilled
  <1>11. VisiblePartIsCommittedOrChecked'
    <2>1. VisiblePartIsCommittedOrChecked
      BY DEF IInv
    <2> QED BY Zenon, <1>1, <1>4, <2>1 DEF VisiblePartIsCommittedOrChecked
  <1>12. PromiseStep
    BY Zenon, <1>1, PromiseStutters
  <1> QED BY <1>5, <1>6, <1>7, <1>8, <1>9, <1>10, <1>11, <1>12 DEF IInv

LEMMA DropStep ==
    ASSUME IInv, Drop
    PROVE  IInv' /\ PromiseStep
  <1>0. TypeInv /\ drop \in Drops
    BY Zenon DEF IInv, TypeInv
  <1>1. CASE DropAllocate
    <2>1. /\ PartsStay /\ UNCHANGED <<blocks, cache, cache_due, sessions, locks, orphans>>
          /\ next_block' = next_block + 1 /\ next_block < MaxBlocks /\ 0 < next_block
          /\ events' = events + 1 /\ events < MaxEvents
          /\ drop' = [drop EXCEPT !.step = "locks", !.max = next_block - 1]
      BY Zenon, <1>1 DEF DropAllocate, PartsStay, server, caches, Event
    <2>2. next_block - 1 \in 0 .. NoNumber /\ "locks" \in Steps
      BY <1>0, <2>1, Typed, Bounds DEF NoNumber, Steps
    <2>3. drop' \in Drops
      BY Zenon, <1>0, <2>1, <2>2 DEF Drops
    <2> QED BY Zenon, <1>0, <2>1, <2>3, BookkeepingStep, CacheDueType
  <1>2. CASE clearLockedBlockNumbersInPartition
    <2>1. PICK cancelled : locks' = locks \ cancelled /\ orphans' = orphans \ cancelled
      BY Zenon, <1>2 DEF clearLockedBlockNumbersInPartition
    <2>2. /\ PartsStay /\ UNCHANGED <<blocks, cache, cache_due, sessions, next_block, events>>
          /\ drop' = [drop EXCEPT !.step = "list"]
      BY Zenon, <1>2 DEF clearLockedBlockNumbersInPartition, PartsStay, server, caches
    <2>3. drop' \in Drops
      BY Zenon, <1>0, <2>2 DEF Drops, Steps
    <2>4. locks' \subseteq locks /\ orphans' \subseteq orphans /\ orphans' \subseteq locks'
      BY Zenon, <1>0, <2>1, CacheDueType
    <2> QED BY Zenon, <2>2, <2>3, <2>4, BookkeepingStep
  <1>3. CASE getClearBlocksInPartitionOps
    <2> DEFINE listed == {id \in Ids : blocks[id] <= drop.max}
    <2>1. /\ PartsStay /\ UNCHANGED <<keeper, caches, sessions, events>>
          /\ drop' = [drop EXCEPT !.step = "blocks", !.ids = listed]
      BY Zenon, <1>3 DEF getClearBlocksInPartitionOps, PartsStay, server, keeper
    <2>2. listed \in SUBSET Ids /\ "blocks" \in Steps
      BY Zenon DEF Steps
    <2> HIDE DEF listed
    <2>3. drop' \in Drops
      BY Zenon, <1>0, <2>1, <2>2 DEF Drops
    <2> QED BY Zenon, <1>0, <2>1, <2>3, BookkeepingStep, CacheDueType DEF keeper, caches
  <1>4. CASE clearBlocksInPartition
    <2>1. /\ PartsStay
          /\ UNCHANGED <<next_block, locks, orphans, cache, cache_due, sessions, events>>
          /\ drop' = [drop EXCEPT !.step = "log", !.ids = {}]
      BY Zenon, <1>4 DEF clearBlocksInPartition, PartsStay, server, caches
    <2>2. drop' \in Drops
      BY Zenon, <1>0, <2>1 DEF Drops, Steps
    <2>3. /\ blocks' \in [Ids -> 0 .. NoNumber]
          /\ \A x \in Ids : blocks'[x] = NoNumber \/ blocks'[x] = blocks[x]
      BY Zenon, <1>0, <1>4, Zeros DEF clearBlocksInPartition, TypeInv, TypeOK
    <2> QED BY Zenon, <2>1, <2>2, <2>3, ForgetStep
  <1>5. CASE DropCommit
    <2>1. /\ PartsStay /\ UNCHANGED <<keeper, caches, sessions, events>>
          /\ drop' = [drop EXCEPT !.step = "logged"]
      BY Zenon, <1>5 DEF DropCommit, PartsStay, server, keeper
    <2>2. drop' \in Drops
      BY Zenon, <1>0, <2>1 DEF Drops, Steps
    <2> QED BY Zenon, <1>0, <2>1, <2>2, BookkeepingStep, CacheDueType DEF keeper, caches
  <1>6. CASE \E r \in Replicas : executeDropRange(r)
    BY Zenon, <1>6, ExecuteDropRangeStep
  <1> QED BY Zenon, <1>1, <1>2, <1>3, <1>4, <1>5, <1>6 DEF Drop

-----------------------------------------------------------------------------
(* Every step keeps the invariant and is a step of the promise, or none.   *)
LEMMA NextStep ==
    ASSUME IInv, [Next]_vars
    PROVE  IInv' /\ PromiseStep
  <1>1. ASSUME NEW i \in Inserts, Insert(i)
        PROVE  IInv' /\ PromiseStep
    BY Zenon, <1>1, AllocateStep, FoundDuplicateStep, FoundConflictStep, ResolveDuplicateStep,
       RequestFailsStep, MultiOkStep, MultiFailsStep, MultiConflictStep, MultiCancelledStep,
       VerifyFoundStep, VerifyNotFoundStep, VerifyFailsStep, LocalCommitStep DEF Insert
  <1>2. ASSUME NEW r \in Replicas, Server(r)
        PROVE  IInv' /\ PromiseStep
    BY Zenon, <1>2, RestartingThreadStep, StartStep, CacheUpdateStep DEF Server
  <1>3. ASSUME NEW n \in Numbers, Expire(n) \/ PartCheck(n)
        PROVE  IInv' /\ PromiseStep
    BY Zenon, <1>3, ExpireStep, PartCheckStep
  <1>4. ASSUME Fault
        PROVE  IInv' /\ PromiseStep
    BY Zenon, <1>4, AllocateLostStep, MultiLostStep, SessionLostStep, CrashStep DEF Fault
  <1>5. CASE UNCHANGED vars
    <2>1. /\ PartsStay
          /\ UNCHANGED <<next_block, locks, orphans, blocks, cache, cache_due, sessions, drop, events>>
      BY Zenon, <1>5 DEF vars, PartsStay, query, thread, keeper, server, caches, sessions
    <2>2. TypeInv
      BY Zenon DEF IInv
    <2> QED BY Zenon, <2>1, <2>2, BookkeepingStep, CacheDueType DEF TypeInv
  <1> QED BY Zenon, <1>1, <1>2, <1>3, <1>4, <1>5, DropStep, ClearOldBlocksStep DEF Next

LEMMA InvariantHolds == Spec => []IInv
  <1>1. IInv /\ [Next]_vars => IInv'
    BY Zenon, NextStep
  <1> QED BY <1>1, InitIInv, PTL DEF Spec

(* Every variable keeps its type, and the nodes in ZooKeeper name parts    *)
(* that were written.                                                      *)
THEOREM TypeCorrect == Spec => []TypeOK
  <1>1. IInv => TypeOK
    BY Zenon DEF IInv, TypeInv
  <1> QED BY <1>1, InvariantHolds, PTL

(* A part that is registered in ZooKeeper for its replica is on the disk   *)
(* of that replica, unless commitPart was unwound by a cancelled query     *)
(* while it looked for the outcome of its multi request.                   *)
THEOREM CommittedPartsAreKept == Spec => []CommittedPartIsKeptUnlessKilled
  <1>1. IInv => CommittedPartIsKeptUnlessKilled
    BY Zenon DEF IInv
  <1> QED BY <1>1, InvariantHolds, PTL

(* A replica shows no part that ZooKeeper does not know, except one whose  *)
(* check commitPart has scheduled, or before the start-up of the server    *)
(* has compared the disk with ZooKeeper.                                   *)
THEOREM VisiblePartsAreCommitted == Spec => []VisiblePartIsCommittedOrChecked
  <1>1. IInv => VisiblePartIsCommittedOrChecked
    BY Zenon DEF IInv
  <1> QED BY <1>1, InvariantHolds, PTL

(* commitPart implements the promise of INSERT: no row is written twice    *)
(* while its id is remembered, nor ever by the same query, and every       *)
(* answer a client gets is true, under any number of lost answers and      *)
(* sessions, retries, crashes, and a concurrent DROP PARTITION.            *)
THEOREM SinkImplementsPromise == Spec => ImplementsPromise
  <1>1. Init => Promised!Init
    <2> SUFFICES ASSUME Init PROVE Promised!Init
      OBVIOUS
    <2>1. request \in [Inserts -> Requests]
      BY SinkAssumption DEF Init
    <2>2. [i \in Inserts |-> request[i].rows] \in [Inserts -> SUBSET Ids]
      BY Zenon, <2>1 DEF Requests
    <2> QED BY Zenon, <2>2 DEF Init, Promised!Init
  <1>2. IInv /\ [Next]_vars => [Promised!Next]_(Promised!vars)
    BY Zenon, NextStep DEF PromiseStep
  <1> QED BY <1>1, <1>2, InvariantHolds, PTL DEF Spec, ImplementsPromise, Promised!Spec
==============================================================================
