----------------------------- MODULE RWLockProofs -----------------------------
(***************************************************************************)
(* What RWLockImpl promises, for any number of threads and queries.        *)
(***************************************************************************)
EXTENDS RWLock, FiniteSetTheorems, TLAPS

-----------------------------------------------------------------------------
(* Queues: sequences in which no group is twice.                           *)
IsQueue(q) == q \in Seq(Groups) /\ \A i, j \in 1 .. Len(q) : q[i] = q[j] => i = j

LEMMA GroupsAreNotEnd == \A g \in Groups : g # End
  BY RWLockAssumption, FS_CardinalityType DEF Groups, End

LEMMA QueueTypes ==
    ASSUME NEW q, IsQueue(q)
    PROVE  /\ Len(q) \in Nat
           /\ \A i \in 1 .. Len(q) : q[i] \in Groups /\ q[i] \in Members(q) /\ q[i] # End
           /\ Members(q) \subseteq Groups
  <1>1. Len(q) \in Nat /\ \A i \in 1 .. Len(q) : q[i] \in Groups
    BY DEF IsQueue
  <1> QED BY Zenon, <1>1, GroupsAreNotEnd DEF Members

LEMMA PositionFacts ==
    ASSUME NEW q, IsQueue(q), NEW j \in 1 .. Len(q)
    PROVE  Position(q, q[j]) = j
  BY DEF IsQueue, Position

(* r is q without its element at j, or with g at its end.                  *)
Without(q, j, r) ==
    /\ IsQueue(r) /\ Len(r) = Len(q) - 1
    /\ \A i \in 1 .. Len(r) : r[i] = q[IF i < j THEN i ELSE i + 1]
    /\ Members(r) = Members(q) \ {q[j]}

With(q, g, r) ==
    /\ IsQueue(r) /\ Len(r) = Len(q) + 1 /\ r[Len(r)] = g
    /\ \A i \in 1 .. Len(q) : r[i] = q[i]
    /\ Members(r) = Members(q) \cup {g}

LEMMA EraseFacts ==
    ASSUME NEW q, IsQueue(q), NEW j \in 1 .. Len(q)
    PROVE  Without(q, j, erase(q, q[j]))
  <1>0. PICK r : r = erase(q, q[j])
    BY Zenon
  <1> DEFINE n == Len(q) - 1
             f(i) == IF i < j THEN i ELSE i + 1
  <1>1. r = [i \in 1 .. n |-> q[f(i)]]
    <2>1. q[j] \in Members(q)
      BY Zenon DEF Members
    <2> QED BY <1>0, <2>1, PositionFacts DEF erase
  <1>2. n \in Nat /\ \A i \in 1 .. n : f(i) \in 1 .. Len(q) /\ f(i) # j
    BY DEF IsQueue
  <1>3. \A i \in 1 .. n : q[f(i)] \in Groups
    BY <1>2 DEF IsQueue
  <1>4. r \in Seq(Groups) /\ Len(r) = n
    BY <1>1, <1>2, <1>3
  <1>5. \A i \in 1 .. n : r[i] = q[f(i)]
    BY <1>1
  <1>6. IsQueue(r)
    <2>1. \A i, k \in 1 .. n : f(i) = f(k) => i = k
      BY <1>2
    <2> HIDE DEF f, n
    <2>2. ASSUME NEW i \in 1 .. n, NEW k \in 1 .. n, r[i] = r[k] PROVE i = k
      <3>1. q[f(i)] = q[f(k)]
        BY Zenon, <1>5, <2>2
      <3>2. f(i) = f(k)
        BY Zenon, <1>2, <3>1 DEF IsQueue
      <3> QED BY Zenon, <2>1, <3>2
    <2> QED BY <1>4, <2>2 DEF IsQueue
  <1>7. \A i \in 1 .. Len(q) : i # j => \E k \in 1 .. n : f(k) = i
    <2> SUFFICES ASSUME NEW i \in 1 .. Len(q), i # j PROVE \E k \in 1 .. n : f(k) = i
      OBVIOUS
    <2>1. CASE i < j
      <3>1. i \in 1 .. n /\ f(i) = i
        BY <2>1 DEF IsQueue
      <3> QED BY <3>1
    <2>2. CASE i > j
      <3>1. i - 1 \in 1 .. n /\ f(i - 1) = i
        BY <2>2 DEF IsQueue
      <3> QED BY <3>1
    <2> QED BY <2>1, <2>2
  <1>8. Members(r) = Members(q) \ {q[j]}
    <2> HIDE DEF f, n
    <2>1. ASSUME NEW g \in Members(r) PROVE g \in Members(q) \ {q[j]}
      <3>1. PICK i \in 1 .. n : g = r[i]
        BY <1>4, <2>1 DEF Members
      <3>2. g = q[f(i)] /\ f(i) \in 1 .. Len(q) /\ f(i) # j
        BY Zenon, <1>2, <1>5, <3>1
      <3> QED BY Zenon, <3>2 DEF Members, IsQueue
    <2>2. ASSUME NEW g \in Members(q) \ {q[j]} PROVE g \in Members(r)
      BY <1>4, <1>5, <1>7, <2>2 DEF Members
    <2> QED BY Zenon, <2>1, <2>2
  <1> QED BY <1>0, <1>4, <1>5, <1>6, <1>8 DEF Without

LEMMA EraseOther ==
    ASSUME NEW q, NEW g, g \notin Members(q) PROVE erase(q, g) = q
  BY Zenon DEF erase

LEMMA AppendFacts ==
    ASSUME NEW q, IsQueue(q), NEW g \in Groups, g \notin Members(q)
    PROVE  With(q, g, Append(q, g))
  <1>0. PICK r : r = Append(q, g)
    BY Zenon
  <1>1. /\ r \in Seq(Groups) /\ Len(r) = Len(q) + 1 /\ r[Len(q) + 1] = g /\ Len(q) \in Nat
        /\ \A i \in 1 .. Len(q) : r[i] = q[i]
    BY <1>0 DEF IsQueue
  <1>2. \A i \in 1 .. Len(r) : i \in 1 .. Len(q) \/ i = Len(q) + 1
    BY <1>1
  <1>3. \A i \in 1 .. Len(q) : q[i] # g /\ i \in 1 .. Len(r)
    BY <1>1 DEF Members
  <1>4. IsQueue(r)
    BY <1>1, <1>2, <1>3 DEF IsQueue
  <1>5. Members(r) = Members(q) \cup {g}
    <2>1. Len(q) + 1 \in 1 .. Len(r)
      BY <1>1
    <2>2. \A h \in Members(r) : h \in Members(q) \cup {g}
      BY Zenon, <1>1, <1>2 DEF Members
    <2>3. \A h \in Members(q) \cup {g} : h \in Members(r)
      BY Zenon, <1>1, <1>3, <2>1 DEF Members
    <2> QED BY Zenon, <2>2, <2>3
  <1> QED BY <1>0, <1>1, <1>4, <1>5 DEF With

-----------------------------------------------------------------------------
(* The inductive invariant.  The first k groups of readers own the lock;   *)
(* at most one more waits, and only while there are writers.  The first    *)
(* writer may own the lock when no reader does, and the lock is free only  *)
(* when nobody waits.                                                      *)
Phase(rq, wq, ro, wo, k) ==
    /\ k \in 0 .. Len(rq) /\ Len(rq) <= k + 1
    /\ k < Len(rq) => wq # <<>>
    /\ ro = IF k = 0 THEN End ELSE rq[k]
    /\ k = 0 \/ wo = End
    /\ wo # End => wq # <<>> /\ wo = wq[1]
    /\ k = 0 /\ wo = End => rq = <<>> /\ wq = <<>>

Owning(rq, wq, wo, own, k) ==
    /\ \A i \in 1 .. Len(rq) : own[rq[i]] <=> i <= k
    /\ \A i \in 1 .. Len(wq) : own[wq[i]] <=> i = 1 /\ wo # End
    /\ \A g \in Groups : own[g] => g \in Members(rq) \cup Members(wq)

LockOK(rq, wq, ro, wo, own) ==
    /\ IsQueue(rq) /\ IsQueue(wq) /\ Members(rq) \cap Members(wq) = {}
    /\ own \in [Groups -> BOOLEAN]
    /\ \E k \in Nat : Phase(rq, wq, ro, wo, k) /\ Owning(rq, wq, wo, own, k)

(* Every request refers to a group of its type, writers to one of their    *)
(* own, and holders to owners; groups live as long as requests refer to    *)
(* them.                                                                   *)
Active(t) == thread[t].state # "idle"
QueueOf(type) == IF type = "Read" THEN readers_queue ELSE writers_queue

RequestsOK ==
    /\ thread \in [Threads -> [state : {"idle", "waiting", "holding"},
                               type : {"Read", "Write"},
                               group : Groups \cup {End}]]
    /\ requests \in [Groups -> Nat]
    /\ \A t \in Threads : Active(t) => thread[t].group \in Members(QueueOf(thread[t].type))
    /\ \A t \in Holders : ownership[thread[t].group]
    /\ \A t, u \in Threads : /\ Active(t) /\ Active(u) /\ thread[t].type = "Write"
                             /\ thread[u].group = thread[t].group
                             => u = t
    /\ \A g \in Groups : requests[g] = Cardinality(Attached(g))
    /\ \A g \in Members(readers_queue) \cup Members(writers_queue) : Attached(g) # {}

Inv ==
    /\ LockOK(readers_queue, writers_queue, rdlock_owner, wrlock_owner, ownership)
    /\ RequestsOK
    /\ owner_queries \in [Queries -> Nat]
    /\ QueryOwnersAreCounted

-----------------------------------------------------------------------------
(* A group that joins the end of a queue.                                  *)
LEMMA ReadersJoin ==
    ASSUME NEW rq, NEW wq, NEW ro, NEW wo, NEW own, LockOK(rq, wq, ro, wo, own),
           ~(ro = End /\ wo = End),
           rq = <<>> \/ (own[last(rq)] /\ wq # <<>>),
           NEW g \in Groups, g \notin Members(rq) \cup Members(wq)
    PROVE  LockOK(Append(rq, g), wq, ro, wo, own)
  <1>1. PICK k \in Nat : Phase(rq, wq, ro, wo, k) /\ Owning(rq, wq, wo, own, k)
    BY Zenon DEF LockOK
  <1>2. PICK r : r = Append(rq, g)
    BY Zenon
  <1>3. /\ IsQueue(rq) /\ IsQueue(wq) /\ Members(rq) \cap Members(wq) = {}
        /\ own \in [Groups -> BOOLEAN] /\ Len(rq) \in Nat
    BY DEF LockOK, IsQueue
  <1>4. /\ IsQueue(r) /\ Len(r) = Len(rq) + 1 /\ r[Len(r)] = g
        /\ \A i \in 1 .. Len(rq) : r[i] = rq[i]
        /\ Members(r) = Members(rq) \cup {g}
    BY Zenon, <1>2, <1>3, AppendFacts DEF With
  <1>5. Len(rq) <= k /\ wq # <<>>
    <2>1. CASE rq = <<>>
      BY <1>1, <2>1 DEF Phase
    <2>2. CASE rq # <<>>
      <3>1. Len(rq) \in 1 .. Len(rq)
        BY <1>3, <2>2 DEF IsQueue
      <3> QED BY <1>1, <2>2, <3>1 DEF Owning, last
    <2> QED BY <2>1, <2>2
  <1>6. Phase(r, wq, ro, wo, k)
    <2>1. k = Len(rq)
      BY <1>1, <1>3, <1>5 DEF Phase
    <2>2. k = 0 \/ (k \in 1 .. Len(rq) /\ r[k] = rq[k])
      BY <1>3, <1>4, <2>1
    <2>3. k = 0 => wo # End
      BY <1>1 DEF Phase
    <2> QED BY <1>1, <1>3, <1>4, <1>5, <2>1, <2>2, <2>3 DEF Phase
  <1>7. Owning(r, wq, wo, own, k)
    <2>1. ~own[g]
      BY <1>1 DEF Owning
    <2>2. ASSUME NEW i \in 1 .. Len(r) PROVE own[r[i]] <=> i <= k
      <3>1. CASE i \in 1 .. Len(rq)
        BY <1>1, <1>4, <3>1 DEF Owning
      <3>2. CASE i = Len(r)
        <4>1. ~(i <= k)
          BY <1>1, <1>3, <1>4, <3>2 DEF Phase
        <4> QED BY <1>4, <2>1, <3>2, <4>1
      <3>3. i \in 1 .. Len(rq) \/ i = Len(r)
        BY <1>3, <1>4
      <3> QED BY <3>1, <3>2, <3>3
    <2> QED BY Zenon, <1>1, <1>4, <2>2 DEF Owning
  <1> QED BY Zenon, <1>2, <1>3, <1>4, <1>6, <1>7 DEF LockOK

LEMMA WriterJoins ==
    ASSUME NEW rq, NEW wq, NEW ro, NEW wo, NEW own, LockOK(rq, wq, ro, wo, own),
           ~(ro = End /\ wo = End),
           NEW g \in Groups, g \notin Members(rq) \cup Members(wq)
    PROVE  LockOK(rq, Append(wq, g), ro, wo, own)
  <1>1. PICK k \in Nat : Phase(rq, wq, ro, wo, k) /\ Owning(rq, wq, wo, own, k)
    BY Zenon DEF LockOK
  <1>2. PICK w : w = Append(wq, g)
    BY Zenon
  <1>3. /\ IsQueue(rq) /\ IsQueue(wq) /\ Members(rq) \cap Members(wq) = {}
        /\ own \in [Groups -> BOOLEAN] /\ Len(wq) \in Nat
    BY DEF LockOK, IsQueue
  <1>4. /\ IsQueue(w) /\ Len(w) = Len(wq) + 1 /\ w[Len(w)] = g
        /\ \A i \in 1 .. Len(wq) : w[i] = wq[i]
        /\ Members(w) = Members(wq) \cup {g}
    BY Zenon, <1>2, <1>3, AppendFacts DEF With
  <1>5. w # <<>> /\ (wq # <<>> => w[1] = wq[1]) /\ ~(k = 0 /\ wo = End)
    BY <1>1, <1>3, <1>4 DEF IsQueue, Phase
  <1>6. Phase(rq, w, ro, wo, k)
    BY Zenon, <1>1, <1>5 DEF Phase
  <1>7. Owning(rq, w, wo, own, k)
    <2>1. ~own[g]
      BY <1>1 DEF Owning
    <2>2. ASSUME NEW i \in 1 .. Len(w) PROVE own[w[i]] <=> i = 1 /\ wo # End
      <3>1. CASE i \in 1 .. Len(wq)
        BY <1>1, <1>4, <3>1 DEF Owning
      <3>2. CASE i = Len(w)
        <4>1. ~(i = 1 /\ wo # End)
          BY <1>1, <1>3, <1>4, <3>2 DEF Phase, IsQueue
        <4> QED BY <1>4, <2>1, <3>2, <4>1
      <3>3. i \in 1 .. Len(wq) \/ i = Len(w)
        BY <1>3, <1>4
      <3> QED BY <3>1, <3>2, <3>3
    <2> QED BY Zenon, <1>1, <1>4, <2>2 DEF Owning
  <1> QED BY Zenon, <1>2, <1>3, <1>4, <1>6, <1>7 DEF LockOK

-----------------------------------------------------------------------------
(* A group that leaves a queue.                                            *)
LEMMA ReadersLeave ==
    ASSUME NEW rq, NEW wq, NEW wo, NEW own, NEW k \in Nat, IsQueue(rq), IsQueue(wq),
           Members(rq) \cap Members(wq) = {}, own \in [Groups -> BOOLEAN],
           Owning(rq, wq, wo, own, k), NEW j \in 1 .. Len(rq),
           NEW r, r = erase(rq, rq[j]), NEW owns, owns = [own EXCEPT ![rq[j]] = FALSE]
    PROVE  /\ Owning(r, wq, wo, owns, IF j <= k THEN k - 1 ELSE k)
           /\ owns \in [Groups -> BOOLEAN]
  <1> DEFINE m == IF j <= k THEN k - 1 ELSE k
             f(i) == IF i < j THEN i ELSE i + 1
  <1>1. /\ IsQueue(r) /\ Len(r) = Len(rq) - 1
        /\ \A i \in 1 .. Len(r) : r[i] = rq[f(i)]
        /\ Members(r) = Members(rq) \ {rq[j]}
    BY Zenon, EraseFacts DEF Without
  <1>2. /\ rq[j] \in Groups /\ rq[j] \in Members(rq) /\ Len(rq) \in Nat
        /\ \A i \in 1 .. Len(wq) : wq[i] \in Groups /\ wq[i] # rq[j]
    BY Zenon, QueueTypes
  <1>3. owns \in [Groups -> BOOLEAN] /\ ~owns[rq[j]] /\ \A h \in Groups : h # rq[j] => owns[h] = own[h]
    BY Zenon, <1>2
  <1>4. ASSUME NEW i \in 1 .. Len(r) PROVE owns[r[i]] <=> i <= m
    <2>1. f(i) \in 1 .. Len(rq) /\ f(i) # j /\ (f(i) <= k <=> i <= m)
      BY <1>1, <1>2
    <2> HIDE DEF f, m
    <2>2. r[i] = rq[f(i)] /\ rq[f(i)] # rq[j] /\ rq[f(i)] \in Groups
      BY <1>1, <2>1 DEF IsQueue
    <2> QED BY Zenon, <1>3, <2>1, <2>2 DEF Owning
  <1>5. \A i \in 1 .. Len(wq) : owns[wq[i]] <=> i = 1 /\ wo # End
    BY Zenon, <1>2, <1>3 DEF Owning
  <1>6. \A g \in Groups : owns[g] => g \in Members(r) \cup Members(wq)
    BY Zenon, <1>1, <1>3 DEF Owning
  <1> QED BY Zenon, <1>3, <1>4, <1>5, <1>6 DEF Owning

LEMMA WriterLeaves ==
    ASSUME NEW rq, NEW wq, NEW wo, NEW own, NEW k \in Nat, IsQueue(rq), IsQueue(wq),
           Members(rq) \cap Members(wq) = {}, own \in [Groups -> BOOLEAN],
           Owning(rq, wq, wo, own, k), NEW j \in 1 .. Len(wq),
           NEW w, w = erase(wq, wq[j]), NEW owns, owns = [own EXCEPT ![wq[j]] = FALSE]
    PROVE  /\ Owning(rq, w, IF j = 1 THEN End ELSE wo, owns, k)
           /\ owns \in [Groups -> BOOLEAN]
           /\ j # 1 /\ wq # <<>> => w # <<>> /\ w[1] = wq[1]
  <1> DEFINE f(i) == IF i < j THEN i ELSE i + 1
             v == IF j = 1 THEN End ELSE wo
  <1>1. /\ IsQueue(w) /\ Len(w) = Len(wq) - 1
        /\ \A i \in 1 .. Len(w) : w[i] = wq[f(i)]
        /\ Members(w) = Members(wq) \ {wq[j]}
    BY Zenon, EraseFacts DEF Without
  <1>2. /\ wq[j] \in Groups /\ wq[j] \in Members(wq) /\ Len(wq) \in Nat
        /\ \A i \in 1 .. Len(rq) : rq[i] \in Groups /\ rq[i] # wq[j]
    BY Zenon, QueueTypes
  <1>3. owns \in [Groups -> BOOLEAN] /\ ~owns[wq[j]] /\ \A h \in Groups : h # wq[j] => owns[h] = own[h]
    BY Zenon, <1>2
  <1>4. ASSUME NEW i \in 1 .. Len(w) PROVE owns[w[i]] <=> i = 1 /\ v # End
    <2>1. f(i) \in 1 .. Len(wq) /\ f(i) # j /\ (f(i) = 1 <=> (i = 1 /\ j # 1))
      BY <1>1, <1>2
    <2> HIDE DEF f
    <2>2. w[i] = wq[f(i)] /\ wq[f(i)] # wq[j] /\ wq[f(i)] \in Groups
      BY <1>1, <2>1 DEF IsQueue
    <2>3. owns[w[i]] <=> f(i) = 1 /\ wo # End
      BY Zenon, <1>3, <2>1, <2>2 DEF Owning
    <2> QED BY <2>1, <2>3
  <1>5. \A i \in 1 .. Len(rq) : owns[rq[i]] <=> i <= k
    BY Zenon, <1>2, <1>3 DEF Owning
  <1>6. \A g \in Groups : owns[g] => g \in Members(rq) \cup Members(w)
    BY Zenon, <1>1, <1>3 DEF Owning
  <1>7. j # 1 /\ wq # <<>> => w # <<>> /\ w[1] = wq[1]
    <2> SUFFICES ASSUME j # 1 PROVE w # <<>> /\ w[1] = wq[1]
      OBVIOUS
    <2>1. 1 \in 1 .. Len(w)
      BY <1>1, <1>2
    <2> QED BY <1>1, <2>1 DEF IsQueue
  <1> QED BY Zenon, <1>3, <1>4, <1>5, <1>6, <1>7 DEF Owning

(* grantOwnershipToAllReaders: from the last owner, or from the first      *)
(* group when there is none.                                               *)
LEMMA ReadersAreGranted ==
    ASSUME NEW rq, NEW wq, NEW own, IsQueue(rq), IsQueue(wq), Members(rq) \cap Members(wq) = {},
           own \in [Groups -> BOOLEAN], NEW m \in Nat, Owning(rq, wq, End, own, m),
           NEW p \in 1 .. Len(rq), p <= m + 1,
           NEW owns, owns = [g \in Groups |-> own[g] \/ g \in ReadersFrom(rq, rq[p])]
    PROVE  /\ LockOK(rq, wq, last(rq), End, owns)
           /\ \A g \in Groups : own[g] => owns[g]
  <1> DEFINE n == Len(rq)
  <1>1. n \in Nat /\ n \in 1 .. n /\ rq[p] # End /\ rq[n] \in Groups /\ n # 0
    <2>1. n \in Nat /\ rq[p] # End /\ \A i \in 1 .. n : rq[i] \in Groups
      BY Zenon, QueueTypes
    <2> QED BY <2>1
  <1>2. ReadersFrom(rq, rq[p]) = {rq[i] : i \in p .. n}
    BY <1>1, PositionFacts DEF ReadersFrom
  <1>3. owns \in [Groups -> BOOLEAN]
    OBVIOUS
  <1>4. \A i \in 1 .. n : rq[i] \in Groups
    BY DEF IsQueue
  <1>5. ASSUME NEW i \in 1 .. n PROVE owns[rq[i]]
    <2>1. CASE i < p
      <3>1. own[rq[i]]
        BY <2>1 DEF Owning
      <3> QED BY <1>4, <3>1
    <2>2. CASE ~(i < p)
      <3>1. i \in p .. n
        BY <2>2
      <3> QED BY <1>2, <1>4, <3>1
    <2> QED BY <2>1, <2>2
  <1>6. ASSUME NEW g \in Groups, owns[g] PROVE own[g] \/ g \in Members(rq)
    <2>1. \A i \in p .. n : i \in 1 .. n
      OBVIOUS
    <2> QED BY Zenon, <1>2, <1>6, <2>1 DEF Members
  <1>7. Owning(rq, wq, End, owns, n)
    <2>1. \A i \in 1 .. n : owns[rq[i]] <=> i <= n
      BY <1>5
    <2>2. ASSUME NEW i \in 1 .. Len(wq) PROVE ~owns[wq[i]]
      <3>1. wq[i] \in Members(wq) /\ wq[i] \in Groups
        BY DEF Members, IsQueue
      <3>2. ~own[wq[i]]
        BY Zenon DEF Owning
      <3> QED BY Zenon, <1>6, <3>1, <3>2
    <2>3. \A g \in Groups : owns[g] => g \in Members(rq) \cup Members(wq)
      BY Zenon, <1>6 DEF Owning
    <2> QED BY Zenon, <2>1, <2>2, <2>3 DEF Owning
  <1>8. Phase(rq, wq, last(rq), End, n)
    BY <1>1 DEF Phase, last
  <1>9. \A g \in Groups : own[g] => owns[g]
    OBVIOUS
  <1> QED BY Zenon, <1>1, <1>3, <1>7, <1>8, <1>9 DEF LockOK

(* The first writer, if any, gets the lock when no reader owns it.         *)
LEMMA WriterIsGranted ==
    ASSUME NEW rq, NEW wq, NEW own, IsQueue(rq), IsQueue(wq), Members(rq) \cap Members(wq) = {},
           own \in [Groups -> BOOLEAN], Owning(rq, wq, End, own, 0),
           Len(rq) <= 1, wq = <<>> => rq = <<>>,
           NEW owns, owns = [h \in Groups |-> own[h] \/ h = first(wq)]
    PROVE  /\ LockOK(rq, wq, End, first(wq), owns)
           /\ \A g \in Groups : own[g] => owns[g]
  <1>1. owns \in [Groups -> BOOLEAN] /\ \A g \in Groups : own[g] => owns[g]
    OBVIOUS
  <1>2. CASE wq = <<>>
    <2>1. first(wq) = End
      BY Zenon, <1>2 DEF first
    <2>2. \A h \in Groups : owns[h] = own[h]
      BY Zenon, <2>1, GroupsAreNotEnd
    <2>3. rq = <<>> /\ Len(rq) = 0 /\ Len(wq) = 0 /\ 0 \in 0 .. 0 /\ 0 <= 0 + 1 /\ ~(0 < 0)
      BY <1>2
    <2>4. Phase(rq, wq, End, End, 0)
      BY Zenon, <1>2, <2>3 DEF Phase
    <2>5. Owning(rq, wq, End, owns, 0)
      BY Zenon, <2>2, QueueTypes DEF Owning
    <2> QED BY Zenon, <1>1, <2>1, <2>4, <2>5 DEF LockOK
  <1>3. CASE wq # <<>>
    <2>1. 1 \in 1 .. Len(wq) /\ first(wq) = wq[1]
      BY <1>3 DEF first, IsQueue
    <2>2. /\ Len(rq) \in Nat /\ wq[1] # End /\ wq[1] \in Groups /\ wq[1] \in Members(wq)
          /\ \A i \in 1 .. Len(rq) : rq[i] \in Groups /\ rq[i] # wq[1]
          /\ \A i \in 1 .. Len(wq) : wq[i] \in Groups /\ (wq[i] = wq[1] <=> i = 1)
      BY Zenon, <2>1, QueueTypes DEF IsQueue
    <2>3. Phase(rq, wq, End, wq[1], 0)
      BY <1>3, <2>2 DEF Phase
    <2>4. Owning(rq, wq, wq[1], owns, 0)
      <3>1. \A i \in 1 .. Len(rq) : owns[rq[i]] <=> i <= 0
        BY Zenon, <2>1, <2>2 DEF Owning
      <3>2. \A i \in 1 .. Len(wq) : owns[wq[i]] <=> i = 1
        <4>1. \A i \in 1 .. Len(wq) : ~own[wq[i]]
          BY Zenon DEF Owning
        <4> QED BY Zenon, <2>1, <2>2, <4>1
      <3>3. \A g \in Groups : owns[g] => g \in Members(rq) \cup Members(wq)
        <4>1. \A g \in Groups : own[g] => g \in Members(rq) \cup Members(wq)
          BY Zenon DEF Owning
        <4> QED BY Zenon, <2>1, <2>2, <4>1
      <3> QED BY Zenon, <2>2, <3>1, <3>2, <3>3 DEF Owning
    <2> QED BY Zenon, <1>1, <2>1, <2>3, <2>4 DEF LockOK
  <1> QED BY Zenon, <1>2, <1>3

-----------------------------------------------------------------------------
(* What a step does to the lock when the group g leaves it, and when only  *)
(* readers may have been granted it.                                       *)
LockStays == LockOK(readers_queue, writers_queue, rdlock_owner, wrlock_owner, ownership)'

Leaves(g) ==
    /\ LockStays
    /\ Members(readers_queue') = Members(readers_queue) \ {g}
    /\ Members(writers_queue') = Members(writers_queue) \ {g}
    /\ \A h \in Groups \ {g} : ownership[h] => ownership'[h]

(* A group without requests leaves the owners.                             *)
LEMMA DropWriter ==
    ASSUME LockOK(readers_queue, writers_queue, rdlock_owner, wrlock_owner, ownership),
           NEW g \in Members(writers_queue), ownership[g],
           dropOwnerGroupAndPassOwnership("Write", g)
    PROVE  Leaves(g)
  <1> DEFINE rq == readers_queue
             wq == writers_queue
             w == erase(wq, g)
             owns == [ownership EXCEPT ![g] = FALSE]
  <1>1. PICK k \in Nat : /\ Phase(rq, wq, rdlock_owner, wrlock_owner, k)
                         /\ Owning(rq, wq, wrlock_owner, ownership, k)
    BY Zenon DEF LockOK
  <1>2. /\ IsQueue(rq) /\ IsQueue(wq) /\ Members(rq) \cap Members(wq) = {}
        /\ ownership \in [Groups -> BOOLEAN]
    BY Zenon DEF LockOK
  <1>3. PICK j \in 1 .. Len(wq) : g = wq[j]
    BY Zenon DEF Members
  <1>4. j = 1 /\ wrlock_owner # End /\ k = 0
    BY <1>1, <1>3 DEF Owning, Phase
  <1>5. Owning(rq, w, End, owns, 0) /\ owns \in [Groups -> BOOLEAN]
    <2>1. Owning(rq, wq, wrlock_owner, ownership, 0)
      BY Zenon, <1>1, <1>4
    <2>2. /\ Owning(rq, w, IF j = 1 THEN End ELSE wrlock_owner, owns, 0)
          /\ owns \in [Groups -> BOOLEAN]
      <3> HIDE DEF rq, wq
      <3> QED BY <1>2, <1>3, <2>1, WriterLeaves
    <2> QED BY Zenon, <1>4, <2>2
  <1>6. Without(wq, j, w)
    BY Zenon, <1>2, <1>3, EraseFacts
  <1>7. erase(rq, g) = rq /\ g \notin Members(rq)
    BY Zenon, <1>2, EraseOther
  <1>8. /\ IsQueue(w) /\ Members(w) = Members(wq) \ {g} /\ Members(rq) = Members(rq) \ {g}
        /\ Members(rq) \cap Members(w) = {}
    BY Zenon, <1>2, <1>3, <1>6, <1>7 DEF Without
  <1>9. \A h \in Groups \ {g} : ownership[h] => owns[h]
    BY Zenon, <1>2
  <1>10. /\ readers_queue' = rq /\ writers_queue' = w
         /\ IF rq # <<>>
            THEN /\ wrlock_owner' = End
                 /\ ownership' = [h \in Groups |-> owns[h] \/ h \in ReadersFrom(rq, first(rq))]
                 /\ rdlock_owner' = IF first(rq) = End THEN End ELSE last(rq)
            ELSE /\ rdlock_owner' = End /\ wrlock_owner' = first(w)
                 /\ ownership' = [h \in Groups |-> owns[h] \/ h = first(w)]
    BY Zenon, <1>7 DEF dropOwnerGroupAndPassOwnership, grantOwnershipToAllReaders
  <1> HIDE DEF rq, wq, w, owns
  <1>11. LockStays /\ \A h \in Groups : owns[h] => ownership'[h]
    <2>1. CASE rq # <<>>
      <3>1. 1 \in 1 .. Len(rq) /\ first(rq) = rq[1] /\ 0 \in Nat /\ 1 <= 0 + 1
        BY <1>2, <2>1 DEF first, IsQueue
      <3>2. first(rq) # End
        BY Zenon, <1>2, <3>1, QueueTypes
      <3>3. ownership' = [h \in Groups |-> owns[h] \/ h \in ReadersFrom(rq, rq[1])]
        BY Zenon, <1>10, <2>1, <3>1
      <3>4. /\ LockOK(rq, w, last(rq), End, ownership')
            /\ \A h \in Groups : owns[h] => ownership'[h]
        <4>1. PICK m, p : m = 0 /\ p = 1
          BY Zenon
        <4>2. /\ p \in 1 .. Len(rq) /\ m \in Nat /\ p <= m + 1 /\ Owning(rq, w, End, owns, m)
              /\ ownership' = [h \in Groups |-> owns[h] \/ h \in ReadersFrom(rq, rq[p])]
          BY Zenon, <1>5, <3>1, <3>3, <4>1
        <4>3. /\ IsQueue(rq) /\ IsQueue(w) /\ Members(rq) \cap Members(w) = {}
              /\ owns \in [Groups -> BOOLEAN]
          BY Zenon, <1>2, <1>5, <1>8
        <4> QED BY <4>2, <4>3, ReadersAreGranted
      <3> QED BY Zenon, <1>10, <2>1, <3>2, <3>4 DEF LockStays
    <2>2. CASE rq = <<>>
      <3>1. Len(rq) <= 1
        BY <2>2
      <3>2. ownership' = [h \in Groups |-> owns[h] \/ h = first(w)]
        BY Zenon, <1>10, <2>2
      <3>3. /\ LockOK(rq, w, End, first(w), ownership')
            /\ \A h \in Groups : owns[h] => ownership'[h]
        BY Zenon, <1>2, <1>5, <1>8, <2>2, <3>1, <3>2, WriterIsGranted
      <3> QED BY Zenon, <1>10, <2>2, <3>3 DEF LockStays
    <2> QED BY Zenon, <2>1, <2>2
  <1> QED BY Zenon, <1>8, <1>9, <1>10, <1>11 DEF Leaves, rq, wq

LEMMA DropReaders ==
    ASSUME LockOK(readers_queue, writers_queue, rdlock_owner, wrlock_owner, ownership),
           NEW g \in Members(readers_queue), ownership[g],
           dropOwnerGroupAndPassOwnership("Read", g)
    PROVE  Leaves(g)
  <1> DEFINE rq == readers_queue
             wq == writers_queue
             r == erase(rq, g)
             owns == [ownership EXCEPT ![g] = FALSE]
  <1>1. PICK k \in Nat : /\ Phase(rq, wq, rdlock_owner, wrlock_owner, k)
                         /\ Owning(rq, wq, wrlock_owner, ownership, k)
    BY Zenon DEF LockOK
  <1>2. /\ IsQueue(rq) /\ IsQueue(wq) /\ Members(rq) \cap Members(wq) = {}
        /\ ownership \in [Groups -> BOOLEAN] /\ Len(rq) \in Nat
    BY Zenon, QueueTypes DEF LockOK
  <1>3. PICK j \in 1 .. Len(rq) : g = rq[j]
    BY Zenon DEF Members
  <1>4. /\ j <= k /\ k \in 1 .. Len(rq) /\ k - 1 \in Nat /\ Len(rq) <= k + 1
        /\ wrlock_owner = End /\ rdlock_owner = rq[k] /\ (k < Len(rq) => wq # <<>>)
    BY <1>1, <1>2, <1>3 DEF Owning, Phase
  <1>5. Owning(r, wq, End, owns, k - 1) /\ owns \in [Groups -> BOOLEAN]
    <2>1. Owning(rq, wq, End, ownership, k)
      BY Zenon, <1>1, <1>4
    <2>2. /\ Owning(r, wq, End, owns, IF j <= k THEN k - 1 ELSE k)
          /\ owns \in [Groups -> BOOLEAN]
      <3> HIDE DEF rq, wq
      <3> QED BY <1>2, <1>3, <2>1, ReadersLeave
    <2> QED BY Zenon, <1>4, <2>2
  <1>6. Without(rq, j, r)
    BY Zenon, <1>2, <1>3, EraseFacts
  <1>7. erase(wq, g) = wq /\ g \notin Members(wq)
    BY Zenon, <1>2, EraseOther
  <1>8. /\ IsQueue(r) /\ Members(r) = Members(rq) \ {g} /\ Members(wq) = Members(wq) \ {g}
        /\ Members(r) \cap Members(wq) = {} /\ Len(r) = Len(rq) - 1
    BY Zenon, <1>2, <1>3, <1>6, <1>7 DEF Without
  <1>9. \A h \in Groups \ {g} : ownership[h] => owns[h]
    BY Zenon, <1>2
  <1>10. rdlock_owner \in {first(rq), End} <=> k = 1
    <2>1. 1 \in 1 .. Len(rq) /\ first(rq) = rq[1]
      BY <1>2, <1>4 DEF first, IsQueue
    <2>2. rq[k] # End
      BY Zenon, <1>2, <1>4, QueueTypes
    <2> QED BY Zenon, <1>2, <1>4, <2>1, <2>2 DEF IsQueue
  <1>11. CASE k = 1
    <2>1. /\ readers_queue' = r /\ writers_queue' = wq
          /\ IF wq = <<>>
             THEN /\ wrlock_owner' = End
                  /\ ownership' = [h \in Groups |-> owns[h] \/ h \in ReadersFrom(r, first(r))]
                  /\ rdlock_owner' = IF first(r) = End THEN End ELSE last(r)
             ELSE /\ rdlock_owner' = End /\ wrlock_owner' = first(wq)
                  /\ ownership' = [h \in Groups |-> owns[h] \/ h = first(wq)]
      BY Zenon, <1>7, <1>10, <1>11 DEF dropOwnerGroupAndPassOwnership, grantOwnershipToAllReaders
    <2> HIDE DEF rq, wq, r, owns
    <2>2. /\ Len(r) <= 1 /\ Owning(r, wq, End, owns, 0) /\ (wq = <<>> => r = <<>>)
      <3>1. k - 1 = 0 /\ Len(r) <= 1 /\ (wq = <<>> => Len(r) = 0)
        BY <1>2, <1>4, <1>8, <1>11
      <3>2. Len(r) = 0 => r = <<>>
        BY <1>8 DEF IsQueue
      <3> QED BY Zenon, <1>5, <3>1, <3>2
    <2>3. /\ rdlock_owner' = End /\ wrlock_owner' = first(wq)
          /\ ownership' = [h \in Groups |-> owns[h] \/ h = first(wq)]
      <3>1. CASE wq = <<>>
        <4>1. first(r) = End /\ first(wq) = End
          BY Zenon, <2>2, <3>1 DEF first
        <4>2. ReadersFrom(r, first(r)) = {}
          BY Zenon, <4>1 DEF ReadersFrom
        <4>3. \A h \in Groups : h \in ReadersFrom(r, first(r)) <=> h = first(wq)
          BY Zenon, <4>1, <4>2, GroupsAreNotEnd
        <4> QED BY <2>1, <3>1, <4>1, <4>3
      <3>2. CASE wq # <<>>
        BY Zenon, <2>1, <3>2
      <3> QED BY Zenon, <3>1, <3>2
    <2>4. /\ LockOK(r, wq, End, first(wq), ownership')
          /\ \A h \in Groups : owns[h] => ownership'[h]
      BY Zenon, <1>2, <1>5, <1>8, <2>2, <2>3, WriterIsGranted
    <2> QED BY Zenon, <1>8, <1>9, <2>1, <2>3, <2>4 DEF Leaves, LockStays, rq, wq
  <1>12. CASE k # 1
    <2> DEFINE still == IF rdlock_owner = g THEN rq[Position(rq, g) - 1] ELSE rdlock_owner
    <2>1. /\ readers_queue' = r /\ writers_queue' = wq /\ wrlock_owner' = wrlock_owner
          /\ IF wq = <<>>
             THEN /\ ownership' = [h \in Groups |-> owns[h] \/ h \in ReadersFrom(r, still)]
                  /\ rdlock_owner' = IF still = End THEN End ELSE last(r)
             ELSE rdlock_owner' = still /\ ownership' = owns
      BY Zenon, <1>7, <1>10, <1>12 DEF dropOwnerGroupAndPassOwnership, grantOwnershipToAllReaders
    <2>2. still = r[k - 1] /\ k - 1 \in 1 .. Len(r)
      <3>1. k - 1 \in 1 .. Len(r) /\ k - 1 + 1 = k
        BY <1>2, <1>4, <1>8, <1>12
      <3>2. r[k - 1] = rq[IF k - 1 < j THEN k - 1 ELSE k]
        BY Zenon, <1>6, <3>1 DEF Without
      <3>3. Position(rq, g) = j
        BY Zenon, <1>2, <1>3, PositionFacts
      <3>4. CASE j = k
        <4>1. k - 1 < j
          BY <3>4
        <4> QED BY Zenon, <1>3, <1>4, <3>1, <3>2, <3>3, <3>4, <4>1
      <3>5. CASE j # k
        <4>1. ~(k - 1 < j)
          BY <1>4, <3>5
        <4>2. rq[k] # rq[j]
          BY Zenon, <1>2, <1>4, <3>5 DEF IsQueue
        <4> QED BY Zenon, <1>3, <1>4, <3>1, <3>2, <4>1, <4>2
      <3> QED BY Zenon, <3>4, <3>5
    <2> HIDE DEF rq, wq, r, owns, still
    <2>3. still # End
      BY Zenon, <1>8, <2>2, QueueTypes
    <2>4. LockStays /\ \A h \in Groups : owns[h] => ownership'[h]
      <3>1. CASE wq = <<>>
        <4>1. PICK m, p : m = k - 1 /\ p = k - 1
          BY Zenon
        <4>2. /\ p \in 1 .. Len(r) /\ m \in Nat /\ Owning(r, wq, End, owns, m)
              /\ ownership' = [h \in Groups |-> owns[h] \/ h \in ReadersFrom(r, r[p])]
          BY Zenon, <1>4, <1>5, <2>1, <2>2, <3>1, <4>1
        <4>3. p <= m + 1
          BY <1>4, <4>1
        <4>4. /\ IsQueue(r) /\ IsQueue(wq) /\ Members(r) \cap Members(wq) = {}
              /\ owns \in [Groups -> BOOLEAN]
          BY Zenon, <1>2, <1>5, <1>8
        <4>5. /\ LockOK(r, wq, last(r), End, ownership')
              /\ \A h \in Groups : owns[h] => ownership'[h]
          BY <4>2, <4>3, <4>4, ReadersAreGranted
        <4> QED BY Zenon, <1>4, <2>1, <2>3, <3>1, <4>5 DEF LockStays
      <3>2. CASE wq # <<>>
        <4>1. Phase(r, wq, r[k - 1], End, k - 1)
          BY <1>2, <1>4, <1>8, <2>2, <3>2 DEF Phase
        <4> QED BY Zenon, <1>2, <1>4, <1>5, <1>8, <2>1, <2>2, <3>2, <4>1 DEF LockStays, LockOK
      <3> QED BY Zenon, <3>1, <3>2
    <2> QED BY Zenon, <1>8, <1>9, <2>1, <2>4 DEF Leaves, rq, wq
  <1> QED BY Zenon, <1>11, <1>12

-----------------------------------------------------------------------------
(* A group, or only a request, that gives up waiting.  Keeps is what a     *)
(* step does to the lock when no group leaves.                             *)
Keeps ==
    /\ LockStays
    /\ Members(readers_queue') = Members(readers_queue)
    /\ Members(writers_queue') = Members(writers_queue)
    /\ \A h \in Groups : ownership[h] => ownership'[h]

(* The lock before the readers who waited for the last writer are woken.   *)
Unwoken(rq, wq, ro, wo, k) ==
    /\ k \in 0 .. Len(rq) /\ Len(rq) <= k + 1
    /\ ro = IF k = 0 THEN End ELSE rq[k]
    /\ k = 0 \/ wo = End
    /\ wo # End => wq # <<>> /\ wo = wq[1]
    /\ k = 0 => wo # End

LEMMA GiveUp ==
    ASSUME NEW rq, NEW wq, NEW ro, NEW wo, NEW own, LockOK(rq, wq, ro, wo, own),
           NEW g \in Members(rq) \cup Members(wq), ~own[g]
    PROVE  \E k \in Nat : /\ Unwoken(rq, wq, ro, wo, k) /\ Owning(rq, wq, wo, own, k)
                          /\ Unwoken(erase(rq, g), erase(wq, g), ro, wo, k)
                          /\ Owning(erase(rq, g), erase(wq, g), wo, own, k)
  <1>1. PICK k \in Nat : Phase(rq, wq, ro, wo, k) /\ Owning(rq, wq, wo, own, k)
    BY Zenon DEF LockOK
  <1>2. /\ IsQueue(rq) /\ IsQueue(wq) /\ Members(rq) \cap Members(wq) = {}
        /\ own \in [Groups -> BOOLEAN] /\ Len(rq) \in Nat /\ Len(wq) \in Nat
    BY Zenon, QueueTypes DEF LockOK
  <1>3. Unwoken(rq, wq, ro, wo, k)
    <2>1. ~(rq = <<>> /\ wq = <<>>)
      BY <1>2 DEF Members
    <2> QED BY Zenon, <1>1, <2>1 DEF Unwoken, Phase
  <1>4. g \in Groups /\ [own EXCEPT ![g] = FALSE] = own
    <2>1. g \in Groups
      BY Zenon, <1>2, QueueTypes
    <2> QED BY <1>2, <2>1
  <1>5. CASE g \in Members(rq)
    <2>1. PICK j \in 1 .. Len(rq) : g = rq[j]
      BY Zenon, <1>5 DEF Members
    <2>2. ~(j <= k) /\ Len(rq) = k + 1 /\ j = k + 1
      BY <1>1, <1>2, <2>1 DEF Owning, Phase
    <2>3. erase(wq, g) = wq
      BY Zenon, <1>2, <1>5, EraseOther
    <2>4. PICK r : r = erase(rq, g)
      BY Zenon
    <2>5. Without(rq, j, r)
      BY Zenon, <1>2, <2>1, <2>4, EraseFacts
    <2>6. Owning(r, wq, wo, own, IF j <= k THEN k - 1 ELSE k)
      BY <1>1, <1>2, <1>4, <2>1, <2>4, ReadersLeave
    <2>7. Owning(r, wq, wo, own, k)
      BY Zenon, <2>2, <2>6
    <2>8. Len(r) = k /\ (k = 0 \/ r[k] = rq[k])
      BY <1>2, <2>2, <2>5 DEF Without
    <2>9. Unwoken(r, wq, ro, wo, k)
      BY <1>3, <2>8 DEF Unwoken
    <2> QED BY Zenon, <1>1, <1>3, <2>3, <2>4, <2>7, <2>9
  <1>6. CASE g \in Members(wq)
    <2>1. PICK j \in 1 .. Len(wq) : g = wq[j]
      BY Zenon, <1>6 DEF Members
    <2>2. j # 1 \/ wo = End
      BY Zenon, <1>1, <2>1 DEF Owning
    <2>3. erase(rq, g) = rq
      BY Zenon, <1>2, <1>6, EraseOther
    <2>4. PICK w : w = erase(wq, g)
      BY Zenon
    <2>5. /\ Owning(rq, w, IF j = 1 THEN End ELSE wo, own, k)
          /\ j # 1 /\ wq # <<>> => w # <<>> /\ w[1] = wq[1]
      BY <1>1, <1>2, <1>4, <2>1, <2>4, WriterLeaves
    <2>6. Owning(rq, w, wo, own, k)
      BY Zenon, <2>2, <2>5
    <2>7. Unwoken(rq, w, ro, wo, k)
      BY Zenon, <1>3, <2>2, <2>5 DEF Unwoken
    <2> QED BY Zenon, <1>1, <1>3, <2>3, <2>4, <2>6, <2>7
  <1> QED BY Zenon, <1>5, <1>6

(* getLock wakes the readers when no writer is left.                       *)
Woken(rq, wq, ro, own, ro2, own2) ==
    IF ro # End /\ wq = <<>>
    THEN /\ own2 = [g \in Groups |-> own[g] \/ g \in ReadersFrom(rq, ro)]
         /\ ro2 = IF ro = End THEN End ELSE last(rq)
    ELSE ro2 = ro /\ own2 = own

LEMMA WakeReaders ==
    ASSUME NEW rq, NEW wq, NEW own, IsQueue(rq), IsQueue(wq), Members(rq) \cap Members(wq) = {},
           own \in [Groups -> BOOLEAN], NEW k \in Nat, NEW ro, NEW wo,
           Unwoken(rq, wq, ro, wo, k), Owning(rq, wq, wo, own, k), NEW ro2, NEW own2,
           Woken(rq, wq, ro, own, ro2, own2)
    PROVE  /\ LockOK(rq, wq, ro2, wo, own2)
           /\ \A h \in Groups : own[h] => own2[h]
  <1>1. CASE ro # End /\ wq = <<>>
    <2>1. k # 0 /\ wo = End /\ ro = rq[k]
      BY Zenon, <1>1 DEF Unwoken
    <2>2. k \in 1 .. Len(rq) /\ k <= k + 1
      BY <2>1 DEF Unwoken
    <2>3. own2 = [g \in Groups |-> own[g] \/ g \in ReadersFrom(rq, rq[k])] /\ ro2 = last(rq)
      BY Zenon, <1>1, <2>1 DEF Woken
    <2>4. Owning(rq, wq, End, own, k)
      BY Zenon, <2>1
    <2> QED BY <2>1, <2>2, <2>3, <2>4, ReadersAreGranted
  <1>2. CASE ~(ro # End /\ wq = <<>>)
    <2>1. k < Len(rq) => wq # <<>>
      <3>1. k # 0 => ro # End
        <4>1. k # 0 => k \in 1 .. Len(rq)
          BY DEF Unwoken
        <4> QED BY Zenon, <4>1, QueueTypes DEF Unwoken
      <3> QED BY Zenon, <1>2, <3>1 DEF Unwoken
    <2>2. Phase(rq, wq, ro, wo, k)
      BY Zenon, <2>1 DEF Phase, Unwoken
    <2> QED BY Zenon, <1>2, <2>2 DEF LockOK, Woken
  <1> QED BY Zenon, <1>1, <1>2

LEMMA TimeoutLock ==
    ASSUME LockOK(readers_queue, writers_queue, rdlock_owner, wrlock_owner, ownership),
           NEW g \in Members(readers_queue) \cup Members(writers_queue), ~ownership[g], NEW gone,
           readers_queue' = IF gone THEN erase(readers_queue, g) ELSE readers_queue,
           writers_queue' = IF gone THEN erase(writers_queue, g) ELSE writers_queue,
           IF rdlock_owner # End /\ writers_queue' = <<>>
           THEN grantOwnershipToAllReaders(readers_queue', rdlock_owner, ownership)
           ELSE UNCHANGED <<rdlock_owner, ownership>>,
           UNCHANGED wrlock_owner
    PROVE  IF gone THEN Leaves(g) ELSE Keeps
  <1> DEFINE rq == readers_queue
             wq == writers_queue
  <1>1. /\ IsQueue(rq) /\ IsQueue(wq) /\ Members(rq) \cap Members(wq) = {}
        /\ ownership \in [Groups -> BOOLEAN]
    BY Zenon DEF LockOK
  <1>2. PICK k \in Nat : /\ Unwoken(rq, wq, rdlock_owner, wrlock_owner, k)
                         /\ Owning(rq, wq, wrlock_owner, ownership, k)
                         /\ Unwoken(erase(rq, g), erase(wq, g), rdlock_owner, wrlock_owner, k)
                         /\ Owning(erase(rq, g), erase(wq, g), wrlock_owner, ownership, k)
    BY Zenon, GiveUp
  <1>3. /\ IsQueue(erase(rq, g)) /\ Members(erase(rq, g)) = Members(rq) \ {g}
        /\ IsQueue(erase(wq, g)) /\ Members(erase(wq, g)) = Members(wq) \ {g}
    <2>1. ASSUME NEW q, IsQueue(q)
          PROVE  IsQueue(erase(q, g)) /\ Members(erase(q, g)) = Members(q) \ {g}
      <3>1. CASE g \in Members(q)
        <4>1. PICK j \in 1 .. Len(q) : g = q[j]
          BY Zenon, <3>1 DEF Members
        <4> QED BY Zenon, <2>1, <4>1, EraseFacts DEF Without
      <3>2. CASE g \notin Members(q)
        BY Zenon, <2>1, <3>2, EraseOther
      <3> QED BY Zenon, <3>1, <3>2
    <2> QED BY Zenon, <1>1, <2>1
  <1>4. /\ IsQueue(readers_queue') /\ IsQueue(writers_queue')
        /\ Members(readers_queue') \cap Members(writers_queue') = {}
        /\ Unwoken(readers_queue', writers_queue', rdlock_owner, wrlock_owner, k)
        /\ Owning(readers_queue', writers_queue', wrlock_owner, ownership, k)
    <2>1. CASE gone
      <3>1. Members(erase(rq, g)) \cap Members(erase(wq, g)) = {}
        BY Zenon, <1>1, <1>3
      <3> QED BY Zenon, <1>2, <1>3, <2>1, <3>1
    <2>2. CASE ~gone
      BY Zenon, <1>1, <1>2, <2>2
    <2> QED BY Zenon, <2>1, <2>2
  <1>5. LockStays /\ \A h \in Groups : ownership[h] => ownership'[h]
    <2>1. Woken(readers_queue', writers_queue', rdlock_owner, ownership, rdlock_owner', ownership')
      BY Zenon DEF grantOwnershipToAllReaders, Woken
    <2>2. /\ LockOK(readers_queue', writers_queue', rdlock_owner', wrlock_owner, ownership')
          /\ \A h \in Groups : ownership[h] => ownership'[h]
      BY Zenon, <1>1, <1>4, <2>1, WakeReaders
    <2> QED BY Zenon, <2>2 DEF LockStays
  <1>6. CASE gone
    BY Zenon, <1>3, <1>5, <1>6 DEF Leaves
  <1>7. CASE ~gone
    BY Zenon, <1>5, <1>7 DEF Keeps
  <1> QED BY Zenon, <1>6, <1>7

-----------------------------------------------------------------------------
(* Requests and the groups they refer to.                                  *)
LEMMA AttachedIsFinite ==
    \A g : /\ IsFiniteSet(Attached(g)) /\ Cardinality(Attached(g)) \in Nat
           /\ Cardinality(Attached(g)) <= Cardinality(Threads)
           /\ (Cardinality(Attached(g)) = 0 <=> Attached(g) = {})
  <1> TAKE g
  <1>1. Attached(g) \in SUBSET Threads
    BY Zenon DEF Attached
  <1>2. IsFiniteSet(Attached(g)) /\ Cardinality(Attached(g)) <= Cardinality(Threads)
    BY Zenon, <1>1, RWLockAssumption, FS_Subset
  <1> QED BY Zenon, <1>2, FS_CardinalityType, FS_EmptySet

LEMMA FreshIsFresh ==
    ASSUME RequestsOK, NEW t \in Threads, ~Active(t)
    PROVE  Fresh \in Groups /\ Fresh \notin Members(readers_queue) \cup Members(writers_queue)
  <1> DEFINE M == Members(readers_queue) \cup Members(writers_queue)
             f == [g \in Groups |-> CHOOSE u \in Threads : u \in Attached(g)]
             N == Cardinality(Threads)
  <1>1. IsFiniteSet(Threads) /\ N \in Nat
    BY Zenon, RWLockAssumption, FS_CardinalityType
  <1>2. ASSUME Groups \subseteq M PROVE FALSE
    <2>1. \A g \in Groups : \E u \in Threads : u \in Attached(g)
      BY Zenon, <1>2 DEF RequestsOK, Attached
    <2>2. \A g \in Groups : f[g] \in Threads /\ f[g] \in Attached(g)
      BY Zenon, <2>1
    <2>3. \A g \in Groups : f[g] \in Threads \ {t} /\ thread[f[g]].group = g
      BY Zenon, <2>2 DEF Attached, Active
    <2>4. f \in [Groups -> Threads \ {t}]
      BY Zenon, <2>3
    <2>5. /\ IsFiniteSet(Threads \ {t}) /\ IsFiniteSet(Groups)
          /\ Cardinality(Threads \ {t}) < Cardinality(Groups)
      <3>1. IsFiniteSet(Threads \ {t}) /\ Cardinality(Threads \ {t}) = N - 1
        BY <1>1, FS_RemoveElement
      <3>2. N # 0
        BY <1>1, FS_EmptySet
      <3>3. IsFiniteSet(1 .. N) /\ Cardinality(1 .. N) = N
        BY <1>1, <3>2, FS_Interval
      <3> QED BY <1>1, <3>1, <3>3 DEF Groups
    <2> HIDE DEF f
    <2>6. \E x, y \in Groups : x # y /\ f[x] = f[y]
      BY Zenon, <2>4, <2>5, FS_PigeonHole
    <2> QED BY Zenon, <2>3, <2>6
  <1>3. \E g \in Groups : g \notin M
    BY Zenon, <1>2
  <1> QED BY Zenon, <1>3 DEF Fresh

(* What the invariant says of one request and its group.                   *)
LEMMA RequestTypes ==
    ASSUME RequestsOK, NEW t \in Threads
    PROVE  /\ thread[t].state \in {"idle", "waiting", "holding"}
           /\ thread[t].type \in {"Read", "Write"}
           /\ thread[t].group \in Groups \cup {End}
  BY DEF RequestsOK

LEMMA HolderIsActive ==
    \A t \in Holders : t \in Threads /\ Active(t) /\ thread[t].state = "holding"
  <1>1. "holding" # "idle"
    OBVIOUS
  <1> QED BY Zenon, <1>1 DEF Holders, Active

LEMMA RequestGroup ==
    ASSUME RequestsOK, LockOK(readers_queue, writers_queue, rdlock_owner, wrlock_owner, ownership),
           NEW t \in Threads, Active(t)
    PROVE  thread[t].group \in Groups
  <1>1. thread[t].group \in Members(readers_queue) \cup Members(writers_queue)
    BY Zenon DEF RequestsOK, QueueOf
  <1>2. \A q : IsQueue(q) => Members(q) \subseteq Groups
    BY Zenon, QueueTypes
  <1> QED BY Zenon, <1>1, <1>2 DEF LockOK


(* A new request for group g, by a thread that had none.                   *)
LEMMA Entering ==
    ASSUME RequestsOK, LockOK(readers_queue, writers_queue, rdlock_owner, wrlock_owner, ownership),
           NEW t \in Threads, ~Active(t), NEW type \in {"Read", "Write"},
           NEW g \in Groups, NEW st \in {"waiting", "holding"},
           thread' = [thread EXCEPT ![t] = [state |-> st, type |-> type, group |-> g]],
           requests' = [requests EXCEPT ![g] = @ + 1],
           Members(readers_queue) \subseteq Members(readers_queue'),
           Members(writers_queue) \subseteq Members(writers_queue'),
           Members(readers_queue') \cup Members(writers_queue')
              \subseteq Members(readers_queue) \cup Members(writers_queue) \cup {g},
           Members(readers_queue') \cap Members(writers_queue') = {},
           g \in IF type = "Read" THEN Members(readers_queue') ELSE Members(writers_queue'),
           type = "Write" => g \notin Members(readers_queue) \cup Members(writers_queue),
           \A h \in Groups : ownership[h] => ownership'[h],
           st = "holding" => ownership'[g]
    PROVE  RequestsOK'
  <1> DEFINE rec == [state |-> st, type |-> type, group |-> g]
  <1>1. /\ thread \in [Threads -> [state : {"idle", "waiting", "holding"},
                                   type : {"Read", "Write"}, group : Groups \cup {End}]]
        /\ requests \in [Groups -> Nat]
    BY Zenon DEF RequestsOK
  <1>2. rec.state = st /\ rec.type = type /\ rec.group = g
    OBVIOUS
  <1>3. rec \in [state : {"idle", "waiting", "holding"},
                 type : {"Read", "Write"}, group : Groups \cup {End}]
    OBVIOUS
  <1> HIDE DEF rec
  <1>4. thread'[t] = rec /\ \A u \in Threads \ {t} : thread'[u] = thread[u]
    BY Zenon, <1>1 DEF rec
  <1>5. thread' \in [Threads -> [state : {"idle", "waiting", "holding"},
                                 type : {"Read", "Write"}, group : Groups \cup {End}]]
    BY Zenon, <1>1, <1>3 DEF rec
  <1>6. /\ requests' \in [Groups -> Nat] /\ requests'[g] = requests[g] + 1
        /\ \A h \in Groups \ {g} : requests'[h] = requests[h]
    BY <1>1
  <1>7. Active(t)' /\ \A u \in Threads \ {t} : Active(u)' <=> Active(u)
    BY Zenon, <1>2, <1>4 DEF Active
  <1>8. \A u \in Threads : Active(u)' => thread'[u].group \in Members(QueueOf(thread[u].type))'
    <2> TAKE u \in Threads
    <2> HAVE Active(u)'
    <2>1. CASE u = t
      BY Zenon, <1>2, <1>4, <2>1 DEF QueueOf
    <2>2. CASE u # t
      <3>1. Active(u) /\ thread'[u] = thread[u]
        BY Zenon, <1>4, <1>7, <2>2
      <3>2. thread[u].group \in Members(QueueOf(thread[u].type))
        BY Zenon, <3>1 DEF RequestsOK
      <3> QED BY Zenon, <3>1, <3>2 DEF QueueOf
    <2> QED BY Zenon, <2>1, <2>2
  <1>9. \A u \in Holders' : ownership'[thread'[u].group]
    <2> TAKE u \in Holders'
    <2>1. u \in Threads /\ thread'[u].state = "holding"
      BY Zenon DEF Holders
    <2>2. CASE u = t
      BY Zenon, <1>2, <1>4, <2>1, <2>2
    <2>3. CASE u # t
      <3>1. thread'[u] = thread[u] /\ u \in Holders
        BY Zenon, <1>4, <2>1, <2>3 DEF Holders
      <3>2. ownership[thread[u].group] /\ thread[u].group \in Members(QueueOf(thread[u].type))
        BY Zenon, <2>1, <3>1, HolderIsActive DEF RequestsOK
      <3>3. thread[u].group \in Groups
        BY Zenon, <2>1, <3>1, <3>2, HolderIsActive, RequestGroup
      <3> QED BY Zenon, <3>1, <3>2, <3>3
    <2> QED BY Zenon, <2>2, <2>3
  <1>10. \A u \in Threads \ {t} : Active(u) /\ thread[u].group = g => type = "Read" /\ thread[u].type = "Read"
    <2> TAKE u \in Threads \ {t}
    <2> HAVE Active(u) /\ thread[u].group = g
    <2>1. g \in Members(QueueOf(thread[u].type)) /\ thread[u].type \in {"Read", "Write"}
      BY Zenon, <1>1, RequestTypes DEF RequestsOK
    <2>2. type = "Read"
      BY Zenon, <2>1 DEF QueueOf
    <2>3. thread[u].type = "Write" => g \in Members(writers_queue')
      BY Zenon, <2>1 DEF QueueOf
    <2> QED BY Zenon, <2>1, <2>2, <2>3
  <1>11. \A u, v \in Threads : /\ Active(u)' /\ Active(v)' /\ thread'[u].type = "Write"
                               /\ thread'[v].group = thread'[u].group
                               => v = u
    <2> TAKE u, v \in Threads
    <2> HAVE /\ Active(u)' /\ Active(v)' /\ thread'[u].type = "Write"
             /\ thread'[v].group = thread'[u].group
    <2>0. "Read" # "Write"
      OBVIOUS
    <2>1. CASE u = t
      <3>1. type = "Write" /\ thread'[u].group = g
        BY Zenon, <1>2, <1>4, <2>1
      <3>2. v # t => Active(v) /\ thread[v].group = g
        BY Zenon, <1>4, <1>7, <3>1
      <3> QED BY Zenon, <1>10, <2>0, <2>1, <3>1, <3>2
    <2>2. CASE u # t /\ v = t
      <3>1. Active(u) /\ thread[u].type = "Write" /\ thread[u].group = g
        BY Zenon, <1>2, <1>4, <1>7, <2>2
      <3> QED BY Zenon, <1>10, <2>0, <2>2, <3>1
    <2>3. CASE u # t /\ v # t
      BY Zenon, <1>4, <1>7, <2>3 DEF RequestsOK
    <2> QED BY Zenon, <2>1, <2>2, <2>3
  <1>12. /\ Attached(g)' = Attached(g) \cup {t} /\ t \notin Attached(g)
         /\ \A h \in Groups \ {g} : Attached(h)' = Attached(h)
    <2>1. t \notin Attached(g)
      BY Zenon DEF Attached, Active
    <2>2. \A u : u \in Attached(g)' <=> u \in Attached(g) \/ u = t
      BY Zenon, <1>2, <1>4, <1>7 DEF Attached, Active
    <2>3. \A h \in Groups \ {g} : \A u : u \in Attached(h)' <=> u \in Attached(h)
      BY Zenon, <1>2, <1>4, <1>7 DEF Attached, Active
    <2> QED BY Zenon, <2>1, <2>2, <2>3
  <1>13. \A h \in Groups : requests'[h] = Cardinality(Attached(h)')
    <2>1. requests'[g] = Cardinality(Attached(g)')
      <3>1. Cardinality(Attached(g) \cup {t}) = Cardinality(Attached(g)) + 1
        BY <1>12, AttachedIsFinite, FS_AddElement
      <3>2. requests[g] = Cardinality(Attached(g))
        BY Zenon DEF RequestsOK
      <3> QED BY Zenon, <1>6, <1>12, <3>1, <3>2
    <2> QED BY Zenon, <1>6, <1>12, <2>1 DEF RequestsOK
  <1>14. \A h \in Members(readers_queue') \cup Members(writers_queue') : Attached(h)' # {}
    <2> TAKE h \in Members(readers_queue') \cup Members(writers_queue')
    <2>1. CASE h = g
      BY Zenon, <1>12, <2>1
    <2>2. CASE h # g
      <3>1. h \in Members(readers_queue) \cup Members(writers_queue)
        BY Zenon, <2>2
      <3>2. Attached(h) # {}
        BY Zenon, <3>1 DEF RequestsOK
      <3>3. PICK u : u \in Attached(h)
        BY Zenon, <3>2
      <3>4. u \in Attached(h)'
        BY Zenon, <1>2, <1>4, <1>7, <2>2, <3>3 DEF Attached, Active
      <3> QED BY Zenon, <3>4
    <2> QED BY Zenon, <2>1, <2>2
  <1> QED BY Zenon, <1>5, <1>6, <1>8, <1>9, <1>11, <1>13, <1>14 DEF RequestsOK

(* A request of group g ends; the group leaves with its last request.      *)
LEMMA Leaving ==
    ASSUME RequestsOK, LockOK(readers_queue, writers_queue, rdlock_owner, wrlock_owner, ownership),
           NEW t \in Threads, Active(t), NEW g \in Groups, g = thread[t].group,
           thread' = [thread EXCEPT ![t] = Idle],
           requests' = [requests EXCEPT ![g] = @ - 1],
           IF requests[g] = 1 THEN Leaves(g) ELSE Keeps
    PROVE  RequestsOK'
  <1>1. /\ thread \in [Threads -> [state : {"idle", "waiting", "holding"},
                                   type : {"Read", "Write"}, group : Groups \cup {End}]]
        /\ requests \in [Groups -> Nat]
    BY Zenon DEF RequestsOK
  <1>2. /\ Idle \in [state : {"idle", "waiting", "holding"},
                     type : {"Read", "Write"}, group : Groups \cup {End}]
        /\ Idle.state = "idle"
    BY DEF Idle
  <1>3. thread'[t] = Idle /\ \A u \in Threads \ {t} : thread'[u] = thread[u]
    BY Zenon, <1>1
  <1>4. thread' \in [Threads -> [state : {"idle", "waiting", "holding"},
                                 type : {"Read", "Write"}, group : Groups \cup {End}]]
    BY Zenon, <1>1, <1>2
  <1>5. ~Active(t)' /\ \A u \in Threads \ {t} : Active(u)' <=> Active(u)
    BY Zenon, <1>2, <1>3 DEF Active
  <1>6. \A h \in Groups : requests[h] = Cardinality(Attached(h))
    BY Zenon DEF RequestsOK
  <1>7. /\ t \in Attached(g) /\ Attached(g)' = Attached(g) \ {t}
        /\ \A h \in Groups \ {g} : Attached(h)' = Attached(h)
    <2>1. t \in Attached(g)
      BY Zenon DEF Attached, Active
    <2>2. \A u : u \in Attached(g)' <=> u \in Attached(g) /\ u # t
      BY Zenon, <1>2, <1>3, <1>5 DEF Attached, Active
    <2>3. \A h \in Groups \ {g} : \A u : u \in Attached(h)' <=> u \in Attached(h)
      BY Zenon, <1>2, <1>3, <1>5 DEF Attached, Active
    <2> QED BY Zenon, <2>1, <2>2, <2>3
  <1>8. /\ Cardinality(Attached(g) \ {t}) = requests[g] - 1 /\ requests[g] \in Nat \ {0}
        /\ (requests[g] = 1 <=> Attached(g) \ {t} = {})
    <2>1. Cardinality(Attached(g) \ {t}) = Cardinality(Attached(g)) - 1
      BY <1>7, AttachedIsFinite, FS_RemoveElement
    <2>2. IsFiniteSet(Attached(g) \ {t})
      BY Zenon, <1>7, AttachedIsFinite, FS_RemoveElement
    <2>3. Cardinality(Attached(g) \ {t}) = 0 <=> Attached(g) \ {t} = {}
      BY Zenon, <2>2, FS_EmptySet
    <2>4. Cardinality(Attached(g)) \in Nat \ {0}
      BY Zenon, <1>7, AttachedIsFinite
    <2> QED BY <1>6, <2>1, <2>3, <2>4
  <1>9. /\ requests' \in [Groups -> Nat] /\ requests'[g] = requests[g] - 1
        /\ \A h \in Groups \ {g} : requests'[h] = requests[h]
    BY <1>1, <1>8
  <1>10. /\ \A h \in Members(readers_queue) : (h = g /\ requests[g] = 1) \/ h \in Members(readers_queue')
         /\ \A h \in Members(writers_queue) : (h = g /\ requests[g] = 1) \/ h \in Members(writers_queue')
         /\ Members(readers_queue') \cup Members(writers_queue')
               \subseteq Members(readers_queue) \cup Members(writers_queue)
         /\ requests[g] = 1 => g \notin Members(readers_queue') \cup Members(writers_queue')
         /\ \A h \in Groups : (h = g /\ requests[g] = 1) \/ (ownership[h] => ownership'[h])
    <2>1. CASE requests[g] = 1
      BY Zenon, <2>1 DEF Leaves
    <2>2. CASE requests[g] # 1
      BY Zenon, <2>2 DEF Keeps
    <2> QED BY Zenon, <2>1, <2>2
  <1>11. \A u \in Threads \ {t} : Active(u) /\ thread[u].group = g => requests[g] # 1
    BY Zenon, <1>8 DEF Attached, Active
  <1>12. \A u \in Threads : Active(u)' => thread'[u].group \in Members(QueueOf(thread[u].type))'
    <2> TAKE u \in Threads
    <2> HAVE Active(u)'
    <2>1. u # t /\ Active(u) /\ thread'[u] = thread[u]
      BY Zenon, <1>3, <1>5
    <2>2. thread[u].group \in Members(QueueOf(thread[u].type))
      BY Zenon, <2>1 DEF RequestsOK
    <2>3. ~(thread[u].group = g /\ requests[g] = 1)
      BY Zenon, <1>11, <2>1
    <2> QED BY Zenon, <1>10, <2>1, <2>2, <2>3 DEF QueueOf
  <1>13. \A u \in Holders' : ownership'[thread'[u].group]
    <2> TAKE u \in Holders'
    <2>1. u \in Threads /\ Active(u)' /\ thread'[u].state = "holding"
      BY Zenon, HolderIsActive, "holding" # "idle" DEF Holders, Active
    <2>2. u # t /\ Active(u) /\ thread'[u] = thread[u]
      BY Zenon, <1>3, <1>5, <2>1
    <2>3. u \in Holders
      BY Zenon, <2>1, <2>2 DEF Holders
    <2>4. ownership[thread[u].group] /\ thread[u].group \in Groups
      BY Zenon, <2>1, <2>2, <2>3, RequestGroup DEF RequestsOK
    <2> QED BY Zenon, <1>10, <1>11, <2>1, <2>2, <2>4
  <1>14. \A u, v \in Threads : /\ Active(u)' /\ Active(v)' /\ thread'[u].type = "Write"
                               /\ thread'[v].group = thread'[u].group
                               => v = u
    <2> TAKE u, v \in Threads
    <2> HAVE /\ Active(u)' /\ Active(v)' /\ thread'[u].type = "Write"
             /\ thread'[v].group = thread'[u].group
    <2>1. u # t /\ v # t
      BY Zenon, <1>5
    <2> QED BY Zenon, <1>3, <1>5, <2>1 DEF RequestsOK
  <1>15. \A h \in Groups : requests'[h] = Cardinality(Attached(h)')
    <2> TAKE h \in Groups
    <2>1. CASE h = g
      BY Zenon, <1>7, <1>8, <1>9, <2>1
    <2>2. CASE h # g
      BY Zenon, <1>6, <1>7, <1>9, <2>2
    <2> QED BY Zenon, <2>1, <2>2
  <1>16. \A h \in Members(readers_queue') \cup Members(writers_queue') : Attached(h)' # {}
    <2> TAKE h \in Members(readers_queue') \cup Members(writers_queue')
    <2>1. CASE h = g
      BY Zenon, <1>7, <1>8, <1>10, <2>1
    <2>2. CASE h # g
      <3>1. Attached(h) # {}
        BY Zenon, <1>10 DEF RequestsOK
      <3>2. PICK u : u \in Attached(h)
        BY Zenon, <3>1
      <3>3. u \in Attached(h)'
        BY Zenon, <1>3, <1>5, <2>2, <3>2 DEF Attached, Active
      <3> QED BY Zenon, <3>3
    <2> QED BY Zenon, <2>1, <2>2
  <1> QED BY Zenon, <1>4, <1>9, <1>12, <1>13, <1>14, <1>15, <1>16 DEF RequestsOK

(* A waiting request becomes a holder.                                     *)
LEMMA Waking ==
    ASSUME RequestsOK, NEW t \in Threads, thread[t].state = "waiting", ownership[thread[t].group],
           thread' = [thread EXCEPT ![t] = [state |-> "holding", type |-> thread[t].type,
                                            group |-> thread[t].group]],
           UNCHANGED <<lock, requests>>
    PROVE  RequestsOK'
  <1>1. /\ thread \in [Threads -> [state : {"idle", "waiting", "holding"},
                                   type : {"Read", "Write"}, group : Groups \cup {End}]]
    BY Zenon DEF RequestsOK
  <1>2. /\ thread' \in [Threads -> [state : {"idle", "waiting", "holding"},
                                   type : {"Read", "Write"}, group : Groups \cup {End}]]
        /\ \A u \in Threads : /\ thread'[u].type = thread[u].type
                              /\ thread'[u].group = thread[u].group
                              /\ thread'[u].state = IF u = t THEN "holding" ELSE thread[u].state
    BY <1>1
  <1>3. \A u \in Threads : Active(u)' <=> Active(u)
    BY <1>2 DEF Active
  <1>4. UNCHANGED <<readers_queue, writers_queue, ownership, requests>>
    BY Zenon DEF lock
  <1>5. \A g, u : u \in Attached(g)' <=> u \in Attached(g)
    BY Zenon, <1>2, <1>3 DEF Attached, Active
  <1>6. \A g : Attached(g)' = Attached(g)
    <2> TAKE g
    <2>1. \A u : u \in Attached(g)' <=> u \in Attached(g)
      BY Zenon, <1>5
    <2> QED BY Zenon, <2>1
  <1>7. \A u \in Holders' : ownership'[thread'[u].group]
    <2> TAKE u \in Holders'
    <2>1. u \in Threads /\ (u = t \/ u \in Holders)
      BY Zenon, <1>2 DEF Holders
    <2> QED BY Zenon, <1>2, <1>4, <2>1 DEF RequestsOK
  <1>8. \A u \in Threads : Active(u)' => thread'[u].group \in Members(QueueOf(thread[u].type))'
    BY Zenon, <1>2, <1>3, <1>4 DEF RequestsOK, QueueOf
  <1>9. \A u, v \in Threads : /\ Active(u)' /\ Active(v)' /\ thread'[u].type = "Write"
                              /\ thread'[v].group = thread'[u].group
                              => v = u
    <2> TAKE u, v \in Threads
    <2> HAVE /\ Active(u)' /\ Active(v)' /\ thread'[u].type = "Write"
             /\ thread'[v].group = thread'[u].group
    <2>1. Active(u) /\ Active(v) /\ thread[u].type = "Write" /\ thread[v].group = thread[u].group
      BY Zenon, <1>2, <1>3
    <2> QED BY Zenon, <2>1 DEF RequestsOK
  <1>10. /\ requests' \in [Groups -> Nat]
         /\ \A g \in Groups : requests'[g] = Cardinality(Attached(g)')
         /\ \A g \in Members(readers_queue') \cup Members(writers_queue') : Attached(g)' # {}
    BY Zenon, <1>4, <1>6 DEF RequestsOK
  <1> QED BY Zenon, <1>2, <1>7, <1>8, <1>9, <1>10 DEF RequestsOK

-----------------------------------------------------------------------------
(* owner_queries counts holders.                                           *)
HoldersOf(q) == {t \in Holders : QueryOf[t] = q}
Counted == owner_queries \in [Queries -> Nat] /\ QueryOwnersAreCounted

LEMMA HoldersAreFinite ==
    \A q : /\ IsFiniteSet(HoldersOf(q)) /\ Cardinality(HoldersOf(q)) \in Nat
           /\ Cardinality(HoldersOf(q)) <= Cardinality(Threads)
           /\ (Cardinality(HoldersOf(q)) = 0 <=> HoldersOf(q) = {})
  <1> TAKE q
  <1>1. HoldersOf(q) \in SUBSET Threads
    BY Zenon DEF HoldersOf, Holders
  <1>2. IsFiniteSet(HoldersOf(q)) /\ Cardinality(HoldersOf(q)) <= Cardinality(Threads)
    BY Zenon, <1>1, RWLockAssumption, FS_Subset
  <1> QED BY Zenon, <1>2, FS_CardinalityType, FS_EmptySet

LEMMA CountedHolders ==
    Counted <=> /\ owner_queries \in [Queries -> Nat]
                /\ \A q \in Queries : owner_queries[q] = Cardinality(HoldersOf(q))
  BY Zenon DEF Counted, QueryOwnersAreCounted, HoldersOf

LEMMA CountSame ==
    ASSUME Counted, \A u : u \in Holders' <=> u \in Holders, UNCHANGED owner_queries
    PROVE  Counted'
  <1>1. Holders' = Holders
    BY Zenon
  <1> QED BY Zenon, <1>1 DEF Counted, QueryOwnersAreCounted

LEMMA CountIn ==
    ASSUME Counted, NEW t \in Threads, t \notin Holders, countOwner(t),
           \A u : u \in Holders' <=> u \in Holders \/ u = t
    PROVE  Counted'
  <1>1. /\ owner_queries \in [Queries -> Nat]
        /\ \A q \in Queries : owner_queries[q] = Cardinality(HoldersOf(q))
    BY Zenon, CountedHolders
  <1>2. \A q, u : u \in HoldersOf(q)' <=> u \in HoldersOf(q) \/ (u = t /\ QueryOf[t] = q)
    BY Zenon DEF HoldersOf
  <1>3. /\ owner_queries' \in [Queries -> Nat]
        /\ \A q \in Queries : owner_queries'[q] = IF q = QueryOf[t] THEN owner_queries[q] + 1
                                                  ELSE owner_queries[q]
    <2>1. CASE QueryOf[t] = NO_QUERY
      BY Zenon, <1>1, <2>1, RWLockAssumption DEF countOwner
    <2>2. CASE QueryOf[t] # NO_QUERY
      <3>1. QueryOf[t] \in Queries
        BY Zenon, <2>2, RWLockAssumption
      <3>2. owner_queries' = [owner_queries EXCEPT ![QueryOf[t]] = @ + 1]
        BY Zenon, <2>2 DEF countOwner
      <3> QED BY <1>1, <3>1, <3>2
    <2> QED BY Zenon, <2>1, <2>2
  <1>4. \A q \in Queries : owner_queries'[q] = Cardinality(HoldersOf(q)')
    <2> TAKE q \in Queries
    <2>1. CASE q = QueryOf[t]
      <3>1. HoldersOf(q)' = HoldersOf(q) \cup {t}
        BY Zenon, <1>2, <2>1
      <3>2. Cardinality(HoldersOf(q) \cup {t}) = Cardinality(HoldersOf(q)) + 1
        <4>1. t \notin HoldersOf(q)
          BY Zenon DEF HoldersOf
        <4> QED BY <4>1, HoldersAreFinite, FS_AddElement
      <3> QED BY Zenon, <1>1, <1>3, <2>1, <3>1, <3>2
    <2>2. CASE q # QueryOf[t]
      <3>1. HoldersOf(q)' = HoldersOf(q)
        <4>1. \A u : u \in HoldersOf(q)' <=> u \in HoldersOf(q)
          BY Zenon, <1>2, <2>2
        <4> QED BY Zenon, <4>1
      <3> QED BY Zenon, <1>1, <1>3, <2>2, <3>1
    <2> QED BY Zenon, <2>1, <2>2
  <1> QED BY Zenon, <1>3, <1>4 DEF Counted, QueryOwnersAreCounted, HoldersOf

LEMMA HolderHoldsLock ==
    ASSUME Counted, NEW t \in Holders
    PROVE  holdsLock(t) <=> QueryOf[t] # NO_QUERY
  <1>1. SUFFICES ASSUME QueryOf[t] # NO_QUERY PROVE owner_queries[QueryOf[t]] > 0
    BY Zenon DEF holdsLock
  <1>2. QueryOf[t] \in Queries
    BY Zenon, <1>1, RWLockAssumption DEF Holders
  <1>3. t \in HoldersOf(QueryOf[t])
    BY Zenon DEF HoldersOf
  <1>4. /\ owner_queries[QueryOf[t]] = Cardinality(HoldersOf(QueryOf[t]))
        /\ Cardinality(HoldersOf(QueryOf[t])) \in Nat
        /\ Cardinality(HoldersOf(QueryOf[t])) # 0
    BY Zenon, <1>2, <1>3, CountedHolders, HoldersAreFinite
  <1> QED BY <1>4

LEMMA CountOut ==
    ASSUME Counted, NEW t \in Holders,
           owner_queries' = IF holdsLock(t) THEN [owner_queries EXCEPT ![QueryOf[t]] = @ - 1]
                            ELSE owner_queries,
           \A u : u \in Holders' <=> u \in Holders /\ u # t
    PROVE  Counted'
  <1>1. /\ owner_queries \in [Queries -> Nat]
        /\ \A q \in Queries : owner_queries[q] = Cardinality(HoldersOf(q))
    BY Zenon, CountedHolders
  <1>2. \A q, u : u \in HoldersOf(q)' <=> u \in HoldersOf(q) /\ ~(u = t /\ QueryOf[t] = q)
    BY Zenon DEF HoldersOf
  <1>3. /\ owner_queries' \in [Queries -> Nat]
        /\ \A q \in Queries : owner_queries'[q] = IF q = QueryOf[t] THEN owner_queries[q] - 1
                                                  ELSE owner_queries[q]
    <2>1. CASE QueryOf[t] = NO_QUERY
      BY Zenon, <1>1, <2>1, RWLockAssumption, HolderHoldsLock
    <2>2. CASE QueryOf[t] # NO_QUERY
      <3>1. QueryOf[t] \in Queries
        BY Zenon, <2>2, RWLockAssumption DEF Holders
      <3>2. /\ owner_queries' = [owner_queries EXCEPT ![QueryOf[t]] = @ - 1]
            /\ holdsLock(t)
        BY Zenon, <2>2, HolderHoldsLock
      <3>3. owner_queries[QueryOf[t]] > 0
        BY Zenon, <3>2 DEF holdsLock
      <3> QED BY <1>1, <3>1, <3>2, <3>3
    <2> QED BY Zenon, <2>1, <2>2
  <1>4. \A q \in Queries : owner_queries'[q] = Cardinality(HoldersOf(q)')
    <2> TAKE q \in Queries
    <2>1. CASE q = QueryOf[t]
      <3>1. HoldersOf(q)' = HoldersOf(q) \ {t}
        BY Zenon, <1>2, <2>1
      <3>2. Cardinality(HoldersOf(q) \ {t}) = Cardinality(HoldersOf(q)) - 1
        <4>1. t \in HoldersOf(q)
          BY Zenon, <2>1 DEF HoldersOf
        <4> QED BY <4>1, HoldersAreFinite, FS_RemoveElement
      <3> QED BY Zenon, <1>1, <1>3, <2>1, <3>1, <3>2
    <2>2. CASE q # QueryOf[t]
      <3>1. HoldersOf(q)' = HoldersOf(q)
        <4>1. \A u : u \in HoldersOf(q)' <=> u \in HoldersOf(q)
          BY Zenon, <1>2, <2>2
        <4> QED BY Zenon, <4>1
      <3> QED BY Zenon, <1>1, <1>3, <2>2, <3>1
    <2> QED BY Zenon, <2>1, <2>2
  <1> QED BY Zenon, <1>3, <1>4 DEF Counted, QueryOwnersAreCounted, HoldersOf

(* Who holds the lock after a thread changed its state.                    *)
LEMMA HoldersChange ==
    ASSUME thread \in [Threads -> [state : {"idle", "waiting", "holding"},
                                   type : {"Read", "Write"}, group : Groups \cup {End}]],
           NEW t \in Threads, NEW rec, thread' = [thread EXCEPT ![t] = rec]
    PROVE  \A u : u \in Holders' <=> IF u = t THEN rec.state = "holding" ELSE u \in Holders
  <1>1. thread'[t] = rec /\ \A u \in Threads \ {t} : thread'[u] = thread[u]
    BY Zenon
  <1> QED BY Zenon, <1>1 DEF Holders

-----------------------------------------------------------------------------
(* What the state of the lock says of its groups.                          *)
Lock == LockOK(readers_queue, writers_queue, rdlock_owner, wrlock_owner, ownership)

LEMMA FreeLock ==
    ASSUME Lock, Free
    PROVE  /\ readers_queue = <<>> /\ writers_queue = <<>>
           /\ ownership \in [Groups -> BOOLEAN] /\ \A g \in Groups : ~ownership[g]
  <1>1. PICK k \in Nat : /\ Phase(readers_queue, writers_queue, rdlock_owner, wrlock_owner, k)
                         /\ Owning(readers_queue, writers_queue, wrlock_owner, ownership, k)
    BY Zenon DEF LockOK, Lock
  <1>2. k = 0
    <2>1. k # 0 => k \in 1 .. Len(readers_queue) /\ rdlock_owner = readers_queue[k]
      BY <1>1 DEF Phase
    <2> QED BY Zenon, <2>1, QueueTypes DEF LockOK, Lock, Free
  <1>3. readers_queue = <<>> /\ writers_queue = <<>>
    BY Zenon, <1>1, <1>2 DEF Phase, Free
  <1>4. Members(readers_queue) = {} /\ Members(writers_queue) = {}
    BY <1>3 DEF Members
  <1> QED BY Zenon, <1>1, <1>3, <1>4 DEF Owning, LockOK, Lock

LEMMA OwnedPhase ==
    ASSUME Lock, NEW g \in Groups, ownership[g]
    PROVE  \/ /\ g \in Members(readers_queue) /\ wrlock_owner = End /\ rdlock_owner # End
              /\ rdlock_owner \in Members(readers_queue) /\ rdlock_owner \in Groups
              /\ ownership[rdlock_owner]
           \/ /\ g \in Members(writers_queue) /\ wrlock_owner = g /\ rdlock_owner = End
              /\ wrlock_owner # End
  <1> DEFINE rq == readers_queue
             wq == writers_queue
  <1>1. PICK k \in Nat : Phase(rq, wq, rdlock_owner, wrlock_owner, k) /\ Owning(rq, wq, wrlock_owner, ownership, k)
    BY Zenon DEF LockOK, Lock
  <1>2. IsQueue(rq) /\ IsQueue(wq)
    BY Zenon DEF LockOK, Lock
  <1>3. g \in Members(rq) \cup Members(wq)
    BY Zenon, <1>1 DEF Owning
  <1>4. CASE g \in Members(rq)
    <2>1. PICK i \in 1 .. Len(rq) : g = rq[i]
      BY Zenon, <1>4 DEF Members
    <2>2. i <= k
      BY Zenon, <1>1, <2>1 DEF Owning
    <2>3. k # 0 /\ k \in 1 .. Len(rq) /\ k <= k
      BY <1>1, <2>2 DEF Phase
    <2>4. ownership[rq[k]] /\ rdlock_owner = rq[k] /\ wrlock_owner = End
      BY Zenon, <1>1, <2>3 DEF Owning, Phase
    <2> QED BY Zenon, <1>2, <1>4, <2>3, <2>4, QueueTypes
  <1>5. CASE g \in Members(wq)
    <2>1. PICK i \in 1 .. Len(wq) : g = wq[i]
      BY Zenon, <1>5 DEF Members
    <2>2. i = 1 /\ wrlock_owner # End
      BY Zenon, <1>1, <2>1 DEF Owning
    <2>3. wrlock_owner = g /\ k = 0
      BY Zenon, <1>1, <2>1, <2>2 DEF Phase
    <2>4. rdlock_owner = End
      BY Zenon, <1>1, <2>3 DEF Phase
    <2> QED BY Zenon, <1>5, <2>2, <2>3, <2>4
  <1> QED BY Zenon, <1>3, <1>4, <1>5

LEMMA LastGroup ==
    ASSUME Lock, readers_queue # <<>>
    PROVE  last(readers_queue) \in Members(readers_queue) /\ last(readers_queue) \in Groups
  <1>1. IsQueue(readers_queue)
    BY Zenon DEF LockOK, Lock
  <1>2. Len(readers_queue) \in 1 .. Len(readers_queue)
    BY <1>1 DEF IsQueue
  <1> QED BY Zenon, <1>1, <1>2, QueueTypes DEF last

(* unlock() always finds the lock as it requires it.                       *)
LEMMA HoldersAreConsistent ==
    ASSUME Lock, RequestsOK, NEW t \in Holders
    PROVE  /\ consistent(thread[t].type, thread[t].group)
           /\ thread[t].group \in Groups /\ ownership[thread[t].group]
  <1>1. t \in Threads /\ Active(t)
    BY Zenon, HolderIsActive
  <1>2. thread[t].group \in Groups /\ ownership[thread[t].group]
    BY Zenon, <1>1, RequestGroup DEF RequestsOK, Lock
  <1>3. thread[t].group \in Members(QueueOf(thread[t].type)) /\ thread[t].type \in {"Read", "Write"}
    BY Zenon, <1>1, RequestTypes DEF RequestsOK
  <1>4. Members(readers_queue) \cap Members(writers_queue) = {} /\ "Read" # "Write"
    BY DEF Lock, LockOK
  <1>5. CASE thread[t].type = "Read"
    BY Zenon, <1>2, <1>3, <1>4, <1>5, OwnedPhase DEF consistent, QueueOf
  <1>6. CASE thread[t].type = "Write"
    BY Zenon, <1>2, <1>3, <1>4, <1>6, OwnedPhase DEF consistent, QueueOf
  <1> QED BY Zenon, <1>2, <1>3, <1>5, <1>6

(* A free lock is taken by one group.                                      *)
LEMMA ReadersTake ==
    ASSUME NEW own \in [Groups -> BOOLEAN], \A h \in Groups : ~own[h], NEW g \in Groups
    PROVE  LockOK(Append(<<>>, g), <<>>, g, End, [own EXCEPT ![g] = TRUE])
  <1> DEFINE o == [own EXCEPT ![g] = TRUE]
  <1>1. PICK r, w : r = Append(<<>>, g) /\ w = <<>>
    BY Zenon
  <1>2. /\ r \in Seq(Groups) /\ Len(r) = 1 /\ r[1] = g /\ w \in Seq(Groups) /\ Len(w) = 0
    BY <1>1
  <1>3. Members(r) = {g} /\ Members(w) = {} /\ IsQueue(r) /\ IsQueue(w)
    BY <1>2 DEF Members, IsQueue
  <1>4. o \in [Groups -> BOOLEAN] /\ o[g] /\ \A h \in Groups : o[h] => h = g
    OBVIOUS
  <1> HIDE DEF o
  <1>5. Phase(r, w, g, End, 1)
    BY <1>1, <1>2 DEF Phase, End
  <1>6. Owning(r, w, End, o, 1)
    <2>1. \A i \in 1 .. Len(r) : o[r[i]] <=> i <= 1
      BY <1>2, <1>4
    <2>2. \A i \in 1 .. Len(w) : o[w[i]] <=> i = 1 /\ End # End
      BY <1>2
    <2> QED BY Zenon, <1>3, <1>4, <2>1, <2>2 DEF Owning
  <1>7. LockOK(r, w, g, End, o)
    <2>1. \E k \in Nat : Phase(r, w, g, End, k) /\ Owning(r, w, End, o, k)
      BY <1>5, <1>6
    <2> QED BY Zenon, <1>3, <1>4, <2>1 DEF LockOK
  <1> QED BY Zenon, <1>1, <1>7 DEF o

LEMMA WriterTakes ==
    ASSUME NEW own \in [Groups -> BOOLEAN], \A h \in Groups : ~own[h], NEW g \in Groups
    PROVE  LockOK(<<>>, Append(<<>>, g), End, g, [own EXCEPT ![g] = TRUE])
  <1> DEFINE o == [own EXCEPT ![g] = TRUE]
  <1>1. PICK r, w : w = Append(<<>>, g) /\ r = <<>>
    BY Zenon
  <1>2. /\ w \in Seq(Groups) /\ Len(w) = 1 /\ w[1] = g /\ r \in Seq(Groups) /\ Len(r) = 0
        /\ w # <<>>
    BY <1>1
  <1>3. Members(w) = {g} /\ Members(r) = {} /\ IsQueue(r) /\ IsQueue(w)
    BY <1>2 DEF Members, IsQueue
  <1>4. o \in [Groups -> BOOLEAN] /\ o[g] /\ \A h \in Groups : o[h] => h = g
    OBVIOUS
  <1> HIDE DEF o
  <1>0. g # End
    BY Zenon, GroupsAreNotEnd
  <1>5. Phase(r, w, End, g, 0)
    BY <1>0, <1>1, <1>2 DEF Phase
  <1>6. Owning(r, w, g, o, 0)
    <2>1. \A i \in 1 .. Len(r) : o[r[i]] <=> i <= 0
      BY <1>2
    <2>2. \A i \in 1 .. Len(w) : o[w[i]] <=> i = 1 /\ g # End
      BY <1>0, <1>2, <1>4
    <2> QED BY Zenon, <1>3, <1>4, <2>1, <2>2 DEF Owning
  <1>7. LockOK(r, w, End, g, o)
    <2>1. \E k \in Nat : Phase(r, w, End, g, k) /\ Owning(r, w, g, o, k)
      BY <1>5, <1>6
    <2> QED BY Zenon, <1>3, <1>4, <2>1 DEF LockOK
  <1> QED BY Zenon, <1>1, <1>7 DEF o

LEMMA EnteringCounts ==
    ASSUME RequestsOK, Counted, NEW t \in Threads, thread[t].state # "holding", countOwner(t),
           NEW type, NEW g,
           thread' = [thread EXCEPT ![t] = [state |-> "holding", type |-> type, group |-> g]]
    PROVE  Counted'
  <1>1. [state |-> "holding", type |-> type, group |-> g].state = "holding"
    OBVIOUS
  <1>2. \A u : u \in Holders' <=> IF u = t THEN TRUE ELSE u \in Holders
    BY Zenon, <1>1, HoldersChange DEF RequestsOK
  <1>3. t \notin Holders /\ \A u : u \in Holders' <=> u \in Holders \/ u = t
    BY Zenon, <1>2 DEF Holders
  <1> QED BY Zenon, <1>3, CountIn

LEMMA WaitingCounts ==
    ASSUME RequestsOK, Counted, NEW t \in Threads, thread[t].state # "holding",
           NEW rec, rec.state # "holding", thread' = [thread EXCEPT ![t] = rec],
           UNCHANGED owner_queries
    PROVE  Counted'
  <1>1. \A u : u \in Holders' <=> IF u = t THEN FALSE ELSE u \in Holders
    BY Zenon, HoldersChange DEF RequestsOK
  <1>2. \A u : u \in Holders' <=> u \in Holders
    BY Zenon, <1>1 DEF Holders
  <1> QED BY Zenon, <1>2, CountSame

LEMMA InvParts == Inv <=> Lock /\ RequestsOK /\ Counted
  BY Zenon DEF Inv, Lock, Counted

-----------------------------------------------------------------------------
(* The requests.  A group as enqueue leaves the queues.                    *)
Enqueued(type, g) ==
    /\ Members(readers_queue) \subseteq Members(readers_queue')
    /\ Members(writers_queue) \subseteq Members(writers_queue')
    /\ Members(readers_queue') \cup Members(writers_queue')
          \subseteq Members(readers_queue) \cup Members(writers_queue) \cup {g}
    /\ g \in IF type = "Read" THEN Members(readers_queue') ELSE Members(writers_queue')
    /\ type = "Write" => g \notin Members(readers_queue) \cup Members(writers_queue)

LEMMA EnqueuedGroup ==
    ASSUME Lock, RequestsOK, NEW t \in Threads, ~Active(t), NEW type \in {"Read", "Write"},
           NEW g, g = groupFor(type), enqueue(type, g)
    PROVE  /\ g \in Groups /\ Enqueued(type, g)
           /\ ~(type = "Read" /\ canUseLastGroup)
              => g \notin Members(readers_queue) \cup Members(writers_queue)
  <1>0. "Read" # "Write" /\ IsQueue(readers_queue) /\ IsQueue(writers_queue)
    BY DEF Lock, LockOK
  <1>1. CASE type = "Read" /\ canUseLastGroup
    <2>1. g = last(readers_queue) /\ readers_queue # <<>>
      BY Zenon, <1>1 DEF groupFor, canUseLastGroup
    <2>2. g \in Groups /\ g \in Members(readers_queue)
      BY Zenon, <2>1, LastGroup
    <2>3. readers_queue' = readers_queue /\ writers_queue' = writers_queue
      BY Zenon, <1>0, <1>1 DEF enqueue
    <2> QED BY Zenon, <1>0, <1>1, <2>2, <2>3 DEF Enqueued
  <1>2. CASE ~(type = "Read" /\ canUseLastGroup)
    <2>1. g = Fresh
      BY Zenon, <1>2 DEF groupFor
    <2>2. g \in Groups /\ g \notin Members(readers_queue) \cup Members(writers_queue)
      BY Zenon, <2>1, FreshIsFresh
    <2>3. CASE type = "Read"
      <3>1. readers_queue' = Append(readers_queue, g) /\ writers_queue' = writers_queue
        BY Zenon, <1>0, <1>2, <2>3 DEF enqueue
      <3>2. With(readers_queue, g, readers_queue')
        BY Zenon, <1>0, <2>2, <3>1, AppendFacts
      <3> QED BY Zenon, <1>0, <2>2, <2>3, <3>1, <3>2 DEF Enqueued, With
    <2>4. CASE type = "Write"
      <3>1. writers_queue' = Append(writers_queue, g) /\ readers_queue' = readers_queue
        BY Zenon, <1>0, <1>2, <2>4 DEF enqueue
      <3>2. With(writers_queue, g, writers_queue')
        BY Zenon, <1>0, <2>2, <3>1, AppendFacts
      <3> QED BY Zenon, <1>0, <2>2, <2>4, <3>1, <3>2 DEF Enqueued, With
    <2> QED BY Zenon, <2>2, <2>3, <2>4
  <1> QED BY Zenon, <1>1, <1>2

LEMMA AcquireFreeStep ==
    ASSUME Inv, NEW t \in Threads, NEW type \in {"Read", "Write"}, AcquireFree(t, type)
    PROVE  Inv'
  <1>1. PICK g : g = groupFor(type)
    BY Zenon
  <1>2. /\ ~Active(t) /\ Free /\ enqueue(type, g)
        /\ rdlock_owner' = IF type = "Read" THEN g ELSE rdlock_owner
        /\ wrlock_owner' = IF type = "Write" THEN g ELSE wrlock_owner
        /\ ownership' = [ownership EXCEPT ![g] = TRUE]
        /\ countOwner(t)
        /\ requests' = [requests EXCEPT ![g] = @ + 1]
        /\ thread' = [thread EXCEPT ![t] = [state |-> "holding", type |-> type, group |-> g]]
    BY Zenon, <1>1 DEF AcquireFree, Asks, Holding, Active
  <1>3. Lock /\ RequestsOK /\ Counted
    BY Zenon, InvParts
  <1>4. g \in Groups /\ Enqueued(type, g)
    BY Zenon, <1>1, <1>2, <1>3, EnqueuedGroup
  <1>5. /\ readers_queue = <<>> /\ writers_queue = <<>>
        /\ ownership \in [Groups -> BOOLEAN] /\ \A h \in Groups : ~ownership[h]
    BY Zenon, <1>2, <1>3, FreeLock
  <1>6. Lock'
    <2>0. "Read" # "Write" /\ ~canUseLastGroup
      BY <1>5 DEF canUseLastGroup
    <2>1. CASE type = "Read"
      <3>1. /\ readers_queue' = Append(<<>>, g) /\ writers_queue' = <<>>
            /\ rdlock_owner' = g /\ wrlock_owner' = End
        BY Zenon, <1>2, <1>5, <2>0, <2>1 DEF enqueue, Free
      <3> QED BY Zenon, <1>2, <1>4, <1>5, <3>1, ReadersTake DEF Lock
    <2>2. CASE type = "Write"
      <3>1. /\ writers_queue' = Append(<<>>, g) /\ readers_queue' = <<>>
            /\ wrlock_owner' = g /\ rdlock_owner' = End
        BY Zenon, <1>2, <1>5, <2>0, <2>2 DEF enqueue, Free
      <3> QED BY Zenon, <1>2, <1>4, <1>5, <3>1, WriterTakes DEF Lock
    <2> QED BY Zenon, <2>1, <2>2
  <1>7. RequestsOK'
    <2>1. /\ \A h \in Groups : ownership[h] => ownership'[h]
          /\ "holding" = "holding" => ownership'[g]
      BY Zenon, <1>2, <1>4, <1>5
    <2>2. Members(readers_queue') \cap Members(writers_queue') = {}
      BY Zenon, <1>6 DEF Lock, LockOK
    <2> QED BY Zenon, <1>2, <1>3, <1>4, <2>1, <2>2, Entering DEF Enqueued, Lock
  <1>8. Counted'
    <2>1. thread[t].state # "holding"
      BY <1>2 DEF Active
    <2> QED BY Zenon, <1>2, <1>3, <2>1, EnteringCounts
  <1> QED BY Zenon, <1>6, <1>7, <1>8 DEF Inv, Lock, Counted

LEMMA WaitStep ==
    ASSUME Inv, NEW t \in Threads, NEW type \in {"Read", "Write"}, Wait(t, type)
    PROVE  Inv'
  <1>1. PICK g : g = groupFor(type)
    BY Zenon
  <1>2. /\ ~Active(t) /\ ~Free /\ enqueue(type, g)
        /\ UNCHANGED <<rdlock_owner, wrlock_owner, ownership, owner_queries>>
        /\ requests' = [requests EXCEPT ![g] = @ + 1]
        /\ thread' = [thread EXCEPT ![t] = [state |-> "waiting", type |-> type, group |-> g]]
    BY Zenon, <1>1 DEF Wait, Asks, Active
  <1>3. Lock /\ RequestsOK /\ Counted
    BY Zenon, InvParts
  <1>4. /\ g \in Groups /\ Enqueued(type, g)
        /\ ~(type = "Read" /\ canUseLastGroup)
           => g \notin Members(readers_queue) \cup Members(writers_queue)
    BY Zenon, <1>1, <1>2, <1>3, EnqueuedGroup
  <1>5. Lock'
    <2>0. "Read" # "Write"
      OBVIOUS
    <2>1. CASE type = "Read" /\ canUseLastGroup
      BY Zenon, <1>2, <1>3, <2>0, <2>1 DEF enqueue, Lock
    <2>2. CASE type = "Read" /\ ~canUseLastGroup
      <3>1. readers_queue' = Append(readers_queue, g) /\ writers_queue' = writers_queue
        BY Zenon, <1>2, <2>0, <2>2 DEF enqueue
      <3>2. readers_queue = <<>> \/ (ownership[last(readers_queue)] /\ writers_queue # <<>>)
        BY Zenon, <2>2 DEF canUseLastGroup
      <3>3. LockOK(Append(readers_queue, g), writers_queue, rdlock_owner, wrlock_owner, ownership)
        BY Zenon, <1>2, <1>3, <1>4, <2>2, <3>2, ReadersJoin DEF Lock, Free
      <3> QED BY Zenon, <1>2, <3>1, <3>3 DEF Lock
    <2>3. CASE type = "Write"
      <3>1. writers_queue' = Append(writers_queue, g) /\ readers_queue' = readers_queue
        BY Zenon, <1>2, <2>0, <2>3 DEF enqueue
      <3>2. LockOK(readers_queue, Append(writers_queue, g), rdlock_owner, wrlock_owner, ownership)
        BY Zenon, <1>2, <1>3, <1>4, <2>0, <2>3, WriterJoins DEF Lock, Free
      <3> QED BY Zenon, <1>2, <3>1, <3>2 DEF Lock
    <2> QED BY Zenon, <2>1, <2>2, <2>3
  <1>6. RequestsOK'
    <2>1. \A h \in Groups : ownership[h] => ownership'[h]
      BY Zenon, <1>2
    <2>2. Members(readers_queue') \cap Members(writers_queue') = {}
      BY Zenon, <1>5 DEF Lock, LockOK
    <2>3. "waiting" = "holding" => ownership'[g]
      OBVIOUS
    <2> QED BY Zenon, <1>2, <1>3, <1>4, <2>1, <2>2, <2>3, Entering DEF Enqueued, Lock
  <1>7. Counted'
    <2>1. /\ thread[t].state # "holding"
          /\ [state |-> "waiting", type |-> type, group |-> g].state # "holding"
      BY <1>2 DEF Active
    <2> QED BY Zenon, <1>2, <1>3, <2>1, WaitingCounts
  <1> QED BY Zenon, <1>5, <1>6, <1>7 DEF Inv, Lock, Counted

(* A reader joins the groups that own the lock: JoinOwners and the fast    *)
(* path.                                                                   *)
LEMMA JoinStep ==
    ASSUME Inv, NEW t \in Threads, ~Active(t), NEW g \in Members(readers_queue), ownership[g],
           g \in Groups, countOwner(t),
           requests' = [requests EXCEPT ![g] = @ + 1],
           Holding(t, "Read", g), UNCHANGED lock
    PROVE  Inv'
  <1>1. Lock /\ RequestsOK /\ Counted
    BY Zenon, InvParts
  <1>2. thread' = [thread EXCEPT ![t] = [state |-> "holding", type |-> "Read", group |-> g]]
    BY Zenon DEF Holding
  <1>3. /\ readers_queue' = readers_queue /\ writers_queue' = writers_queue
        /\ rdlock_owner' = rdlock_owner /\ wrlock_owner' = wrlock_owner /\ ownership' = ownership
    BY Zenon DEF lock
  <1>4. Lock'
    BY Zenon, <1>1, <1>3 DEF Lock
  <1>5. "Read" # "Write" /\ "Read" \in {"Read", "Write"} /\ "holding" \in {"waiting", "holding"}
    OBVIOUS
  <1>6. /\ Enqueued("Read", g)
        /\ Members(readers_queue') \cap Members(writers_queue') = {}
    BY Zenon, <1>3, <1>4, <1>5 DEF Enqueued, Lock, LockOK
  <1>7. RequestsOK'
    <2>1. \A h \in Groups : ownership[h] => ownership'[h]
      BY Zenon, <1>3
    <2>2. "holding" = "holding" => ownership'[g]
      BY Zenon, <1>3
    <2> QED BY Zenon, <1>1, <1>2, <1>5, <1>6, <2>1, <2>2, Entering DEF Enqueued, Lock
  <1>8. Counted'
    <2>1. thread[t].state # "holding"
      BY DEF Active
    <2> QED BY Zenon, <1>1, <1>2, <2>1, EnteringCounts
  <1> QED BY Zenon, <1>4, <1>7, <1>8 DEF Inv, Lock, Counted

LEMMA JoinOwnersStep ==
    ASSUME Inv, NEW t \in Threads, JoinOwners(t)
    PROVE  Inv'
  <1>1. PICK g : g = last(readers_queue)
    BY Zenon
  <1>2. /\ ~Active(t) /\ ownership[g] /\ countOwner(t)
        /\ requests' = [requests EXCEPT ![g] = @ + 1]
        /\ Holding(t, "Read", g) /\ UNCHANGED lock
    BY Zenon, <1>1 DEF JoinOwners, Asks, Active
  <1>3. g \in Members(readers_queue) /\ g \in Groups
    BY Zenon, <1>1, InvParts, LastGroup DEF JoinOwners, canUseLastGroup
  <1> QED BY Zenon, <1>2, <1>3, JoinStep

(* A query that holds the lock, when no writer owns it, holds it with the  *)
(* readers: rdlock_owner is a group, and an owner.                         *)
LEMMA FastPathGroup ==
    ASSUME Inv, NEW t \in Threads, holdsLock(t), wrlock_owner = End
    PROVE  /\ rdlock_owner \in Members(readers_queue) /\ rdlock_owner \in Groups
           /\ ownership[rdlock_owner]
  <1>1. QueryOf[t] \in Queries /\ owner_queries[QueryOf[t]] > 0
    BY Zenon, RWLockAssumption DEF holdsLock
  <1>2. /\ owner_queries[QueryOf[t]] = Cardinality(HoldersOf(QueryOf[t]))
        /\ (Cardinality(HoldersOf(QueryOf[t])) = 0 <=> HoldersOf(QueryOf[t]) = {})
    BY Zenon, <1>1, InvParts, CountedHolders, HoldersAreFinite
  <1>3. HoldersOf(QueryOf[t]) # {}
    BY <1>1, <1>2
  <1>4. PICK u : u \in Holders
    BY Zenon, <1>3 DEF HoldersOf
  <1>5. thread[u].group \in Groups /\ ownership[thread[u].group]
    BY Zenon, <1>4, InvParts, HoldersAreConsistent
  <1> QED BY Zenon, <1>5, InvParts, OwnedPhase

LEMMA FastPathStep ==
    ASSUME Inv, NEW t \in Threads, FastPath(t)
    PROVE  Inv'
  <1>1. PICK g : g = rdlock_owner
    BY Zenon
  <1>2. /\ ~Active(t) /\ holdsLock(t) /\ wrlock_owner = End /\ countOwner(t)
        /\ requests' = [requests EXCEPT ![g] = @ + 1]
        /\ Holding(t, "Read", g) /\ UNCHANGED lock
    BY Zenon, <1>1 DEF FastPath, Active
  <1>3. g \in Members(readers_queue) /\ g \in Groups /\ ownership[g]
    BY Zenon, <1>1, <1>2, FastPathGroup
  <1> QED BY Zenon, <1>2, <1>3, JoinStep

LEMMA WakeStep ==
    ASSUME Inv, NEW t \in Threads, Wake(t)
    PROVE  Inv'
  <1>1. Lock /\ RequestsOK /\ Counted
    BY Zenon, InvParts
  <1>2. /\ thread[t].state = "waiting" /\ ownership[thread[t].group] /\ countOwner(t)
        /\ thread' = [thread EXCEPT ![t] = [state |-> "holding", type |-> thread[t].type,
                                            group |-> thread[t].group]]
        /\ UNCHANGED <<lock, requests>>
    BY Zenon DEF Wake, Holding
  <1>3. Lock'
    BY Zenon, <1>1, <1>2 DEF Lock, lock
  <1>4. RequestsOK'
    BY Zenon, <1>1, <1>2, Waking
  <1>5. Counted'
    <2>1. thread[t].state # "holding"
      BY <1>2
    <2> QED BY Zenon, <1>1, <1>2, <2>1, EnteringCounts
  <1> QED BY Zenon, <1>3, <1>4, <1>5 DEF Inv, Lock, Counted

(* The lock when a request of an owner group ends.                         *)
LEMMA OwnerLeaves ==
    ASSUME Lock, RequestsOK, NEW t \in Threads, Active(t), NEW g, g = thread[t].group,
           ownership[g],
           IF requests[g] = 1 THEN dropOwnerGroupAndPassOwnership(thread[t].type, g)
                              ELSE UNCHANGED lock
    PROVE  IF requests[g] = 1 THEN Leaves(g) ELSE Keeps
  <1>1. g \in Members(QueueOf(thread[t].type)) /\ thread[t].type \in {"Read", "Write"}
    BY Zenon, RequestTypes DEF RequestsOK
  <1>2. CASE requests[g] = 1
    <2>1. CASE thread[t].type = "Read"
      <3>1. g \in Members(readers_queue) /\ dropOwnerGroupAndPassOwnership("Read", g)
        BY Zenon, <1>1, <1>2, <2>1 DEF QueueOf
      <3> QED BY Zenon, <1>2, <3>1, DropReaders DEF Lock
    <2>2. CASE thread[t].type = "Write"
      <3>0. "Read" # "Write"
        OBVIOUS
      <3>1. g \in Members(writers_queue) /\ dropOwnerGroupAndPassOwnership("Write", g)
        BY Zenon, <1>1, <1>2, <2>2, <3>0 DEF QueueOf
      <3> QED BY Zenon, <1>2, <3>1, DropWriter DEF Lock
    <2> QED BY Zenon, <1>1, <2>1, <2>2
  <1>3. CASE requests[g] # 1
    BY Zenon, <1>3 DEF Keeps, LockStays, Lock, lock
  <1> QED BY Zenon, <1>2, <1>3

LEMMA IdleCounts ==
    ASSUME RequestsOK, Counted, NEW t \in Threads, thread[t].state # "holding",
           thread' = [thread EXCEPT ![t] = Idle], UNCHANGED owner_queries
    PROVE  Counted'
  <1>1. Idle.state # "holding"
    BY DEF Idle
  <1> QED BY Zenon, <1>1, WaitingCounts

LEMMA WakeThrowsStep ==
    ASSUME Inv, NEW t \in Threads, WakeThrows(t)
    PROVE  Inv'
  <1>1. Lock /\ RequestsOK /\ Counted
    BY Zenon, InvParts
  <1>2. PICK g : g = thread[t].group
    BY Zenon
  <1>3. /\ thread[t].state = "waiting" /\ ownership[g]
        /\ requests' = [requests EXCEPT ![g] = @ - 1]
        /\ IF requests[g] = 1 THEN dropOwnerGroupAndPassOwnership(thread[t].type, g)
                              ELSE UNCHANGED lock
        /\ thread' = [thread EXCEPT ![t] = Idle]
        /\ UNCHANGED owner_queries
    BY Zenon, <1>2 DEF WakeThrows
  <1>4. Active(t) /\ thread[t].state # "holding"
    BY <1>3 DEF Active
  <1>5. g \in Groups
    BY Zenon, <1>1, <1>2, <1>4, RequestGroup DEF Lock
  <1>6. IF requests[g] = 1 THEN Leaves(g) ELSE Keeps
    BY Zenon, <1>1, <1>2, <1>3, <1>4, OwnerLeaves
  <1>7. Lock'
    BY Zenon, <1>6 DEF Leaves, Keeps, LockStays, Lock
  <1>8. RequestsOK'
    BY Zenon, <1>1, <1>2, <1>3, <1>4, <1>5, <1>6, Leaving DEF Lock
  <1>9. Counted'
    BY Zenon, <1>1, <1>3, <1>4, IdleCounts
  <1> QED BY Zenon, <1>7, <1>8, <1>9 DEF Inv, Lock, Counted

LEMMA TimeoutStep ==
    ASSUME Inv, NEW t \in Threads, Timeout(t)
    PROVE  Inv'
  <1>1. Lock /\ RequestsOK /\ Counted
    BY Zenon, InvParts
  <1>2. PICK g, gone : g = thread[t].group /\ gone = (requests[g] = 1)
    BY Zenon
  <1>3. /\ thread[t].state = "waiting" /\ ~ownership[g]
        /\ requests' = [requests EXCEPT ![g] = @ - 1]
        /\ readers_queue' = IF gone THEN erase(readers_queue, g) ELSE readers_queue
        /\ writers_queue' = IF gone THEN erase(writers_queue, g) ELSE writers_queue
        /\ IF rdlock_owner # End /\ writers_queue' = <<>>
           THEN grantOwnershipToAllReaders(readers_queue', rdlock_owner, ownership)
           ELSE UNCHANGED <<rdlock_owner, ownership>>
        /\ thread' = [thread EXCEPT ![t] = Idle]
        /\ UNCHANGED wrlock_owner /\ UNCHANGED owner_queries
    BY Zenon, <1>2 DEF Timeout
  <1>4. Active(t) /\ thread[t].state # "holding"
    BY <1>3 DEF Active
  <1>5. g \in Groups /\ g \in Members(readers_queue) \cup Members(writers_queue)
    BY Zenon, <1>1, <1>2, <1>4, RequestGroup DEF Lock, RequestsOK, QueueOf
  <1>6. IF gone THEN Leaves(g) ELSE Keeps
    BY Zenon, <1>1, <1>3, <1>5, TimeoutLock DEF Lock
  <1>7. Lock'
    BY Zenon, <1>6 DEF Leaves, Keeps, LockStays, Lock
  <1>8. RequestsOK'
    BY Zenon, <1>1, <1>2, <1>3, <1>4, <1>5, <1>6, Leaving DEF Lock
  <1>9. Counted'
    BY Zenon, <1>1, <1>3, <1>4, IdleCounts
  <1> QED BY Zenon, <1>7, <1>8, <1>9 DEF Inv, Lock, Counted

LEMMA UnlockStep ==
    ASSUME Inv, NEW t \in Threads, unlock(t)
    PROVE  Inv'
  <1>1. Lock /\ RequestsOK /\ Counted
    BY Zenon, InvParts
  <1>2. PICK g : g = thread[t].group
    BY Zenon
  <1>3. t \in Holders /\ thread' = [thread EXCEPT ![t] = Idle]
    BY Zenon DEF unlock, Holders
  <1>4. g \in Groups /\ ownership[g] /\ consistent(thread[t].type, g)
    BY Zenon, <1>1, <1>2, <1>3, HoldersAreConsistent
  <1>5. /\ owner_queries' = IF holdsLock(t) THEN [owner_queries EXCEPT ![QueryOf[t]] = @ - 1]
                            ELSE owner_queries
        /\ requests' = [requests EXCEPT ![g] = @ - 1]
        /\ IF requests[g] = 1 THEN dropOwnerGroupAndPassOwnership(thread[t].type, g)
                              ELSE UNCHANGED lock
    BY Zenon, <1>2, <1>4 DEF unlock
  <1>6. Active(t)
    BY Zenon, <1>3, HolderIsActive
  <1>7. IF requests[g] = 1 THEN Leaves(g) ELSE Keeps
    BY Zenon, <1>1, <1>2, <1>4, <1>5, <1>6, OwnerLeaves
  <1>8. Lock'
    BY Zenon, <1>7 DEF Leaves, Keeps, LockStays, Lock
  <1>9. RequestsOK'
    BY Zenon, <1>1, <1>2, <1>3, <1>4, <1>5, <1>6, <1>7, Leaving DEF Lock
  <1>10. Counted'
    <2>1. Idle.state # "holding"
      BY DEF Idle
    <2>2. \A u : u \in Holders' <=> IF u = t THEN FALSE ELSE u \in Holders
      BY Zenon, <1>1, <1>3, <2>1, HoldersChange DEF RequestsOK
    <2>3. \A u : u \in Holders' <=> u \in Holders /\ u # t
      BY Zenon, <2>2
    <2> QED BY Zenon, <1>1, <1>3, <1>5, <2>3, CountOut
  <1> QED BY Zenon, <1>8, <1>9, <1>10 DEF Inv, Lock, Counted

-----------------------------------------------------------------------------
LEMMA InitInv == Init => Inv
  <1> SUFFICES ASSUME Init PROVE Inv
    OBVIOUS
  <1> USE DEF Init
  <1>1. /\ Members(readers_queue) = {} /\ Members(writers_queue) = {}
        /\ IsQueue(readers_queue) /\ IsQueue(writers_queue)
    BY DEF Members, IsQueue
  <1>2. Lock
    <2>1. /\ Phase(readers_queue, writers_queue, rdlock_owner, wrlock_owner, 0)
          /\ ownership \in [Groups -> BOOLEAN] /\ \A g \in Groups : ~ownership[g]
      BY DEF Phase
    <2>2. Owning(readers_queue, writers_queue, wrlock_owner, ownership, 0)
      BY <2>1 DEF Owning
    <2>3. \E k \in Nat : /\ Phase(readers_queue, writers_queue, rdlock_owner, wrlock_owner, k)
                         /\ Owning(readers_queue, writers_queue, wrlock_owner, ownership, k)
      BY <2>1, <2>2
    <2> QED BY Zenon, <1>1, <2>1, <2>3 DEF Lock, LockOK
  <1>3. \A t \in Threads : thread[t].state = "idle"
    BY DEF Idle
  <1>4. Holders = {} /\ \A g : Attached(g) = {}
    BY <1>3 DEF Holders, Attached
  <1>5. Cardinality({}) = 0
    BY Zenon, FS_EmptySet
  <1>6. RequestsOK
    <2>1. /\ thread \in [Threads -> [state : {"idle", "waiting", "holding"},
                                     type : {"Read", "Write"}, group : Groups \cup {End}]]
          /\ requests \in [Groups -> Nat] /\ \A g \in Groups : requests[g] = 0
      BY DEF Idle
    <2>2. \A t \in Threads : ~Active(t)
      BY Zenon, <1>3 DEF Active
    <2> QED BY Zenon, <1>1, <1>4, <1>5, <2>1, <2>2 DEF RequestsOK
  <1>7. Counted
    <2>1. owner_queries \in [Queries -> Nat] /\ \A q \in Queries : owner_queries[q] = 0
      OBVIOUS
    <2>2. \A q : HoldersOf(q) = {}
      BY <1>4 DEF HoldersOf
    <2> QED BY Zenon, <1>5, <2>1, <2>2, CountedHolders
  <1> QED BY Zenon, <1>2, <1>6, <1>7, InvParts

LEMMA NextInv == Inv /\ [Next]_vars => Inv'
  <1> SUFFICES ASSUME Inv, [Next]_vars PROVE Inv'
    OBVIOUS
  <1>1. CASE UNCHANGED vars
    <2>1. UNCHANGED <<readers_queue, writers_queue, rdlock_owner, wrlock_owner, ownership,
                      requests, owner_queries, thread>>
      BY Zenon, <1>1 DEF vars, lock
    <2>2. Lock' /\ Counted'
      BY Zenon, <2>1, InvParts DEF Lock, Counted, QueryOwnersAreCounted, Holders
    <2>3. RequestsOK'
      BY <2>1, InvParts DEF RequestsOK, Active, QueueOf, Holders, Attached
    <2> QED BY Zenon, <2>2, <2>3 DEF Inv, Lock, Counted
  <1>2. ASSUME NEW t \in Threads, getLock(t) PROVE Inv'
    BY Zenon, <1>2, FastPathStep, AcquireFreeStep, WaitStep, JoinOwnersStep DEF getLock
  <1>3. ASSUME NEW t \in Threads, Wake(t) \/ WakeThrows(t) \/ Timeout(t) \/ unlock(t) PROVE Inv'
    BY Zenon, <1>3, WakeStep, WakeThrowsStep, TimeoutStep, UnlockStep
  <1> QED BY Zenon, <1>1, <1>2, <1>3 DEF Next

(* Inv is inductive: LockOK, one state of the queues, the owners and       *)
(* ownership for all phases; RequestsOK, the requests behind the groups;   *)
(* and the count of holders.                                               *)
THEOREM LockInvariant == Spec => []Inv
  BY InitInv, NextInv, PTL DEF Spec

LEMMA LockTypes == Inv => TypeOK
  <1> SUFFICES ASSUME Inv PROVE TypeOK
    OBVIOUS
  <1>1. Lock /\ RequestsOK /\ Counted
    BY Zenon, InvParts
  <1>2. PICK k \in Nat : Phase(readers_queue, writers_queue, rdlock_owner, wrlock_owner, k)
    BY Zenon, <1>1 DEF LockOK, Lock
  <1>3. /\ IsQueue(readers_queue) /\ IsQueue(writers_queue)
        /\ ownership \in [Groups -> BOOLEAN]
    BY Zenon, <1>1 DEF LockOK, Lock
  <1>4. Members(readers_queue) \cup Members(writers_queue) \subseteq Groups
    BY Zenon, <1>3, QueueTypes
  <1>5. rdlock_owner \in Groups \cup {End}
    <2>1. k # 0 => k \in 1 .. Len(readers_queue) /\ rdlock_owner = readers_queue[k]
      BY <1>2 DEF Phase
    <2>2. k = 0 => rdlock_owner = End
      BY Zenon, <1>2 DEF Phase
    <2>3. \A i \in 1 .. Len(readers_queue) : readers_queue[i] \in Groups
      BY Zenon, <1>3, QueueTypes
    <2> QED BY Zenon, <2>1, <2>2, <2>3
  <1>6. wrlock_owner \in Groups \cup {End}
    <2>1. writers_queue # <<>> => 1 \in 1 .. Len(writers_queue)
      BY <1>3 DEF IsQueue
    <2> QED BY Zenon, <1>2, <1>3, <2>1, QueueTypes DEF Phase
  <1>7. requests \in [Groups -> 0 .. Cardinality(Threads)]
    <2>1. \A g \in Groups : requests[g] \in Nat /\ requests[g] <= Cardinality(Threads)
      BY Zenon, <1>1, AttachedIsFinite DEF RequestsOK
    <2>2. Cardinality(Threads) \in Nat /\ requests \in [Groups -> Nat]
      BY Zenon, <1>1, RWLockAssumption, FS_CardinalityType DEF RequestsOK
    <2> QED BY <2>1, <2>2
  <1>8. owner_queries \in [Queries -> 0 .. Cardinality(Threads)]
    <2>1. \A q \in Queries : owner_queries[q] \in Nat /\ owner_queries[q] <= Cardinality(Threads)
      BY Zenon, <1>1, CountedHolders, HoldersAreFinite
    <2>2. Cardinality(Threads) \in Nat /\ owner_queries \in [Queries -> Nat]
      BY Zenon, <1>1, RWLockAssumption, FS_CardinalityType DEF Counted
    <2> QED BY <2>1, <2>2
  <1> QED BY Zenon, <1>1, <1>3, <1>4, <1>5, <1>6, <1>7, <1>8 DEF TypeOK, RequestsOK

(* TypeOK holds for any number of threads and queries: the iterators of    *)
(* RWLockImpl refer to groups, requests and owner_queries never go below 0 *)
(* or above the number of threads.                                         *)
THEOREM TypeCorrect == Spec => []TypeOK
  BY LockInvariant, LockTypes, PTL

LEMMA WritersAreAlone == Inv => MutualExclusion
  <1> SUFFICES ASSUME Inv, NEW t \in Holders, NEW u \in Holders, t # u,
                      thread[t].type # "Read" \/ thread[u].type # "Read"
               PROVE  FALSE
    BY Zenon DEF MutualExclusion
  <1>1. Lock /\ RequestsOK
    BY Zenon, InvParts
  <1>2. ASSUME NEW v \in Holders, NEW w \in Holders, thread[v].type # "Read"
        PROVE  v = w
    <2>1. v \in Threads /\ w \in Threads /\ Active(v) /\ Active(w) /\ thread[v].type = "Write"
      BY Zenon, <1>1, <1>2, HolderIsActive, RequestTypes
    <2>2. consistent(thread[v].type, thread[v].group) /\ consistent(thread[w].type, thread[w].group)
      BY Zenon, <1>1, HoldersAreConsistent
    <2>3. /\ wrlock_owner = thread[v].group /\ thread[v].group \in Groups
          /\ thread[w].type \in {"Read", "Write"}
      BY Zenon, <1>1, <1>2, <2>1, <2>2, HoldersAreConsistent, RequestTypes DEF consistent
    <2>4. thread[w].type # "Read" /\ wrlock_owner = thread[w].group
      BY Zenon, <2>2, <2>3, GroupsAreNotEnd DEF consistent
    <2> QED BY Zenon, <1>1, <2>1, <2>3, <2>4 DEF RequestsOK
  <1> QED BY Zenon, <1>2

(* A writer holds the lock alone, for any number of threads and queries,   *)
(* whatever times out, throws or takes the fast path.                      *)
THEOREM WritersHoldTheLockAlone == Spec => []MutualExclusion
  BY LockInvariant, WritersAreAlone, PTL

LEMMA LockChecks == Inv => LockIsConsistent
  <1> SUFFICES ASSUME Inv PROVE LockIsConsistent
    OBVIOUS
  <1> DEFINE rq == readers_queue
             wq == writers_queue
  <1>1. Lock /\ RequestsOK
    BY Zenon, InvParts
  <1>2. PICK k \in Nat : Phase(rq, wq, rdlock_owner, wrlock_owner, k) /\ Owning(rq, wq, wrlock_owner, ownership, k)
    BY Zenon, <1>1 DEF LockOK, Lock
  <1>3. IsQueue(rq) /\ IsQueue(wq)
    BY Zenon, <1>1 DEF LockOK, Lock
  <1>4. \A i \in 1 .. Len(rq) : ownership[rq[i]] <=> rdlock_owner # End /\ i <= Position(rq, rdlock_owner)
    <2>1. CASE k = 0
      <3>1. rdlock_owner = End /\ \A i \in 1 .. Len(rq) : ~(i <= k)
        BY <1>2, <2>1 DEF Phase
      <3> QED BY Zenon, <1>2, <3>1 DEF Owning
    <2>2. CASE k # 0
      <3>1. k \in 1 .. Len(rq) /\ rdlock_owner = rq[k]
        BY <1>2, <2>2 DEF Phase
      <3>2. rdlock_owner # End /\ Position(rq, rdlock_owner) = k
        BY Zenon, <1>3, <3>1, QueueTypes, PositionFacts
      <3> QED BY Zenon, <1>2, <3>2 DEF Owning
    <2> QED BY Zenon, <2>1, <2>2
  <1>5. \A i \in 1 .. Len(wq) : ownership[wq[i]] <=> i = 1 /\ wrlock_owner = wq[i]
    <2> TAKE i \in 1 .. Len(wq)
    <2>1. wq[i] # End
      BY Zenon, <1>3, QueueTypes
    <2>2. ownership[wq[i]] <=> i = 1 /\ wrlock_owner # End
      BY Zenon, <1>2 DEF Owning
    <2>3. wrlock_owner # End => wrlock_owner = wq[1]
      BY Zenon, <1>2 DEF Phase
    <2> QED BY Zenon, <2>1, <2>2, <2>3
  <1>6. rdlock_owner = End \/ wrlock_owner = End
    BY Zenon, <1>2 DEF Phase
  <1>7. Free => readers_queue = <<>> /\ writers_queue = <<>>
    BY Zenon, <1>1, FreeLock
  <1>8. \A g \in Groups :
          /\ requests[g] = Cardinality(Attached(g))
          /\ requests[g] > 0 <=> g \in Members(readers_queue) \cup Members(writers_queue)
    <2> TAKE g \in Groups
    <2>1. requests[g] = Cardinality(Attached(g)) /\ requests[g] \in Nat
      BY Zenon, <1>1, AttachedIsFinite DEF RequestsOK
    <2>2. requests[g] > 0 <=> Attached(g) # {}
      <3>1. Cardinality(Attached(g)) = 0 <=> Attached(g) = {}
        BY Zenon, AttachedIsFinite
      <3> QED BY <2>1, <3>1
    <2>3. Attached(g) # {} <=> g \in Members(readers_queue) \cup Members(writers_queue)
      <3>1. \A t \in Attached(g) : t \in Threads /\ Active(t) /\ thread[t].group = g
        BY Zenon DEF Attached, Active
      <3>2. \A t \in Attached(g) : g \in Members(QueueOf(thread[t].type))
        BY Zenon, <1>1, <3>1 DEF RequestsOK
      <3>3. \A t \in Attached(g) : g \in Members(readers_queue) \cup Members(writers_queue)
        BY Zenon, <3>2 DEF QueueOf
      <3>4. g \in Members(readers_queue) \cup Members(writers_queue) => Attached(g) # {}
        BY Zenon, <1>1 DEF RequestsOK
      <3> QED BY Zenon, <3>3, <3>4
    <2> QED BY Zenon, <2>1, <2>2, <2>3
  <1>9. \A t \in Holders : consistent(thread[t].type, thread[t].group)
    BY Zenon, <1>1, HoldersAreConsistent
  <1> QED BY Zenon, <1>4, <1>5, <1>6, <1>7, <1>8, <1>9 DEF LockIsConsistent

(* The comments on rdlock_owner and wrlock_owner hold in every state, and  *)
(* none of unlock()'s conditions ever fails.                               *)
THEOREM LockStaysConsistent == Spec => []LockIsConsistent
  BY LockInvariant, LockChecks, PTL

LEMMA WaitingReaders ==
    ASSUME Inv
    PROVE  /\ (\E g \in Members(readers_queue) : ~ownership[g]) => writers_queue # <<>>
           /\ \E h : {g \in Members(readers_queue) : ~ownership[g]} \subseteq {h}
  <1> DEFINE rq == readers_queue
             wq == writers_queue
  <1>1. PICK k \in Nat : Phase(rq, wq, rdlock_owner, wrlock_owner, k) /\ Owning(rq, wq, wrlock_owner, ownership, k)
    BY Zenon, InvParts DEF LockOK, Lock
  <1>2. Len(rq) \in Nat
    BY Zenon, InvParts, QueueTypes DEF LockOK, Lock
  <1>3. \A g \in Members(rq) : ~ownership[g] => g = rq[k + 1] /\ k < Len(rq)
    <2> TAKE g \in Members(rq)
    <2> HAVE ~ownership[g]
    <2>1. PICK i \in 1 .. Len(rq) : g = rq[i]
      BY Zenon DEF Members
    <2>2. ~(i <= k)
      BY Zenon, <1>1, <2>1 DEF Owning
    <2>3. i = k + 1 /\ k < Len(rq)
      BY <1>1, <1>2, <2>2 DEF Phase
    <2> QED BY Zenon, <2>1, <2>3
  <1>4. (\E g \in Members(rq) : ~ownership[g]) => wq # <<>>
    BY Zenon, <1>1, <1>3 DEF Phase
  <1>5. PICK h : h = rq[k + 1]
    BY Zenon
  <1>6. {g \in Members(rq) : ~ownership[g]} \subseteq {h}
    BY Zenon, <1>3, <1>5
  <1> QED BY Zenon, <1>4, <1>6

LEMMA OneGroupWaits == Inv => OneWaitingReadersGroup
  <1> SUFFICES ASSUME Inv PROVE OneWaitingReadersGroup
    OBVIOUS
  <1>1. PICK S, h : S = {g \in Members(readers_queue) : ~ownership[g]} /\ S \subseteq {h}
    BY Zenon, WaitingReaders
  <1>2. IsFiniteSet({h}) /\ Cardinality({h}) = 1
    BY Zenon, FS_Singleton
  <1>3. Cardinality(S) <= Cardinality({h})
    BY Zenon, <1>1, <1>2, FS_Subset
  <1> QED BY Zenon, <1>1, <1>2, <1>3 DEF OneWaitingReadersGroup

(* chassert(num_new_owners <= 1) never fails: at most one group of readers *)
(* waits.                                                                  *)
THEOREM OneReadersGroupWaits == Spec => []OneWaitingReadersGroup
  BY LockInvariant, OneGroupWaits, PTL

LEMMA ReadersWait == Inv => ReadersWaitForWriters
  BY Zenon, WaitingReaders DEF ReadersWaitForWriters

(* No reader is left waiting when the last writer has gone, by unlock, by  *)
(* timeout or by rollback.                                                 *)
THEOREM ReadersWaitOnlyForWriters == Spec => []ReadersWaitForWriters
  BY LockInvariant, ReadersWait, PTL

LEMMA OwnersCounted == Inv => QueryOwnersAreCounted
  BY Zenon DEF Inv

(* owner_queries counts the holders of each query exactly.                 *)
THEOREM OwnersAreCounted == Spec => []QueryOwnersAreCounted
  BY LockInvariant, OwnersCounted, PTL

-----------------------------------------------------------------------------
(* The steps of the phases: the action of PhasesAlternate, and its second  *)
(* half, which is about the owners.                                        *)
PhaseStep ==
    /\ \A t \in Threads :
          /\ writers_queue # <<>>
          /\ thread[t].state = "idle" /\ thread'[t].state = "holding"
          => holdsLock(t)
    /\ rdlock_owner # End /\ writers_queue # <<>> /\ writers_queue' # <<>> /\ rdlock_owner' # End
       => \A g \in Members(readers_queue') : ownership'[g] => ownership[g]
    /\ wrlock_owner # End /\ wrlock_owner' \notin {End, wrlock_owner}
       => readers_queue = <<>>

OwnersStep ==
    /\ rdlock_owner # End /\ writers_queue # <<>> /\ writers_queue' # <<>> /\ rdlock_owner' # End
       => \A g \in Members(readers_queue') : ownership'[g] => ownership[g]
    /\ wrlock_owner # End /\ wrlock_owner' \notin {End, wrlock_owner}
       => readers_queue = <<>>

LEMMA OwnerLeavesInPhase ==
    ASSUME Lock, RequestsOK, NEW t \in Threads, Active(t), NEW g, g = thread[t].group,
           ownership[g],
           IF requests[g] = 1 THEN dropOwnerGroupAndPassOwnership(thread[t].type, g)
                              ELSE UNCHANGED lock,
           IF requests[g] = 1 THEN Leaves(g) ELSE Keeps
    PROVE  OwnersStep
  <1>0. "Read" # "Write" /\ ownership \in [Groups -> BOOLEAN]
        /\ Members(readers_queue) \cap Members(writers_queue) = {}
        /\ IsQueue(readers_queue) /\ IsQueue(writers_queue)
    BY DEF Lock, LockOK
  <1>1. g \in Members(QueueOf(thread[t].type)) /\ thread[t].type \in {"Read", "Write"} /\ g \in Groups
    BY Zenon, RequestTypes, RequestGroup DEF RequestsOK, Lock
  <1>2. CASE requests[g] # 1
    BY Zenon, <1>2 DEF OwnersStep, lock
  <1>3. CASE requests[g] = 1 /\ thread[t].type = "Read"
    <2>1. g \in Members(readers_queue) /\ dropOwnerGroupAndPassOwnership("Read", g)
      BY Zenon, <1>1, <1>3 DEF QueueOf
    <2>2. wrlock_owner = End
      BY Zenon, <1>0, <1>1, <2>1, OwnedPhase
    <2>3. PICK owns : owns = [ownership EXCEPT ![g] = FALSE]
      BY Zenon
    <2>4. \A h \in Groups : owns[h] => ownership[h]
      BY Zenon, <1>0, <2>3
    <2>5. Members(readers_queue') \subseteq Groups
      BY Zenon, <1>0, <1>3, QueueTypes DEF Leaves
    <2>6. writers_queue' # <<>> /\ rdlock_owner' # End => ownership' = owns
      BY Zenon, <1>0, <2>1, <2>3 DEF dropOwnerGroupAndPassOwnership
    <2> QED BY Zenon, <2>2, <2>4, <2>5, <2>6 DEF OwnersStep
  <1>4. CASE requests[g] = 1 /\ thread[t].type = "Write"
    <2>1. g \in Members(writers_queue) /\ dropOwnerGroupAndPassOwnership("Write", g)
      BY Zenon, <1>0, <1>1, <1>4 DEF QueueOf
    <2>2. rdlock_owner = End
      BY Zenon, <1>0, <1>1, <2>1, OwnedPhase
    <2>3. erase(readers_queue, g) = readers_queue
      BY Zenon, <1>0, <2>1 DEF erase
    <2>4. readers_queue # <<>> => wrlock_owner' = End
      BY Zenon, <1>0, <2>1, <2>3 DEF dropOwnerGroupAndPassOwnership
    <2> QED BY Zenon, <2>2, <2>4 DEF OwnersStep
  <1> QED BY Zenon, <1>1, <1>2, <1>3, <1>4

(* A step of thread t changes the state of no other thread.                *)
EntersFairly(t) ==
    /\ \A u \in Threads \ {t} : thread'[u] = thread[u]
    /\ writers_queue # <<>> /\ thread[t].state = "idle" /\ thread'[t].state = "holding"
       => holdsLock(t)

LEMMA OnlyOneThreadMoves ==
    ASSUME RequestsOK, NEW t \in Threads, NEW rec, thread' = [thread EXCEPT ![t] = rec]
    PROVE  thread'[t] = rec /\ \A u \in Threads \ {t} : thread'[u] = thread[u]
  BY Zenon DEF RequestsOK

LEMMA IdleThread ==
    ASSUME RequestsOK, NEW t \in Threads, thread' = [thread EXCEPT ![t] = Idle]
    PROVE  EntersFairly(t)
  <1>1. Idle.state # "holding"
    BY DEF Idle
  <1> QED BY Zenon, <1>1, OnlyOneThreadMoves DEF EntersFairly

LEMMA RequestStep ==
    ASSUME Inv, NEW t \in Threads, getLock(t)
    PROVE  OwnersStep /\ EntersFairly(t)
  <1>1. Lock /\ RequestsOK
    BY Zenon, InvParts
  <1>2. CASE FastPath(t)
    <2>1. /\ thread' = [thread EXCEPT ![t] = [state |-> "holding", type |-> "Read", group |-> rdlock_owner]]
          /\ UNCHANGED lock /\ holdsLock(t)
      BY Zenon, <1>2 DEF FastPath, Holding
    <2>2. OwnersStep
      BY Zenon, <2>1 DEF OwnersStep, lock
    <2> QED BY Zenon, <1>1, <2>1, <2>2, OnlyOneThreadMoves DEF EntersFairly
  <1>3. CASE JoinOwners(t)
    <2>1. /\ thread' = [thread EXCEPT ![t] = [state |-> "holding", type |-> "Read",
                                              group |-> last(readers_queue)]]
          /\ UNCHANGED lock /\ writers_queue = <<>>
      BY Zenon, <1>3 DEF JoinOwners, Holding, canUseLastGroup
    <2>2. OwnersStep
      BY Zenon, <2>1 DEF OwnersStep, lock
    <2> QED BY Zenon, <1>1, <2>1, <2>2, OnlyOneThreadMoves DEF EntersFairly
  <1>4. ASSUME NEW type \in {"Read", "Write"}, AcquireFree(t, type)
        PROVE  OwnersStep /\ EntersFairly(t)
    <2>1. /\ thread' = [thread EXCEPT ![t] = [state |-> "holding", type |-> type,
                                              group |-> groupFor(type)]]
          /\ Free
      BY Zenon, <1>4 DEF AcquireFree, Holding
    <2>2. OwnersStep
      BY Zenon, <2>1 DEF OwnersStep, Free
    <2>3. writers_queue = <<>>
      BY Zenon, <1>1, <2>1, FreeLock
    <2> QED BY Zenon, <1>1, <2>1, <2>2, <2>3, OnlyOneThreadMoves DEF EntersFairly
  <1>5. ASSUME NEW type \in {"Read", "Write"}, Wait(t, type)
        PROVE  OwnersStep /\ EntersFairly(t)
    <2>1. /\ thread' = [thread EXCEPT ![t] = [state |-> "waiting", type |-> type,
                                              group |-> groupFor(type)]]
          /\ UNCHANGED <<rdlock_owner, wrlock_owner, ownership>>
      BY Zenon, <1>5 DEF Wait
    <2>2. OwnersStep
      BY Zenon, <2>1 DEF OwnersStep
    <2>3. [state |-> "waiting", type |-> type, group |-> groupFor(type)].state # "holding"
      OBVIOUS
    <2> QED BY Zenon, <1>1, <2>1, <2>2, <2>3, OnlyOneThreadMoves DEF EntersFairly
  <1> QED BY Zenon, <1>2, <1>3, <1>4, <1>5 DEF getLock

LEMMA OtherStep ==
    ASSUME Inv, NEW t \in Threads, Wake(t) \/ WakeThrows(t) \/ Timeout(t) \/ unlock(t)
    PROVE  OwnersStep /\ EntersFairly(t)
  <1>1. Lock /\ RequestsOK
    BY Zenon, InvParts
  <1>2. CASE Wake(t)
    <2>1. /\ thread' = [thread EXCEPT ![t] = [state |-> "holding", type |-> thread[t].type,
                                              group |-> thread[t].group]]
          /\ UNCHANGED lock /\ thread[t].state = "waiting"
      BY Zenon, <1>2 DEF Wake, Holding
    <2>2. OwnersStep
      BY Zenon, <2>1 DEF OwnersStep, lock
    <2>3. thread[t].state # "idle"
      BY <2>1
    <2> QED BY Zenon, <1>1, <2>1, <2>2, <2>3, OnlyOneThreadMoves DEF EntersFairly
  <1>3. CASE WakeThrows(t)
    <2>1. PICK g : g = thread[t].group
      BY Zenon
    <2>2. /\ thread[t].state = "waiting" /\ ownership[g]
          /\ IF requests[g] = 1 THEN dropOwnerGroupAndPassOwnership(thread[t].type, g)
                                ELSE UNCHANGED lock
          /\ thread' = [thread EXCEPT ![t] = Idle]
      BY Zenon, <1>3, <2>1 DEF WakeThrows
    <2>3. Active(t)
      BY <2>2 DEF Active
    <2>4. IF requests[g] = 1 THEN Leaves(g) ELSE Keeps
      BY Zenon, <1>1, <2>1, <2>2, <2>3, OwnerLeaves
    <2>5. OwnersStep
      BY Zenon, <1>1, <2>1, <2>2, <2>3, <2>4, OwnerLeavesInPhase
    <2> QED BY Zenon, <1>1, <2>2, <2>5, IdleThread
  <1>4. CASE Timeout(t)
    <2>1. /\ thread' = [thread EXCEPT ![t] = Idle] /\ UNCHANGED wrlock_owner
          /\ writers_queue' # <<>> => ownership' = ownership
      BY Zenon, <1>4 DEF Timeout
    <2>2. OwnersStep
      BY Zenon, <2>1 DEF OwnersStep
    <2> QED BY Zenon, <1>1, <2>1, <2>2, IdleThread
  <1>5. CASE unlock(t)
    <2>1. PICK g : g = thread[t].group
      BY Zenon
    <2>2. t \in Holders /\ thread' = [thread EXCEPT ![t] = Idle]
      BY Zenon, <1>5 DEF unlock, Holders
    <2>3. Active(t) /\ ownership[g] /\ consistent(thread[t].type, g)
      BY Zenon, <1>1, <2>1, <2>2, HoldersAreConsistent, HolderIsActive
    <2>4. IF requests[g] = 1 THEN dropOwnerGroupAndPassOwnership(thread[t].type, g)
                             ELSE UNCHANGED lock
      BY Zenon, <1>5, <2>1, <2>3 DEF unlock
    <2>5. IF requests[g] = 1 THEN Leaves(g) ELSE Keeps
      BY Zenon, <1>1, <2>1, <2>3, <2>4, OwnerLeaves
    <2>6. OwnersStep
      BY Zenon, <1>1, <2>1, <2>3, <2>4, <2>5, OwnerLeavesInPhase
    <2> QED BY Zenon, <1>1, <2>2, <2>6, IdleThread
  <1> QED BY Zenon, <1>2, <1>3, <1>4, <1>5

LEMMA PhaseSteps == Inv /\ [Next]_vars => [PhaseStep]_vars
  <1> SUFFICES ASSUME Inv, Next PROVE PhaseStep
    BY Zenon
  <1>1. PICK t \in Threads : OwnersStep /\ EntersFairly(t)
    BY Zenon, RequestStep, OtherStep DEF Next
  <1>2. \A u \in Threads : /\ writers_queue # <<>>
                           /\ thread[u].state = "idle" /\ thread'[u].state = "holding"
                           => holdsLock(u)
    <2> TAKE u \in Threads
    <2> HAVE /\ writers_queue # <<>>
             /\ thread[u].state = "idle" /\ thread'[u].state = "holding"
    <2>1. "idle" # "holding"
      OBVIOUS
    <2>2. u = t
      BY Zenon, <1>1, <2>1 DEF EntersFairly
    <2> QED BY Zenon, <1>1, <2>2 DEF EntersFairly
  <1> QED BY Zenon, <1>1, <1>2 DEF PhaseStep, OwnersStep

(* Phase fairness, for any number of threads: no reader of another query   *)
(* overtakes a waiting writer, no waiting group enters a read phase while  *)
(* writers wait, and waiting readers go before the next writer.            *)
THEOREM PhasesDoAlternate == Spec => PhasesAlternate
  BY LockInvariant, PhaseSteps, PTL DEF Spec, PhasesAlternate, PhaseStep
==============================================================================
