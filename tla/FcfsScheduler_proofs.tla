------------------------ MODULE FcfsScheduler_proofs ------------------------
(***************************************************************************)
(* Theorems about the process scheduler, for every number of processes,    *)
(* every input of them and every list of KILL commands.                    *)
(***************************************************************************)
EXTENDS FcfsScheduler, ProofLemmas

USE BoundsAssumption, PidAssumption, BurstAssumption, IoAssumption, KillAssumption,
    SwitchAssumption, NoProcessAssumption

(***************************************************************************)
(* The list of PCBs and the queues.                                        *)
(***************************************************************************)
\* What holds one value per process is a list, and grows at its end.
LEMMA AppendValue ==
  ASSUME NEW n \in Nat, NEW S, NEW f \in [1 .. n -> S], NEW e \in S
  PROVE  /\ Append(f, e) \in [1 .. n + 1 -> S]
         /\ Append(f, e)[n + 1] = e
         /\ \A k \in 1 .. n : Append(f, e)[k] = f[k]
<1>1. f \in Seq(S) /\ Len(f) = n
  OBVIOUS
<1>2. /\ Append(f, e) \in Seq(S)
      /\ Len(Append(f, e)) = n + 1
      /\ \A k \in 1 .. n : Append(f, e)[k] = f[k]
      /\ Append(f, e)[n + 1] = e
  BY <1>1, AppendProperties
<1> DEFINE g == Append(f, e)
<1> HIDE DEF g
<1>3. g \in Seq(S) /\ Len(g) = n + 1
  BY <1>2 DEF g
<1>4. g \in [1 .. n + 1 -> S]
  BY <1>3
<1> QED
  BY <1>2, <1>4 DEF g

\* Occurrences counts places.
LEMMA OccurrencesCount ==
  ASSUME NEW q, NEW p
  PROVE  Occurrences(q, p) = Count(q, p)
BY DEF Occurrences, Count

\* The members of a queue that grows by another one.
LEMMA ConcatMembers ==
  ASSUME NEW S, NEW s \in Seq(S), NEW t \in Seq(S)
  PROVE  ToSet(s \o t) = ToSet(s) \cup ToSet(t)
<1>1. s \o t \in Seq(S)
  OBVIOUS
<1>2. ASSUME NEW x
      PROVE  /\ Count(s \o t, x) = Count(s, x) + Count(t, x)
             /\ Count(s, x) \in Nat /\ Count(t, x) \in Nat
             /\ x \in ToSet(s) <=> Count(s, x) # 0
             /\ x \in ToSet(t) <=> Count(t, x) # 0
  <2>1. Count(s \o t, x) = Count(s, x) + Count(t, x)
    BY CountConcat
  <2>2. Count(s, x) \in Nat /\ (x \in ToSet(s) <=> Count(s, x) # 0)
    BY CountNat
  <2>3. Count(t, x) \in Nat /\ (x \in ToSet(t) <=> Count(t, x) # 0)
    BY CountNat
  <2> QED
    BY <2>1, <2>2, <2>3
<1>3. \A x : x \in ToSet(s \o t) <=> Count(s \o t, x) # 0
  BY <1>1, CountNat
<1>4. \A x : x \in ToSet(s \o t) <=> x \in ToSet(s) \/ x \in ToSet(t)
  BY <1>2, <1>3
<1> QED
  BY <1>4

\* What one enqueue makes of its queue q and of the set of lost processes.
Added(q, queue, old, new, p) == \/ queue = Append(q, p) /\ new = old \ {p}
                                \/ queue = q /\ new = old \cup {p}

\* An enqueue has its node or loses its process.
LEMMA EnqueueAdds ==
  ASSUME NEW q, NEW p, NEW failed \in Failures({p})
  PROVE  Added(q, enqueue(q, p, failed), lost, (lost \ {p}) \cup failed, p)
<1>1. failed = {} \/ failed = {p}
  BY DEF Failures
<1>2. CASE failed = {}
  BY <1>2 DEF Added, enqueue
<1>3. CASE failed = {p}
  BY <1>3 DEF Added, enqueue
<1> QED
  BY <1>1, <1>2, <1>3

\* What an enqueue adds, and whom it loses.
LEMMA AddedFacts ==
  ASSUME NEW S, NEW q \in Seq(S), NEW p \in S, NEW queue, NEW old, NEW new,
         Added(q, queue, old, new, p)
  PROVE  /\ queue \in Seq(S)
         /\ new \subseteq old \cup {p}
         /\ \A x : x # p => (x \in new <=> x \in old)
         /\ \A x : Count(queue, x) = Count(q, x) + (IF p = x /\ p \notin new THEN 1 ELSE 0)
         /\ \A x : Count(q, x) \in Nat
<1>1. \A x : Count(q, x) \in Nat
  BY CountNat
<1>2. CASE queue = Append(q, p) /\ new = old \ {p}
  <2>1. Append(q, p) \in Seq(S)
    OBVIOUS
  <2>2. \A x : Count(Append(q, p), x) = Count(q, x) + (IF p = x THEN 1 ELSE 0)
    BY CountAppend
  <2>3. p \notin new
    BY <1>2
  <2> QED
    BY <1>1, <1>2, <2>1, <2>2, <2>3
<1>3. CASE queue = q /\ new = old \cup {p}
  <2>1. p \in new
    BY <1>3
  <2> QED
    BY <1>1, <1>3, <2>1
<1> QED
  BY <1>2, <1>3 DEF Added

\* The same, for a member of the set.
LEMMA AddedTyped ==
  ASSUME NEW S, NEW p \in S, NEW q, NEW queue, NEW old, NEW new,
         q \in Seq(S), Added(q, queue, old, new, p)
  PROVE  queue \in Seq(S) /\ new \subseteq old \cup {p}
BY DEF Added

\* A process that is entered is put into the ready queue.
LEMMA EnteredQueue ==
  ASSUME NEW in, handleProcessInput(in)
  PROVE  Added(readyQueue, readyQueue', lost, lost', Len(pcbs) + 1)
<1> DEFINE m == Len(pcbs) + 1
<1>1. PICK failed \in Failures({m}) :
        readyQueue' = enqueue(readyQueue, m, failed) /\ lost' = (lost \ {m}) \cup failed
  BY DEF handleProcessInput, Enqueued
<1> HIDE DEF m
<1>2. Added(readyQueue, enqueue(readyQueue, m, failed), lost, (lost \ {m}) \cup failed, m)
  BY EnqueueAdds
<1> QED
  BY <1>1, <1>2 DEF m

\* removeFromQueue unlinks one node with the id, if there is one: another id
\* is not touched, and the nodes that stay keep their order.
LEMMA RemoveFacts ==
  ASSUME NEW q \in Seq(Processes), NEW pid
  PROVE  LET r == removeFromQueue(q, pid)
         IN  /\ r \in Seq(Processes)
             /\ ToSet(r) \subseteq ToSet(q)
             /\ \A x \in Processes :
                  /\ Count(r, x) <= Count(q, x)
                  /\ pcbs[x].pid # pid => Count(r, x) = Count(q, x)
                  /\ /\ pcbs[x].pid = pid
                     /\ \A y \in Processes : pcbs[y].pid = pid => y = x
                     => Count(q, x) = 0 \/ Count(q, x) = Count(r, x) + 1
             /\ \A i, j \in DOMAIN r : i < j =>
                  \E k, m \in DOMAIN q : k < m /\ r[i] = q[k] /\ r[j] = q[m]
<1> DEFINE hits == {i \in DOMAIN q : pcbs[q[i]].pid = pid}
<1>1. \A x \in Processes : Count(q, x) \in Nat /\ (Count(q, x) = 0 <=> \A i \in DOMAIN q : q[i] # x)
  BY CountNat
<1>2. CASE hits = {}
  <2>1. removeFromQueue(q, pid) = q
    BY <1>2 DEF removeFromQueue
  <2>2. ASSUME NEW x \in Processes, pcbs[x].pid = pid PROVE Count(q, x) = 0
    BY <1>1, <1>2, <2>2
  <2>3. \A x \in Processes : Count(q, x) <= Count(q, x)
    BY <1>1
  <2> QED
    BY <2>1, <2>2, <2>3
<1>3. CASE hits # {}
  <2>1. DOMAIN q \subseteq Nat /\ hits \subseteq Nat
    OBVIOUS
  <2> DEFINE i == CHOOSE i \in hits : \A j \in hits : i <= j
             r == RemoveAt(q, i)
  <2>2. i \in hits
    BY <1>3, <2>1, LeastChosen
  <2>3. removeFromQueue(q, pid) = r
    BY <1>3 DEF removeFromQueue
  <2>4. i \in DOMAIN q /\ i \in 1 .. Len(q) /\ q[i] \in Processes /\ pcbs[q[i]].pid = pid
    BY <2>2
  <2> HIDE DEF i, r, hits
  <2>5. /\ r \in Seq(Processes) /\ Len(r) = Len(q) - 1
        /\ \A k \in 1 .. Len(q) - 1 : r[k] = (IF k < i THEN q[k] ELSE q[k + 1])
    BY <2>4, RemoveAtFacts DEF r
  <2>6. \A x : Count(q, x) = Count(r, x) + (IF q[i] = x THEN 1 ELSE 0)
    BY <2>4, CountRemove DEF r
  <2>7. \A x \in Processes : Count(r, x) \in Nat
    BY <2>5, CountNat
  <2>8. ASSUME NEW x \in Processes
        PROVE  /\ Count(r, x) <= Count(q, x)
               /\ pcbs[x].pid # pid => Count(r, x) = Count(q, x)
               /\ /\ pcbs[x].pid = pid
                  /\ \A y \in Processes : pcbs[y].pid = pid => y = x
                  => Count(q, x) = 0 \/ Count(q, x) = Count(r, x) + 1
    <3>1. CASE q[i] = x
      <4>1. Count(q, x) = Count(r, x) + 1 /\ pcbs[x].pid = pid
        BY <2>4, <2>6, <3>1
      <4> QED
        BY <2>7, <4>1
    <3>2. CASE q[i] # x
      <4>1. Count(q, x) = Count(r, x)
        BY <2>6, <2>7, <3>2
      <4> QED
        BY <2>4, <2>7, <3>2, <4>1
    <3> QED
      BY <3>1, <3>2
  <2> DEFINE Old(k) == IF k < i THEN k ELSE k + 1
  <2>9. \A k \in DOMAIN r : Old(k) \in DOMAIN q /\ r[k] = q[Old(k)]
    <3>1. DOMAIN r = 1 .. Len(q) - 1 /\ DOMAIN q = 1 .. Len(q) /\ Len(q) \in Nat
      BY <2>5
    <3> QED
      BY <2>4, <2>5, <3>1
  <2>10. \A k, m \in DOMAIN r : k < m => Old(k) < Old(m)
    BY <2>4, <2>5
  <2> HIDE DEF Old
  <2>11. \A k, m \in DOMAIN r : k < m =>
           \E a, b \in DOMAIN q : a < b /\ r[k] = q[a] /\ r[m] = q[b]
    BY <2>9, <2>10
  <2>12. ToSet(r) \subseteq ToSet(q)
    BY <2>9 DEF ToSet
  <2> QED
    BY <2>3, <2>5, <2>8, <2>11, <2>12
<1> QED
  BY <1>2, <1>3

\* hashmapGet finds a process with the id, or none.
LEMMA HashFacts ==
  ASSUME NEW pid, pcbs \in Seq(PcbInputs)
  PROVE  \/ hashmapGet(pid) = NoProcess
         \/ hashmapGet(pid) \in Processes /\ pcbs[hashmapGet(pid)].pid = pid
<1> DEFINE hits == {p \in Processes : pcbs[p].pid = pid}
<1>1. Processes = 1 .. Len(pcbs) /\ Len(pcbs) \in Nat
  BY DEF Processes
<1>2. CASE hits = {}
  BY <1>2 DEF hashmapGet
<1>3. CASE hits # {}
  <2>1. hashmapGet(pid) = CHOOSE p \in hits : \A r \in hits : r <= p
    BY <1>3 DEF hashmapGet
  <2>2. \E p \in hits : \A r \in hits : r <= p
    <3> DEFINE n == Len(pcbs)
               T == {n - p : p \in hits}
    <3>1. T \subseteq Nat /\ T # {}
      BY <1>1, <1>3
    <3> HIDE DEF T
    <3>2. PICK m \in T : \A k \in T : m <= k
      BY <3>1, NatMin
    <3>3. PICK p \in hits : m = n - p
      BY <3>2 DEF T
    <3>4. \A r \in hits : n - r \in T
      BY DEF T
    <3>5. \A r \in hits : n - p <= n - r
      BY <3>2, <3>3, <3>4
    <3>6. \A r \in hits : r <= p
      BY <1>1, <3>5
    <3> QED
      BY <3>6
  <2> QED
    BY <2>1, <2>2
<1> QED
  BY <1>2, <1>3

\* addKillEvent puts the event somewhere between the others.
LEMMA InsertFacts ==
  ASSUME NEW K, kills \in Seq(K), NEW event \in K
  PROVE  Insert(event) \in Seq(K) /\ ToSet(Insert(event)) \subseteq ToSet(kills) \cup {event}
<1> DEFINE B == {i \in DOMAIN kills : kills[i].time <= event.time}
           n == Cardinality(B) + 1
           a == SubSeq(kills, 1, n - 1)
           b == SubSeq(kills, n, Len(kills))
           d == <<event>>
<1>1. Len(kills) \in Nat /\ \A i \in 1 .. Len(kills) : kills[i] \in K
  OBVIOUS
<1>2. IsFiniteSet(1 .. Len(kills)) /\ Cardinality(1 .. Len(kills)) = Len(kills)
  <2>1. 1 \in Int /\ Len(kills) \in Int
    BY <1>1
  <2>2. /\ IsFiniteSet(1 .. Len(kills))
        /\ Cardinality(1 .. Len(kills)) = IF 1 > Len(kills) THEN 0 ELSE Len(kills) - 1 + 1
    BY ONLY <2>1, FS_Interval
  <2> QED
    BY <1>1, <2>2
<1>3. B \in SUBSET (1 .. Len(kills))
  BY <1>1
<1> HIDE DEF B
<1>4. IsFiniteSet(B) /\ Cardinality(B) <= Len(kills) /\ Cardinality(B) \in Nat
  BY <1>2, <1>3, FS_Subset, FS_CardinalityType
<1>5. n \in 1 .. Len(kills) + 1
  BY <1>1, <1>4
<1>6. Insert(event) = a \o d \o b
  BY DEF Insert, InsertAt, B
<1> HIDE DEF n
<1>7. a \in Seq(K) /\ Len(a) = n - 1 /\ \A k \in 1 .. n - 1 : a[k] = kills[k]
  BY <1>1, <1>5, SubSeqProperties
<1>8. b \in Seq(K) /\ Len(b) = Len(kills) - n + 1 /\ \A k \in 1 .. Len(kills) - n + 1 : b[k] = kills[n + k - 1]
  BY <1>1, <1>5, SubSeqProperties
<1> HIDE DEF a, b
<1>9. ToSet(a) \subseteq ToSet(kills)
  <2>1. ASSUME NEW k \in 1 .. n - 1 PROVE a[k] \in ToSet(kills)
    <3>1. k \in DOMAIN kills
      BY <1>1, <1>5
    <3> QED
      BY <1>7, <3>1 DEF ToSet
  <2>2. DOMAIN a = 1 .. n - 1
    BY <1>7
  <2> QED
    BY <2>1, <2>2 DEF ToSet
<1>10. ToSet(b) \subseteq ToSet(kills)
  <2>1. ASSUME NEW k \in 1 .. Len(kills) - n + 1 PROVE b[k] \in ToSet(kills)
    <3>1. n + k - 1 \in DOMAIN kills
      BY <1>1, <1>5
    <3> QED
      BY <1>8, <3>1 DEF ToSet
  <2>2. DOMAIN b = 1 .. Len(kills) - n + 1
    BY <1>8
  <2> QED
    BY <2>1, <2>2 DEF ToSet
<1>11. d \in Seq(K) /\ ToSet(d) = {event}
  BY DEF ToSet
<1> HIDE DEF d
<1>12. a \o d \in Seq(K) /\ ToSet(a \o d) = ToSet(a) \cup ToSet(d)
  BY <1>7, <1>11, ConcatMembers
<1>13. a \o d \o b \in Seq(K) /\ ToSet(a \o d \o b) = ToSet(a \o d) \cup ToSet(b)
  <2> DEFINE c == a \o d
  <2>1. c \in Seq(K)
    BY <1>12
  <2> HIDE DEF c
  <2>2. c \o b \in Seq(K) /\ ToSet(c \o b) = ToSet(c) \cup ToSet(b)
    BY <1>8, <2>1, ConcatMembers
  <2> QED
    BY <2>2 DEF c
<1> QED
  BY <1>6, <1>9, <1>10, <1>11, <1>12, <1>13
(***************************************************************************)
(* The sort of the report.                                                 *)
(***************************************************************************)
Pid(s, k) == pcbs[s[k]].pid

\* What a pass over the first i neighbours makes of s: the same PCBs, the one
\* with the largest id of the first i + 1 behind the others of them, and the
\* rest where it was.
Bubbled(u, s, i) ==
  /\ u \in Seq(Processes) /\ Len(u) = Len(s)
  /\ \A x : Count(u, x) = Count(s, x)
  /\ \A k \in 1 .. i : Pid(u, k) <= Pid(u, i + 1)
  /\ \A k \in i + 2 .. Len(s) : u[k] = s[k]
  /\ \A k \in 1 .. i + 1 : k <= Len(s) => \E j \in 1 .. i + 1 : j <= Len(s) /\ u[k] = s[j]

\* Ids are numbers.
LEMMA PidIsNumber ==
  ASSUME pcbs \in Seq(PcbInputs)
  PROVE  \A p \in Processes : pcbs[p] \in PcbInputs /\ pcbs[p].pid \in Int
<1>1. \A p \in Processes : pcbs[p] \in PcbInputs
  BY DEF Processes
<1> QED
  BY <1>1 DEF PcbInputs

\* One comparison of a pass.
LEMMA ExchangeStep ==
  ASSUME pcbs \in Seq(PcbInputs), NEW s \in Seq(Processes), NEW u,
         NEW i \in 1 .. Len(s) - 1, Bubbled(u, s, i - 1)
  PROVE  Bubbled(Exchange(u, i), s, i)
<1> DEFINE n == Len(s)
           w == Exchange(u, i)
<1>1. /\ u \in Seq(Processes) /\ Len(u) = n /\ n \in Nat
      /\ \A x : Count(u, x) = Count(s, x)
      /\ \A k \in 1 .. i - 1 : Pid(u, k) <= Pid(u, i)
      /\ \A k \in i + 1 .. n : u[k] = s[k]
      /\ \A k \in 1 .. i : \E j \in 1 .. i : u[k] = s[j]
  <2>1. i - 1 + 1 = i /\ i - 1 + 2 = i + 1 /\ \A k \in 1 .. i : k <= Len(s)
    OBVIOUS
  <2> QED
    BY <2>1 DEF Bubbled
<1>2. i \in DOMAIN u /\ i + 1 \in DOMAIN u /\ DOMAIN u = 1 .. n /\ i \in Nat
  BY <1>1
<1>3. \A k \in 1 .. n : u[k] \in Processes /\ Pid(u, k) \in Int
  BY <1>1, PidIsNumber DEF Pid
<1>4. \/ w = u /\ Pid(u, i) <= Pid(u, i + 1)
      \/ w = [u EXCEPT ![i] = u[i + 1], ![i + 1] = u[i]] /\ Pid(u, i) > Pid(u, i + 1)
  BY <1>2, <1>3 DEF Exchange, Pid
<1>5. w \in Seq(Processes) /\ Len(w) = n /\ \A x : Count(w, x) = Count(s, x)
  <2>1. CASE w = u
    BY <1>1, <2>1
  <2>2. CASE w = [u EXCEPT ![i] = u[i + 1], ![i + 1] = u[i]]
    <3>1. w \in Seq(Processes) /\ Len(w) = n
      BY <1>1, <1>2, <1>3, <2>2
    <3>2. \A x : Count(w, x) = Count(u, x)
      <4> DEFINE j == i + 1
      <4>1. i \in DOMAIN u /\ j \in DOMAIN u
        BY <1>2
      <4> HIDE DEF j
      <4> SUFFICES ASSUME NEW x PROVE Count(w, x) = Count(u, x)
        OBVIOUS
      <4>2. Count([u EXCEPT ![i] = u[j], ![j] = u[i]], x) = Count(u, x)
        <5>1. u \in Seq(Processes)
          BY <1>1
        <5> QED
          BY ONLY <4>1, <5>1, CountExchange
      <4> QED
        BY <2>2, <4>2 DEF j
    <3> QED
      BY <1>1, <3>1, <3>2
  <2> QED
    BY <1>4, <2>1, <2>2
<1>6. \A k \in 1 .. n : k # i /\ k # i + 1 => w[k] = u[k]
  BY <1>1, <1>2, <1>4
<1>7. \/ w[i] = u[i] /\ w[i + 1] = u[i + 1] /\ Pid(u, i) <= Pid(u, i + 1)
      \/ w[i] = u[i + 1] /\ w[i + 1] = u[i] /\ Pid(u, i) > Pid(u, i + 1)
  BY <1>1, <1>2, <1>4
<1> HIDE DEF w
<1>8. \A k \in 1 .. i : Pid(w, k) <= Pid(w, i + 1)
  <2> SUFFICES ASSUME NEW k \in 1 .. i PROVE Pid(w, k) <= Pid(w, i + 1)
    OBVIOUS
  <2>1. i \in 1 .. n /\ i + 1 \in 1 .. n /\ k \in 1 .. n
    BY <1>1
  <2>2. Pid(u, k) \in Int /\ Pid(u, i) \in Int /\ Pid(u, i + 1) \in Int
    BY <1>3, <2>1
  <2>3. CASE k = i
    <3>1. CASE w[i] = u[i] /\ w[i + 1] = u[i + 1] /\ Pid(u, i) <= Pid(u, i + 1)
      <4>1. Pid(w, i) = Pid(u, i) /\ Pid(w, i + 1) = Pid(u, i + 1)
        BY <3>1 DEF Pid
      <4> QED
        BY <2>3, <3>1, <4>1
    <3>2. CASE w[i] = u[i + 1] /\ w[i + 1] = u[i] /\ Pid(u, i) > Pid(u, i + 1)
      <4>1. Pid(w, i) = Pid(u, i + 1) /\ Pid(w, i + 1) = Pid(u, i)
        BY <3>2 DEF Pid
      <4> QED
        BY <2>2, <2>3, <3>2, <4>1
    <3> QED
      BY <1>7, <3>1, <3>2
  <2>4. CASE k # i
    <3>1. k \in 1 .. i - 1 /\ w[k] = u[k]
      BY <1>6, <2>1, <2>4
    <3>2. Pid(w, k) = Pid(u, k) /\ Pid(u, k) <= Pid(u, i)
      BY <1>1, <3>1 DEF Pid
    <3>3. CASE w[i + 1] = u[i + 1] /\ Pid(u, i) <= Pid(u, i + 1)
      <4>1. Pid(w, i + 1) = Pid(u, i + 1)
        BY <3>3 DEF Pid
      <4> QED
        BY <2>2, <3>2, <3>3, <4>1
    <3>4. CASE w[i + 1] = u[i]
      <4>1. Pid(w, i + 1) = Pid(u, i)
        BY <3>4 DEF Pid
      <4> QED
        BY <2>2, <3>2, <4>1
    <3> QED
      BY <1>7, <3>3, <3>4
  <2> QED
    BY <2>3, <2>4
<1>9. \A k \in i + 2 .. n : w[k] = s[k]
  <2> SUFFICES ASSUME NEW k \in i + 2 .. n PROVE w[k] = s[k]
    OBVIOUS
  <2>1. k \in 1 .. n /\ k \in i + 1 .. n /\ k # i /\ k # i + 1
    BY <1>1
  <2> QED
    BY <1>1, <1>6, <2>1
<1>10. \A k \in 1 .. i + 1 : \E j \in 1 .. i + 1 : w[k] = s[j]
  <2>1. \A k \in 1 .. i + 1 : \E j \in 1 .. i + 1 : u[k] = s[j]
    <3>1. u[i + 1] = s[i + 1] /\ i + 1 \in 1 .. i + 1
      BY <1>1, <1>2
    <3> QED
      BY <1>1, <3>1
  <2>2. \A k \in 1 .. i + 1 : \E m \in 1 .. i + 1 : w[k] = u[m]
    <3> SUFFICES ASSUME NEW k \in 1 .. i + 1 PROVE \E m \in 1 .. i + 1 : w[k] = u[m]
      OBVIOUS
    <3>1. k \in 1 .. n /\ i \in 1 .. i + 1 /\ i + 1 \in 1 .. i + 1
      BY <1>1
    <3>2. CASE k = i \/ k = i + 1
      BY <1>7, <3>1, <3>2
    <3>3. CASE k # i /\ k # i + 1
      BY <1>6, <3>1, <3>3
    <3> QED
      BY <3>2, <3>3
  <2> QED
    BY <2>1, <2>2
<1>11. \A k \in 1 .. i + 1 : k <= n
  BY <1>1
<1> QED
  BY <1>5, <1>8, <1>9, <1>10, <1>11 DEF Bubbled, w

\* One pass over the first `last` neighbours.
LEMMA PassFacts ==
  ASSUME pcbs \in Seq(PcbInputs), NEW s \in Seq(Processes), s # <<>>, NEW last \in 0 .. Len(s) - 1
  PROVE  Bubbled(BubblePass(s, last), s, last)
<1> DEFINE n == Len(s)
           V == {u \in Seq(Processes) : Len(u) = n}
           R(f) == f = [i \in 0 .. last |-> IF i = 0 THEN s ELSE Exchange(f[i - 1], i)]
           g == CHOOSE f : R(f)
           step == [i \in 1 .. last |-> [v \in V |-> Exchange(v, i)]]
<1>1. n \in Nat /\ last \in Nat /\ last < n /\ s \in V
  BY EmptySeq
<1>2. \A i \in 1 .. last : i \in 1 .. n - 1
  BY <1>1
<1>3. BubblePass(s, last) = g[last]
  BY DEF BubblePass
<1>4. \A i \in 1 .. last : \A v \in V : Exchange(v, i) \in V
  <2> SUFFICES ASSUME NEW i \in 1 .. last, NEW v \in V PROVE Exchange(v, i) \in V
    OBVIOUS
  <2>1. i \in DOMAIN v /\ i + 1 \in DOMAIN v
    BY <1>1
  <2> QED
    BY <2>1 DEF Exchange
<1>5. Steps(V, s, last, step)
  BY <1>1, <1>4 DEF Steps
<1>6. PICK f : Computes(f, V, s, last, step)
  <2> HIDE DEF V, step
  <2> QED
    BY <1>5, RecursionExists
<1>7. f \in [0 .. last -> V] /\ f[0] = s /\ \A i \in 1 .. last : f[i] = Exchange(f[i - 1], i)
  <2>1. /\ f \in [0 .. last -> V] /\ f[0] = s
        /\ \A i \in 1 .. last : f[i] = step[i][f[i - 1]]
    BY <1>6 DEF Computes
  <2>2. \A i \in 1 .. last : i - 1 \in 0 .. last
    BY <1>1
  <2> HIDE DEF V
  <2> QED
    BY <2>1, <2>2
<1> HIDE DEF V
<1>8. R(f)
  <2>1. \A i \in 0 .. last : f[i] = IF i = 0 THEN s ELSE Exchange(f[i - 1], i)
    <3>1. \A i \in 0 .. last : i = 0 \/ (i # 0 /\ i \in 1 .. last)
      BY <1>1
    <3> QED
      BY Zenon, <1>7, <3>1
  <2>2. f = [i \in 0 .. last |-> f[i]]
    BY <1>7
  <2> QED
    BY Zenon, <2>1, <2>2
<1>9. R(g)
  <2> HIDE DEF R
  <2> QED
    BY <1>8
<1> HIDE DEF g
<1>10. g[0] = s /\ \A i \in 1 .. last : g[i] = Exchange(g[i - 1], i)
  <2> DEFINE b(i) == IF i = 0 THEN s ELSE Exchange(g[i - 1], i)
  <2>1. g = [i \in 0 .. last |-> b(i)]
    BY <1>9
  <2> HIDE DEF b
  <2>2. \A i \in 0 .. last : g[i] = b(i)
    BY Zenon, <2>1
  <2>3. 0 \in 0 .. last /\ \A i \in 1 .. last : i \in 0 .. last /\ i # 0
    BY <1>1
  <2> QED
    BY Zenon, <2>2, <2>3 DEF b
<1> DEFINE U == {i \in 0 .. last : Bubbled(g[i], s, i)}
<1>11. 0 \in U
  <2>1. \A k \in 1 .. 1 : k \in 1 .. 1 /\ s[k] = s[k]
    OBVIOUS
  <2>2. Bubbled(s, s, 0)
    BY <2>1 DEF Bubbled
  <2> QED
    BY <1>1, <1>10, <2>2
<1>12. \A i \in 1 .. last : i - 1 \in U => i \in U
  <2> SUFFICES ASSUME NEW i \in 1 .. last, i - 1 \in U PROVE i \in U
    OBVIOUS
  <2>1. i \in 1 .. Len(s) - 1
    BY <1>2
  <2>2. Bubbled(Exchange(g[i - 1], i), s, i)
    BY <2>1, ExchangeStep
  <2> QED
    BY <1>1, <1>10, <2>2
<1>13. last \in U
  <2>1. 0 .. last \subseteq U
    <3> HIDE DEF U
    <3> QED
      BY <1>1, <1>11, <1>12, UpTo
  <2> QED
    BY <1>1, <2>1
<1> QED
  BY <1>3, <1>13
\* After `turn` passes the last `turn` PCBs are the ones with the largest ids.
SortedFrom(u, s, turn) ==
  /\ u \in Seq(Processes) /\ Len(u) = Len(s)
  /\ \A x : Count(u, x) = Count(s, x)
  /\ \A m \in Len(s) - turn + 1 .. Len(s) : \A k \in 1 .. m - 1 : Pid(u, k) <= Pid(u, m)

\* One more pass.
LEMMA SortStep ==
  ASSUME pcbs \in Seq(PcbInputs), NEW s \in Seq(Processes), NEW u,
         NEW turn \in 1 .. Len(s), SortedFrom(u, s, turn - 1)
  PROVE  SortedFrom(BubblePass(u, Len(s) - turn), s, turn)
<1> DEFINE n == Len(s)
           last == n - turn
           w == BubblePass(u, last)
<1>1. n \in Nat /\ turn \in 1 .. n /\ last \in 0 .. n - 1 /\ n # 0
  OBVIOUS
<1>2. /\ u \in Seq(Processes) /\ Len(u) = n
      /\ \A x : Count(u, x) = Count(s, x)
      /\ \A m \in last + 2 .. n : \A k \in 1 .. m - 1 : Pid(u, k) <= Pid(u, m)
  <2>1. n - (turn - 1) + 1 = last + 2
    BY <1>1
  <2> QED
    BY <2>1 DEF SortedFrom
<1>3. Bubbled(w, u, last)
  <2>1. u # <<>> /\ last \in 0 .. Len(u) - 1
    BY <1>1, <1>2
  <2> HIDE DEF last
  <2> QED
    BY <1>2, <2>1, PassFacts
<1> HIDE DEF w
<1>4. /\ w \in Seq(Processes) /\ Len(w) = n
      /\ \A x : Count(w, x) = Count(u, x)
      /\ \A k \in 1 .. last : Pid(w, k) <= Pid(w, last + 1)
      /\ \A k \in last + 2 .. n : w[k] = u[k]
      /\ \A k \in 1 .. last + 1 : k <= n => \E j \in 1 .. last + 1 : j <= n /\ w[k] = u[j]
  BY <1>2, <1>3 DEF Bubbled
<1>5. ASSUME NEW m \in last + 1 .. n, NEW k \in 1 .. m - 1 PROVE Pid(w, k) <= Pid(w, m)
  <2>1. CASE m = last + 1
    <3>1. k \in 1 .. last
      BY <1>1, <2>1
    <3> QED
      BY <1>4, <2>1, <3>1
  <2>2. CASE m # last + 1
    <3>1. m \in last + 2 .. n /\ m \in Nat
      BY <1>1, <2>2
    <3>2. Pid(w, m) = Pid(u, m)
      BY <1>4, <3>1 DEF Pid
    <3>3. CASE k <= last + 1
      <4>1. k \in 1 .. last + 1 /\ k <= n
        BY <1>1, <3>3
      <4>2. PICK j \in 1 .. last + 1 : w[k] = u[j]
        BY <1>4, <4>1
      <4>3. j \in 1 .. m - 1
        BY <1>1, <3>1
      <4>4. Pid(u, j) <= Pid(u, m)
        BY <1>2, <3>1, <4>3
      <4> QED
        BY <3>2, <4>2, <4>4 DEF Pid
    <3>4. CASE ~(k <= last + 1)
      <4>1. k \in last + 2 .. n
        BY <1>1, <3>4
      <4>2. w[k] = u[k]
        BY <1>4, <4>1
      <4>3. Pid(u, k) <= Pid(u, m)
        BY <1>2, <3>1
      <4> QED
        BY <3>2, <4>2, <4>3 DEF Pid
    <3> QED
      BY <3>3, <3>4
  <2> QED
    BY <2>1, <2>2
<1>6. n - turn + 1 = last + 1
  OBVIOUS
<1> QED
  BY <1>2, <1>4, <1>5, <1>6 DEF SortedFrom, w

\* The bubble sort returns the same PCBs in ascending order of their ids.
LEMMA SortFacts ==
  ASSUME pcbs \in Seq(PcbInputs), NEW s \in Seq(Processes)
  PROVE  LET t == sortPCBBasedOnProcessId(s)
         IN  /\ t \in Seq(Processes) /\ Len(t) = Len(s)
             /\ \A x : Count(t, x) = Count(s, x)
             /\ \A k, m \in 1 .. Len(s) : k < m => Pid(t, k) <= Pid(t, m)
<1>1. CASE s = <<>>
  <2>1. sortPCBBasedOnProcessId(s) = s /\ Len(s) = 0
    BY <1>1 DEF sortPCBBasedOnProcessId
  <2> QED
    BY <2>1
<1>2. CASE s # <<>>
  <2> DEFINE n == Len(s)
             V == {u \in Seq(Processes) : Len(u) = n}
             R(f) == f = [turn \in 0 .. n |->
                            IF turn = 0 THEN s ELSE BubblePass(f[turn - 1], n - turn)]
             g == CHOOSE f : R(f)
             step == [turn \in 1 .. n |-> [v \in V |-> BubblePass(v, n - turn)]]
  <2>1. n \in Nat /\ n > 0 /\ s \in V
    BY <1>2, EmptySeq
  <2>2. sortPCBBasedOnProcessId(s) = g[n - 1]
    BY <1>2 DEF sortPCBBasedOnProcessId
  <2>3. \A turn \in 1 .. n : \A v \in V : BubblePass(v, n - turn) \in V
    <3> SUFFICES ASSUME NEW turn \in 1 .. n, NEW v \in V PROVE BubblePass(v, n - turn) \in V
      OBVIOUS
    <3> DEFINE last == n - turn
    <3>1. v \in Seq(Processes) /\ v # <<>> /\ last \in 0 .. Len(v) - 1
      BY <2>1
    <3> HIDE DEF last
    <3>2. Bubbled(BubblePass(v, last), v, last)
      BY <3>1, PassFacts
    <3> QED
      BY <3>2 DEF Bubbled, last
  <2>4. Steps(V, s, n, step)
    <3> HIDE DEF V
    <3> QED
      BY <2>1, <2>3 DEF Steps
  <2>5. PICK f : Computes(f, V, s, n, step)
    <3> HIDE DEF V, step
    <3> QED
      BY <2>4, RecursionExists
  <2> HIDE DEF V
  <2>6. f \in [0 .. n -> V] /\ f[0] = s /\ \A i \in 1 .. n : f[i] = BubblePass(f[i - 1], n - i)
    <3>1. /\ f \in [0 .. n -> V] /\ f[0] = s
          /\ \A i \in 1 .. n : f[i] = step[i][f[i - 1]]
      BY <2>5 DEF Computes
    <3>2. \A i \in 1 .. n : i - 1 \in 0 .. n
      BY <2>1
    <3> QED
      BY <3>1, <3>2
  <2>7. R(f)
    <3>1. \A i \in 0 .. n : f[i] = IF i = 0 THEN s ELSE BubblePass(f[i - 1], n - i)
      <4>1. \A i \in 0 .. n : i = 0 \/ (i # 0 /\ i \in 1 .. n)
        BY <2>1
      <4> QED
        BY Zenon, <2>6, <4>1
    <3>2. f = [i \in 0 .. n |-> f[i]]
      BY <2>6
    <3> QED
      BY Zenon, <3>1, <3>2
  <2>8. R(g)
    <3> HIDE DEF R
    <3> QED
      BY <2>7
  <2> HIDE DEF g
  <2>9. g[0] = s /\ \A i \in 1 .. n : g[i] = BubblePass(g[i - 1], n - i)
    <3> DEFINE b(i) == IF i = 0 THEN s ELSE BubblePass(g[i - 1], n - i)
    <3>1. g = [i \in 0 .. n |-> b(i)]
      BY <2>8
    <3> HIDE DEF b
    <3>2. \A i \in 0 .. n : g[i] = b(i)
      BY Zenon, <3>1
    <3>3. 0 \in 0 .. n /\ \A i \in 1 .. n : i \in 0 .. n /\ i # 0
      BY <2>1
    <3> QED
      BY Zenon, <3>2, <3>3 DEF b
  <2> DEFINE U == {i \in 0 .. n : SortedFrom(g[i], s, i)}
  <2>10. 0 \in U
    <3>1. n - 0 + 1 .. n = {}
      BY <2>1
    <3>2. SortedFrom(s, s, 0)
      BY <3>1 DEF SortedFrom
    <3> QED
      BY <2>1, <2>9, <3>2
  <2>11. \A i \in 1 .. n : i - 1 \in U => i \in U
    <3> SUFFICES ASSUME NEW i \in 1 .. n, i - 1 \in U PROVE i \in U
      OBVIOUS
    <3>1. SortedFrom(BubblePass(g[i - 1], n - i), s, i)
      BY SortStep
    <3> QED
      BY <2>1, <2>9, <3>1
  <2>12. n - 1 \in U
    <3>1. 0 .. n \subseteq U
      <4> HIDE DEF U
      <4> QED
        BY <2>1, <2>10, <2>11, UpTo
    <3> QED
      BY <2>1, <3>1
  <2> DEFINE t == g[n - 1]
  <2>13. SortedFrom(t, s, n - 1)
    BY <2>12
  <2> HIDE DEF t
  <2>14. /\ t \in Seq(Processes) /\ Len(t) = n
         /\ \A x : Count(t, x) = Count(s, x)
         /\ \A m \in 2 .. n : \A k \in 1 .. m - 1 : Pid(t, k) <= Pid(t, m)
    <3>1. n - (n - 1) + 1 = 2
      BY <2>1
    <3> QED
      BY <2>13, <3>1 DEF SortedFrom
  <2>15. \A k, m \in 1 .. n : k < m => m \in 2 .. n /\ k \in 1 .. m - 1
    BY <2>1
  <2> QED
    BY <2>2, <2>14, <2>15 DEF t
<1> QED
  BY <1>1, <1>2
(***************************************************************************)
(* Types.                                                                  *)
(***************************************************************************)
\* A list of members of a set is a list of members of a larger one.
LEMMA SeqSubset ==
  ASSUME NEW S, NEW T, S \subseteq T, NEW s \in Seq(S)
  PROVE  s \in Seq(T)
<1>1. Len(s) \in Nat /\ s \in [1 .. Len(s) -> S]
  OBVIOUS
<1>2. s \in [1 .. Len(s) -> T]
  BY <1>1
<1> QED
  BY <1>1, <1>2

\* What the proofs about a step use of the types.
LEMMA Typed ==
  ASSUME TypeOK
  PROVE  /\ Len(pcbs) \in Nat /\ Processes = 1 .. Len(pcbs) /\ NoProcess \notin Processes
         /\ Processes \subseteq Nat
         /\ \A p \in Processes :
              /\ pcbs[p] \in PcbInputs /\ pcbs[p].pid \in Pids /\ pcbs[p].pid \in Int
              /\ pcbs[p].burst \in BurstTimes /\ pcbs[p].burst \in Nat
              /\ pcbs[p].ioStart \in IoStartTimes /\ pcbs[p].ioStart \in Int
              /\ pcbs[p].ioDuration \in IoDurations /\ pcbs[p].ioDuration \in Nat
<1>1. Len(pcbs) \in Nat /\ Processes = 1 .. Len(pcbs) /\ \A p \in Processes : pcbs[p] \in PcbInputs
  BY DEF TypeOK, Processes
<1>2. NoProcess \notin Processes /\ Processes \subseteq Nat
  BY <1>1
<1>3. ASSUME NEW in \in PcbInputs
      PROVE  /\ in.pid \in Pids /\ in.pid \in Int
             /\ in.burst \in BurstTimes /\ in.burst \in Nat
             /\ in.ioStart \in IoStartTimes /\ in.ioStart \in Int
             /\ in.ioDuration \in IoDurations /\ in.ioDuration \in Nat
  <2>1. /\ in.pid \in Pids /\ in.burst \in BurstTimes
        /\ in.ioStart \in IoStartTimes /\ in.ioDuration \in IoDurations
    BY DEF PcbInputs
  <2>2. Pids \subseteq Int /\ BurstTimes \subseteq Nat /\ IoDurations \subseteq Nat
    BY PidAssumption, BurstAssumption, IoAssumption
  <2>3. IoStartTimes \subseteq Int
    BY IoAssumption
  <2> QED
    BY <2>1, <2>2, <2>3
<1> QED
  BY <1>1, <1>2, <1>3

\* The steps that do nothing but go to the next function.
OnlyPhase == UNCHANGED <<currentTime, input, state, isKilled, clocks, queues, report>>

\* The types stay right when only the phase changes.
LEMMA TypePhase ==
  ASSUME TypeOK, OnlyPhase, phase' \in Phases
  PROVE  TypeOK'
BY DEF TypeOK, OnlyPhase, input, clocks, queues, Processes

\* The initial state has the right types.
LEMMA TypeInit == Init => TypeOK
<1> SUFFICES ASSUME Init PROVE TypeOK
  OBVIOUS
<1>1. Processes = {} /\ pcbs = <<>>
  BY DEF Init, Processes
<1>2. \A S : <<>> \in [Processes -> S]
  BY <1>1
<1> QED
  BY <1>1, <1>2 DEF Init, TypeOK, Phases, Rows

\* The types stay right when a process is entered.
LEMMA TypeProcess ==
  ASSUME TypeOK, NEW in \in PcbInputs, handleProcessInput(in)
  PROVE  TypeOK'
<1> DEFINE n == Len(pcbs)
<1>1. n \in Nat /\ Processes = 1 .. n /\ in.burst \in Nat
  BY Typed DEF PcbInputs
<1>2. pcbs' = Append(pcbs, in) /\ pcbs' \in Seq(PcbInputs) /\ Processes' = 1 .. n + 1
  <2>1. pcbs' = Append(pcbs, in)
    BY DEF handleProcessInput
  <2>2. pcbs' \in Seq(PcbInputs) /\ Len(pcbs') = n + 1
    BY <2>1, AppendProperties DEF TypeOK
  <2> QED
    BY <2>1, <2>2 DEF Processes
<1> HIDE DEF n
<1>3. /\ state \in [1 .. n -> States] /\ isKilled \in [1 .. n -> BOOLEAN]
      /\ justStarted \in [1 .. n -> BOOLEAN] /\ executed \in [1 .. n -> Nat]
      /\ remaining \in [1 .. n -> Int] /\ ioRemaining \in [1 .. n -> Nat]
      /\ completion \in [1 .. n -> Nat] /\ ioSince \in [1 .. n -> Int]
  BY <1>1 DEF TypeOK
<1>4. /\ state' = Append(state, "READY") /\ isKilled' = Append(isKilled, FALSE)
      /\ executed' = Append(executed, 0) /\ remaining' = Append(remaining, in.burst)
      /\ ioRemaining' = Append(ioRemaining, 0) /\ justStarted' = Append(justStarted, FALSE)
      /\ completion' = Append(completion, 0) /\ ioSince' = Append(ioSince, -1)
  BY DEF handleProcessInput
<1>5. "READY" \in States /\ FALSE \in BOOLEAN /\ 0 \in Nat /\ in.burst \in Int /\ -1 \in Int
  BY <1>1 DEF States
<1>6. state' \in [1 .. n + 1 -> States] /\ isKilled' \in [1 .. n + 1 -> BOOLEAN]
  BY <1>1, <1>3, <1>4, <1>5, AppendValue
<1>7. executed' \in [1 .. n + 1 -> Nat] /\ remaining' \in [1 .. n + 1 -> Int]
  BY <1>1, <1>3, <1>4, <1>5, AppendValue
<1>8. ioRemaining' \in [1 .. n + 1 -> Nat] /\ justStarted' \in [1 .. n + 1 -> BOOLEAN]
  BY <1>1, <1>3, <1>4, <1>5, AppendValue
<1>9. completion' \in [1 .. n + 1 -> Nat] /\ ioSince' \in [1 .. n + 1 -> Int]
  BY <1>1, <1>3, <1>4, <1>5, AppendValue
<1>10. /\ readyQueue' \in Seq(1 .. n + 1) /\ waitingQueue' \in Seq(1 .. n + 1)
       /\ terminatedQueue' \in Seq(1 .. n + 1) /\ lost' \in SUBSET (1 .. n + 1)
  <2>1. 1 .. n \subseteq 1 .. n + 1 /\ n + 1 \in 1 .. n + 1
    BY <1>1
  <2>2. /\ readyQueue \in Seq(1 .. n + 1) /\ waitingQueue \in Seq(1 .. n + 1)
        /\ terminatedQueue \in Seq(1 .. n + 1)
    <3>1. /\ readyQueue \in Seq(1 .. n) /\ waitingQueue \in Seq(1 .. n)
          /\ terminatedQueue \in Seq(1 .. n)
      BY <1>1 DEF TypeOK
    <3> QED
      BY <2>1, <3>1, SeqSubset
  <2>3. Added(readyQueue, readyQueue', lost, lost', n + 1)
    BY EnteredQueue DEF n
  <2>4. readyQueue' \in Seq(1 .. n + 1) /\ lost' \subseteq lost \cup {n + 1}
    <3> DEFINE m == n + 1
           S == 1 .. m
    <3>1. m \in S /\ readyQueue \in Seq(S) /\ Added(readyQueue, readyQueue', lost, lost', m)
      BY <2>1, <2>2, <2>3
    <3> HIDE DEF m, S
    <3>2. readyQueue' \in Seq(S) /\ lost' \subseteq lost \cup {m}
      BY ONLY <3>1, AddedTyped
    <3> QED
      BY <3>2 DEF m, S
  <2>6. lost' \in SUBSET (1 .. n + 1)
    <3>1. lost \subseteq 1 .. n
      BY <1>1 DEF TypeOK
    <3> QED
      BY <2>1, <2>4, <3>1
  <2>5. waitingQueue' = waitingQueue /\ terminatedQueue' = terminatedQueue
    BY DEF handleProcessInput
  <2> QED
    BY <2>2, <2>4, <2>5, <2>6
<1>11. /\ phase' \in Phases /\ currentTime' \in Nat
       /\ kills' \in Seq([pid : Pids, time : KillTimes]) /\ report' \in Seq(Rows)
       /\ running' \in 1 .. n + 1 \cup {NoProcess}
  BY <1>1 DEF handleProcessInput, TypeOK
<1> QED
  BY <1>2, <1>6, <1>7, <1>8, <1>9, <1>10, <1>11 DEF TypeOK

\* The types stay right when a KILL is entered.
LEMMA TypeKillInput ==
  ASSUME TypeOK, NEW event \in [pid : Pids, time : KillTimes], addKillEvent(event)
  PROVE  TypeOK'
<1>1. kills' \in Seq([pid : Pids, time : KillTimes])
  BY InsertFacts DEF addKillEvent, TypeOK
<1> QED
  BY <1>1 DEF TypeOK, addKillEvent, clocks, queues, Processes

\* The types stay right when a KILL is processed.
LEMMA TypeKill ==
  ASSUME TypeOK, processKillEvent
  PROVE  TypeOK'
<1>1. PICK i \in Due :
        /\ kills' = RemoveAt(kills, i)
        /\ LET pid == kills[i].pid
               p   == hashmapGet(pid)
           IN  IF Killable(p)
               THEN /\ state' = [state EXCEPT ![p] = "KILLED"]
                    /\ isKilled' = [isKilled EXCEPT ![p] = TRUE]
                    /\ completion' = [completion EXCEPT ![p] = currentTime]
                    /\ readyQueue' = removeFromQueue(readyQueue, pid)
                    /\ waitingQueue' = removeFromQueue(waitingQueue, pid)
                    /\ running' = IF running # NoProcess /\ pcbs[running].pid = pid
                                  THEN NoProcess ELSE running
                    /\ \E failed \in Failures({p}) :
                         /\ terminatedQueue' = enqueue(terminatedQueue, p, failed)
                         /\ lost' = (lost \ {p}) \cup failed
               ELSE UNCHANGED <<state, isKilled, completion, queues>>
  BY DEF processKillEvent, Enqueued
<1>2. kills' \in Seq([pid : Pids, time : KillTimes])
  <2>1. i \in DOMAIN kills
    BY DEF Due
  <2> QED
    BY <1>1, <2>1, RemoveAtFacts DEF TypeOK
<1>3. /\ pcbs' = pcbs /\ Processes' = Processes /\ phase' = phase /\ currentTime' = currentTime
      /\ executed' = executed /\ remaining' = remaining /\ ioRemaining' = ioRemaining
      /\ justStarted' = justStarted /\ ioSince' = ioSince /\ report' = report
  BY DEF processKillEvent, Processes
<1> DEFINE pid == kills[i].pid
           p == hashmapGet(pid)
<1>4. CASE ~Killable(p)
  BY <1>1, <1>2, <1>3, <1>4 DEF TypeOK, queues
<1>5. CASE Killable(p)
  <2>1. p \in Processes
    BY <1>5, HashFacts DEF Killable, TypeOK
  <2>2. /\ state' = [state EXCEPT ![p] = "KILLED"]
        /\ isKilled' = [isKilled EXCEPT ![p] = TRUE]
        /\ completion' = [completion EXCEPT ![p] = currentTime]
        /\ readyQueue' = removeFromQueue(readyQueue, pid)
        /\ waitingQueue' = removeFromQueue(waitingQueue, pid)
        /\ running' \in {running, NoProcess}
        /\ Added(terminatedQueue, terminatedQueue', lost, lost', p)
    BY <1>1, <1>5, EnqueueAdds
  <2> HIDE DEF p, pid
  <2>3. readyQueue' \in Seq(Processes) /\ waitingQueue' \in Seq(Processes)
    BY <2>2, RemoveFacts DEF TypeOK
  <2>4. /\ terminatedQueue' \in Seq(Processes) /\ running' \in Processes \cup {NoProcess}
        /\ lost' \in SUBSET Processes
    <3>1. /\ terminatedQueue \in Seq(Processes) /\ running \in Processes \cup {NoProcess}
          /\ lost \subseteq Processes
      BY DEF TypeOK
    <3>2. terminatedQueue' \in Seq(Processes) /\ lost' \subseteq lost \cup {p}
      BY <2>1, <2>2, <3>1, AddedFacts
    <3> QED
      BY <2>1, <2>2, <3>1, <3>2
  <2>5. /\ state' \in [Processes -> States] /\ isKilled' \in [Processes -> BOOLEAN]
        /\ completion' \in [Processes -> Nat]
    BY <2>1, <2>2 DEF TypeOK, States
  <2> QED
    BY <1>2, <1>3, <2>3, <2>4, <2>5 DEF TypeOK
<1> QED
  BY <1>4, <1>5

\* The types stay right when a process is dispatched.
LEMMA TypeDispatch ==
  ASSUME TypeOK, dispatchProcess
  PROVE  TypeOK'
<1>1. /\ phase' = "cpu" /\ Processes' = Processes
      /\ UNCHANGED <<currentTime, input, isKilled, clocks, report>>
  BY DEF dispatchProcess, input, Processes
<1>2. CASE NothingToDispatch
  BY <1>1, <1>2 DEF NothingToDispatch, TypeOK, input, clocks, queues, Phases
<1>3. CASE TakeReady
  <2> DEFINE p == Head(readyQueue)
  <2>1. /\ readyQueue # <<>> /\ readyQueue' = Tail(readyQueue) /\ waitingQueue' = waitingQueue
        /\ RunNext(p) \/ Discard(p)
    BY <1>3 DEF TakeReady
  <2>2. p \in Processes /\ readyQueue' \in Seq(Processes)
    BY <2>1 DEF TypeOK
  <2> HIDE DEF p
  <2>3. /\ state' \in [Processes -> States] /\ running' \in Processes \cup {NoProcess}
        /\ terminatedQueue' \in Seq(Processes) /\ lost' \in SUBSET Processes
    <3>1. /\ state \in [Processes -> States] /\ terminatedQueue \in Seq(Processes)
          /\ running \in Processes \cup {NoProcess} /\ "RUNNING" \in States
          /\ lost \subseteq Processes
      BY DEF TypeOK, States
    <3>2. CASE RunNext(p)
      BY <2>2, <3>1, <3>2 DEF RunNext
    <3>3. CASE Discard(p)
      <4>1. Added(terminatedQueue, terminatedQueue', lost, lost', p) /\ UNCHANGED <<state, running>>
        BY <3>3, EnqueueAdds DEF Discard, Enqueued
      <4>2. terminatedQueue' \in Seq(Processes) /\ lost' \subseteq lost \cup {p}
        BY <2>2, <3>1, <4>1, AddedFacts
      <4> QED
        BY <2>2, <3>1, <4>1, <4>2
    <3> QED
      BY <2>1, <3>2, <3>3
  <2> QED
    BY <1>1, <2>1, <2>2, <2>3 DEF TypeOK, input, clocks, Phases
<1> QED
  BY <1>2, <1>3 DEF dispatchProcess

\* The types stay right when the CPU executes.
LEMMA TypeCpu ==
  ASSUME TypeOK, executeCPU
  PROVE  TypeOK'
<1>1. /\ phase' = "io" /\ Processes' = Processes /\ running \in Processes
      /\ UNCHANGED <<currentTime, input, isKilled, report>>
      /\ executed' \in [Processes -> Nat] /\ remaining' \in [Processes -> Int]
      /\ StartIo(running) \/ Complete(running) \/ KeepRunning(running)
  BY DEF executeCPU, input, Processes, TypeOK
<1>2. pcbs[running].ioDuration \in Nat
  BY <1>1, Typed
<1>3. CASE StartIo(running)
  <2>1. state' \in [Processes -> States] /\ justStarted' \in [Processes -> BOOLEAN]
    BY <1>1, <1>3 DEF StartIo, TypeOK, States
  <2>2. ioRemaining' \in [Processes -> Nat] /\ ioSince' \in [Processes -> Int]
    BY <1>1, <1>2, <1>3 DEF StartIo, TypeOK
  <2>3. waitingQueue \in Seq(Processes) /\ lost \subseteq Processes
    BY DEF TypeOK
  <2>4. waitingQueue' \in Seq(Processes) /\ lost' \in SUBSET Processes
    <3>1. Added(waitingQueue, waitingQueue', lost, lost', running)
      BY <1>3, EnqueueAdds DEF StartIo, Enqueued
    <3>2. waitingQueue' \in Seq(Processes) /\ lost' \subseteq lost \cup {running}
      BY <1>1, <2>3, <3>1, AddedFacts
    <3> QED
      BY <1>1, <2>3, <3>2
  <2>5. running' = NoProcess /\ UNCHANGED <<completion, readyQueue, terminatedQueue>>
    BY <1>3 DEF StartIo
  <2> QED
    BY <1>1, <2>1, <2>2, <2>4, <2>5 DEF TypeOK, input, Phases
<1>4. CASE Complete(running)
  <2>1. state' \in [Processes -> States] /\ completion' \in [Processes -> Nat]
    BY <1>1, <1>4 DEF Complete, TypeOK, States
  <2>2. terminatedQueue \in Seq(Processes) /\ lost \subseteq Processes
    BY DEF TypeOK
  <2>3. terminatedQueue' \in Seq(Processes) /\ lost' \in SUBSET Processes
    <3>1. Added(terminatedQueue, terminatedQueue', lost, lost', running)
      BY <1>4, EnqueueAdds DEF Complete, Enqueued
    <3>2. terminatedQueue' \in Seq(Processes) /\ lost' \subseteq lost \cup {running}
      BY <1>1, <2>2, <3>1, AddedFacts
    <3> QED
      BY <1>1, <2>2, <3>2
  <2>4. running' = NoProcess /\ UNCHANGED <<ioRemaining, justStarted, ioSince, readyQueue, waitingQueue>>
    BY <1>4 DEF Complete
  <2> QED
    BY <1>1, <2>1, <2>3, <2>4 DEF TypeOK, input, Phases
<1>5. CASE KeepRunning(running)
  BY <1>1, <1>5 DEF KeepRunning, TypeOK, input, queues, Phases
<1> QED
  BY <1>1, <1>3, <1>4, <1>5
\* What a tick does to the waiting processes.
LEMMA IoFacts ==
  ASSUME TypeOK, handleInputOutputTime
  PROVE  LET waiting == ToSet(waitingQueue)
             awake   == {p \in waiting : IoLeft(p) = 0 /\ ~isKilled[p]}
             asleep  == {p \in waiting : IoLeft(p) # 0}
         IN  /\ phase = "io" /\ phase' = "loop" /\ currentTime' = currentTime + 1
             /\ waiting \subseteq Processes
             /\ \A p \in Processes : IoLeft(p) \in Nat
             /\ Processes' = Processes
             /\ ioRemaining' = [p \in Processes |-> IF p \in waiting THEN IoLeft(p) ELSE ioRemaining[p]]
             /\ justStarted' = [p \in Processes |-> justStarted[p] /\ p \notin waiting]
             /\ state' = [p \in Processes |-> IF p \in awake THEN "READY" ELSE state[p]]
             /\ readyQueue' \in Seq(Processes) /\ waitingQueue' \in Seq(Processes)
             /\ lost' \in SUBSET Processes
             /\ \A p \in Processes :
                  /\ p \notin awake => (p \in lost' <=> p \in lost)
                  /\ Count(readyQueue', p) =
                       Count(readyQueue, p) + (IF p \in awake \ lost' THEN Count(waitingQueue, p) ELSE 0)
                  /\ Count(waitingQueue', p) =
                       IF p \in asleep THEN Count(waitingQueue, p) ELSE 0
             /\ \E woken \in Seq(Processes) :
                  ToSet(woken) = awake \ lost' /\ readyQueue' = readyQueue \o woken
             /\ UNCHANGED <<input, isKilled, executed, remaining, completion, ioSince,
                            terminatedQueue, running, report>>
<1> DEFINE waiting == ToSet(waitingQueue)
           awake   == {p \in waiting : IoLeft(p) = 0 /\ ~isKilled[p]}
           asleep  == {p \in waiting : IoLeft(p) # 0}
<1>0. PICK failed \in Failures(awake) :
        readyQueue' = readyQueue \o Select(waitingQueue, awake \ failed) /\ Enqueued(awake, failed)
  BY DEF handleInputOutputTime
<1> DEFINE woken == Select(waitingQueue, awake \ failed)
<1>1. /\ phase = "io" /\ phase' = "loop" /\ currentTime' = currentTime + 1
      /\ ioRemaining' = [p \in Processes |-> IF p \in waiting THEN IoLeft(p) ELSE ioRemaining[p]]
      /\ justStarted' = [p \in Processes |-> justStarted[p] /\ p \notin waiting]
      /\ state' = [p \in Processes |-> IF p \in awake THEN "READY" ELSE state[p]]
      /\ readyQueue' = readyQueue \o woken
      /\ waitingQueue' = Select(waitingQueue, asleep)
      /\ UNCHANGED <<input, isKilled, executed, remaining, completion, ioSince,
                     terminatedQueue, running, report>>
  BY <1>0 DEF handleInputOutputTime
<1>2. readyQueue \in Seq(Processes) /\ waitingQueue \in Seq(Processes)
  BY DEF TypeOK
<1>3. waiting \subseteq Processes
  BY <1>2 DEF ToSet
<1>4. \A p \in Processes : IoLeft(p) \in Nat
  <2>1. \A p \in Processes : ioRemaining[p] \in Nat
    BY DEF TypeOK
  <2> QED
    BY ONLY <2>1 DEF IoLeft
<1>5. awake \subseteq waiting /\ asleep \subseteq waiting
  OBVIOUS
<1> HIDE DEF waiting, awake, asleep
<1>14. /\ awake \ failed = awake \ lost'
       /\ \A p : p \notin awake => (p \in lost' <=> p \in lost)
       /\ lost' \in SUBSET Processes
  <2>1. failed \subseteq awake /\ lost' = (lost \ awake) \cup failed
    BY <1>0 DEF Failures, Enqueued
  <2>2. lost \subseteq Processes
    BY DEF TypeOK
  <2> QED
    BY <1>3, <1>5, <2>1, <2>2
<1>6. /\ woken \in Seq(Processes)
      /\ \A x : Count(woken, x) = IF x \in awake \ lost' THEN Count(waitingQueue, x) ELSE 0
  BY <1>2, <1>14, SelectFacts
<1>7. ToSet(woken) = awake \ lost'
  <2>1. ToSet(woken) = waiting \cap (awake \ failed)
    BY <1>2, SelectMembers DEF waiting
  <2> QED
    BY <1>5, <1>14, <2>1
<1>8. /\ waitingQueue' \in Seq(Processes)
      /\ \A x : Count(waitingQueue', x) = IF x \in asleep THEN Count(waitingQueue, x) ELSE 0
  <2> DEFINE kept == Select(waitingQueue, asleep)
  <2>1. kept \in Seq(Processes) /\ \A x : Count(kept, x) = IF x \in asleep THEN Count(waitingQueue, x) ELSE 0
    BY <1>2, SelectFacts
  <2>2. waitingQueue' = kept
    BY <1>1
  <2> QED
    BY <2>1, <2>2
<1> HIDE DEF woken
<1>9. readyQueue' \in Seq(Processes)
  BY <1>1, <1>2, <1>6
<1>10. ASSUME NEW p \in Processes
       PROVE  Count(readyQueue', p) =
                Count(readyQueue, p) + (IF p \in awake \ lost' THEN Count(waitingQueue, p) ELSE 0)
  <2>1. Count(readyQueue \o woken, p) = Count(readyQueue, p) + Count(woken, p)
    BY <1>2, <1>6, CountConcat
  <2> QED
    BY <1>1, <1>6, <2>1
<1>11. Processes' = Processes
  BY <1>1 DEF input, Processes
<1>12. \E w \in Seq(Processes) : ToSet(w) = awake \ lost' /\ readyQueue' = readyQueue \o w
  BY <1>1, <1>6, <1>7
<1> QED
  BY <1>1, <1>3, <1>4, <1>8, <1>9, <1>10, <1>11, <1>12, <1>14 DEF waiting, awake, asleep

\* The types stay right when the waiting processes advance.
LEMMA TypeIo ==
  ASSUME TypeOK, handleInputOutputTime
  PROVE  TypeOK'
<1> DEFINE waiting == ToSet(waitingQueue)
           awake   == {p \in waiting : IoLeft(p) = 0 /\ ~isKilled[p]}
<1>1. /\ phase' = "loop" /\ currentTime' = currentTime + 1
      /\ \A p \in Processes : IoLeft(p) \in Nat
      /\ Processes' = Processes
      /\ ioRemaining' = [p \in Processes |-> IF p \in waiting THEN IoLeft(p) ELSE ioRemaining[p]]
      /\ justStarted' = [p \in Processes |-> justStarted[p] /\ p \notin waiting]
      /\ state' = [p \in Processes |-> IF p \in awake THEN "READY" ELSE state[p]]
      /\ readyQueue' \in Seq(Processes) /\ waitingQueue' \in Seq(Processes)
      /\ lost' \in SUBSET Processes
      /\ UNCHANGED <<input, isKilled, executed, remaining, completion, ioSince,
                     terminatedQueue, running, report>>
  BY IoFacts
<1> HIDE DEF waiting, awake
<1>2. /\ ioRemaining' \in [Processes -> Nat] /\ justStarted' \in [Processes -> BOOLEAN]
      /\ state' \in [Processes -> States]
  BY <1>1 DEF TypeOK, States
<1>3. phase' \in Phases /\ currentTime' \in Nat
  BY <1>1 DEF TypeOK, Phases
<1>4. /\ pcbs' = pcbs /\ kills' = kills /\ isKilled' = isKilled /\ executed' = executed
      /\ remaining' = remaining /\ completion' = completion /\ ioSince' = ioSince
      /\ terminatedQueue' = terminatedQueue /\ running' = running /\ report' = report
  BY <1>1 DEF input
<1> QED
  BY <1>1, <1>2, <1>3, <1>4 DEF TypeOK

\* The types stay right when the report is printed.
LEMMA TypeReport ==
  ASSUME TypeOK, printFinalReport
  PROVE  TypeOK'
<1> DEFINE sorted == sortPCBBasedOnProcessId(terminatedQueue)
<1>1. /\ phase' = "end" /\ Processes' = Processes
      /\ report' = [i \in DOMAIN sorted |-> Row(sorted[i])]
      /\ UNCHANGED <<currentTime, input, state, isKilled, clocks, queues>>
  BY DEF printFinalReport, input, Processes
<1>2. sorted \in Seq(Processes)
  BY SortFacts DEF TypeOK
<1>3. \A p \in Processes : Row(p) \in Rows
  <2> SUFFICES ASSUME NEW p \in Processes PROVE Row(p) \in Rows
    OBVIOUS
  <2>1. pcbs[p].pid \in Pids /\ pcbs[p].burst \in Nat /\ completion[p] \in Nat
    BY Typed DEF TypeOK
  <2> QED
    BY <2>1 DEF Row, Rows
<1> HIDE DEF sorted
<1>4. report' \in Seq(Rows)
  <2>1. DOMAIN sorted = 1 .. Len(sorted) /\ Len(sorted) \in Nat
    BY <1>2
  <2>2. \A i \in 1 .. Len(sorted) : Row(sorted[i]) \in Rows
    BY <1>2, <1>3
  <2> QED
    BY <1>1, <2>1, <2>2
<1> QED
  BY <1>1, <1>4 DEF TypeOK, input, clocks, queues, Phases

\* The types stay right.
LEMMA TypeNext == TypeOK /\ [Next]_vars => TypeOK'
<1> SUFFICES ASSUME TypeOK, [Next]_vars PROVE TypeOK'
  OBVIOUS
<1>1. CASE UNCHANGED vars
  BY <1>1 DEF TypeOK, vars, input, clocks, queues, Processes
<1>2. CASE EndOfInput \/ Loop \/ KillsDone \/ Idle
  <2>1. phase' \in Phases
    BY <1>2 DEF EndOfInput, Loop, KillsDone, Idle, Phases
  <2>2. OnlyPhase
    BY <1>2 DEF EndOfInput, Loop, KillsDone, Idle, OnlyPhase
  <2> QED
    BY <2>1, <2>2, TypePhase
<1> QED
  BY <1>1, <1>2, TypeProcess, TypeKillInput, TypeKill, TypeDispatch, TypeCpu, TypeIo, TypeReport
  DEF Next, Tick
(***************************************************************************)
(* Every process is in one place.                                          *)
(***************************************************************************)
OnCpu(p) == IF running = p THEN 1 ELSE 0

Spots(p) == Count(readyQueue, p) + Count(waitingQueue, p) + Count(terminatedQueue, p) + OnCpu(p)

\* A process that is not killed is in one place at most and its state says in
\* which; only a killed namesake or an enqueue without memory can take it out
\* of all of them.
PlacedAt(p) ==
  /\ state[p] = "KILLED" <=> isKilled[p]
  /\ running = p => ~isKilled[p] /\ state[p] = "RUNNING"
  /\ ~isKilled[p] =>
       /\ Spots(p) <= 1
       /\ Count(readyQueue, p) > 0 => state[p] = "READY"
       /\ Count(waitingQueue, p) > 0 => state[p] = "WAITING"
       /\ Count(terminatedQueue, p) > 0 => state[p] = "COMPLETED"
  /\ ~HitByNamesake(p) =>
       /\ Spots(p) = IF p \in lost THEN 0 ELSE 1
       /\ isKilled[p] /\ p \notin lost => Count(terminatedQueue, p) = 1
       /\ p \in lost => state[p] # "RUNNING"

Placed == \A p \in Processes : PlacedAt(p)

\* The counts are numbers.
LEMMA Counted ==
  ASSUME TypeOK
  PROVE  \A p : /\ Count(readyQueue, p) \in Nat /\ Count(waitingQueue, p) \in Nat
                /\ Count(terminatedQueue, p) \in Nat /\ OnCpu(p) \in 0 .. 1
                /\ p \in ToSet(readyQueue) <=> Count(readyQueue, p) > 0
                /\ p \in ToSet(waitingQueue) <=> Count(waitingQueue, p) > 0
                /\ p \in ToSet(terminatedQueue) <=> Count(terminatedQueue, p) > 0
<1>1. /\ readyQueue \in Seq(Processes) /\ waitingQueue \in Seq(Processes)
      /\ terminatedQueue \in Seq(Processes)
  BY DEF TypeOK
<1>2. ASSUME NEW S, NEW q \in Seq(S), NEW p
      PROVE  Count(q, p) \in Nat /\ (p \in ToSet(q) <=> Count(q, p) > 0)
  <2>1. Count(q, p) \in Nat /\ (Count(q, p) = 0 <=> p \notin ToSet(q))
    BY CountNat
  <2> QED
    BY <2>1
<1>3. \A p : OnCpu(p) \in 0 .. 1
  BY DEF OnCpu
<1> QED
  BY <1>1, <1>2, <1>3

\* The steps that change neither a process nor a queue.
LEMMA PlacedSame ==
  ASSUME Placed, UNCHANGED <<pcbs, state, isKilled, queues>>
  PROVE  Placed'
BY DEF Placed, PlacedAt, Spots, OnCpu, HitByNamesake, queues, Processes

\* What a process that is entered brings with it.
LEMMA EnteredFacts ==
  ASSUME TypeOK, NEW in \in PcbInputs, handleProcessInput(in)
  PROVE  LET m == Len(pcbs) + 1
         IN  /\ Processes' = Processes \cup {m}
             /\ pcbs'[m] = in /\ state'[m] = "READY" /\ ~isKilled'[m]
             /\ executed'[m] = 0 /\ remaining'[m] = in.burst
             /\ ioSince'[m] = -1
             /\ \A p \in Processes :
                  /\ pcbs'[p] = pcbs[p] /\ state'[p] = state[p] /\ isKilled'[p] = isKilled[p]
                  /\ executed'[p] = executed[p] /\ remaining'[p] = remaining[p]
                  /\ ioRemaining'[p] = ioRemaining[p] /\ justStarted'[p] = justStarted[p]
                  /\ completion'[p] = completion[p] /\ ioSince'[p] = ioSince[p]
<1> DEFINE n == Len(pcbs)
           no == FALSE
<1>1. n \in Nat /\ Processes = 1 .. n /\ in.burst \in Int
  <2>1. in.burst \in BurstTimes
    BY DEF PcbInputs
  <2>2. in.burst \in Nat
    BY <2>1, BurstAssumption
  <2> QED
    BY <2>2, Typed
<1>2. /\ pcbs' = Append(pcbs, in) /\ state' = Append(state, "READY")
      /\ isKilled' = Append(isKilled, no) /\ executed' = Append(executed, 0)
      /\ remaining' = Append(remaining, in.burst)
      /\ ioRemaining' = Append(ioRemaining, 0) /\ justStarted' = Append(justStarted, no)
      /\ completion' = Append(completion, 0) /\ ioSince' = Append(ioSince, -1)
  BY DEF handleProcessInput
<1>3. "READY" \in States /\ no \in BOOLEAN /\ 0 \in Nat /\ -1 \in Int
  BY DEF States
<1>4. /\ pcbs \in [1 .. n -> PcbInputs] /\ state \in [1 .. n -> States]
      /\ isKilled \in [1 .. n -> BOOLEAN] /\ justStarted \in [1 .. n -> BOOLEAN]
      /\ executed \in [1 .. n -> Nat] /\ remaining \in [1 .. n -> Int]
      /\ ioRemaining \in [1 .. n -> Nat] /\ completion \in [1 .. n -> Nat]
      /\ ioSince \in [1 .. n -> Int]
  <2>1. pcbs \in Seq(PcbInputs)
    BY DEF TypeOK
  <2>2. pcbs \in [1 .. n -> PcbInputs]
    BY ONLY <2>1 DEF n
  <2> QED
    BY <1>1, <2>2 DEF TypeOK
<1> HIDE DEF n, no
<1>5. /\ pcbs'[n + 1] = in /\ pcbs' \in [1 .. n + 1 -> PcbInputs]
      /\ \A p \in 1 .. n : pcbs'[p] = pcbs[p]
  <2>1. /\ Append(pcbs, in) \in [1 .. n + 1 -> PcbInputs] /\ Append(pcbs, in)[n + 1] = in
        /\ \A p \in 1 .. n : Append(pcbs, in)[p] = pcbs[p]
    <3>1. n \in Nat /\ pcbs \in [1 .. n -> PcbInputs] /\ in \in PcbInputs
      BY <1>1, <1>4
    <3> QED
      BY ONLY <3>1, AppendValue
  <2> QED
    BY <1>2, <2>1
<1>6. state'[n + 1] = "READY" /\ \A p \in 1 .. n : state'[p] = state[p]
  BY <1>1, <1>2, <1>3, <1>4, AppendValue
<1>7. isKilled'[n + 1] = no /\ \A p \in 1 .. n : isKilled'[p] = isKilled[p]
  BY <1>1, <1>2, <1>3, <1>4, AppendValue
<1>8. executed'[n + 1] = 0 /\ \A p \in 1 .. n : executed'[p] = executed[p]
  BY <1>1, <1>2, <1>3, <1>4, AppendValue
<1>9. remaining'[n + 1] = in.burst /\ \A p \in 1 .. n : remaining'[p] = remaining[p]
  BY <1>1, <1>2, <1>3, <1>4, AppendValue
<1>10. \A p \in 1 .. n : ioRemaining'[p] = ioRemaining[p]
  BY <1>1, <1>2, <1>3, <1>4, AppendValue
<1>11. \A p \in 1 .. n : justStarted'[p] = justStarted[p]
  BY <1>1, <1>2, <1>3, <1>4, AppendValue
<1>12. \A p \in 1 .. n : completion'[p] = completion[p]
  BY <1>1, <1>2, <1>3, <1>4, AppendValue
<1>13. ioSince'[n + 1] = -1 /\ \A p \in 1 .. n : ioSince'[p] = ioSince[p]
  BY <1>1, <1>2, <1>3, <1>4, AppendValue
<1>14. Processes' = 1 .. n + 1 /\ 1 .. n + 1 = (1 .. n) \cup {n + 1}
  BY <1>1, <1>5 DEF Processes
<1>15. ~isKilled'[n + 1]
  BY <1>7 DEF no
<1> QED
  BY <1>1, <1>5, <1>6, <1>7, <1>8, <1>9, <1>10, <1>11, <1>12, <1>13, <1>14, <1>15 DEF n

\* A process that is entered is ready.
LEMMA PlacedProcess ==
  ASSUME TypeOK, Placed, NEW in \in PcbInputs, handleProcessInput(in)
  PROVE  Placed'
<1>0. Len(pcbs) + 1 \in Nat
  BY Typed
<1> PICK m \in Nat : m = Len(pcbs) + 1
  BY <1>0
<1>1. m \in Nat /\ m \notin Processes /\ m # running /\ Processes \subseteq Nat
  <2>1. m \notin Processes /\ Processes \subseteq Nat
    BY Typed
  <2>2. running \in Processes \cup {NoProcess}
    BY DEF TypeOK
  <2> QED
    BY <2>1, <2>2, NoProcessAssumption
<1>2. /\ Added(readyQueue, readyQueue', lost, lost', m)
      /\ UNCHANGED <<waitingQueue, terminatedQueue, running>>
  BY EnteredQueue DEF handleProcessInput
<1>3. /\ Processes' = Processes \cup {m} /\ state'[m] = "READY" /\ ~isKilled'[m]
      /\ \A p \in Processes : pcbs'[p] = pcbs[p] /\ state'[p] = state[p] /\ isKilled'[p] = isKilled[p]
  BY EnteredFacts
<1>4. ASSUME NEW p
      PROVE  /\ Count(readyQueue', p) = Count(readyQueue, p) + (IF m = p /\ m \notin lost' THEN 1 ELSE 0)
             /\ p # m => (p \in lost' <=> p \in lost)
  <2> DEFINE S == Nat
  <2>1. readyQueue \in Seq(S) /\ m \in S
    BY <1>1, SeqSubset DEF TypeOK
  <2>2. Added(readyQueue, readyQueue', lost, lost', m)
    BY <1>2
  <2> HIDE DEF S
  <2>3. /\ \A x : x # m => (x \in lost' <=> x \in lost)
        /\ \A x : Count(readyQueue', x) = Count(readyQueue, x) + (IF m = x /\ m \notin lost' THEN 1 ELSE 0)
    BY ONLY <2>1, <2>2, AddedFacts
  <2> QED
    BY <2>3
<1>5. /\ \A p : Count(readyQueue, p) \in Nat /\ Count(waitingQueue, p) \in Nat
             /\ Count(terminatedQueue, p) \in Nat /\ OnCpu(p) \in 0 .. 1
      /\ \A p : OnCpu(p)' = OnCpu(p)
  BY <1>2, Counted DEF OnCpu
<1>6. ASSUME NEW p \in Processes PROVE PlacedAt(p)'
  <2>1. PlacedAt(p) /\ p # m
    BY <1>1 DEF Placed
  <2>2. HitByNamesake(p) => HitByNamesake(p)'
    BY <1>1, <1>3 DEF HitByNamesake
  <2>3. Count(readyQueue', p) = Count(readyQueue, p) /\ (p \in lost' <=> p \in lost)
    BY <1>4, <1>5, <2>1
  <2>4. Spots(p)' = Spots(p)
    BY <1>2, <1>5, <2>3 DEF Spots
  <2> QED
    BY <1>2, <1>3, <2>1, <2>2, <2>3, <2>4 DEF PlacedAt
<1>7. PlacedAt(m)'
  <2>1. ASSUME NEW q \in Seq(Processes) PROVE Count(q, m) = 0
    <3>1. \A k \in DOMAIN q : q[k] # m
      BY <1>1
    <3> QED
      BY <3>1, CountNat
  <2>2. /\ Count(readyQueue, m) = 0 /\ Count(waitingQueue, m) = 0
        /\ Count(terminatedQueue, m) = 0 /\ OnCpu(m) = 0
    BY <1>1, <2>1 DEF TypeOK, OnCpu
  <2>3. Count(readyQueue', m) = IF m \in lost' THEN 0 ELSE 1
    BY <1>4, <2>2
  <2>4. Spots(m)' = IF m \in lost' THEN 0 ELSE 1
    BY <1>2, <1>5, <2>2, <2>3 DEF Spots
  <2>5. Count(waitingQueue', m) = 0 /\ Count(terminatedQueue', m) = 0 /\ running' # m
    BY <1>1, <1>2, <2>2
  <2> QED
    BY <1>3, <2>3, <2>4, <2>5 DEF PlacedAt
<1> QED
  BY <1>3, <1>6, <1>7 DEF Placed

\* What a KILL that takes effect changes.
LEMMA KillFacts ==
  ASSUME TypeOK, processKillEvent
  PROVE  \/ UNCHANGED <<state, isKilled, completion, queues>>
         \/ \E pid \in Pids, p \in Processes :
              /\ pcbs[p].pid = pid /\ ~isKilled[p] /\ state[p] # "COMPLETED"
              /\ state' = [state EXCEPT ![p] = "KILLED"]
              /\ isKilled' = [isKilled EXCEPT ![p] = TRUE]
              /\ completion' = [completion EXCEPT ![p] = currentTime]
              /\ readyQueue' = removeFromQueue(readyQueue, pid)
              /\ waitingQueue' = removeFromQueue(waitingQueue, pid)
              /\ running' = IF running # NoProcess /\ pcbs[running].pid = pid
                            THEN NoProcess ELSE running
              /\ Added(terminatedQueue, terminatedQueue', lost, lost', p)
<1>1. PICK i \in Due :
        LET pid == kills[i].pid
            p   == hashmapGet(pid)
        IN  IF Killable(p)
            THEN /\ state' = [state EXCEPT ![p] = "KILLED"]
                 /\ isKilled' = [isKilled EXCEPT ![p] = TRUE]
                 /\ completion' = [completion EXCEPT ![p] = currentTime]
                 /\ readyQueue' = removeFromQueue(readyQueue, pid)
                 /\ waitingQueue' = removeFromQueue(waitingQueue, pid)
                 /\ running' = IF running # NoProcess /\ pcbs[running].pid = pid
                               THEN NoProcess ELSE running
                 /\ \E failed \in Failures({p}) :
                      /\ terminatedQueue' = enqueue(terminatedQueue, p, failed)
                      /\ lost' = (lost \ {p}) \cup failed
            ELSE UNCHANGED <<state, isKilled, completion, queues>>
  BY DEF processKillEvent, Enqueued
<1> DEFINE pid == kills[i].pid
           p == hashmapGet(pid)
<1>2. pid \in Pids
  <2> DEFINE K == [pid : Pids, time : KillTimes]
  <2>1. i \in DOMAIN kills /\ kills \in Seq(K)
    BY DEF Due, TypeOK
  <2> HIDE DEF K
  <2>2. kills[i] \in K
    BY ONLY <2>1
  <2> QED
    BY <2>2 DEF K
<1>3. CASE Killable(p)
  <2>1. p \in Processes /\ pcbs[p].pid = pid /\ ~isKilled[p] /\ state[p] # "COMPLETED"
    BY <1>3, HashFacts DEF Killable, TypeOK
  <2>2. /\ state' = [state EXCEPT ![p] = "KILLED"]
        /\ isKilled' = [isKilled EXCEPT ![p] = TRUE]
        /\ completion' = [completion EXCEPT ![p] = currentTime]
        /\ readyQueue' = removeFromQueue(readyQueue, pid)
        /\ waitingQueue' = removeFromQueue(waitingQueue, pid)
        /\ running' = IF running # NoProcess /\ pcbs[running].pid = pid
                      THEN NoProcess ELSE running
        /\ Added(terminatedQueue, terminatedQueue', lost, lost', p)
    BY <1>1, <1>3, EnqueueAdds
  <2> HIDE DEF p, pid
  <2> QED
    BY <1>2, <2>1, <2>2
<1> QED
  BY <1>1, <1>3

\* A KILL moves its process to the terminated ones, and can take a namesake out
\* of its queue.
LEMMA PlacedKill ==
  ASSUME TypeOK, Placed, processKillEvent
  PROVE  Placed'
<1>1. pcbs' = pcbs /\ Processes' = Processes
  BY DEF processKillEvent, Processes
<1>2. CASE UNCHANGED <<state, isKilled, completion, queues>>
  BY <1>1, <1>2, PlacedSame
<1>3. ASSUME NEW pid \in Pids, NEW p \in Processes,
             pcbs[p].pid = pid, ~isKilled[p], state[p] # "COMPLETED",
             state' = [state EXCEPT ![p] = "KILLED"],
             isKilled' = [isKilled EXCEPT ![p] = TRUE],
             readyQueue' = removeFromQueue(readyQueue, pid),
             waitingQueue' = removeFromQueue(waitingQueue, pid),
             running' = IF running # NoProcess /\ pcbs[running].pid = pid
                        THEN NoProcess ELSE running,
             Added(terminatedQueue, terminatedQueue', lost, lost', p),
             NEW x \in Processes
      PROVE  PlacedAt(x)'
  <2>1. /\ state \in [Processes -> States] /\ isKilled \in [Processes -> BOOLEAN]
        /\ readyQueue \in Seq(Processes) /\ waitingQueue \in Seq(Processes)
        /\ terminatedQueue \in Seq(Processes) /\ NoProcess \notin Processes
    BY Typed DEF TypeOK
  <2>2. /\ Count(readyQueue', x) <= Count(readyQueue, x)
        /\ pcbs[x].pid # pid => Count(readyQueue', x) = Count(readyQueue, x)
        /\ pcbs[x].pid = pid /\ (\A y \in Processes : pcbs[y].pid = pid => y = x)
             => Count(readyQueue, x) = 0 \/ Count(readyQueue, x) = Count(readyQueue', x) + 1
        /\ readyQueue' \in Seq(Processes)
    BY <1>3, <2>1, RemoveFacts
  <2>3. /\ Count(waitingQueue', x) <= Count(waitingQueue, x)
        /\ pcbs[x].pid # pid => Count(waitingQueue', x) = Count(waitingQueue, x)
        /\ pcbs[x].pid = pid /\ (\A y \in Processes : pcbs[y].pid = pid => y = x)
             => Count(waitingQueue, x) = 0 \/ Count(waitingQueue, x) = Count(waitingQueue', x) + 1
        /\ waitingQueue' \in Seq(Processes)
    BY <1>3, <2>1, RemoveFacts
  <2>4. /\ Count(terminatedQueue', x) =
             Count(terminatedQueue, x) + (IF p = x /\ p \notin lost' THEN 1 ELSE 0)
        /\ x # p => (x \in lost' <=> x \in lost)
    BY <1>3, <2>1, AddedFacts
  <2>5. /\ Count(readyQueue, x) \in Nat /\ Count(waitingQueue, x) \in Nat
        /\ Count(terminatedQueue, x) \in Nat /\ OnCpu(x) \in 0 .. 1
    BY Counted
  <2>6. Count(readyQueue', x) \in Nat /\ Count(waitingQueue', x) \in Nat
    BY <2>2, <2>3, CountNat
  <2>7. /\ isKilled'[p] /\ state'[p] = "KILLED"
        /\ x # p => isKilled'[x] = isKilled[x] /\ state'[x] = state[x]
    BY <1>3, <2>1
  <2>8. OnCpu(x)' = IF pcbs[x].pid = pid THEN 0 ELSE OnCpu(x)
    BY <1>3, <2>1 DEF OnCpu
  <2>9. HitByNamesake(x) => HitByNamesake(x)'
    BY <1>1, <1>3, <2>1 DEF HitByNamesake
  <2>10. PlacedAt(x)
    BY DEF Placed
  <2>11. CASE pcbs[x].pid # pid
    <3>1. x # p
      BY <1>3, <2>11
    <3>2. /\ Count(readyQueue', x) = Count(readyQueue, x)
          /\ Count(waitingQueue', x) = Count(waitingQueue, x)
          /\ Count(terminatedQueue', x) = Count(terminatedQueue, x)
          /\ OnCpu(x)' = OnCpu(x)
      BY <2>2, <2>3, <2>4, <2>5, <2>8, <2>11, <3>1
    <3>3. Spots(x)' = Spots(x)
      BY <3>2 DEF Spots
    <3>4. running' = x => running = x
      BY <1>3, <2>1
    <3> QED
      BY <2>4, <2>7, <2>9, <2>10, <3>1, <3>2, <3>3, <3>4 DEF PlacedAt
  <2>12. CASE pcbs[x].pid = pid /\ x # p
    <3>1. HitByNamesake(x)'
      BY <1>1, <1>3, <2>7, <2>12 DEF HitByNamesake
    <3>2. OnCpu(x)' = 0 /\ running' # x
      BY <1>3, <2>1, <2>8, <2>12
    <3>3. Count(terminatedQueue', x) = Count(terminatedQueue, x)
      BY <2>4, <2>5, <2>12
    <3>4. /\ Spots(x) = Count(readyQueue, x) + Count(waitingQueue, x) + Count(terminatedQueue, x) + OnCpu(x)
          /\ Spots(x)' = Count(readyQueue', x) + Count(waitingQueue', x) + Count(terminatedQueue, x)
      BY <2>5, <2>6, <3>2, <3>3 DEF Spots
    <3>5. Spots(x)' <= Spots(x) /\ Spots(x) \in Nat /\ Spots(x)' \in Nat
      <4>1. Count(readyQueue', x) <= Count(readyQueue, x) /\ Count(waitingQueue', x) <= Count(waitingQueue, x)
        BY <2>2, <2>3
      <4> QED
        BY ONLY <2>5, <2>6, <3>4, <4>1
    <3>6. /\ Count(readyQueue', x) > 0 => Count(readyQueue, x) > 0
          /\ Count(waitingQueue', x) > 0 => Count(waitingQueue, x) > 0
      BY <2>2, <2>3, <2>5, <2>6
    <3>7. ~isKilled[x] => Spots(x)' <= 1
      BY <2>10, <3>5 DEF PlacedAt
    <3> QED
      BY <2>7, <2>10, <2>12, <3>1, <3>2, <3>3, <3>6, <3>7 DEF PlacedAt
  <2>13. CASE x = p
    <3>1. running' # p
      BY <1>3, <2>1
    <3>2. ASSUME ~HitByNamesake(p)'
          PROVE  /\ Spots(p)' = IF p \in lost' THEN 0 ELSE 1
                 /\ p \notin lost' => Count(terminatedQueue', p) = 1
      <4>1. \A y \in Processes : pcbs[y].pid = pid => y = p
        BY <1>1, <1>3, <2>7, <3>2 DEF HitByNamesake
      <4>2. Spots(p) \in 0 .. 1 /\ Count(terminatedQueue, p) = 0
        <5>1. Spots(p) \in 0 .. 1
          BY <2>9, <2>10, <2>13, <3>2 DEF PlacedAt
        <5>2. ~(Count(terminatedQueue, p) > 0)
          BY <1>3, <2>10, <2>13 DEF PlacedAt
        <5> QED
          BY <2>5, <2>13, <5>1, <5>2
      <4>3. Count(readyQueue, p) + Count(waitingQueue, p) + OnCpu(p) \in 0 .. 1
        BY <2>5, <2>13, <4>2 DEF Spots
      <4>4. Count(readyQueue, p) <= 1 /\ Count(waitingQueue, p) <= 1
        BY <2>5, <2>13, <4>3
      <4>5. Count(readyQueue', p) = 0
        BY <1>3, <2>2, <2>5, <2>6, <2>13, <4>1, <4>4
      <4>6. Count(waitingQueue', p) = 0
        BY <1>3, <2>3, <2>5, <2>6, <2>13, <4>1, <4>4
      <4>7. Count(terminatedQueue', p) = (IF p \in lost' THEN 0 ELSE 1) /\ OnCpu(p)' = 0
        BY <1>3, <2>4, <2>8, <2>13, <4>2
      <4> QED
        BY <4>5, <4>6, <4>7 DEF Spots
    <3> QED
      BY <2>7, <2>13, <3>1, <3>2 DEF PlacedAt
  <2> QED
    BY <2>11, <2>12, <2>13
<1>4. CASE \A x \in Processes : PlacedAt(x)'
  BY <1>1, <1>4 DEF Placed
<1> QED
  BY <1>2, <1>3, <1>4, KillFacts

\* What the dispatcher changes: nothing, or it takes the head of the ready
\* queue.
LEMMA DispatchFacts ==
  ASSUME TypeOK, dispatchProcess
  PROVE  \/ UNCHANGED <<state, queues>> /\ (running # NoProcess \/ readyQueue = <<>>)
         \/ \E p \in Processes :
              /\ running = NoProcess /\ readyQueue # <<>> /\ p = Head(readyQueue)
              /\ readyQueue' = Tail(readyQueue) /\ waitingQueue' = waitingQueue
              /\ \A x : Count(readyQueue, x) = Count(readyQueue', x) + (IF p = x THEN 1 ELSE 0)
              /\ \/ /\ ~isKilled[p] /\ running' = p
                    /\ UNCHANGED <<terminatedQueue, lost>>
                    /\ state' = [state EXCEPT ![p] = "RUNNING"]
                 \/ /\ isKilled[p]
                    /\ \A x : /\ x # p => (x \in lost' <=> x \in lost)
                              /\ Count(terminatedQueue', x) =
                                   Count(terminatedQueue, x) + (IF p = x /\ p \notin lost' THEN 1 ELSE 0)
                    /\ UNCHANGED <<state, running>>
<1>1. CASE NothingToDispatch
  BY <1>1 DEF NothingToDispatch
<1>2. CASE TakeReady
  <2>1. /\ readyQueue \in Seq(Processes) /\ terminatedQueue \in Seq(Processes)
        /\ running = NoProcess /\ readyQueue # <<>>
        /\ readyQueue' = Tail(readyQueue) /\ waitingQueue' = waitingQueue
    BY <1>2 DEF TakeReady, TypeOK
  <2>2. PICK p \in Processes : p = Head(readyQueue) /\ (RunNext(p) \/ Discard(p))
    BY <1>2, <2>1 DEF TakeReady
  <2>3. \A x : Count(readyQueue, x) = Count(readyQueue', x) + (IF p = x THEN 1 ELSE 0)
    BY <2>1, <2>2, CountTail
  <2>4. CASE RunNext(p)
    BY <2>1, <2>2, <2>3, <2>4 DEF RunNext
  <2>5. CASE Discard(p)
    <3>1. Added(terminatedQueue, terminatedQueue', lost, lost', p)
      BY <2>5, EnqueueAdds DEF Discard, Enqueued
    <3>2. \A x : /\ x # p => (x \in lost' <=> x \in lost)
                 /\ Count(terminatedQueue', x) =
                      Count(terminatedQueue, x) + (IF p = x /\ p \notin lost' THEN 1 ELSE 0)
      BY <2>1, <3>1, AddedFacts
    <3> QED
      BY <2>1, <2>2, <2>3, <2>5, <3>2 DEF Discard
  <2> QED
    BY <2>2, <2>4, <2>5
<1> QED
  BY <1>1, <1>2 DEF dispatchProcess

\* What the CPU changes of the process that runs and of the queues.
LEMMA CpuFacts ==
  ASSUME TypeOK, executeCPU
  PROVE  /\ running \in Processes /\ phase = "cpu" /\ phase' = "io"
         /\ UNCHANGED <<pcbs, currentTime, kills, isKilled, report, readyQueue>>
         /\ executed' = [executed EXCEPT ![running] = @ + 1]
         /\ remaining' = [remaining EXCEPT ![running] = @ - 1]
         /\ \/ /\ IoStarts(running) /\ running' = NoProcess
               /\ state' = [state EXCEPT ![running] = "WAITING"]
               /\ ioRemaining' = [ioRemaining EXCEPT ![running] = pcbs[running].ioDuration]
               /\ justStarted' = [justStarted EXCEPT ![running] = TRUE]
               /\ ioSince' = [ioSince EXCEPT ![running] = currentTime]
               /\ ToSet(waitingQueue') = ToSet(waitingQueue) \cup ({running} \ lost')
               /\ \A x : /\ x # running => (x \in lost' <=> x \in lost)
                         /\ Count(waitingQueue', x) =
                              Count(waitingQueue, x) + (IF running = x /\ running \notin lost' THEN 1 ELSE 0)
               /\ UNCHANGED <<completion, terminatedQueue>>
            \/ /\ ~IoStarts(running) /\ remaining[running] - 1 <= 0 /\ running' = NoProcess
               /\ state' = [state EXCEPT ![running] = "COMPLETED"]
               /\ completion' = [completion EXCEPT ![running] = currentTime + 1]
               /\ \A x : /\ x # running => (x \in lost' <=> x \in lost)
                         /\ Count(terminatedQueue', x) =
                              Count(terminatedQueue, x) + (IF running = x /\ running \notin lost' THEN 1 ELSE 0)
               /\ UNCHANGED <<ioRemaining, justStarted, ioSince, waitingQueue>>
            \/ /\ ~IoStarts(running) /\ remaining[running] - 1 > 0
               /\ UNCHANGED <<state, ioRemaining, justStarted, completion, ioSince,
                              waitingQueue, terminatedQueue, running, lost>>
<1>1. /\ running \in Processes /\ phase = "cpu" /\ phase' = "io"
      /\ UNCHANGED <<pcbs, currentTime, kills, isKilled, report>>
      /\ executed' = [executed EXCEPT ![running] = @ + 1]
      /\ remaining' = [remaining EXCEPT ![running] = @ - 1]
      /\ StartIo(running) \/ Complete(running) \/ KeepRunning(running)
      /\ waitingQueue \in Seq(Processes) /\ terminatedQueue \in Seq(Processes)
  BY DEF executeCPU, input, TypeOK
<1>2. CASE StartIo(running)
  <2>1. Added(waitingQueue, waitingQueue', lost, lost', running)
    BY <1>2, EnqueueAdds DEF StartIo, Enqueued
  <2>2. \A x : /\ x # running => (x \in lost' <=> x \in lost)
               /\ Count(waitingQueue', x) =
                    Count(waitingQueue, x) + (IF running = x /\ running \notin lost' THEN 1 ELSE 0)
    BY <1>1, <2>1, AddedFacts
  <2>3. ToSet(waitingQueue') = ToSet(waitingQueue) \cup ({running} \ lost')
    <3>1. ToSet(Append(waitingQueue, running)) = ToSet(waitingQueue) \cup {running}
      BY <1>1, AppendMembers
    <3> QED
      BY <2>1, <3>1 DEF Added
  <2> QED
    BY <1>1, <1>2, <2>2, <2>3 DEF StartIo
<1>3. CASE Complete(running)
  <2>1. Added(terminatedQueue, terminatedQueue', lost, lost', running)
    BY <1>3, EnqueueAdds DEF Complete, Enqueued
  <2>2. \A x : /\ x # running => (x \in lost' <=> x \in lost)
               /\ Count(terminatedQueue', x) =
                    Count(terminatedQueue, x) + (IF running = x /\ running \notin lost' THEN 1 ELSE 0)
    BY <1>1, <2>1, AddedFacts
  <2> QED
    BY <1>1, <1>3, <2>2 DEF Complete
<1>4. CASE KeepRunning(running)
  BY <1>1, <1>4 DEF KeepRunning, queues
<1> QED
  BY <1>1, <1>2, <1>3, <1>4

\* The head of the ready queue goes to the CPU, or to the terminated processes
\* if it was killed through a namesake.
LEMMA PlacedDispatch ==
  ASSUME TypeOK, Placed, dispatchProcess
  PROVE  Placed'
<1>1. UNCHANGED <<pcbs, isKilled>> /\ Processes' = Processes
  BY DEF dispatchProcess, input, Processes
<1>2. CASE UNCHANGED <<state, queues>>
  BY <1>1, <1>2, PlacedSame
<1>3. ASSUME NEW p \in Processes,
             running = NoProcess, waitingQueue' = waitingQueue,
             \A x : Count(readyQueue, x) = Count(readyQueue', x) + (IF p = x THEN 1 ELSE 0),
             \/ /\ ~isKilled[p] /\ running' = p
                /\ UNCHANGED <<terminatedQueue, lost>>
                /\ state' = [state EXCEPT ![p] = "RUNNING"]
             \/ /\ isKilled[p]
                /\ \A x : /\ x # p => (x \in lost' <=> x \in lost)
                          /\ Count(terminatedQueue', x) =
                               Count(terminatedQueue, x) + (IF p = x /\ p \notin lost' THEN 1 ELSE 0)
                /\ UNCHANGED <<state, running>>,
             NEW x \in Processes
      PROVE  PlacedAt(x)'
  <2>1. /\ state \in [Processes -> States] /\ NoProcess \notin Processes /\ PlacedAt(x)
    BY Typed DEF TypeOK, Placed
  <2>2. HitByNamesake(x)' = HitByNamesake(x)
    BY <1>1 DEF HitByNamesake
  <2>3. /\ Count(readyQueue, x) \in Nat /\ Count(waitingQueue, x) \in Nat
        /\ Count(terminatedQueue, x) \in Nat /\ OnCpu(x) = 0
        /\ Count(readyQueue, x) = Count(readyQueue', x) + (IF p = x THEN 1 ELSE 0)
        /\ Count(waitingQueue', x) = Count(waitingQueue, x)
    BY <1>3, <2>1, Counted DEF OnCpu
  <2>4. Count(readyQueue', x) \in Nat
    <3>1. readyQueue' \in Seq(Processes')
      BY TypeDispatch DEF TypeOK
    <3> QED
      BY <3>1, CountNat
  <2>5. CASE p # x
    <3>1. /\ Count(readyQueue', x) = Count(readyQueue, x)
          /\ Count(terminatedQueue', x) = Count(terminatedQueue, x)
          /\ OnCpu(x)' = OnCpu(x) /\ running' # x /\ state'[x] = state[x]
          /\ x \in lost' <=> x \in lost
      BY <1>3, <2>1, <2>3, <2>4, <2>5 DEF OnCpu
    <3>2. Spots(x)' = Spots(x)
      BY <2>3, <3>1 DEF Spots
    <3> QED
      BY <1>1, <2>1, <2>2, <2>3, <3>1, <3>2 DEF PlacedAt
  <2>6. CASE p = x /\ ~isKilled[x]
    <3>1. Spots(x) = 1 /\ Count(readyQueue, x) = 1 /\ Count(waitingQueue, x) = 0 /\ Count(terminatedQueue, x) = 0
      BY <2>1, <2>3, <2>4, <2>6 DEF PlacedAt, Spots
    <3>2. /\ Count(readyQueue', x) = 0 /\ Count(waitingQueue', x) = 0
          /\ UNCHANGED <<terminatedQueue, lost>> /\ OnCpu(x)' = 1
          /\ running' = x /\ state'[x] = "RUNNING"
      BY <1>3, <2>1, <2>3, <2>4, <2>6, <3>1 DEF OnCpu
    <3>3. Spots(x)' = 1 /\ Count(terminatedQueue', x) = 0
      BY <3>1, <3>2 DEF Spots
    <3>4. HitByNamesake(x)' \/ x \notin lost
      BY <2>1, <2>2, <3>1 DEF PlacedAt
    <3> QED
      BY <1>1, <2>1, <2>6, <3>2, <3>3, <3>4 DEF PlacedAt
  <2>7. CASE p = x /\ isKilled[x]
    <3>1. HitByNamesake(x)
      BY <2>1, <2>3, <2>4, <2>7 DEF PlacedAt, Spots
    <3> QED
      BY <1>1, <1>3, <2>1, <2>2, <2>7, <3>1 DEF PlacedAt
  <2> QED
    BY <2>5, <2>6, <2>7
<1>4. CASE \A x \in Processes : PlacedAt(x)'
  BY <1>1, <1>4 DEF Placed
<1> QED
  BY <1>2, <1>3, <1>4, DispatchFacts

\* A process leaves the CPU for its I/O or for good.
LEMMA PlacedCpu ==
  ASSUME TypeOK, Placed, executeCPU
  PROVE  Placed'
<1>1. /\ running \in Processes /\ UNCHANGED <<pcbs, isKilled, readyQueue>> /\ Processes' = Processes
      /\ \/ /\ running' = NoProcess
            /\ state' = [state EXCEPT ![running] = "WAITING"]
            /\ \A x : /\ x # running => (x \in lost' <=> x \in lost)
                      /\ Count(waitingQueue', x) =
                           Count(waitingQueue, x) + (IF running = x /\ running \notin lost' THEN 1 ELSE 0)
            /\ UNCHANGED <<terminatedQueue>>
         \/ /\ running' = NoProcess
            /\ state' = [state EXCEPT ![running] = "COMPLETED"]
            /\ \A x : /\ x # running => (x \in lost' <=> x \in lost)
                      /\ Count(terminatedQueue', x) =
                           Count(terminatedQueue, x) + (IF running = x /\ running \notin lost' THEN 1 ELSE 0)
            /\ UNCHANGED <<waitingQueue>>
         \/ UNCHANGED <<state, waitingQueue, terminatedQueue, running, lost>>
  BY CpuFacts DEF Processes
<1>2. CASE UNCHANGED <<state, waitingQueue, terminatedQueue, running, lost>>
  BY <1>1, <1>2, PlacedSame DEF queues
<1>3. ASSUME running' = NoProcess, NEW x \in Processes,
             x # running => (x \in lost' <=> x \in lost),
             \/ /\ state' = [state EXCEPT ![running] = "WAITING"]
                /\ Count(waitingQueue', x) =
                     Count(waitingQueue, x) + (IF running = x /\ running \notin lost' THEN 1 ELSE 0)
                /\ UNCHANGED <<terminatedQueue>>
             \/ /\ state' = [state EXCEPT ![running] = "COMPLETED"]
                /\ Count(terminatedQueue', x) =
                     Count(terminatedQueue, x) + (IF running = x /\ running \notin lost' THEN 1 ELSE 0)
                /\ UNCHANGED <<waitingQueue>>
      PROVE  PlacedAt(x)'
  <2>1. state \in [Processes -> States] /\ NoProcess \notin Processes /\ PlacedAt(x)
    BY Typed DEF TypeOK, Placed
  <2>2. HitByNamesake(x)' = HitByNamesake(x)
    BY <1>1 DEF HitByNamesake
  <2>3. /\ Count(readyQueue, x) \in Nat /\ Count(waitingQueue, x) \in Nat
        /\ Count(terminatedQueue, x) \in Nat
    BY Counted
  <2>4. OnCpu(x)' = 0 /\ running' # x
    BY <1>3, <2>1 DEF OnCpu
  <2>5. CASE running # x
    <3>1. OnCpu(x) = 0 /\ state'[x] = state[x] /\ (x \in lost' <=> x \in lost)
      BY <1>1, <1>3, <2>1, <2>5 DEF OnCpu
    <3>2. Count(waitingQueue', x) = Count(waitingQueue, x) /\ Count(terminatedQueue', x) = Count(terminatedQueue, x)
      BY <1>3, <2>3, <2>5
    <3>3. Spots(x)' = Spots(x)
      BY <1>1, <2>4, <3>1, <3>2 DEF Spots
    <3> QED
      BY <1>1, <2>1, <2>2, <2>4, <3>1, <3>2, <3>3 DEF PlacedAt
  <2>6. CASE running = x
    <3>1. ~isKilled[x] /\ state[x] = "RUNNING" /\ OnCpu(x) = 1
      BY <2>1, <2>6 DEF PlacedAt, OnCpu
    <3>2. /\ Count(readyQueue, x) = 0 /\ Count(waitingQueue, x) = 0 /\ Count(terminatedQueue, x) = 0
      BY <2>1, <2>3, <3>1 DEF PlacedAt, Spots
    <3> DEFINE one == IF x \in lost' THEN 0 ELSE 1
    <3>3. \/ state'[x] = "WAITING" /\ Count(waitingQueue', x) = one /\ Count(terminatedQueue', x) = 0
          \/ state'[x] = "COMPLETED" /\ Count(waitingQueue', x) = 0 /\ Count(terminatedQueue', x) = one
      BY <1>3, <2>1, <2>6, <3>2
    <3>4. Spots(x)' = one
      BY <1>1, <2>4, <3>2, <3>3 DEF Spots
    <3> QED
      BY <1>1, <2>4, <3>1, <3>2, <3>3, <3>4 DEF PlacedAt
  <2> QED
    BY <2>5, <2>6
<1>4. CASE \A x \in Processes : PlacedAt(x)'
  BY <1>1, <1>4 DEF Placed
<1> QED
  BY <1>1, <1>2, <1>3, <1>4

\* A process whose I/O is over goes back to the ready queue.
LEMMA PlacedIo ==
  ASSUME TypeOK, Placed, handleInputOutputTime
  PROVE  Placed'
<1> DEFINE waiting == ToSet(waitingQueue)
           awake   == {p \in waiting : IoLeft(p) = 0 /\ ~isKilled[p]}
           asleep  == {p \in waiting : IoLeft(p) # 0}
<1>1. /\ Processes' = Processes /\ UNCHANGED <<pcbs, isKilled, terminatedQueue, running>>
      /\ state' = [p \in Processes |-> IF p \in awake THEN "READY" ELSE state[p]]
      /\ \A p \in Processes :
           /\ p \notin awake => (p \in lost' <=> p \in lost)
           /\ Count(readyQueue', p) =
                Count(readyQueue, p) + (IF p \in awake \ lost' THEN Count(waitingQueue, p) ELSE 0)
           /\ Count(waitingQueue', p) = IF p \in asleep THEN Count(waitingQueue, p) ELSE 0
  BY IoFacts DEF input
<1>2. \A x : x \in awake => x \notin asleep /\ ~isKilled[x] /\ x \in waiting
  OBVIOUS
<1>3. \A x \in waiting : x \notin awake /\ x \notin asleep => isKilled[x]
  OBVIOUS
<1>4. \A x : x \in asleep => x \in waiting
  OBVIOUS
<1> HIDE DEF waiting, awake, asleep
<1>5. ASSUME NEW x \in Processes PROVE PlacedAt(x)'
  <2>1. PlacedAt(x)
    BY DEF Placed
  <2>2. HitByNamesake(x)' = HitByNamesake(x)
    BY <1>1 DEF HitByNamesake
  <2>3. /\ Count(readyQueue, x) \in Nat /\ Count(waitingQueue, x) \in Nat
        /\ Count(terminatedQueue, x) \in Nat /\ OnCpu(x) \in 0 .. 1
        /\ x \in waiting <=> Count(waitingQueue, x) > 0
    BY Counted DEF waiting
  <2>4. OnCpu(x)' = OnCpu(x)
    BY <1>1 DEF OnCpu
  <2>5. CASE x \in asleep \/ x \notin waiting
    <3>1. /\ Count(readyQueue', x) = Count(readyQueue, x)
          /\ Count(waitingQueue', x) = Count(waitingQueue, x) /\ state'[x] = state[x]
          /\ x \in lost' <=> x \in lost
      BY <1>1, <1>2, <1>4, <2>3, <2>5
    <3>2. Spots(x)' = Spots(x)
      BY <1>1, <2>4, <3>1 DEF Spots
    <3> QED
      BY <1>1, <2>1, <2>2, <3>1, <3>2 DEF PlacedAt
  <2>6. CASE x \in awake
    <3>1. ~isKilled[x] /\ Count(waitingQueue, x) > 0
      BY <1>2, <2>3, <2>6
    <3>2. /\ Count(readyQueue, x) = 0 /\ Count(waitingQueue, x) = 1
          /\ Count(terminatedQueue, x) = 0 /\ OnCpu(x) = 0
      BY <2>1, <2>3, <3>1 DEF PlacedAt, Spots
    <3>3. /\ Count(readyQueue', x) = IF x \in lost' THEN 0 ELSE 1
          /\ Count(waitingQueue', x) = 0 /\ state'[x] = "READY"
      BY <1>1, <1>2, <2>6, <3>2
    <3>4. Spots(x)' = IF x \in lost' THEN 0 ELSE 1
      BY <1>1, <2>4, <3>2, <3>3 DEF Spots
    <3>5. running' # x
      BY <1>1, <3>2 DEF OnCpu
    <3> QED
      BY <1>1, <3>1, <3>2, <3>3, <3>4, <3>5, <2>1 DEF PlacedAt
  <2>7. CASE x \in waiting /\ x \notin awake /\ x \notin asleep
    <3>1. isKilled[x] /\ Count(waitingQueue, x) > 0
      BY <1>3, <2>3, <2>7
    <3>2. HitByNamesake(x)
      BY <2>1, <2>3, <3>1 DEF PlacedAt, Spots
    <3>3. state'[x] = state[x]
      BY <1>1, <2>7
    <3> QED
      BY <1>1, <2>1, <2>2, <3>1, <3>2, <3>3 DEF PlacedAt
  <2> QED
    BY <2>5, <2>6, <2>7
<1> QED
  BY <1>1, <1>5 DEF Placed

\* Every step keeps the places right.
LEMMA PlacedNext == TypeOK /\ Placed /\ [Next]_vars => Placed'
<1> SUFFICES ASSUME TypeOK, Placed, [Next]_vars PROVE Placed'
  OBVIOUS
<1>1. ASSUME NEW event \in [pid : Pids, time : KillTimes], addKillEvent(event) PROVE Placed'
  BY <1>1, PlacedSame DEF addKillEvent
<1>2. CASE EndOfInput \/ Loop \/ KillsDone \/ Idle
  BY <1>2, PlacedSame DEF EndOfInput, Loop, KillsDone, Idle, input
<1>3. CASE printFinalReport
  BY <1>3, PlacedSame DEF printFinalReport, input
<1>4. CASE UNCHANGED vars
  BY <1>4, PlacedSame DEF vars, input
<1> QED
  BY <1>1, <1>2, <1>3, <1>4, PlacedProcess, PlacedKill, PlacedDispatch, PlacedCpu, PlacedIo
  DEF Next, Tick

\* The list of processes is empty at first.
LEMMA PlacedInit == Init => Placed
BY DEF Init, Placed, Processes

\* Where a process is follows from what the queues count.
LEMMA PlacedIsOnePlace == TypeOK /\ Placed => OnePlace
<1> SUFFICES ASSUME TypeOK, Placed, NEW p \in Processes, ~HitByNamesake(p)
             PROVE  /\ Places(p) = IF p \in lost THEN 0 ELSE 1
                    /\ state[p] = "RUNNING" <=> running = p
                    /\ state[p] = "KILLED" <=> isKilled[p]
                    /\ p \notin lost =>
                         /\ state[p] = "READY" <=> Occurrences(readyQueue, p) = 1
                         /\ state[p] = "WAITING" <=> Occurrences(waitingQueue, p) = 1
  BY DEF OnePlace
<1>1. /\ Occurrences(readyQueue, p) = Count(readyQueue, p)
      /\ Occurrences(waitingQueue, p) = Count(waitingQueue, p)
      /\ Occurrences(terminatedQueue, p) = Count(terminatedQueue, p)
      /\ Places(p) = Spots(p)
  BY OccurrencesCount DEF Places, Spots, OnCpu
<1>2. /\ Count(readyQueue, p) \in Nat /\ Count(waitingQueue, p) \in Nat
      /\ Count(terminatedQueue, p) \in Nat /\ OnCpu(p) \in 0 .. 1
      /\ running = p <=> OnCpu(p) = 1
  BY Counted DEF OnCpu
<1>3. PlacedAt(p) /\ state[p] \in States
  BY DEF Placed, TypeOK
<1>4. Spots(p) = Count(readyQueue, p) + Count(waitingQueue, p) + Count(terminatedQueue, p) + OnCpu(p)
  BY DEF Spots
<1>5. Spots(p) = IF p \in lost THEN 0 ELSE 1
  BY <1>3 DEF PlacedAt
<1>8. CASE p \in lost
  <2>1. state[p] # "RUNNING" /\ running # p
    BY <1>2, <1>3, <1>4, <1>5, <1>8 DEF PlacedAt
  <2>2. state[p] = "KILLED" <=> isKilled[p]
    BY <1>3 DEF PlacedAt
  <2> QED
    BY <1>1, <1>5, <1>8, <2>1, <2>2
<1>6. CASE p \notin lost /\ isKilled[p]
  <2>1. state[p] = "KILLED" /\ Count(terminatedQueue, p) = 1
    BY <1>3, <1>6 DEF PlacedAt
  <2>2. Count(readyQueue, p) = 0 /\ Count(waitingQueue, p) = 0 /\ OnCpu(p) = 0
    BY <1>2, <1>4, <1>5, <2>1
  <2> QED
    BY <1>1, <1>2, <1>5, <1>6, <2>1, <2>2
<1>7. CASE p \notin lost /\ ~isKilled[p]
  <2>1. /\ state[p] # "KILLED" /\ (running = p => state[p] = "RUNNING")
        /\ Count(readyQueue, p) > 0 => state[p] = "READY"
        /\ Count(waitingQueue, p) > 0 => state[p] = "WAITING"
        /\ Count(terminatedQueue, p) > 0 => state[p] = "COMPLETED"
    BY <1>3, <1>7 DEF PlacedAt
  <2>5. Spots(p) = 1
    BY <1>5, <1>7
  <2>2. \/ Count(readyQueue, p) = 1 /\ Count(waitingQueue, p) = 0 /\ OnCpu(p) = 0
        \/ Count(readyQueue, p) = 0 /\ Count(waitingQueue, p) = 1 /\ OnCpu(p) = 0
        \/ Count(readyQueue, p) = 0 /\ Count(waitingQueue, p) = 0 /\ OnCpu(p) = 1
        \/ /\ Count(readyQueue, p) = 0 /\ Count(waitingQueue, p) = 0 /\ OnCpu(p) = 0
           /\ Count(terminatedQueue, p) = 1
    BY <1>2, <1>4, <2>5
  <2>3. Places(p) = 1 /\ ~(state[p] = "KILLED") /\ ~isKilled[p]
    BY <1>1, <1>5, <1>7, <2>1
  <2>4. /\ state[p] = "RUNNING" <=> running = p
        /\ state[p] = "READY" <=> Count(readyQueue, p) = 1
        /\ state[p] = "WAITING" <=> Count(waitingQueue, p) = 1
    BY ONLY <1>2, <2>1, <2>2
  <2> QED
    BY <1>1, <1>7, <2>3, <2>4
<1> QED
  BY <1>6, <1>7, <1>8

(***************************************************************************)
(* A process is never in two places; it is in none only after a KILL of    *)
(* another process with its id, or after an enqueue that found no memory   *)
(* for its node, and then not on the CPU.                                  *)
(***************************************************************************)
THEOREM EveryProcessHasOnePlace == Spec => []OnePlace
BY PlacedIsOnePlace, TypeInit, TypeNext, PlacedInit, PlacedNext, PTL DEF Spec

\* A killed process is in the ready queue only after the KILL of a namesake, so
\* that with distinct ids the dispatcher never wastes a tick.
LEMMA WorkConservingNext == TypeOK /\ Placed /\ WorkConserving /\ [Next]_vars => WorkConserving'
<1> SUFFICES ASSUME TypeOK, Placed, WorkConserving, [Next]_vars,
                    AllPidsDiffer', phase' = "cpu", running' = NoProcess
             PROVE  readyQueue' = <<>>
  BY DEF WorkConserving
<1>1. CASE dispatchProcess
  <2>1. AllPidsDiffer
    BY <1>1 DEF dispatchProcess, AllPidsDiffer, input, Processes
  <2>2. CASE UNCHANGED <<state, queues>> /\ (running # NoProcess \/ readyQueue = <<>>)
    BY <2>2 DEF queues
  <2>3. ASSUME NEW p \in Processes, readyQueue' \in Seq(Processes),
               Count(readyQueue, p) = Count(readyQueue', p) + 1,
               running' = p \/ isKilled[p]
        PROVE  FALSE
    <3>1. isKilled[p] /\ PlacedAt(p)
      BY <2>3, Typed DEF Placed
    <3>2. ~HitByNamesake(p)
      BY <2>1 DEF AllPidsDiffer, HitByNamesake
    <3>3. Count(readyQueue', p) \in Nat
      BY <2>3, CountNat
    <3>4. /\ Count(readyQueue, p) \in Nat /\ Count(waitingQueue, p) \in Nat /\ OnCpu(p) \in 0 .. 1
          /\ Count(terminatedQueue, p) \in Nat /\ Count(readyQueue, p) > 0
      BY <2>3, <3>3, Counted
    <3>5. Spots(p) > Count(terminatedQueue, p)
      BY <3>4 DEF Spots
    <3> QED
      BY <3>1, <3>2, <3>4, <3>5 DEF PlacedAt
  <2>4. readyQueue' \in Seq(Processes)
    BY <1>1, TypeDispatch DEF TypeOK, dispatchProcess, input, Processes
  <2> QED
    BY <1>1, <2>2, <2>3, <2>4, DispatchFacts
<1>2. ASSUME phase = "cpu", UNCHANGED <<pcbs, running, readyQueue>>
      PROVE  readyQueue' = <<>>
  BY <1>2 DEF WorkConserving, AllPidsDiffer, Processes
<1>3. CASE UNCHANGED vars
  BY <1>2, <1>3 DEF vars, input, queues
<1>4. ASSUME NEW in \in PcbInputs, handleProcessInput(in) PROVE FALSE
  BY <1>4 DEF handleProcessInput
<1>5. ASSUME NEW event \in [pid : Pids, time : KillTimes], addKillEvent(event) PROVE FALSE
  BY <1>5 DEF addKillEvent
<1>6. CASE EndOfInput \/ Loop \/ KillsDone \/ Idle \/ executeCPU \/ printFinalReport \/ handleInputOutputTime
  BY <1>6 DEF EndOfInput, Loop, KillsDone, Idle, executeCPU, printFinalReport, handleInputOutputTime
<1>7. CASE processKillEvent
  BY <1>7 DEF processKillEvent
<1> QED
  BY <1>1, <1>3, <1>4, <1>5, <1>6, <1>7 DEF Next, Tick

(***************************************************************************)
(* The CPU is idle for a tick only when no process is ready.               *)
(***************************************************************************)
THEOREM CpuIsNotWasted == Spec => []WorkConserving
<1>1. Init => WorkConserving
  BY DEF Init, WorkConserving
<1> QED
  BY <1>1, TypeInit, TypeNext, PlacedInit, PlacedNext, WorkConservingNext, PTL DEF Spec

(***************************************************************************)
(* Time on the CPU and in I/O.                                             *)
(***************************************************************************)
\* The number of ticks the CPU has had: the one at hand counts once executeCPU
\* is through.
Now == IF phase = "io" THEN currentTime + 1 ELSE currentTime

IoTime(p) == IF ioSince[p] >= 0 THEN pcbs[p].ioDuration ELSE 0

\* What remains of the I/O of a process.
IoAt(p) ==
  p \in ToSet(waitingQueue) /\ ~isKilled[p] =>
    IF justStarted[p]
    THEN /\ phase = "io" /\ ioSince[p] = currentTime
         /\ ioRemaining[p] = pcbs[p].ioDuration /\ ioRemaining[p] > 0
    ELSE /\ ioRemaining[p] = ioSince[p] + pcbs[p].ioDuration + 1 - currentTime
         /\ ioRemaining[p] > 0

\* A process that is not through has had less than the CPU it gets, and its time
\* on the CPU and in I/O fits in the time there was.
CpuAt(p) ==
  /\ remaining[p] = pcbs[p].burst - executed[p]
  /\ state[p] \in {"READY", "RUNNING", "WAITING"} => executed[p] < CpuUnits(p)
  /\ state[p] \in {"READY", "RUNNING"} => executed[p] + IoTime(p) <= Now
  /\ state[p] = "COMPLETED" =>
       executed[p] = CpuUnits(p) /\ executed[p] + IoTime(p) <= completion[p] /\ completion[p] <= Now
  /\ state[p] = "WAITING" => ioSince[p] >= 0 /\ executed[p] <= ioSince[p] + 1

Timed == \A p \in Processes : CpuAt(p) /\ IoAt(p)

\* The numbers in it.
LEMMA TimedNumbers ==
  ASSUME TypeOK, NEW p \in Processes
  PROVE  /\ currentTime \in Nat /\ Now \in Nat /\ state[p] \in States
         /\ pcbs[p].burst \in Nat /\ pcbs[p].ioDuration \in Nat /\ pcbs[p].ioStart \in Int
         /\ executed[p] \in Nat /\ remaining[p] \in Int /\ ioRemaining[p] \in Nat
         /\ completion[p] \in Nat /\ ioSince[p] \in Int
         /\ IoTime(p) \in Nat
         /\ CpuUnits(p) \in Nat /\ CpuUnits(p) >= 1 /\ CpuUnits(p) >= pcbs[p].burst
<1>1. /\ currentTime \in Nat /\ executed[p] \in Nat /\ remaining[p] \in Int
      /\ ioRemaining[p] \in Nat /\ completion[p] \in Nat /\ ioSince[p] \in Int /\ state[p] \in States
  BY DEF TypeOK
<1>2. pcbs[p].burst \in Nat /\ pcbs[p].ioDuration \in Nat /\ pcbs[p].ioStart \in Int
  BY Typed
<1>3. Now \in Nat /\ IoTime(p) \in Nat
  BY <1>1, <1>2 DEF Now, IoTime
<1>4. CpuUnits(p) \in Nat /\ CpuUnits(p) >= 1 /\ CpuUnits(p) >= pcbs[p].burst
  BY <1>2 DEF CpuUnits
<1> QED
  BY <1>1, <1>2, <1>3, <1>4

\* A process a step leaves alone keeps its times.
LEMMA TimedSame ==
  ASSUME TypeOK, NEW p \in Processes, CpuAt(p),
         pcbs'[p] = pcbs[p], state'[p] = state[p], executed'[p] = executed[p],
         remaining'[p] = remaining[p], completion'[p] = completion[p], ioSince'[p] = ioSince[p],
         Now <= Now', Now' \in Nat
  PROVE  CpuAt(p)'
<1>1. CpuUnits(p)' = CpuUnits(p) /\ IoTime(p)' = IoTime(p)
  BY DEF CpuUnits, IoTime
<1> QED
  BY <1>1, TimedNumbers DEF CpuAt

\* The initial state has no process.
LEMMA TimedInit == Init => Timed
BY DEF Init, Timed, Processes

\* A process that is entered has had no time.
LEMMA TimedProcess ==
  ASSUME TypeOK, Timed, NEW in \in PcbInputs, handleProcessInput(in)
  PROVE  Timed'
<1>0. Len(pcbs) + 1 \in Nat
  BY Typed
<1> PICK m \in Nat : m = Len(pcbs) + 1
  BY <1>0
<1>1. m \notin Processes /\ TypeOK'
  BY Typed, TypeProcess
<1>2. /\ Processes' = Processes \cup {m} /\ pcbs'[m] = in /\ state'[m] = "READY"
      /\ executed'[m] = 0 /\ remaining'[m] = in.burst /\ ioSince'[m] = -1
      /\ \A p \in Processes :
           /\ pcbs'[p] = pcbs[p] /\ state'[p] = state[p] /\ isKilled'[p] = isKilled[p]
           /\ executed'[p] = executed[p] /\ remaining'[p] = remaining[p]
           /\ ioRemaining'[p] = ioRemaining[p] /\ justStarted'[p] = justStarted[p]
           /\ completion'[p] = completion[p] /\ ioSince'[p] = ioSince[p]
  BY EnteredFacts
<1>3. phase' = phase /\ currentTime' = currentTime /\ waitingQueue' = waitingQueue /\ Now' = Now
  BY DEF handleProcessInput, Now
<1>4. ASSUME NEW p \in Processes PROVE CpuAt(p)' /\ IoAt(p)'
  <2>1. CpuAt(p) /\ IoAt(p) /\ Now \in Nat
    BY TimedNumbers DEF Timed
  <2>2. CpuAt(p)'
    BY <1>2, <1>3, <2>1, TimedSame
  <2>3. IoAt(p)'
    BY <1>2, <1>3, <2>1 DEF IoAt
  <2> QED
    BY <2>2, <2>3
<1>5. CpuAt(m)' /\ IoAt(m)'
  <2>1. m \in Processes'
    BY <1>2
  <2>2. /\ CpuUnits(m)' \in Nat /\ CpuUnits(m)' >= 1 /\ Now' \in Nat
        /\ pcbs'[m].burst \in Nat
    <3>1. in.burst \in BurstTimes
      BY DEF PcbInputs
    <3>2. in.burst \in Nat
      BY <3>1, BurstAssumption
    <3>3. CpuUnits(m)' \in Nat /\ CpuUnits(m)' >= 1
      BY <1>2, <3>2 DEF CpuUnits
    <3>4. Now' \in Nat
      BY <1>3 DEF TypeOK, Now
    <3> QED
      BY <1>2, <3>2, <3>3, <3>4
  <2>3. IoTime(m)' = 0
    BY <1>2 DEF IoTime
  <2>4. CpuAt(m)'
    BY <1>2, <2>2, <2>3 DEF CpuAt
  <2>5. m \notin ToSet(waitingQueue)
    BY <1>1 DEF TypeOK, ToSet
  <2> QED
    BY <1>3, <2>4, <2>5 DEF IoAt
<1> QED
  BY <1>2, <1>4, <1>5 DEF Timed

\* The steps that change no process.
LEMMA TimedPhase ==
  ASSUME TypeOK, Timed, TypeOK', UNCHANGED <<pcbs, currentTime, state, isKilled, clocks, waitingQueue>>,
         phase # "io"
  PROVE  Timed'
<1>1. Now <= Now' /\ Now' \in Nat /\ Processes' = Processes
  BY DEF Now, TypeOK, Processes
<1>2. ASSUME NEW p \in Processes PROVE CpuAt(p)' /\ IoAt(p)'
  <2>1. CpuAt(p) /\ IoAt(p)
    BY DEF Timed
  <2>2. CpuAt(p)'
    BY <1>1, <2>1, TimedSame DEF clocks
  <2>3. IoAt(p)'
    BY <2>1 DEF IoAt, clocks
  <2> QED
    BY <2>2, <2>3
<1> QED
  BY <1>1, <1>2 DEF Timed

\* A KILL ends the time of its process.
LEMMA TimedKill ==
  ASSUME TypeOK, Timed, processKillEvent
  PROVE  Timed'
<1>1. /\ phase = "kill" /\ phase' = phase /\ Processes' = Processes
      /\ UNCHANGED <<pcbs, currentTime, executed, remaining, ioRemaining, justStarted, ioSince>>
  BY DEF processKillEvent, Processes
<1>2. CASE UNCHANGED <<state, isKilled, completion, queues>>
  BY <1>1, <1>2, TypeKill, TimedPhase DEF clocks, queues
<1>3. ASSUME NEW pid \in Pids, NEW p \in Processes, NEW x \in Processes,
             state' = [state EXCEPT ![p] = "KILLED"],
             isKilled' = [isKilled EXCEPT ![p] = TRUE],
             completion' = [completion EXCEPT ![p] = currentTime],
             waitingQueue' = removeFromQueue(waitingQueue, pid)
      PROVE  CpuAt(x)' /\ IoAt(x)'
  <2>1. /\ waitingQueue \in Seq(Processes) /\ state \in [Processes -> States]
        /\ isKilled \in [Processes -> BOOLEAN] /\ completion \in [Processes -> Nat]
    BY DEF TypeOK
  <2>2. ToSet(waitingQueue') \subseteq ToSet(waitingQueue)
    BY <1>3, <2>1, RemoveFacts
  <2>3. CpuAt(x) /\ IoAt(x) /\ Now' = Now /\ Now \in Nat
    BY <1>1, TimedNumbers DEF Timed, Now
  <2>4. CASE x # p
    <3>1. state'[x] = state[x] /\ completion'[x] = completion[x] /\ isKilled'[x] = isKilled[x]
      BY <1>3, <2>1, <2>4
    <3>2. CpuAt(x)'
      BY <1>1, <2>3, <3>1, TimedSame
    <3>3. IoAt(x)'
      BY <1>1, <2>2, <2>3, <3>1 DEF IoAt
    <3> QED
      BY <3>2, <3>3
  <2>5. CASE x = p
    <3>1. state'[x] = "KILLED" /\ isKilled'[x]
      BY <1>3, <2>1, <2>5
    <3> QED
      BY <1>1, <2>3, <3>1 DEF CpuAt, IoAt
  <2> QED
    BY <2>4, <2>5
<1>4. CASE \A x \in Processes : CpuAt(x)' /\ IoAt(x)'
  BY <1>1, <1>4 DEF Timed
<1> QED
  BY <1>2, <1>3, <1>4, KillFacts

\* The process that is dispatched was ready.
LEMMA TimedDispatch ==
  ASSUME TypeOK, Placed, Timed, dispatchProcess
  PROVE  Timed'
<1>1. /\ Processes' = Processes /\ phase = "dispatch" /\ phase' = "cpu"
      /\ UNCHANGED <<pcbs, currentTime, isKilled, clocks>> /\ Now' = Now
  BY DEF dispatchProcess, input, Processes, Now
<1>2. \/ UNCHANGED <<state, waitingQueue>>
      \/ \E p \in Processes :
           /\ waitingQueue' = waitingQueue /\ ~isKilled[p]
           /\ Count(readyQueue, p) = Count(readyQueue', p) + 1
           /\ state' = [state EXCEPT ![p] = "RUNNING"]
  BY DispatchFacts DEF queues
<1>3. CASE UNCHANGED <<state, waitingQueue>>
  BY <1>1, <1>3, TypeDispatch, TimedPhase
<1>4. ASSUME NEW p \in Processes, waitingQueue' = waitingQueue, ~isKilled[p],
             Count(readyQueue, p) = Count(readyQueue', p) + 1,
             state' = [state EXCEPT ![p] = "RUNNING"], NEW x \in Processes
      PROVE  CpuAt(x)' /\ IoAt(x)'
  <2>1. CpuAt(x) /\ IoAt(x) /\ Now \in Nat /\ state \in [Processes -> States]
    BY TimedNumbers DEF Timed, TypeOK
  <2>2. IoAt(x)'
    BY <1>1, <1>4, <2>1 DEF IoAt, clocks
  <2>3. CASE x # p
    BY <1>1, <1>4, <2>1, <2>2, <2>3, TimedSame DEF clocks
  <2>4. CASE x = p
    <3>1. Count(readyQueue, p) > 0
      <4>1. readyQueue' \in Seq(Processes)
        BY <1>1, TypeDispatch DEF TypeOK
      <4>2. Count(readyQueue', p) \in Nat
        BY <4>1, CountNat
      <4> QED
        BY <1>4, <4>2
    <3>2. state[p] = "READY" /\ state'[p] = "RUNNING"
      BY <1>4, <2>1, <3>1 DEF Placed, PlacedAt
    <3>3. CpuUnits(p)' = CpuUnits(p) /\ IoTime(p)' = IoTime(p)
      BY <1>1 DEF CpuUnits, IoTime, clocks
    <3> QED
      BY <1>1, <2>1, <2>2, <2>4, <3>2, <3>3 DEF CpuAt, clocks
  <2> QED
    BY <2>3, <2>4
<1>5. CASE \A x \in Processes : CpuAt(x)' /\ IoAt(x)'
  BY <1>1, <1>5 DEF Timed
<1> QED
  BY <1>2, <1>3, <1>4, <1>5

\* A unit of the CPU.
LEMMA TimedCpu ==
  ASSUME TypeOK, Placed, Timed, executeCPU
  PROVE  Timed'
<1>1. /\ running \in Processes /\ phase = "cpu" /\ phase' = "io" /\ Processes' = Processes
      /\ UNCHANGED <<pcbs, currentTime, isKilled>> /\ Now = currentTime /\ Now' = currentTime + 1
      /\ executed' = [executed EXCEPT ![running] = @ + 1]
      /\ remaining' = [remaining EXCEPT ![running] = @ - 1]
  BY CpuFacts DEF Processes, Now
<1>2. /\ executed \in [Processes -> Nat] /\ remaining \in [Processes -> Int]
      /\ state \in [Processes -> States] /\ ioRemaining \in [Processes -> Nat]
      /\ justStarted \in [Processes -> BOOLEAN] /\ ioSince \in [Processes -> Int]
      /\ completion \in [Processes -> Nat] /\ currentTime \in Nat
  BY DEF TypeOK
<1>3. ASSUME NEW x \in Processes, x # running PROVE CpuAt(x)' /\ IoAt(x)'
  <2>1. CpuAt(x) /\ IoAt(x) /\ Now <= Now' /\ Now' \in Nat
    BY <1>1, <1>2 DEF Timed
  <2>2. /\ executed'[x] = executed[x] /\ remaining'[x] = remaining[x] /\ state'[x] = state[x]
        /\ ioRemaining'[x] = ioRemaining[x] /\ justStarted'[x] = justStarted[x]
        /\ ioSince'[x] = ioSince[x] /\ completion'[x] = completion[x]
    BY <1>1, <1>2, <1>3, CpuFacts
  <2>3. x \in ToSet(waitingQueue') => x \in ToSet(waitingQueue)
    BY <1>3, CpuFacts
  <2>4. CpuAt(x)'
    BY <1>1, <2>1, <2>2, TimedSame
  <2>5. IoAt(x)'
    BY <1>1, <2>1, <2>2, <2>3 DEF IoAt
  <2> QED
    BY <2>4, <2>5
<1>4. ASSUME NEW p \in Processes, p = running PROVE CpuAt(p)' /\ IoAt(p)'
  <2> DEFINE e == executed[p]
             b == pcbs[p].burst
             d == pcbs[p].ioDuration
             i == pcbs[p].ioStart
             c == CpuUnits(p)
             t == IoTime(p)
  <2>1. /\ e \in Nat /\ b \in Nat /\ d \in Nat /\ i \in Int /\ t \in Nat
        /\ c \in Nat /\ c >= 1 /\ c >= b
    BY TimedNumbers
  <2>2. state[p] = "RUNNING" /\ CpuAt(p) /\ IoAt(p)
    BY <1>4 DEF Placed, PlacedAt, Timed
  <2>3. remaining[p] = b - e /\ e < c /\ e + t <= currentTime
    BY <1>1, <2>2 DEF CpuAt
  <2>4. executed'[p] = e + 1 /\ remaining'[p] = b - (e + 1)
    BY <1>1, <1>2, <1>4, <2>1, <2>3
  <2>5. CpuUnits(p)' = c /\ pcbs'[p].burst = b
    BY <1>1 DEF CpuUnits
  <2>6. ioSince'[p] = ioSince[p] => IoTime(p)' = t
    BY <1>1 DEF IoTime
  <2>7. IoStarts(p) => e + 1 # c /\ d > 0
    BY <2>1 DEF IoStarts, CpuUnits
  <2>8. e + 1 >= b /\ ~IoStarts(p) => e + 1 >= c
    BY <2>1 DEF IoStarts, CpuUnits
  <2> HIDE DEF e, b, c, t
  <2>9. CASE IoStarts(p)
    <3>1. /\ state'[p] = "WAITING" /\ justStarted'[p] /\ ioRemaining'[p] = d
          /\ ioSince'[p] = currentTime
      BY <1>1, <1>2, <1>4, <2>9, CpuFacts
    <3>2. e + 1 < c /\ d > 0 /\ e + 1 <= currentTime + 1
      BY <1>2, <2>1, <2>3, <2>7, <2>9
    <3>3. CpuAt(p)'
      BY <1>2, <2>4, <2>5, <3>1, <3>2 DEF CpuAt
    <3> QED
      BY <1>1, <3>1, <3>2, <3>3 DEF IoAt
  <2>10. CASE ~IoStarts(p) /\ remaining[p] - 1 <= 0
    <3>1. /\ state'[p] = "COMPLETED" /\ completion'[p] = currentTime + 1
          /\ ioSince'[p] = ioSince[p]
          /\ UNCHANGED <<ioRemaining, justStarted, waitingQueue>>
      BY <1>1, <1>2, <1>4, <2>10, CpuFacts
    <3>2. e + 1 = c
      BY <2>1, <2>3, <2>8, <2>10
    <3>3. CpuAt(p)'
      BY <1>1, <1>2, <2>1, <2>3, <2>4, <2>5, <2>6, <3>1, <3>2 DEF CpuAt
    <3> QED
      BY <1>1, <2>2, <3>1, <3>3 DEF IoAt
  <2>11. CASE ~IoStarts(p) /\ remaining[p] - 1 > 0
    <3>0. remaining[p] \in Int
      BY <1>2
    <3>1. UNCHANGED <<state, completion, ioSince, ioRemaining, justStarted, waitingQueue>>
      <4>1. ~IoStarts(running) /\ ~(remaining[running] - 1 <= 0)
        BY <1>4, <2>11, <3>0
      <4> QED
        BY <4>1, CpuFacts
    <3>2. e + 1 < c
      BY <2>1, <2>3, <2>11
    <3>3. CpuAt(p)'
      BY <1>1, <1>2, <2>1, <2>2, <2>3, <2>4, <2>5, <2>6, <3>1, <3>2 DEF CpuAt
    <3> QED
      BY <1>1, <2>2, <3>1, <3>3 DEF IoAt
  <2>12. remaining[p] - 1 <= 0 \/ remaining[p] - 1 > 0
    <3>1. remaining[p] \in Int
      BY <1>2
    <3> QED
      BY <3>1
  <2> QED
    BY <2>9, <2>10, <2>11, <2>12
<1>5. CASE \A p \in Processes : CpuAt(p)' /\ IoAt(p)'
  BY <1>1, <1>5 DEF Timed
<1> QED
  BY <1>3, <1>4, <1>5

\* A process comes back from its I/O in the tick that makes it complete.
LEMMA BackFromIo ==
  ASSUME TypeOK, Placed, Timed, NEW p \in Processes,
         p \in ToSet(waitingQueue), ~isKilled[p], IoLeft(p) = 0
  PROVE  state[p] = "WAITING" /\ currentTime = ioSince[p] + pcbs[p].ioDuration
<1>1. Count(waitingQueue, p) > 0
  BY Counted
<1>2. state[p] = "WAITING"
  BY <1>1 DEF Placed, PlacedAt
<1>3. /\ currentTime \in Nat /\ ioRemaining[p] \in Nat /\ ioSince[p] \in Int
      /\ pcbs[p].ioDuration \in Nat /\ IoAt(p)
  BY TimedNumbers DEF Timed
<1>4. CASE justStarted[p]
  BY <1>3, <1>4 DEF IoAt, IoLeft
<1>5. CASE ~justStarted[p]
  <2>1. /\ ioRemaining[p] = ioSince[p] + pcbs[p].ioDuration + 1 - currentTime
        /\ ioRemaining[p] > 0 /\ ioRemaining[p] - 1 = 0
    BY <1>3, <1>5 DEF IoAt, IoLeft
  <2> QED
    BY <1>2, <1>3, <2>1
<1> QED
  BY <1>4, <1>5

\* A tick of the I/O.
LEMMA TimedIo ==
  ASSUME TypeOK, Placed, Timed, handleInputOutputTime
  PROVE  Timed'
<1> DEFINE waiting == ToSet(waitingQueue)
           awake   == {p \in waiting : IoLeft(p) = 0 /\ ~isKilled[p]}
           asleep  == {p \in waiting : IoLeft(p) # 0}
<1>1. /\ phase = "io" /\ phase' = "loop" /\ currentTime' = currentTime + 1
      /\ Processes' = Processes /\ UNCHANGED <<pcbs, isKilled, executed, remaining, completion, ioSince>>
      /\ ioRemaining' = [p \in Processes |-> IF p \in waiting THEN IoLeft(p) ELSE ioRemaining[p]]
      /\ justStarted' = [p \in Processes |-> justStarted[p] /\ p \notin waiting]
      /\ state' = [p \in Processes |-> IF p \in awake THEN "READY" ELSE state[p]]
      /\ waitingQueue' \in Seq(Processes)
      /\ \A p \in Processes :
           Count(waitingQueue', p) = IF p \in asleep THEN Count(waitingQueue, p) ELSE 0
  BY IoFacts DEF input
<1>2. \A p : p \in asleep => p \in waiting /\ p \notin awake /\ IoLeft(p) # 0
  OBVIOUS
<1>3. \A p : p \in awake => p \in waiting /\ IoLeft(p) = 0 /\ ~isKilled[p]
  OBVIOUS
<1> HIDE DEF waiting, awake, asleep
<1>4. Now' = Now /\ Now = currentTime + 1
  BY <1>1 DEF Now
<1>5. ASSUME NEW p \in Processes PROVE CpuAt(p)' /\ IoAt(p)'
  <2>1. CpuAt(p) /\ IoAt(p) /\ CpuUnits(p)' = CpuUnits(p) /\ IoTime(p)' = IoTime(p)
    BY <1>1 DEF Timed, CpuUnits, IoTime
  <2>2. /\ currentTime \in Nat /\ Now \in Nat /\ ioRemaining[p] \in Nat /\ ioSince[p] \in Int
        /\ pcbs[p].ioDuration \in Nat /\ executed[p] \in Nat
    BY TimedNumbers
  <2>3. CpuAt(p)'
    <3>1. CASE p \in awake
      <4>1. state[p] = "WAITING" /\ currentTime = ioSince[p] + pcbs[p].ioDuration
        BY <1>3, <3>1, BackFromIo DEF waiting
      <4>2. /\ state'[p] = "READY" /\ executed[p] < CpuUnits(p) /\ ioSince[p] >= 0
            /\ executed[p] <= ioSince[p] + 1 /\ remaining[p] = pcbs[p].burst - executed[p]
        BY <1>1, <2>1, <3>1, <4>1 DEF CpuAt
      <4>3. executed[p] + IoTime(p) <= Now
        BY <1>4, <2>2, <4>1, <4>2 DEF IoTime
      <4> QED
        BY <1>1, <1>4, <2>1, <4>2, <4>3 DEF CpuAt
    <3>2. CASE p \notin awake
      <4>1. state'[p] = state[p] /\ Now <= Now' /\ Now' \in Nat
        BY <1>1, <1>4, <2>2, <3>2
      <4> QED
        BY <1>1, <2>1, <4>1, TimedSame
    <3> QED
      BY <3>1, <3>2
  <2>4. ASSUME p \in ToSet(waitingQueue'), ~isKilled[p]
        PROVE  /\ ~justStarted'[p]
               /\ ioRemaining'[p] = ioSince[p] + pcbs[p].ioDuration + 1 - (currentTime + 1)
               /\ ioRemaining'[p] > 0
    <3>1. p \in asleep
      <4>1. Count(waitingQueue', p) # 0
        BY <1>1, <2>4, CountNat
      <4> QED
        BY <1>1, <4>1
    <3>2. p \in waiting /\ IoLeft(p) # 0
      BY <1>2, <3>1
    <3>3. ioRemaining'[p] = IoLeft(p) /\ ~justStarted'[p]
      BY <1>1, <3>2
    <3>4. CASE justStarted[p]
      <4>1. /\ ioSince[p] = currentTime /\ ioRemaining[p] = pcbs[p].ioDuration
            /\ ioRemaining[p] > 0 /\ IoLeft(p) = ioRemaining[p]
        BY <2>1, <2>4, <3>2, <3>4 DEF IoAt, IoLeft, waiting
      <4> QED
        BY <2>2, <3>3, <4>1
    <3>5. CASE ~justStarted[p]
      <4>1. /\ ioRemaining[p] = ioSince[p] + pcbs[p].ioDuration + 1 - currentTime
            /\ ioRemaining[p] > 0 /\ IoLeft(p) = ioRemaining[p] - 1
        BY <2>1, <2>2, <2>4, <3>2, <3>5 DEF IoAt, IoLeft, waiting
      <4> QED
        BY <2>2, <3>2, <3>3, <4>1
    <3> QED
      BY <3>4, <3>5
  <2>5. IoAt(p)'
    BY <1>1, <2>4 DEF IoAt
  <2> QED
    BY <2>3, <2>5
<1> QED
  BY <1>1, <1>5 DEF Timed

\* Every step keeps the times right.
LEMMA TimedNext == TypeOK /\ Placed /\ Timed /\ [Next]_vars => Timed'
<1> SUFFICES ASSUME TypeOK, Placed, Timed, [Next]_vars PROVE Timed'
  OBVIOUS
<1>1. TypeOK'
  BY TypeNext
<1>2. ASSUME NEW event \in [pid : Pids, time : KillTimes], addKillEvent(event) PROVE Timed'
  BY <1>1, <1>2, TimedPhase DEF addKillEvent, queues
<1>3. CASE EndOfInput \/ Loop \/ KillsDone \/ Idle \/ printFinalReport
  BY <1>1, <1>3, TimedPhase DEF EndOfInput, Loop, KillsDone, Idle, printFinalReport, input, queues
<1>4. CASE UNCHANGED vars
  <2>1. UNCHANGED <<phase, pcbs, currentTime, state, isKilled, clocks, waitingQueue>>
    BY <1>4 DEF vars, input, queues
  <2> QED
    BY <2>1 DEF Timed, CpuAt, IoAt, CpuUnits, IoTime, Now, clocks, Processes
<1> QED
  BY <1>2, <1>3, <1>4, TimedProcess, TimedKill, TimedDispatch, TimedCpu, TimedIo DEF Next, Tick

(***************************************************************************)
(* A completed process has had the CPU units its burst and its I/O make,   *)
(* and its completion time covers them.                                    *)
(***************************************************************************)
THEOREM CompletedHadItsCpu == Spec => []CpuExact
<1>1. TypeOK /\ Timed => CpuExact
  BY TimedNumbers DEF Timed, CpuAt, CpuExact, IoTime
<1> QED
  BY <1>1, TypeInit, TypeNext, PlacedInit, PlacedNext, TimedInit, TimedNext, PTL DEF Spec

\* Only a tick of the I/O makes a waiting process ready.
LEMMA OnlyIoWakes ==
  ASSUME TypeOK, [Next]_vars, NEW p \in Processes,
         state[p] = "WAITING", state'[p] = "READY"
  PROVE  handleInputOutputTime
<1>1. state \in [Processes -> States]
  BY DEF TypeOK
<1>2. ASSUME NEW in \in PcbInputs, handleProcessInput(in) PROVE FALSE
  BY <1>2, EnteredFacts
<1>3. ASSUME processKillEvent PROVE FALSE
  BY <1>1, <1>3, KillFacts
<1>4. ASSUME dispatchProcess PROVE FALSE
  BY <1>1, <1>4, DispatchFacts
<1>5. ASSUME executeCPU PROVE FALSE
  BY <1>1, <1>5, CpuFacts
<1>6. ASSUME UNCHANGED state PROVE FALSE
  BY <1>6
<1>7. ASSUME NEW event \in [pid : Pids, time : KillTimes], addKillEvent(event) PROVE FALSE
  BY <1>6, <1>7 DEF addKillEvent
<1>8. ASSUME EndOfInput \/ Loop \/ KillsDone \/ Idle \/ printFinalReport \/ UNCHANGED vars PROVE FALSE
  BY <1>6, <1>8 DEF EndOfInput, Loop, KillsDone, Idle, printFinalReport, vars
<1> QED
  BY <1>2, <1>3, <1>4, <1>5, <1>7, <1>8 DEF Next, Tick

(***************************************************************************)
(* I/O takes the time the input gives for it, whoever waits with it.       *)
(***************************************************************************)
THEOREM IoIsOnTime == Spec => IoTakesItsTime
<1>1. ASSUME TypeOK, Placed, Timed, [Next]_vars
      PROVE  [\A p \in Processes : state[p] = "WAITING" /\ state'[p] = "READY" =>
                currentTime = ioSince[p] + pcbs[p].ioDuration]_vars
  <2> SUFFICES ASSUME NEW p \in Processes, state[p] = "WAITING", state'[p] = "READY"
               PROVE  currentTime = ioSince[p] + pcbs[p].ioDuration
    OBVIOUS
  <2>1. handleInputOutputTime
    BY <1>1, OnlyIoWakes
  <2>2. p \in ToSet(waitingQueue) /\ ~isKilled[p] /\ IoLeft(p) = 0
    BY <1>1, <2>1, IoFacts
  <2> QED
    BY <1>1, <2>2, BackFromIo
<1> QED
  BY <1>1, TypeInit, TypeNext, PlacedInit, PlacedNext, TimedInit, TimedNext, PTL
  DEF Spec, IoTakesItsTime

(***************************************************************************)
(* KILL commands.                                                          *)
(***************************************************************************)
\* A KILL that is still in the list is for a later time, or never (a negative
\* one), or its turn in this tick has not come.
Pending ==
  /\ phase = "input" => currentTime = 0
  /\ \A k \in ToSet(kills) :
       \/ k.time < 0 \/ k.time > currentTime
       \/ k.time = currentTime /\ phase \notin {"dispatch", "cpu", "io"}

\* No KILL is given at first.
LEMMA PendingInit == Init => Pending
BY DEF Init, Pending, ToSet

\* A KILL leaves the list in its own tick.
LEMMA PendingNext == TypeOK /\ Pending /\ [Next]_vars => Pending'
<1> SUFFICES ASSUME TypeOK, Pending, [Next]_vars PROVE Pending'
  OBVIOUS
<1> DEFINE K == [pid : Pids, time : KillTimes]
<1>1. kills \in Seq(K) /\ currentTime \in Nat
  BY DEF TypeOK
<1>2. \A k \in K : k.time \in Int
  BY KillAssumption
<1> HIDE DEF K
<1>3. \A k \in ToSet(kills) : k.time \in Int
  <2>1. ToSet(kills) \subseteq K
    BY <1>1 DEF ToSet
  <2> QED
    BY <1>2, <2>1
<1>4. ASSUME NEW in \in PcbInputs, handleProcessInput(in) PROVE Pending'
  BY <1>4 DEF handleProcessInput, Pending
<1>5. ASSUME NEW event \in K, addKillEvent(event) PROVE Pending'
  <2>1. ToSet(kills') \subseteq ToSet(kills) \cup {event}
    BY <1>1, <1>5, InsertFacts DEF addKillEvent
  <2>2. phase = "input" /\ phase' = phase /\ currentTime' = currentTime
    BY <1>5 DEF addKillEvent
  <2>3. event.time \in Int
    BY <1>2
  <2> QED
    BY <1>1, <1>3, <2>1, <2>2, <2>3 DEF Pending
<1>6. CASE processKillEvent
  <2>1. PICK i \in Due : kills' = RemoveAt(kills, i)
    BY <1>6 DEF processKillEvent
  <2>2. i \in DOMAIN kills
    BY DEF Due
  <2>3. ToSet(kills') \subseteq ToSet(kills)
    BY <1>1, <2>1, <2>2, RemoveAtMembers
  <2>4. phase = "kill" /\ phase' = phase /\ currentTime' = currentTime
    BY <1>6 DEF processKillEvent
  <2> QED
    BY <2>3, <2>4 DEF Pending
<1>7. CASE KillsDone
  <2>1. \A k \in ToSet(kills) : k.time # currentTime
    BY <1>7 DEF KillsDone, Due, ToSet
  <2> QED
    BY <1>7, <2>1 DEF KillsDone, Pending, input
<1>8. CASE handleInputOutputTime
  <2>1. /\ phase = "io" /\ phase' = "loop" /\ currentTime' = currentTime + 1 /\ kills' = kills
    BY <1>8 DEF handleInputOutputTime, input
  <2>2. \A k \in ToSet(kills) : k.time < 0 \/ k.time >= currentTime + 1
    BY <1>1, <1>3, <2>1 DEF Pending
  <2>3. \A k \in ToSet(kills) : k.time < 0 \/ k.time > currentTime + 1 \/ k.time = currentTime + 1
    BY <1>1, <1>3, <2>2
  <2> QED
    BY <2>1, <2>3 DEF Pending
<1>9. CASE EndOfInput \/ Loop \/ dispatchProcess \/ executeCPU \/ Idle \/ printFinalReport
  <2>1. UNCHANGED <<kills, currentTime>> /\ phase' # "input"
        /\ (phase' \in {"dispatch", "cpu", "io"} => phase \in {"dispatch", "cpu", "io"})
    BY <1>9 DEF EndOfInput, Loop, dispatchProcess, executeCPU, Idle, printFinalReport, input
  <2> QED
    BY <2>1 DEF Pending
<1>10. CASE UNCHANGED vars
  BY <1>10 DEF vars, input, Pending
<1> QED
  BY <1>4, <1>5, <1>6, <1>7, <1>8, <1>9, <1>10 DEF Next, Tick, K

(***************************************************************************)
(* A KILL takes effect before the CPU runs in its tick, and what it has    *)
(* killed never runs again and keeps the time of its end.                  *)
(***************************************************************************)
THEOREM KillsTakeEffect == Spec => KillsHold
<1>1. ASSUME TypeOK, Placed, Pending, [Next]_vars
      PROVE  [/\ phase = "cpu" /\ executed' # executed =>
                   \A i \in DOMAIN kills : kills[i].time < 0 \/ kills[i].time > currentTime
              /\ \A p \in Processes : isKilled[p] =>
                   isKilled'[p] /\ executed'[p] = executed[p] /\ completion'[p] = completion[p]]_vars
  <2>1. ASSUME phase = "cpu", NEW i \in DOMAIN kills
        PROVE  kills[i].time < 0 \/ kills[i].time > currentTime
    <3>1. kills[i] \in ToSet(kills)
      BY DEF ToSet
    <3> QED
      BY <1>1, <2>1, <3>1 DEF Pending
  <2>2. ASSUME NEW p \in Processes, isKilled[p]
        PROVE  isKilled'[p] /\ executed'[p] = executed[p] /\ completion'[p] = completion[p]
    <3>1. ASSUME NEW in \in PcbInputs, handleProcessInput(in)
          PROVE  isKilled'[p] /\ executed'[p] = executed[p] /\ completion'[p] = completion[p]
      BY <1>1, <2>2, <3>1, EnteredFacts
    <3>2. ASSUME processKillEvent
          PROVE  isKilled'[p] /\ executed'[p] = executed[p] /\ completion'[p] = completion[p]
      <4>1. executed' = executed
        BY <3>2 DEF processKillEvent
      <4>2. isKilled \in [Processes -> BOOLEAN] /\ completion \in [Processes -> Nat]
        BY <1>1 DEF TypeOK
      <4> QED
        BY <1>1, <2>2, <3>2, <4>1, <4>2, KillFacts
    <3>3. ASSUME executeCPU
          PROVE  isKilled'[p] /\ executed'[p] = executed[p] /\ completion'[p] = completion[p]
      <4>1. running # p
        BY <1>1, <2>2 DEF Placed, PlacedAt
      <4>2. executed \in [Processes -> Nat] /\ completion \in [Processes -> Nat]
        BY <1>1 DEF TypeOK
      <4> QED
        BY <1>1, <2>2, <3>3, <4>1, <4>2, CpuFacts
    <3>4. CASE UNCHANGED <<isKilled, executed, completion>>
      BY <2>2, <3>4
    <3>5. ASSUME NEW event \in [pid : Pids, time : KillTimes], addKillEvent(event)
          PROVE  UNCHANGED <<isKilled, executed, completion>>
      BY <3>5 DEF addKillEvent, clocks
    <3>6. CASE \/ EndOfInput \/ Loop \/ KillsDone \/ dispatchProcess \/ Idle
               \/ handleInputOutputTime \/ printFinalReport \/ UNCHANGED vars
      BY <3>4, <3>6
      DEF EndOfInput, Loop, KillsDone, dispatchProcess, Idle, handleInputOutputTime,
          printFinalReport, vars, clocks
    <3> QED
      BY <1>1, <3>1, <3>2, <3>3, <3>4, <3>5, <3>6 DEF Next, Tick
  <2> QED
    BY <2>1, <2>2
<1> QED
  BY <1>1, TypeInit, TypeNext, PlacedInit, PlacedNext, PendingInit, PendingNext, PTL
  DEF Spec, KillsHold

(***************************************************************************)
(* The order of completion.                                                *)
(***************************************************************************)
\* What never changes again of a process.
LEMMA Lasting ==
  ASSUME TypeOK, Placed, [Next]_vars, NEW p \in Processes
  PROVE  /\ p \in Processes' /\ pcbs'[p] = pcbs[p]
         /\ isKilled[p] => isKilled'[p]
         /\ state[p] = "COMPLETED" => state'[p] = "COMPLETED" /\ completion'[p] = completion[p]
<1> DEFINE Goal == /\ p \in Processes' /\ pcbs'[p] = pcbs[p]
                   /\ isKilled[p] => isKilled'[p]
                   /\ state[p] = "COMPLETED" =>
                        state'[p] = "COMPLETED" /\ completion'[p] = completion[p]
<1>1. /\ state \in [Processes -> States] /\ isKilled \in [Processes -> BOOLEAN]
      /\ completion \in [Processes -> Nat] /\ PlacedAt(p)
  BY DEF TypeOK, Placed
<1>2. ASSUME NEW in \in PcbInputs, handleProcessInput(in) PROVE Goal
  <2>1. /\ pcbs'[p] = pcbs[p] /\ state'[p] = state[p] /\ isKilled'[p] = isKilled[p]
        /\ completion'[p] = completion[p] /\ p \in Processes'
    BY <1>2, EnteredFacts
  <2> QED
    BY <2>1
<1>3. CASE processKillEvent
  <2>1. pcbs' = pcbs /\ Processes' = Processes
    BY <1>3 DEF processKillEvent, Processes
  <2> QED
    BY <1>1, <1>3, <2>1, KillFacts
<1>4. CASE dispatchProcess
  <2>1. pcbs' = pcbs /\ Processes' = Processes /\ isKilled' = isKilled /\ completion' = completion
    BY <1>4 DEF dispatchProcess, input, clocks, Processes
  <2>2. ASSUME NEW r \in Processes, ~isKilled[r], Count(readyQueue, r) = Count(readyQueue', r) + 1
        PROVE  state[r] # "COMPLETED"
    <3>1. readyQueue' \in Seq(Processes)
      BY <1>4, <2>1, TypeDispatch DEF TypeOK
    <3>2. Count(readyQueue', r) \in Nat
      BY <3>1, CountNat
    <3>3. Count(readyQueue, r) > 0
      BY <2>2, <3>2
    <3> QED
      BY <2>2, <3>3 DEF Placed, PlacedAt
  <2> QED
    BY <1>1, <1>4, <2>1, <2>2, DispatchFacts
<1>5. CASE executeCPU
  <2>1. pcbs' = pcbs /\ Processes' = Processes /\ isKilled' = isKilled
    BY <1>5, CpuFacts DEF Processes
  <2>2. running = p => state[p] # "COMPLETED"
    BY <1>1 DEF PlacedAt
  <2> QED
    BY <1>1, <1>5, <2>1, <2>2, CpuFacts
<1>6. CASE handleInputOutputTime
  <2>1. pcbs' = pcbs /\ Processes' = Processes /\ isKilled' = isKilled /\ completion' = completion
    BY <1>6, IoFacts DEF input
  <2>2. p \in ToSet(waitingQueue) /\ ~isKilled[p] => state[p] # "COMPLETED"
    BY <1>1, Counted DEF PlacedAt
  <2>3. state[p] = "COMPLETED" => state'[p] = "COMPLETED"
    BY <1>1, <1>6, <2>2, IoFacts
  <2> QED
    BY <2>1, <2>3
<1>7. ASSUME UNCHANGED <<pcbs, state, isKilled, completion>> PROVE Goal
  BY <1>7 DEF Processes
<1>8. ASSUME NEW event \in [pid : Pids, time : KillTimes], addKillEvent(event) PROVE Goal
  BY <1>7, <1>8 DEF addKillEvent, clocks
<1>9. CASE EndOfInput \/ Loop \/ KillsDone \/ Idle \/ printFinalReport \/ UNCHANGED vars
  BY <1>7, <1>9 DEF EndOfInput, Loop, KillsDone, Idle, printFinalReport, vars, input, clocks
<1> QED
  BY <1>2, <1>3, <1>4, <1>5, <1>6, <1>8, <1>9 DEF Next, Tick

\* What is new of a process comes from the input.
LEMMA NewProcess ==
  ASSUME TypeOK, [Next]_vars, NEW p \in Processes', p \notin Processes
  PROVE  /\ p = Len(pcbs) + 1 /\ state'[p] = "READY"
         /\ Added(readyQueue, readyQueue', lost, lost', p)
         /\ UNCHANGED <<running, waitingQueue>>
<1>1. ASSUME UNCHANGED pcbs PROVE FALSE
  BY <1>1 DEF Processes
<1>2. ASSUME NEW in \in PcbInputs, handleProcessInput(in)
      PROVE  /\ p = Len(pcbs) + 1 /\ state'[p] = "READY"
             /\ Added(readyQueue, readyQueue', lost, lost', p)
             /\ UNCHANGED <<running, waitingQueue>>
  <2>1. p = Len(pcbs) + 1 /\ state'[p] = "READY"
    BY <1>2, EnteredFacts
  <2> QED
    BY <1>2, <2>1, EnteredQueue DEF handleProcessInput
<1>3. ASSUME NEW event \in [pid : Pids, time : KillTimes], addKillEvent(event) PROVE FALSE
  BY <1>1, <1>3 DEF addKillEvent
<1> QED
  BY <1>1, <1>2, <1>3
  DEF Next, Tick, EndOfInput, Loop, KillsDone, Idle, printFinalReport, processKillEvent,
      dispatchProcess, executeCPU, handleInputOutputTime, vars, input

\* A process that was hit by the KILL of a namesake was hit for good.
LEMMA HitLasts ==
  ASSUME TypeOK, Placed, [Next]_vars, NEW p \in Processes, HitByNamesake(p)
  PROVE  HitByNamesake(p)'
<1>1. PICK r \in Processes : r # p /\ pcbs[r].pid = pcbs[p].pid /\ (isKilled[r] \/ isKilled[p])
  BY DEF HitByNamesake
<1>2. /\ r \in Processes' /\ pcbs'[r] = pcbs[r] /\ (isKilled[r] => isKilled'[r])
      /\ pcbs'[p] = pcbs[p] /\ (isKilled[p] => isKilled'[p])
  BY Lasting
<1> QED
  BY <1>1, <1>2 DEF HitByNamesake

\* Only the CPU completes a process.
LEMMA OnlyCpuCompletes ==
  ASSUME TypeOK, [Next]_vars, NEW p \in Processes, state'[p] = "COMPLETED", state[p] # "COMPLETED"
  PROVE  /\ executeCPU /\ running = p /\ completion'[p] = currentTime + 1
<1>1. state \in [Processes -> States] /\ completion \in [Processes -> Nat]
  BY DEF TypeOK
<1>2. ASSUME NEW in \in PcbInputs, handleProcessInput(in) PROVE FALSE
  BY <1>2, EnteredFacts
<1>3. ASSUME processKillEvent PROVE FALSE
  BY <1>1, <1>3, KillFacts
<1>4. ASSUME dispatchProcess PROVE FALSE
  BY <1>1, <1>4, DispatchFacts
<1>5. CASE executeCPU
  BY <1>1, <1>5, CpuFacts
<1>6. ASSUME UNCHANGED state PROVE FALSE
  BY <1>6
<1>7. ASSUME NEW event \in [pid : Pids, time : KillTimes], addKillEvent(event) PROVE FALSE
  BY <1>6, <1>7 DEF addKillEvent
<1>8. ASSUME EndOfInput \/ Loop \/ KillsDone \/ Idle \/ printFinalReport \/ UNCHANGED vars PROVE FALSE
  BY <1>6, <1>8 DEF EndOfInput, Loop, KillsDone, Idle, printFinalReport, vars
<1>9. ASSUME handleInputOutputTime PROVE FALSE
  BY <1>1, <1>9, IoFacts
<1> QED
  BY <1>2, <1>3, <1>4, <1>5, <1>7, <1>8, <1>9 DEF Next, Tick

\* Only the dispatcher gives the CPU to a process: to the head of the ready queue.
LEMMA OnlyDispatchRuns ==
  ASSUME TypeOK, [Next]_vars, NEW p \in Processes, running' = p, running # p
  PROVE  /\ running = NoProcess /\ readyQueue # <<>> /\ Head(readyQueue) = p
<1>1. NoProcess \notin Processes
  BY Typed
<1>2. ASSUME UNCHANGED running PROVE FALSE
  BY <1>2
<1>3. ASSUME NEW in \in PcbInputs, handleProcessInput(in) PROVE FALSE
  BY <1>2, <1>3 DEF handleProcessInput
<1>4. ASSUME processKillEvent PROVE FALSE
  BY <1>1, <1>4, KillFacts DEF queues
<1>5. CASE dispatchProcess
  BY <1>1, <1>5, DispatchFacts DEF queues
<1>6. ASSUME executeCPU PROVE FALSE
  BY <1>1, <1>6, CpuFacts
<1>7. ASSUME NEW event \in [pid : Pids, time : KillTimes], addKillEvent(event) PROVE FALSE
  BY <1>2, <1>7 DEF addKillEvent, queues
<1>8. ASSUME \/ EndOfInput \/ Loop \/ KillsDone \/ Idle \/ printFinalReport
             \/ handleInputOutputTime \/ UNCHANGED vars
      PROVE  FALSE
  BY <1>2, <1>8
  DEF EndOfInput, Loop, KillsDone, Idle, printFinalReport, handleInputOutputTime, vars, queues
<1> QED
  BY <1>3, <1>4, <1>5, <1>6, <1>7, <1>8 DEF Next, Tick

\* p stands before r wherever both are in the queue.
Ahead(q, p, r) == \A i, j \in DOMAIN q : q[i] = p /\ q[j] = r => i < j

\* A process that an enqueue has lost is nowhere.
LEMMA Nowhere ==
  ASSUME TypeOK, Placed, NEW p \in Processes, p \in lost, ~HitByNamesake(p)
  PROVE  Count(readyQueue, p) = 0 /\ p \notin ToSet(waitingQueue) /\ running # p
<1>1. Spots(p) = 0
  BY DEF Placed, PlacedAt
<1>2. Count(readyQueue, p) = 0 /\ Count(waitingQueue, p) = 0 /\ OnCpu(p) = 0
  BY <1>1, Counted DEF Spots
<1> QED
  BY <1>2, Counted DEF OnCpu

\* It stays lost unless a KILL finds it in the hash table.
LEMMA LostStays ==
  ASSUME TypeOK, Placed, [Next]_vars, NEW p \in Processes, p \in lost, ~HitByNamesake(p)
  PROVE  p \in lost' \/ isKilled'[p]
<1>1. Count(readyQueue, p) = 0 /\ p \notin ToSet(waitingQueue) /\ running # p
  BY Nowhere
<1>2. ASSUME NEW in \in PcbInputs, handleProcessInput(in) PROVE p \in lost'
  <2>1. Added(readyQueue, readyQueue', lost, lost', Len(pcbs) + 1)
    BY <1>2, EnteredQueue
  <2>2. p # Len(pcbs) + 1
    BY Typed
  <2> QED
    BY <2>1, <2>2 DEF Added
<1>3. CASE processKillEvent
  <2>1. ASSUME NEW x \in Processes, isKilled' = [isKilled EXCEPT ![x] = TRUE],
               Added(terminatedQueue, terminatedQueue', lost, lost', x)
        PROVE  p \in lost' \/ isKilled'[p]
    <3>1. CASE x = p
      BY <2>1, <3>1 DEF TypeOK
    <3>2. CASE x # p
      BY <2>1, <3>2 DEF Added
    <3> QED
      BY <3>1, <3>2
  <2> QED
    BY <1>3, <2>1, KillFacts DEF queues
<1>4. CASE dispatchProcess
  <2>1. ASSUME NEW x \in Processes, Count(readyQueue, x) = Count(readyQueue', x) + 1
        PROVE  x # p
    <3>1. readyQueue' \in Seq(Processes)
      BY <1>4, TypeDispatch DEF TypeOK, dispatchProcess, input, Processes
    <3>2. Count(readyQueue', x) \in Nat
      BY <3>1, CountNat
    <3> QED
      BY <1>1, <2>1, <3>2
  <2> QED
    BY <1>4, <2>1, DispatchFacts DEF queues
<1>5. CASE executeCPU
  BY <1>1, <1>5, CpuFacts DEF queues
<1>6. CASE handleInputOutputTime
  BY <1>1, <1>6, IoFacts
<1>7. ASSUME NEW event \in [pid : Pids, time : KillTimes], addKillEvent(event) PROVE p \in lost'
  BY <1>7 DEF addKillEvent, queues
<1>8. CASE EndOfInput \/ Loop \/ KillsDone \/ Idle \/ printFinalReport \/ UNCHANGED vars
  BY <1>8 DEF EndOfInput, Loop, KillsDone, Idle, printFinalReport, vars, queues
<1> QED
  BY <1>2, <1>3, <1>4, <1>5, <1>6, <1>7, <1>8 DEF Next, Tick

\* p has been served, or never will be.
Passed(p) == isKilled[p] \/ HitByNamesake(p) \/ state[p] = "COMPLETED" \/ p \in lost

\* r overtakes p nowhere on its way.
Follows(p, r) ==
  /\ Ahead(readyQueue, p, r)
  /\ running = r => Passed(p)
  /\ state[r] = "COMPLETED" =>
       Passed(p) /\ (state[p] = "COMPLETED" => HitByNamesake(p) \/ completion[p] < completion[r])

\* Processes without I/O never wait, and keep their order.
InOrder ==
  /\ \A p \in Processes : NoIo(p) => p \notin ToSet(waitingQueue)
  /\ \A p, r \in Processes : p < r /\ NoIo(p) /\ NoIo(r) => Follows(p, r)

\* There is no process at first.
LEMMA InOrderInit == Init => InOrder
BY DEF Init, InOrder, Processes

\* Only a process with I/O waits.
LEMMA NoIoNeverWaits ==
  ASSUME TypeOK, Placed, InOrder, [Next]_vars, NEW p \in Processes, NoIo(p)
  PROVE  p \notin ToSet(waitingQueue')
<1>1. p \notin ToSet(waitingQueue)
  BY DEF InOrder
<1>2. CASE ToSet(waitingQueue') \subseteq ToSet(waitingQueue)
  BY <1>1, <1>2
<1>3. waitingQueue \in Seq(Processes)
  BY DEF TypeOK
<1>4. ASSUME NEW in \in PcbInputs, handleProcessInput(in) PROVE waitingQueue' = waitingQueue
  BY <1>4 DEF handleProcessInput
<1>5. ASSUME processKillEvent PROVE ToSet(waitingQueue') \subseteq ToSet(waitingQueue)
  <2>1. \/ waitingQueue' = waitingQueue
        \/ \E pid \in Pids : waitingQueue' = removeFromQueue(waitingQueue, pid)
    BY <1>5, KillFacts DEF queues
  <2> QED
    BY <1>3, <2>1, RemoveFacts
<1>6. ASSUME dispatchProcess PROVE waitingQueue' = waitingQueue
  BY <1>6, DispatchFacts DEF queues
<1>7. CASE executeCPU
  <2>1. IoStarts(running) => running # p
    <3>1. /\ pcbs[p].ioStart \in Int /\ executed[p] \in Nat /\ pcbs[p].ioDuration \in Nat
      BY TimedNumbers
    <3> QED
      BY <3>1 DEF IoStarts, NoIo
  <2> QED
    BY <1>1, <1>7, <2>1, CpuFacts
<1>8. CASE handleInputOutputTime
  <2>1. /\ waitingQueue' \in Seq(Processes) /\ Count(waitingQueue, p) = 0
        /\ (Count(waitingQueue', p) = Count(waitingQueue, p) \/ Count(waitingQueue', p) = 0)
    BY <1>1, <1>3, <1>8, IoFacts, CountNat
  <2> QED
    BY <2>1, CountNat
<1>9. ASSUME NEW event \in [pid : Pids, time : KillTimes], addKillEvent(event)
      PROVE  waitingQueue' = waitingQueue
  BY <1>9 DEF addKillEvent, queues
<1>10. CASE \/ EndOfInput \/ Loop \/ KillsDone \/ Idle \/ printFinalReport \/ UNCHANGED vars
  BY <1>2, <1>10 DEF EndOfInput, Loop, KillsDone, Idle, printFinalReport, vars, queues
<1> QED
  BY <1>2, <1>4, <1>5, <1>6, <1>7, <1>8, <1>9, <1>10 DEF Next, Tick

\* No step changes the order of two processes in the ready queue.
LEMMA AheadStays ==
  ASSUME TypeOK, Placed, InOrder, [Next]_vars, NEW p \in Processes, NEW r \in Processes,
         p < r, NoIo(p), NoIo(r)
  PROVE  Ahead(readyQueue', p, r)
<1>1. Ahead(readyQueue, p, r) /\ p \notin ToSet(waitingQueue) /\ r \notin ToSet(waitingQueue)
  BY DEF InOrder, Follows
<1>2. readyQueue \in Seq(Processes) /\ p # r /\ p \in Nat /\ r \in Nat
  <2>1. p \in Nat /\ r \in Nat
    BY Typed
  <2> QED
    BY <2>1 DEF TypeOK
<1>3. CASE readyQueue' = readyQueue
  BY <1>1, <1>3
<1>4. ASSUME NEW t \in Seq(Nat), p \notin ToSet(t), r \notin ToSet(t), readyQueue' = readyQueue \o t
      PROVE  Ahead(readyQueue', p, r)
  <2>1. readyQueue \in Seq(Nat) /\ Len(readyQueue) \in Nat /\ Len(t) \in Nat
    BY <1>2, Typed, SeqSubset
  <2>2. /\ DOMAIN (readyQueue \o t) = 1 .. Len(readyQueue) + Len(t)
        /\ \A k \in 1 .. Len(readyQueue) + Len(t) :
             (readyQueue \o t)[k] = IF k <= Len(readyQueue) THEN readyQueue[k] ELSE t[k - Len(readyQueue)]
    BY <2>1, ConcatProperties
  <2>3. ASSUME NEW k \in DOMAIN (readyQueue \o t), (readyQueue \o t)[k] \in {p, r}
        PROVE  k \in DOMAIN readyQueue /\ (readyQueue \o t)[k] = readyQueue[k]
    <3>1. k <= Len(readyQueue)
      <4>1. SUFFICES ASSUME k > Len(readyQueue) PROVE FALSE
        BY <2>1, <2>2
      <4>2. k - Len(readyQueue) \in DOMAIN t
        BY <2>1, <2>2, <4>1
      <4>3. t[k - Len(readyQueue)] \in ToSet(t)
        BY <4>2 DEF ToSet
      <4>4. (readyQueue \o t)[k] = t[k - Len(readyQueue)]
        BY <2>1, <2>2, <4>1
      <4> QED
        BY <1>4, <2>3, <4>3, <4>4
    <3> QED
      BY <2>1, <2>2, <3>1
  <2> QED
    BY <1>1, <1>4, <2>3 DEF Ahead
<1>5. ASSUME NEW in \in PcbInputs, handleProcessInput(in) PROVE Ahead(readyQueue', p, r)
  <2> DEFINE t == <<Len(pcbs) + 1>>
  <2>1. Len(pcbs) + 1 \in Nat /\ Len(pcbs) + 1 \notin Processes
    BY Typed
  <2>2. t \in Seq(Nat) /\ ToSet(t) = {Len(pcbs) + 1}
    BY <2>1 DEF ToSet
  <2>3. ASSUME readyQueue' = Append(readyQueue, Len(pcbs) + 1) PROVE readyQueue' = readyQueue \o t
    <3>1. readyQueue' = Append(readyQueue, Len(pcbs) + 1)
      BY <2>3
    <3>2. readyQueue \in Seq(Nat)
      BY <1>2, Typed, SeqSubset
    <3> QED
      BY ONLY <2>1, <3>1, <3>2, AppendIsConcat
  <2>5. CASE readyQueue' # Append(readyQueue, Len(pcbs) + 1)
    BY <1>3, <1>5, <2>5, EnteredQueue DEF Added
  <2> QED
    BY <1>4, <2>1, <2>2, <2>3, <2>5
<1>6. CASE processKillEvent
  <2>1. \/ readyQueue' = readyQueue
        \/ \E pid \in Pids : readyQueue' = removeFromQueue(readyQueue, pid)
    BY <1>6, KillFacts DEF queues
  <2>2. ASSUME NEW pid \in Pids, readyQueue' = removeFromQueue(readyQueue, pid)
        PROVE  Ahead(readyQueue', p, r)
    <3>1. /\ readyQueue' \in Seq(Processes)
          /\ \A i, j \in DOMAIN readyQueue' : i < j =>
               \E k, m \in DOMAIN readyQueue :
                 k < m /\ readyQueue'[i] = readyQueue[k] /\ readyQueue'[j] = readyQueue[m]
      BY <1>2, <2>2, RemoveFacts
    <3>2. DOMAIN readyQueue \subseteq Nat /\ DOMAIN readyQueue' \subseteq Nat
      BY <1>2, <3>1
    <3>3. ASSUME NEW i \in DOMAIN readyQueue', NEW j \in DOMAIN readyQueue',
                 readyQueue'[i] = p, readyQueue'[j] = r, ~(i < j)
          PROVE  FALSE
      <4>1. j < i
        BY <1>2, <3>2, <3>3
      <4>2. PICK k \in DOMAIN readyQueue, m \in DOMAIN readyQueue :
              k < m /\ readyQueue[k] = r /\ readyQueue[m] = p
        BY <3>1, <3>3, <4>1
      <4> QED
        BY <1>1, <3>2, <4>2 DEF Ahead
    <3> QED
      BY <3>3 DEF Ahead
  <2> QED
    BY <1>3, <2>1, <2>2
<1>7. CASE dispatchProcess
  <2>1. readyQueue' = readyQueue \/ (readyQueue # <<>> /\ readyQueue' = Tail(readyQueue))
    BY <1>7, DispatchFacts DEF queues
  <2>2. ASSUME readyQueue # <<>>, readyQueue' = Tail(readyQueue) PROVE Ahead(readyQueue', p, r)
    <3>1. /\ Len(readyQueue) \in Nat /\ DOMAIN readyQueue' = 1 .. Len(readyQueue) - 1
          /\ DOMAIN readyQueue = 1 .. Len(readyQueue)
          /\ \A k \in 1 .. Len(readyQueue) - 1 : readyQueue'[k] = readyQueue[k + 1]
      BY <1>2, <2>2, HeadTailMembers
    <3>2. ASSUME NEW i \in DOMAIN readyQueue', NEW j \in DOMAIN readyQueue',
                 readyQueue'[i] = p, readyQueue'[j] = r
          PROVE  i < j
      <4>1. /\ i + 1 \in DOMAIN readyQueue /\ j + 1 \in DOMAIN readyQueue
            /\ readyQueue[i + 1] = p /\ readyQueue[j + 1] = r
        BY <3>1, <3>2
      <4>2. i + 1 < j + 1
        BY <1>1, <4>1 DEF Ahead
      <4> QED
        BY <3>1, <4>2
    <3> QED
      BY <3>2 DEF Ahead
  <2> QED
    BY <1>3, <2>1, <2>2
<1>8. CASE executeCPU
  BY <1>3, <1>8, CpuFacts
<1>9. CASE handleInputOutputTime
  <2>1. PICK w \in Seq(Processes) :
          ToSet(w) \subseteq ToSet(waitingQueue) /\ readyQueue' = readyQueue \o w
    BY <1>9, IoFacts
  <2>2. w \in Seq(Nat)
    BY Typed, SeqSubset
  <2> QED
    BY <1>1, <1>4, <2>1, <2>2
<1>10. ASSUME NEW event \in [pid : Pids, time : KillTimes], addKillEvent(event)
       PROVE  readyQueue' = readyQueue
  BY <1>10 DEF addKillEvent, queues
<1>11. CASE \/ EndOfInput \/ Loop \/ KillsDone \/ Idle \/ printFinalReport \/ UNCHANGED vars
  BY <1>3, <1>11 DEF EndOfInput, Loop, KillsDone, Idle, printFinalReport, vars, queues
<1> QED
  BY <1>3, <1>5, <1>6, <1>7, <1>8, <1>9, <1>10, <1>11 DEF Next, Tick

\* The order stays as it is.
LEMMA InOrderNext == TypeOK /\ Placed /\ Timed /\ InOrder /\ [Next]_vars => InOrder'
<1> SUFFICES ASSUME TypeOK, Placed, Timed, InOrder, [Next]_vars PROVE InOrder'
  OBVIOUS
<1>1. Processes \subseteq Nat /\ NoProcess \notin Processes /\ currentTime \in Nat /\ Len(pcbs) \in Nat
      /\ Processes = 1 .. Len(pcbs)
  BY Typed DEF TypeOK
<1>2. readyQueue \in Seq(Processes) /\ waitingQueue \in Seq(Processes)
      /\ running \in Processes \cup {NoProcess}
  BY DEF TypeOK
<1>3. ASSUME NEW p \in Processes PROVE NoIo(p)' = NoIo(p)
  BY Lasting DEF NoIo
<1>4. ASSUME NEW p \in Processes', NoIo(p)' PROVE p \notin ToSet(waitingQueue')
  <2>1. CASE p \in Processes
    BY <1>3, <1>4, <2>1, NoIoNeverWaits
  <2>2. CASE p \notin Processes
    <3>1. waitingQueue' = waitingQueue
      BY <2>2, NewProcess
    <3> QED
      BY <1>2, <2>2, <3>1 DEF ToSet
  <2> QED
    BY <2>1, <2>2
<1>5. ASSUME NEW p \in Processes, Passed(p) PROVE Passed(p)'
  <2>1. CASE HitByNamesake(p)
    BY <2>1, HitLasts DEF Passed
  <2>2. CASE isKilled[p] \/ state[p] = "COMPLETED"
    BY <2>2, Lasting DEF Passed
  <2>3. CASE p \in lost /\ ~HitByNamesake(p)
    BY <2>3, LostStays DEF Passed
  <2> QED
    BY <1>5, <2>1, <2>2, <2>3 DEF Passed
<1>6. ASSUME NEW p \in Processes, NEW r \in Processes, p < r, NoIo(p), NoIo(r)
      PROVE  Follows(p, r)'
  <2>1. Follows(p, r) /\ p # r
    BY <1>1, <1>6 DEF InOrder
  <2>2. Ahead(readyQueue', p, r)
    BY <1>6, AheadStays
  <2>3. running' = r => Passed(p)'
    <3>1. CASE running = r
      BY <1>5, <2>1, <3>1 DEF Follows
    <3>2. CASE running # r
      <4>1. SUFFICES ASSUME running' = r PROVE Passed(p)
        BY <1>5
      <4>2. running = NoProcess /\ readyQueue # <<>> /\ Head(readyQueue) = r
        BY <3>2, <4>1, OnlyDispatchRuns
      <4>3. 1 \in DOMAIN readyQueue /\ readyQueue[1] = r /\ \A i \in DOMAIN readyQueue : ~(i < 1)
        BY <1>2, <4>2
      <4>4. \A i \in DOMAIN readyQueue : readyQueue[i] # p
        BY <2>1, <4>3 DEF Follows, Ahead
      <4>5. Count(readyQueue, p) = 0 /\ Count(waitingQueue, p) = 0 /\ OnCpu(p) = 0
        <5>1. p \notin ToSet(waitingQueue)
          BY <1>6 DEF InOrder
        <5>2. Count(readyQueue, p) = 0 /\ Count(waitingQueue, p) = 0
          BY <1>2, <4>4, <5>1, CountNat
        <5> QED
          BY <1>1, <4>2, <5>2 DEF OnCpu
      <4>6. PlacedAt(p) /\ Count(terminatedQueue, p) \in Nat
        BY Counted DEF Placed
      <4> QED
        BY <4>5, <4>6 DEF PlacedAt, Spots, Passed
    <3> QED
      BY <3>1, <3>2
  <2>4. ASSUME state'[r] = "COMPLETED"
        PROVE  /\ Passed(p)'
               /\ state'[p] = "COMPLETED" => HitByNamesake(p)' \/ completion'[p] < completion'[r]
    <3>1. CASE state[r] = "COMPLETED"
      <4>1. Passed(p) /\ (state[p] = "COMPLETED" => HitByNamesake(p) \/ completion[p] < completion[r])
        BY <2>1, <3>1 DEF Follows
      <4>2. completion'[r] = completion[r]
        BY <3>1, Lasting
      <4>3. CASE state[p] = "COMPLETED"
        <5>1. completion'[p] = completion[p]
          BY <4>3, Lasting
        <5> QED
          BY <1>5, <4>1, <4>2, <4>3, <5>1, HitLasts
      <4>4. CASE state[p] # "COMPLETED" /\ state'[p] = "COMPLETED"
        <5>1. running = p
          BY <4>4, OnlyCpuCompletes
        <5>2. ~isKilled[p] /\ (p \in lost => HitByNamesake(p))
          BY <5>1, Nowhere DEF Placed, PlacedAt
        <5> QED
          BY <1>5, <4>1, <4>4, <5>2, HitLasts DEF Passed
      <4>5. CASE state'[p] # "COMPLETED"
        BY <1>5, <4>1, <4>5
      <4> QED
        BY <4>3, <4>4, <4>5
    <3>2. CASE state[r] # "COMPLETED"
      <4>1. executeCPU /\ running = r /\ completion'[r] = currentTime + 1
        BY <2>4, <3>2, OnlyCpuCompletes
      <4>2. Passed(p)
        BY <2>1, <4>1 DEF Follows
      <4>3. ASSUME state'[p] = "COMPLETED" PROVE completion'[p] < completion'[r]
        <5>1. state[p] = "COMPLETED"
          BY <2>1, <4>1, <4>3, OnlyCpuCompletes
        <5>2. completion'[p] = completion[p] /\ completion[p] <= Now /\ completion[p] \in Nat
          BY <5>1, Lasting, TimedNumbers DEF Timed, CpuAt
        <5>3. Now = currentTime
          BY <4>1 DEF executeCPU, Now
        <5> QED
          BY <1>1, <4>1, <5>2, <5>3
      <4> QED
        BY <1>5, <4>2, <4>3
    <3> QED
      BY <3>1, <3>2
  <2> QED
    BY <2>2, <2>3, <2>4 DEF Follows
<1>7. ASSUME NEW p \in Processes', NEW r \in Processes', p < r, p \notin Processes \/ r \notin Processes
      PROVE  Follows(p, r)'
  <2>1. \A x \in Processes' : x \in Processes \/ x = Len(pcbs) + 1
    BY NewProcess
  <2>2. p \in Processes /\ r = Len(pcbs) + 1 /\ r \notin Processes
    BY <1>1, <1>7, <2>1
  <2>3. /\ state'[r] = "READY" /\ running' = running
        /\ readyQueue' = Append(readyQueue, r) \/ readyQueue' = readyQueue
    BY <2>2, NewProcess DEF Added
  <2>4. running' # r
    BY <1>1, <1>2, <2>2, <2>3, NoProcessAssumption
  <2>5. Ahead(readyQueue', p, r)
    <3>0. CASE readyQueue' = readyQueue
      BY <1>2, <2>2, <3>0 DEF Ahead
    <3> SUFFICES ASSUME readyQueue' = Append(readyQueue, r) PROVE Ahead(readyQueue', p, r)
      BY <2>3, <3>0
    <3>1. readyQueue \in Seq(Nat) /\ r \in Nat /\ p # r /\ Len(readyQueue) \in Nat
      <4>1. readyQueue \in Seq(Nat)
        BY <1>1, <1>2, SeqSubset
      <4> QED
        BY <1>1, <1>2, <2>2, <4>1
    <3>2. /\ DOMAIN readyQueue' = 1 .. Len(readyQueue) + 1
          /\ \A k \in 1 .. Len(readyQueue) : readyQueue'[k] = readyQueue[k]
          /\ readyQueue'[Len(readyQueue) + 1] = r
      BY <3>1, AppendProperties
    <3>3. \A k \in 1 .. Len(readyQueue) : readyQueue[k] # r
      BY <1>2, <2>2
    <3>4. ASSUME NEW i \in DOMAIN readyQueue', NEW j \in DOMAIN readyQueue',
                 readyQueue'[i] = p, readyQueue'[j] = r
          PROVE  i < j
      <4>1. j = Len(readyQueue) + 1
        BY <3>1, <3>2, <3>3, <3>4
      <4>2. i # Len(readyQueue) + 1
        BY <3>1, <3>2, <3>4
      <4> QED
        BY <3>1, <3>2, <4>1, <4>2
    <3> QED
      BY <3>4 DEF Ahead
  <2> QED
    BY <2>3, <2>4, <2>5 DEF Follows
<1>8. ASSUME NEW p \in Processes', NEW r \in Processes', p < r, NoIo(p)', NoIo(r)'
      PROVE  Follows(p, r)'
  BY <1>3, <1>6, <1>7, <1>8
<1> QED
  BY <1>4, <1>8 DEF InOrder

(***************************************************************************)
(* Of two processes without I/O the one entered first completes first,     *)
(* unless it is killed, or lost for want of memory and never completes.    *)
(***************************************************************************)
THEOREM FirstComeIsFirstServed == Spec => []FirstComeFirstServed
<1>1. TypeOK /\ Placed /\ InOrder => FirstComeFirstServed
  <2> SUFFICES ASSUME TypeOK, Placed, InOrder, NEW p \in Processes, NEW r \in Processes,
                      p < r, NoIo(p), NoIo(r), state[r] = "COMPLETED"
               PROVE  \/ state[p] = "KILLED" \/ HitByNamesake(p)
                      \/ p \in lost /\ state[p] # "COMPLETED"
                      \/ state[p] = "COMPLETED" /\ completion[p] < completion[r]
    BY DEF FirstComeFirstServed
  <2>1. Follows(p, r) /\ (isKilled[p] => state[p] = "KILLED")
    BY DEF InOrder, Placed, PlacedAt
  <2> QED
    BY <2>1 DEF Follows, Passed
<1> QED
  BY <1>1, TypeInit, TypeNext, PlacedInit, PlacedNext, TimedInit, TimedNext,
     InOrderInit, InOrderNext, PTL DEF Spec

(***************************************************************************)
(* The report.                                                             *)
(***************************************************************************)
\* When the report is due no process is left in a queue or on the CPU.
Drained ==
  phase = "report" => readyQueue = <<>> /\ waitingQueue = <<>> /\ running = NoProcess

\* The loop ends only then.
LEMMA DrainedNext == TypeOK /\ Drained /\ [Next]_vars => Drained'
<1> SUFFICES ASSUME TypeOK, Drained, [Next]_vars, phase' = "report"
             PROVE  readyQueue' = <<>> /\ waitingQueue' = <<>> /\ running' = NoProcess
  BY DEF Drained
<1>1. CASE Loop
  <2>1. ~systemHasActiveProcesses /\ UNCHANGED queues
    BY <1>1 DEF Loop
  <2>2. readyQueue \in Seq(Processes) /\ waitingQueue \in Seq(Processes)
    BY DEF TypeOK
  <2>3. readyQueue = <<>> /\ waitingQueue = <<>> /\ running = NoProcess
    BY <2>1, <2>2 DEF systemHasActiveProcesses
  <2> QED
    BY <2>1, <2>3 DEF queues
<1>2. CASE UNCHANGED vars
  BY <1>2 DEF vars, queues, Drained
<1>3. ASSUME NEW in \in PcbInputs, handleProcessInput(in) PROVE FALSE
  BY <1>3 DEF handleProcessInput
<1>4. ASSUME NEW event \in [pid : Pids, time : KillTimes], addKillEvent(event) PROVE FALSE
  BY <1>4 DEF addKillEvent
<1> QED
  BY <1>1, <1>2, <1>3, <1>4
  DEF Next, Tick, EndOfInput, KillsDone, Idle, printFinalReport, processKillEvent,
      dispatchProcess, executeCPU, handleInputOutputTime

\* A list with each member of S once and nothing else has Cardinality(S) members.
LEMMA OnceEach ==
  ASSUME NEW T, NEW S \in SUBSET T, NEW s \in Seq(T),
         \A x \in S : Count(s, x) = 1, \A x \in T \ S : Count(s, x) = 0
  PROVE  Len(s) = Cardinality(S)
<1>1. IsFiniteSet(1 .. Len(s)) /\ Cardinality(1 .. Len(s)) = Len(s)
  <2>1. ASSUME NEW m \in Nat PROVE IsFiniteSet(1 .. m) /\ Cardinality(1 .. m) = m
    <3>1. 1 \in Int /\ m \in Int
      OBVIOUS
    <3>2. IsFiniteSet(1 .. m) /\ Cardinality(1 .. m) = IF 1 > m THEN 0 ELSE m - 1 + 1
      BY ONLY <3>1, FS_Interval
    <3> QED
      BY <3>2
  <2> QED
    BY <2>1
<1>2. s \in [1 .. Len(s) -> S] /\ DOMAIN s = 1 .. Len(s)
  <2>1. s \in [1 .. Len(s) -> T] /\ DOMAIN s = 1 .. Len(s)
    OBVIOUS
  <2>2. ASSUME NEW i \in 1 .. Len(s) PROVE s[i] \in S
    <3>1. s[i] \in T /\ i \in DOMAIN s
      BY <2>1
    <3>2. s[i] \in ToSet(s)
      BY <3>1 DEF ToSet
    <3>3. Count(s, s[i]) # 0
      BY <3>2, CountNat
    <3> QED
      BY <3>1, <3>3
  <2> QED
    BY <2>1, <2>2
<1>3. ASSUME NEW i \in 1 .. Len(s), NEW j \in 1 .. Len(s), s[i] = s[j] PROVE i = j
  <2>1. s[i] \in S
    BY <1>2
  <2>2. Count(s, s[i]) <= 1
    BY <2>1
  <2>3. \A k, l \in DOMAIN s : s[k] = s[i] /\ s[l] = s[i] => k = l
    BY <2>2, CountOne
  <2> QED
    BY <1>2, <1>3, <2>3
<1>4. \A x \in S : \E i \in 1 .. Len(s) : s[i] = x
  BY <1>2, CountOne
<1>5. s \in Bijection(1 .. Len(s), S)
  <2>1. s \in Injection(1 .. Len(s), S)
    BY <1>2, <1>3 DEF Injection, IsInjective
  <2>2. s \in Surjection(1 .. Len(s), S)
    BY <1>2, <1>4 DEF Surjection
  <2> QED
    BY <2>1, <2>2 DEF Bijection
<1> QED
  <2> DEFINE A == 1 .. Len(s)
  <2>1. IsFiniteSet(A) /\ s \in Bijection(A, S)
    BY <1>1, <1>5
  <2>2. Cardinality(S) = Cardinality(A)
    <3> HIDE DEF A
    <3> QED
      BY ONLY <2>1, FS_Bijection DEF ExistsBijection
  <2> QED
    BY <1>1, <2>2

(***************************************************************************)
(* The report has one row for every process that no enqueue has lost, in   *)
(* the order of the ids.                                                   *)
(***************************************************************************)
LEMMA ReportCompleteNext ==
  TypeOK /\ Placed /\ Drained /\ ReportComplete /\ [Next]_vars => ReportComplete'
<1> SUFFICES ASSUME TypeOK, Placed, Drained, ReportComplete, [Next]_vars, phase' = "end"
             PROVE  ReportComplete'
  BY DEF ReportComplete
<1>1. CASE UNCHANGED vars
  BY <1>1 DEF vars, input, clocks, queues, ReportComplete, AllPidsDiffer, Processes, Row
<1>2. CASE printFinalReport
  <2> DEFINE sorted == sortPCBBasedOnProcessId(terminatedQueue)
  <2>1. /\ phase = "report" /\ report' = [i \in DOMAIN sorted |-> Row(sorted[i])]
        /\ UNCHANGED <<pcbs, state, completion, lost>> /\ Processes' = Processes
    BY <1>2 DEF printFinalReport, input, clocks, queues, Processes
  <2>2. terminatedQueue \in Seq(Processes) /\ Processes = 1 .. Len(pcbs) /\ Len(pcbs) \in Nat
    BY Typed DEF TypeOK
  <2>3. /\ sorted \in Seq(Processes) /\ Len(sorted) = Len(terminatedQueue)
        /\ \A x : Count(sorted, x) = Count(terminatedQueue, x)
        /\ \A i \in 1 .. Len(sorted) - 1 : Pid(sorted, i) <= Pid(sorted, i + 1)
    <3>1. pcbs \in Seq(PcbInputs)
      BY DEF TypeOK
    <3>2. /\ sorted \in Seq(Processes) /\ Len(sorted) = Len(terminatedQueue)
          /\ \A x : Count(sorted, x) = Count(terminatedQueue, x)
          /\ \A k, m \in 1 .. Len(terminatedQueue) : k < m => Pid(sorted, k) <= Pid(sorted, m)
      BY <2>2, <3>1, SortFacts
    <3> HIDE DEF sorted
    <3>3. ASSUME NEW i \in 1 .. Len(sorted) - 1
          PROVE  i \in 1 .. Len(sorted) /\ i + 1 \in 1 .. Len(sorted) /\ i < i + 1
      <4>1. Len(sorted) \in Nat
        BY <3>2
      <4> QED
        BY <4>1
    <3> QED
      BY <3>2, <3>3
  <2> HIDE DEF sorted
  <2>4. /\ DOMAIN sorted = 1 .. Len(sorted) /\ Len(sorted) \in Nat
        /\ DOMAIN report' = 1 .. Len(sorted) /\ Len(report') = Len(sorted)
    BY <2>1, <2>3
  <2>5. ASSUME NEW i \in 1 .. Len(sorted) PROVE report'[i].pid = Pid(sorted, i)
    BY <2>1, <2>4 DEF Row, Pid
  <2>6. \A i \in 1 .. Len(report') - 1 : report'[i].pid <= report'[i + 1].pid
    BY <2>3, <2>4, <2>5
  <2>7. ASSUME AllPidsDiffer
        PROVE  /\ Len(report') = Cardinality(Processes \ lost)
               /\ ToSet(report') = {Row(p) : p \in Processes \ lost}
    <3> DEFINE S == Processes \ lost
    <3>1. ASSUME NEW p \in Processes
          PROVE  Count(terminatedQueue, p) = IF p \in lost THEN 0 ELSE 1
      <4>1. ~HitByNamesake(p) /\ PlacedAt(p)
        BY <2>7 DEF AllPidsDiffer, HitByNamesake, Placed
      <4>2. readyQueue = <<>> /\ waitingQueue = <<>> /\ OnCpu(p) = 0
        BY <2>1, Typed DEF Drained, OnCpu
      <4>3. Count(readyQueue, p) = 0 /\ Count(waitingQueue, p) = 0
        <5>1. <<>> \in Seq(Processes) /\ \A i \in DOMAIN <<>> : FALSE
          OBVIOUS
        <5>2. Count(<<>>, p) = 0
          BY <5>1, CountNat
        <5> QED
          BY <4>2, <5>2
      <4>4. Count(terminatedQueue, p) \in Nat
        BY Counted
      <4>5. Spots(p) = Count(terminatedQueue, p)
        BY <4>2, <4>3, <4>4 DEF Spots
      <4> QED
        BY <4>1, <4>5 DEF PlacedAt
    <3>2. S \in SUBSET Processes /\ \A p \in Processes : p \in S <=> p \notin lost
      OBVIOUS
    <3>3. /\ \A x \in S : Count(sorted, x) = 1
          /\ \A x \in Processes \ S : Count(sorted, x) = 0
      BY <2>3, <3>1
    <3>4. sorted \in Seq(Processes)
      BY <2>3
    <3> HIDE DEF S
    <3>5. Len(sorted) = Cardinality(S)
      BY ONLY <3>2, <3>3, <3>4, OnceEach
    <3>6. \A p \in S : \E i \in DOMAIN sorted : sorted[i] = p
      BY <3>3, <3>4, CountOne
    <3>7. ASSUME NEW i \in DOMAIN sorted PROVE sorted[i] \in S
      <4>1. sorted[i] \in Processes
        BY <3>4
      <4>2. sorted[i] \in ToSet(sorted)
        BY DEF ToSet
      <4>3. Count(sorted, sorted[i]) # 0
        BY <3>4, <4>2, CountNat
      <4> QED
        BY <4>3, <3>3, <4>1, <4>2
    <3>8. ToSet(report') = {Row(p) : p \in S}
      BY <2>1, <2>4, <3>6, <3>7 DEF ToSet
    <3> QED
      BY <2>4, <3>5, <3>8 DEF S
  <2>8. AllPidsDiffer' = AllPidsDiffer /\ \A p \in Processes : Row(p)' = Row(p)
    BY <2>1 DEF AllPidsDiffer, Row
  <2> QED
    BY <2>1, <2>6, <2>7, <2>8 DEF ReportComplete
<1>3. ASSUME NEW in \in PcbInputs, handleProcessInput(in) PROVE FALSE
  BY <1>3 DEF handleProcessInput
<1>4. ASSUME NEW event \in [pid : Pids, time : KillTimes], addKillEvent(event) PROVE FALSE
  BY <1>4 DEF addKillEvent
<1> QED
  BY <1>1, <1>2, <1>3, <1>4
  DEF Next, Tick, Loop, EndOfInput, KillsDone, Idle, processKillEvent,
      dispatchProcess, executeCPU, handleInputOutputTime

THEOREM ReportIsComplete == Spec => []ReportComplete
<1>1. Init => Drained /\ ReportComplete
  BY DEF Init, Drained, ReportComplete
<1> QED
  BY <1>1, TypeInit, TypeNext, PlacedInit, PlacedNext, DrainedNext, ReportCompleteNext, PTL DEF Spec

(***************************************************************************)
(* The abstract life of processes.                                         *)
(***************************************************************************)
\* With distinct ids the life of a process is what its state says.
LifeIsState ==
  AbstractState = [p \in 1 .. MaxProcesses |-> IF p \in Processes THEN state[p] ELSE "ABSENT"]

Distinct == AllPidsDiffer /\ Len(pcbs) <= MaxProcesses

\* An id is not given twice if the user takes care of it.
LEMMA DistinctNext ==
  ASSUME DistinctPids
  PROVE  TypeOK /\ Distinct /\ [Next]_vars => Distinct'
<1> SUFFICES ASSUME TypeOK, Distinct, [Next]_vars PROVE Distinct'
  OBVIOUS
<1>1. ASSUME UNCHANGED pcbs PROVE Distinct'
  BY <1>1 DEF Distinct, AllPidsDiffer, Processes
<1>2. ASSUME NEW in \in PcbInputs, handleProcessInput(in) PROVE Distinct'
  <2>1. PICK m \in Nat : m = Len(pcbs) + 1
    BY Typed
  <2>2. /\ Processes' = Processes \cup {m} /\ pcbs'[m] = in
        /\ \A p \in Processes : pcbs'[p] = pcbs[p]
    BY <1>2, <2>1, EnteredFacts
  <2>3. \A p \in Processes : pcbs[p].pid # in.pid
    BY <1>2 DEF handleProcessInput, PidAllowed
  <2>4. AllPidsDiffer'
    BY <2>2, <2>3 DEF Distinct, AllPidsDiffer
  <2>5. Len(pcbs') <= MaxProcesses
    <3>1. Len(pcbs) < MaxProcesses /\ pcbs' = Append(pcbs, in) /\ pcbs \in Seq(PcbInputs)
      BY <1>2 DEF handleProcessInput, TypeOK
    <3>2. Len(pcbs') = Len(pcbs) + 1 /\ Len(pcbs) \in Nat
      BY <3>1, AppendProperties
    <3> QED
      BY <3>1, <3>2, BoundsAssumption
  <2> QED
    BY <2>4, <2>5 DEF Distinct
<1>3. ASSUME NEW event \in [pid : Pids, time : KillTimes], addKillEvent(event) PROVE Distinct'
  BY <1>1, <1>3 DEF addKillEvent
<1> QED
  BY <1>1, <1>2, <1>3
  DEF Next, Tick, EndOfInput, Loop, KillsDone, Idle, printFinalReport, processKillEvent,
      dispatchProcess, executeCPU, handleInputOutputTime, vars, input

\* Without namesakes no process is missed by the refinement mapping.
LEMMA StateIsLife == TypeOK /\ Placed /\ Distinct => LifeIsState
<1> SUFFICES ASSUME TypeOK, Placed, Distinct, NEW p \in 1 .. MaxProcesses, p \in Processes
             PROVE  state[p] = IF running = p THEN "RUNNING"
                               ELSE IF p \in ToSet(readyQueue) THEN "READY"
                               ELSE IF p \in ToSet(waitingQueue) THEN "WAITING"
                               ELSE state[p]
  BY DEF LifeIsState, AbstractState
<1>1. ~HitByNamesake(p)
  BY DEF Distinct, AllPidsDiffer, HitByNamesake
<1>2. PlacedAt(p)
  BY DEF Placed
<1>3. /\ Count(readyQueue, p) \in Nat /\ Count(waitingQueue, p) \in Nat
      /\ Count(terminatedQueue, p) \in Nat /\ OnCpu(p) \in 0 .. 1
      /\ p \in ToSet(readyQueue) <=> Count(readyQueue, p) > 0
      /\ p \in ToSet(waitingQueue) <=> Count(waitingQueue, p) > 0
  BY Counted
<1>4. CASE isKilled[p]
  <2>1. Count(readyQueue, p) = 0 /\ Count(waitingQueue, p) = 0 /\ running # p
    BY <1>1, <1>2, <1>3, <1>4 DEF PlacedAt, Spots
  <2> QED
    BY <1>3, <2>1
<1>5. CASE ~isKilled[p]
  BY <1>2, <1>3, <1>5 DEF PlacedAt
<1> QED
  BY <1>4, <1>5

\* A step of the program is a step of one life, or wakes several processes.
LEMMA StepOfLife ==
  ASSUME TypeOK, Placed, Distinct, [Next]_vars, LifeIsState, LifeIsState', Distinct'
  PROVE  [Lifecycle!Next]_AbstractState
<1> DEFINE M == 1 .. MaxProcesses
<1>1. /\ AbstractState = [p \in M |-> IF p \in Processes THEN state[p] ELSE "ABSENT"]
      /\ AbstractState' = [p \in M |-> IF p \in Processes' THEN state'[p] ELSE "ABSENT"]
  BY DEF LifeIsState
<1>2. Processes \subseteq M /\ state \in [Processes -> States] /\ Len(pcbs) \in Nat
      /\ NoProcess \notin Processes
  <2>1. Len(pcbs) \in Nat /\ Processes = 1 .. Len(pcbs) /\ NoProcess \notin Processes
    BY Typed
  <2>2. Processes \subseteq M
    BY <2>1, BoundsAssumption DEF Distinct
  <2> QED
    BY <2>1, <2>2 DEF TypeOK
<1> HIDE DEF M
<1>3. \A r \in M : r \in Processes => AbstractState[r] = state[r]
  BY <1>1
<1>4. ASSUME UNCHANGED <<pcbs, state>> PROVE UNCHANGED AbstractState
  BY <1>1, <1>4 DEF Processes
<1>5. ASSUME Processes' = Processes, NEW p \in Processes, NEW s, state' = [state EXCEPT ![p] = s]
      PROVE  AbstractState' = [AbstractState EXCEPT ![p] = s]
  <2>1. \A r \in M : AbstractState'[r] = [AbstractState EXCEPT ![p] = s][r]
    BY <1>1, <1>2, <1>5
  <2> QED
    BY <1>1, <2>1
<1>6. ASSUME NEW in \in PcbInputs, handleProcessInput(in) PROVE Lifecycle!Next
  <2>1. PICK m \in Nat : m = Len(pcbs) + 1
    BY Typed
  <2>2. /\ Processes' = Processes \cup {m} /\ state'[m] = "READY" /\ m \notin Processes
        /\ \A p \in Processes : state'[p] = state[p]
    BY <1>6, <2>1, Typed, EnteredFacts
  <2>3. m \in M
    <3>1. Len(pcbs) < MaxProcesses
      BY <1>6 DEF handleProcessInput
    <3> QED
      BY <1>2, <2>1, <3>1, BoundsAssumption DEF M
  <2>4. AbstractState[m] = "ABSENT"
    BY <1>1, <2>2, <2>3
  <2>5. AbstractState' = [AbstractState EXCEPT ![m] = "READY"]
    <3>1. \A r \in M : AbstractState'[r] = [AbstractState EXCEPT ![m] = "READY"][r]
      BY <1>1, <2>2
    <3> QED
      BY <1>1, <3>1
  <2>6. Lifecycle!Admit(m)
    BY <2>4, <2>5 DEF Lifecycle!Admit
  <2> QED
    BY <2>3, <2>6 DEF Lifecycle!Next, M
<1>7. ASSUME processKillEvent PROVE [Lifecycle!Next]_AbstractState
  <2>1. pcbs' = pcbs /\ Processes' = Processes
    BY <1>7 DEF processKillEvent, Processes
  <2>2. ASSUME NEW p \in Processes, ~isKilled[p], state[p] # "COMPLETED",
               state' = [state EXCEPT ![p] = "KILLED"]
        PROVE  Lifecycle!Next
    <3>1. AbstractState' = [AbstractState EXCEPT ![p] = "KILLED"]
      BY <1>5, <2>1, <2>2
    <3>2. state[p] # "KILLED" /\ state[p] \in States
      BY <1>2, <2>2 DEF Placed, PlacedAt
    <3>3. AbstractState[p] \in {"READY", "RUNNING", "WAITING"}
      BY <1>2, <1>3, <2>2, <3>2 DEF States
    <3>4. Lifecycle!Kill(p)
      BY <3>1, <3>3 DEF Lifecycle!Kill
    <3> QED
      BY <1>2, <3>4 DEF Lifecycle!Next, M
  <2> QED
    BY <1>4, <1>7, <2>1, <2>2, KillFacts
<1>8. ASSUME dispatchProcess PROVE [Lifecycle!Next]_AbstractState
  <2>1. pcbs' = pcbs /\ Processes' = Processes
    BY <1>8 DEF dispatchProcess, input, Processes
  <2>2. ASSUME NEW p \in Processes, ~isKilled[p], running = NoProcess,
               Count(readyQueue, p) = Count(readyQueue', p) + 1,
               state' = [state EXCEPT ![p] = "RUNNING"]
        PROVE  Lifecycle!Next
    <3>1. AbstractState' = [AbstractState EXCEPT ![p] = "RUNNING"]
      BY <1>5, <2>1, <2>2
    <3>2. Count(readyQueue, p) > 0
      <4>1. readyQueue' \in Seq(Processes)
        BY <1>8, <2>1, TypeDispatch DEF TypeOK
      <4>2. Count(readyQueue', p) \in Nat
        BY <4>1, CountNat
      <4> QED
        BY <2>2, <4>2
    <3>3. AbstractState[p] = "READY"
      BY <1>2, <1>3, <2>2, <3>2 DEF Placed, PlacedAt
    <3>4. ASSUME NEW r \in M PROVE AbstractState[r] # "RUNNING"
      <4>1. CASE r \in Processes
        <5>1. ~HitByNamesake(r)
          BY <4>1 DEF Distinct, AllPidsDiffer, HitByNamesake
        <5>2. state[r] = "RUNNING" <=> running = r
          BY <4>1, <5>1, PlacedIsOnePlace DEF OnePlace
        <5> QED
          BY <1>2, <1>3, <2>2, <4>1, <5>2
      <4>2. CASE r \notin Processes
        BY <1>1, <4>2
      <4> QED
        BY <4>1, <4>2
    <3>5. Lifecycle!Dispatch(p)
      BY <3>1, <3>3, <3>4 DEF Lifecycle!Dispatch, M
    <3> QED
      BY <1>2, <3>5 DEF Lifecycle!Next, M
  <2> QED
    BY <1>4, <1>8, <2>1, <2>2, DispatchFacts
<1>9. ASSUME executeCPU PROVE [Lifecycle!Next]_AbstractState
  <2>1. pcbs' = pcbs /\ Processes' = Processes /\ running \in Processes
    BY <1>9, CpuFacts DEF Processes
  <2>2. PICK p \in Processes : p = running
    BY <2>1
  <2>3. AbstractState[p] = "RUNNING"
    BY <1>2, <1>3, <2>2 DEF Placed, PlacedAt
  <2>4. ASSUME state' = [state EXCEPT ![p] = "WAITING"] PROVE Lifecycle!Next
    <3>1. Lifecycle!Block(p)
      BY <1>5, <2>1, <2>3, <2>4 DEF Lifecycle!Block
    <3> QED
      BY <1>2, <3>1 DEF Lifecycle!Next, M
  <2>5. ASSUME state' = [state EXCEPT ![p] = "COMPLETED"] PROVE Lifecycle!Next
    <3>1. Lifecycle!Finish(p)
      BY <1>5, <2>1, <2>3, <2>5 DEF Lifecycle!Finish
    <3> QED
      BY <1>2, <3>1 DEF Lifecycle!Next, M
  <2> QED
    BY <1>4, <1>9, <2>1, <2>2, <2>4, <2>5, CpuFacts
<1>10. ASSUME handleInputOutputTime PROVE Lifecycle!Next
  <2> DEFINE group == {p \in ToSet(waitingQueue) : IoLeft(p) = 0 /\ ~isKilled[p]}
  <2>1. /\ Processes' = Processes /\ group \subseteq Processes
        /\ state' = [p \in Processes |-> IF p \in group THEN "READY" ELSE state[p]]
    BY <1>10, IoFacts
  <2>2. ASSUME NEW p \in group PROVE state[p] = "WAITING"
    <3>1. p \in Processes /\ Count(waitingQueue, p) > 0 /\ ~isKilled[p]
      BY <2>1, Counted
    <3> QED
      BY <3>1 DEF Placed, PlacedAt
  <2> HIDE DEF group
  <2>3. \A p \in group : AbstractState[p] = "WAITING"
    BY <1>2, <1>3, <2>1, <2>2
  <2>4. AbstractState' = [p \in M |-> IF p \in group THEN "READY" ELSE AbstractState[p]]
    BY <1>1, <1>2, <2>1
  <2>5. Lifecycle!Wake(group)
    BY <2>3, <2>4 DEF Lifecycle!Wake, M
  <2>6. group \in SUBSET M
    BY <1>2, <2>1
  <2> QED
    BY <2>5, <2>6 DEF Lifecycle!Next, M
<1>11. ASSUME NEW event \in [pid : Pids, time : KillTimes], addKillEvent(event)
       PROVE  UNCHANGED <<pcbs, state>>
  BY <1>11 DEF addKillEvent
<1>12. ASSUME EndOfInput \/ Loop \/ KillsDone \/ Idle \/ printFinalReport \/ UNCHANGED vars
       PROVE  UNCHANGED <<pcbs, state>>
  BY <1>12 DEF EndOfInput, Loop, KillsDone, Idle, printFinalReport, vars, input
<1> QED
  BY <1>4, <1>6, <1>7, <1>8, <1>9, <1>10, <1>11, <1>12 DEF Next, Tick

(***************************************************************************)
(* If every process has an id of its own, the program implements the       *)
(* abstract life of processes.                                             *)
(***************************************************************************)
THEOREM SchedulerImplementsLifecycle ==
  ASSUME DistinctPids
  PROVE  Spec => ImplementsLifecycle
<1>1. Init => Distinct
  BY BoundsAssumption DEF Init, Distinct, AllPidsDiffer, Processes
<1>2. Init => Lifecycle!Init
  BY DEF Init, Lifecycle!Init, AbstractState, Processes
<1>3. TypeOK /\ Distinct /\ [Next]_vars => Distinct'
  BY DistinctNext
<1>4. TypeOK /\ Placed /\ Distinct /\ [Next]_vars /\ LifeIsState /\ LifeIsState' /\ Distinct'
        => [Lifecycle!Next]_AbstractState
  BY StepOfLife
<1> QED
  BY <1>1, <1>2, <1>3, <1>4, TypeInit, TypeNext, PlacedInit, PlacedNext, StateIsLife, PTL
  DEF Spec, ImplementsLifecycle, Lifecycle!Spec
=============================================================================
