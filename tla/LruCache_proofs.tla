---------------------------- MODULE LruCache_proofs ----------------------------
(***************************************************************************)
(* Theorems about the LRU cache, for every set of keys, data, capacities   *)
(* and addresses, with every malloc of put failing or not: the list, the   *)
(* hash table, and that together they are the cache of RecencyCache.       *)
(***************************************************************************)
EXTENDS LruCache, ProofLemmas

(***************************************************************************)
(* Searching the table.                                                    *)
(***************************************************************************)
\* A number below m, and one below twice m, modulo m.
LEMMA Modulo ==
  ASSUME NEW m \in Nat \ {0}, NEW n \in 0 .. m - 1
  PROVE  n % m = n /\ (n + m) % m = n
OBVIOUS

\* The remainder of an integer is one of the buckets.
LEMMA Remainder ==
  ASSUME NEW m \in Nat \ {0}, NEW n \in Int
  PROVE  n % m \in 0 .. m - 1
OBVIOUS

\* The probes from a bucket on meet every bucket, the first one first.
LEMMA ProbeAll ==
  ASSUME capacity \in Nat \ {0}, NEW from \in 0 .. capacity - 1
  PROVE  /\ \A i \in 0 .. capacity - 1 : Probe(from, i) \in 0 .. capacity - 1
         /\ \A b \in 0 .. capacity - 1 : \E i \in 0 .. capacity - 1 : Probe(from, i) = b
         /\ Probe(from, 0) = from
<1>1. ASSUME NEW i \in 0 .. capacity - 1 PROVE Probe(from, i) \in 0 .. capacity - 1
  BY Remainder DEF Probe
<1>2. ASSUME NEW b \in 0 .. capacity - 1
      PROVE  \E i \in 0 .. capacity - 1 : Probe(from, i) = b
  <2>1. CASE from <= b
    <3>1. b - from \in 0 .. capacity - 1 /\ from + (b - from) = b
      BY <2>1
    <3>2. Probe(from, b - from) = b
      BY <3>1, Modulo DEF Probe
    <3> QED
      BY <3>1, <3>2
  <2>2. CASE b < from
    <3>1. b - from + capacity \in 0 .. capacity - 1 /\ from + (b - from + capacity) = b + capacity
      BY <2>2
    <3>2. Probe(from, b - from + capacity) = b
      BY <3>1, Modulo DEF Probe
    <3> QED
      BY <3>1, <3>2
  <2> QED
    BY <2>1, <2>2
<1>3. Probe(from, 0) = from
  BY Modulo DEF Probe
<1> QED
  BY <1>1, <1>2, <1>3

\* The first of some probes is a bucket met by one of them.
LEMMA FirstOfFacts ==
  ASSUME capacity \in Nat \ {0}, NEW from \in 0 .. capacity - 1,
         NEW probes \in SUBSET (0 .. capacity - 1)
  PROVE  /\ probes = {} => FirstOf(from, probes) = -1
         /\ probes # {} => /\ FirstOf(from, probes) \in 0 .. capacity - 1
                           /\ \E i \in probes : FirstOf(from, probes) = Probe(from, i)
         /\ 0 \in probes => FirstOf(from, probes) = from
<1>1. CASE probes = {}
  BY <1>1 DEF FirstOf
<1>2. CASE probes # {}
  <2> DEFINE m == Min(probes)
  <2>1. m \in probes /\ (\A j \in probes : m <= j) /\ FirstOf(from, probes) = Probe(from, m)
    <3>1. probes \subseteq Nat
      OBVIOUS
    <3> QED
      BY <1>2, <3>1, LeastChosen DEF Min, FirstOf
  <2> HIDE DEF m
  <2>2. m \in 0 .. capacity - 1
    BY <2>1
  <2>3. Probe(from, m) \in 0 .. capacity - 1 /\ Probe(from, 0) = from
    BY <2>2, ProbeAll
  <2>4. ASSUME 0 \in probes PROVE m = 0
    BY <2>1, <2>2, <2>4
  <2> QED
    BY <1>2, <2>1, <2>3, <2>4
<1> QED
  BY <1>1, <1>2

\* findKeyInHashMap finds a bucket with the key if there is one.
LEMMA FindKeyFacts ==
  ASSUME capacity \in Nat \ {0}, NEW b, DOMAIN b = 0 .. capacity - 1, NEW k \in Keys
  PROVE  /\ findKeyInHashMap(b, k) # -1 =>
              /\ findKeyInHashMap(b, k) \in DOMAIN b
              /\ HoldsKey(b, findKeyInHashMap(b, k), k)
         /\ findKeyInHashMap(b, k) = -1 => \A i \in DOMAIN b : ~HoldsKey(b, i, k)
<1> DEFINE f == findKeyInHashMap(b, k)
           from == hash(k)
           probes == {i \in DOMAIN b : HoldsKey(b, Probe(from, i), k)}
<1>1. from \in 0 .. capacity - 1
  BY Remainder, KeysAssumption DEF hash
<1>2. f = FirstOf(from, probes) /\ probes \in SUBSET (0 .. capacity - 1)
  BY DEF findKeyInHashMap
<1> HIDE DEF f, from, probes
<1>3. CASE probes = {}
  <2>1. f = -1
    BY <1>1, <1>2, <1>3, FirstOfFacts
  <2>2. ASSUME NEW i \in DOMAIN b, HoldsKey(b, i, k) PROVE FALSE
    <3>1. PICK j \in 0 .. capacity - 1 : Probe(from, j) = i
      BY <1>1, ProbeAll
    <3>2. j \in probes
      BY <2>2, <3>1 DEF probes
    <3> QED
      BY <1>3, <3>2
  <2> QED
    BY <2>1, <2>2 DEF f
<1>4. CASE probes # {}
  <2>1. PICK i \in probes : f = Probe(from, i)
    BY <1>1, <1>2, <1>4, FirstOfFacts
  <2>2. f \in 0 .. capacity - 1
    BY <1>1, <1>2, <1>4, FirstOfFacts
  <2>3. HoldsKey(b, f, k) /\ f # -1
    BY <2>1, <2>2 DEF probes
  <2> QED
    BY <2>2, <2>3 DEF f
<1> QED
  BY <1>3, <1>4

\* findFreeBucket finds a free bucket if there is one.
LEMMA FindFreeFacts ==
  ASSUME capacity \in Nat \ {0}, NEW b, DOMAIN b = 0 .. capacity - 1, NEW k \in Keys,
         findFreeBucket(b, k) # -1
  PROVE  findFreeBucket(b, k) \in DOMAIN b /\ b[findFreeBucket(b, k)] = None
<1> DEFINE f == findFreeBucket(b, k)
           from == hash(k)
           probes == {i \in DOMAIN b : b[Probe(from, i)] = None}
<1>1. from \in 0 .. capacity - 1
  BY Remainder, KeysAssumption DEF hash
<1>2. f = FirstOf(from, probes) /\ probes \in SUBSET (0 .. capacity - 1)
  BY DEF findFreeBucket
<1>3. f # -1
  OBVIOUS
<1> HIDE DEF f, from, probes
<1>4. probes # {}
  BY <1>1, <1>2, <1>3, FirstOfFacts
<1>5. PICK i \in probes : f = Probe(from, i)
  BY <1>1, <1>2, <1>4, FirstOfFacts
<1>6. f \in 0 .. capacity - 1
  BY <1>1, <1>2, <1>4, FirstOfFacts
<1>7. b[f] = None
  BY <1>5, <1>6 DEF probes
<1> QED
  BY <1>6, <1>7 DEF f

\* removeFromHashmap, started at the bucket of the key, clears that bucket.
LEMMA RemoveKeyFacts ==
  ASSUME capacity \in Nat \ {0}, NEW b, DOMAIN b = 0 .. capacity - 1, NEW k,
         NEW at \in DOMAIN b, HoldsKey(b, at, k)
  PROVE  removeFromHashmap(b, k, at) = [b EXCEPT ![at] = None]
<1> DEFINE probes == {i \in DOMAIN b : b[Probe(at, i)] = None \/ HoldsKey(b, Probe(at, i), k)}
<1>1. probes \in SUBSET (0 .. capacity - 1)
  OBVIOUS
<1>2. Probe(at, 0) = at
  BY ProbeAll
<1>3. 0 \in probes
  BY <1>2
<1> HIDE DEF probes
<1>4. FirstOf(at, probes) = at
  BY <1>1, <1>3, FirstOfFacts
<1> QED
  BY <1>4 DEF removeFromHashmap, probes

(***************************************************************************)
(* The list.                                                               *)
(***************************************************************************)
Lists == [head : Nodes \cup {None}, tail : Nodes \cup {None}, prev : Links, next : Links]

\* The list l links the nodes of s, which are different, in both directions.
Linked(l, s) ==
  /\ s \in Seq(Nodes)
  /\ \A i, j \in 1 .. Len(s) : s[i] = s[j] => i = j
  /\ l.head = IF s = <<>> THEN None ELSE s[1]
  /\ l.tail = IF s = <<>> THEN None ELSE s[Len(s)]
  /\ \A i \in 1 .. Len(s) : l.next[s[i]] = IF i = Len(s) THEN None ELSE s[i + 1]
  /\ \A i \in 1 .. Len(s) : l.prev[s[i]] = IF i = 1 THEN None ELSE s[i - 1]

\* NULL is no address, and no node of the table.
LEMMA NoneIsNoNode == \A n \in Nodes : n # None
BY NoneAssumption

\* NULL is no hash node.
LEMMA NoneIsNoRecord ==
  \A k \in Keys \cup {None}, n \in Nodes \cup {None} : [key |-> k, node |-> n] # None
BY NoneAssumption

\* How many numbers an interval has.
LEMMA IntervalSize ==
  ASSUME NEW n \in Nat
  PROVE  /\ IsFiniteSet(1 .. n) /\ Cardinality(1 .. n) = n
         /\ IsFiniteSet(0 .. n - 1) /\ Cardinality(0 .. n - 1) = n
<1>1. 0 \in Int /\ 1 \in Int /\ n \in Int /\ n - 1 \in Int
  OBVIOUS
<1>2. /\ IsFiniteSet(1 .. n) /\ Cardinality(1 .. n) = IF 1 > n THEN 0 ELSE n - 1 + 1
      /\ IsFiniteSet(0 .. n - 1)
      /\ Cardinality(0 .. n - 1) = IF 0 > n - 1 THEN 0 ELSE (n - 1) - 0 + 1
  BY ONLY <1>1, FS_Interval
<1> QED
  BY <1>2

\* Different nodes: as many as there are places in the sequence.
LEMMA DifferentNodes ==
  ASSUME NEW s \in Seq(Nodes), \A i, j \in 1 .. Len(s) : s[i] = s[j] => i = j
  PROVE  /\ IsFiniteSet(ToSet(s)) /\ Cardinality(ToSet(s)) = Len(s)
         /\ Len(s) <= Cardinality(Nodes) /\ Cardinality(Nodes) \in Nat
<1>1. /\ Len(s) \in Nat /\ DOMAIN s = 1 .. Len(s)
      /\ \A i \in 1 .. Len(s) : s[i] \in ToSet(s) /\ s[i] \in Nodes
  BY DEF ToSet
<1>2. s \in Bijection(1 .. Len(s), ToSet(s))
  <2>1. s \in [1 .. Len(s) -> ToSet(s)]
    BY <1>1
  <2>2. \A n \in ToSet(s) : \E i \in 1 .. Len(s) : s[i] = n
    BY <1>1 DEF ToSet
  <2> QED
    BY <1>1, <2>1, <2>2 DEF Bijection, Injection, Surjection, IsInjective
<1>3. IsFiniteSet(1 .. Len(s)) /\ Cardinality(1 .. Len(s)) = Len(s)
  BY <1>1, IntervalSize
<1>4. IsFiniteSet(ToSet(s)) /\ Cardinality(ToSet(s)) = Len(s)
  BY <1>2, <1>3, FS_Bijection DEF ExistsBijection
<1>5. ToSet(s) \in SUBSET Nodes
  BY <1>1 DEF ToSet
<1>6. Cardinality(ToSet(s)) <= Cardinality(Nodes) /\ Cardinality(Nodes) \in Nat
  BY <1>5, NodesAssumption, FS_Subset, FS_CardinalityType
<1> QED
  BY <1>4, <1>6

\* Chain meets the nodes of a sequence that the links follow.
LEMMA ChainMeets ==
  ASSUME NEW s \in Seq(Nodes), \A i, j \in 1 .. Len(s) : s[i] = s[j] => i = j,
         NEW first, NEW link \in Links,
         first = IF s = <<>> THEN None ELSE s[1],
         \A i \in 1 .. Len(s) : link[s[i]] = IF i = Len(s) THEN None ELSE s[i + 1]
  PROVE  Chain(first, link) = s
<1> DEFINE N == Cardinality(Nodes)
           onward == [n \in Nodes \cup {None} |-> IF n = None THEN None ELSE link[n]]
           R(f) == f = [i \in 0 .. N |-> IF i = 0 THEN first ELSE onward[f[i - 1]]]
           g == CHOOSE f : R(f)
           w(i) == IF i < Len(s) THEN s[i + 1] ELSE None
           walk == [i \in 0 .. N |-> w(i)]
<1>1. Chain(first, link) = [i \in 1 .. Cardinality({k \in DOMAIN g : g[k] # None}) |-> g[i - 1]]
  BY DEF Chain
<1>2. Len(s) \in Nat /\ N \in Nat /\ Len(s) <= N /\ \A i \in 1 .. Len(s) : s[i] \in Nodes
  BY DifferentNodes
<1>3. /\ onward[None] = None
      /\ \A i \in 1 .. Len(s) : onward[s[i]] = IF i = Len(s) THEN None ELSE s[i + 1]
  BY <1>2, NoneIsNoNode
<1>4. first = w(0) /\ \A i \in 1 .. N : w(i) = onward[w(i - 1)]
  <2>1. first = w(0)
    BY <1>2
  <2>2. ASSUME NEW i \in 1 .. N PROVE w(i) = onward[w(i - 1)]
    <3>1. CASE i - 1 < Len(s)
      <4>1. i \in 1 .. Len(s) /\ (i - 1) + 1 = i
        BY <1>2, <3>1
      <4>2. w(i - 1) = s[i] /\ w(i) = IF i = Len(s) THEN None ELSE s[i + 1]
        BY <1>2, <4>1
      <4> QED
        BY <1>3, <4>1, <4>2
    <3>2. CASE ~(i - 1 < Len(s))
      <4>1. w(i - 1) = None /\ w(i) = None
        BY <1>2, <3>2
      <4> QED
        BY <1>3, <4>1
    <3> QED
      BY <3>1, <3>2
  <2> QED
    BY <2>1, <2>2
<1> HIDE DEF N, onward, w
<1>5. R(walk)
  <2>1. \A i \in 0 .. N : walk[i] = w(i)
    OBVIOUS
  <2>2. \A i \in 0 .. N : i = 0 \/ (i # 0 /\ i \in 1 .. N /\ i - 1 \in 0 .. N)
    BY <1>2
  <2>3. \A i \in 0 .. N : walk[i] = IF i = 0 THEN first ELSE onward[walk[i - 1]]
    BY <1>4, <2>1, <2>2
  <2>4. walk = [i \in 0 .. N |-> walk[i]]
    OBVIOUS
  <2> HIDE DEF walk
  <2>5. \A i \in 0 .. N : walk[i] = IF i = 0 THEN first ELSE onward[walk[i - 1]]
    BY <2>3
  <2> DEFINE b(i) == IF i = 0 THEN first ELSE onward[walk[i - 1]]
  <2>6. \A i \in 0 .. N : walk[i] = b(i)
    BY <2>5
  <2> HIDE DEF b
  <2>7. walk = [i \in 0 .. N |-> b(i)]
    BY <2>4, <2>6
  <2> QED
    BY Zenon, <2>7 DEF b
<1>6. R(g)
  <2> HIDE DEF R, walk
  <2> QED
    BY <1>5
<1> HIDE DEF g
<1>7. /\ DOMAIN g = 0 .. N /\ g[0] = first
      /\ \A i \in 1 .. N : g[i] = onward[g[i - 1]]
  <2>1. DOMAIN g = 0 .. N
    BY <1>6
  <2>2. \A i \in 0 .. N : g[i] = IF i = 0 THEN first ELSE onward[g[i - 1]]
    <3> DEFINE b(i) == IF i = 0 THEN first ELSE onward[g[i - 1]]
    <3>1. g = [i \in 0 .. N |-> b(i)]
      BY <1>6
    <3> HIDE DEF b
    <3>2. \A i \in 0 .. N : g[i] = b(i)
      BY Zenon, <3>1
    <3> QED
      BY Zenon, <3>2 DEF b
  <2>3. 0 \in 0 .. N /\ \A i \in 1 .. N : i \in 0 .. N /\ i # 0
    BY <1>2
  <2>4. g[0] = first
    BY <2>2, <2>3
  <2>5. \A i \in 1 .. N : g[i] = onward[g[i - 1]]
    BY <2>2, <2>3
  <2> QED
    BY <2>1, <2>4, <2>5
<1> DEFINE U == {i \in 0 .. N : g[i] = w(i)}
<1>8. 0 .. N \subseteq U
  <2>1. 0 \in U
    BY <1>2, <1>4, <1>7
  <2>2. \A i \in 1 .. N : i - 1 \in U => i \in U
    BY <1>4, <1>7
  <2>3. N \in Nat
    BY <1>2
  <2> HIDE DEF U
  <2> QED
    BY ONLY <2>1, <2>2, <2>3, UpTo
<1>9. \A i \in 0 .. N : g[i] = w(i)
  BY <1>8
<1>10. {k \in DOMAIN g : g[k] # None} = 0 .. Len(s) - 1
  <2>1. \A k \in 0 .. N : w(k) # None <=> k < Len(s)
    <3>1. \A k \in 0 .. N : k < Len(s) => k + 1 \in 1 .. Len(s)
      BY <1>2
    <3>2. \A k \in 0 .. N : k < Len(s) => s[k + 1] # None
      BY <1>2, <3>1, NoneIsNoNode
    <3> QED
      BY <3>2 DEF w
  <2> QED
    BY <1>2, <1>7, <1>9, <2>1
<1>11. Cardinality(0 .. Len(s) - 1) = Len(s)
  BY <1>2, IntervalSize
<1>12. Chain(first, link) = [i \in 1 .. Len(s) |-> g[i - 1]]
  BY <1>1, <1>10, <1>11
<1>13. \A i \in 1 .. Len(s) : g[i - 1] = s[i]
  <2>1. \A i \in 1 .. Len(s) : i - 1 \in 0 .. N /\ i - 1 < Len(s) /\ (i - 1) + 1 = i
    BY <1>2
  <2> QED
    BY <1>9, <2>1 DEF w
<1>14. [i \in 1 .. Len(s) |-> g[i - 1]] = [i \in 1 .. Len(s) |-> s[i]]
  BY <1>13
<1> QED
  BY <1>12, <1>14

\* The two walks along a linked list.
LEMMA LinkedChains ==
  ASSUME NEW l \in Lists, NEW s, Linked(l, s)
  PROVE  /\ Chain(l.head, l.next) = s
         /\ Chain(l.tail, l.prev) = Reverse(s)
<1>1. /\ s \in Seq(Nodes) /\ Len(s) \in Nat /\ l.next \in Links /\ l.prev \in Links
      /\ \A i, j \in 1 .. Len(s) : s[i] = s[j] => i = j
  BY DEF Linked, Lists
<1>2. Chain(l.head, l.next) = s
  BY <1>1, ChainMeets DEF Linked
<1> DEFINE r == Reverse(s)
<1>3. r \in Seq(Nodes) /\ Len(r) = Len(s) /\ \A i \in 1 .. Len(s) : r[i] = s[Len(s) - i + 1]
  BY <1>1 DEF Reverse
<1> HIDE DEF r
<1>4. \A i \in 1 .. Len(s) : Len(s) - i + 1 \in 1 .. Len(s)
  BY <1>1
<1>5. \A i, j \in 1 .. Len(r) : r[i] = r[j] => i = j
  <2> SUFFICES ASSUME NEW i \in 1 .. Len(s), NEW j \in 1 .. Len(s), r[i] = r[j] PROVE i = j
    BY <1>3
  <2> DEFINE k == Len(s) - i + 1
             m == Len(s) - j + 1
  <2>1. k \in 1 .. Len(s) /\ m \in 1 .. Len(s) /\ s[k] = s[m]
    BY <1>3, <1>4
  <2>2. k = m => i = j
    BY <1>1
  <2> HIDE DEF k, m
  <2> QED
    BY <1>1, <2>1, <2>2
<1>6. l.tail = IF r = <<>> THEN None ELSE r[1]
  <2>1. r = <<>> <=> s = <<>>
    BY <1>1, <1>3
  <2>2. s # <<>> => 1 \in 1 .. Len(s) /\ Len(s) - 1 + 1 = Len(s)
    BY <1>1
  <2> QED
    BY <1>3, <2>1, <2>2 DEF Linked
<1>7. \A i \in 1 .. Len(r) : l.prev[r[i]] = IF i = Len(r) THEN None ELSE r[i + 1]
  <2> SUFFICES ASSUME NEW i \in 1 .. Len(s)
               PROVE  l.prev[r[i]] = IF i = Len(s) THEN None ELSE r[i + 1]
    BY <1>3
  <2> DEFINE k == Len(s) - i + 1
  <2>1. k \in 1 .. Len(s) /\ (k = 1 <=> i = Len(s))
    BY <1>1
  <2>2. i # Len(s) => i + 1 \in 1 .. Len(s) /\ k - 1 = Len(s) - (i + 1) + 1
    BY <1>1
  <2>3. r[i] = s[k] /\ (i # Len(s) => r[i + 1] = s[k - 1])
    BY <1>3, <2>2
  <2> HIDE DEF k
  <2> QED
    BY <2>1, <2>3 DEF Linked
<1>8. Chain(l.tail, l.prev) = r
  <2> DEFINE first == l.tail
             link == l.prev
  <2>1. first = IF r = <<>> THEN None ELSE r[1]
    BY <1>6
  <2>2. \A i \in 1 .. Len(r) : link[r[i]] = IF i = Len(r) THEN None ELSE r[i + 1]
    BY <1>7
  <2>3. link \in Links
    BY <1>1
  <2> HIDE DEF first, link
  <2>4. r \in Seq(Nodes)
    BY <1>3
  <2>5. Chain(first, link) = r
    BY ONLY <1>5, <2>1, <2>2, <2>3, <2>4, ChainMeets
  <2> QED
    BY <2>5 DEF first, link
<1> QED
  BY <1>2, <1>8 DEF r

\* The empty list.
LEMMA NoListFacts == NoList \in Lists /\ Linked(NoList, <<>>)
BY DEF NoList, Lists, Linked, Links

\* One node in front of others.
LEMMA InFront ==
  ASSUME NEW S, NEW s \in Seq(S), NEW x \in S
  PROVE  /\ <<x>> \o s \in Seq(S) /\ Len(<<x>> \o s) = Len(s) + 1 /\ Len(s) \in Nat
         /\ (<<x>> \o s)[1] = x
         /\ \A i \in 1 .. Len(s) : (<<x>> \o s)[i + 1] = s[i]
         /\ \A i \in 2 .. Len(s) + 1 : (<<x>> \o s)[i] = s[i - 1]
         /\ ToSet(<<x>> \o s) = {x} \cup ToSet(s)
<1> DEFINE t == <<x>> \o s
<1>1. <<x>> \in Seq(S) /\ Len(<<x>>) = 1 /\ <<x>>[1] = x /\ Len(s) \in Nat
  OBVIOUS
<1>2. /\ t \in Seq(S) /\ Len(t) = Len(s) + 1
      /\ \A i \in 1 .. Len(s) + 1 : t[i] = IF i = 1 THEN x ELSE s[i - 1]
  BY <1>1, ConcatProperties
<1> HIDE DEF t
<1>3. \A i \in 1 .. Len(s) : i + 1 \in 1 .. Len(s) + 1 /\ i + 1 # 1 /\ (i + 1) - 1 = i
  BY <1>1
<1>4. \A i \in 1 .. Len(s) : t[i + 1] = s[i]
  BY <1>2, <1>3
<1>5. \A i \in 2 .. Len(s) + 1 : t[i] = s[i - 1]
  BY <1>1, <1>2
<1>6. ToSet(t) = {x} \cup ToSet(s)
  <2>1. ToSet(t) = {t[i] : i \in 1 .. Len(s) + 1} /\ ToSet(s) = {s[i] : i \in 1 .. Len(s)}
    <3>1. DOMAIN t = 1 .. Len(s) + 1 /\ DOMAIN s = 1 .. Len(s)
      BY <1>2
    <3> QED
      BY <3>1 DEF ToSet
  <2>2. ASSUME NEW y \in ToSet(t) PROVE y \in {x} \cup ToSet(s)
    <3>1. PICK i \in 1 .. Len(s) + 1 : y = t[i]
      BY <2>1
    <3>2. i = 1 \/ i - 1 \in 1 .. Len(s)
      BY <1>1
    <3> QED
      BY <1>2, <2>1, <3>1, <3>2
  <2>3. ASSUME NEW y \in {x} \cup ToSet(s) PROVE y \in ToSet(t)
    <3>1. CASE y = x
      BY <1>1, <1>2, <2>1, <3>1
    <3>2. CASE y \in ToSet(s)
      <4>1. PICK i \in 1 .. Len(s) : y = s[i]
        BY <2>1, <3>2
      <4> QED
        BY <1>3, <1>4, <2>1, <4>1
    <3> QED
      BY <2>3, <3>1, <3>2
  <2> QED
    BY <2>2, <2>3
<1>7. t[1] = x
  BY <1>1, <1>2
<1> QED
  BY <1>1, <1>2, <1>4, <1>5, <1>6, <1>7 DEF t

\* A new node is linked in front.
LEMMA AddFacts ==
  ASSUME NEW l \in Lists, NEW s, Linked(l, s), NEW n \in Nodes, n \notin ToSet(s)
  PROVE  /\ addAtFrontOfLRUCache(l, n) \in Lists
         /\ Linked(addAtFrontOfLRUCache(l, n), <<n>> \o s)
<1> DEFINE t == <<n>> \o s
           a == addAtFrontOfLRUCache(l, n)
<1>1. s \in Seq(Nodes) /\ Len(s) \in Nat /\ \A i \in 1 .. Len(s) : s[i] \in Nodes /\ s[i] # n
  BY DEF Linked, ToSet
<1>2. /\ t \in Seq(Nodes) /\ Len(t) = Len(s) + 1 /\ t[1] = n
      /\ \A i \in 2 .. Len(s) + 1 : t[i] = s[i - 1]
  BY <1>1, InFront
<1>3. /\ l.head \in Nodes \cup {None} /\ l.tail \in Nodes \cup {None}
      /\ l.prev \in [Nodes -> Nodes \cup {None}] /\ l.next \in [Nodes -> Nodes \cup {None}]
  BY DEF Lists, Links
<1>4. /\ a.head = n /\ a.tail = (IF l.head = None THEN n ELSE l.tail)
      /\ a.next = [l.next EXCEPT ![n] = l.head]
      /\ \A m \in Nodes : a.prev[m] = IF m = n THEN None ELSE IF m = l.head THEN n ELSE l.prev[m]
  BY DEF addAtFrontOfLRUCache
<1>5. a \in Lists
  <2>1. a.prev \in Links /\ a.next \in Links
    BY <1>3 DEF addAtFrontOfLRUCache, Links
  <2> QED
    BY <1>3, <2>1 DEF addAtFrontOfLRUCache, Lists
<1> HIDE DEF a, t
<1>6. /\ \A i, j \in 1 .. Len(s) : s[i] = s[j] => i = j
      /\ l.head = IF s = <<>> THEN None ELSE s[1]
      /\ l.tail = IF s = <<>> THEN None ELSE s[Len(s)]
      /\ \A i \in 1 .. Len(s) : l.next[s[i]] = IF i = Len(s) THEN None ELSE s[i + 1]
      /\ \A i \in 1 .. Len(s) : l.prev[s[i]] = IF i = 1 THEN None ELSE s[i - 1]
  BY DEF Linked
<1>7. s = <<>> <=> Len(s) = 0
  BY <1>1
<1>8. \A i \in 1 .. Len(t) : (i = 1 /\ t[i] = n) \/ (i - 1 \in 1 .. Len(s) /\ i # 1 /\ t[i] = s[i - 1])
  BY <1>1, <1>2
<1>9. \A i, j \in 1 .. Len(t) : t[i] = t[j] => i = j
  <2> SUFFICES ASSUME NEW i \in 1 .. Len(t), NEW j \in 1 .. Len(t), t[i] = t[j] PROVE i = j
    OBVIOUS
  <2> DEFINE p == i - 1
             q == j - 1
  <2>1. (i = 1 /\ t[i] = n) \/ (p \in 1 .. Len(s) /\ i # 1 /\ t[i] = s[p])
    BY <1>8
  <2>2. (j = 1 /\ t[j] = n) \/ (q \in 1 .. Len(s) /\ j # 1 /\ t[j] = s[q])
    BY <1>8
  <2>3. p = q => i = j
    BY <1>1, <1>2
  <2> HIDE DEF p, q
  <2> QED
    BY <1>1, <1>6, <2>1, <2>2, <2>3
<1>10. a.head = IF t = <<>> THEN None ELSE t[1]
  <2>1. t # <<>>
    BY <1>1, <1>2
  <2> QED
    BY <1>2, <1>4, <2>1
<1>11. a.tail = IF t = <<>> THEN None ELSE t[Len(t)]
  <2>1. t # <<>>
    BY <1>1, <1>2
  <2>2. CASE s = <<>>
    BY <1>2, <1>4, <1>6, <1>7, <2>1, <2>2
  <2>3. CASE s # <<>>
    <3>1. l.head # None
      BY <1>1, <1>6, <1>7, <2>3, NoneIsNoNode
    <3>2. t[Len(t)] = s[Len(s)]
      BY <1>1, <1>2, <1>7, <2>3
    <3> QED
      BY <1>4, <1>6, <2>1, <2>3, <3>1, <3>2
  <2> QED
    BY <2>2, <2>3
<1>12. ASSUME NEW i \in 1 .. Len(t)
       PROVE  a.next[t[i]] = IF i = Len(t) THEN None ELSE t[i + 1]
  <2>1. CASE i = 1
    <3>1. a.next[t[i]] = l.head
      BY <1>2, <1>3, <1>4, <2>1
    <3>2. CASE s = <<>>
      BY <1>2, <1>6, <1>7, <2>1, <3>1, <3>2
    <3>3. CASE s # <<>>
      BY <1>1, <1>2, <1>6, <1>7, <2>1, <3>1, <3>3
    <3> QED
      BY <3>2, <3>3
  <2>2. CASE i # 1
    <3> DEFINE p == i - 1
    <3>1. p \in 1 .. Len(s) /\ t[i] = s[p]
      BY <1>8, <2>2
    <3>2. (i = Len(t) <=> p = Len(s)) /\ (i # Len(t) => t[i + 1] = s[p + 1])
      <4> DEFINE q == i + 1
      <4>1. (i = Len(t) <=> p = Len(s)) /\ p + 1 = q - 1 /\ (i # Len(t) => q \in 2 .. Len(s) + 1)
        BY <1>1, <1>2, <2>2
      <4> HIDE DEF p, q
      <4>2. i # Len(t) => t[q] = s[q - 1]
        BY <1>2, <4>1
      <4> QED
        BY <4>1, <4>2 DEF q
    <3>3. s[p] \in Nodes /\ s[p] # n
      BY <1>1, <3>1
    <3> HIDE DEF p
    <3>4. a.next[t[i]] = l.next[s[p]]
      BY <1>3, <1>4, <3>1, <3>3
    <3> QED
      BY <1>6, <3>1, <3>2, <3>4
  <2> QED
    BY <2>1, <2>2
<1>13. ASSUME NEW i \in 1 .. Len(t)
       PROVE  a.prev[t[i]] = IF i = 1 THEN None ELSE t[i - 1]
  <2>1. CASE i = 1
    BY <1>2, <1>4, <2>1
  <2>2. CASE i = 2
    <3>1. t[i] = s[1] /\ 1 \in 1 .. Len(s) /\ s # <<>>
      BY <1>1, <1>2, <1>7, <2>2
    <3>2. s[1] \in Nodes /\ s[1] # n /\ s[1] = l.head
      BY <1>1, <1>6, <3>1
    <3>3. a.prev[s[1]] = n
      BY <1>4, <3>2
    <3>4. t[i - 1] = n
      BY <1>2, <2>2
    <3> QED
      BY <2>2, <3>1, <3>3, <3>4
  <2>3. CASE i # 1 /\ i # 2
    <3> DEFINE p == i - 1
    <3>1. p \in 2 .. Len(s) /\ t[i] = s[p] /\ t[i - 1] = s[p - 1]
      BY <1>1, <1>2, <2>3
    <3>2. p \in 1 .. Len(s) /\ 1 \in 1 .. Len(s) /\ p # 1 /\ s # <<>>
      BY <1>1, <1>7, <3>1
    <3> HIDE DEF p
    <3>3. s[p] \in Nodes /\ s[p] # n /\ s[p] # l.head
      BY <1>1, <1>6, <3>2
    <3>4. a.prev[s[p]] = l.prev[s[p]]
      BY <1>4, <3>3
    <3> QED
      BY <1>6, <2>3, <3>1, <3>2, <3>4
  <2> QED
    BY <2>1, <2>2, <2>3
<1>14. Linked(a, t)
  BY <1>2, <1>9, <1>10, <1>11, <1>12, <1>13 DEF Linked
<1> QED
  BY <1>5, <1>14 DEF a, t

\* All but the last node.
LEMMA AllButLast ==
  ASSUME NEW S, NEW s \in Seq(S), s # <<>>
  PROVE  /\ Len(s) \in Nat \ {0}
         /\ SubSeq(s, 1, Len(s) - 1) \in Seq(S)
         /\ Len(SubSeq(s, 1, Len(s) - 1)) = Len(s) - 1
         /\ \A i \in 1 .. Len(s) - 1 : SubSeq(s, 1, Len(s) - 1)[i] = s[i]
<1>1. Len(s) \in Nat \ {0}
  OBVIOUS
<1> DEFINE m == Len(s) - 1
<1>2. 1 \in Int /\ m \in Nat /\ m - 1 + 1 = m /\ \A i \in 1 .. m : s[i] \in S
  BY <1>1
<1> HIDE DEF m
<1>3. /\ SubSeq(s, 1, m) \in Seq(S)
      /\ Len(SubSeq(s, 1, m)) = IF 1 <= m THEN m - 1 + 1 ELSE 0
      /\ \A i \in 1 .. m - 1 + 1 : SubSeq(s, 1, m)[i] = s[1 + i - 1]
  BY ONLY <1>2, SubSeqProperties
<1>4. Len(SubSeq(s, 1, m)) = m /\ \A i \in 1 .. m : SubSeq(s, 1, m)[i] = s[i]
  BY <1>1, <1>2, <1>3
<1> QED
  BY <1>1, <1>3, <1>4 DEF m

\* The last node is unlinked.
LEMMA RemoveLastFacts ==
  ASSUME NEW l \in Lists, NEW s, Linked(l, s), s # <<>>
  PROVE  /\ l.tail = s[Len(s)] /\ l.tail \in Nodes
         /\ removeFromLRUCache(l) \in Lists
         /\ Linked(removeFromLRUCache(l), SubSeq(s, 1, Len(s) - 1))
<1> DEFINE t == SubSeq(s, 1, Len(s) - 1)
           a == removeFromLRUCache(l)
           before == l.prev[l.tail]
<1>1. /\ s \in Seq(Nodes) /\ Len(s) \in Nat \ {0} /\ Len(s) \in 1 .. Len(s)
      /\ \A i \in 1 .. Len(s) : s[i] \in Nodes
  BY AllButLast DEF Linked
<1>2. /\ t \in Seq(Nodes) /\ Len(t) = Len(s) - 1
      /\ \A i \in 1 .. Len(s) - 1 : t[i] = s[i]
  BY <1>1, AllButLast
<1>3. /\ l.head \in Nodes \cup {None} /\ l.tail \in Nodes \cup {None}
      /\ l.prev \in [Nodes -> Nodes \cup {None}] /\ l.next \in [Nodes -> Nodes \cup {None}]
  BY DEF Lists, Links
<1>4. /\ \A i, j \in 1 .. Len(s) : s[i] = s[j] => i = j
      /\ l.head = s[1] /\ l.tail = s[Len(s)]
      /\ \A i \in 1 .. Len(s) : l.next[s[i]] = IF i = Len(s) THEN None ELSE s[i + 1]
      /\ \A i \in 1 .. Len(s) : l.prev[s[i]] = IF i = 1 THEN None ELSE s[i - 1]
  BY DEF Linked
<1>5. l.tail \in Nodes /\ before \in Nodes \cup {None}
      /\ before = IF Len(s) = 1 THEN None ELSE s[Len(s) - 1]
  <2>1. l.tail \in Nodes /\ l.tail = s[Len(s)]
    BY <1>1, <1>4
  <2>2. l.prev[s[Len(s)]] = IF Len(s) = 1 THEN None ELSE s[Len(s) - 1]
    BY <1>1, <1>4
  <2> QED
    BY <1>3, <2>1, <2>2
<1>6. /\ a.head = (IF before = None THEN None ELSE l.head) /\ a.tail = before
      /\ \A m \in Nodes : a.next[m] = IF m = before THEN None ELSE l.next[m]
      /\ a.prev = [l.prev EXCEPT ![l.tail] = None]
  BY DEF removeFromLRUCache
<1>7. a \in Lists
  <2>1. a.prev \in Links /\ a.next \in Links
    BY <1>3, <1>5 DEF removeFromLRUCache, Links
  <2> QED
    BY <1>3, <1>5, <2>1 DEF removeFromLRUCache, Lists
<1> HIDE DEF a, t, before
<1>8. \A i \in 1 .. Len(t) : i \in 1 .. Len(s) /\ i # Len(s) /\ t[i] = s[i] /\ Len(s) # 1
  BY <1>1, <1>2
<1>9. before = None <=> Len(s) = 1
  <2>1. Len(s) # 1 => s[Len(s) - 1] \in Nodes
    <3> DEFINE z == Len(s)
    <3>1. z \in Nat \ {0} /\ \A i \in 1 .. z : s[i] \in Nodes
      BY <1>1
    <3> HIDE DEF z
    <3>2. z # 1 => z - 1 \in 1 .. z
      BY <3>1
    <3>3. z # 1 => s[z - 1] \in Nodes
      BY <3>1, <3>2
    <3> QED
      BY <3>3 DEF z
  <2> QED
    BY <1>5, <2>1, NoneIsNoNode
<1>10. a.head = (IF t = <<>> THEN None ELSE t[1]) /\ a.tail = (IF t = <<>> THEN None ELSE t[Len(t)])
  <2>1. CASE Len(s) = 1
    <3>1. t = <<>>
      BY <1>2, <2>1
    <3> QED
      BY <1>6, <1>9, <2>1, <3>1
  <2>2. CASE Len(s) # 1
    <3>1. t # <<>> /\ t[1] = s[1] /\ t[Len(t)] = s[Len(s) - 1]
      BY <1>1, <1>2, <2>2
    <3> QED
      BY <1>4, <1>5, <1>6, <1>9, <2>2, <3>1
  <2> QED
    BY <2>1, <2>2
<1>11. ASSUME NEW i \in 1 .. Len(t), NEW j \in 1 .. Len(t), t[i] = t[j] PROVE i = j
  BY <1>4, <1>8, <1>11
<1>12. ASSUME NEW i \in 1 .. Len(t)
       PROVE  a.next[t[i]] = IF i = Len(t) THEN None ELSE t[i + 1]
  <2>1. i \in 1 .. Len(s) /\ i # Len(s) /\ t[i] = s[i] /\ s[i] \in Nodes
    BY <1>1, <1>8
  <2>2. before = s[Len(s) - 1]
    BY <1>5, <1>8
  <2>3. s[i] = before <=> i = Len(t)
    <3>1. Len(s) - 1 \in 1 .. Len(s)
      BY <1>1, <2>1
    <3> QED
      BY <1>2, <1>4, <2>1, <2>2, <3>1
  <2>4. i # Len(t) => t[i + 1] = s[i + 1]
    BY <1>1, <1>2
  <2> QED
    BY <1>4, <1>6, <2>1, <2>3, <2>4
<1>13. ASSUME NEW i \in 1 .. Len(t)
       PROVE  a.prev[t[i]] = IF i = 1 THEN None ELSE t[i - 1]
  <2>1. i \in 1 .. Len(s) /\ i # Len(s) /\ t[i] = s[i] /\ s[i] \in Nodes
    BY <1>1, <1>8
  <2>2. s[i] # l.tail
    BY <1>1, <1>4, <2>1
  <2>3. a.prev[s[i]] = l.prev[s[i]]
    BY <1>3, <1>6, <2>1, <2>2
  <2>4. i # 1 => t[i - 1] = s[i - 1]
    BY <1>1, <1>2
  <2> QED
    BY <1>4, <2>1, <2>3, <2>4
<1>14. Linked(a, t)
  BY <1>2, <1>10, <1>11, <1>12, <1>13 DEF Linked
<1> QED
  BY <1>4, <1>5, <1>7, <1>14 DEF a, t

\* A member moved to the front of a sequence.
LEMMA Moved ==
  ASSUME NEW S, NEW s \in Seq(S), NEW k \in 1 .. Len(s)
  PROVE  LET t == <<s[k]>> \o RemoveAt(s, k)
         IN  /\ t \in Seq(S) /\ Len(t) = Len(s) /\ t[1] = s[k]
             /\ \A i \in 2 .. k : t[i] = s[i - 1]
             /\ \A i \in k + 1 .. Len(s) : t[i] = s[i]
<1> DEFINE n == s[k]
           r == RemoveAt(s, k)
           t == <<n>> \o r
           z == Len(s)
<1>1. z \in Nat /\ k \in 1 .. z /\ n \in S /\ DOMAIN s = 1 .. z /\ s \in Seq(S)
  OBVIOUS
<1>2. /\ r \in Seq(S) /\ Len(r) = z - 1
      /\ \A i \in 1 .. z - 1 : r[i] = IF i < k THEN s[i] ELSE s[i + 1]
  <2>1. s \in Seq(S) /\ k \in DOMAIN s
    BY <1>1
  <2> QED
    BY ONLY <2>1, RemoveAtFacts
<1> HIDE DEF n, r, z
<1>3. /\ t \in Seq(S) /\ Len(t) = Len(r) + 1 /\ t[1] = n
      /\ \A i \in 2 .. Len(r) + 1 : t[i] = r[i - 1]
  BY ONLY <1>1, <1>2, InFront
<1> HIDE DEF t
<1>4. Len(t) = z /\ \A i \in 2 .. z : t[i] = r[i - 1]
  BY <1>1, <1>2, <1>3
<1>5. ASSUME NEW i \in 2 .. k PROVE t[i] = s[i - 1]
  <2> DEFINE p == i - 1
  <2>1. p \in 1 .. z - 1 /\ p < k /\ i \in 2 .. z
    BY <1>1
  <2>2. t[i] = r[p]
    BY <1>4, <2>1
  <2> HIDE DEF p
  <2>3. r[p] = s[p]
    BY <1>2, <2>1
  <2> QED
    BY <2>2, <2>3 DEF p
<1>6. ASSUME NEW i \in k + 1 .. z PROVE t[i] = s[i]
  <2> DEFINE p == i - 1
  <2>1. p \in 1 .. z - 1 /\ ~(p < k) /\ i \in 2 .. z /\ p + 1 = i
    BY <1>1
  <2>2. t[i] = r[p]
    BY <1>4, <2>1
  <2> HIDE DEF p
  <2>3. r[p] = s[p + 1]
    BY <1>2, <2>1
  <2> QED
    BY <2>1, <2>2, <2>3
<1> QED
  BY <1>3, <1>4, <1>5, <1>6 DEF t, n, r, z

\* A node is moved to the front.
LEMMA MoveFacts ==
  ASSUME NEW l \in Lists, NEW s, Linked(l, s), NEW k \in 1 .. Len(s)
  PROVE  /\ moveToFront(l, s[k]) \in Lists
         /\ Linked(moveToFront(l, s[k]), <<s[k]>> \o RemoveAt(s, k))
<1> DEFINE n == s[k]
           t == <<n>> \o RemoveAt(s, k)
           a == moveToFront(l, n)
           before == l.prev[n]
           after == l.next[n]
           z == Len(s)
<1>1. /\ s \in Seq(Nodes) /\ z \in Nat /\ 1 <= z /\ s # <<>> /\ k \in 1 .. z
      /\ 1 \in 1 .. z /\ z \in 1 .. z
      /\ \A i \in 1 .. z : s[i] \in Nodes
  BY DEF Linked
<1>2. /\ t \in Seq(Nodes) /\ Len(t) = z /\ t[1] = n
      /\ \A i \in 2 .. k : t[i] = s[i - 1]
      /\ \A i \in k + 1 .. z : t[i] = s[i]
  BY <1>1, Moved
<1>3. /\ l.head \in Nodes \cup {None} /\ l.tail \in Nodes \cup {None}
      /\ l.prev \in [Nodes -> Nodes \cup {None}] /\ l.next \in [Nodes -> Nodes \cup {None}]
  BY DEF Lists, Links
<1>4. /\ \A i, j \in 1 .. z : s[i] = s[j] => i = j
      /\ l.head = s[1] /\ l.tail = s[z]
      /\ \A i \in 1 .. z : l.next[s[i]] = IF i = z THEN None ELSE s[i + 1]
      /\ \A i \in 1 .. z : l.prev[s[i]] = IF i = 1 THEN None ELSE s[i - 1]
  BY <1>1 DEF Linked
<1>5. n \in Nodes /\ n = s[k]
  BY <1>1
<1>6. /\ l.head = n <=> k = 1
      /\ l.tail = n <=> k = z
  BY <1>1, <1>4
<1>7. CASE k = 1
  <2>1. a = l
    BY <1>6, <1>7 DEF moveToFront
  <2>2. t = s
    <3> HIDE DEF t
    <3>1. \A i \in 1 .. z : t[i] = s[i]
      <4>1. \A i \in 1 .. z : i = 1 \/ i \in 2 .. z
        BY <1>1
      <4> QED
        BY <1>2, <1>7, <4>1
    <3>2. Len(t) = Len(s) /\ t \in Seq(Nodes) /\ \A i \in 1 .. Len(s) : t[i] = s[i]
      BY <1>2, <3>1
    <3> QED
      BY <1>1, <3>2, SeqEqual
  <2> QED
    BY <2>1, <2>2
<1>8. CASE k # 1
  <2> DEFINE b == k - 1
             c == k + 1
  <2>1. b \in 1 .. z /\ b # k /\ b # z /\ b + 1 = k /\ (k # z => c \in 1 .. z /\ c # 1 /\ c # k /\ c # b)
    BY <1>1, <1>8
  <2>2. before = s[b] /\ after = IF k = z THEN None ELSE s[c]
    <3>1. l.prev[s[k]] = s[k - 1] /\ l.next[s[k]] = IF k = z THEN None ELSE s[k + 1]
      BY <1>1, <1>4, <1>8
    <3> QED
      BY <3>1
  <2>3. a = [head |-> n, tail |-> IF l.tail = n THEN before ELSE l.tail,
             next |-> [m \in Nodes |-> IF m = n THEN l.head ELSE IF m = before THEN after
                                       ELSE l.next[m]],
             prev |-> [m \in Nodes |-> IF m = n THEN None ELSE IF m = l.head THEN n
                                       ELSE IF m = after THEN before ELSE l.prev[m]]]
    BY <1>6, <1>8 DEF moveToFront
  <2> HIDE DEF a, n, before, after, t, z, b, c
  <2>4. before \in Nodes /\ after \in Nodes \cup {None} /\ (after = None <=> k = z)
    BY <1>1, <2>1, <2>2, NoneIsNoNode
  <2>5. /\ a.head = n /\ a.tail = (IF l.tail = n THEN before ELSE l.tail)
        /\ \A m \in Nodes : a.next[m] = IF m = n THEN l.head ELSE IF m = before THEN after
                                        ELSE l.next[m]
        /\ \A m \in Nodes : a.prev[m] = IF m = n THEN None ELSE IF m = l.head THEN n
                                        ELSE IF m = after THEN before ELSE l.prev[m]
    BY <2>3
  <2>6. a \in Lists
    <3>1. \A m \in Nodes :
            /\ (IF m = n THEN l.head ELSE IF m = before THEN after ELSE l.next[m])
                 \in Nodes \cup {None}
            /\ (IF m = n THEN None ELSE IF m = l.head THEN n ELSE IF m = after THEN before
                ELSE l.prev[m]) \in Nodes \cup {None}
      BY <1>3, <1>5, <2>4
    <3>2. (IF l.tail = n THEN before ELSE l.tail) \in Nodes \cup {None} /\ n \in Nodes \cup {None}
      BY <1>3, <1>5, <2>4
    <3> QED
      BY <2>3, <3>1, <3>2 DEF Lists, Links
  \* Where the nodes were.
  <2> DEFINE at(x) == IF x = 1 THEN k ELSE IF x <= k THEN x - 1 ELSE x
  <2>7. \A x \in 1 .. z : t[x] = s[at(x)] /\ at(x) \in 1 .. z
    <3>1. \A x \in 1 .. z : x = 1 \/ x \in 2 .. k \/ x \in k + 1 .. z
      BY <1>1
    <3>2. \A x \in 2 .. k : x # 1 /\ x <= k /\ x - 1 \in 1 .. z
      BY <1>1
    <3>3. \A x \in k + 1 .. z : x # 1 /\ ~(x <= k) /\ x \in 1 .. z
      BY <1>1
    <3> QED
      BY <1>1, <1>2, <1>5, <3>1, <3>2, <3>3
  <2>8. \A i, j \in 1 .. z : at(i) = at(j) => i = j
    BY <1>1
  <2>9. ASSUME NEW i \in 1 .. z, NEW j \in 1 .. z, t[i] = t[j] PROVE i = j
    <3> DEFINE p == at(i)
               q == at(j)
    <3>1. p \in 1 .. z /\ q \in 1 .. z /\ s[p] = s[q] /\ (p = q => i = j)
      <4> HIDE DEF at
      <4> QED
        BY <2>7, <2>8, <2>9
    <3> HIDE DEF p, q
    <3> QED
      BY <1>4, <3>1
  <2>10. a.head = t[1] /\ a.tail = t[z] /\ t # <<>>
    <3>1. t # <<>>
      BY <1>1, <1>2
    <3>2. CASE k = z
      <4>1. z \in 2 .. k /\ z - 1 = b
        BY <1>1, <1>8, <3>2 DEF b
      <4>2. t[z] = s[b]
        BY <1>2, <4>1
      <4> QED
        BY <1>2, <1>6, <2>2, <2>5, <3>1, <3>2, <4>2
    <3>3. CASE k # z
      <4>1. z \in k + 1 .. z
        BY <1>1, <3>3
      <4>2. t[z] = s[z]
        BY <1>2, <4>1
      <4> QED
        BY <1>2, <1>4, <1>6, <2>5, <3>1, <3>3, <4>2
    <3> QED
      BY <3>2, <3>3
  <2>11. ASSUME NEW i \in 1 .. z
         PROVE  a.next[t[i]] = IF i = z THEN None ELSE t[i + 1]
    <3> DEFINE p == i - 1
               q == i + 1
    <3>1. CASE i = 1
      <4>1. a.next[t[i]] = s[1]
        BY <1>2, <1>4, <1>5, <2>5, <3>1
      <4>2. i # z /\ q \in 2 .. k /\ q - 1 = 1
        BY <1>1, <1>8, <3>1
      <4> HIDE DEF q
      <4>3. t[q] = s[1]
        BY <1>2, <4>2
      <4> QED
        BY <4>1, <4>2, <4>3 DEF q
    <3>2. CASE i # 1 /\ i < k
      <4>1. /\ p \in 1 .. z /\ p # k /\ p # b /\ p # z /\ i # z /\ i \in 2 .. k /\ p = i - 1
            /\ q \in 2 .. k /\ q - 1 = i /\ p + 1 = i
        BY <1>1, <3>2 DEF b
      <4> HIDE DEF p, q
      <4>2. t[i] = s[p] /\ t[q] = s[i]
        BY <1>2, <4>1
      <4>3. s[p] # n /\ s[p] # before /\ s[p] \in Nodes
        BY <1>1, <1>4, <1>5, <2>1, <2>2, <4>1
      <4>4. a.next[t[i]] = l.next[s[p]] /\ l.next[s[p]] = s[i]
        BY <1>4, <2>5, <4>1, <4>2, <4>3
      <4> QED
        BY <4>1, <4>2, <4>4 DEF q
    <3>3. CASE i = k
      <4>1. i \in 2 .. k /\ i - 1 = b /\ (k # z => c \in k + 1 .. z /\ q = c)
        BY <1>1, <1>8, <3>3 DEF b, c
      <4> HIDE DEF q
      <4>2. t[i] = before /\ (k # z => t[q] = s[c])
        BY <1>2, <2>2, <4>1
      <4>3. before # n
        BY <1>1, <1>4, <1>5, <2>1, <2>2
      <4>4. a.next[t[i]] = after
        BY <2>4, <2>5, <4>2, <4>3
      <4> QED
        BY <2>2, <3>3, <4>2, <4>4 DEF q
    <3>4. CASE i > k
      <4>1. i \in k + 1 .. z /\ i # k /\ i # b /\ (i # z => q \in k + 1 .. z)
        BY <1>1, <3>4 DEF b
      <4> HIDE DEF q
      <4>2. t[i] = s[i] /\ (i # z => t[q] = s[q])
        BY <1>2, <4>1
      <4>3. s[i] # n /\ s[i] # before /\ s[i] \in Nodes
        BY <1>1, <1>4, <1>5, <2>1, <2>2, <4>1
      <4>4. a.next[t[i]] = l.next[s[i]] /\ l.next[s[i]] = IF i = z THEN None ELSE s[q]
        BY <1>4, <2>5, <4>2, <4>3 DEF q
      <4> QED
        BY <4>2, <4>4 DEF q
    <3>5. i = 1 \/ (i # 1 /\ i < k) \/ i = k \/ i > k
      BY <1>1
    <3> QED
      BY <3>1, <3>2, <3>3, <3>4, <3>5
  <2>12. ASSUME NEW i \in 1 .. z
         PROVE  a.prev[t[i]] = IF i = 1 THEN None ELSE t[i - 1]
    <3> DEFINE p == i - 1
               q == p - 1
    <3>1. CASE i = 1
      BY <1>2, <1>5, <2>5, <3>1
    <3>2. CASE i = 2
      <4>1. i \in 2 .. k /\ i - 1 = 1
        BY <1>1, <1>8, <3>2
      <4>2. t[i] = s[1] /\ t[i - 1] = n
        BY <1>2, <4>1
      <4>3. s[1] \in Nodes /\ s[1] # n /\ s[1] = l.head
        BY <1>1, <1>4, <1>5, <1>8
      <4>4. a.prev[s[1]] = n
        BY <2>5, <4>3
      <4> QED
        BY <3>2, <4>2, <4>4
    <3>3. CASE i > 2 /\ i <= k
      <4>1. /\ p \in 1 .. z /\ p # k /\ p # 1 /\ (k # z => p # c)
            /\ i \in 2 .. k /\ p = i - 1 /\ p \in 2 .. k /\ i # 1
        BY <1>1, <3>3 DEF c
      <4> HIDE DEF p
      <4>2. t[i] = s[p] /\ t[p] = s[p - 1]
        BY <1>2, <4>1
      <4>3. s[p] # n /\ s[p] # l.head /\ s[p] \in Nodes
        BY <1>1, <1>4, <1>5, <4>1
      <4>4. s[p] # after
        BY <1>1, <1>4, <2>1, <2>2, <2>4, <4>1, <4>3, NoneIsNoNode
      <4>5. a.prev[t[i]] = l.prev[s[p]] /\ l.prev[s[p]] = s[p - 1]
        BY <1>4, <2>5, <4>1, <4>2, <4>3, <4>4
      <4> QED
        BY <4>1, <4>2, <4>5 DEF p
    <3>4. CASE i = k + 1 /\ i > 2
      <4>1. k # z /\ i \in k + 1 .. z /\ i = c /\ i # 1 /\ p = k /\ k \in 2 .. k /\ k - 1 = b
        BY <1>1, <1>8, <3>4 DEF b, c
      <4> HIDE DEF p
      <4>2. t[i] = s[c] /\ t[p] = s[b]
        BY <1>2, <4>1
      <4>3. after = s[c] /\ s[c] # n /\ s[c] # l.head /\ s[c] \in Nodes
        BY <1>1, <1>4, <1>5, <2>1, <2>2, <4>1
      <4>4. a.prev[s[c]] = before
        BY <2>5, <4>3
      <4> QED
        BY <2>2, <4>1, <4>2, <4>4 DEF p
    <3>5. CASE i > k + 1
      <4>1. /\ i \in k + 1 .. z /\ i # k /\ i # 1 /\ p \in k + 1 .. z /\ (k # z => i # c)
        BY <1>1, <3>5 DEF c
      <4> HIDE DEF p
      <4>2. t[i] = s[i] /\ t[p] = s[p]
        BY <1>2, <4>1
      <4>3. s[i] # n /\ s[i] # l.head /\ s[i] \in Nodes
        BY <1>1, <1>4, <1>5, <4>1
      <4>4. s[i] # after
        BY <1>1, <1>4, <2>1, <2>2, <2>4, <4>1, <4>3, NoneIsNoNode
      <4>5. a.prev[t[i]] = l.prev[s[i]] /\ l.prev[s[i]] = s[p]
        BY <1>4, <2>5, <4>1, <4>2, <4>3, <4>4 DEF p
      <4> QED
        BY <4>1, <4>2, <4>5 DEF p
    <3>6. i = 1 \/ i = 2 \/ (i > 2 /\ i <= k) \/ (i = k + 1 /\ i > 2) \/ i > k + 1
      BY <1>1
    <3> QED
      BY <3>1, <3>2, <3>3, <3>4, <3>5, <3>6
  <2>13. Linked(a, t)
    BY <1>2, <2>9, <2>10, <2>11, <2>12 DEF Linked
  <2> QED
    BY <2>6, <2>13 DEF a, n, t
<1> QED
  BY <1>7, <1>8

(***************************************************************************)
(* The inductive invariant.                                                *)
(***************************************************************************)
\* A bucket with a node has the key of that node, which is one of L; each of L
\* has a bucket; no key has two.
Listed(b, ks, L) ==
  /\ \A i \in DOMAIN b :
       b[i] # None /\ b[i].node # None => b[i].node \in L /\ ks[b[i].node] = b[i].key
  /\ \A n \in L : \E i \in DOMAIN b : b[i] = [key |-> ks[n], node |-> n]
  /\ \A i, j \in DOMAIN b : b[i] # None /\ b[j] # None /\ b[i].key = b[j].key => i = j

\* Every bucket in use has a node.
Whole(b) == \A i \in DOMAIN b : b[i] # None => b[i].node # None

Tables == [0 .. capacity - 1 -> HashNodes \cup {None}]

\* The list links the nodes of Recency, which are those allocated, but for a head
\* that was freed; the table lists the allocated nodes; damage has its cause.
ListSound ==
  /\ Linked(list, Recency)
  /\ Len(Recency) = size
  /\ damage \in {"none", "bucket"} => ToSet(Recency) = live
  /\ damage = "list" => Recency # <<>> /\ Recency[1] \notin live /\ ToSet(Tail(Recency)) = live

TableSound ==
  /\ Listed(buckets, key, live)
  /\ damage = "none" => Whole(buckets)

DamageSound ==
  /\ damage # "none" => MemoryMayFail
  /\ damage = "undefined" => ended

Invariant == TypeOK /\ ListSound /\ TableSound /\ DamageSound

\* What the types say that the proofs use.
LEMMA TypeFacts ==
  ASSUME TypeOK
  PROVE  /\ list \in Lists /\ live \in SUBSET Nodes
         /\ key \in [Nodes -> Keys \cup {None}] /\ data \in [Nodes -> Data \cup {None}]
         /\ buckets \in Tables /\ DOMAIN buckets = 0 .. capacity - 1
         /\ capacity \in Nat /\ size \in 0 .. capacity
         /\ \A i \in DOMAIN buckets : buckets[i] # None =>
              /\ buckets[i].key \in Keys /\ buckets[i].node \in Nodes \cup {None}
              /\ buckets[i] = [key |-> buckets[i].key, node |-> buckets[i].node]
         /\ capacity # 0 => capacity \in Nat \ {0}
<1>1. capacity \in Nat
  BY CapacitiesAssumption DEF TypeOK
<1>2. buckets \in Tables /\ DOMAIN buckets = 0 .. capacity - 1
  BY DEF TypeOK, Tables
<1>3. ASSUME NEW i \in DOMAIN buckets, buckets[i] # None
      PROVE  /\ buckets[i].key \in Keys /\ buckets[i].node \in Nodes \cup {None}
             /\ buckets[i] = [key |-> buckets[i].key, node |-> buckets[i].node]
  <2>1. buckets[i] \in HashNodes
    BY <1>2, <1>3 DEF Tables
  <2> QED
    BY <2>1 DEF HashNodes
<1> QED
  BY <1>1, <1>2, <1>3 DEF TypeOK, Lists

\* The sequence of a list that links it.
LEMMA RecencyIs ==
  ASSUME NEW l \in Lists, NEW s, Linked(l, s)
  PROVE  Chain(l.head, l.next) = s /\ Linked(l, Chain(l.head, l.next))
BY LinkedChains

\* What the cache holds at first.
LEMMA InitInvariant == Init => Invariant
<1> SUFFICES ASSUME Init PROVE Invariant
  OBVIOUS
<1>1. TypeOK
  <2>1. buckets \in [0 .. capacity - 1 -> HashNodes \cup {None}]
    <3>1. 0 .. 0 - 1 = {} /\ DOMAIN <<>> = {} /\ <<>> = [i \in {} |-> None]
      OBVIOUS
    <3> QED
      BY <3>1 DEF Init
  <2>2. list \in [head : Nodes \cup {None}, tail : Nodes \cup {None}, prev : Links, next : Links]
    BY NoListFacts DEF Init, Lists
  <2>3. /\ key \in [Nodes -> Keys \cup {None}] /\ data \in [Nodes -> Data \cup {None}]
        /\ live \in SUBSET Nodes
    BY DEF Init
  <2>4. capacity \in Capacities \cup {0} /\ size \in 0 .. capacity /\ shown \in Data \cup {None}
    BY DEF Init
  <2>5. ended \in BOOLEAN /\ damage \in {"none", "bucket", "list", "undefined"}
    BY DEF Init
  <2> QED
    BY <2>1, <2>2, <2>3, <2>4, <2>5 DEF TypeOK
<1>2. Recency = <<>> /\ Linked(list, Recency)
  BY NoListFacts, RecencyIs DEF Init, Recency
<1>3. ListSound
  <2>1. ToSet(<<>>) = {} /\ Len(<<>>) = 0
    BY DEF ToSet
  <2> QED
    BY <1>2, <2>1 DEF Init, ListSound
<1>4. TableSound
  <2>1. DOMAIN <<>> = {}
    OBVIOUS
  <2> QED
    BY <2>1 DEF Init, TableSound, Listed, Whole
<1> QED
  BY <1>1, <1>3, <1>4 DEF Invariant, DamageSound, Init

(***************************************************************************)
(* Eviction.                                                               *)
(***************************************************************************)
\* The structure that an eviction leaves, in terms of what was there: s has room
\* for one more, and holds the nodes of r.
Leaves(s, r) ==
  /\ s.list \in Lists /\ Linked(s.list, r) /\ r \in Seq(Nodes)
  /\ Len(r) = s.size /\ s.size \in 0 .. capacity - 1
  /\ ToSet(r) = s.live /\ s.live \in SUBSET live
  /\ s.key \in [Nodes -> Keys \cup {None}] /\ s.data \in [Nodes -> Data \cup {None}]
  /\ \A n \in s.live : s.key[n] = key[n] /\ s.data[n] = data[n]
  /\ s.buckets \in Tables
  /\ \A i \in 0 .. capacity - 1 : s.buckets[i] = buckets[i] \/ s.buckets[i] = None
  /\ Listed(s.buckets, s.key, s.live)
  /\ Whole(buckets) => Whole(s.buckets)

\* The sequence without its oldest node, if the cache is full.
Kept == IF size < capacity THEN Recency ELSE SubSeq(Recency, 1, size - 1)

\* The members of all but the last node.
LEMMA MembersButLast ==
  ASSUME NEW s \in Seq(Nodes), s # <<>>, \A i, j \in 1 .. Len(s) : s[i] = s[j] => i = j
  PROVE  ToSet(SubSeq(s, 1, Len(s) - 1)) = ToSet(s) \ {s[Len(s)]}
<1> DEFINE t == SubSeq(s, 1, Len(s) - 1)
           z == Len(s)
<1>1. /\ z \in Nat \ {0} /\ Len(t) = z - 1 /\ (\A i \in 1 .. z - 1 : t[i] = s[i])
      /\ DOMAIN t = 1 .. z - 1 /\ DOMAIN s = 1 .. z /\ z \in 1 .. z
  BY AllButLast
<1>2. \A i, j \in 1 .. z : s[i] = s[j] => i = j
  OBVIOUS
<1>3. ToSet(t) = {t[i] : i \in 1 .. z - 1} /\ ToSet(s) = {s[i] : i \in 1 .. z}
  BY <1>1 DEF ToSet
<1> HIDE DEF t, z
<1>4. ASSUME NEW y \in ToSet(t) PROVE y \in ToSet(s) /\ y # s[z]
  <2>1. PICK i \in 1 .. z - 1 : y = t[i]
    BY <1>3
  <2>2. i \in 1 .. z /\ i # z
    BY <1>1
  <2> QED
    BY <1>1, <1>2, <1>3, <2>1, <2>2
<1>5. ASSUME NEW y \in ToSet(s), y # s[z] PROVE y \in ToSet(t)
  <2>1. PICK i \in 1 .. z : y = s[i]
    BY <1>3
  <2>2. i \in 1 .. z - 1
    BY <1>1, <1>5, <2>1
  <2> QED
    BY <1>1, <1>3, <2>1, <2>2
<1> QED
  BY <1>4, <1>5 DEF t, z

\* An eviction makes room for a node and leaves the others as they are.
LEMMA EvictFacts ==
  ASSUME Invariant, capacity # 0, damage \in {"none", "bucket"}
  PROVE  Leaves(evictLRU, Kept)
<1> DEFINE s == evictLRU
           r == Recency
           old == list.tail
           at == findKeyInHashMap(buckets, key[old])
<1>1. /\ Linked(list, r) /\ Len(r) = size /\ ToSet(r) = live
      /\ Listed(buckets, key, live) /\ TypeOK
      /\ r \in Seq(Nodes) /\ \A i, j \in 1 .. Len(r) : r[i] = r[j] => i = j
  BY DEF Invariant, ListSound, TableSound, Linked
<1>2. /\ list \in Lists /\ live \in SUBSET Nodes /\ buckets \in Tables
      /\ key \in [Nodes -> Keys \cup {None}] /\ data \in [Nodes -> Data \cup {None}]
      /\ capacity \in Nat \ {0} /\ size \in 0 .. capacity /\ DOMAIN buckets = 0 .. capacity - 1
  BY <1>1, TypeFacts
<1>3. CASE size < capacity
  <2>1. s = [list |-> list, buckets |-> buckets, key |-> key, data |-> data,
             live |-> live, size |-> size] /\ Kept = r
    BY <1>3 DEF evictLRU, Kept
  <2> HIDE DEF s, r
  <2>2. size \in 0 .. capacity - 1
    BY <1>2, <1>3
  <2>3. /\ s.list = list /\ s.buckets = buckets /\ s.key = key /\ s.data = data
        /\ s.live = live /\ s.size = size
    BY <2>1
  <2>4. Leaves(s, r)
    BY <1>1, <1>2, <2>2, <2>3 DEF Leaves
  <2> QED
    BY <2>1, <2>4 DEF s
<1>4. CASE ~(size < capacity)
  <2>1. /\ s = [list |-> removeFromLRUCache(list),
                buckets |-> removeFromHashmap(buckets, key[old], at),
                key |-> [key EXCEPT ![old] = None], data |-> [data EXCEPT ![old] = None],
                live |-> live \ {old}, size |-> size - 1]
        /\ Kept = SubSeq(r, 1, Len(r) - 1)
    BY <1>1, <1>4 DEF evictLRU, Kept
  <2>2. size = capacity /\ r # <<>>
    BY <1>1, <1>2, <1>4
  <2>3. /\ old = r[Len(r)] /\ old \in Nodes
        /\ removeFromLRUCache(list) \in Lists
        /\ Linked(removeFromLRUCache(list), SubSeq(r, 1, Len(r) - 1))
    BY <1>1, <1>2, <2>2, RemoveLastFacts
  <2>4. /\ SubSeq(r, 1, Len(r) - 1) \in Seq(Nodes) /\ Len(SubSeq(r, 1, Len(r) - 1)) = Len(r) - 1
        /\ ToSet(SubSeq(r, 1, Len(r) - 1)) = live \ {old}
    BY <1>1, <2>2, <2>3, AllButLast, MembersButLast
  <2>5. old \in live
    <3>1. Len(r) \in DOMAIN r
      BY <1>1, <2>2
    <3> QED
      BY <1>1, <2>3, <3>1 DEF ToSet
  <2> HIDE DEF s, r, old, at
  <2>6. PICK i0 \in DOMAIN buckets : buckets[i0] = [key |-> key[old], node |-> old]
    BY <1>1, <2>5 DEF Listed
  <2>7. buckets[i0] # None /\ buckets[i0].key = key[old] /\ buckets[i0].node = old /\ key[old] \in Keys
    <3>1. buckets[i0] \in HashNodes \cup {None}
      BY <1>2 DEF Tables
    <3>2. buckets[i0] # None
      <4>1. key[old] \in Keys \cup {None}
        BY <1>2, <2>3
      <4> QED
        BY <2>3, <2>6, <4>1, NoneIsNoRecord
    <3> QED
      BY <2>6, <3>1, <3>2 DEF HashNodes
  <2>8. at = i0
    <3>1. HoldsKey(buckets, i0, key[old])
      BY <2>7 DEF HoldsKey
    <3>2. at \in DOMAIN buckets /\ HoldsKey(buckets, at, key[old])
      BY <1>2, <2>7, <3>1, FindKeyFacts DEF at
    <3> QED
      BY <1>1, <2>7, <3>2 DEF Listed, HoldsKey
  <2>9. removeFromHashmap(buckets, key[old], at) = [buckets EXCEPT ![i0] = None]
    <3>1. HoldsKey(buckets, i0, key[old])
      BY <2>7 DEF HoldsKey
    <3> QED
      BY <1>2, <2>8, <3>1, RemoveKeyFacts
  <2> DEFINE b == [buckets EXCEPT ![i0] = None]
             ks == [key EXCEPT ![old] = None]
             ds == [data EXCEPT ![old] = None]
             L == live \ {old}
  <2>10. /\ s.list = removeFromLRUCache(list) /\ s.buckets = b /\ s.key = ks /\ s.data = ds
         /\ s.live = L /\ s.size = size - 1
    BY <2>1, <2>9
  <2>11. /\ DOMAIN b = DOMAIN buckets /\ b[i0] = None
         /\ \A i \in DOMAIN buckets \ {i0} : b[i] = buckets[i]
         /\ \A n \in L : ks[n] = key[n] /\ ds[n] = data[n]
         /\ b \in Tables
         /\ ks \in [Nodes -> Keys \cup {None}] /\ ds \in [Nodes -> Data \cup {None}]
    BY <1>2, <2>3 DEF Tables
  <2> HIDE DEF b, ks, ds
  <2>12. Listed(b, ks, L)
    <3>1. ASSUME NEW i \in DOMAIN b, b[i] # None, b[i].node # None
          PROVE  b[i].node \in L /\ ks[b[i].node] = b[i].key
      <4>1. i # i0 /\ i \in DOMAIN buckets /\ b[i] = buckets[i]
        BY <2>11, <3>1
      <4>2. buckets[i].node \in live /\ key[buckets[i].node] = buckets[i].key
        BY <1>1, <3>1, <4>1 DEF Listed
      <4>3. buckets[i].node # old
        BY <1>1, <2>6, <2>7, <3>1, <4>1, <4>2 DEF Listed
      <4> QED
        BY <2>11, <4>1, <4>2, <4>3
    <3>2. ASSUME NEW n \in L PROVE \E i \in DOMAIN b : b[i] = [key |-> ks[n], node |-> n]
      <4>1. PICK i \in DOMAIN buckets : buckets[i] = [key |-> key[n], node |-> n]
        BY <1>1 DEF Listed
      <4>2. i # i0
        BY <2>7, <4>1
      <4> QED
        BY <2>11, <4>1, <4>2
    <3>3. \A i, j \in DOMAIN b : b[i] # None /\ b[j] # None /\ b[i].key = b[j].key => i = j
      BY <1>1, <2>11 DEF Listed
    <3> QED
      BY <3>1, <3>2, <3>3 DEF Listed
  <2>13. Whole(buckets) => Whole(b)
    BY <2>11 DEF Whole
  <2>14. size - 1 \in 0 .. capacity - 1
    BY <1>2, <2>2
  <2>15. \A i \in 0 .. capacity - 1 : b[i] = buckets[i] \/ b[i] = None
    BY <1>2, <2>11
  <2>16. Leaves(s, SubSeq(r, 1, Len(r) - 1))
    BY <1>1, <2>3, <2>4, <2>10, <2>11, <2>12, <2>13, <2>14, <2>15 DEF Leaves
  <2> QED
    BY <2>1, <2>16 DEF s
<1> QED
  BY <1>3, <1>4

(***************************************************************************)
(* A key that is new gets a bucket.                                        *)
(***************************************************************************)
\* No bucket holds a key that is not found.
LEMMA MissFacts ==
  ASSUME TypeOK, NEW k \in Keys, Miss(k)
  PROVE  capacity \in Nat \ {0} /\ \A i \in DOMAIN buckets : ~HoldsKey(buckets, i, k)
BY TypeFacts, FindKeyFacts DEF Miss

\* The node of a key that is found is allocated and has that key.
LEMMA HitFacts ==
  ASSUME TypeOK, Listed(buckets, key, live), NEW k \in Keys, Hit(k)
  PROVE  Node(k) \in live /\ key[Node(k)] = k
<1>1. capacity \in Nat \ {0} /\ DOMAIN buckets = 0 .. capacity - 1
  BY TypeFacts DEF Hit
<1>2. /\ findKeyInHashMap(buckets, k) \in DOMAIN buckets
      /\ HoldsKey(buckets, findKeyInHashMap(buckets, k), k)
  BY <1>1, FindKeyFacts DEF Hit
<1> QED
  BY <1>2 DEF Hit, Listed, Node, HoldsKey

\* The bucket that put uses is free after the eviction.
LEMMA BucketFacts ==
  ASSUME TypeOK, NEW s, NEW r, Leaves(s, r), NEW k \in Keys, Miss(k)
  PROVE  /\ BucketFor(k, s) # -1 =>
              BucketFor(k, s) \in 0 .. capacity - 1 /\ s.buckets[BucketFor(k, s)] = None
         /\ \A i \in 0 .. capacity - 1 : ~HoldsKey(s.buckets, i, k)
<1>1. /\ capacity \in Nat \ {0} /\ DOMAIN buckets = 0 .. capacity - 1
      /\ \A i \in 0 .. capacity - 1 : ~HoldsKey(buckets, i, k)
  BY MissFacts, TypeFacts
<1>2. /\ DOMAIN s.buckets = 0 .. capacity - 1
      /\ \A i \in 0 .. capacity - 1 : s.buckets[i] = buckets[i] \/ s.buckets[i] = None
  BY DEF Leaves, Tables
<1>3. CASE findFreeBucket(buckets, k) # -1
  <2>1. findFreeBucket(buckets, k) \in DOMAIN buckets /\ buckets[findFreeBucket(buckets, k)] = None
    BY <1>1, <1>3, FindFreeFacts
  <2>2. BucketFor(k, s) = findFreeBucket(buckets, k)
    BY <1>3 DEF BucketFor
  <2> QED
    BY <1>1, <1>2, <2>1, <2>2 DEF HoldsKey
<1>4. CASE ~(findFreeBucket(buckets, k) # -1)
  <2>1. BucketFor(k, s) = findFreeBucket(s.buckets, k)
    BY <1>4 DEF BucketFor
  <2>2. findFreeBucket(s.buckets, k) # -1 =>
          /\ findFreeBucket(s.buckets, k) \in DOMAIN s.buckets
          /\ s.buckets[findFreeBucket(s.buckets, k)] = None
    BY <1>1, <1>2, FindFreeFacts
  <2> QED
    BY <1>1, <1>2, <2>1, <2>2 DEF HoldsKey
<1> QED
  BY <1>3, <1>4

\* A free bucket that gets a new key and a new node.
LEMMA AddListed ==
  ASSUME NEW b, NEW ks \in [Nodes -> Keys \cup {None}], NEW L \in SUBSET Nodes,
         Listed(b, ks, L), NEW at \in DOMAIN b, b[at] = None,
         NEW k \in Keys, \A i \in DOMAIN b : ~HoldsKey(b, i, k), NEW n \in Nodes \ L
  PROVE  LET c == [b EXCEPT ![at] = [key |-> k, node |-> n]]
         IN  /\ Listed(c, [ks EXCEPT ![n] = k], L \cup {n})
             /\ Whole(b) => Whole(c)
<1> DEFINE e == [key |-> k, node |-> n]
           c == [b EXCEPT ![at] = e]
           js == [ks EXCEPT ![n] = k]
<1>1. /\ DOMAIN c = DOMAIN b /\ c[at] = e /\ \A i \in DOMAIN b \ {at} : c[i] = b[i]
      /\ js[n] = k /\ \A m \in L : js[m] = ks[m]
  OBVIOUS
<1>2. e.key = k /\ e.node = n /\ e # None /\ n # None
  BY NoneIsNoNode, NoneIsNoRecord
<1> HIDE DEF e, c, js
<1>3. ASSUME NEW i \in DOMAIN b, c[i] # None, c[i].node # None
      PROVE  c[i].node \in L \cup {n} /\ js[c[i].node] = c[i].key
  BY <1>1, <1>2, <1>3 DEF Listed
<1>4. ASSUME NEW m \in L \cup {n}
      PROVE  \E i \in DOMAIN b : c[i] = [key |-> js[m], node |-> m]
  <2>1. CASE m = n
    BY <1>1, <2>1 DEF e
  <2>2. CASE m # n
    <3>1. PICK i \in DOMAIN b : b[i] = [key |-> ks[m], node |-> m]
      BY <2>2 DEF Listed
    <3>2. i # at
      <4>1. ks[m] \in Keys \cup {None}
        OBVIOUS
      <4> QED
        BY <3>1, <4>1, NoneIsNoRecord
    <3> QED
      BY <1>1, <2>2, <3>1, <3>2
  <2> QED
    BY <2>1, <2>2
<1>5. ASSUME NEW i \in DOMAIN b, NEW j \in DOMAIN b, c[i] # None, c[j] # None, c[i].key = c[j].key
      PROVE  i = j
  BY <1>1, <1>2, <1>5 DEF Listed, HoldsKey
<1>6. Whole(b) => Whole(c)
  BY <1>1, <1>2 DEF Whole
<1>7. Listed(c, js, L \cup {n})
  BY <1>1, <1>3, <1>4, <1>5 DEF Listed
<1> QED
  BY <1>6, <1>7 DEF c, js, e

\* A free bucket that gets a new key and no node.
LEMMA AddNoNode ==
  ASSUME NEW b, NEW ks \in [Nodes -> Keys \cup {None}], NEW L \in SUBSET Nodes,
         Listed(b, ks, L), NEW at \in DOMAIN b, b[at] = None,
         NEW k \in Keys, \A i \in DOMAIN b : ~HoldsKey(b, i, k)
  PROVE  Listed([b EXCEPT ![at] = [key |-> k, node |-> None]], ks, L)
<1> DEFINE e == [key |-> k, node |-> None]
           c == [b EXCEPT ![at] = e]
<1>1. DOMAIN c = DOMAIN b /\ c[at] = e /\ \A i \in DOMAIN b \ {at} : c[i] = b[i]
  OBVIOUS
<1>2. e.key = k /\ e.node = None
  OBVIOUS
<1> HIDE DEF e, c
<1>3. ASSUME NEW i \in DOMAIN b, c[i] # None, c[i].node # None
      PROVE  c[i].node \in L /\ ks[c[i].node] = c[i].key
  BY <1>1, <1>2, <1>3 DEF Listed
<1>4. ASSUME NEW m \in L
      PROVE  \E i \in DOMAIN b : c[i] = [key |-> ks[m], node |-> m]
  <2>1. PICK i \in DOMAIN b : b[i] = [key |-> ks[m], node |-> m]
    BY DEF Listed
  <2>2. i # at
    <3>1. ks[m] \in Keys \cup {None}
      OBVIOUS
    <3> QED
      BY <2>1, <3>1, NoneIsNoRecord
  <2> QED
    BY <1>1, <2>1, <2>2
<1>5. ASSUME NEW i \in DOMAIN b, NEW j \in DOMAIN b, c[i] # None, c[j] # None, c[i].key = c[j].key
      PROVE  i = j
  BY <1>1, <1>2, <1>5 DEF Listed, HoldsKey
<1>6. Listed(c, ks, L)
  BY <1>1, <1>3, <1>4, <1>5 DEF Listed
<1> QED
  BY <1>6 DEF c, e

(***************************************************************************)
(* Each command leaves the invariant.                                      *)
(***************************************************************************)
\* A node that moves to the front leaves the same nodes.
LEMMA MovedMembers ==
  ASSUME NEW S, NEW s \in Seq(S), NEW k \in 1 .. Len(s)
  PROVE  ToSet(<<s[k]>> \o RemoveAt(s, k)) = ToSet(s)
<1> DEFINE t == <<s[k]>> \o RemoveAt(s, k)
           z == Len(s)
<1>0. z \in Nat /\ k \in 1 .. z
  OBVIOUS
<1>1. /\ t \in Seq(S) /\ Len(t) = z /\ t[1] = s[k] /\ z \in Nat
      /\ \A i \in 2 .. k : t[i] = s[i - 1]
      /\ \A i \in k + 1 .. z : t[i] = s[i]
  BY <1>0, Moved
<1>2. ToSet(t) = {t[i] : i \in 1 .. z} /\ ToSet(s) = {s[i] : i \in 1 .. z} /\ k \in 1 .. z
  <2>1. DOMAIN t = 1 .. z /\ DOMAIN s = 1 .. z
    BY <1>1
  <2> HIDE DEF t, z
  <2> QED
    BY <2>1 DEF ToSet, z
<1> HIDE DEF t, z
<1>3. ASSUME NEW i \in 1 .. z PROVE \E j \in 1 .. z : t[i] = s[j]
  <2>1. i = 1 \/ i \in 2 .. k \/ i \in k + 1 .. z
    BY <1>1, <1>2
  <2>2. i \in 2 .. k => i - 1 \in 1 .. z
    BY <1>1, <1>2
  <2> QED
    BY <1>1, <1>2, <2>1, <2>2
<1>4. ASSUME NEW j \in 1 .. z PROVE \E i \in 1 .. z : t[i] = s[j]
  <2>1. j = k \/ j \in k + 1 .. z \/ (j + 1 \in 2 .. k /\ j + 1 \in 1 .. z /\ (j + 1) - 1 = j)
    BY <1>1, <1>2
  <2>2. 1 \in 1 .. z
    BY <1>1, <1>2
  <2> QED
    BY <1>1, <1>2, <2>1, <2>2
<1>5. \A y \in ToSet(t) : y \in ToSet(s)
  BY <1>2, <1>3
<1>6. \A y \in ToSet(s) : y \in ToSet(t)
  BY <1>2, <1>4
<1> QED
  BY <1>5, <1>6 DEF t

\* The node that is used has a place in the list.
LEMMA Place ==
  ASSUME Invariant, ~ended, NEW k \in Keys, Hit(k)
  PROVE  /\ damage \in {"none", "bucket"} /\ Recency \in Seq(Nodes)
         /\ \E i \in 1 .. Len(Recency) : Node(k) = Recency[i]
         /\ key[Node(k)] = k
<1>1. damage \in {"none", "bucket"}
  BY DEF Invariant, TypeOK, DamageSound, Hit
<1>2. Node(k) \in live /\ key[Node(k)] = k
  BY HitFacts DEF Invariant, TableSound
<1>3. ToSet(Recency) = live /\ Recency \in Seq(Nodes)
  BY <1>1 DEF Invariant, ListSound, Linked
<1>4. ToSet(Recency) = {Recency[i] : i \in 1 .. Len(Recency)}
  BY <1>3 DEF ToSet
<1> QED
  BY <1>1, <1>2, <1>3, <1>4

\* The move to the front, in terms of the sequence.
LEMMA UseFacts ==
  ASSUME Invariant, NEW i \in 1 .. Len(Recency), list' = moveToFront(list, Recency[i]),
         damage \in {"none", "bucket"}
  PROVE  /\ list' \in Lists /\ Recency' = <<Recency[i]>> \o RemoveAt(Recency, i)
         /\ Linked(list', Recency') /\ Len(Recency') = size /\ ToSet(Recency') = live
<1> DEFINE r == Recency
           t == <<r[i]>> \o RemoveAt(r, i)
<1>1. list \in Lists /\ Linked(list, r) /\ r \in Seq(Nodes) /\ Len(r) = size /\ ToSet(r) = live
  BY TypeFacts DEF Invariant, ListSound, Linked
<1>2. list' \in Lists /\ Linked(list', t)
  BY <1>1, MoveFacts
<1>3. Len(t) = Len(r) /\ ToSet(t) = ToSet(r)
  BY <1>1, Moved, MovedMembers
<1>4. Recency' = t
  BY <1>2, RecencyIs DEF Recency
<1> QED
  BY <1>1, <1>2, <1>3, <1>4

\* A use of an entry, by put or by get.
LEMMA UseKeeps ==
  ASSUME Invariant, ~ended, NEW k \in Keys, Hit(k),
         data' \in [Nodes -> Data \cup {None}], shown' \in Data \cup {None},
         UNCHANGED <<capacity, size, key, live, buckets, ended, damage>>
  PROVE  Invariant'
<1>1. damage \in {"none", "bucket"} /\ TypeOK
  BY Place DEF Invariant
<1>2. PICK i \in 1 .. Len(Recency) : Node(k) = Recency[i]
  BY Place
<1>3. /\ list' \in Lists /\ Linked(list', Recency') /\ Len(Recency') = size
      /\ ToSet(Recency') = live
  BY <1>1, <1>2, UseFacts DEF Hit
<1>4. TypeOK'
  BY <1>1, <1>3 DEF TypeOK, Lists
<1>5. ListSound'
  BY <1>1, <1>3 DEF ListSound
<1>6. TableSound'
  BY DEF Invariant, TableSound
<1>7. DamageSound'
  BY DEF Invariant, DamageSound
<1> QED
  BY <1>4, <1>5, <1>6, <1>7 DEF Invariant

\* A put whose key is there.
LEMMA UpdateKeeps ==
  ASSUME Invariant, ~ended, NEW k \in Keys, NEW d \in Data, updateData(k, d)
  PROVE  Invariant'
<1>1. PICK copy \in copyString(d) : data' = [data EXCEPT ![Node(k)] = copy]
  BY DEF updateData
<1>2. copy \in Data \cup {None}
  BY DEF copyString
<1>3. data \in [Nodes -> Data \cup {None}] /\ shown \in Data \cup {None}
  BY DEF Invariant, TypeOK
<1>4. data' \in [Nodes -> Data \cup {None}]
  BY <1>1, <1>2, <1>3
<1>5. Hit(k) /\ UNCHANGED <<capacity, size, key, live, buckets, shown, ended, damage>>
  BY DEF updateData
<1> QED
  BY <1>3, <1>4, <1>5, UseKeeps

\* A get whose key is there.
LEMMA GetHitKeeps ==
  ASSUME Invariant, ~ended, NEW k \in Keys, getHit(k)
  PROVE  Invariant'
<1>1. Hit(k) /\ UNCHANGED <<capacity, size, key, data, live, buckets, ended, damage>>
  BY DEF getHit
<1>2. data \in [Nodes -> Data \cup {None}]
  BY DEF Invariant, TypeOK
<1>3. Node(k) \in Nodes
  BY <1>1, HitFacts DEF Invariant, TableSound, TypeOK
<1>4. shown' \in Data \cup {None}
  BY <1>2, <1>3 DEF getHit
<1> QED
  BY <1>1, <1>2, <1>4, UseKeeps

\* A get that finds nothing, in a sound cache or not.
LEMMA GetMissKeeps ==
  ASSUME Invariant, NEW k \in Keys, getMiss(k)
  PROVE  Invariant' /\ Recency' = Recency
<1>1. /\ shown' = None
      /\ UNCHANGED <<capacity, size, list, key, data, live, buckets, ended, damage>>
  BY DEF getMiss
<1>2. TypeOK'
  BY <1>1 DEF Invariant, TypeOK
<1>3. Recency' = Recency
  BY <1>1 DEF Recency
<1>4. ListSound' /\ TableSound' /\ DamageSound'
  BY <1>1, <1>3 DEF Invariant, ListSound, TableSound, DamageSound
<1> QED
  BY <1>2, <1>3, <1>4 DEF Invariant

\* A use of what is damaged, or of a node that is not there, changes no part of
\* the structure.
LEMMA UseDamagedKeeps ==
  ASSUME Invariant, NEW k \in Keys, useDamaged(k) \/ putWithoutEither(k)
  PROVE  Invariant'
<1>1. /\ ended' = TRUE /\ damage' = "undefined" /\ MemoryMayFail
      /\ UNCHANGED <<capacity, size, list, key, data, live, buckets, shown>>
  BY DEF useDamaged, putWithoutEither, Invariant, DamageSound
<1>2. TypeOK'
  BY <1>1 DEF Invariant, TypeOK
<1>3. Recency' = Recency
  BY <1>1 DEF Recency
<1>4. ListSound' /\ TableSound' /\ DamageSound'
  BY <1>1, <1>3 DEF Invariant, ListSound, TableSound, DamageSound
<1> QED
  BY <1>2, <1>4 DEF Invariant

\* Every node of the list is freed.
LEMMA FreeFacts ==
  ASSUME Invariant, ~ended, damage # "list", freeCache
  PROVE  /\ live' = {} /\ list' = NoList /\ size' = 0 /\ Recency' = <<>>
         /\ key' \in [Nodes -> Keys \cup {None}] /\ data' \in [Nodes -> Data \cup {None}]
         /\ Linked(list', Recency') /\ list' \in Lists
<1>1. /\ damage \in {"none", "bucket"} /\ ToSet(Recency) = live
      /\ key \in [Nodes -> Keys \cup {None}] /\ data \in [Nodes -> Data \cup {None}]
  BY DEF Invariant, TypeOK, ListSound, DamageSound
<1>2. live' = {} /\ list' = NoList /\ size' = 0
  BY <1>1 DEF freeCache, Recency
<1>3. key' \in [Nodes -> Keys \cup {None}]
  BY <1>1 DEF freeCache
<1>4. data' \in [Nodes -> Data \cup {None}]
  BY <1>1 DEF freeCache
<1>5. Recency' = <<>> /\ Linked(list', Recency') /\ list' \in Lists
  BY <1>2, NoListFacts, RecencyIs DEF Recency
<1> QED
  BY <1>2, <1>3, <1>4, <1>5

\* The cache is made anew, or there is none any more.
LEMMA FreeKeeps ==
  ASSUME Invariant, ~ended, damage # "list", freeCache, NEW c \in Capacities \cup {0},
         capacity' = c, buckets' = [i \in 0 .. c - 1 |-> None], damage' = "none",
         shown' = shown, ended' \in BOOLEAN
  PROVE  Invariant'
<1>1. /\ live' = {} /\ list' = NoList /\ size' = 0 /\ Recency' = <<>>
      /\ key' \in [Nodes -> Keys \cup {None}] /\ data' \in [Nodes -> Data \cup {None}]
      /\ Linked(list', Recency') /\ list' \in Lists
  BY FreeFacts
<1>2. c \in Nat /\ 0 \in 0 .. c
  BY CapacitiesAssumption
<1>3. shown \in Data \cup {None}
  BY DEF Invariant, TypeOK
<1>4. TypeOK'
  BY <1>1, <1>2, <1>3 DEF TypeOK, Lists
<1>5. ListSound'
  <2>1. Len(<<>>) = 0 /\ ToSet(<<>>) = {}
    BY DEF ToSet
  <2> QED
    BY <1>1, <2>1 DEF ListSound
<1>6. TableSound'
  <2>1. \A i \in DOMAIN buckets' : buckets'[i] = None
    OBVIOUS
  <2> QED
    BY <1>1, <2>1 DEF TableSound, Listed, Whole
<1>7. DamageSound'
  BY DEF DamageSound
<1> QED
  BY <1>4, <1>5, <1>6, <1>7 DEF Invariant

\* A new cache.
LEMMA CreateKeeps ==
  ASSUME Invariant, ~ended, NEW c \in Capacities, createCache(c)
  PROVE  Invariant'
<1>1. /\ damage # "list" /\ freeCache /\ capacity' = c /\ damage' = "none"
      /\ buckets' = [i \in 0 .. c - 1 |-> None]
      /\ shown' = shown /\ ended' = ended /\ ended' \in BOOLEAN
  BY DEF createCache, Invariant, TypeOK
<1> QED
  BY <1>1, FreeKeeps

\* No cache any more.
LEMMA ExitKeeps ==
  ASSUME Invariant, ~ended, exitCache
  PROVE  Invariant'
<1>1. /\ damage # "list" /\ freeCache /\ capacity' = 0 /\ damage' = "none"
      /\ buckets' = <<>> /\ shown' = shown /\ ended' \in BOOLEAN
  BY DEF exitCache
<1>2. <<>> = [i \in 0 .. 0 - 1 |-> None]
  <2>1. 0 .. 0 - 1 = {} /\ DOMAIN <<>> = {} /\ <<>> = [i \in {} |-> None]
    OBVIOUS
  <2> QED
    BY <2>1
<1> QED
  BY <1>1, <1>2, FreeKeeps

\* A put of a new key.
LEMMA PutNewKeeps ==
  ASSUME Invariant, ~ended, NEW k \in Keys, NEW d \in Data, NEW n \in Nodes, putNew(k, d, n)
  PROVE  /\ Invariant' /\ damage \in {"none", "bucket"} /\ Leaves(evictLRU, Kept)
         /\ Recency' = <<n>> \o Kept
<1> DEFINE s == evictLRU
           r == Kept
           t == <<n>> \o r
           at == BucketFor(k, s)
<1>1. /\ Miss(k) /\ damage # "list" /\ n \notin s.live /\ at # -1
      /\ list' = addAtFrontOfLRUCache(s.list, n)
      /\ buckets' = [s.buckets EXCEPT ![at] = [key |-> k, node |-> n]]
      /\ key' = [s.key EXCEPT ![n] = k]
      /\ live' = s.live \cup {n} /\ size' = s.size + 1
      /\ UNCHANGED <<capacity, shown, ended, damage>>
  BY DEF putNew
<1>2. PICK copy \in copyString(d) : data' = [s.data EXCEPT ![n] = copy]
  BY DEF putNew
<1>3. TypeOK /\ damage \in {"none", "bucket"} /\ capacity # 0
  BY <1>1 DEF Invariant, TypeOK, DamageSound, Miss
<1>4. Leaves(s, r)
  BY <1>3, EvictFacts
<1> HIDE DEF s, r
<1>5. /\ at \in 0 .. capacity - 1 /\ s.buckets[at] = None
      /\ \A i \in 0 .. capacity - 1 : ~HoldsKey(s.buckets, i, k)
  BY <1>1, <1>3, <1>4, BucketFacts
<1>6. list' \in Lists /\ Linked(list', t)
  BY <1>1, <1>4, AddFacts DEF Leaves
<1>7. Len(t) = size' /\ ToSet(t) = live'
  BY <1>1, <1>4, InFront DEF Leaves
<1> HIDE DEF at, t
<1>8. Recency' = t /\ Linked(list', Recency')
  BY <1>6, RecencyIs DEF Recency
<1>9. /\ DOMAIN s.buckets = 0 .. capacity - 1 /\ s.buckets \in Tables
      /\ s.key \in [Nodes -> Keys \cup {None}] /\ s.data \in [Nodes -> Data \cup {None}]
      /\ s.live \in SUBSET Nodes /\ s.size \in 0 .. capacity - 1 /\ capacity \in Nat
  BY <1>3, <1>4, TypeFacts DEF Leaves, Tables
<1>10. TypeOK'
  <2>1. copy \in Data \cup {None}
    BY <1>2 DEF copyString
  <2>2. key' \in [Nodes -> Keys \cup {None}] /\ data' \in [Nodes -> Data \cup {None}]
    BY <1>1, <1>2, <1>9, <2>1
  <2>3. live' \in SUBSET Nodes /\ size' \in 0 .. capacity
    BY <1>1, <1>9
  <2>4. [key |-> k, node |-> n] \in HashNodes
    BY DEF HashNodes
  <2>5. buckets' \in [0 .. capacity - 1 -> HashNodes \cup {None}]
    BY <1>1, <1>5, <1>9, <2>4 DEF Tables
  <2> QED
    BY <1>1, <1>3, <1>6, <2>2, <2>3, <2>5 DEF TypeOK, Lists
<1>11. ListSound'
  BY <1>1, <1>3, <1>7, <1>8 DEF ListSound
<1>12. TableSound'
  <2>1. Listed(s.buckets, s.key, s.live) /\ n \in Nodes \ s.live
    BY <1>1, <1>4 DEF Leaves
  <2>2. Listed(buckets', key', live') /\ (Whole(s.buckets) => Whole(buckets'))
    BY <1>1, <1>5, <1>9, <2>1, AddListed
  <2>3. damage = "none" => Whole(s.buckets)
    BY <1>4 DEF Invariant, TableSound, Leaves
  <2> QED
    BY <1>1, <2>2, <2>3 DEF TableSound
<1>13. DamageSound'
  BY <1>1 DEF Invariant, DamageSound
<1> QED
  BY <1>3, <1>4, <1>8, <1>10, <1>11, <1>12, <1>13 DEF Invariant, s, r, t

\* A put of a new key with no memory for the cache node.
LEMMA PutWithoutNodeKeeps ==
  ASSUME Invariant, ~ended, NEW k \in Keys, putWithoutNode(k)
  PROVE  /\ Invariant' /\ damage \in {"none", "bucket"} /\ Leaves(evictLRU, Kept)
         /\ Recency' = Kept
<1> DEFINE s == evictLRU
           r == Kept
           at == BucketFor(k, s)
<1>1. /\ MemoryMayFail /\ Miss(k) /\ damage # "list" /\ at # -1
      /\ list' = s.list
      /\ buckets' = [s.buckets EXCEPT ![at] = [key |-> k, node |-> None]]
      /\ key' = s.key /\ data' = s.data /\ live' = s.live /\ size' = s.size
      /\ damage' = "bucket"
      /\ UNCHANGED <<capacity, shown, ended>>
  BY DEF putWithoutNode
<1>2. TypeOK /\ damage \in {"none", "bucket"} /\ capacity # 0
  BY <1>1 DEF Invariant, TypeOK, DamageSound, Miss
<1>3. Leaves(s, r)
  BY <1>2, EvictFacts
<1> HIDE DEF s, r
<1>4. /\ at \in 0 .. capacity - 1 /\ s.buckets[at] = None
      /\ \A i \in 0 .. capacity - 1 : ~HoldsKey(s.buckets, i, k)
  BY <1>1, <1>2, <1>3, BucketFacts
<1> HIDE DEF at
<1>5. list' \in Lists /\ Linked(list', r) /\ Len(r) = size' /\ ToSet(r) = live'
  BY <1>1, <1>3 DEF Leaves
<1>6. Recency' = r /\ Linked(list', Recency')
  BY <1>5, RecencyIs DEF Recency
<1>7. /\ DOMAIN s.buckets = 0 .. capacity - 1 /\ s.buckets \in Tables
      /\ s.key \in [Nodes -> Keys \cup {None}] /\ s.data \in [Nodes -> Data \cup {None}]
      /\ s.live \in SUBSET Nodes /\ s.size \in 0 .. capacity - 1 /\ capacity \in Nat
  BY <1>2, <1>3, TypeFacts DEF Leaves, Tables
<1>8. TypeOK'
  <2>1. [key |-> k, node |-> None] \in HashNodes
    BY DEF HashNodes
  <2>2. buckets' \in [0 .. capacity - 1 -> HashNodes \cup {None}]
    BY <1>1, <1>4, <1>7, <2>1 DEF Tables
  <2>3. size' \in 0 .. capacity
    BY <1>1, <1>7
  <2> QED
    BY <1>1, <1>2, <1>5, <1>7, <2>2, <2>3 DEF TypeOK, Lists
<1>9. ListSound'
  BY <1>1, <1>5, <1>6 DEF ListSound
<1>10. TableSound'
  <2>1. Listed(s.buckets, s.key, s.live)
    BY <1>3 DEF Leaves
  <2>2. Listed(buckets', key', live')
    BY <1>1, <1>4, <1>7, <2>1, AddNoNode
  <2> QED
    BY <1>1, <2>2 DEF TableSound
<1>11. DamageSound'
  BY <1>1 DEF DamageSound
<1> QED
  BY <1>2, <1>3, <1>6, <1>8, <1>9, <1>10, <1>11 DEF Invariant, s, r

\* A put of a new key with no memory for the hash node.
LEMMA PutWithoutHashNodeKeeps ==
  ASSUME Invariant, ~ended, NEW k \in Keys, NEW n \in Nodes, putWithoutHashNode(k, n)
  PROVE  Invariant'
<1> DEFINE s == evictLRU
           r == Kept
           t == <<n>> \o r
<1>1. /\ MemoryMayFail /\ Miss(k) /\ damage # "list" /\ n \notin s.live
      /\ list' = addAtFrontOfLRUCache(s.list, n)
      /\ buckets' = s.buckets
      /\ key' = s.key /\ data' = s.data /\ live' = s.live /\ size' = s.size + 1
      /\ damage' = "list"
      /\ UNCHANGED <<capacity, shown, ended>>
  BY DEF putWithoutHashNode
<1>2. TypeOK /\ damage \in {"none", "bucket"} /\ capacity # 0
  BY <1>1 DEF Invariant, TypeOK, DamageSound, Miss
<1>3. Leaves(s, r)
  BY <1>2, EvictFacts
<1> HIDE DEF s, r
<1>4. list' \in Lists /\ Linked(list', t)
  BY <1>1, <1>3, AddFacts DEF Leaves
<1>5. /\ Len(t) = size' /\ t # <<>> /\ t[1] = n /\ n \notin live' /\ r \in Seq(Nodes)
      /\ ToSet(r) = live'
  BY <1>1, <1>3, InFront DEF Leaves
<1>6. Tail(t) = r
  BY <1>5
<1> HIDE DEF t
<1>7. Recency' = t /\ Linked(list', Recency')
  BY <1>4, RecencyIs DEF Recency
<1>8. /\ s.buckets \in Tables
      /\ s.key \in [Nodes -> Keys \cup {None}] /\ s.data \in [Nodes -> Data \cup {None}]
      /\ s.live \in SUBSET Nodes /\ s.size \in 0 .. capacity - 1 /\ capacity \in Nat
  BY <1>2, <1>3, TypeFacts DEF Leaves
<1>9. TypeOK'
  <2>1. size' \in 0 .. capacity
    BY <1>1, <1>8
  <2> QED
    BY <1>1, <1>2, <1>4, <1>8, <2>1 DEF TypeOK, Lists, Tables
<1>10. ListSound'
  BY <1>1, <1>5, <1>6, <1>7 DEF ListSound
<1>11. TableSound'
  BY <1>1, <1>3 DEF Leaves, TableSound
<1>12. DamageSound'
  BY <1>1 DEF DamageSound
<1> QED
  BY <1>9, <1>10, <1>11, <1>12 DEF Invariant

\* The invariant holds of every state.
THEOREM InvariantHolds == Spec => []Invariant
<1>1. Invariant /\ [Next]_vars => Invariant'
  <2> SUFFICES ASSUME Invariant, [Next]_vars PROVE Invariant'
    OBVIOUS
  <2>1. ASSUME Next PROVE Invariant'
    <3>1. ~ended /\ Command
      BY <2>1 DEF Next
    <3> QED
      BY <3>1, CreateKeeps, GetHitKeeps, GetMissKeeps, PutWithoutNodeKeeps, UseDamagedKeeps,
         UpdateKeeps, PutNewKeeps, PutWithoutHashNodeKeeps, ExitKeeps DEF Command
  <2>2. ASSUME UNCHANGED vars PROVE Invariant'
    <3>1. /\ UNCHANGED <<capacity, size, list, key, data, live, buckets, shown, ended, damage>>
          /\ Recency' = Recency
      BY <2>2 DEF vars, Recency
    <3>2. TypeOK'
      BY <3>1 DEF Invariant, TypeOK
    <3> QED
      BY <3>1, <3>2 DEF Invariant, ListSound, TableSound, DamageSound
  <2> QED
    BY <2>1, <2>2
<1> QED
  BY <1>1, InitInvariant, PTL DEF Spec

\* The two walks along the list agree, and meet the nodes that are allocated.
THEOREM ListHolds == Spec => []ListOK
<1>1. Invariant => ListOK
  <2> SUFFICES ASSUME Invariant PROVE ListOK
    OBVIOUS
  <2>1. TypeOK /\ ListSound /\ Linked(list, Recency)
    BY DEF Invariant, ListSound
  <2>2. Chain(list.tail, list.prev) = Reverse(Recency)
    BY <2>1, TypeFacts, LinkedChains
  <2>3. Cardinality(ToSet(Recency)) = Len(Recency)
    BY <2>1, DifferentNodes DEF Linked
  <2>4. damage = "list" => list.head \notin live
    BY <2>1 DEF ListSound, Linked
  <2> QED
    BY <2>1, <2>2, <2>3, <2>4 DEF ListSound, ListOK
<1> QED
  BY <1>1, InvariantHolds, PTL

\* Every node has one bucket, under its own key, and no key has two.
THEOREM TableHolds == Spec => []TableMatchesList
<1>1. Invariant => TableMatchesList
  <2> SUFFICES ASSUME Invariant PROVE TableMatchesList
    OBVIOUS
  <2> DEFINE used == {i \in DOMAIN buckets : buckets[i] # None}
             whole == {i \in used : buckets[i].node # None}
             f == [i \in whole |-> buckets[i].node]
             entry(n) == [key |-> key[n], node |-> n]
  <2>1. TypeOK /\ Listed(buckets, key, live) /\ (damage = "none" => Whole(buckets))
    BY DEF Invariant, TableSound
  <2>2. /\ live \in SUBSET Nodes /\ key \in [Nodes -> Keys \cup {None}]
        /\ \A i \in DOMAIN buckets : buckets[i] # None =>
             buckets[i] = [key |-> buckets[i].key, node |-> buckets[i].node]
    BY <2>1, TypeFacts
  <2>3. \A i \in whole : buckets[i].node \in live /\ key[buckets[i].node] = buckets[i].key
    BY <2>1 DEF Listed
  <2>4. \A i \in whole : buckets[i] = entry(buckets[i].node)
    BY <2>2, <2>3
  <2>5. ASSUME NEW n \in live
        PROVE  \E i \in whole : buckets[i] = entry(n) /\ buckets[i].node = n
    <3>1. PICK i \in DOMAIN buckets : buckets[i] = entry(n)
      BY <2>1 DEF Listed
    <3>2. n \in Nodes /\ n # None /\ key[n] \in Keys \cup {None}
      BY <2>2, NoneIsNoNode
    <3>3. buckets[i] # None /\ buckets[i].node = n
      BY <3>1, <3>2, NoneIsNoRecord
    <3> QED
      BY <3>1, <3>2, <3>3
  <2>6. \A i, j \in used : buckets[i].key = buckets[j].key => i = j
    BY <2>1 DEF Listed
  <2>7. {buckets[i] : i \in whole} = {entry(n) : n \in live}
    <3> HIDE DEF whole, entry
    <3> QED
      BY <2>3, <2>4, <2>5
  <2>8. Cardinality(whole) = Cardinality(live)
    <3>1. f \in [whole -> live]
      BY <2>3
    <3>2. \A i, j \in whole : f[i] = f[j] => i = j
      BY <2>3, <2>6
    <3>3. \A n \in live : \E i \in whole : f[i] = n
      BY <2>5
    <3> HIDE DEF f, whole
    <3>4. f \in Bijection(whole, live)
      BY <3>1, <3>2, <3>3 DEF Bijection, Injection, Surjection, IsInjective
    <3>5. IsFiniteSet(whole)
      <4>1. whole \in SUBSET (0 .. capacity - 1) /\ capacity \in Nat
        BY <2>1, TypeFacts DEF whole
      <4> QED
        BY <4>1, IntervalSize, FS_Subset
    <3> QED
      BY <3>4, <3>5, FS_Bijection DEF ExistsBijection
  <2>9. damage = "none" => used = whole
    BY <2>1 DEF Whole
  <2> QED
    BY <2>6, <2>7, <2>8, <2>9 DEF TableMatchesList
<1> QED
  BY <1>1, InvariantHolds, PTL

(***************************************************************************)
(* What the list holds, as the entries of RecencyCache.                    *)
(***************************************************************************)
Contents(r, ks, ds) == [i \in DOMAIN r |-> [key |-> ks[r[i]], data |-> ds[r[i]]]]

Record(ks, ds, n) == [key |-> ks[n], data |-> ds[n]]
Records(ks, ds)   == {Record(ks, ds, n) : n \in Nodes}

\* One entry for each node.
LEMMA ContentsFacts ==
  ASSUME NEW r \in Seq(Nodes), NEW ks, NEW ds
  PROVE  /\ Contents(r, ks, ds) \in Seq(Records(ks, ds))
         /\ Len(Contents(r, ks, ds)) = Len(r) /\ Len(r) \in Nat
         /\ \A i \in 1 .. Len(r) : Contents(r, ks, ds)[i] = Record(ks, ds, r[i])
<1> DEFINE c == Contents(r, ks, ds)
<1>1. Len(r) \in Nat /\ DOMAIN r = 1 .. Len(r) /\ \A i \in 1 .. Len(r) : r[i] \in Nodes
  OBVIOUS
<1>2. c = [i \in 1 .. Len(r) |-> Record(ks, ds, r[i])]
  BY <1>1 DEF Contents, Record
<1>3. \A i \in 1 .. Len(r) : Record(ks, ds, r[i]) \in Records(ks, ds)
  BY <1>1 DEF Records
<1> HIDE DEF c
<1>4. c \in [1 .. Len(r) -> Records(ks, ds)]
  BY <1>2, <1>3
<1>5. c \in Seq(Records(ks, ds)) /\ Len(c) = Len(r)
  BY <1>1, <1>4
<1>6. \A i \in 1 .. Len(r) : c[i] = Record(ks, ds, r[i])
  BY <1>2
<1> QED
  BY <1>1, <1>5, <1>6 DEF c

\* Sequences of the same length with the same elements are the same.
LEMMA SameSequence ==
  ASSUME NEW S, NEW T, NEW s \in Seq(S), NEW t \in Seq(T), NEW n, Len(s) = n, Len(t) = n,
         \A i \in 1 .. n : s[i] = t[i]
  PROVE  s = t
<1>1. s = [i \in 1 .. n |-> s[i]] /\ t = [i \in 1 .. n |-> t[i]]
  OBVIOUS
<1>2. [i \in 1 .. n |-> s[i]] = [i \in 1 .. n |-> t[i]]
  OBVIOUS
<1> QED
  BY <1>1, <1>2

\* Only the fields of the nodes that are met matter.
LEMMA ContentsSame ==
  ASSUME NEW r \in Seq(Nodes), NEW ks, NEW ds, NEW js, NEW es,
         \A i \in 1 .. Len(r) : ks[r[i]] = js[r[i]] /\ ds[r[i]] = es[r[i]]
  PROVE  Contents(r, ks, ds) = Contents(r, js, es)
<1>1. \A i \in 1 .. Len(r) : Record(ks, ds, r[i]) = Record(js, es, r[i])
  BY DEF Record
<1>2. /\ Contents(r, ks, ds) \in Seq(Records(ks, ds)) /\ Len(Contents(r, ks, ds)) = Len(r)
      /\ \A i \in 1 .. Len(r) : Contents(r, ks, ds)[i] = Record(ks, ds, r[i])
  BY ContentsFacts
<1>3. /\ Contents(r, js, es) \in Seq(Records(js, es)) /\ Len(Contents(r, js, es)) = Len(r)
      /\ \A i \in 1 .. Len(r) : Contents(r, js, es)[i] = Record(js, es, r[i])
  BY ContentsFacts
<1>4. \A i \in 1 .. Len(r) : Contents(r, ks, ds)[i] = Contents(r, js, es)[i]
  BY <1>1, <1>2, <1>3
<1> QED
  BY <1>2, <1>3, <1>4, SameSequence

\* A node in front is an entry in front.
LEMMA ContentsInFront ==
  \A ks, ds : \A n \in Nodes, r \in Seq(Nodes) :
    Contents(<<n>> \o r, ks, ds) = <<Record(ks, ds, n)>> \o Contents(r, ks, ds)
<1> SUFFICES
      ASSUME NEW ks, NEW ds, NEW n \in Nodes, NEW r \in Seq(Nodes)
      PROVE  Contents(<<n>> \o r, ks, ds) = <<Record(ks, ds, n)>> \o Contents(r, ks, ds)
  OBVIOUS
<1> DEFINE t == <<n>> \o r
           c == Contents(r, ks, ds)
           e == Record(ks, ds, n)
           u == <<e>> \o c
           S == Records(ks, ds)
           z == Len(r)
<1>1. /\ t \in Seq(Nodes) /\ Len(t) = z + 1 /\ t[1] = n /\ z \in Nat
      /\ \A i \in 2 .. z + 1 : t[i] = r[i - 1]
  BY InFront
<1>2. c \in Seq(S) /\ Len(c) = z /\ \A i \in 1 .. z : c[i] = Record(ks, ds, r[i])
  BY ContentsFacts
<1>3. e \in S
  BY DEF Records
<1> HIDE DEF e, c, S
<1>4. u \in Seq(S) /\ Len(u) = z + 1 /\ u[1] = e /\ \A i \in 2 .. z + 1 : u[i] = c[i - 1]
  BY <1>2, <1>3, InFront
<1> HIDE DEF t, u, z
<1>5. /\ Contents(t, ks, ds) \in Seq(S) /\ Len(Contents(t, ks, ds)) = z + 1
      /\ \A i \in 1 .. z + 1 : Contents(t, ks, ds)[i] = Record(ks, ds, t[i])
  <2>1. /\ Contents(t, ks, ds) \in Seq(S) /\ Len(Contents(t, ks, ds)) = Len(t)
        /\ \A i \in 1 .. Len(t) : Contents(t, ks, ds)[i] = Record(ks, ds, t[i])
    BY ONLY <1>1, ContentsFacts DEF S
  <2> QED
    BY <1>1, <2>1
<1>6. \A i \in 1 .. z + 1 : Contents(t, ks, ds)[i] = u[i]
  <2> SUFFICES ASSUME NEW i \in 1 .. z + 1 PROVE Record(ks, ds, t[i]) = u[i]
    BY <1>5
  <2>1. CASE i = 1
    BY <1>1, <1>4, <2>1 DEF e
  <2>2. CASE i # 1
    <3>1. i \in 2 .. z + 1 /\ i - 1 \in 1 .. z
      BY <1>1, <2>2
    <3> QED
      BY <1>1, <1>2, <1>4, <3>1
  <2> QED
    BY <2>1, <2>2
<1>7. Contents(t, ks, ds) = u
  BY <1>4, <1>5, <1>6, SameSequence
<1> QED
  BY <1>7 DEF t, u, c, e

\* A node left out is an entry left out.
LEMMA ContentsRemove ==
  ASSUME NEW r \in Seq(Nodes), NEW k \in 1 .. Len(r), NEW ks, NEW ds
  PROVE  Contents(RemoveAt(r, k), ks, ds) = RemoveAt(Contents(r, ks, ds), k)
<1> DEFINE t == RemoveAt(r, k)
           c == Contents(r, ks, ds)
           u == RemoveAt(c, k)
           S == Records(ks, ds)
           z == Len(r)
<1>1. c \in Seq(S) /\ Len(c) = z /\ z \in Nat /\ \A i \in 1 .. z : c[i] = Record(ks, ds, r[i])
  BY ContentsFacts
<1>2. k \in DOMAIN r
  OBVIOUS
<1>3. t \in Seq(Nodes) /\ Len(t) = z - 1 /\ \A i \in 1 .. z - 1 : t[i] = IF i < k THEN r[i] ELSE r[i + 1]
  BY <1>2, RemoveAtFacts
<1> HIDE DEF c, S
<1>4. k \in DOMAIN c
  BY <1>1
<1>5. u \in Seq(S) /\ Len(u) = z - 1 /\ \A i \in 1 .. z - 1 : u[i] = IF i < k THEN c[i] ELSE c[i + 1]
  BY <1>1, <1>4, RemoveAtFacts
<1> HIDE DEF t, u, z
<1>6. /\ Contents(t, ks, ds) \in Seq(S) /\ Len(Contents(t, ks, ds)) = z - 1
      /\ \A i \in 1 .. z - 1 : Contents(t, ks, ds)[i] = Record(ks, ds, t[i])
  BY <1>3, ContentsFacts DEF S
<1>7. \A i \in 1 .. z - 1 : i \in 1 .. z /\ i + 1 \in 1 .. z
  BY <1>1
<1>8. ASSUME NEW i \in 1 .. z - 1 PROVE Contents(t, ks, ds)[i] = u[i]
  <2>1. Contents(t, ks, ds)[i] = Record(ks, ds, t[i])
    BY <1>6
  <2>2. CASE i < k
    <3>1. t[i] = r[i] /\ u[i] = c[i] /\ c[i] = Record(ks, ds, r[i])
      BY <1>1, <1>3, <1>5, <1>7, <2>2
    <3> QED
      BY <2>1, <3>1
  <2>3. CASE ~(i < k)
    <3>1. t[i] = r[i + 1] /\ u[i] = c[i + 1] /\ c[i + 1] = Record(ks, ds, r[i + 1])
      BY <1>1, <1>3, <1>5, <1>7, <2>3
    <3> QED
      BY <2>1, <3>1
  <2> QED
    BY <2>2, <2>3
<1>9. Contents(t, ks, ds) = u
  BY <1>5, <1>6, <1>8, SameSequence
<1> QED
  BY <1>9 DEF t, u, c

\* The first nodes are the first entries.
LEMMA ContentsFirst ==
  ASSUME NEW r \in Seq(Nodes), NEW m \in 0 .. Len(r), NEW ks, NEW ds
  PROVE  /\ SubSeq(r, 1, m) \in Seq(Nodes)
         /\ Contents(SubSeq(r, 1, m), ks, ds) = SubSeq(Contents(r, ks, ds), 1, m)
<1> DEFINE t == SubSeq(r, 1, m)
           c == Contents(r, ks, ds)
           u == SubSeq(c, 1, m)
           S == Records(ks, ds)
           z == Len(r)
<1>1. c \in Seq(S) /\ Len(c) = z /\ z \in Nat /\ \A i \in 1 .. z : c[i] = Record(ks, ds, r[i])
  BY ContentsFacts
<1>2. /\ 1 \in Int /\ m \in Int /\ m \in Nat /\ m - 1 + 1 = m
      /\ \A i \in 1 .. m : i \in 1 .. z
  BY <1>1
<1> HIDE DEF c, S
<1>3. (\A i \in 1 .. m : r[i] \in Nodes) /\ \A i \in 1 .. m : c[i] \in S
  BY <1>1, <1>2
<1>4. /\ t \in Seq(Nodes) /\ Len(t) = IF 1 <= m THEN m - 1 + 1 ELSE 0
      /\ \A i \in 1 .. m - 1 + 1 : t[i] = r[1 + i - 1]
  BY ONLY <1>2, <1>3, SubSeqProperties DEF t
<1>5. /\ u \in Seq(S) /\ Len(u) = IF 1 <= m THEN m - 1 + 1 ELSE 0
      /\ \A i \in 1 .. m - 1 + 1 : u[i] = c[1 + i - 1]
  BY ONLY <1>2, <1>3, SubSeqProperties DEF u
<1>6. (IF 1 <= m THEN m - 1 + 1 ELSE 0) = m /\ \A i \in 1 .. m : 1 + i - 1 = i
  BY <1>2
<1> HIDE DEF t, u, z
<1>7. Len(t) = m /\ Len(u) = m /\ \A i \in 1 .. m : t[i] = r[i] /\ u[i] = c[i]
  BY <1>2, <1>4, <1>5, <1>6
<1>8. /\ Contents(t, ks, ds) \in Seq(S) /\ Len(Contents(t, ks, ds)) = m
      /\ \A i \in 1 .. m : Contents(t, ks, ds)[i] = Record(ks, ds, t[i])
  BY <1>4, <1>7, ContentsFacts DEF S
<1>9. \A i \in 1 .. m : Contents(t, ks, ds)[i] = u[i]
  BY <1>1, <1>2, <1>7, <1>8
<1>10. Contents(t, ks, ds) = u
  BY <1>5, <1>7, <1>8, <1>9, SameSequence
<1> QED
  BY <1>4, <1>10 DEF t, u, c

\* The element at k is used, and is e from now on.
UsedAt(q, k, e) == <<e>> \o RemoveAt(q, k)

\* A node that moves to the front, and may get another text.
LEMMA ContentsMoved ==
  ASSUME NEW r, r \in Seq(Nodes), \A i, j \in 1 .. Len(r) : r[i] = r[j] => i = j,
         NEW k, k \in 1 .. Len(r), NEW ks, NEW ds, NEW es,
         \A n \in Nodes \ {r[k]} : es[n] = ds[n]
  PROVE  Contents(UsedAt(r, k, r[k]), ks, es)
           = UsedAt(Contents(r, ks, ds), k, Record(ks, es, r[k]))
<1> DEFINE t == RemoveAt(r, k)
           z == Len(r)
<1>1. z \in Nat /\ k \in DOMAIN r /\ k \in 1 .. z /\ \A i \in 1 .. z : r[i] \in Nodes
  OBVIOUS
<1>2. t \in Seq(Nodes) /\ Len(t) = z - 1 /\ \A i \in 1 .. z - 1 : t[i] = IF i < k THEN r[i] ELSE r[i + 1]
  BY <1>1, RemoveAtFacts
<1>3. Contents(t, ks, ds) = RemoveAt(Contents(r, ks, ds), k)
  BY ContentsRemove
<1> HIDE DEF t, z
<1>4. ASSUME NEW i \in 1 .. z - 1 PROVE t[i] \in Nodes \ {r[k]}
  <2> DEFINE p == i + 1
  <2>1. i \in 1 .. z /\ p \in 1 .. z /\ (i < k => i # k) /\ (~(i < k) => p # k)
    BY <1>1
  <2>2. t[i] = IF i < k THEN r[i] ELSE r[p]
    BY <1>2
  <2> HIDE DEF p
  <2>3. \A j \in 1 .. z : r[j] = r[k] => j = k
    BY <1>1 DEF z
  <2> QED
    BY <1>1, <2>1, <2>2, <2>3
<1>5. \A i \in 1 .. Len(t) : ks[t[i]] = ks[t[i]] /\ es[t[i]] = ds[t[i]]
  BY <1>2, <1>4
<1>6. Contents(t, ks, es) = Contents(t, ks, ds)
  BY <1>2, <1>5, ContentsSame
<1>7. Contents(<<r[k]>> \o t, ks, es) = <<Record(ks, es, r[k])>> \o Contents(t, ks, es)
  BY <1>1, <1>2, ContentsInFront
<1> QED
  BY <1>3, <1>6, <1>7 DEF t, UsedAt

(***************************************************************************)
(* The refinement, one command at a time.                                  *)
(***************************************************************************)
Entries == Contents(Recency, key, data)
Broken  == damage \in {"list", "undefined"}

\* The state of RecencyCache in terms of this module.
LEMMA CacheParts ==
  /\ UNCHANGED <<capacity, Entries, shown, Broken>> => UNCHANGED Cache!vars
  /\ \A k : Cache!Holding(k) = {i \in DOMAIN Entries : Entries[i].key = k}
<1>1. UNCHANGED <<capacity, Entries, shown, Broken>> => UNCHANGED Cache!vars
  BY DEF Cache!vars, Entries, Contents, Broken
<1>2. \A k : Cache!Holding(k) = {i \in DOMAIN Entries : Entries[i].key = k}
  BY DEF Cache!Holding, Entries, Contents
<1> QED
  BY <1>1, <1>2

\* What the cache holds, while it is not broken.
LEMMA EntriesFacts ==
  ASSUME Invariant
  PROVE  /\ Recency \in Seq(Nodes) /\ Len(Recency) = size /\ size \in 0 .. capacity
         /\ \A i, j \in 1 .. size : Recency[i] = Recency[j] => i = j
         /\ Len(Entries) = size /\ DOMAIN Entries = 1 .. size
         /\ \A i \in 1 .. size : Entries[i] = Record(key, data, Recency[i])
<1>1. /\ Recency \in Seq(Nodes) /\ Len(Recency) = size /\ size \in 0 .. capacity
      /\ \A i, j \in 1 .. size : Recency[i] = Recency[j] => i = j
  BY DEF Invariant, ListSound, Linked, TypeOK
<1>2. /\ Entries \in Seq(Records(key, data)) /\ Len(Entries) = Len(Recency)
      /\ \A i \in 1 .. Len(Recency) : Entries[i] = Record(key, data, Recency[i])
  BY <1>1, ContentsFacts DEF Entries
<1> QED
  BY <1>1, <1>2

\* A key that no bucket holds is no entry's.
LEMMA NoEntry ==
  ASSUME Invariant, damage \in {"none", "bucket"}, NEW k \in Keys, Miss(k)
  PROVE  Cache!Holding(k) = {}
<1> SUFFICES ASSUME NEW i \in DOMAIN Entries, Entries[i].key = k PROVE FALSE
  BY CacheParts
<1>1. i \in 1 .. size /\ Entries[i] = Record(key, data, Recency[i])
  BY EntriesFacts
<1> DEFINE n == Recency[i]
<1>2. n \in live
  <2>1. ToSet(Recency) = live /\ i \in DOMAIN Recency
    BY <1>1, EntriesFacts DEF Invariant, ListSound
  <2> QED
    BY <2>1 DEF ToSet
<1>3. key[n] = k
  BY <1>1 DEF Record
<1> HIDE DEF n
<1>4. PICK j \in DOMAIN buckets : buckets[j] = [key |-> k, node |-> n]
  BY <1>2, <1>3 DEF Invariant, TableSound, Listed
<1>5. n \in Nodes
  BY <1>2 DEF Invariant, TypeOK
<1>6. HoldsKey(buckets, j, k)
  BY <1>4, <1>5, NoneIsNoRecord DEF HoldsKey
<1> QED
  BY <1>6, MissFacts DEF Invariant

\* What an eviction leaves of the entries.
LEMMA KeptFacts ==
  ASSUME Invariant, capacity # 0
  PROVE  /\ Kept \in Seq(Nodes)
         /\ Contents(Kept, key, data)
              = SubSeq(Entries, 1, IF size < capacity THEN size ELSE capacity - 1)
         /\ size < capacity => Contents(Kept, key, data) = Entries
<1>1. /\ Recency \in Seq(Nodes) /\ Len(Recency) = size /\ size \in 0 .. capacity /\ capacity \in Nat
      /\ Len(Entries) = size /\ Entries \in Seq(Records(key, data))
  BY EntriesFacts, TypeFacts, ContentsFacts DEF Entries, Invariant
<1>2. CASE size < capacity
  <2>1. Kept = Recency /\ SubSeq(Entries, 1, Len(Entries)) = Entries
    BY <1>1, <1>2, PrefixByPrefix DEF Kept
  <2> QED
    BY <1>1, <1>2, <2>1 DEF Entries
<1>3. CASE ~(size < capacity)
  <2>1. Kept = SubSeq(Recency, 1, size - 1) /\ size = capacity /\ size - 1 \in 0 .. Len(Recency)
    BY <1>1, <1>3 DEF Kept
  <2>2. Kept \in Seq(Nodes) /\ Contents(Kept, key, data) = SubSeq(Entries, 1, size - 1)
    BY <1>1, <2>1, ContentsFirst DEF Entries
  <2> QED
    BY <1>3, <2>1, <2>2
<1> QED
  BY <1>1, <1>2, <1>3

\* The operations of RecencyCache in terms of this module.
LEMMA CacheActions ==
  /\ \A k, d :
       Cache!Put(k, d) <=>
         /\ capacity # 0
         /\ \/ \E i \in Cache!Holding(k) :
                 Entries' = <<[key |-> k, data |-> d]>> \o RemoveAt(Entries, i)
            \/ /\ Cache!Holding(k) = {}
               /\ Entries' = <<[key |-> k, data |-> d]>>
                    \o SubSeq(Entries, 1, IF Len(Entries) < capacity THEN Len(Entries)
                                          ELSE capacity - 1)
         /\ capacity' = capacity /\ shown' = shown
  /\ \A k :
       Cache!Get(k) <=>
         /\ capacity # 0
         /\ \/ Cache!Holding(k) = {} /\ shown' = None /\ Entries' = Entries
            \/ \E i \in Cache!Holding(k) :
                 /\ shown' = Entries[i].data
                 /\ Entries' = <<Entries[i]>> \o RemoveAt(Entries, i)
         /\ capacity' = capacity
  /\ \A c : Cache!Create(c) <=> capacity' = c /\ Entries' = <<>> /\ shown' = shown
  /\ Cache!Forget <=>
       /\ Len(Entries) = capacity
       /\ Entries' = SubSeq(Entries, 1, capacity - 1)
       /\ capacity' = capacity /\ shown' = shown
  /\ Cache!Init <=> capacity = 0 /\ Entries = <<>> /\ shown = None /\ ~Broken
  /\ Cache!Next <=> \/ ~Broken /\ Cache!Promised /\ ~Broken'
                    \/ MemoryMayFail /\ Broken'
<1>1. \A k, d :
       Cache!Put(k, d) <=>
         /\ capacity # 0
         /\ \/ \E i \in Cache!Holding(k) :
                 Entries' = <<[key |-> k, data |-> d]>> \o RemoveAt(Entries, i)
            \/ /\ Cache!Holding(k) = {}
               /\ Entries' = <<[key |-> k, data |-> d]>>
                    \o SubSeq(Entries, 1, IF Len(Entries) < capacity THEN Len(Entries)
                                          ELSE capacity - 1)
         /\ capacity' = capacity /\ shown' = shown
  BY DEF Cache!Put, Cache!Entry, Cache!Use, Cache!RemoveAt, RemoveAt, Entries, Contents
<1>2. \A k :
       Cache!Get(k) <=>
         /\ capacity # 0
         /\ \/ Cache!Holding(k) = {} /\ shown' = None /\ Entries' = Entries
            \/ \E i \in Cache!Holding(k) :
                 /\ shown' = Entries[i].data
                 /\ Entries' = <<Entries[i]>> \o RemoveAt(Entries, i)
         /\ capacity' = capacity
  BY DEF Cache!Get, Cache!Use, Cache!RemoveAt, RemoveAt, Entries, Contents
<1>3. \A c : Cache!Create(c) <=> capacity' = c /\ Entries' = <<>> /\ shown' = shown
  BY DEF Cache!Create, Entries, Contents
<1>4. Cache!Forget <=>
       /\ Len(Entries) = capacity
       /\ Entries' = SubSeq(Entries, 1, capacity - 1)
       /\ capacity' = capacity /\ shown' = shown
  BY DEF Cache!Forget, Entries, Contents
<1>5. Cache!Init <=> capacity = 0 /\ Entries = <<>> /\ shown = None /\ ~Broken
  BY DEF Cache!Init, Entries, Contents, Broken
<1>6. Cache!Next <=> \/ ~Broken /\ Cache!Promised /\ ~Broken'
                     \/ MemoryMayFail /\ Broken'
  BY DEF Cache!Next, Broken
<1> QED
  BY <1>1, <1>2, <1>3, <1>4, <1>5, <1>6

\* What a use does to the entries.
LEMMA UseEntries ==
  ASSUME Invariant, ~ended, NEW k \in Keys, Hit(k), UNCHANGED key,
         \A n \in Nodes \ {Node(k)} : data'[n] = data[n]
  PROVE  /\ ~Broken /\ capacity # 0
         /\ \E i \in Cache!Holding(k) :
              /\ Entries[i].data = data[Node(k)]
              /\ Entries[i] = [key |-> k, data |-> data[Node(k)]]
              /\ Entries' = <<[key |-> k, data |-> data'[Node(k)]]>> \o RemoveAt(Entries, i)
<1>1. damage \in {"none", "bucket"} /\ Recency \in Seq(Nodes) /\ key[Node(k)] = k
  BY Place
<1>2. PICK i \in 1 .. Len(Recency) : Node(k) = Recency[i]
  BY Place
<1>3. /\ Len(Recency) = size /\ DOMAIN Entries = 1 .. size
      /\ Entries[i] = Record(key, data, Node(k))
      /\ \A a, b \in 1 .. Len(Recency) : Recency[a] = Recency[b] => a = b
  BY <1>2, EntriesFacts
<1>4. i \in Cache!Holding(k) /\ Entries[i] = [key |-> k, data |-> data[Node(k)]]
  BY <1>1, <1>2, <1>3, CacheParts DEF Record
<1>5. Recency' = <<Recency[i]>> \o RemoveAt(Recency, i)
  BY <1>1, <1>2, UseFacts DEF Hit
<1>6. Contents(UsedAt(Recency, i, Recency[i]), key, data')
        = UsedAt(Contents(Recency, key, data), i, Record(key, data', Recency[i]))
  <2>1. \A n \in Nodes \ {Recency[i]} : data'[n] = data[n]
    BY <1>2
  <2> QED
    BY <1>1, <1>3, <1>2, <2>1, ContentsMoved
<1>7. Entries' = <<[key |-> k, data |-> data'[Node(k)]]>> \o RemoveAt(Entries, i)
  BY <1>1, <1>2, <1>5, <1>6 DEF Entries, Record, UsedAt
<1>8. \E j \in Cache!Holding(k) :
         /\ Entries[j].data = data[Node(k)]
         /\ Entries[j] = [key |-> k, data |-> data[Node(k)]]
         /\ Entries' = <<[key |-> k, data |-> data'[Node(k)]]>> \o RemoveAt(Entries, j)
  <2>1. Entries[i].data = data[Node(k)]
    BY <1>4
  <2> QED
    BY <1>4, <1>7, <2>1, Zenon
<1> QED
  BY <1>1, <1>8, Zenon DEF Broken, Hit

\* Put of a key that is there.
LEMMA UpdateStep ==
  ASSUME Invariant, ~ended, NEW k \in Keys, NEW d \in Data, updateData(k, d)
  PROVE  Cache!Next
<1>1. PICK copy \in copyString(d) : data' = [data EXCEPT ![Node(k)] = copy]
  BY DEF updateData
<1>2. copy = d \/ (copy = None /\ MemoryMayFail)
  BY DEF copyString
<1>3. Hit(k) /\ UNCHANGED <<capacity, key, shown, damage>>
  BY DEF updateData
<1>4. data \in [Nodes -> Data \cup {None}] /\ Node(k) \in Nodes
  BY <1>3, HitFacts DEF Invariant, TypeOK, TableSound
<1>5. data'[Node(k)] = copy /\ \A n \in Nodes \ {Node(k)} : data'[n] = data[n]
  BY <1>1, <1>4
<1>6. Cache!Put(k, copy)
  <2>1. capacity # 0 /\ capacity' = capacity /\ shown' = shown
    BY <1>3, <1>5, UseEntries
  <2>2. \E i \in Cache!Holding(k) :
          Entries' = <<[key |-> k, data |-> copy]>> \o RemoveAt(Entries, i)
    BY <1>3, <1>5, UseEntries
  <2> QED
    BY ONLY <2>1, <2>2, CacheActions
<1>7. Cache!Promised
  BY <1>2, <1>6 DEF Cache!Promised
<1>8. ~Broken /\ ~Broken'
  BY <1>3, <1>5, UseEntries DEF Broken
<1> QED
  BY <1>7, <1>8, CacheActions

\* Get of a key that is there.
LEMMA GetHitStep ==
  ASSUME Invariant, ~ended, NEW k \in Keys, getHit(k)
  PROVE  Cache!Next
<1>1. /\ Hit(k) /\ shown' = data[Node(k)]
      /\ UNCHANGED <<capacity, key, data, damage>>
  BY DEF getHit
<1>2. Cache!Get(k)
  BY <1>1, UseEntries, CacheActions
<1>3. Cache!Promised
  BY <1>2 DEF Cache!Promised
<1>4. ~Broken /\ ~Broken'
  BY <1>1, UseEntries DEF Broken
<1> QED
  BY <1>3, <1>4, CacheActions

\* Get of a key that is not there.
LEMMA GetMissStep ==
  ASSUME Invariant, ~ended, NEW k \in Keys, getMiss(k)
  PROVE  Cache!Next
<1>1. /\ Miss(k) /\ capacity # 0 /\ shown' = None /\ Recency' = Recency
      /\ UNCHANGED <<capacity, key, data, damage>>
  BY GetMissKeeps DEF getMiss, Miss
<1>2. CASE damage \in {"none", "bucket"}
  <2>1. Entries' = Entries
    BY <1>1 DEF Entries
  <2>2. Cache!Get(k)
    BY <1>1, <1>2, <2>1, NoEntry, CacheActions
  <2>3. Cache!Promised
    BY <2>2 DEF Cache!Promised
  <2> QED
    BY <1>1, <1>2, <2>3, CacheActions DEF Broken
<1>3. CASE damage \in {"list", "undefined"}
  BY <1>1, <1>3, CacheActions DEF Broken, Invariant, DamageSound
<1> QED
  BY <1>2, <1>3 DEF Invariant, TypeOK

\* Put of a new key: the evicted entry is the oldest one.
LEMMA PutNewStep ==
  ASSUME Invariant, ~ended, NEW k \in Keys, NEW d \in Data, NEW n \in Nodes, putNew(k, d, n)
  PROVE  Cache!Next
<1> DEFINE s == evictLRU
           r == Kept
<1>1. /\ damage \in {"none", "bucket"} /\ Leaves(s, r) /\ Recency' = <<n>> \o r
  BY PutNewKeeps
<1>2. /\ Miss(k) /\ n \notin s.live /\ key' = [s.key EXCEPT ![n] = k]
      /\ UNCHANGED <<capacity, shown, damage>>
  BY DEF putNew
<1>3. PICK copy \in copyString(d) : data' = [s.data EXCEPT ![n] = copy]
  BY DEF putNew
<1> HIDE DEF s, r
<1>4. copy = d \/ (copy = None /\ MemoryMayFail)
  BY DEF copyString
<1>5. /\ r \in Seq(Nodes) /\ ToSet(r) = s.live /\ s.live \in SUBSET live
      /\ s.key \in [Nodes -> Keys \cup {None}] /\ s.data \in [Nodes -> Data \cup {None}]
      /\ \A m \in s.live : s.key[m] = key[m] /\ s.data[m] = data[m]
  BY <1>1 DEF Leaves
<1>6. Record(key', data', n) = [key |-> k, data |-> copy]
  BY <1>2, <1>3, <1>5 DEF Record
<1>7. Contents(r, key', data') = Contents(r, key, data)
  <2>1. \A i \in 1 .. Len(r) : r[i] \in s.live /\ r[i] \in Nodes
    BY <1>5 DEF ToSet
  <2>2. \A m \in s.live : m \in Nodes => key'[m] = key[m] /\ data'[m] = data[m]
    BY <1>2, <1>3, <1>5
  <2>3. \A i \in 1 .. Len(r) : key'[r[i]] = key[r[i]] /\ data'[r[i]] = data[r[i]]
    BY <2>1, <2>2
  <2> QED
    BY <1>5, <2>3, ContentsSame
<1>8. Contents(<<n>> \o r, key', data') = <<Record(key', data', n)>> \o Contents(r, key', data')
  BY <1>5, ContentsInFront
<1>9. capacity # 0 /\ Cache!Holding(k) = {}
  BY <1>1, <1>2, NoEntry DEF Miss
<1>10. /\ Contents(r, key, data)
            = SubSeq(Entries, 1, IF size < capacity THEN size ELSE capacity - 1)
       /\ Len(Entries) = size
  BY <1>9, KeptFacts, EntriesFacts DEF r
<1>11. Entries' = <<[key |-> k, data |-> copy]>>
         \o SubSeq(Entries, 1, IF Len(Entries) < capacity THEN Len(Entries) ELSE capacity - 1)
  BY <1>1, <1>6, <1>7, <1>8, <1>10 DEF Entries
<1>12. Cache!Put(k, copy)
  BY <1>2, <1>9, <1>11, CacheActions
<1>13. Cache!Promised
  BY <1>4, <1>12 DEF Cache!Promised
<1> QED
  BY <1>1, <1>2, <1>13, CacheActions DEF Broken

\* Put with no memory for the cache node: an entry is forgotten, or nothing happens.
LEMMA PutWithoutNodeStep ==
  ASSUME Invariant, ~ended, NEW k \in Keys, putWithoutNode(k)
  PROVE  [Cache!Next]_(Cache!vars)
<1> DEFINE s == evictLRU
           r == Kept
<1>1. /\ damage \in {"none", "bucket"} /\ Leaves(s, r) /\ Recency' = r
  BY PutWithoutNodeKeeps
<1>2. /\ MemoryMayFail /\ capacity # 0 /\ key' = s.key /\ data' = s.data /\ damage' = "bucket"
      /\ UNCHANGED <<capacity, shown>>
  BY DEF putWithoutNode, Miss
<1> HIDE DEF s, r
<1>3. /\ r \in Seq(Nodes) /\ ToSet(r) = s.live
      /\ \A m \in s.live : s.key[m] = key[m] /\ s.data[m] = data[m]
  BY <1>1 DEF Leaves
<1>4. Contents(r, key', data') = Contents(r, key, data)
  <2>1. \A i \in 1 .. Len(r) : r[i] \in s.live
    BY <1>3 DEF ToSet
  <2>2. \A i \in 1 .. Len(r) : key'[r[i]] = key[r[i]] /\ data'[r[i]] = data[r[i]]
    BY <1>2, <1>3, <2>1
  <2> QED
    BY <1>3, <2>2, ContentsSame
<1>5. /\ Contents(r, key, data)
           = SubSeq(Entries, 1, IF size < capacity THEN size ELSE capacity - 1)
      /\ size < capacity => Contents(r, key, data) = Entries
      /\ Len(Entries) = size /\ size \in 0 .. capacity /\ capacity \in Nat
  BY <1>2, KeptFacts, EntriesFacts, TypeFacts DEF r, Invariant
<1>6. Entries' = Contents(r, key, data)
  BY <1>1, <1>4 DEF Entries
<1>7. ~Broken /\ ~Broken'
  BY <1>1, <1>2 DEF Broken
<1>8. CASE size < capacity
  <2>1. UNCHANGED <<capacity, Entries, shown, Broken>>
    BY <1>2, <1>5, <1>6, <1>7, <1>8 DEF Broken
  <2> QED
    BY <2>1, CacheParts
<1>9. CASE ~(size < capacity)
  <2>1. Cache!Forget
    BY <1>2, <1>5, <1>6, <1>9, CacheActions
  <2>2. Cache!Promised
    BY <1>2, <2>1 DEF Cache!Promised
  <2> QED
    BY <1>7, <2>2, CacheActions
<1> QED
  BY <1>8, <1>9

\* A new cache, or none.
LEMMA FreeStep ==
  ASSUME Invariant, ~ended, damage # "list", freeCache, NEW c \in Capacities \cup {0},
         capacity' = c, damage' = "none", shown' = shown
  PROVE  Cache!Next
<1>1. Recency' = <<>>
  BY FreeFacts
<1>2. Entries' = <<>>
  <2>1. DOMAIN <<>> = {}
    OBVIOUS
  <2> QED
    BY <1>1, <2>1 DEF Entries, Contents
<1>3. Cache!Promised
  BY <1>2, CacheActions DEF Cache!Promised
<1>4. ~Broken /\ ~Broken'
  BY DEF Broken, Invariant, DamageSound
<1> QED
  BY <1>3, <1>4, CacheActions

\* The program is the cache of RecencyCache: what a get prints and which entry
\* is evicted never depend on buckets, collisions or addresses that malloc gives
\* out again, and a malloc that fails costs what RecencyCache says.
THEOREM IsRecencyCache == Spec => ImplementsRecencyCache
<1>1. Init => Cache!Init
  <2> SUFFICES ASSUME Init PROVE Cache!Init
    OBVIOUS
  <2>1. Recency = <<>> /\ DOMAIN <<>> = {}
    BY NoListFacts, RecencyIs DEF Init, Recency
  <2>2. Entries = <<>>
    BY <2>1 DEF Entries, Contents
  <2> QED
    BY <2>2, CacheActions DEF Init, Broken
<1>2. Invariant /\ [Next]_vars => [Cache!Next]_(Cache!vars)
  <2> SUFFICES ASSUME Invariant, [Next]_vars PROVE [Cache!Next]_(Cache!vars)
    OBVIOUS
  <2>1. ASSUME Next PROVE [Cache!Next]_(Cache!vars)
    <3>1. ~ended /\ Command
      BY <2>1 DEF Next
    <3>2. ASSUME NEW c \in Capacities, createCache(c) PROVE Cache!Next
      BY <3>1, <3>2, FreeStep DEF createCache
    <3>3. ASSUME exitCache PROVE Cache!Next
      BY <3>1, <3>3, FreeStep DEF exitCache
    <3>4. ASSUME NEW k \in Keys, useDamaged(k) \/ putWithoutEither(k) PROVE Cache!Next
      BY <3>4, CacheActions DEF useDamaged, putWithoutEither, Broken, Invariant, DamageSound
    <3>5. ASSUME NEW k \in Keys, NEW n \in Nodes, putWithoutHashNode(k, n) PROVE Cache!Next
      BY <3>5, CacheActions DEF putWithoutHashNode, Broken
    <3> QED
      BY <3>1, <3>2, <3>3, <3>4, <3>5, GetHitStep, GetMissStep, PutWithoutNodeStep,
         UpdateStep, PutNewStep DEF Command
  <2>2. ASSUME UNCHANGED vars PROVE UNCHANGED Cache!vars
    <3>1. UNCHANGED <<capacity, Entries, shown, Broken>>
      BY <2>2 DEF vars, Entries, Recency, Broken
    <3> QED
      BY <3>1, CacheParts
  <2> QED
    BY <2>1, <2>2
<1> QED
  BY <1>1, <1>2, InvariantHolds, PTL DEF Spec, ImplementsRecencyCache, Cache!Spec
===============================================================================
