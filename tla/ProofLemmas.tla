----------------------------- MODULE ProofLemmas -----------------------------
(***************************************************************************)
(* Facts about numbers, functions defined by recursion and sequences that  *)
(* the proofs about several components rest on.                            *)
(***************************************************************************)
EXTENDS Integers, Sequences, FiniteSets, SequencesExt, Selection, FiniteSetTheorems,
        SequenceTheorems, WellFoundedInduction, TLAPS

(***************************************************************************)
(* Induction: a property of numbers that fails fails for a smallest one.   *)
(***************************************************************************)
\* The order of the natural numbers is a well founded relation.
LEMMA NatOrder ==
  \E R : IsWellFoundedOn(R, Nat) /\ \A x, y \in Nat : y < x => <<y, x>> \in R
<1>1. IsWellFoundedOn(OpToRel(<, Nat), Nat)
  BY NatLessThanWellFounded
<1>2. \A x, y \in Nat : y < x => <<y, x>> \in OpToRel(<, Nat)
  BY Zenon DEF OpToRel
<1> QED
  BY <1>1, <1>2, Zenon

\* Every set of natural numbers that is not empty has a least member.
LEMMA NatMin ==
  ASSUME NEW S, S \subseteq Nat, S # {}
  PROVE  \E m \in S : \A n \in S : m <= n
<1>1. PICK R : IsWellFoundedOn(R, Nat) /\ \A x, y \in Nat : y < x => <<y, x>> \in R
  BY NatOrder
<1>2. PICK m \in S : \A y \in S : ~(<<y, m>> \in R)
  BY <1>1, WFMin
<1>3. ASSUME NEW n \in S PROVE m <= n
  <2>1. m \in Nat /\ n \in Nat
    OBVIOUS
  <2>2. ~(n < m)
    BY <1>1, <1>2, <2>1
  <2> QED
    BY <2>1, <2>2
<1> QED
  BY <1>3

\* Induction up to n: a set of numbers that holds 0 and, with a number below n,
\* the next one, holds all numbers up to n.
LEMMA UpTo ==
  ASSUME NEW n \in Nat, NEW S, 0 \in S,
         \A i \in 1 .. n : i - 1 \in S => i \in S
  PROVE  0 .. n \subseteq S
<1> SUFFICES ASSUME (0 .. n) \ S # {} PROVE FALSE
  OBVIOUS
<1> DEFINE T == (0 .. n) \ S
<1>1. PICK m \in T : \A k \in T : m <= k
  <2> T \subseteq Nat /\ T # {}
    OBVIOUS
  <2> QED
    BY NatMin
<1>2. m \in 1 .. n /\ m - 1 \in 0 .. n /\ ~(m <= m - 1)
  BY <1>1
<1>3. m - 1 \in S
  BY <1>1, <1>2
<1> QED
  BY <1>1, <1>2, <1>3

\* What a recursion from v on that takes n steps in V needs, and what it computes.
Steps(V, v, n, step) == v \in V /\ n \in Nat /\ \A i \in 1 .. n : step[i] \in [V -> V]
Computes(f, V, v, n, step) ==
  f \in [0 .. n -> V] /\ f[0] = v /\ \A i \in 1 .. n : f[i] = step[i][f[i - 1]]

\* A function whose value at i is computed from i and its value at i - 1 exists.
LEMMA RecursionExists ==
  ASSUME NEW V, NEW v, NEW n, NEW step, Steps(V, v, n, step)
  PROVE  \E f : Computes(f, V, v, n, step)
<1> v \in V /\ n \in Nat /\ \A i \in 1 .. n : step[i] \in [V -> V]
  BY DEF Steps
<1> DEFINE Up(m) == \E f \in [0 .. m -> V] :
                      f[0] = v /\ \A i \in 1 .. m : f[i] = step[i][f[i - 1]]
           S == {m \in 0 .. n : Up(m)}
<1>1. 0 \in S
  <2>1. [i \in 0 .. 0 |-> v] \in [0 .. 0 -> V]
    OBVIOUS
  <2>2. [i \in 0 .. 0 |-> v][0] = v /\ 1 .. 0 = {}
    OBVIOUS
  <2>3. Up(0)
    BY <2>1, <2>2
  <2> QED
    BY <2>3
<1>2. ASSUME NEW i \in 1 .. n, i - 1 \in S PROVE i \in S
  <2>1. PICK f \in [0 .. i - 1 -> V] :
          f[0] = v /\ \A k \in 1 .. i - 1 : f[k] = step[k][f[k - 1]]
    BY <1>2
  <2> DEFINE g == [k \in 0 .. i |-> IF k = i THEN step[i][f[i - 1]] ELSE f[k]]
  <2>2. f[i - 1] \in V /\ step[i] \in [V -> V]
    OBVIOUS
  <2>3. step[i][f[i - 1]] \in V
    BY <2>2
  <2>4. g \in [0 .. i -> V]
    BY <2>3
  <2>5. g[0] = v
    BY <2>1
  <2>6. ASSUME NEW k \in 1 .. i PROVE g[k] = step[k][g[k - 1]]
    BY <2>1
  <2>7. Up(i)
    BY <2>4, <2>5, <2>6
  <2> QED
    BY <2>7
<1> HIDE DEF Up
<1>3. 0 .. n \subseteq S
  BY <1>1, <1>2, UpTo
<1>4. Up(n)
  BY <1>3
<1> QED
  BY <1>4 DEF Up, Computes

\* What CHOOSE picks as the least member of a set of numbers.
LEMMA LeastChosen ==
  ASSUME NEW S, S \subseteq Nat, S # {}
  PROVE  LET m == CHOOSE i \in S : \A j \in S : i <= j
         IN  m \in S /\ \A j \in S : m <= j
<1>1. \E i \in S : \A j \in S : i <= j
  BY NatMin
<1> QED
  BY <1>1

(***************************************************************************)
(* Sequences.                                                              *)
(***************************************************************************)
\* RemoveAt takes one place out of a sequence and keeps the order of the others.
LEMMA RemoveAtFacts ==
  ASSUME NEW S, NEW s \in Seq(S), NEW i \in DOMAIN s
  PROVE  /\ RemoveAt(s, i) \in Seq(S)
         /\ Len(RemoveAt(s, i)) = Len(s) - 1
         /\ \A k \in 1 .. Len(s) - 1 : RemoveAt(s, i)[k] = (IF k < i THEN s[k] ELSE s[k + 1])
<1> DEFINE a == SubSeq(s, 1, i - 1)
           b == SubSeq(s, i + 1, Len(s))
<1>1. i \in 1 .. Len(s) /\ Len(s) \in Nat
  OBVIOUS
<1>2. a \in Seq(S) /\ Len(a) = i - 1 /\ \A k \in 1 .. i - 1 : a[k] = s[k]
  BY <1>1, SubSeqProperties
<1>3. b \in Seq(S) /\ Len(b) = Len(s) - i /\ \A k \in 1 .. Len(s) - i : b[k] = s[i + k]
  BY <1>1, SubSeqProperties
<1>4. RemoveAt(s, i) = a \o b
  BY DEF RemoveAt
<1> HIDE DEF a, b
<1>5. /\ a \o b \in Seq(S)
      /\ Len(a \o b) = Len(a) + Len(b)
      /\ \A k \in 1 .. Len(a) + Len(b) :
           (a \o b)[k] = IF k <= Len(a) THEN a[k] ELSE b[k - Len(a)]
  BY <1>2, <1>3, ConcatProperties
<1>6. ASSUME NEW k \in 1 .. Len(s) - 1
      PROVE  (a \o b)[k] = (IF k < i THEN s[k] ELSE s[k + 1])
  <2>1. CASE k < i
    <3>1. k \in 1 .. i - 1 /\ k \in 1 .. Len(a) + Len(b) /\ k <= Len(a)
      BY <1>1, <1>2, <1>3, <2>1
    <3>2. a[k] = s[k]
      BY <1>2, <3>1
    <3> QED
      BY <1>5, <2>1, <3>1, <3>2
  <2>2. CASE ~(k < i)
    <3>1. k - (i - 1) \in 1 .. Len(s) - i /\ i + (k - (i - 1)) = k + 1
      BY <1>1, <2>2
    <3>2. k \in 1 .. Len(a) + Len(b) /\ ~(k <= Len(a)) /\ k - Len(a) = k - (i - 1)
      BY <1>1, <1>2, <1>3, <2>2
    <3>3. b[k - (i - 1)] = s[k + 1]
      BY <1>3, <3>1
    <3> QED
      BY <1>5, <2>2, <3>2, <3>3
  <2> QED
    BY <2>1, <2>2
<1>7. Len(a) + Len(b) = Len(s) - 1
  BY <1>1, <1>2, <1>3
<1> QED
  BY <1>4, <1>5, <1>6, <1>7

\* What RemoveAt leaves was there.
LEMMA RemoveAtMembers ==
  ASSUME NEW S, NEW s \in Seq(S), NEW i \in DOMAIN s
  PROVE  ToSet(RemoveAt(s, i)) \subseteq ToSet(s)
<1> DEFINE r == RemoveAt(s, i)
<1>1. /\ r \in Seq(S) /\ Len(r) = Len(s) - 1
      /\ \A k \in 1 .. Len(s) - 1 : r[k] = (IF k < i THEN s[k] ELSE s[k + 1])
  BY RemoveAtFacts
<1> HIDE DEF r
<1>2. ASSUME NEW k \in DOMAIN r PROVE r[k] \in ToSet(s)
  <2>1. k \in 1 .. Len(s) - 1 /\ Len(s) \in Nat
    BY <1>1
  <2>2. k \in DOMAIN s /\ k + 1 \in DOMAIN s
    BY <2>1
  <2> QED
    BY <1>1, <2>1, <2>2 DEF ToSet
<1> QED
  BY <1>2 DEF ToSet, r

\* The members of a sequence that grows at its end.
LEMMA AppendMembers ==
  ASSUME NEW S, NEW s \in Seq(S), NEW e \in S
  PROVE  ToSet(Append(s, e)) = ToSet(s) \cup {e}
<1>1. /\ Append(s, e) \in Seq(S)
      /\ Len(Append(s, e)) = Len(s) + 1
      /\ \A k \in 1 .. Len(s) : Append(s, e)[k] = s[k]
      /\ Append(s, e)[Len(s) + 1] = e
  BY AppendProperties
<1>2. DOMAIN s = 1 .. Len(s) /\ Len(s) \in Nat /\ DOMAIN Append(s, e) = 1 .. Len(s) + 1
  BY <1>1
<1>3. \A x : x \in ToSet(s) <=> \E k \in 1 .. Len(s) : s[k] = x
  BY <1>2 DEF ToSet
<1>4. \A x : x \in ToSet(Append(s, e)) <=> \E k \in 1 .. Len(s) + 1 : Append(s, e)[k] = x
  BY <1>2 DEF ToSet
<1>5. ASSUME NEW x, x \in ToSet(Append(s, e)) PROVE x \in ToSet(s) \cup {e}
  BY <1>1, <1>2, <1>3, <1>4, <1>5
<1>6. ASSUME NEW x, x \in ToSet(s) \cup {e} PROVE x \in ToSet(Append(s, e))
  BY <1>1, <1>2, <1>3, <1>4, <1>6
<1> QED
  BY <1>5, <1>6

\* The members of a sequence that loses its head.
LEMMA HeadTailMembers ==
  ASSUME NEW S, NEW s \in Seq(S), s # <<>>
  PROVE  /\ ToSet(s) = ToSet(Tail(s)) \cup {Head(s)}
         /\ Head(s) \in S
<1>1. /\ Tail(s) \in Seq(S) /\ Len(Tail(s)) = Len(s) - 1 /\ Len(s) \in Nat \ {0}
      /\ Head(s) = s[1] /\ \A k \in 1 .. Len(s) - 1 : Tail(s)[k] = s[k + 1]
  OBVIOUS
<1>2. \A x : x \in ToSet(s) <=> \E k \in 1 .. Len(s) : s[k] = x
  BY DEF ToSet
<1>3. \A x : x \in ToSet(Tail(s)) <=> \E k \in 1 .. Len(s) - 1 : s[k + 1] = x
  <2> DEFINE t == Tail(s)
  <2>1. DOMAIN t = 1 .. Len(s) - 1
    BY <1>1
  <2>2. \A x : x \in ToSet(t) <=> \E k \in 1 .. Len(s) - 1 : t[k] = x
    BY <2>1, Zenon DEF ToSet
  <2> QED
    BY <1>1, <2>2
<1>4. ASSUME NEW x, x \in ToSet(s) PROVE x \in ToSet(Tail(s)) \cup {Head(s)}
  <2>1. PICK k \in 1 .. Len(s) : s[k] = x
    BY <1>2, <1>4
  <2>2. CASE k = 1
    BY <1>1, <2>1, <2>2
  <2>3. CASE k # 1
    <3>1. k - 1 \in 1 .. Len(s) - 1 /\ (k - 1) + 1 = k
      BY <1>1, <2>3
    <3> QED
      BY <1>3, <2>1, <3>1
  <2> QED
    BY <2>2, <2>3
<1>5. ASSUME NEW x, x \in ToSet(Tail(s)) \cup {Head(s)} PROVE x \in ToSet(s)
  BY <1>1, <1>2, <1>3, <1>5
<1>6. Head(s) \in S
  OBVIOUS
<1> QED
  BY <1>4, <1>5, <1>6
\* What Append adds comes last.
LEMMA AppendLast ==
  ASSUME NEW S, NEW s \in Seq(S), NEW e \in S
  PROVE  Append(s, e)[Len(s) + 1] = e
BY AppendProperties

\* The sequences of one and of two members, as queues and pipes build them.
LEMMA OneMember ==
  \A x : Append(<<>>, x) = <<x>> /\ Head(<<x>>) = x /\ Tail(<<x>>) = <<>> /\ <<x>> # <<>>
<1>1. \A x : Append(<<>>, x) = <<x>>
  OBVIOUS
<1>2. \A x : Head(<<x>>) = x
  OBVIOUS
<1>3. \A x : Tail(<<x>>) = <<>>
  OBVIOUS
<1>4. \A x : <<x>> # <<>>
  OBVIOUS
<1> QED
  BY ONLY <1>1, <1>2, <1>3, <1>4

LEMMA TwoMembers ==
  \A x, y : /\ Append(<<x>>, y) = <<x, y>> /\ Head(<<x, y>>) = x
           /\ Tail(<<x, y>>) = <<y>> /\ <<x, y>> # <<>>
<1>1. ASSUME NEW x, NEW y PROVE Append(<<x>>, y) = <<x, y>>
  <2> DEFINE S == {x, y}
             s == <<x>>
             p == <<x, y>>
  <2>1. s \in Seq(S) /\ Len(s) = 1 /\ s[1] = x /\ y \in S
    OBVIOUS
  <2>2. p \in Seq(S) /\ Len(p) = 2 /\ p[1] = x /\ p[2] = y
    OBVIOUS
  <2> HIDE DEF S, s, p
  <2>3. Append(s, y) \in Seq(S)
    BY ONLY <2>1
  <2>4. Len(Append(s, y)) = 2
    BY ONLY <2>1
  <2>5. Append(s, y)[1] = x /\ Append(s, y)[2] = y
    <3>1. \A i \in 1 .. Len(s) : Append(s, y)[i] = s[i]
      BY <2>1
    <3>2. Append(s, y)[Len(s) + 1] = y
      BY <2>1, AppendLast
    <3>3. 1 \in 1 .. Len(s) /\ Len(s) + 1 = 2
      BY <2>1
    <3> QED
      BY <2>1, <3>1, <3>2, <3>3
  <2>6. \A i \in 1 .. 2 : Append(s, y)[i] = p[i]
    <3>1. \A i \in 1 .. 2 : i = 1 \/ i = 2
      OBVIOUS
    <3> QED
      BY <2>2, <2>5, <3>1, Zenon
  <2>7. Append(s, y) = p
    BY ONLY <2>2, <2>3, <2>4, <2>6, SeqEqual
  <2> QED
    BY <2>7 DEF s, p
<1>2. \A x, y : Head(<<x, y>>) = x
  OBVIOUS
<1>3. \A x, y : Tail(<<x, y>>) = <<y>>
  OBVIOUS
<1>4. \A x, y : <<x, y>> # <<>>
  OBVIOUS
<1> QED
  BY ONLY <1>1, <1>2, <1>3, <1>4

(***************************************************************************)
(* How often something occurs in a sequence.                               *)
(***************************************************************************)
Count(s, x) == Cardinality({i \in DOMAIN s : s[i] = x})

\* The places of a sequence are finitely many.
LEMMA CountNat ==
  ASSUME NEW S, NEW s \in Seq(S), NEW x
  PROVE  /\ IsFiniteSet({i \in DOMAIN s : s[i] = x})
         /\ Count(s, x) \in Nat
         /\ Count(s, x) = 0 <=> \A i \in DOMAIN s : s[i] # x
         /\ Count(s, x) = 0 <=> x \notin ToSet(s)
<1> DEFINE P == {i \in DOMAIN s : s[i] = x}
<1>1. IsFiniteSet(1 .. Len(s))
  BY FS_Interval
<1>2. IsFiniteSet(P)
  <2>1. P \subseteq 1 .. Len(s)
    OBVIOUS
  <2> QED
    BY <1>1, <2>1, FS_Subset
<1>3. Cardinality(P) \in Nat /\ (Cardinality(P) = 0 <=> P = {})
  BY <1>2, FS_CardinalityType, FS_EmptySet
<1> QED
  BY <1>2, <1>3 DEF Count, ToSet

\* What occurs in a sequence once is at one place only.
LEMMA CountOne ==
  ASSUME NEW S, NEW s \in Seq(S), NEW x
  PROVE  /\ Count(s, x) <= 1 <=> \A i, j \in DOMAIN s : s[i] = x /\ s[j] = x => i = j
         /\ Count(s, x) = 1 => \E i \in DOMAIN s : s[i] = x
<1> DEFINE P == {i \in DOMAIN s : s[i] = x}
<1>1. IsFiniteSet(P) /\ Cardinality(P) \in Nat /\ Count(s, x) = Cardinality(P)
  BY CountNat DEF Count
<1>2. Cardinality(P) = 1 <=> \E i : P = {i}
  BY <1>1, FS_Singleton
<1>3. Cardinality(P) = 0 <=> P = {}
  BY <1>1, FS_EmptySet
<1>4. ASSUME Cardinality(P) <= 1 PROVE \A i, j \in P : i = j
  <2>1. Cardinality(P) = 0 \/ Cardinality(P) = 1
    BY <1>1, <1>4
  <2> HIDE DEF P
  <2> QED
    BY <1>2, <1>3, <2>1
<1>5. ASSUME \A i, j \in P : i = j PROVE Cardinality(P) <= 1
  <2> HIDE DEF P
  <2>1. CASE P = {}
    BY <1>3, <2>1
  <2>2. CASE P # {}
    <3>1. PICK i : i \in P
      BY <2>2
    <3>2. P = {i}
      BY <1>5, <3>1
    <3>3. \E j : P = {j}
      BY <3>2
    <3>4. Cardinality(P) = 1
      BY <1>2, <3>3
    <3> QED
      BY <3>4
  <2> QED
    BY <2>1, <2>2
<1> QED
  BY <1>1, <1>2, <1>4, <1>5

\* One thing occurs once in the sequence of itself.
LEMMA CountSingle ==
  ASSUME NEW e, NEW x
  PROVE  Count(<<e>>, x) = IF e = x THEN 1 ELSE 0
<1>1. DOMAIN <<e>> = {1} /\ <<e>>[1] = e
  OBVIOUS
<1>2. CASE e = x
  <2>1. {i \in DOMAIN <<e>> : <<e>>[i] = x} = {1}
    BY <1>1, <1>2
  <2>2. Cardinality({1}) = 1
    BY FS_Singleton
  <2> QED
    BY <1>2, <2>1, <2>2 DEF Count
<1>3. CASE e # x
  <2>1. {i \in DOMAIN <<e>> : <<e>>[i] = x} = {}
    BY <1>1, <1>3
  <2>2. Cardinality({}) = 0
    BY FS_EmptySet
  <2> QED
    BY <1>3, <2>1, <2>2 DEF Count
<1> QED
  BY <1>2, <1>3

\* Occurrences in two sequences one behind the other add up.
LEMMA CountConcat ==
  ASSUME NEW S, NEW s \in Seq(S), NEW t \in Seq(S), NEW x
  PROVE  Count(s \o t, x) = Count(s, x) + Count(t, x)
<1> DEFINE A == {i \in DOMAIN s : s[i] = x}
           B == {i \in DOMAIN t : t[i] = x}
           C == {i \in DOMAIN (s \o t) : (s \o t)[i] = x}
           m == Len(s)
           B2 == {i \in m + 1 .. m + Len(t) : t[i - m] = x}
<1>1. m \in Nat /\ Len(t) \in Nat /\ DOMAIN s = 1 .. m /\ DOMAIN t = 1 .. Len(t)
  OBVIOUS
<1>2. /\ s \o t \in Seq(S) /\ Len(s \o t) = m + Len(t)
      /\ \A i \in 1 .. m + Len(t) : (s \o t)[i] = IF i <= m THEN s[i] ELSE t[i - m]
  BY ConcatProperties
<1>3. C = A \cup B2 /\ A \cap B2 = {}
  BY <1>1, <1>2
<1>4. IsFiniteSet(A) /\ IsFiniteSet(B)
  BY CountNat
<1>5. B2 = {i + m : i \in B}
  <2>1. ASSUME NEW j \in B2 PROVE \E i \in B : j = i + m
    <3>1. j - m \in 1 .. Len(t) /\ j = (j - m) + m /\ t[j - m] = x
      BY <1>1
    <3> QED
      BY <1>1, <3>1
  <2>2. ASSUME NEW i \in B PROVE i + m \in B2
    <3>1. (i + m) - m = i
      BY <1>1
    <3> QED
      BY <1>1, <3>1
  <2> QED
    BY <2>1, <2>2
<1> DEFINE f == [i \in B |-> i + m]
<1>6. f \in Bijection(B, B2)
  <2>1. f \in [B -> B2]
    BY <1>5
  <2>2. \A i, j \in B : f[i] = f[j] => i = j
    BY <1>1
  <2>3. \A j \in B2 : \E i \in B : f[i] = j
    BY <1>5
  <2> QED
    BY <2>1, <2>2, <2>3 DEF Bijection, Injection, Surjection, IsInjective
<1> HIDE DEF f, B2
<1>7. IsFiniteSet(B2) /\ Cardinality(B2) = Cardinality(B)
  BY <1>4, <1>6, FS_Bijection DEF ExistsBijection
<1>8. A \cap B2 = {} /\ IsFiniteSet(A \cap B2) /\ Cardinality(A \cap B2) = 0
  BY <1>3, FS_EmptySet
<1>9. Cardinality(A \cup B2) = Cardinality(A) + Cardinality(B2) - Cardinality(A \cap B2)
  <2> HIDE DEF A
  <2> QED
    BY <1>4, <1>7, FS_Union
<1>10. Cardinality(A) \in Nat /\ Cardinality(B) \in Nat
  BY <1>4, FS_CardinalityType
<1>11. Cardinality(C) = Cardinality(A) + Cardinality(B)
  <2> HIDE DEF A, B, C
  <2> QED
    BY <1>3, <1>7, <1>8, <1>9, <1>10
<1> QED
  BY <1>11 DEF Count
\* Something appended to a sequence occurs once more.
LEMMA CountAppend ==
  ASSUME NEW S, NEW s \in Seq(S), NEW e \in S, NEW x
  PROVE  Count(Append(s, e), x) = Count(s, x) + (IF e = x THEN 1 ELSE 0)
<1>1. <<e>> \in Seq(S) /\ Append(s, e) = s \o <<e>>
  BY AppendIsConcat
<1>2. Count(s \o <<e>>, x) = Count(s, x) + Count(<<e>>, x)
  BY <1>1, CountConcat
<1>3. Count(<<e>>, x) = IF e = x THEN 1 ELSE 0
  BY CountSingle
<1> QED
  BY Zenon, <1>1, <1>2, <1>3

\* The head of a sequence occurs once less in its tail.
LEMMA CountTail ==
  ASSUME NEW S, NEW s \in Seq(S), s # <<>>, NEW x
  PROVE  Count(s, x) = Count(Tail(s), x) + (IF Head(s) = x THEN 1 ELSE 0)
<1> DEFINE h == <<Head(s)>>
           t == Tail(s)
<1>1. h \in Seq(S) /\ t \in Seq(S) /\ s = h \o t
  BY HeadTailProperties
<1>2. Count(h, x) = IF Head(s) = x THEN 1 ELSE 0
  BY CountSingle
<1> HIDE DEF h, t
<1>3. Count(h \o t, x) = Count(h, x) + Count(t, x)
  BY <1>1, CountConcat
<1>4. Count(t, x) \in Nat /\ Count(h, x) \in Nat
  BY <1>1, CountNat
<1>5. Count(s, x) = Count(t, x) + Count(h, x)
  BY <1>1, <1>3, <1>4
<1> QED
  BY Zenon, <1>2, <1>5 DEF t

\* What is taken out of a sequence occurs once less.
LEMMA CountRemove ==
  ASSUME NEW S, NEW s \in Seq(S), NEW i \in DOMAIN s, NEW x
  PROVE  Count(s, x) = Count(RemoveAt(s, i), x) + (IF s[i] = x THEN 1 ELSE 0)
<1> DEFINE a == SubSeq(s, 1, i - 1)
           b == SubSeq(s, i + 1, Len(s))
           e == s[i]
<1>1. i \in 1 .. Len(s) /\ Len(s) \in Nat /\ e \in S
  OBVIOUS
<1>2. a \in Seq(S) /\ Len(a) = i - 1 /\ \A k \in 1 .. i - 1 : a[k] = s[k]
  BY <1>1, SubSeqProperties
<1>3. b \in Seq(S) /\ Len(b) = Len(s) - i /\ \A k \in 1 .. Len(s) - i : b[k] = s[i + k]
  BY <1>1, SubSeqProperties
<1>4. RemoveAt(s, i) = a \o b
  BY DEF RemoveAt
<1> HIDE DEF a, b, e
<1> DEFINE d == <<e>>
<1>5. d \in Seq(S) /\ Len(d) = 1 /\ d[1] = e
  BY <1>1
<1>6. Count(d, x) = IF e = x THEN 1 ELSE 0
  BY CountSingle
<1> HIDE DEF d
<1> DEFINE c == a \o d
<1>7. c \in Seq(S) /\ Len(c) = i /\ \A k \in 1 .. i : c[k] = s[k]
  <2>1. /\ c \in Seq(S) /\ Len(c) = Len(a) + Len(d)
        /\ \A k \in 1 .. Len(a) + Len(d) :
             c[k] = IF k <= Len(a) THEN a[k] ELSE d[k - Len(a)]
    BY <1>2, <1>5, ConcatProperties
  <2> HIDE DEF c
  <2>2. Len(a) + Len(d) = i
    BY <1>1, <1>2, <1>5
  <2>3. ASSUME NEW k \in 1 .. i PROVE c[k] = s[k]
    <3>1. CASE k <= i - 1
      <4>1. k \in 1 .. i - 1 /\ Len(a) = i - 1
        BY <1>1, <1>2, <3>1
      <4>2. a[k] = s[k]
        BY <1>2, <4>1
      <4>3. k <= Len(a) /\ k \in 1 .. Len(a) + Len(d)
        BY ONLY <2>2, <4>1, i \in Int
      <4> QED
        BY <2>1, <4>2, <4>3
    <3>2. CASE k = i
      <4>1. k - Len(a) = 1 /\ ~(k <= Len(a))
        BY <1>1, <1>2, <3>2
      <4> QED
        BY <1>5, <2>1, <2>2, <3>2, <4>1 DEF e
    <3> QED
      BY <1>1, <3>1, <3>2
  <2> QED
    BY <2>1, <2>2, <2>3
<1>8. Count(c, x) = Count(a, x) + Count(d, x)
  BY <1>2, <1>5, CountConcat
<1> HIDE DEF c
<1> DEFINE r == c \o b
<1>9. s = r
  <2>1. /\ r \in Seq(S) /\ Len(r) = Len(c) + Len(b)
        /\ \A k \in 1 .. Len(c) + Len(b) : r[k] = IF k <= Len(c) THEN c[k] ELSE b[k - Len(c)]
    BY <1>3, <1>7, ConcatProperties
  <2> HIDE DEF r
  <2>2. Len(c) + Len(b) = Len(s)
    <3>1. Len(c) = i /\ Len(b) = Len(s) - i
      BY <1>3, <1>7
    <3> QED
      BY ONLY <1>1, <3>1
  <2>3. ASSUME NEW k \in 1 .. Len(s) PROVE r[k] = s[k]
    <3>1. CASE k <= i
      BY <1>1, <1>7, <2>1, <2>2, <3>1
    <3>2. CASE ~(k <= i)
      <4>1. k - i \in 1 .. Len(s) - i /\ i + (k - i) = k
        BY <1>1, <3>2
      <4>2. b[k - i] = s[k]
        BY <1>3, <4>1
      <4> QED
        BY <1>7, <2>1, <2>2, <3>2, <4>2
    <3> QED
      BY <3>1, <3>2
  <2> QED
    BY <2>1, <2>2, <2>3, SeqEqual
<1>10. Count(r, x) = Count(c, x) + Count(b, x)
  BY <1>3, <1>7, CountConcat
<1>11. Count(a \o b, x) = Count(a, x) + Count(b, x)
  BY <1>2, <1>3, CountConcat
<1>12. Count(a, x) \in Nat /\ Count(b, x) \in Nat /\ Count(d, x) \in Nat
  BY <1>2, <1>3, <1>5, CountNat
<1> HIDE DEF r
<1>13. Count(s, x) = Count(RemoveAt(s, i), x) + Count(d, x)
  BY <1>4, <1>8, <1>9, <1>10, <1>11, <1>12
<1> QED
  BY Zenon, <1>6, <1>13 DEF e

\* Exchanging two places changes no count.
LEMMA CountExchange ==
  ASSUME NEW S, NEW s \in Seq(S), NEW i \in DOMAIN s, NEW j \in DOMAIN s, NEW x
  PROVE  Count([s EXCEPT ![i] = s[j], ![j] = s[i]], x) = Count(s, x)
<1> DEFINE t == [s EXCEPT ![i] = s[j], ![j] = s[i]]
           Other(k) == IF k = i THEN j ELSE IF k = j THEN i ELSE k
           A == {k \in DOMAIN s : s[k] = x}
           B == {k \in DOMAIN t : t[k] = x}
           f == [k \in A |-> Other(k)]
<1>1. DOMAIN t = DOMAIN s /\ \A k \in DOMAIN s : t[k] = s[Other(k)]
  OBVIOUS
<1>2. \A k \in DOMAIN s : Other(k) \in DOMAIN s /\ Other(Other(k)) = k
  OBVIOUS
<1> HIDE DEF t, Other
<1>3. \A k \in DOMAIN s : k \in B <=> Other(k) \in A
  BY <1>1, <1>2
<1>4. f \in Bijection(A, B)
  <2>1. f \in [A -> B]
    BY <1>1, <1>2, <1>3
  <2>2. \A k, m \in A : f[k] = f[m] => k = m
    BY <1>2
  <2>3. \A m \in B : \E k \in A : f[k] = m
    <3> SUFFICES ASSUME NEW m \in B PROVE \E k \in A : f[k] = m
      OBVIOUS
    <3>1. m \in DOMAIN s /\ Other(m) \in A
      BY <1>1, <1>3
    <3> QED
      BY <1>2, <3>1
  <2> QED
    BY <2>1, <2>2, <2>3 DEF Bijection, Injection, Surjection, IsInjective
<1>5. IsFiniteSet(A)
  BY CountNat
<1>6. Cardinality(B) = Cardinality(A)
  <2> HIDE DEF A, B, f
  <2> QED
    BY <1>4, <1>5, FS_Bijection DEF ExistsBijection
<1> QED
  BY <1>6 DEF Count, t
(***************************************************************************)
(* What Select keeps.                                                      *)
(***************************************************************************)
\* The places before the i-th, one by one.
LEMMA PrefixByPrefix ==
  ASSUME NEW S, NEW s \in Seq(S)
  PROVE  /\ SubSeq(s, 1, 0) = <<>> /\ SubSeq(s, 1, Len(s)) = s
         /\ \A i \in 0 .. Len(s) :
              SubSeq(s, 1, i) \in Seq(S) /\ Len(SubSeq(s, 1, i)) = i
         /\ \A i \in 1 .. Len(s) : SubSeq(s, 1, i) = Append(SubSeq(s, 1, i - 1), s[i])
<1>1. Len(s) \in Nat /\ \A k \in 1 .. Len(s) : s[k] \in S
  OBVIOUS
<1>2. ASSUME NEW i \in 0 .. Len(s)
      PROVE  /\ SubSeq(s, 1, i) \in Seq(S) /\ Len(SubSeq(s, 1, i)) = i
             /\ \A k \in 1 .. i : SubSeq(s, 1, i)[k] = s[k]
  BY <1>1, SubSeqProperties
<1>3. SubSeq(s, 1, 0) = <<>>
  BY SubSeqEmpty
<1>4. SubSeq(s, 1, Len(s)) = s
  <2>1. Len(s) \in 0 .. Len(s)
    BY <1>1
  <2>2. /\ SubSeq(s, 1, Len(s)) \in Seq(S) /\ Len(SubSeq(s, 1, Len(s))) = Len(s)
        /\ \A k \in 1 .. Len(s) : SubSeq(s, 1, Len(s))[k] = s[k]
    BY <1>2, <2>1
  <2> QED
    BY <2>2, SeqEqual
<1>5. ASSUME NEW i \in 1 .. Len(s)
      PROVE  SubSeq(s, 1, i) = Append(SubSeq(s, 1, i - 1), s[i])
  <2> DEFINE a == SubSeq(s, 1, i - 1)
             b == SubSeq(s, 1, i)
  <2>1. i \in 0 .. Len(s) /\ i - 1 \in 0 .. Len(s) /\ s[i] \in S
    BY <1>1
  <2>2. /\ a \in Seq(S) /\ Len(a) = i - 1 /\ \A k \in 1 .. i - 1 : a[k] = s[k]
        /\ b \in Seq(S) /\ Len(b) = i /\ \A k \in 1 .. i : b[k] = s[k]
    BY <1>2, <2>1
  <2> HIDE DEF a, b
  <2>3. /\ Append(a, s[i]) \in Seq(S) /\ Len(Append(a, s[i])) = i
        /\ \A k \in 1 .. i - 1 : Append(a, s[i])[k] = a[k]
        /\ Append(a, s[i])[i] = s[i]
    <3>1. Len(a) + 1 = i
      BY <2>2
    <3> QED
      BY <2>1, <2>2, <3>1, AppendProperties
  <2>4. \A k \in 1 .. i : b[k] = Append(a, s[i])[k]
    BY <2>2, <2>3
  <2>5. b = Append(a, s[i])
    BY <2>2, <2>3, <2>4, SeqEqual
  <2> QED
    BY <2>5 DEF a, b
<1> QED
  BY <1>2, <1>3, <1>4, <1>5

\* The loop of Select, place by place.
Keeps(kept, S, s, T) ==
  /\ kept \in [0 .. Len(s) -> Seq(S)]
  /\ kept[0] = <<>>
  /\ \A i \in 1 .. Len(s) :
       kept[i] = IF s[i] \in T THEN Append(kept[i - 1], s[i]) ELSE kept[i - 1]
  /\ Select(s, T) = kept[Len(s)]

\* The recursive function of Select is this loop.
LEMMA SelectLoop ==
  ASSUME NEW S, NEW s \in Seq(S), NEW T
  PROVE  \E kept : Keeps(kept, S, s, T)
<1> DEFINE n == Len(s)
           R(f) == f = [i \in 0 .. n |->
                          IF i = 0 THEN <<>>
                          ELSE IF s[i] \in T THEN Append(f[i - 1], s[i])
                          ELSE f[i - 1]]
           g == CHOOSE f : R(f)
           step == [i \in 1 .. n |-> [v \in Seq(S) |-> IF s[i] \in T THEN Append(v, s[i]) ELSE v]]
<1>1. n \in Nat /\ \A i \in 1 .. n : s[i] \in S
  OBVIOUS
<1>2. Select(s, T) = g[n]
  BY DEF Select
<1> HIDE DEF n
<1>3. \A i \in 1 .. n : step[i] \in [Seq(S) -> Seq(S)]
  BY <1>1
<1>4. <<>> \in Seq(S)
  OBVIOUS
<1>5. PICK f \in [0 .. n -> Seq(S)] :
        f[0] = <<>> /\ \A i \in 1 .. n : f[i] = step[i][f[i - 1]]
  <2> DEFINE V == Seq(S)
             v == <<>>
  <2>1. Steps(V, v, n, step)
    BY <1>1, <1>3, <1>4 DEF Steps
  <2> HIDE DEF step, V, v
  <2>2. \E f : Computes(f, V, v, n, step)
    BY <2>1, RecursionExists
  <2> QED
    BY <2>2 DEF V, v, Computes
<1>6. \A i \in 1 .. n : f[i] = IF s[i] \in T THEN Append(f[i - 1], s[i]) ELSE f[i - 1]
  <2>1. \A i \in 1 .. n : f[i - 1] \in Seq(S)
    BY <1>1
  <2> QED
    BY <1>5, <2>1
<1>7. R(f)
  <2>1. \A i \in 0 .. n : f[i] = IF i = 0 THEN <<>>
                                ELSE IF s[i] \in T THEN Append(f[i - 1], s[i]) ELSE f[i - 1]
    <3>1. \A i \in 0 .. n : i = 0 \/ (i # 0 /\ i \in 1 .. n)
      BY <1>1
    <3> QED
      BY Zenon, <1>5, <1>6, <3>1
  <2>2. f = [i \in 0 .. n |-> f[i]]
    OBVIOUS
  <2> QED
    BY Zenon, <2>1, <2>2
<1>8. R(g)
  <2> HIDE DEF R
  <2> QED
    BY <1>7
<1> HIDE DEF g
<1>9. g[0] = <<>> /\ \A i \in 1 .. n : g[i] = IF s[i] \in T THEN Append(g[i - 1], s[i]) ELSE g[i - 1]
  <2>1. \A i \in 0 .. n : g[i] = IF i = 0 THEN <<>>
                                ELSE IF s[i] \in T THEN Append(g[i - 1], s[i]) ELSE g[i - 1]
    <3> DEFINE b(i) == IF i = 0 THEN <<>>
                       ELSE IF s[i] \in T THEN Append(g[i - 1], s[i]) ELSE g[i - 1]
    <3>1. g = [i \in 0 .. n |-> b(i)]
      BY <1>8
    <3> HIDE DEF b
    <3>2. \A i \in 0 .. n : g[i] = b(i)
      BY Zenon, <3>1
    <3> QED
      BY Zenon, <3>2 DEF b
  <2>2. 0 \in 0 .. n /\ \A i \in 1 .. n : i \in 0 .. n /\ i # 0
    BY <1>1
  <2> QED
    BY Zenon, <2>1, <2>2
<1> DEFINE U == {i \in 0 .. n : g[i] = f[i]}
<1>10. 0 .. n \subseteq U
  <2>1. 0 \in U
    BY <1>1, <1>5, <1>9
  <2>2. \A i \in 1 .. n : i - 1 \in U => i \in U
    <3> SUFFICES ASSUME NEW i \in 1 .. n, i - 1 \in U PROVE i \in U
      OBVIOUS
    <3>1. g[i - 1] = f[i - 1] /\ i \in 0 .. n
      BY <1>1
    <3>2. g[i] = f[i]
      BY Zenon, <1>6, <1>9, <3>1
    <3> QED
      BY <3>1, <3>2
  <2> HIDE DEF U
  <2> QED
    BY <1>1, <2>1, <2>2, UpTo
<1>11. n \in U
  BY <1>1, <1>10
<1>12. Select(s, T) = f[n]
  BY <1>2, <1>11
<1> QED
  BY <1>5, <1>6, <1>12 DEF n, Keeps

\* Select keeps every occurrence of what is in the set, and nothing else.
LEMMA SelectFacts ==
  ASSUME NEW S, NEW s \in Seq(S), NEW T
  PROVE  /\ Select(s, T) \in Seq(S)
         /\ \A x : Count(Select(s, T), x) = IF x \in T THEN Count(s, x) ELSE 0
<1>0. PICK kept : Keeps(kept, S, s, T)
  BY SelectLoop
<1>1. /\ kept \in [0 .. Len(s) -> Seq(S)]
      /\ kept[0] = <<>>
      /\ \A i \in 1 .. Len(s) :
           kept[i] = IF s[i] \in T THEN Append(kept[i - 1], s[i]) ELSE kept[i - 1]
      /\ Select(s, T) = kept[Len(s)]
  BY <1>0 DEF Keeps
<1> DEFINE n == Len(s)
           p(i) == SubSeq(s, 1, i)
<1>2. n \in Nat /\ \A i \in 1 .. n : s[i] \in S
  OBVIOUS
<1>3. /\ p(0) = <<>> /\ p(n) = s
      /\ \A i \in 0 .. n : p(i) \in Seq(S)
      /\ \A i \in 1 .. n : p(i) = Append(p(i - 1), s[i])
  BY PrefixByPrefix
<1> HIDE DEF n, p
<1> SUFFICES ASSUME NEW x
             PROVE  Count(Select(s, T), x) = IF x \in T THEN Count(s, x) ELSE 0
  BY <1>1, <1>2 DEF n
<1> DEFINE U == {i \in 0 .. n : Count(kept[i], x) = IF x \in T THEN Count(p(i), x) ELSE 0}
<1>4. 0 \in U
  <2>1. <<>> \in Seq(S) /\ DOMAIN <<>> = {}
    OBVIOUS
  <2>2. Count(<<>>, x) = 0
    BY <2>1, CountNat
  <2> QED
    BY <1>1, <1>2, <1>3, <2>2
<1>5. \A i \in 1 .. n : i - 1 \in U => i \in U
  <2> SUFFICES ASSUME NEW i \in 1 .. n, i - 1 \in U PROVE i \in U
    OBVIOUS
  <2> DEFINE k == kept[i - 1]
             q == p(i - 1)
             e == s[i]
             one == IF e = x THEN 1 ELSE 0
  <2>1. i - 1 \in 0 .. n /\ i \in 0 .. n
    BY <1>2
  <2>2. k \in Seq(S) /\ q \in Seq(S) /\ e \in S /\ p(i) = Append(q, e)
    BY <1>1, <1>2, <1>3, <2>1 DEF n
  <2>3. kept[i] = IF e \in T THEN Append(k, e) ELSE k
    BY <1>1 DEF n
  <2>4. Count(k, x) = IF x \in T THEN Count(q, x) ELSE 0
    OBVIOUS
  <2> HIDE DEF k, q, e
  <2>5. Count(Append(k, e), x) = Count(k, x) + one
    BY <2>2, CountAppend
  <2>6. Count(Append(q, e), x) = Count(q, x) + one
    BY <2>2, CountAppend
  <2>7. Count(k, x) \in Nat /\ Count(q, x) \in Nat
    BY <2>2, CountNat
  <2>8. Count(kept[i], x) = IF x \in T THEN Count(p(i), x) ELSE 0
    <3>1. CASE e \in T
      <4>1. CASE x \in T
        BY <2>2, <2>3, <2>4, <2>5, <2>6, <3>1, <4>1
      <4>2. CASE x \notin T
        <5>1. e # x
          BY <3>1, <4>2
        <5> QED
          BY <2>3, <2>4, <2>5, <2>7, <3>1, <4>2, <5>1
      <4> QED
        BY <4>1, <4>2
    <3>2. CASE e \notin T
      <4>1. CASE x \in T
        <5>1. e # x
          BY <3>2, <4>1
        <5> QED
          BY <2>2, <2>3, <2>4, <2>6, <2>7, <3>2, <4>1, <5>1
      <4>2. CASE x \notin T
        BY <2>3, <2>4, <3>2, <4>2
      <4> QED
        BY <4>1, <4>2
    <3> QED
      BY <3>1, <3>2
  <2> QED
    BY <2>1, <2>8
<1>6. n \in U
  <2>1. 0 .. n \subseteq U
    <3> HIDE DEF U
    <3> QED
      BY <1>2, <1>4, <1>5, UpTo
  <2> QED
    BY <1>2, <2>1
<1>7. Select(s, T) = kept[n]
  BY <1>1 DEF n
<1> QED
  BY <1>3, <1>6, <1>7

\* The members of what Select keeps.
LEMMA SelectMembers ==
  ASSUME NEW S, NEW s \in Seq(S), NEW T
  PROVE  ToSet(Select(s, T)) = ToSet(s) \cap T
<1>1. Select(s, T) \in Seq(S)
  BY SelectFacts
<1>2. \A x : Count(Select(s, T), x) = IF x \in T THEN Count(s, x) ELSE 0
  BY SelectFacts
<1>3. \A x : x \in ToSet(s) <=> Count(s, x) # 0
  BY CountNat
<1>4. \A x : x \in ToSet(Select(s, T)) <=> Count(Select(s, T), x) # 0
  BY <1>1, CountNat
<1> QED
  BY <1>2, <1>3, <1>4
=============================================================================
