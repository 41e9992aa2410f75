----------------------------- MODULE IpcSort_proofs -----------------------------
(***************************************************************************)
(* Proofs about IpcSort: what the parent of each of the four programs      *)
(* shows, and what it leaves behind, whichever call fails and wherever the *)
(* child is killed.                                                        *)
(***************************************************************************)
EXTENDS IpcSort, ProofLemmas

(***************************************************************************)
(* Arrays.                                                                 *)
(***************************************************************************)
\* An array is a sequence of integers that is not empty.
LEMMA ArrayFacts ==
  ASSUME NEW a \in Arrays
  PROVE  /\ a \in Seq(Values) /\ Len(a) \in Nat \ {0} /\ DOMAIN a = 1 .. Len(a)
         /\ \A i \in 1 .. Len(a) : a[i] \in Values /\ a[i] \in Int
         /\ a # Empty /\ a # Missing
         /\ SameElements(a, a)
         /\ \A i \in DOMAIN a, v \in Values : [a EXCEPT ![i] = v] \in Arrays
<1>1. PICK n \in 1 .. MaxSize : a \in [1 .. n -> Values]
  BY DEF Arrays
<1>2. n \in Nat \ {0}
  BY <1>1, SizeAssumption
<1>3. a \in Seq(Values) /\ Len(a) = n
  BY <1>1, <1>2
<1>4. a # Empty
  BY <1>2, <1>3 DEF Empty
<1>5. SameElements(a, a)
  BY DEF SameElements
<1>6. \A i \in DOMAIN a, v \in Values : [a EXCEPT ![i] = v] \in [1 .. n -> Values]
  BY <1>1
<1>7. \A i \in DOMAIN a, v \in Values : [a EXCEPT ![i] = v] \in Arrays
  BY <1>1, <1>6 DEF Arrays
<1> QED
  BY <1>1, <1>2, <1>3, <1>4, <1>5, <1>7, MissingAssumption, ValuesAssumption

\* Exchanging two elements leaves the same elements.
LEMMA ExchangeSame ==
  ASSUME NEW a \in Arrays, NEW i \in DOMAIN a, NEW j \in DOMAIN a, NEW b, SameElements(a, b)
  PROVE  SameElements([a EXCEPT ![i] = a[j], ![j] = a[i]], b)
<1> DEFINE c == [a EXCEPT ![i] = a[j], ![j] = a[i]]
<1>0. a \in Seq(Values)
  BY ArrayFacts
<1>1. DOMAIN a = 1 .. Len(a) /\ Len(a) \in Nat
  BY ArrayFacts
<1>2. \A v : Count(c, v) = Count(a, v)
  <2> SUFFICES ASSUME NEW v PROVE Count(c, v) = Count(a, v)
    OBVIOUS
  <2> QED
    BY <1>0, CountExchange
<1>3. Len(c) = Len(a)
  BY <1>1
<1> HIDE DEF c
<1>4. \A v : Occurrences(c, v) = Occurrences(a, v)
  BY <1>2 DEF Count, Occurrences
<1> QED
  BY <1>3, <1>4 DEF c, SameElements

(***************************************************************************)
(* sortArray.                                                              *)
(***************************************************************************)
\* The first turn - 1 elements are in their places, and so far the next one is
\* the least of those it was compared with.
SortedTo(a, turn, index) ==
  /\ \A i, j \in DOMAIN a : i < j /\ i < turn => a[i] <= a[j]
  /\ \A j \in DOMAIN a : turn < j /\ j < index => a[turn] <= a[j]

\* The array is sorted when there is no turn left.
LEMMA SortedAtEnd ==
  ASSUME NEW a \in Arrays, NEW t \in Nat, NEW x, SortedTo(a, t, x), t >= Len(a)
  PROVE  InOrder(a)
<1>1. DOMAIN a = 1 .. Len(a) /\ Len(a) \in Nat
  BY ArrayFacts
<1>2. ASSUME NEW i \in DOMAIN a, NEW j \in DOMAIN a, i < j PROVE a[i] <= a[j]
  <2>1. i < t
    BY <1>1, <1>2
  <2> QED
    BY <1>2, <2>1 DEF SortedTo
<1> QED
  BY <1>2 DEF InOrder

\* Going on to the next pair when this one is in order.
LEMMA SortedToNext ==
  ASSUME NEW a \in Arrays, NEW t \in 1 .. Len(a) - 1, NEW x \in t + 1 .. Len(a),
         SortedTo(a, t, x), a[t] <= a[x]
  PROVE  /\ x < Len(a) => SortedTo(a, t, x + 1)
         /\ ~(x < Len(a)) => SortedTo(a, t + 1, t + 2)
<1>1. DOMAIN a = 1 .. Len(a) /\ Len(a) \in Nat
  BY ArrayFacts
<1>2. /\ \A i, j \in 1 .. Len(a) : i < j /\ i < t => a[i] <= a[j]
      /\ \A j \in 1 .. Len(a) : t < j /\ j < x => a[t] <= a[j]
  BY <1>1 DEF SortedTo
<1>3. ASSUME x < Len(a) PROVE SortedTo(a, t, x + 1)
  <2>1. ASSUME NEW j \in 1 .. Len(a), t < j, j < x + 1 PROVE a[t] <= a[j]
    BY <1>1, <1>2, <2>1
  <2> QED
    BY <1>1, <1>2, <2>1 DEF SortedTo
<1>4. ASSUME ~(x < Len(a)) PROVE SortedTo(a, t + 1, t + 2)
  <2> DEFINE n == Len(a)
  <2>0. t \in Int /\ x \in Int /\ n \in Int /\ x <= n /\ ~(x < n)
    BY <1>1, <1>4
  <2> HIDE DEF n
  <2>1. x = n
    BY <2>0
  <2> USE DEF n
  <2>2. ASSUME NEW j \in 1 .. Len(a), t < j PROVE a[t] <= a[j]
    BY <1>1, <1>2, <2>1, <2>2
  <2>3. ASSUME NEW i \in 1 .. Len(a), NEW j \in 1 .. Len(a), i < j, i < t + 1
        PROVE  a[i] <= a[j]
    BY <1>1, <1>2, <2>2, <2>3
  <2>4. \A j \in 1 .. Len(a) : ~(t + 1 < j /\ j < t + 2)
    BY <1>1
  <2> QED
    BY <1>1, <2>3, <2>4 DEF SortedTo
<1> QED
  BY <1>3, <1>4

\* Exchanging a pair that is out of order puts it in order.
LEMMA SortedToExchange ==
  ASSUME NEW a \in Arrays, NEW t \in 1 .. Len(a) - 1, NEW x \in t + 1 .. Len(a),
         SortedTo(a, t, x), a[t] > a[x]
  PROVE  LET b == [a EXCEPT ![t] = a[x], ![x] = a[t]]
         IN  SortedTo(b, t, x) /\ b[t] <= b[x]
<1> DEFINE b == [a EXCEPT ![t] = a[x], ![x] = a[t]]
           n == Len(a)
<1>1. DOMAIN a = 1 .. n /\ n \in Nat /\ \A i \in 1 .. n : a[i] \in Int
  BY ArrayFacts
<1> HIDE DEF n
<1>2. t \in 1 .. n /\ x \in 1 .. n /\ t < x /\ t \in Nat /\ x \in Nat
  BY <1>1 DEF n
<1>3. /\ \A i, j \in 1 .. n : i < j /\ i < t => a[i] <= a[j]
      /\ \A j \in 1 .. n : t < j /\ j < x => a[t] <= a[j]
  BY <1>1 DEF SortedTo
<1>4. /\ DOMAIN b = 1 .. n
      /\ b[t] = a[x] /\ b[x] = a[t]
      /\ \A i \in 1 .. n : i # t /\ i # x => b[i] = a[i]
  BY <1>1, <1>2
<1> HIDE DEF b
<1>5. ASSUME NEW i \in 1 .. n, NEW j \in 1 .. n, i < j, i < t PROVE b[i] <= b[j]
  <2>1. b[i] = a[i]
    BY <1>2, <1>4, <1>5
  <2>2. a[i] <= a[t] /\ a[i] <= a[x] /\ a[i] <= a[j]
    BY <1>2, <1>3, <1>5
  <2>3. b[j] \in {a[t], a[x], a[j]}
    BY <1>4
  <2> QED
    BY <2>1, <2>2, <2>3
<1>6. ASSUME NEW j \in 1 .. n, t < j, j < x PROVE b[t] <= b[j]
  <2>1. b[j] = a[j] /\ a[t] <= a[j]
    BY <1>2, <1>3, <1>4, <1>6
  <2>2. a[x] \in Int /\ a[t] \in Int /\ a[j] \in Int
    BY <1>1, <1>2
  <2> QED
    BY <1>4, <2>1, <2>2
<1>7. b[t] <= b[x]
  BY <1>1, <1>2, <1>4
<1> QED
  BY <1>4, <1>5, <1>6, <1>7 DEF SortedTo, b

\* An array of the user's elements, and one that is sorted too.
Whole(a, user) == a \in Arrays /\ SameElements(a, user)
Right(a, user) == Whole(a, user) /\ InOrder(a)

\* The variables of the loops, in an array of n elements.
LoopIn(l, n) ==
  /\ l \in [turn : Nat, index : Nat, temp : Int]
  /\ l.turn \in 1 .. n
  /\ l.turn < n => l.index \in l.turn + 1 .. n

\* Between two comparisons.
Sorting(a, l, user) ==
  Whole(a, user) /\ LoopIn(l, Len(a)) /\ SortedTo(a, l.turn, l.index)

\* Between the two stores of a swap.
Unswapped(a, l) == [a EXCEPT ![l.turn] = l.temp]
Swapping(a, l, user) ==
  /\ a \in Arrays /\ l.temp \in Values
  /\ LoopIn(l, Len(a)) /\ l.turn < Len(a)
  /\ a[l.turn] = a[l.index] /\ a[l.turn] < l.temp
  /\ Whole(Unswapped(a, l), user) /\ SortedTo(Unswapped(a, l), l.turn, l.index)

\* The next pair to compare.
After(l, n) ==
  IF l.index < n THEN [l EXCEPT !.index = @ + 1]
  ELSE [l EXCEPT !.turn = @ + 1, !.index = l.turn + 2]

\* Sorting starts with nothing in its place.
LEMMA SortStarts ==
  ASSUME NEW a, NEW user, Whole(a, user) PROVE Sorting(a, First, user)
<1>1. a \in Arrays
  BY DEF Whole
<1>2. DOMAIN a = 1 .. Len(a) /\ Len(a) \in Nat \ {0}
  BY <1>1, ArrayFacts
<1>3. LoopIn(First, Len(a))
  BY <1>2 DEF LoopIn, First
<1>4. SortedTo(a, 1, 2)
  BY <1>2 DEF SortedTo
<1>5. First.turn = 1 /\ First.index = 2
  BY DEF First
<1> QED
  BY <1>3, <1>4, <1>5 DEF Sorting

\* The pair is in order: on to the next one.
LEMMA SortGoesOn ==
  ASSUME NEW a, NEW l, NEW user, Sorting(a, l, user),
         l.turn < Len(a), ~(a[l.turn] > a[l.index])
  PROVE  Sorting(a, After(l, Len(a)), user)
<1> DEFINE t == l.turn
           x == l.index
           n == Len(a)
           m == After(l, n)
<1>1. a \in Arrays /\ Whole(a, user) /\ LoopIn(l, n) /\ SortedTo(a, t, x)
  BY DEF Sorting, Whole
<1>2. n \in Nat \ {0} /\ \A i \in 1 .. n : a[i] \in Int
  BY <1>1, ArrayFacts
<1>3. l \in [turn : Nat, index : Nat, temp : Int] /\ t \in 1 .. n - 1 /\ x \in t + 1 .. n
  BY <1>1, <1>2 DEF LoopIn
<1>4. a[t] <= a[x]
  <2>1. a[t] \in Int /\ a[x] \in Int /\ ~(a[t] > a[x])
    BY <1>2, <1>3
  <2> QED
    BY <2>1
<1>5. /\ x < n => SortedTo(a, t, x + 1)
      /\ ~(x < n) => SortedTo(a, t + 1, t + 2)
  BY <1>1, <1>3, <1>4, SortedToNext
<1>6. CASE x < n
  <2>1. m = [l EXCEPT !.index = @ + 1]
    BY <1>6 DEF After
  <2>2. m \in [turn : Nat, index : Nat, temp : Int] /\ m.turn = t /\ m.index = x + 1
    BY <1>3, <2>1
  <2> HIDE DEF m, t, x, n
  <2>3. LoopIn(m, n)
    BY <1>2, <1>3, <1>6, <2>2 DEF LoopIn
  <2> QED
    BY <1>1, <1>5, <1>6, <2>2, <2>3 DEF Sorting, m, n
<1>7. CASE ~(x < n)
  <2>1. m = [turn |-> t + 1, index |-> t + 2, temp |-> l.temp]
    <3>1. m = [l EXCEPT !.turn = @ + 1, !.index = l.turn + 2]
      BY <1>7 DEF After
    <3>2. l = [turn |-> t, index |-> x, temp |-> l.temp]
      BY <1>3
    <3> QED
      BY <3>1, <3>2
  <2>2. m \in [turn : Nat, index : Nat, temp : Int] /\ m.turn = t + 1 /\ m.index = t + 2
    <3>1. t + 1 \in Nat /\ t + 2 \in Nat /\ l.temp \in Int
      BY <1>3
    <3> QED
      BY <2>1, <3>1
  <2> HIDE DEF m, t, x, n
  <2>3. LoopIn(m, n)
    BY <1>2, <1>3, <1>7, <2>2 DEF LoopIn
  <2> QED
    BY <1>1, <1>5, <1>7, <2>2, <2>3 DEF Sorting, m, n
<1> QED
  BY <1>6, <1>7

\* The pair is out of order: the first store of the swap.
LEMMA SwapStarts ==
  ASSUME NEW a, NEW l, NEW user, Sorting(a, l, user),
         l.turn < Len(a), a[l.turn] > a[l.index]
  PROVE  Swapping([a EXCEPT ![l.turn] = a[l.index]], [l EXCEPT !.temp = a[l.turn]], user)
<1> DEFINE t == l.turn
           x == l.index
           n == Len(a)
           b == [a EXCEPT ![t] = a[x]]
           m == [l EXCEPT !.temp = a[t]]
<1>1. a \in Arrays /\ Whole(a, user) /\ LoopIn(l, n) /\ SortedTo(a, t, x)
  BY DEF Sorting, Whole
<1>2. n \in Nat \ {0} /\ DOMAIN a = 1 .. n /\ \A i \in 1 .. n : a[i] \in Values /\ a[i] \in Int
  BY <1>1, ArrayFacts
<1>3. l \in [turn : Nat, index : Nat, temp : Int] /\ t \in 1 .. n - 1 /\ x \in t + 1 .. n
  BY <1>1, <1>2 DEF LoopIn
<1>4. t \in 1 .. n /\ x \in 1 .. n /\ t # x
  BY <1>2, <1>3
<1>5. /\ m \in [turn : Nat, index : Nat, temp : Int]
      /\ m.turn = t /\ m.index = x /\ m.temp = a[t]
  BY <1>2, <1>3, <1>4
<1>6. b \in Arrays
  <2>1. \A i \in DOMAIN a, v \in Values : [a EXCEPT ![i] = v] \in Arrays
    BY <1>1, ArrayFacts
  <2> QED
    BY <1>2, <1>4, <2>1
<1>7. Len(b) = n /\ b[t] = a[x] /\ b[x] = a[x] /\ [b EXCEPT ![t] = a[t]] = a
  <2>1. a \in Seq(Values) /\ a = [i \in 1 .. n |-> a[i]]
    BY <1>1, <1>2, ArrayFacts
  <2>2. DOMAIN b = 1 .. n /\ b[t] = a[x] /\ \A i \in 1 .. n : i # t => b[i] = a[i]
    BY <1>2, <1>4
  <2>3. Len(b) = n
    BY <1>2, <2>1
  <2>4. [b EXCEPT ![t] = a[t]] = [i \in 1 .. n |-> a[i]]
    BY <1>4, <2>2
  <2> QED
    BY <1>4, <2>1, <2>2, <2>3, <2>4
<1> HIDE DEF b, m
<1>8. Unswapped(b, m) = a
  BY <1>5, <1>7 DEF Unswapped
<1>9. LoopIn(m, n)
  BY <1>1, <1>5 DEF LoopIn
<1>10. m.temp \in Values /\ m.turn < n /\ b[m.turn] = b[m.index] /\ b[m.turn] < m.temp
  BY <1>2, <1>3, <1>4, <1>5, <1>7
<1>11. SortedTo(a, m.turn, m.index)
  BY <1>1, <1>5
<1> HIDE DEF t, x, n
<1>12. Swapping(b, m, user)
  BY <1>1, <1>6, <1>7, <1>8, <1>9, <1>10, <1>11 DEF Swapping
<1> QED
  BY <1>12 DEF b, m, t, x

\* The second store of the swap.
LEMMA SwapEnds ==
  ASSUME NEW a, NEW l, NEW user, Swapping(a, l, user)
  PROVE  Sorting([a EXCEPT ![l.index] = l.temp], [After(l, Len(a)) EXCEPT !.temp = 0], user)
<1> DEFINE t == l.turn
           x == l.index
           n == Len(a)
           o == Unswapped(a, l)
           b == [a EXCEPT ![x] = l.temp]
<1>1. /\ a \in Arrays /\ l.temp \in Values /\ LoopIn(l, n) /\ t < n
      /\ a[t] = a[x] /\ a[t] < l.temp
      /\ o \in Arrays /\ SameElements(o, user) /\ SortedTo(o, t, x)
  BY DEF Swapping, Whole
<1>2. n \in Nat \ {0} /\ DOMAIN a = 1 .. n /\ a \in Seq(Values)
  BY <1>1, ArrayFacts
<1>3. l \in [turn : Nat, index : Nat, temp : Int] /\ t \in 1 .. n - 1 /\ x \in t + 1 .. n
  BY <1>1, <1>2 DEF LoopIn
<1>4. t \in 1 .. n /\ x \in 1 .. n /\ t # x
  BY <1>2, <1>3
<1>5. o = [a EXCEPT ![t] = l.temp] /\ o[t] = l.temp /\ o[x] = a[x] /\ Len(o) = n /\ DOMAIN o = 1 .. n
  BY <1>2, <1>4 DEF Unswapped
<1>6. b = [o EXCEPT ![t] = o[x], ![x] = o[t]] /\ Len(b) = n
  <2>1. DOMAIN b = 1 .. n /\ DOMAIN [o EXCEPT ![t] = o[x], ![x] = o[t]] = 1 .. n
    BY <1>2, <1>5
  <2>2. \A i \in 1 .. n : b[i] = [o EXCEPT ![t] = o[x], ![x] = o[t]][i]
    BY <1>1, <1>2, <1>4, <1>5
  <2>3. b = [i \in 1 .. n |-> b[i]]
    BY <1>2
  <2>4. [o EXCEPT ![t] = o[x], ![x] = o[t]] = [i \in 1 .. n |-> [o EXCEPT ![t] = o[x], ![x] = o[t]][i]]
    BY <1>5
  <2> QED
    BY <1>2, <2>1, <2>2, <2>3, <2>4
<1>7. b \in Arrays
  <2>1. \A i \in DOMAIN a, v \in Values : [a EXCEPT ![i] = v] \in Arrays
    BY <1>1, ArrayFacts
  <2> QED
    BY <1>1, <1>2, <1>4, <2>1
<1>8. o[t] > o[x]
  <2>1. a[t] \in Int /\ a[x] \in Int /\ l.temp \in Int
    BY <1>1, <1>2, <1>3, <1>4, ArrayFacts
  <2> QED
    BY <1>1, <1>5, <2>1
<1> HIDE DEF o, b
<1>9. SortedTo(b, t, x) /\ b[t] <= b[x]
  <2>1. t \in 1 .. Len(o) - 1 /\ x \in t + 1 .. Len(o)
    BY <1>3, <1>5
  <2> HIDE DEF t, x
  <2>2. LET c == [o EXCEPT ![t] = o[x], ![x] = o[t]]
        IN  SortedTo(c, t, x) /\ c[t] <= c[x]
    BY <1>1, <1>8, <2>1, SortedToExchange
  <2> QED
    BY <1>6, <2>2
<1>10. SameElements(b, user)
  <2>1. t \in DOMAIN o /\ x \in DOMAIN o
    BY <1>4, <1>5
  <2> HIDE DEF t, x
  <2> QED
    BY <1>1, <1>6, <2>1, ExchangeSame
<1>11. b[t] \in Int /\ b[x] \in Int
  BY <1>4, <1>6, <1>7, ArrayFacts
<1>12. Sorting(b, l, user)
  BY <1>1, <1>6, <1>7, <1>9, <1>10 DEF Sorting, Whole
<1>13. Sorting(b, After(l, n), user)
  <2>1. l.turn < Len(b) /\ ~(b[l.turn] > b[l.index])
    BY <1>1, <1>6, <1>9, <1>11
  <2> QED
    BY <1>6, <1>12, <2>1, SortGoesOn
<1> DEFINE m == After(l, n)
           k == [m EXCEPT !.temp = 0]
<1> HIDE DEF m
<1>14. m \in [turn : Nat, index : Nat, temp : Int]
  BY <1>13 DEF Sorting, LoopIn, m
<1>15. k \in [turn : Nat, index : Nat, temp : Int] /\ k.turn = m.turn /\ k.index = m.index
  BY <1>14
<1> HIDE DEF k
<1>16. Sorting(b, m, user)
  BY <1>13 DEF m
<1>17. Sorting(b, k, user)
  BY <1>15, <1>16 DEF Sorting, LoopIn
<1> QED
  BY <1>17 DEF b, x, k, m, n

\* No turn is left.
LEMMA SortEnds ==
  ASSUME NEW a, NEW l, NEW user, Sorting(a, l, user), l.turn >= Len(a)
  PROVE  Right(a, user)
<1>1. a \in Arrays /\ SortedTo(a, l.turn, l.index) /\ l.turn \in Nat
  BY DEF Sorting, Whole, LoopIn
<1>2. InOrder(a)
  BY <1>1, SortedAtEnd
<1> QED
  BY <1>2 DEF Sorting, Right

\* Where a swap is cut between its stores, the array is torn.
LEMMA SwapIsTorn ==
  ASSUME NEW a, NEW user, Swapping(a, loop, user)
  PROVE  Torn(a, user)
<1>1. /\ a \in Arrays /\ LoopIn(loop, Len(a)) /\ loop.turn < Len(a)
      /\ a[loop.turn] = a[loop.index] /\ a[loop.turn] < loop.temp
      /\ SameElements([a EXCEPT ![loop.turn] = loop.temp], user)
  BY DEF Swapping, Whole, Unswapped
<1>2. DOMAIN a = 1 .. Len(a) /\ Len(a) \in Nat
  BY <1>1, ArrayFacts
<1>3. loop.turn \in DOMAIN a /\ loop.index \in DOMAIN a /\ loop.turn < loop.index
  BY <1>1, <1>2 DEF LoopIn
<1> QED
  BY <1>1, <1>3 DEF Torn

(***************************************************************************)
(* The invariant.                                                          *)
(***************************************************************************)
\* In the file program, a parent that could not write leaves the child an older
\* run's array: nothing is known of what follows.
Trusted == ~(mech = "file" /\ "parent write" \in failed)

ParentPlaces ==
  {"create", "input", "fopen", "fclose", "send", "fork", "writeSize", "writeArray",
   "readSize", "readArray", "wait", "collect", "show", "clean", "ended", "killed"}

\* Where the two processes can be at a time, and in which program.
Where ==
  /\ mech \in {"file", "pipe", "shm", "mq"}
  /\ ppc \in ParentPlaces
  /\ ppc = "create" => mech # "file"
  /\ ppc \in {"create", "input"} => failed = {}
  /\ ppc \in {"fopen", "fclose"} => mech = "file"
  /\ ppc = "send" => mech = "mq"
  /\ ppc \in {"writeSize", "writeArray", "readSize", "readArray"} => mech = "pipe" /\ cpc # "none"
  /\ ppc = "collect" => mech \in {"file", "mq"}
  /\ ppc = "clean" => mech \in {"shm", "mq"}
  /\ ppc = "killed" => mech = "pipe" /\ cpc = "killed"
  /\ ppc \in {"create", "input", "fopen", "fclose", "send", "fork"} => cpc = "none"
  /\ ppc = "wait" => cpc # "none"
  /\ ppc \in {"collect", "show"} => cpc \in Ended
  /\ cpc = "load" => mech = "file"
  /\ cpc \in {"fopen", "fclose"} => mech = "file"
  /\ cpc \in {"readSize", "readArray", "writeSize", "writeArray"} => mech = "pipe"
  /\ cpc \in {"receive", "send"} => mech = "mq"
  /\ cpc \in {"none", "load", "readSize", "readArray", "receive", "sort", "swap",
              "fopen", "fclose", "writeSize", "writeArray", "send", "ended", "killed"}

\* Until the parent collects the answer its array is the user's.
Kept ==
  /\ \/ ppc \in {"fopen", "fclose", "send", "fork", "writeSize", "writeArray",
                 "readSize", "readArray", "collect"}
     \/ ppc = "create" /\ mech = "pipe"
     \/ ppc = "wait" /\ mech # "pipe"
     => input \in Arrays /\ pdata = input
  /\ cpc # "none" => input \in Arrays
  /\ mech = "shm" /\ ppc = "fork" => segment = input

\* What the child has of the user's array.
ChildHas ==
  Trusted =>
    /\ cpc \in {"none", "load", "readSize", "readArray", "receive"} => loop = First
    /\ cpc = "load" => Whole(cdata, input)
    /\ cpc = "sort" => Sorting(Array, loop, input)
    /\ cpc = "swap" => Swapping(Array, loop, input)
    /\ cpc \in {"fopen", "fclose", "writeSize", "writeArray", "send"} => Right(cdata, input)
    /\ mech = "shm" /\ cpc = "ended" => Right(segment, input)
    /\ mech = "shm" /\ cpc = "killed" => Whole(segment, input) \/ Torn(segment, input)

\* What is in data.txt, and what the parent has read from it.
FileHas ==
  mech = "file" /\ Trusted =>
    /\ ppc = "fork" \/ cpc # "none" => file = Empty \/ Whole(file, input)
    /\ cpc = "ended" /\ failed = {} => Right(file, input)
    /\ ppc = "show" => Whole(pdata, input) /\ (cpc = "ended" /\ failed = {} => InOrder(pdata))

\* What is in the pipes, and what the parent has read from them.
PipeHas ==
  mech = "pipe" =>
    /\ cpc = "none" => down = <<>> /\ up = <<>>
    /\ cpc = "readSize" =>
         /\ up = <<>>
         /\ \/ ppc = "writeSize" /\ down = <<>>
            \/ ppc = "writeArray" /\ down = <<Len(input)>>
            \/ ppc = "readSize" /\ down = <<Len(input), input>>
    /\ cpc = "readArray" =>
         /\ up = <<>>
         /\ \/ ppc = "writeArray" /\ down = <<>>
            \/ ppc = "readSize" /\ down = <<input>>
    /\ cpc \in {"sort", "swap", "writeSize"} => ppc = "readSize" /\ up = <<>>
    /\ cpc = "writeArray" =>
         \/ ppc = "readSize" /\ up = <<Len(cdata)>>
         \/ ppc = "readArray" /\ up = <<>>
    /\ cpc = "ended" =>
         /\ Right(cdata, input)
         /\ \/ ppc = "readSize" /\ up = <<Len(cdata), cdata>>
            \/ ppc = "readArray" /\ up = <<cdata>>
            \/ ppc \in {"wait", "show", "ended"}
    /\ cpc = "killed" =>
         /\ ppc \in {"writeSize", "writeArray", "readArray"} => up = <<>>
         /\ ppc = "readSize" => up = <<>> \/ up = <<Len(cdata)>>
    /\ ppc \in {"wait", "show"} =>
         Whole(pdata, input) /\ cpc \in Ended /\ (cpc = "ended" => InOrder(pdata))

\* What is in the queue, and what the parent has received.
QueueHas ==
  mech = "mq" =>
    /\ ppc \in {"create", "input"} => queue = {}
    /\ \A m \in queue : /\ m.type = "SEND_TYPE" => m.array = input
                        /\ m.type = "RECEIVE_TYPE" => Right(m.array, input)
    /\ ppc = "show" => Right(pdata, input)

\* A kernel object exists only where there is one to create; what was shown is
\* the parent's last word but for the clean up.
Late ==
  /\ object => mech \in {"shm", "mq"} /\ ppc # "create"
  /\ shown # Nothing => ppc \in {"clean", "ended"} /\ cpc \in Ended

Invariant ==
  Where /\ Kept /\ ChildHas /\ FileHas /\ PipeHas /\ QueueHas /\ Late /\ NothingLeft /\ ShownRight
\* What every step of the parent but the input and the fork leaves alone.
Talks ==
  \/ create \/ createFails \/ readInvalid
  \/ parentWriteToFile \/ parentWriteFails \/ parentSendMessage \/ parentSendFails
  \/ forkFails \/ parentWrites \/ parentReads \/ wait
  \/ parentReadFromFile \/ parentReadFails \/ parentReceiveMessage \/ parentReceiveFails
  \/ show \/ clean

Works == Child \/ ChildFault

LEMMA Split ==
  Next => Talks \/ Works \/ fork \/ \E a \in Arrays : readArray(a)
BY DEF Next, Parent, ParentFault, Talks, Works


LEMMA TalkLeaves ==
  ASSUME Where, Talks
  PROVE  /\ UNCHANGED <<mech, cpc, cdata, loop, segment, input>>
         /\ failed \subseteq failed'
         /\ Trusted' => Trusted
<1>1. UNCHANGED <<mech, cpc, cdata, loop, segment, input>> /\ failed \subseteq failed'
  <2>1. CASE create
    BY <2>1 DEF create, ParentAt, child, media, Where
  <2>2. CASE createFails
    BY <2>2 DEF createFails, ParentFails, child, media
  <2>3. CASE readInvalid
    BY <2>3 DEF readInvalid, child, media
  <2>4. CASE parentWriteToFile
    BY <2>4 DEF parentWriteToFile, ParentAt, child, media
  <2>5. CASE parentWriteFails
    BY <2>5 DEF parentWriteFails, ParentFails, ParentAt, child, media
  <2>6. CASE parentSendMessage
    BY <2>6 DEF parentSendMessage, ParentAt, child, media
  <2>7. CASE parentSendFails
    BY <2>7 DEF parentSendFails, ParentFails, ParentAt, child, media
  <2>8. CASE forkFails
    BY <2>8 DEF forkFails, ParentFails, child, media
  <2>9. CASE parentWrites
    BY <2>9 DEF parentWrites, ParentAt, child, media
  <2>10. CASE parentReads
    BY <2>10 DEF parentReads, ParentAt, child, media
  <2>11. CASE wait
    BY <2>11 DEF wait, child, media
  <2>12. CASE parentReadFromFile
    BY <2>12 DEF parentReadFromFile, ParentAt, child, media
  <2>13. CASE parentReadFails
    BY <2>13 DEF parentReadFails, ParentFails, ParentAt, child, media
  <2>14. CASE parentReceiveMessage
    BY <2>14 DEF parentReceiveMessage, ParentAt, child, media
  <2>15. CASE parentReceiveFails
    BY <2>15 DEF parentReceiveFails, ParentFails, ParentAt, child, media
  <2>16. CASE show
    BY <2>16 DEF show, child, media
  <2>17. CASE clean
    BY <2>17 DEF clean, child, media
  <2> QED
    BY <2>1, <2>2, <2>3, <2>4, <2>5, <2>6, <2>7, <2>8, <2>9, <2>10, <2>11, <2>12, <2>13, <2>14,
       <2>15, <2>16, <2>17 DEF Talks
<1> QED
  BY <1>1 DEF Trusted

LEMMA WorkLeaves ==
  ASSUME Works
  PROVE  /\ UNCHANGED <<mech, ppc, pdata, object, shown, input>>
         /\ failed \subseteq failed'
         /\ cpc # "none" /\ cpc' # "none" /\ cpc \notin Ended
         /\ Trusted' => Trusted
<1>1. /\ UNCHANGED <<mech, ppc, pdata, object, shown, input>>
      /\ failed \subseteq failed' /\ cpc # "none" /\ cpc' # "none" /\ cpc \notin Ended
  <2>1. CASE childReadFromFile
    BY <2>1 DEF childReadFromFile, ChildAt, media, Ended
  <2>2. CASE childReadFails
    BY <2>2 DEF childReadFails, ChildFails, ChildAt, media, Ended
  <2>3. CASE childReads
    BY <2>3 DEF childReads, ChildAt, media, Ended
  <2>4. CASE childReceiveMessage
    BY <2>4 DEF childReceiveMessage, ChildAt, media, Ended
  <2>5. CASE childReceiveFails
    BY <2>5 DEF childReceiveFails, ChildFails, ChildAt, media, Ended
  <2>6. CASE sortArray
    BY <2>6 DEF sortArray, media, Ended
  <2>7. CASE secondStore
    BY <2>7 DEF secondStore, media, Ended
  <2>8. CASE sorted
    BY <2>8 DEF sorted, media, Ended
  <2>9. CASE childWriteToFile
    BY <2>9 DEF childWriteToFile, ChildAt, media, Ended
  <2>10. CASE childWriteFails
    BY <2>10 DEF childWriteFails, ChildFails, ChildAt, media, Ended
  <2>11. CASE childWrites
    BY <2>11 DEF childWrites, ChildAt, media, Ended
  <2>12. CASE childSendMessage
    BY <2>12 DEF childSendMessage, ChildAt, media, Ended
  <2>13. CASE childSendFails
    BY <2>13 DEF childSendFails, ChildFails, ChildAt, media, Ended
  <2>14. CASE ChildKilled
    BY <2>14 DEF ChildKilled, media, Ended
  <2> QED
    BY <2>1, <2>2, <2>3, <2>4, <2>5, <2>6, <2>7, <2>8, <2>9, <2>10, <2>11, <2>12, <2>13, <2>14 DEF
       Works, Child, ChildFault
<1> QED
  BY <1>1 DEF Trusted

\* Where the processes are.
LEMMA KeepsWhere == Where /\ [Next]_vars => Where'
<1> SUFFICES ASSUME Where, [Next]_vars PROVE Where'
  OBVIOUS
<1>1. CASE create
  BY <1>1 DEF create, ParentAt, child, Where, ParentPlaces, Ended
<1>2. CASE createFails
  BY <1>2 DEF createFails, ParentFails, child, Where, ParentPlaces, Ended
<1>3. CASE readInvalid
  BY <1>3 DEF readInvalid, child, Where, ParentPlaces, Ended
<1>4. CASE parentWriteToFile
  BY <1>4 DEF parentWriteToFile, ParentAt, child, Where, ParentPlaces, Ended
<1>5. CASE parentWriteFails
  BY <1>5 DEF parentWriteFails, ParentFails, ParentAt, child, Where, ParentPlaces, Ended
<1>6. CASE parentSendMessage
  BY <1>6 DEF parentSendMessage, ParentAt, child, Where, ParentPlaces, Ended
<1>7. CASE parentSendFails
  BY <1>7 DEF parentSendFails, ParentFails, ParentAt, child, Where, ParentPlaces, Ended
<1>8. CASE forkFails
  BY <1>8 DEF forkFails, ParentFails, child, Where, ParentPlaces, Ended
<1>9. CASE parentWrites
  BY <1>9 DEF parentWrites, ParentAt, child, Where, ParentPlaces, Ended
<1>10. CASE parentReads
  BY <1>10 DEF parentReads, ParentAt, child, Where, ParentPlaces, Ended
<1>11. CASE wait
  BY <1>11 DEF wait, child, Where, ParentPlaces, Ended
<1>12. CASE parentReadFromFile
  BY <1>12 DEF parentReadFromFile, ParentAt, child, Where, ParentPlaces, Ended
<1>13. CASE parentReadFails
  BY <1>13 DEF parentReadFails, ParentFails, ParentAt, child, Where, ParentPlaces, Ended
<1>14. CASE parentReceiveMessage
  BY <1>14 DEF parentReceiveMessage, ParentAt, child, Where, ParentPlaces, Ended
<1>15. CASE parentReceiveFails
  BY <1>15 DEF parentReceiveFails, ParentFails, ParentAt, child, Where, ParentPlaces, Ended
<1>16. CASE show
  BY <1>16 DEF show, child, Where, ParentPlaces, Ended
<1>17. CASE clean
  BY <1>17 DEF clean, child, Where, ParentPlaces, Ended
<1>18. CASE childReadFromFile
  BY <1>18 DEF childReadFromFile, ChildAt, Where, ParentPlaces, Ended
<1>19. CASE childReadFails
  BY <1>19 DEF childReadFails, ChildFails, ChildAt, Where, ParentPlaces, Ended
<1>20. CASE childReads
  BY <1>20 DEF childReads, ChildAt, Where, ParentPlaces, Ended
<1>21. CASE childReceiveMessage
  BY <1>21 DEF childReceiveMessage, ChildAt, Where, ParentPlaces, Ended
<1>22. CASE childReceiveFails
  BY <1>22 DEF childReceiveFails, ChildFails, ChildAt, Where, ParentPlaces, Ended
<1>23. CASE sortArray
  BY <1>23 DEF sortArray, Where, ParentPlaces, Ended
<1>24. CASE secondStore
  BY <1>24 DEF secondStore, Where, ParentPlaces, Ended
<1>25. CASE sorted
  BY <1>25 DEF sorted, Where, ParentPlaces, Ended
<1>26. CASE childWriteToFile
  BY <1>26 DEF childWriteToFile, ChildAt, Where, ParentPlaces, Ended
<1>27. CASE childWriteFails
  BY <1>27 DEF childWriteFails, ChildFails, ChildAt, Where, ParentPlaces, Ended
<1>28. CASE childWrites
  BY <1>28 DEF childWrites, ChildAt, Where, ParentPlaces, Ended
<1>29. CASE childSendMessage
  BY <1>29 DEF childSendMessage, ChildAt, Where, ParentPlaces, Ended
<1>30. CASE childSendFails
  BY <1>30 DEF childSendFails, ChildFails, ChildAt, Where, ParentPlaces, Ended
<1>31. CASE ChildKilled
  BY <1>31 DEF ChildKilled, Where, ParentPlaces, Ended
<1>32. CASE fork
  BY <1>32 DEF fork, Where, ParentPlaces, Ended
<1>33. ASSUME NEW a \in Arrays, readArray(a) PROVE Where'
  BY <1>33 DEF readArray, AfterInput, Where, ParentPlaces, Ended, child
<1>34. CASE UNCHANGED vars
  BY <1>34 DEF vars, child, media, Where
<1> QED
  BY <1>1, <1>2, <1>3, <1>4, <1>5, <1>6, <1>7, <1>8, <1>9, <1>10, <1>11, <1>12, <1>13, <1>14,
     <1>15, <1>16, <1>17, <1>18, <1>19, <1>20, <1>21, <1>22, <1>23, <1>24, <1>25, <1>26, <1>27,
     <1>28, <1>29, <1>30, <1>31, <1>32, <1>33, <1>34
     DEF Next, Parent, ParentFault, Child, ChildFault

\* The parent's array.
LEMMA KeepsKept == Where /\ Kept /\ Next => Kept'
<1> SUFFICES ASSUME Where, Kept, Next PROVE Kept'
  OBVIOUS
<1>1. CASE Talks
  <2>0. UNCHANGED <<mech, cpc, cdata, loop, segment, input>>
    BY <1>1, TalkLeaves
  <2> USE DEF Where, Kept, media
  <2>1. CASE create
    BY <2>0, <2>1 DEF create, ParentAt
  <2>2. CASE createFails
    BY <2>0, <2>2 DEF createFails, ParentFails
  <2>3. CASE readInvalid
    BY <2>0, <2>3 DEF readInvalid
  <2>4. CASE parentWriteToFile
    BY <2>0, <2>4 DEF parentWriteToFile, ParentAt
  <2>5. CASE parentWriteFails
    BY <2>0, <2>5 DEF parentWriteFails, ParentFails, ParentAt
  <2>6. CASE parentSendMessage
    BY <2>0, <2>6 DEF parentSendMessage, ParentAt
  <2>7. CASE parentSendFails
    BY <2>0, <2>7 DEF parentSendFails, ParentFails, ParentAt
  <2>8. CASE forkFails
    BY <2>0, <2>8 DEF forkFails, ParentFails
  <2>9. CASE parentWrites
    BY <2>0, <2>9 DEF parentWrites, ParentAt
  <2>10. CASE parentReads
    BY <2>0, <2>10 DEF parentReads, ParentAt
  <2>11. CASE wait
    BY <2>0, <2>11 DEF wait
  <2>12. CASE parentReadFromFile
    BY <2>0, <2>12 DEF parentReadFromFile, ParentAt
  <2>13. CASE parentReadFails
    BY <2>0, <2>13 DEF parentReadFails, ParentFails, ParentAt
  <2>14. CASE parentReceiveMessage
    BY <2>0, <2>14 DEF parentReceiveMessage, ParentAt
  <2>15. CASE parentReceiveFails
    BY <2>0, <2>15 DEF parentReceiveFails, ParentFails, ParentAt
  <2>16. CASE show
    BY <2>0, <2>16 DEF show
  <2>17. CASE clean
    BY <2>0, <2>17 DEF clean
  <2> QED
    BY <1>1, <2>1, <2>2, <2>3, <2>4, <2>5, <2>6, <2>7, <2>8, <2>9, <2>10, <2>11, <2>12, <2>13,
       <2>14, <2>15, <2>16, <2>17 DEF Talks
<1>2. CASE Works
  <2>1. UNCHANGED <<mech, ppc, pdata, input>> /\ cpc # "none"
    BY <1>2, WorkLeaves
  <2> QED
    BY <2>1 DEF Where, Kept
<1>3. CASE fork
  BY <1>3 DEF fork, Where, Kept, media
<1>4. ASSUME NEW a \in Arrays, readArray(a) PROVE Kept'
  BY <1>4 DEF readArray, AfterInput, Where, Kept, child
<1> QED
  BY <1>1, <1>2, <1>3, <1>4, Split

\* The child sorts what it has got of the user's array.
LEMMA KeepsChildHas ==
  Where /\ Kept /\ ChildHas /\ FileHas /\ PipeHas /\ QueueHas /\ Next => ChildHas'
<1> SUFFICES ASSUME Where, Kept, ChildHas, FileHas, PipeHas, QueueHas, Next, Trusted'
             PROVE  ChildHas'
  BY DEF ChildHas
<1>1. CASE Talks
  <2>1. UNCHANGED <<mech, cpc, cdata, loop, segment, input>> /\ Trusted
    BY <1>1, TalkLeaves
  <2> QED
    BY <2>1 DEF ChildHas, Array, Torn
<1>2. CASE Works
  <2>1. /\ UNCHANGED <<mech, ppc, pdata, input>> /\ Trusted /\ cpc # "none" /\ cpc' # "none"
        /\ mech \in {"file", "pipe", "shm", "mq"} /\ input \in Arrays
    BY <1>2, WorkLeaves DEF Where, Kept
  <2>2. Whole(input, input)
    BY <2>1, ArrayFacts DEF Whole
  <2>3. \A x : Whole(x, input) => Sorting(x, First, input)
    BY SortStarts
  <2>4. ASSUME cpc \in {"load", "readSize", "readArray", "receive"}, cpc' = "sort",
               Whole(cdata', input), loop' = loop, mech # "shm"
        PROVE  ChildHas'
    <3>1. loop' = First
      BY <2>1, <2>4 DEF ChildHas
    <3>2. Array' = cdata'
      BY <2>1, <2>4 DEF Array
    <3>3. Sorting(cdata', First, input)
      BY <2>3, <2>4
    <3>4. Sorting(Array', loop', input')
      BY <2>1, <3>1, <3>2, <3>3
    <3> QED
      BY <2>1, <2>4, <3>4 DEF ChildHas
  <2>5. CASE childReadFromFile
    <3>1. Whole(cdata, input) /\ mech = "file" /\ cpc = "load" /\ cpc' = "sort" /\ loop' = loop
      BY <2>1, <2>5 DEF childReadFromFile, ChildAt, ChildHas
    <3>2. file = Empty \/ Whole(file, input)
      BY <2>1, <3>1 DEF FileHas
    <3>3. Whole(cdata', input)
      BY <2>5, <3>1, <3>2 DEF childReadFromFile, FromFile
    <3> QED
      BY <2>4, <3>1, <3>3
  <2>6. CASE childReadFails
    <3>1. Whole(cdata, input) /\ mech = "file" /\ cpc = "load" /\ cpc' = "sort"
      BY <2>1, <2>6 DEF childReadFails, ChildFails, ChildAt, ChildHas
    <3>2. cdata' = cdata /\ loop' = loop
      BY <2>6 DEF childReadFails, ChildFails
    <3> QED
      BY <2>4, <3>1, <3>2
  <2>7. CASE childReads
    <3>1. mech = "pipe" /\ down # <<>> /\ loop' = loop
      BY <2>7 DEF childReads, ChildAt
    <3>2. CASE cpc = "readSize"
      <4>1. cpc' = "readArray" /\ loop = First
        BY <2>1, <2>7, <3>2 DEF childReads, ChildAt, ChildHas
      <4> QED
        BY <2>1, <3>1, <4>1 DEF ChildHas
    <3>3. CASE cpc = "readArray"
      <4>1. cpc' = "sort" /\ cdata' = Head(down)
        BY <2>7, <3>3 DEF childReads, ChildAt
      <4>2. down = <<input>>
        BY <3>1, <3>3 DEF PipeHas
      <4>3. cdata' = input
        BY <4>1, <4>2
      <4> QED
        BY <2>2, <2>4, <3>1, <3>3, <4>1, <4>3
    <3> QED
      BY <2>7, <3>2, <3>3 DEF childReads, ChildAt
  <2>8. CASE childReceiveMessage
    <3>1. mech = "mq" /\ cpc = "receive" /\ cpc' = "sort" /\ loop' = loop
      BY <2>8 DEF childReceiveMessage, ChildAt
    <3>2. PICK m \in queue : m.type = "SEND_TYPE" /\ cdata' = m.array
      BY <2>8 DEF childReceiveMessage
    <3>3. cdata' = input
      BY <3>1, <3>2 DEF QueueHas
    <3> QED
      BY <2>2, <2>4, <3>1, <3>3
  <2>9. CASE childReceiveFails
    <3>1. mech = "mq" /\ cpc' = "ended"
      BY <2>9 DEF childReceiveFails, ChildFails, ChildAt
    <3> QED
      BY <2>1, <3>1 DEF ChildHas
  <2>10. CASE sortArray
    <3> DEFINE a == Array
    <3>1. cpc = "sort" /\ Sorting(a, loop, input) /\ loop.turn < Len(a)
      BY <2>1, <2>10 DEF sortArray, ChildHas
    <3>2. CASE a[loop.turn] > a[loop.index]
      <4> DEFINE b == [a EXCEPT ![loop.turn] = a[loop.index]]
                 m == [loop EXCEPT !.temp = a[loop.turn]]
      <4>1. cpc' = "swap" /\ loop' = m /\ Becomes(b)
        BY <2>10, <3>2 DEF sortArray
      <4>2. Swapping(b, m, input)
        BY <3>1, <3>2, SwapStarts
      <4> HIDE DEF b, m
      <4>3. Array' = b
        BY <2>1, <4>1 DEF Becomes, Array
      <4> QED
        BY <2>1, <4>1, <4>2, <4>3 DEF ChildHas
    <3>3. CASE ~(a[loop.turn] > a[loop.index])
      <4>1. cpc' = "sort" /\ loop' = After(loop, Len(a)) /\ UNCHANGED <<cdata, segment>>
        BY <2>10, <3>1, <3>3 DEF sortArray, NextPair, After
      <4>2. Sorting(a, After(loop, Len(a)), input)
        BY <3>1, <3>3, SortGoesOn
      <4>3. Array' = a
        BY <2>1, <4>1 DEF Array
      <4> HIDE DEF a
      <4> QED
        BY <2>1, <4>1, <4>2, <4>3 DEF ChildHas
    <3> QED
      BY <3>2, <3>3
  <2>11. CASE secondStore
    <3> DEFINE a == Array
               b == [a EXCEPT ![loop.index] = loop.temp]
               m == [After(loop, Len(a)) EXCEPT !.temp = 0]
    <3>1. cpc = "swap" /\ Swapping(a, loop, input)
      BY <2>1, <2>11 DEF secondStore, ChildHas
    <3>2. cpc' = "sort" /\ loop' = m /\ Becomes(b)
      BY <2>11 DEF secondStore, NextPair, After
    <3>3. Sorting(b, m, input)
      BY <3>1, SwapEnds
    <3> HIDE DEF b, m
    <3>4. Array' = b
      BY <2>1, <3>2 DEF Becomes, Array
    <3> QED
      BY <2>1, <3>2, <3>3, <3>4 DEF ChildHas
  <2>12. CASE sorted
    <3>1. /\ cpc = "sort" /\ Sorting(Array, loop, input) /\ loop.turn >= Len(Array)
          /\ UNCHANGED <<cdata, segment>>
      BY <2>1, <2>12 DEF sorted, ChildHas, media
    <3>2. Right(Array, input)
      BY <3>1, SortEnds
    <3>3. CASE mech = "shm"
      <4>1. cpc' = "ended" /\ Array = segment
        BY <2>12, <3>3 DEF sorted, Array
      <4> QED
        BY <2>1, <3>1, <3>2, <4>1 DEF ChildHas
    <3>4. CASE mech # "shm"
      <4>1. cpc' \in {"fopen", "writeSize", "send"} /\ Array = cdata
        BY <2>12, <3>4 DEF sorted, Array
      <4> QED
        BY <2>1, <3>1, <3>2, <3>4, <4>1 DEF ChildHas
    <3> QED
      BY <3>3, <3>4
  <2>13. CASE childWriteToFile \/ childWriteFails \/ childWrites \/ childSendMessage \/ childSendFails
    <3>1. mech # "shm" /\ cpc \in {"fopen", "fclose", "writeSize", "writeArray", "send"}
      BY <2>13 DEF childWriteToFile, childWriteFails, childWrites, childSendMessage,
                   childSendFails, ChildAt
    <3>2. cdata' = cdata /\ cpc' \in {"fclose", "writeArray", "ended"}
      BY <2>13 DEF childWriteToFile, childWriteFails, childWrites, childSendMessage,
                   childSendFails, ChildAt, ChildFails
    <3> QED
      BY <2>1, <3>1, <3>2 DEF ChildHas
  <2>14. CASE ChildKilled
    <3>1. cpc' = "killed" /\ UNCHANGED <<cdata, segment, loop>> /\ cpc \notin {"none"} \cup Ended
      BY <2>14 DEF ChildKilled, media
    <3>2. CASE mech = "shm"
      <4>1. cpc \in {"sort", "swap"} /\ Array = segment
        BY <2>1, <3>1, <3>2 DEF Where, Ended, Array
      <4>2. Whole(segment, input) \/ Swapping(segment, loop, input)
        BY <2>1, <4>1 DEF ChildHas, Sorting
      <4>3. Whole(segment, input) \/ Torn(segment, input)
        BY <4>2, SwapIsTorn
      <4>4. Whole(segment, input)' \/ Torn(segment, input)'
        BY <2>1, <3>1, <4>3 DEF Torn
      <4> QED
        BY <3>1, <4>4 DEF ChildHas
    <3>3. CASE mech # "shm"
      BY <2>1, <3>1, <3>3 DEF ChildHas
    <3> QED
      BY <3>2, <3>3
  <2> QED
    BY <1>2, <2>5, <2>6, <2>7, <2>8, <2>9, <2>10, <2>11, <2>12, <2>13, <2>14
    DEF Works, Child, ChildFault
<1>3. CASE fork
  <2>1. /\ mech' = mech /\ input' = input /\ segment' = segment /\ loop' = loop /\ Trusted
        /\ input \in Arrays /\ pdata = input /\ loop = First
    BY <1>3 DEF fork, Where, Kept, ChildHas, Trusted, media
  <2>2. Whole(input, input)
    BY <2>1, ArrayFacts DEF Whole
  <2>3. CASE mech = "shm"
    <3>1. Sorting(input, First, input)
      BY <2>2, SortStarts
    <3>2. cpc' = "sort" /\ segment = input
      BY <1>3, <2>3 DEF fork, Kept
    <3>3. Array' = input
      BY <2>1, <2>3, <3>2 DEF Array
    <3>4. Sorting(Array', loop', input')
      BY <2>1, <3>1, <3>3
    <3> QED
      BY <3>2, <3>4 DEF ChildHas
  <2>4. CASE mech # "shm"
    <3>1. cpc' \in {"load", "readSize", "receive"} /\ (cpc' = "load" => cdata' = input)
      BY <1>3, <2>1, <2>4 DEF fork
    <3> QED
      BY <2>1, <2>2, <2>4, <3>1 DEF ChildHas
  <2> QED
    BY <2>3, <2>4
<1>4. ASSUME NEW a \in Arrays, readArray(a) PROVE ChildHas'
  <2>1. cpc' = "none" /\ loop' = loop /\ loop = First
    BY <1>4 DEF readArray, Where, ChildHas, Trusted, child
  <2> QED
    BY <2>1 DEF ChildHas
<1> QED
  BY <1>1, <1>2, <1>3, <1>4, Split

\* data.txt: the user's array, sorted or not, or nothing.
LEMMA KeepsFileHas == Where /\ Kept /\ ChildHas /\ FileHas /\ Next => FileHas'
<1> SUFFICES ASSUME Where, Kept, ChildHas, FileHas, Next, mech' = "file", Trusted'
             PROVE  FileHas'
  BY DEF FileHas
<1>0. \A a : Whole(a, input) => a # Empty /\ a # Missing
  BY ArrayFacts DEF Whole
<1>1. CASE Talks
  <2>0. /\ UNCHANGED <<mech, cpc, cdata, loop, segment, input>> /\ failed \subseteq failed'
        /\ Trusted /\ mech = "file"
    BY <1>1, TalkLeaves
  <2>1. CASE parentWriteToFile
    <3>1. ppc \in {"fopen", "fclose"} /\ pdata = input /\ input \in Arrays /\ cpc = "none"
      BY <2>1 DEF parentWriteToFile, ParentAt, Where, Kept
    <3>2. ppc' = "fork" => file' = input
      BY <2>1, <3>1 DEF parentWriteToFile, ParentAt
    <3>3. ppc' # "show"
      BY <2>1 DEF parentWriteToFile
    <3>4. Whole(input, input)
      BY <3>1, ArrayFacts DEF Whole
    <3> QED
      BY <2>0, <3>1, <3>2, <3>3, <3>4 DEF FileHas
  <2>2. CASE parentWriteFails
    <3>1. ~Trusted'
      BY <2>0, <2>2 DEF parentWriteFails, ParentFails, Trusted
    <3> QED
      BY <3>1
  <2>3. CASE parentReadFromFile
    <3>1. ppc = "collect" /\ pdata = input /\ input \in Arrays /\ cpc \in Ended /\ cpc # "none"
      BY <2>3 DEF parentReadFromFile, ParentAt, Where, Kept, Ended
    <3>2. /\ file' = file /\ failed' = failed /\ ppc' = "show"
          /\ pdata' = IF file \in {Missing, Empty} THEN input ELSE file
      BY <2>3, <3>1 DEF parentReadFromFile, FromFile, media
    <3>3. file = Empty \/ Whole(file, input)
      BY <2>0, <3>1 DEF FileHas
    <3>4. Whole(input, input)
      BY <3>1, ArrayFacts DEF Whole
    <3>5. Whole(pdata', input)
      BY <3>2, <3>3, <3>4
    <3>6. cpc = "ended" /\ failed = {} => InOrder(pdata')
      <4> SUFFICES ASSUME cpc = "ended", failed = {} PROVE InOrder(pdata')
        OBVIOUS
      <4>1. Right(file, input)
        BY <2>0 DEF FileHas
      <4> QED
        BY <1>0, <3>2, <4>1 DEF Right
    <3> QED
      BY <2>0, <3>2, <3>3, <3>5, <3>6 DEF FileHas
  <2>4. CASE parentReadFails
    <3>1. /\ ppc = "collect" /\ pdata = input /\ input \in Arrays /\ cpc # "none"
          /\ file' = file /\ pdata' = pdata /\ failed' # {}
      BY <2>4 DEF parentReadFails, ParentFails, ParentAt, Where, Kept, Ended, media
    <3>2. Whole(input, input)
      BY <3>1, ArrayFacts DEF Whole
    <3> QED
      BY <2>0, <3>1, <3>2 DEF FileHas
  <2>5. CASE create \/ createFails \/ readInvalid \/ forkFails \/ clean
    <3>1. file' = file /\ ppc' \notin {"fork", "show"}
      BY <2>0, <2>5 DEF create, createFails, readInvalid, forkFails, clean, ParentFails, ParentAt, media
    <3> QED
      BY <2>0, <3>1 DEF FileHas
  <2>6. CASE parentSendMessage \/ parentSendFails \/ parentWrites \/ parentReads
             \/ parentReceiveMessage \/ parentReceiveFails
    BY <2>0, <2>6 DEF parentSendMessage, parentSendFails, parentWrites, parentReads,
       parentReceiveMessage, parentReceiveFails, ParentFails, ParentAt
  <2>7. CASE wait \/ show
    <3>1. file' = file /\ ppc' \notin {"fork", "show"}
      BY <2>0, <2>7 DEF wait, show, media
    <3> QED
      BY <2>0, <3>1 DEF FileHas
  <2> QED
    BY <1>1, <2>1, <2>2, <2>3, <2>4, <2>5, <2>6, <2>7 DEF Talks
<1>2. CASE Works
  <2>0. /\ UNCHANGED <<mech, ppc, pdata, input>> /\ failed \subseteq failed'
        /\ cpc # "none" /\ cpc \notin Ended /\ Trusted /\ mech = "file"
    BY <1>2, WorkLeaves
  <2>1. ppc # "show"
    BY <2>0 DEF Where
  <2>2. file = Empty \/ Whole(file, input)
    BY <2>0 DEF FileHas
  <2>3. CASE childWriteToFile
    <3>1. CASE cpc = "fopen"
      <4>1. cpc' = "fclose" /\ file' = Empty
        BY <2>3, <3>1 DEF childWriteToFile, ChildAt
      <4> QED
        BY <2>0, <2>1, <4>1 DEF FileHas
    <3>2. CASE cpc = "fclose"
      <4>1. Right(cdata, input) /\ file' = cdata
        BY <2>0, <2>3, <3>2 DEF childWriteToFile, ChildAt, ChildHas
      <4> QED
        BY <2>0, <2>1, <4>1 DEF FileHas, Right
    <3> QED
      BY <2>3, <3>1, <3>2 DEF childWriteToFile, ChildAt
  <2>4. CASE ~childWriteToFile
    <3>1. file' = file
      BY <1>2, <2>4 DEF Works, Child, ChildFault, childReadFromFile, childReadFails, childReads,
         childReceiveMessage, childReceiveFails, sortArray, secondStore, sorted,
         childWriteFails, childWrites, childSendMessage, childSendFails, ChildKilled,
         ChildFails, media
    <3>2. cpc' = "ended" => failed' # {}
      BY <1>2, <2>0, <2>4 DEF Works, Child, ChildFault, childReadFromFile, childReadFails, childReads,
         childReceiveMessage, childReceiveFails, sortArray, secondStore, sorted,
         childWriteFails, childWrites, childSendMessage, childSendFails, ChildKilled,
         ChildFails, ChildAt
    <3> QED
      BY <2>0, <2>1, <2>2, <3>1, <3>2 DEF FileHas
  <2> QED
    BY <2>3, <2>4
<1>3. CASE fork
  <2>1. /\ ppc = "fork" /\ mech = "file" /\ ppc' = "wait" /\ cpc' = "load" /\ file' = file
        /\ input' = input /\ Trusted
    BY <1>3 DEF fork, Trusted, media
  <2> QED
    BY <2>1 DEF FileHas
<1>4. ASSUME NEW a \in Arrays, readArray(a) PROVE FileHas'
  BY <1>4 DEF readArray, AfterInput, FileHas, Where, child
<1> QED
  BY <1>1, <1>2, <1>3, <1>4, Split

\* The queue: the user's array for the child, the sorted one for the parent.
LEMMA KeepsQueueHas == Where /\ Kept /\ ChildHas /\ QueueHas /\ Next => QueueHas'
<1> SUFFICES ASSUME Where, Kept, ChildHas, QueueHas, Next, mech' = "mq"
             PROVE  QueueHas'
  BY DEF QueueHas
<1>1. CASE Talks
  <2>0. UNCHANGED <<mech, input>> /\ mech = "mq"
    BY <1>1, TalkLeaves
  <2>1. CASE parentSendMessage
    <3>1. queue' = queue \cup {[type |-> "SEND_TYPE", array |-> input]} /\ ppc' = "fork"
      BY <2>1 DEF parentSendMessage, ParentAt, Kept
    <3> QED
      BY <2>0, <3>1 DEF QueueHas
  <2>2. CASE parentReceiveMessage
    <3>1. PICK m \in Answers : pdata' = m.array /\ queue' = queue \ {m}
      BY <2>2 DEF parentReceiveMessage
    <3>2. Right(pdata', input) /\ ppc' = "show"
      BY <2>0, <2>2, <3>1 DEF parentReceiveMessage, Answers, QueueHas
    <3> QED
      BY <2>0, <3>1, <3>2 DEF QueueHas
  <2>3. CASE create \/ createFails \/ readInvalid \/ parentSendFails \/ forkFails
             \/ wait \/ parentReceiveFails \/ show \/ clean
    <3>1. queue' = queue /\ (ppc' \in {"create", "input"} => ppc = "create") /\ ppc' # "show"
      BY <2>0, <2>3 DEF create, createFails, readInvalid, parentSendFails, forkFails, wait,
         parentReceiveFails, show, clean, ParentFails, ParentAt, media
    <3> QED
      BY <2>0, <3>1 DEF QueueHas
  <2>4. CASE parentWriteToFile \/ parentWriteFails \/ parentWrites \/ parentReads
             \/ parentReadFromFile \/ parentReadFails
    BY <2>0, <2>4 DEF parentWriteToFile, parentWriteFails, parentWrites, parentReads,
       parentReadFromFile, parentReadFails, ParentAt
  <2> QED
    BY <1>1, <2>1, <2>2, <2>3, <2>4 DEF Talks
<1>2. CASE Works
  <2>0. /\ UNCHANGED <<mech, ppc, pdata, input>> /\ cpc # "none" /\ mech = "mq"
    BY <1>2, WorkLeaves
  <2>1. ppc \notin {"create", "input"}
    BY <2>0 DEF Where
  <2>2. CASE childSendMessage
    <3>1. Right(cdata, input)
      BY <2>0, <2>2 DEF childSendMessage, ChildAt, ChildHas, Trusted
    <3>2. queue' = queue \cup {[type |-> "RECEIVE_TYPE", array |-> cdata]}
      BY <2>2 DEF childSendMessage
    <3> QED
      BY <2>0, <2>1, <3>1, <3>2 DEF QueueHas
  <2>3. CASE childReceiveMessage
    <3>1. queue' \subseteq queue
      BY <2>3 DEF childReceiveMessage
    <3> QED
      BY <2>0, <2>1, <3>1 DEF QueueHas
  <2>4. CASE ~childSendMessage /\ ~childReceiveMessage
    <3>1. queue' = queue
      BY <1>2, <2>4 DEF Works, Child, ChildFault, childReadFromFile, childReadFails, childReads,
         childReceiveFails, sortArray, secondStore, sorted, childWriteToFile,
         childWriteFails, childWrites, childSendFails, ChildKilled, ChildFails, media
    <3> QED
      BY <2>0, <2>1, <3>1 DEF QueueHas
  <2> QED
    BY <2>2, <2>3, <2>4
<1>3. CASE fork
  BY <1>3 DEF fork, QueueHas, media
<1>4. ASSUME NEW a \in Arrays, readArray(a) PROVE QueueHas'
  <2>1. ppc = "input" /\ mech = "mq" /\ ppc' = "send" /\ queue' = queue
    BY <1>4 DEF readArray, AfterInput
  <2> QED
    BY <2>1 DEF QueueHas
<1> QED
  BY <1>1, <1>2, <1>3, <1>4, Split

\* The pipes: sizes and arrays are read in the order they were written in.
LEMMA KeepsPipeHas == Where /\ Kept /\ ChildHas /\ PipeHas /\ Next => PipeHas'
<1> SUFFICES ASSUME Where, Kept, ChildHas, PipeHas, Next, mech' = "pipe"
             PROVE  PipeHas'
  BY DEF PipeHas
<1>t. /\ \A x : Append(<<>>, x) = <<x>> /\ Head(<<x>>) = x /\ Tail(<<x>>) = <<>> /\ <<x>> # <<>>
      /\ \A x, y : /\ Append(<<x>>, y) = <<x, y>> /\ Head(<<x, y>>) = x
                   /\ Tail(<<x, y>>) = <<y>> /\ <<x, y>> # <<>>
  BY ONLY OneMember, TwoMembers
<1>1. CASE Talks
  <2>0. UNCHANGED <<mech, cpc, cdata, loop, segment, input>> /\ mech = "pipe"
    BY <1>1, TalkLeaves
  <2>1. CASE parentWrites
    <3>1. /\ ppc \in {"writeSize", "writeArray"} /\ pdata = input /\ cpc # "none"
          /\ up' = up /\ pdata' = pdata
      BY <2>1 DEF parentWrites, ParentAt, Where, Kept
    <3>2. CASE cpc = "killed"
      <4>1. ppc' = "killed"
        BY <2>1, <3>2 DEF parentWrites
      <4> QED
        BY <2>0, <3>2, <4>1 DEF PipeHas
    <3>3. CASE cpc # "killed"
      <4>1. cpc \in {"readSize", "readArray"} /\ up = <<>>
        BY <2>0, <3>1, <3>3 DEF Where, PipeHas
      <4>2. CASE ppc = "writeSize"
        <5>1. ppc' = "writeArray" /\ down' = Append(down, Len(input))
          BY Zenon, <2>1, <3>1, <3>3, <4>2 DEF parentWrites, ParentAt
        <5>2. cpc = "readSize" /\ down = <<>>
          BY <2>0, <4>1, <4>2 DEF PipeHas
        <5>3. down' = <<Len(input)>>
          BY <1>t, <5>1, <5>2
        <5> QED
          BY <2>0, <3>1, <4>1, <5>1, <5>2, <5>3 DEF PipeHas
      <4>3. CASE ppc = "writeArray"
        <5>1. ppc' = "readSize" /\ down' = Append(down, input)
          BY Zenon, <2>1, <3>1, <3>3, <4>3 DEF parentWrites, ParentAt
        <5>2. /\ cpc = "readSize" => down = <<Len(input)>>
              /\ cpc = "readArray" => down = <<>>
          BY <2>0, <4>1, <4>3 DEF PipeHas
        <5>3. /\ cpc = "readSize" => down' = <<Len(input), input>>
              /\ cpc = "readArray" => down' = <<input>>
          BY <1>t, <5>1, <5>2
        <5> QED
          BY <2>0, <3>1, <4>1, <5>1, <5>3 DEF PipeHas
      <4> QED
        BY <3>1, <4>2, <4>3
    <3> QED
      BY <3>2, <3>3
  <2>2. CASE parentReads
    <3>1. /\ ppc \in {"readSize", "readArray"} /\ pdata = input /\ input \in Arrays /\ cpc # "none"
          /\ up # <<>> \/ cpc \in Ended
          /\ down' = down
      BY <2>2 DEF parentReads, ParentAt, Where, Kept
    <3>2. Whole(input, input)
      BY <3>1, ArrayFacts DEF Whole
    <3>3. CASE ppc = "readSize"
      <4>1. ppc' = "readArray" /\ pdata' = pdata /\ up' = IF up # <<>> THEN Tail(up) ELSE up
        BY <2>2, <3>3 DEF parentReads
      <4>2. cpc \in {"writeArray", "ended", "killed"}
        BY <2>0, <3>1 DEF PipeHas, Where, Ended
      <4>3. /\ cpc = "writeArray" => up = <<Len(cdata)>>
            /\ cpc = "ended" => up = <<Len(cdata), cdata>>
            /\ cpc = "killed" => up = <<>> \/ up = <<Len(cdata)>>
        BY <2>0, <3>3 DEF PipeHas
      <4>4. /\ cpc = "writeArray" => up' = <<>>
            /\ cpc = "ended" => up' = <<cdata>>
            /\ cpc = "killed" => up' = <<>>
        <5>1. Tail(<<Len(cdata)>>) = <<>> /\ Tail(<<Len(cdata), cdata>>) = <<cdata>>
          BY ONLY <1>t
        <5>2. up = <<Len(cdata)>> => up' = <<>>
          BY <4>1, <5>1
        <5>3. up = <<Len(cdata), cdata>> => up' = <<cdata>>
          BY <4>1, <5>1
        <5> QED
          BY <4>1, <4>3, <5>2, <5>3
      <4>5. cpc = "ended" => Right(cdata, input)
        BY <2>0 DEF PipeHas
      <4> QED
        BY <2>0, <4>1, <4>2, <4>4, <4>5 DEF PipeHas
    <3>4. CASE ppc = "readArray"
      <4>1. /\ ppc' = "wait" /\ pdata' = IF up # <<>> THEN Head(up) ELSE pdata
            /\ up' = IF up # <<>> THEN Tail(up) ELSE up
        BY <2>2, <3>4 DEF parentReads
      <4>2. cpc \in {"writeArray", "ended", "killed"}
        BY <2>0, <3>1, <3>4 DEF PipeHas, Where, Ended
      <4>3. /\ cpc = "writeArray" => up = <<>>
            /\ cpc = "ended" => up = <<cdata>> /\ Right(cdata, input)
            /\ cpc = "killed" => up = <<>>
        BY <2>0, <3>4 DEF PipeHas
      <4>4. /\ cpc # "writeArray"
            /\ cpc = "ended" => pdata' = cdata
            /\ cpc = "killed" => pdata' = input
        BY <1>t, <3>1, <4>1, <4>3 DEF Ended
      <4> QED
        BY <2>0, <3>2, <4>1, <4>2, <4>3, <4>4 DEF PipeHas, Right, Ended
    <3> QED
      BY <3>1, <3>3, <3>4
  <2>3. CASE create \/ createFails \/ readInvalid \/ forkFails \/ show \/ clean
    <3>1. /\ down' = down /\ up' = up /\ pdata' = pdata
          /\ ppc \in {"create", "input", "fork", "show"} /\ ppc' \in {"fork", "ended"}
          /\ ppc = "show" => ppc' = "ended"
      BY <2>0, <2>3 DEF create, createFails, readInvalid, forkFails, show, clean, ParentFails,
         ParentAt, media, Where
    <3> QED
      BY <2>0, <3>1 DEF PipeHas, Where, Ended
  <2>4. CASE wait
    <3>1. ppc = "wait" /\ ppc' = "show" /\ UNCHANGED <<down, up, pdata>>
      BY <2>0, <2>4 DEF wait, media
    <3> QED
      BY <2>0, <3>1 DEF PipeHas, Ended
  <2>5. CASE parentWriteToFile \/ parentWriteFails \/ parentSendMessage \/ parentSendFails
             \/ parentReadFromFile \/ parentReadFails \/ parentReceiveMessage \/ parentReceiveFails
    BY <2>0, <2>5 DEF parentWriteToFile, parentWriteFails, parentSendMessage, parentSendFails,
       parentReadFromFile, parentReadFails, parentReceiveMessage, parentReceiveFails, ParentAt
  <2> QED
    BY <1>1, <2>1, <2>2, <2>3, <2>4, <2>5 DEF Talks
<1>2. CASE Works
  <2>0. /\ UNCHANGED <<mech, ppc, pdata, input>> /\ cpc # "none" /\ cpc \notin Ended /\ mech = "pipe"
        /\ Trusted
    BY <1>2, WorkLeaves DEF Trusted
  <2>w. ppc \notin {"wait", "show"}
    BY <2>0 DEF PipeHas
  <2>1. CASE childReads
    <3>1. down # <<>> /\ down' = Tail(down) /\ up' = up
      BY <2>1 DEF childReads
    <3>2. CASE cpc = "readSize"
      <4>1. cpc' = "readArray"
        BY <2>1, <3>2 DEF childReads, ChildAt
      <4>2. /\ up = <<>>
            /\ \/ ppc = "writeArray" /\ down = <<Len(input)>>
               \/ ppc = "readSize" /\ down = <<Len(input), input>>
        BY <2>0, <3>1, <3>2 DEF PipeHas
      <4>3. /\ ppc = "writeArray" => down' = <<>>
            /\ ppc = "readSize" => down' = <<input>>
        BY <1>t, <3>1, <4>2
      <4> QED
        BY <2>0, <2>w, <3>1, <4>1, <4>2, <4>3 DEF PipeHas
    <3>3. CASE cpc = "readArray"
      <4>1. cpc' = "sort" /\ ppc = "readSize" /\ up = <<>>
        BY <2>0, <2>1, <3>1, <3>3 DEF childReads, ChildAt, PipeHas
      <4> QED
        BY <2>0, <2>w, <3>1, <4>1 DEF PipeHas
    <3> QED
      BY <2>1, <3>2, <3>3 DEF childReads, ChildAt
  <2>2. CASE sortArray \/ secondStore \/ sorted
    <3>1. /\ cpc \in {"sort", "swap"} /\ cpc' \in {"sort", "swap", "writeSize"} /\ UNCHANGED <<down, up>>
      BY <2>0, <2>2 DEF sortArray, secondStore, sorted, media
    <3> QED
      BY <2>0, <2>w, <3>1 DEF PipeHas
  <2>3. CASE childWrites
    <3>1. cdata' = cdata /\ down' = down /\ Right(cdata, input)
      BY <2>0, <2>3 DEF childWrites, ChildAt, ChildHas
    <3>2. CASE cpc = "writeSize"
      <4>1. cpc' = "writeArray" /\ up' = Append(up, Len(cdata)) /\ ppc = "readSize" /\ up = <<>>
        BY <2>0, <2>3, <3>2 DEF childWrites, ChildAt, PipeHas
      <4>2. up' = <<Len(cdata)>>
        BY <1>t, <4>1
      <4> QED
        BY <2>0, <2>w, <3>1, <4>1, <4>2 DEF PipeHas
    <3>3. CASE cpc = "writeArray"
      <4>1. cpc' = "ended" /\ up' = Append(up, cdata)
        BY <2>3, <3>3 DEF childWrites, ChildAt
      <4>2. \/ ppc = "readSize" /\ up = <<Len(cdata)>>
            \/ ppc = "readArray" /\ up = <<>>
        BY <2>0, <3>3 DEF PipeHas
      <4>3. \/ ppc = "readSize" /\ up' = <<Len(cdata), cdata>>
            \/ ppc = "readArray" /\ up' = <<cdata>>
        BY <1>t, <4>1, <4>2
      <4> QED
        BY <2>0, <2>w, <3>1, <4>1, <4>3 DEF PipeHas
    <3> QED
      BY <2>3, <3>2, <3>3 DEF childWrites, ChildAt
  <2>4. CASE ChildKilled
    <3>1. cpc' = "killed" /\ UNCHANGED <<down, up, cdata>>
      BY <2>4 DEF ChildKilled, media
    <3> QED
      BY <2>0, <2>w, <3>1 DEF PipeHas, Where, Ended
  <2>5. CASE childReadFromFile \/ childReadFails \/ childReceiveMessage \/ childReceiveFails
             \/ childWriteToFile \/ childWriteFails \/ childSendMessage \/ childSendFails
    BY <2>0, <2>5 DEF childReadFromFile, childReadFails, childReceiveMessage, childReceiveFails,
       childWriteToFile, childWriteFails, childSendMessage, childSendFails, ChildAt
  <2> QED
    BY <1>2, <2>1, <2>2, <2>3, <2>4, <2>5 DEF Works, Child, ChildFault
<1>3. CASE fork
  <2>1. /\ ppc' = "writeSize" /\ cpc' = "readSize" /\ cpc = "none" /\ mech = "pipe"
        /\ UNCHANGED <<down, up, input>>
    BY <1>3 DEF fork, media, Where
  <2>2. down = <<>> /\ up = <<>>
    BY <2>1 DEF PipeHas
  <2> QED
    BY <2>1, <2>2 DEF PipeHas
<1>4. ASSUME NEW a \in Arrays, readArray(a) PROVE PipeHas'
  <2>1. ppc' = "create" /\ cpc' = "none" /\ cpc = "none" /\ UNCHANGED <<mech, down, up>>
    BY <1>4 DEF readArray, AfterInput, child, Where
  <2> QED
    BY <2>1 DEF PipeHas
<1> QED
  BY <1>1, <1>2, <1>3, <1>4, Split

\* What is left behind, and when something was shown.
LEMMA KeepsLate == Where /\ Late /\ NothingLeft /\ Next => Late' /\ NothingLeft'
<1> SUFFICES ASSUME Where, Late, NothingLeft, Next PROVE Late' /\ NothingLeft'
  OBVIOUS
<1>1. CASE Talks
  <2>0. UNCHANGED <<mech, cpc>> /\ failed \subseteq failed'
    BY <1>1, TalkLeaves
  <2> USE DEF Where, Late, NothingLeft, Ended
  <2>1. CASE create
    <3>1. ppc = "create" /\ shown' = shown /\ mech # "file"
      BY <2>1 DEF create, ParentAt
    <3>2. CASE ppc' = "ended"
      <4>1. failed' = {"shmat"} \/ failed' = {"id 0"}
        BY <2>1, <3>2 DEF create, ParentAt
      <4>2. mech' \in {"shm", "mq"}
        BY <2>1, <3>2 DEF create, ParentAt
      <4> QED
        BY <2>0, <3>1, <3>2, <4>1, <4>2
    <3>3. CASE ppc' # "ended"
      <4>1. \/ ppc' = "fork" /\ object' = object
            \/ ppc' = "input" /\ mech' \in {"shm", "mq"}
        BY <2>1, <3>3 DEF create, ParentAt
      <4>2. NothingLeft'
        BY <4>1
      <4>3. shown = Nothing
        BY <3>1
      <4>4. CASE ppc' = "fork" /\ object' = object
        <5>1. ~object
          BY <3>1
        <5> QED
          BY <3>1, <4>2, <4>3, <4>4, <5>1
      <4>5. CASE ppc' = "input" /\ mech' \in {"shm", "mq"}
        BY <3>1, <4>2, <4>3, <4>5
      <4> QED
        BY <4>1, <4>4, <4>5
    <3> QED
      BY <3>2, <3>3
  <2>2. CASE createFails
    BY <2>0, <2>2 DEF createFails, ParentFails
  <2>3. CASE readInvalid
    BY <2>0, <2>3 DEF readInvalid
  <2>4. CASE parentWriteToFile
    <3>1. ppc \in {"fopen", "fclose"} /\ ppc' \in {"fclose", "fork"}
      BY <2>4 DEF parentWriteToFile, ParentAt
    <3>2. object' = object /\ shown' = shown
      BY <2>4 DEF parentWriteToFile
    <3> QED
      BY <2>0, <3>1, <3>2
  <2>5. CASE parentWriteFails
    BY <2>0, <2>5 DEF parentWriteFails, ParentFails, ParentAt
  <2>6. CASE parentSendMessage
    BY <2>0, <2>6 DEF parentSendMessage, ParentAt
  <2>7. CASE parentSendFails
    BY <2>0, <2>7 DEF parentSendFails, ParentFails, ParentAt
  <2>8. CASE forkFails
    BY <2>0, <2>8 DEF forkFails, ParentFails
  <2>9. CASE parentWrites
    BY <2>0, <2>9 DEF parentWrites, ParentAt
  <2>10. CASE parentReads
    BY <2>0, <2>10 DEF parentReads, ParentAt
  <2>11. CASE wait
    BY <2>0, <2>11 DEF wait
  <2>12. CASE parentReadFromFile
    BY <2>0, <2>12 DEF parentReadFromFile, ParentAt
  <2>13. CASE parentReadFails
    BY <2>0, <2>13 DEF parentReadFails, ParentFails, ParentAt
  <2>14. CASE parentReceiveMessage
    BY <2>0, <2>14 DEF parentReceiveMessage, ParentAt
  <2>15. CASE parentReceiveFails
    BY <2>0, <2>15 DEF parentReceiveFails, ParentFails, ParentAt
  <2>16. CASE show
    BY <2>0, <2>16 DEF show
  <2>17. CASE clean
    BY <2>0, <2>17 DEF clean
  <2> QED
    BY <1>1, <2>1, <2>2, <2>3, <2>4, <2>5, <2>6, <2>7, <2>8, <2>9, <2>10, <2>11, <2>12, <2>13,
       <2>14, <2>15, <2>16, <2>17 DEF Talks
<1>2. CASE Works
  <2>1. UNCHANGED <<mech, ppc, object, shown>> /\ failed \subseteq failed' /\ cpc \notin Ended
    BY <1>2, WorkLeaves
  <2> QED
    BY <2>1 DEF Where, Late, NothingLeft, Ended
<1>3. CASE fork
  BY <1>3 DEF fork, Where, Late, NothingLeft
<1>4. ASSUME NEW a \in Arrays, readArray(a) PROVE Late' /\ NothingLeft'
  BY <1>4 DEF readArray, AfterInput, Where, Late, NothingLeft, child
<1> QED
  BY <1>1, <1>2, <1>3, <1>4, Split

\* What the parent shows is right when it shows it, and stays so.
LEMMA KeepsShownRight ==
  Where /\ ChildHas /\ FileHas /\ PipeHas /\ QueueHas /\ Late /\ ShownRight /\ Next
  => ShownRight'
<1> SUFFICES ASSUME Where, ChildHas, FileHas, PipeHas, QueueHas, Late, ShownRight, Next,
                    shown' # Nothing
             PROVE  ShownRight'
  BY DEF ShownRight
<1>1. CASE Talks
  <2>0. UNCHANGED <<mech, cpc, cdata, loop, segment, input>> /\ failed \subseteq failed'
    BY <1>1, TalkLeaves
  <2>1. CASE show
    <3>1. /\ ppc = "show" /\ cpc \in Ended /\ failed' = failed
          /\ shown' = IF mech = "shm" THEN segment ELSE pdata
      BY <2>1 DEF show, Where
    <3>2. mech \in {"file", "pipe", "shm", "mq"}
      BY DEF Where
    <3>3. CASE mech = "shm"
      <4>1. \/ cpc = "ended" /\ Right(segment, input)
            \/ cpc = "killed" /\ (Whole(segment, input) \/ Torn(segment, input))
        BY <3>1, <3>3 DEF ChildHas, Trusted, Ended
      <4>2. Torn(segment, input) => Torn(shown, input)'
        BY <2>0, <3>1, <3>3 DEF Torn
      <4> QED
        BY <2>0, <3>1, <3>3, <4>1, <4>2 DEF ShownRight, Right, Whole
    <3>4. CASE mech = "mq"
      BY <2>0, <3>1, <3>4 DEF QueueHas, ShownRight, Right, Whole
    <3>5. CASE mech = "pipe"
      BY <2>0, <3>1, <3>5 DEF PipeHas, ShownRight, Whole
    <3>6. CASE mech = "file"
      BY <2>0, <3>1, <3>6 DEF FileHas, Trusted, ShownRight, Whole
    <3> QED
      BY <3>2, <3>3, <3>4, <3>5, <3>6
  <2>2. CASE ~show
    <3>1. shown' = shown
      BY <1>1, <2>2 DEF Talks, create, createFails, readInvalid, parentWriteToFile,
         parentWriteFails, parentSendMessage, parentSendFails, forkFails, parentWrites,
         parentReads, wait, parentReadFromFile, parentReadFails, parentReceiveMessage,
         parentReceiveFails, clean, ParentFails
    <3> QED
      BY <2>0, <3>1 DEF ShownRight, Torn
  <2> QED
    BY <2>1, <2>2
<1>2. CASE Works
  <2>1. shown' = shown /\ cpc \notin Ended
    BY <1>2, WorkLeaves
  <2> QED
    BY <2>1 DEF Late
<1>3. CASE fork
  BY <1>3 DEF fork, Late
<1>4. ASSUME NEW a \in Arrays, readArray(a) PROVE ShownRight'
  BY <1>4 DEF readArray, Late
<1> QED
  BY <1>1, <1>2, <1>3, <1>4, Split

\* Nothing has happened yet.
LEMMA InitInvariant == Init => Invariant
<1> SUFFICES ASSUME Init PROVE Invariant
  OBVIOUS
<1> USE DEF Init
<1>1. Where
  BY DEF Where, ParentPlaces, Ended
<1>2. Kept /\ ChildHas /\ FileHas
  BY DEF Kept, ChildHas, FileHas, Ended
<1>3. PipeHas
  BY DEF PipeHas
<1>4. QueueHas
  BY DEF QueueHas
<1>5. Late /\ NothingLeft /\ ShownRight
  BY DEF Late, NothingLeft, ShownRight
<1> QED
  BY <1>1, <1>2, <1>3, <1>4, <1>5 DEF Invariant

\* Every step keeps the invariant.
LEMMA StepInvariant == Invariant /\ [Next]_vars => Invariant'
<1> SUFFICES ASSUME Invariant, [Next]_vars PROVE Invariant'
  OBVIOUS
<1>1. CASE Next
  <2>1. Where' /\ Kept' /\ ChildHas'
    BY <1>1, KeepsWhere, KeepsKept, KeepsChildHas DEF Invariant
  <2>2. FileHas' /\ PipeHas' /\ QueueHas'
    BY <1>1, KeepsFileHas, KeepsPipeHas, KeepsQueueHas DEF Invariant
  <2>3. Late' /\ NothingLeft' /\ ShownRight'
    BY <1>1, KeepsLate, KeepsShownRight DEF Invariant
  <2> QED
    BY <2>1, <2>2, <2>3 DEF Invariant
<1>2. CASE UNCHANGED vars
  <2>1. Where /\ Kept /\ ChildHas /\ FileHas /\ PipeHas /\ QueueHas /\ Late /\ NothingLeft /\ ShownRight
    BY DEF Invariant
  <2>2. /\ mech' = mech /\ ppc' = ppc /\ cpc' = cpc /\ pdata' = pdata /\ cdata' = cdata
        /\ loop' = loop /\ file' = file /\ down' = down /\ up' = up /\ segment' = segment
        /\ queue' = queue /\ object' = object /\ shown' = shown /\ input' = input
        /\ failed' = failed
    BY <1>2 DEF vars, child, media
  <2>3. Where'
    BY <2>1, <2>2 DEF Where
  <2>4. Kept'
    BY <2>1, <2>2 DEF Kept
  <2>5. ChildHas'
    BY <2>1, <2>2 DEF ChildHas, Trusted, Array, Torn
  <2>6. FileHas'
    BY <2>1, <2>2 DEF FileHas, Trusted
  <2>7. PipeHas'
    BY <2>1, <2>2 DEF PipeHas
  <2>8. QueueHas'
    BY <2>1, <2>2 DEF QueueHas
  <2>9. Late' /\ NothingLeft'
    BY <2>1, <2>2 DEF Late, NothingLeft
  <2>10. ShownRight'
    BY <2>1, <2>2 DEF ShownRight, Torn
  <2> QED
    BY <2>3, <2>4, <2>5, <2>6, <2>7, <2>8, <2>9, <2>10 DEF Invariant
<1> QED
  BY <1>1, <1>2

\* The invariant holds in every state of every run.
LEMMA AlwaysInvariant == Spec => []Invariant
BY InitInvariant, StepInvariant, PTL DEF Spec

\* Whichever of the four programs runs, and for arrays of every size: what the
\* parent shows as sorted is the user's array, sorted, unless the child was
\* killed or a call failed; and then it is the user's numbers in some order, but
\* for a child killed inside a swap of the shared array, and for a data.txt the
\* parent could not write.
THEOREM ShowsTheSortedArray == Spec => []ShownRight
<1>1. Invariant => ShownRight
  BY DEF Invariant
<1> QED
  BY <1>1, AlwaysInvariant, PTL

\* A parent that ends leaves no segment and no queue but by the four returns
\* that skip the clean up, and only a killed child makes it die of SIGPIPE.
THEOREM LeavesNothing == Spec => []NothingLeft
<1>1. Invariant => NothingLeft
  BY DEF Invariant
<1> QED
  BY <1>1, AlwaysInvariant, PTL
=============================================================================
