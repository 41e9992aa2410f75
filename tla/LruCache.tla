------------------------------- MODULE LruCache -------------------------------
(***************************************************************************)
(* LRU_CACHE_Implementation.c: a doubly linked list in order of last use   *)
(* and an open-addressing hash table of pointers into the list.  One       *)
(* command is one action.                                                  *)
(*                                                                         *)
(* A cache node is told apart by its address, a member of Nodes, which     *)
(* malloc may give out again once the node is freed.  A malloc may fail:   *)
(* for the copy of a text, which is then NULL; for a cache node, and its   *)
(* bucket then points to NULL; for a hash node, and then the cache node is *)
(* freed but stays in the list; for both, and then NULL is dereferenced.   *)
(* What follows a use of such a pointer is not defined: the model ends     *)
(* there.                                                                  *)
(***************************************************************************)
EXTENDS Integers, Sequences, FiniteSets, SequencesExt

CONSTANTS
  Capacities,   \* capacities a user gives that isValidCapacity accepts
  Keys,
  Data,
  Nodes,        \* addresses malloc may give to a cache node
  MemoryMayFail,
  None          \* NULL

ASSUME CapacitiesAssumption == Capacities \subseteq 1 .. 1000
ASSUME KeysAssumption == Keys \subseteq Int
ASSUME MemoryAssumption == MemoryMayFail \in BOOLEAN
ASSUME NodesAssumption == IsFiniteSet(Nodes)
ASSUME NoneAssumption ==
  None \notin Nodes \cup Data \cup [key : Keys \cup {None}, node : Nodes \cup {None}]

VARIABLES
  capacity,   \* LRUCache_Capacity, 0 while map is NULL
  size,       \* LRUCacheCurrentSize
  list,       \* LRUCacheHead, LRUCacheTail and the prev and next of each node
  key, data,  \* fields of each node
  live,       \* nodes allocated and not freed
  buckets,    \* map->buckets: NULL, or a key and its node
  shown,      \* what the last get printed
  ended,      \* the exit command was given, or the model's end was reached
  damage      \* "none", or what a failed malloc has left in the structure

vars == <<capacity, size, list, key, data, live, buckets, shown, ended, damage>>

Links     == [Nodes -> Nodes \cup {None}]
HashNodes == [key : Keys, node : Nodes \cup {None}]
NoList    == [head |-> None, tail |-> None,
              prev |-> [n \in Nodes |-> None], next |-> [n \in Nodes |-> None]]

TypeOK ==
  /\ capacity \in Capacities \cup {0}
  /\ size \in 0 .. capacity
  /\ list \in [head : Nodes \cup {None}, tail : Nodes \cup {None}, prev : Links, next : Links]
  /\ key \in [Nodes -> Keys \cup {None}]
  /\ data \in [Nodes -> Data \cup {None}]
  /\ live \in SUBSET Nodes
  /\ buckets \in [0 .. capacity - 1 -> HashNodes \cup {None}]
  /\ shown \in Data \cup {None}
  /\ ended \in BOOLEAN
  /\ damage \in {"none", "bucket", "list", "undefined"}

Init ==
  /\ capacity = 0
  /\ size = 0
  /\ list = NoList
  /\ key = [n \in Nodes |-> None]
  /\ data = [n \in Nodes |-> None]
  /\ live = {}
  /\ buckets = <<>>
  /\ shown = None
  /\ ended = FALSE
  /\ damage = "none"

(***************************************************************************)
(* The hash table b.  Every search goes through the whole table.           *)
(***************************************************************************)
hash(k) == k % capacity
Probe(from, i) == (from + i) % capacity

\* The bucket of the first of these probes, or -1.
FirstOf(from, probes) == IF probes = {} THEN -1 ELSE Probe(from, Min(probes))

HoldsKey(b, i, k) == b[i] # None /\ b[i].key = k

findKeyInHashMap(b, k) ==
  FirstOf(hash(k), {i \in DOMAIN b : HoldsKey(b, Probe(hash(k), i), k)})

findFreeBucket(b, k) ==
  FirstOf(hash(k), {i \in DOMAIN b : b[Probe(hash(k), i)] = None})

\* Mutant: the bucket of an evicted key is not cleared.
keepInHashmap(b, k, at) == b

\* The search starts at bucket `at` and gives up at the first empty bucket.
removeFromHashmap(b, k, at) ==
  LET stop == FirstOf(at, {i \in DOMAIN b : b[Probe(at, i)] = None \/ HoldsKey(b, Probe(at, i), k)})
  IN  [b EXCEPT ![stop] = None]

(***************************************************************************)
(* The list l.                                                             *)
(***************************************************************************)
\* Mutant: the tail is not moved back.
moveWithoutTail(l, n) ==
  IF l.head = n THEN l
  ELSE [head |-> n, tail |-> l.tail,
        next |-> [m \in Nodes |-> IF m = n THEN l.head
                                 ELSE IF m = l.prev[n] THEN l.next[n]
                                 ELSE l.next[m]],
        prev |-> [m \in Nodes |-> IF m = n THEN None
                                 ELSE IF m = l.head THEN n
                                 ELSE IF m = l.next[n] THEN l.prev[n]
                                 ELSE l.prev[m]]]

\* Mutant: using an entry does not move it.
stayInPlace(l, n) == l

moveToFront(l, n) ==
  LET before == l.prev[n]
      after  == l.next[n]
  IN  IF l.head = n THEN l
      ELSE [head |-> n,
            tail |-> IF l.tail = n THEN before ELSE l.tail,
            next |-> [m \in Nodes |-> IF m = n THEN l.head
                                     ELSE IF m = before THEN after
                                     ELSE l.next[m]],
            prev |-> [m \in Nodes |-> IF m = n THEN None
                                     ELSE IF m = l.head THEN n
                                     ELSE IF m = after THEN before
                                     ELSE l.prev[m]]]

addAtFrontOfLRUCache(l, n) ==
  [head |-> n,
   tail |-> IF l.head = None THEN n ELSE l.tail,
   next |-> [l.next EXCEPT ![n] = l.head],
   prev |-> [m \in Nodes |-> IF m = n THEN None
                            ELSE IF m = l.head THEN n
                            ELSE l.prev[m]]]

\* The links of a freed node are cleared here; nothing reads them again.
removeFromLRUCache(l) ==
  LET before == l.prev[l.tail]
  IN  [head |-> IF before = None THEN None ELSE l.head,
       tail |-> before,
       next |-> [m \in Nodes |-> IF m = before THEN None ELSE l.next[m]],
       prev |-> [l.prev EXCEPT ![l.tail] = None]]

\* The nodes met when following one kind of link until it is NULL; a cycle is cut
\* when more nodes are met than there are.
Chain(first, link) ==
  LET onward == [n \in Nodes \cup {None} |-> IF n = None THEN None ELSE link[n]]
      at[i \in 0 .. Cardinality(Nodes)] == IF i = 0 THEN first ELSE onward[at[i - 1]]
  IN  [i \in 1 .. Cardinality({k \in DOMAIN at : at[k] # None}) |-> at[i - 1]]

(***************************************************************************)
(* The commands.                                                           *)
(***************************************************************************)
\* Every node met from the head on is freed, with its data.
freeCache ==
  LET freed == ToSet(Chain(list.head, list.next))
  IN  /\ live' = live \ freed
      /\ key' = [n \in Nodes |-> IF n \in freed THEN None ELSE key[n]]
      /\ data' = [n \in Nodes |-> IF n \in freed THEN None ELSE data[n]]
      /\ list' = NoList
      /\ size' = 0

createCache(c) ==
  /\ damage # "list"
  /\ freeCache
  /\ capacity' = c
  /\ buckets' = [i \in 0 .. c - 1 |-> None]
  /\ damage' = "none"
  /\ UNCHANGED <<shown, ended>>

exitCache ==
  /\ damage # "list"
  /\ ended' = TRUE
  /\ freeCache
  /\ capacity' = 0
  /\ buckets' = <<>>
  /\ damage' = "none"
  /\ UNCHANGED shown

Node(k) == buckets[findKeyInHashMap(buckets, k)].node

\* The entry of k is used: its node moves to the front.
Hit(k) ==
  /\ capacity # 0 /\ damage # "list"
  /\ findKeyInHashMap(buckets, k) # -1
  /\ Node(k) # None
  /\ list' = moveToFront(list, Node(k))

Miss(k) == capacity # 0 /\ findKeyInHashMap(buckets, k) = -1

copyString(d) == {d} \cup (IF MemoryMayFail THEN {None} ELSE {})

updateData(k, d) ==
  /\ Hit(k)
  /\ \E copy \in copyString(d) : data' = [data EXCEPT ![Node(k)] = copy]
  /\ UNCHANGED <<capacity, size, key, live, buckets, shown, ended, damage>>

\* What evictLRU leaves, if the cache is full.
evictLRU ==
  LET old  == list.tail
      gone == removeFromHashmap(buckets, key[old], findKeyInHashMap(buckets, key[old]))
  IN  IF size < capacity
      THEN [list |-> list, buckets |-> buckets, key |-> key, data |-> data,
            live |-> live, size |-> size]
      ELSE [list |-> removeFromLRUCache(list), buckets |-> gone,
            key |-> [key EXCEPT ![old] = None], data |-> [data EXCEPT ![old] = None],
            live |-> live \ {old}, size |-> size - 1]

\* The bucket put looked for first; if there was none, one after the eviction.
BucketFor(k, after) ==
  IF findFreeBucket(buckets, k) # -1 THEN findFreeBucket(buckets, k)
  ELSE findFreeBucket(after.buckets, k)

\* malloc may give the new node the address of the evicted one.
putNew(k, d, n) ==
  LET s == evictLRU
  IN  /\ Miss(k) /\ damage # "list"
      /\ n \notin s.live
      /\ BucketFor(k, s) # -1
      /\ list' = addAtFrontOfLRUCache(s.list, n)
      /\ buckets' = [s.buckets EXCEPT ![BucketFor(k, s)] = [key |-> k, node |-> n]]
      /\ key' = [s.key EXCEPT ![n] = k]
      /\ \E copy \in copyString(d) : data' = [s.data EXCEPT ![n] = copy]
      /\ live' = s.live \cup {n}
      /\ size' = s.size + 1
      /\ UNCHANGED <<capacity, shown, ended, damage>>

\* No memory for the cache node: the key gets a bucket all the same.
putWithoutNode(k) ==
  LET s == evictLRU
  IN  /\ MemoryMayFail
      /\ Miss(k) /\ damage # "list"
      /\ BucketFor(k, s) # -1
      /\ list' = s.list
      /\ buckets' = [s.buckets EXCEPT ![BucketFor(k, s)] = [key |-> k, node |-> None]]
      /\ key' = s.key
      /\ data' = s.data
      /\ live' = s.live
      /\ size' = s.size
      /\ damage' = "bucket"
      /\ UNCHANGED <<capacity, shown, ended>>

\* No memory for the hash node: the node at the head is freed.
putWithoutHashNode(k, n) ==
  LET s == evictLRU
  IN  /\ MemoryMayFail
      /\ Miss(k) /\ damage # "list"
      /\ n \notin s.live
      /\ list' = addAtFrontOfLRUCache(s.list, n)
      /\ buckets' = s.buckets
      /\ key' = s.key
      /\ data' = s.data
      /\ live' = s.live
      /\ size' = s.size + 1
      /\ damage' = "list"
      /\ UNCHANGED <<capacity, shown, ended>>

\* No memory for either: the text of the node that is not there is freed.
putWithoutEither(k) ==
  /\ MemoryMayFail
  /\ Miss(k) /\ damage # "list"
  /\ ended' = TRUE
  /\ damage' = "undefined"
  /\ UNCHANGED <<capacity, size, list, key, data, live, buckets, shown>>

\* A command that uses the pointer of a bucket to no node, the freed head, or a
\* bucket when none is free (NULL buckets can fill the table of a cache that is
\* not full).  Only a get that finds nothing uses none.
useDamaged(k) ==
  /\ \/ damage = "list"
     \/ damage = "bucket" /\ ~Miss(k) /\ Node(k) = None
     \/ damage = "bucket" /\ Miss(k) /\ BucketFor(k, evictLRU) = -1
  /\ ended' = TRUE
  /\ damage' = "undefined"
  /\ UNCHANGED <<capacity, size, list, key, data, live, buckets, shown>>

getHit(k) ==
  /\ Hit(k)
  /\ shown' = data[Node(k)]
  /\ UNCHANGED <<capacity, size, key, data, live, buckets, ended, damage>>

getMiss(k) ==
  /\ Miss(k)
  /\ shown' = None
  /\ UNCHANGED <<capacity, size, list, key, data, live, buckets, ended, damage>>

Command ==
  \/ \E c \in Capacities : createCache(c)
  \/ \E k \in Keys :
       \/ getHit(k) \/ getMiss(k)
       \/ putWithoutNode(k)
       \/ putWithoutEither(k)
       \/ useDamaged(k)
       \/ \E d \in Data :
            \/ updateData(k, d)
            \/ \E n \in Nodes : putNew(k, d, n)
       \/ \E n \in Nodes : putWithoutHashNode(k, n)
  \/ exitCache

Next == ~ended /\ Command

Spec == Init /\ [][Next]_vars

(***************************************************************************)
(* Safety.                                                                 *)
(***************************************************************************)
Recency == Chain(list.head, list.next)

\* The list survives every sequence of moves and evictions: both directions
\* visit the same nodes once, they are the allocated ones, and their number is
\* the size.  No node is leaked by exit or by a second createCache.  A malloc
\* that fails for a text or for a cache node does no harm to the list; one that
\* fails for a hash node leaves exactly one freed node, at the head.
ListOK ==
  /\ TypeOK
  /\ Chain(list.tail, list.prev) = Reverse(Recency)
  /\ Len(Recency) = size
  /\ damage \in {"none", "bucket"} => ToSet(Recency) = live /\ Cardinality(live) = size
  /\ damage = "list" => list.head \notin live /\ ToSet(Tail(Recency)) = live

\* The table and the list agree: each node has exactly one bucket, under its
\* own key, and no bucket points to a freed node or to one that was reused for
\* another key; no key occurs twice.  A bucket without a node is left only by a
\* malloc that failed for a cache node.
TableMatchesList ==
  LET used  == {i \in DOMAIN buckets : buckets[i] # None}
      whole == {i \in used : buckets[i].node # None}
  IN  /\ {buckets[i] : i \in whole} = {[key |-> key[n], node |-> n] : n \in live}
      /\ Cardinality(whole) = Cardinality(live)
      /\ \A i, j \in used : buckets[i].key = buckets[j].key => i = j
      /\ damage = "none" => used = whole

\* The program is the cache of RecencyCache: what get prints and which entry
\* is evicted never depend on buckets, collisions or reused addresses, and a
\* failed malloc costs the text, or the entry that was evicted for nothing,
\* until the structure is used where it is damaged.
Cache == INSTANCE RecencyCache WITH
  entries <- LET r == Recency
             IN  [i \in DOMAIN r |-> [key |-> key[r[i]], data |-> data[r[i]]]],
  broken <- damage \in {"list", "undefined"}

ImplementsRecencyCache == Cache!Spec
===============================================================================
