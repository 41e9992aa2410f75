----------------------------- MODULE RecencyCache -----------------------------
(***************************************************************************)
(* What the LRU cache promises its user: the `capacity` entries used last, *)
(* in that order.  No list, no table, no memory; but memory may run out,   *)
(* and then a text is lost, or an entry, or the promise.                   *)
(***************************************************************************)
EXTENDS Integers, Sequences, SequencesExt

CONSTANTS Capacities, Keys, Data, None, MemoryMayFail

VARIABLES
  capacity,   \* 0: there is no cache
  entries,    \* keys with their data, last used first
  shown,      \* what the last get printed
  broken      \* nothing is promised any more

vars == <<capacity, entries, shown, broken>>

Entry(k, d) == [key |-> k, data |-> d]
Holding(k)  == {i \in DOMAIN entries : entries[i].key = k}

\* The entry at place i is used, and is e from now on.
Use(i, e) == entries' = <<e>> \o RemoveAt(entries, i)

Init == capacity = 0 /\ entries = <<>> /\ shown = None /\ ~broken

Create(c) ==
  /\ capacity' = c
  /\ entries' = <<>>
  /\ UNCHANGED shown

\* A key that is new takes the place of the oldest entry if the cache is full.
Put(k, d) ==
  /\ capacity # 0
  /\ \/ \E i \in Holding(k) : Use(i, Entry(k, d))
     \/ /\ Holding(k) = {}
        /\ LET kept == IF Len(entries) < capacity THEN Len(entries) ELSE capacity - 1
           IN  entries' = <<Entry(k, d)>> \o SubSeq(entries, 1, kept)
  /\ UNCHANGED <<capacity, shown>>

Get(k) ==
  /\ capacity # 0
  /\ \/ /\ Holding(k) = {}
        /\ shown' = None
        /\ UNCHANGED entries
     \/ \E i \in Holding(k) :
        /\ shown' = entries[i].data
        /\ Use(i, entries[i])
  /\ UNCHANGED capacity

\* The cache is full, the oldest entry makes room, and nothing takes it.
Forget ==
  /\ Len(entries) = capacity
  /\ entries' = SubSeq(entries, 1, capacity - 1)
  /\ UNCHANGED <<capacity, shown>>

Promised ==
  \/ \E c \in Capacities \cup {0} : Create(c)
  \/ \E k \in Keys : Get(k) \/ \E d \in Data : Put(k, d)
  \/ MemoryMayFail /\ (Forget \/ \E k \in Keys : Put(k, None))

Next ==
  \/ ~broken /\ Promised /\ ~broken'
  \/ MemoryMayFail /\ broken'

Spec == Init /\ [][Next]_vars
===============================================================================
