-------------------------- MODULE ProcessLifecycle --------------------------
(***************************************************************************)
(* What the scheduler simulates, without clock, queues or kill list: the   *)
(* life of each process on one CPU that is never taken from a process.     *)
(***************************************************************************)
EXTENDS FiniteSets

CONSTANT Processes

VARIABLE state

Admit(p) ==
  /\ state[p] = "ABSENT"
  /\ state' = [state EXCEPT ![p] = "READY"]

Dispatch(p) ==
  /\ state[p] = "READY"
  /\ \A r \in Processes : state[r] # "RUNNING"
  /\ state' = [state EXCEPT ![p] = "RUNNING"]

Block(p) ==
  /\ state[p] = "RUNNING"
  /\ state' = [state EXCEPT ![p] = "WAITING"]

\* Several processes may end their I/O in the same tick.
Wake(group) ==
  /\ \A p \in group : state[p] = "WAITING"
  /\ state' = [p \in Processes |-> IF p \in group THEN "READY" ELSE state[p]]

Finish(p) ==
  /\ state[p] = "RUNNING"
  /\ state' = [state EXCEPT ![p] = "COMPLETED"]

Kill(p) ==
  /\ state[p] \in {"READY", "RUNNING", "WAITING"}
  /\ state' = [state EXCEPT ![p] = "KILLED"]

Init == state = [p \in Processes |-> "ABSENT"]

Next == \/ \E p \in Processes : Admit(p) \/ Dispatch(p) \/ Block(p) \/ Finish(p) \/ Kill(p)
        \/ \E group \in SUBSET Processes : Wake(group)

Spec == Init /\ [][Next]_state
=============================================================================
