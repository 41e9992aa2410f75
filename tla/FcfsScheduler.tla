--------------------------- MODULE FcfsScheduler ----------------------------
(***************************************************************************)
(* FCFS_Based_OS_Process_Scheduling.c: processes and KILL commands are     *)
(* read first; then a clock ticks, and every tick applies the kills due,   *)
(* dispatches, runs the CPU for one unit and advances the I/O of the       *)
(* waiting processes, until no process is left; then a report is printed.  *)
(*                                                                         *)
(* A PCB is named by its position in the input: the list `pcbs` is the     *)
(* heap.  Its processId is input data and two PCBs may carry the same one. *)
(*                                                                         *)
(* Every enqueue may fail to allocate its node; the program then goes on   *)
(* with a process that is in no queue.  The two other malloc calls, of     *)
(* createPCB and of addKillEvent, lose their input line when they fail:    *)
(* nothing is changed, and the step is one in which all variables stay.    *)
(***************************************************************************)
EXTENDS Integers, Sequences, FiniteSets, SequencesExt, Selection

CONSTANTS
  Pids,          \* process ids that occur in the input
  BurstTimes,
  IoStartTimes,  \* inputOutputStartTime; -1 stands for '-'
  IoDurations,   \* inputOutputDurationTime; 0 also stands for '-'
  KillTimes,
  MaxProcesses,  \* bound: processes in the input
  MaxKills,      \* bound: KILL commands in the input
  DistinctPids,  \* whether the user gives every process its own id
  MemoryFails,   \* whether the malloc of enqueue may fail
  NoProcess

ASSUME BoundsAssumption == MaxProcesses \in Nat /\ MaxKills \in Nat
ASSUME PidAssumption == Pids \subseteq Int
ASSUME BurstAssumption == BurstTimes \subseteq Nat
ASSUME IoAssumption == IoStartTimes \subseteq Nat \cup {-1} /\ IoDurations \subseteq Nat
ASSUME KillAssumption == KillTimes \subseteq Int
ASSUME SwitchAssumption == DistinctPids \in BOOLEAN /\ MemoryFails \in BOOLEAN
ASSUME NoProcessAssumption == NoProcess \notin Nat

VARIABLES
  phase,        \* the function main or the tick is about to call
  currentTime,
  pcbs,         \* input of each PCB: pid, burst, ioStart, ioDuration
  state,        \* pcb->state
  isKilled,     \* pcb->isKilled
  executed,     \* pcb->executionTime, always equal to currentBurstTime
  remaining,    \* pcb->remainingBurstTime
  ioRemaining,  \* pcb->remainingInputOutputTime
  justStarted,  \* pcb->inputOutputJustStartedFlag
  completion,   \* pcb->completionTime
  readyQueue, waitingQueue, terminatedQueue, running,
  lost,         \* history: processes whose last enqueue got no node
  kills,        \* the list at KillHead
  report,       \* rows printed by printFinalReport
  ioSince       \* history: tick in which the process last began its I/O

input  == <<pcbs, kills>>
clocks == <<executed, remaining, ioRemaining, justStarted, completion, ioSince>>
queues == <<readyQueue, waitingQueue, terminatedQueue, running, lost>>
vars   == <<phase, currentTime, input, state, isKilled, clocks, queues, report>>

Processes == DOMAIN pcbs
PcbInputs == [pid : Pids, burst : BurstTimes, ioStart : IoStartTimes, ioDuration : IoDurations]
States    == {"READY", "RUNNING", "WAITING", "COMPLETED", "KILLED"}
Phases    == {"input", "loop", "kill", "dispatch", "cpu", "io", "report", "end"}
Rows      == [pid : Pids, killed : BOOLEAN, cpu : Nat, ended : Nat, waiting : Int]

TypeOK ==
  /\ phase \in Phases
  /\ currentTime \in Nat
  /\ pcbs \in Seq(PcbInputs)
  /\ kills \in Seq([pid : Pids, time : KillTimes])
  /\ state \in [Processes -> States]
  /\ isKilled \in [Processes -> BOOLEAN]
  /\ justStarted \in [Processes -> BOOLEAN]
  /\ executed \in [Processes -> Nat]
  /\ remaining \in [Processes -> Int]
  /\ ioRemaining \in [Processes -> Nat]
  /\ completion \in [Processes -> Nat]
  /\ ioSince \in [Processes -> Int]
  /\ \A q \in {readyQueue, waitingQueue, terminatedQueue} : q \in Seq(Processes)
  /\ running \in Processes \cup {NoProcess}
  /\ lost \in SUBSET Processes
  /\ report \in Seq(Rows)

Init ==
  /\ phase = "input"
  /\ currentTime = 0
  /\ pcbs = <<>> /\ kills = <<>> /\ report = <<>>
  /\ state = <<>> /\ isKilled = <<>> /\ justStarted = <<>>
  /\ executed = <<>> /\ remaining = <<>> /\ ioRemaining = <<>>
  /\ completion = <<>> /\ ioSince = <<>>
  /\ readyQueue = <<>> /\ waitingQueue = <<>> /\ terminatedQueue = <<>>
  /\ running = NoProcess
  /\ lost = {}

(***************************************************************************)
(* The queues and the hash table.                                          *)
(***************************************************************************)
\* The processes of the group for which no node can be allocated.
Failures(group) == IF MemoryFails THEN SUBSET group ELSE {{}}

\* Mutant: a node is put before the head.
enqueueFront(queue, p, failed) == IF p \in failed THEN queue ELSE <<p>> \o queue

enqueue(queue, p, failed) == IF p \in failed THEN queue ELSE Append(queue, p)

\* No caller learns whether its processes are in the queue.
Enqueued(group, failed) == lost' = (lost \ group) \cup failed

\* Mutant: the node found is not unlinked.
keepInQueue(queue, pid) == queue

\* Removes the first node whose PCB has this processId, if there is one.
removeFromQueue(queue, pid) ==
  LET hits == {i \in DOMAIN queue : pcbs[queue[i]].pid = pid}
  IN  IF hits = {} THEN queue
      ELSE RemoveAt(queue, CHOOSE i \in hits : \A j \in hits : i <= j)

\* hashmapPut adds at the head of the bucket: the last PCB with the id is found.
hashmapGet(pid) ==
  LET hits == {p \in Processes : pcbs[p].pid = pid}
  IN  IF hits = {} THEN NoProcess ELSE CHOOSE p \in hits : \A r \in hits : r <= p

(***************************************************************************)
(* takeUserInput.                                                          *)
(***************************************************************************)
PidAllowed(pid) == DistinctPids => \A p \in Processes : pcbs[p].pid # pid

handleProcessInput(in) ==
  /\ phase = "input"
  /\ Len(pcbs) < MaxProcesses
  /\ PidAllowed(in.pid)
  /\ pcbs' = Append(pcbs, in)
  /\ state' = Append(state, "READY")
  /\ isKilled' = Append(isKilled, FALSE)
  /\ executed' = Append(executed, 0)
  /\ remaining' = Append(remaining, in.burst)
  /\ ioRemaining' = Append(ioRemaining, 0)
  /\ justStarted' = Append(justStarted, FALSE)
  /\ completion' = Append(completion, 0)
  /\ ioSince' = Append(ioSince, -1)
  /\ \E failed \in Failures({Len(pcbs) + 1}) :
       /\ readyQueue' = enqueue(readyQueue, Len(pcbs) + 1, failed)
       /\ Enqueued({Len(pcbs) + 1}, failed)
  /\ UNCHANGED <<phase, currentTime, kills, waitingQueue, terminatedQueue, running, report>>

\* The list is kept sorted by time; equal times keep the order of the input.
Insert(event) ==
  LET before == Cardinality({i \in DOMAIN kills : kills[i].time <= event.time})
  IN  InsertAt(kills, before + 1, event)

addKillEvent(event) ==
  /\ phase = "input"
  /\ Len(kills) < MaxKills
  /\ kills' = Insert(event)
  /\ UNCHANGED <<phase, currentTime, pcbs, state, isKilled, clocks, queues, report>>

EndOfInput ==
  /\ phase = "input"
  /\ phase' = "loop"
  /\ UNCHANGED <<currentTime, input, state, isKilled, clocks, queues, report>>

(***************************************************************************)
(* handleSchedulingOfProcesses.                                            *)
(***************************************************************************)
systemHasActiveProcesses ==
  Len(readyQueue) > 0 \/ Len(waitingQueue) > 0 \/ running # NoProcess

Loop ==
  /\ phase = "loop"
  /\ phase' = IF systemHasActiveProcesses THEN "kill" ELSE "report"
  /\ UNCHANGED <<currentTime, input, state, isKilled, clocks, queues, report>>

Due == {i \in DOMAIN kills : kills[i].time = currentTime}

\* Mutant: a completed process can be killed.
KillableCompleted(p) == p # NoProcess /\ ~isKilled[p]

Killable(p) == p # NoProcess /\ ~isKilled[p] /\ state[p] # "COMPLETED"

\* One turn of the loop of processKillEvent, on an event that is due.
processKillEvent ==
  /\ phase = "kill"
  /\ \E i \in Due :
       LET pid == kills[i].pid
           p   == hashmapGet(pid)
       IN  /\ \A j \in Due : i <= j
           /\ kills' = RemoveAt(kills, i)
           /\ IF Killable(p)
              THEN /\ state' = [state EXCEPT ![p] = "KILLED"]
                   /\ isKilled' = [isKilled EXCEPT ![p] = TRUE]
                   /\ completion' = [completion EXCEPT ![p] = currentTime]
                   /\ readyQueue' = removeFromQueue(readyQueue, pid)
                   /\ waitingQueue' = removeFromQueue(waitingQueue, pid)
                   /\ running' = IF running # NoProcess /\ pcbs[running].pid = pid
                                 THEN NoProcess ELSE running
                   /\ \E failed \in Failures({p}) :
                        /\ terminatedQueue' = enqueue(terminatedQueue, p, failed)
                        /\ Enqueued({p}, failed)
              ELSE UNCHANGED <<state, isKilled, completion, queues>>
  /\ UNCHANGED <<phase, currentTime, pcbs, executed, remaining, ioRemaining,
                 justStarted, ioSince, report>>

KillsDone ==
  /\ phase = "kill"
  /\ Due = {}
  /\ phase' = "dispatch"
  /\ UNCHANGED <<currentTime, input, state, isKilled, clocks, queues, report>>

NothingToDispatch ==
  /\ running # NoProcess \/ readyQueue = <<>>
  /\ UNCHANGED <<state, queues>>

\* Mutant: a killed process found in the ready queue runs.
RunKilled(p) ==
  /\ running' = p
  /\ state' = [state EXCEPT ![p] = "RUNNING"]
  /\ UNCHANGED <<terminatedQueue, lost>>

RunNext(p) ==
  /\ ~isKilled[p]
  /\ running' = p
  /\ state' = [state EXCEPT ![p] = "RUNNING"]
  /\ UNCHANGED <<terminatedQueue, lost>>

\* A kill of a namesake can leave a killed process in the ready queue.
Discard(p) ==
  /\ isKilled[p]
  /\ \E failed \in Failures({p}) :
       /\ terminatedQueue' = enqueue(terminatedQueue, p, failed)
       /\ Enqueued({p}, failed)
  /\ UNCHANGED <<state, running>>

TakeReady ==
  /\ running = NoProcess
  /\ readyQueue # <<>>
  /\ readyQueue' = Tail(readyQueue)
  /\ RunNext(Head(readyQueue)) \/ Discard(Head(readyQueue))
  /\ UNCHANGED waitingQueue

dispatchProcess ==
  /\ phase = "dispatch"
  /\ phase' = "cpu"
  /\ NothingToDispatch \/ TakeReady
  /\ UNCHANGED <<currentTime, input, isKilled, clocks, report>>

\* Mutant: the count is compared before it is increased.
IoStartsLate(p) == executed[p] = pcbs[p].ioStart /\ pcbs[p].ioDuration > 0

\* checkProcessStateTransition looks at what executeCPU has just counted.
IoStarts(p) == executed[p] + 1 = pcbs[p].ioStart /\ pcbs[p].ioDuration > 0

StartIo(p) ==
  /\ IoStarts(p)
  /\ state' = [state EXCEPT ![p] = "WAITING"]
  /\ ioRemaining' = [ioRemaining EXCEPT ![p] = pcbs[p].ioDuration]
  /\ justStarted' = [justStarted EXCEPT ![p] = TRUE]
  /\ ioSince' = [ioSince EXCEPT ![p] = currentTime]
  /\ \E failed \in Failures({p}) :
       /\ waitingQueue' = enqueue(waitingQueue, p, failed)
       /\ Enqueued({p}, failed)
  /\ running' = NoProcess
  /\ UNCHANGED <<completion, readyQueue, terminatedQueue>>

Complete(p) ==
  /\ ~IoStarts(p)
  /\ remaining[p] - 1 <= 0
  /\ state' = [state EXCEPT ![p] = "COMPLETED"]
  /\ completion' = [completion EXCEPT ![p] = currentTime + 1]
  /\ \E failed \in Failures({p}) :
       /\ terminatedQueue' = enqueue(terminatedQueue, p, failed)
       /\ Enqueued({p}, failed)
  /\ running' = NoProcess
  /\ UNCHANGED <<ioRemaining, justStarted, ioSince, readyQueue, waitingQueue>>

KeepRunning(p) ==
  /\ ~IoStarts(p)
  /\ remaining[p] - 1 > 0
  /\ UNCHANGED <<state, ioRemaining, justStarted, completion, ioSince, queues>>

executeCPU ==
  /\ phase = "cpu"
  /\ running # NoProcess
  /\ phase' = "io"
  /\ executed' = [executed EXCEPT ![running] = @ + 1]
  /\ remaining' = [remaining EXCEPT ![running] = @ - 1]
  /\ StartIo(running) \/ Complete(running) \/ KeepRunning(running)
  /\ UNCHANGED <<currentTime, input, isKilled, report>>

\* Mutant: without a running process the rest of the tick is skipped.
IdleSkips ==
  /\ phase = "cpu" /\ running = NoProcess
  /\ phase' = "loop"
  /\ UNCHANGED <<currentTime, input, state, isKilled, clocks, queues, report>>

Idle ==
  /\ phase = "cpu"
  /\ running = NoProcess
  /\ phase' = "io"
  /\ UNCHANGED <<currentTime, input, state, isKilled, clocks, queues, report>>

\* Mutant: no flag for I/O that has just started.
IoLeftAtOnce(p) == IF ioRemaining[p] = 0 THEN 0 ELSE ioRemaining[p] - 1

\* ioRemaining of a waiting process after this tick: the tick in which the I/O
\* began does not count.
IoLeft(p) == IF justStarted[p] \/ ioRemaining[p] = 0
             THEN ioRemaining[p] ELSE ioRemaining[p] - 1

handleInputOutputTime ==
  LET waiting == ToSet(waitingQueue)
      woken   == {p \in waiting : IoLeft(p) = 0 /\ ~isKilled[p]}
  IN  /\ phase = "io"
      /\ phase' = "loop"
      /\ currentTime' = currentTime + 1
      /\ ioRemaining' = [p \in Processes |-> IF p \in waiting THEN IoLeft(p) ELSE ioRemaining[p]]
      /\ justStarted' = [p \in Processes |-> justStarted[p] /\ p \notin waiting]
      /\ state' = [p \in Processes |-> IF p \in woken THEN "READY" ELSE state[p]]
      /\ \E failed \in Failures(woken) :
           /\ readyQueue' = readyQueue \o Select(waitingQueue, woken \ failed)
           /\ Enqueued(woken, failed)
      /\ waitingQueue' = Select(waitingQueue, {p \in waiting : IoLeft(p) # 0})
      /\ UNCHANGED <<input, isKilled, executed, remaining, completion, ioSince,
                     terminatedQueue, running, report>>

(***************************************************************************)
(* printFinalReport.                                                       *)
(***************************************************************************)
Exchange(s, i) ==
  IF pcbs[s[i]].pid > pcbs[s[i + 1]].pid
  THEN [s EXCEPT ![i] = s[i + 1], ![i + 1] = s[i]] ELSE s

\* Mutant: the last neighbours are not compared.
BubbleShort(s, last) ==
  LET pass[i \in 0 .. last] == IF i < 2 THEN s ELSE Exchange(pass[i - 1], i - 1)
  IN  pass[last]

\* One pass over the first `last` neighbours.
BubblePass(s, last) ==
  LET pass[i \in 0 .. last] == IF i = 0 THEN s ELSE Exchange(pass[i - 1], i)
  IN  pass[last]

\* Each pass goes one less far than the one before.
sortPCBBasedOnProcessId(s) ==
  LET sorted[turn \in 0 .. Len(s)] ==
        IF turn = 0 THEN s ELSE BubblePass(sorted[turn - 1], Len(s) - turn)
  IN  IF s = <<>> THEN s ELSE sorted[Len(s) - 1]

\* `ended` is the turnaround time, or the time of the kill; a killed process
\* has no waiting time ('-', 0 here).
Row(p) ==
  LET killed == state[p] = "KILLED"
  IN  [pid |-> pcbs[p].pid, killed |-> killed, cpu |-> pcbs[p].burst,
       ended |-> completion[p],
       waiting |-> IF killed THEN 0 ELSE completion[p] - pcbs[p].burst]

printFinalReport ==
  /\ phase = "report"
  /\ phase' = "end"
  /\ report' = LET sorted == sortPCBBasedOnProcessId(terminatedQueue)
               IN  [i \in DOMAIN sorted |-> Row(sorted[i])]
  /\ UNCHANGED <<currentTime, input, state, isKilled, clocks, queues>>

Tick == \/ Loop \/ processKillEvent \/ KillsDone \/ dispatchProcess
        \/ executeCPU \/ Idle \/ handleInputOutputTime \/ printFinalReport

Next == \/ \E in \in PcbInputs : handleProcessInput(in)
        \/ \E event \in [pid : Pids, time : KillTimes] : addKillEvent(event)
        \/ EndOfInput
        \/ Tick

Spec == Init /\ [][Next]_vars

\* The program is sequential: once the input has ended it just runs.
FairSpec == Spec /\ WF_vars(Tick)

(***************************************************************************)
(* Safety.                                                                 *)
(***************************************************************************)
Occurrences(queue, p) == Cardinality({i \in DOMAIN queue : queue[i] = p})

Places(p) == Occurrences(readyQueue, p) + Occurrences(waitingQueue, p)
           + Occurrences(terminatedQueue, p) + (IF running = p THEN 1 ELSE 0)

\* The input does not reject a second process with an id already in use, and
\* queues are searched by id: only then may a kill hit another PCB.
HitByNamesake(p) ==
  \E r \in Processes \ {p} :
    pcbs[r].pid = pcbs[p].pid /\ (isKilled[r] \/ isKilled[p])

\* Every process is in exactly one of the three queues or on the CPU, and its
\* state says which; only one whose last enqueue found no memory is in none, in
\* whatever state it was.  The one exception are processes that share their id
\* with a killed one.
OnePlace ==
  /\ TypeOK
  /\ \A p \in Processes : HitByNamesake(p) \/
       /\ Places(p) = IF p \in lost THEN 0 ELSE 1
       /\ state[p] = "RUNNING" <=> running = p
       /\ state[p] = "KILLED" <=> isKilled[p]
       /\ p \notin lost =>
            /\ state[p] = "READY" <=> Occurrences(readyQueue, p) = 1
            /\ state[p] = "WAITING" <=> Occurrences(waitingQueue, p) = 1

\* The first count of CPU units, from the burst time on, at which no I/O starts.
CpuUnits(p) ==
  LET least == IF pcbs[p].burst = 0 THEN 1 ELSE pcbs[p].burst
  IN  IF pcbs[p].ioDuration > 0 /\ pcbs[p].ioStart = least THEN least + 1 ELSE least

\* What a completed process has really had of the CPU: its burst time, but one
\* unit more when its I/O starts at the very end of the burst (the process
\* comes back to execute nothing) and one unit when the burst is empty; the
\* report prints the burst time as "CPU" (line 890) all the same.  The
\* turnaround covers those units and the I/O, so that the waiting time of the
\* report is never too small.
CpuExact ==
  \A p \in Processes : state[p] = "COMPLETED" =>
    /\ executed[p] = CpuUnits(p)
    /\ completion[p] >= executed[p] + (IF ioSince[p] >= 0 THEN pcbs[p].ioDuration ELSE 0)

\* First come, first served: processes that do no I/O complete in input order,
\* whatever the others do; one that is in no queue for want of memory never
\* completes.
NoIo(p) == pcbs[p].ioDuration = 0 \/ pcbs[p].ioStart <= 0
FirstComeFirstServed ==
  \A p, r \in Processes :
    p < r /\ NoIo(p) /\ NoIo(r) /\ state[r] = "COMPLETED" =>
      \/ state[p] = "KILLED" \/ HitByNamesake(p)
      \/ p \in lost /\ state[p] # "COMPLETED"
      \/ state[p] = "COMPLETED" /\ completion[p] < completion[r]

AllPidsDiffer == \A p, r \in Processes : pcbs[p].pid = pcbs[r].pid => p = r

\* The CPU idles for a tick only when no process is ready.
WorkConserving ==
  AllPidsDiffer /\ phase = "cpu" /\ running = NoProcess => readyQueue = <<>>

\* The report is in ascending order of ids, and if these differ it has exactly
\* one row for each process that no enqueue has lost.
ReportComplete ==
  phase = "end" =>
    /\ \A i \in 1 .. Len(report) - 1 : report[i].pid <= report[i + 1].pid
    /\ AllPidsDiffer => /\ Len(report) = Cardinality(Processes \ lost)
                        /\ ToSet(report) = {Row(p) : p \in Processes \ lost}

\* A kill takes effect in its own tick and for good: no process executes while
\* a kill is due, and a killed one never executes again, not even one that a
\* kill of a namesake left in a queue, and the time of its end stays.
KillsHold ==
  [][/\ phase = "cpu" /\ executed' # executed =>
          \A i \in DOMAIN kills : kills[i].time < 0 \/ kills[i].time > currentTime
     /\ \A p \in Processes : isKilled[p] =>
          isKilled'[p] /\ executed'[p] = executed[p] /\ completion'[p] = completion[p]]_vars

\* A process returns from I/O exactly ioDuration ticks after it began, however
\* many processes wait with it.
IoTakesItsTime ==
  [][\A p \in Processes : state[p] = "WAITING" /\ state'[p] = "READY" =>
       currentTime = ioSince[p] + pcbs[p].ioDuration]_vars

\* With distinct ids the program implements the abstract life of processes.
AbstractState ==
  [p \in 1 .. MaxProcesses |->
     IF p \notin Processes THEN "ABSENT"
     ELSE IF running = p THEN "RUNNING"
     ELSE IF p \in ToSet(readyQueue) THEN "READY"
     ELSE IF p \in ToSet(waitingQueue) THEN "WAITING"
     ELSE state[p]]

Lifecycle == INSTANCE ProcessLifecycle WITH
  Processes <- 1 .. MaxProcesses, state <- AbstractState

ImplementsLifecycle == Lifecycle!Spec

\* The simulation ends and prints its report, whatever the input.
Terminates == phase = "loop" ~> phase = "end"
=============================================================================
