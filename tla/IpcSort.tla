------------------------------- MODULE IpcSort -------------------------------
(***************************************************************************)
(* The four programs of "IPC Assignment" that hand an array to a child     *)
(* process, let it sort, and show the result: through a file, two pipes, a *)
(* shared memory segment or a message queue.  `mech` says which program    *)
(* runs.  The kernel's pipes, queues and segments are as the code uses     *)
(* them: two writes on a pipe are two messages, a read finds a message or  *)
(* the end of the pipe, a queue holds one message of a type.               *)
(***************************************************************************)
EXTENDS Integers, Sequences, FiniteSets

CONSTANTS
  Values,
  MaxSize,
  ChildMayDie,   \* whether the child may be killed
  CallsMayFail,  \* whether fopen, pipe, fork, msgget, ... may fail
  Missing,       \* there is no data.txt
  Nothing        \* no array

ASSUME ValuesAssumption == Values \subseteq Int
ASSUME SizeAssumption == MaxSize \in Nat \ {0}
ASSUME SwitchAssumption == ChildMayDie \in BOOLEAN /\ CallsMayFail \in BOOLEAN

Arrays == UNION {[1 .. n -> Values] : n \in 1 .. MaxSize}
Empty  == <<>>   \* data.txt after fopen("w"), before fclose

ASSUME MissingAssumption == Missing \notin Arrays

VARIABLES
  mech,     \* "file", "pipe", "shm" or "mq"
  ppc,      \* where the parent is
  cpc,      \* where the child is
  pdata,    \* the parent's array
  cdata,    \* the child's copy of it, from the fork on
  loop,     \* turn, index and temp of the child's sortArray
  file,     \* data.txt
  down, up, \* the pipes to and from the child: messages not yet read
  segment,  \* the array in shared memory
  queue,    \* the messages in the queue
  object,   \* whether the segment or the queue exists
  shown,    \* what the parent printed as "Array after sorting"
  input,    \* history: the array the user entered
  failed    \* history: the calls that failed

media == <<file, down, up, segment, queue>>
child == <<cpc, cdata, loop>>
vars  == <<mech, ppc, pdata, child, media, object, shown, input, failed>>

First == [turn |-> 1, index |-> 2, temp |-> 0]
Ended == {"ended", "killed"}

Init ==
  /\ mech \in {"file", "pipe", "shm", "mq"}
  /\ ppc = IF mech \in {"shm", "mq"} THEN "create" ELSE "input"
  /\ cpc = "none"
  /\ pdata = Nothing /\ cdata = Nothing /\ segment = Nothing
  /\ loop = First
  /\ file \in IF mech = "file" THEN {Missing, Empty} \cup Arrays ELSE {Missing}
  /\ down = <<>> /\ up = <<>>
  /\ queue = {}
  /\ object = FALSE
  /\ shown = Nothing /\ input = Nothing
  /\ failed = {}

(***************************************************************************)
(* Both processes.                                                         *)
(***************************************************************************)
ParentAt(m, l) == ppc = l /\ mech \in m
ChildAt(m, l)  == cpc = l /\ mech \in m

ParentFails(call, next) ==
  /\ CallsMayFail
  /\ failed' = failed \cup {call}
  /\ ppc' = next
  /\ UNCHANGED <<mech, pdata, child, media, object, shown, input>>

ChildFails(call, next) ==
  /\ CallsMayFail
  /\ failed' = failed \cup {call}
  /\ cpc' = next
  /\ UNCHANGED <<mech, ppc, pdata, cdata, loop, media, object, shown, input>>

\* A read of a torn file converts nothing: the array stays what it was.
FromFile(array) == IF file \in {Missing, Empty} THEN array ELSE file

(***************************************************************************)
(* The parent.                                                             *)
(***************************************************************************)
\* createSharedMemory, createMessageQueue, pipe: an id 0 is taken for FAIL.
create ==
  \/ /\ ParentAt({"pipe"}, "create")
     /\ ppc' = "fork"
     /\ UNCHANGED <<mech, pdata, child, media, object, shown, input, failed>>
  \/ /\ ParentAt({"shm", "mq"}, "create")
     /\ object' = TRUE
     /\ \/ ppc' = "input" /\ UNCHANGED failed
        \/ CallsMayFail /\ ppc' = "ended"
             /\ failed' = {IF mech = "shm" THEN "shmat" ELSE "id 0"}
     /\ UNCHANGED <<mech, pdata, child, media, shown, input>>

createFails ==
  /\ ppc = "create"
  /\ ParentFails("create", "ended")

AfterInput == IF mech = "file" THEN "fopen"
              ELSE IF mech = "pipe" THEN "create"
              ELSE IF mech = "shm" THEN "fork"
              ELSE "send"

readArray(a) ==
  /\ ppc = "input"
  /\ ppc' = AfterInput
  /\ input' = a
  /\ pdata' = a
  /\ segment' = IF mech = "shm" THEN a ELSE segment
  /\ UNCHANGED <<mech, child, file, down, up, queue, object, shown, failed>>

\* Mutant: the error return cleans nothing.
readInvalidReturns ==
  /\ ppc = "input"
  /\ ppc' = "ended"
  /\ UNCHANGED <<mech, pdata, child, media, object, shown, input, failed>>

\* Not a number, or a size out of range: INVALID_INPUT.
readInvalid ==
  /\ ppc = "input"
  /\ ppc' = IF mech \in {"shm", "mq"} THEN "clean" ELSE "ended"
  /\ UNCHANGED <<mech, pdata, child, media, object, shown, input, failed>>

\* writeToFile: fopen cuts the file, fclose brings the text.
parentWriteToFile ==
  \/ /\ ParentAt({"file"}, "fopen")
     /\ ppc' = "fclose"
     /\ file' = Empty
     /\ UNCHANGED <<mech, pdata, child, down, up, segment, queue, object, shown, input, failed>>
  \/ /\ ParentAt({"file"}, "fclose")
     /\ ppc' = "fork"
     /\ file' = pdata
     /\ UNCHANGED <<mech, pdata, child, down, up, segment, queue, object, shown, input, failed>>

\* "Failed to open file.", and then "Data is written to file".
parentWriteFails ==
  /\ ParentAt({"file"}, "fopen")
  /\ ParentFails("parent write", "fork")

parentSendMessage ==
  /\ ParentAt({"mq"}, "send")
  /\ ppc' = "fork"
  /\ queue' = queue \cup {[type |-> "SEND_TYPE", array |-> pdata]}
  /\ UNCHANGED <<mech, pdata, child, file, down, up, segment, object, shown, input, failed>>

\* The return does not call cleanMessageQueue.
parentSendFails ==
  /\ ParentAt({"mq"}, "send")
  /\ ParentFails("parent send", "ended")

fork ==
  /\ ppc = "fork"
  /\ ppc' = IF mech = "pipe" THEN "writeSize" ELSE "wait"
  /\ cdata' = IF mech = "pipe" THEN Nothing ELSE pdata
  /\ \/ mech = "file" /\ cpc' = "load"
     \/ mech = "pipe" /\ cpc' = "readSize"
     \/ mech = "shm"  /\ cpc' = "sort"
     \/ mech = "mq"   /\ cpc' = "receive"
  /\ UNCHANGED <<mech, pdata, loop, media, object, shown, input, failed>>

forkFails ==
  /\ ppc = "fork"
  /\ ParentFails("fork", IF mech \in {"shm", "mq"} THEN "clean" ELSE "ended")

\* handleParentProcess.  The parent has closed its own read end: without the
\* child nobody reads, and SIGPIPE ends the parent.
parentWrites ==
  /\ \/ ParentAt({"pipe"}, "writeSize")  /\ ppc' = IF cpc = "killed" THEN "killed" ELSE "writeArray"
     \/ ParentAt({"pipe"}, "writeArray") /\ ppc' = IF cpc = "killed" THEN "killed" ELSE "readSize"
  /\ down' = IF cpc = "killed" THEN down
             ELSE Append(down, IF ppc = "writeSize" THEN Len(pdata) ELSE pdata)
  /\ UNCHANGED <<mech, pdata, child, file, up, segment, queue, object, shown, input, failed>>

\* read blocks until there is data or the child, which holds the other end, is
\* gone; at the end of the pipe it changes nothing.
parentReads ==
  /\ ParentAt({"pipe"}, "readSize") \/ ParentAt({"pipe"}, "readArray")
  /\ up # <<>> \/ cpc \in Ended
  /\ ppc' = IF ppc = "readSize" THEN "readArray" ELSE "wait"
  /\ pdata' = IF up # <<>> /\ ppc = "readArray" THEN Head(up) ELSE pdata
  /\ up' = IF up # <<>> THEN Tail(up) ELSE up
  /\ UNCHANGED <<mech, child, file, down, segment, queue, object, shown, input, failed>>

\* Mutant: the parent does not wait.
waitNot ==
  /\ ppc = "wait"
  /\ ppc' = IF mech \in {"file", "mq"} THEN "collect" ELSE "show"
  /\ UNCHANGED <<mech, pdata, child, media, object, shown, input, failed>>

wait ==
  /\ ppc = "wait"
  /\ cpc \in Ended
  /\ ppc' = IF mech \in {"file", "mq"} THEN "collect" ELSE "show"
  /\ UNCHANGED <<mech, pdata, child, media, object, shown, input, failed>>

parentReadFromFile ==
  /\ ParentAt({"file"}, "collect")
  /\ ppc' = "show"
  /\ pdata' = FromFile(pdata)
  /\ UNCHANGED <<mech, child, media, object, shown, input, failed>>

parentReadFails ==
  /\ ParentAt({"file"}, "collect")
  /\ ParentFails("parent read", "show")

Answers == {m \in queue : m.type = "RECEIVE_TYPE"}

parentReceiveMessage ==
  /\ ParentAt({"mq"}, "collect")
  /\ \E m \in Answers : pdata' = m.array /\ queue' = queue \ {m}
  /\ ppc' = "show"
  /\ UNCHANGED <<mech, child, file, down, up, segment, object, shown, input, failed>>

parentReceiveFails ==
  /\ ParentAt({"mq"}, "collect")
  /\ ParentFails("parent receive", "ended")

\* The second displayArray.
show ==
  /\ ppc = "show"
  /\ shown' = IF mech = "shm" THEN segment ELSE pdata
  /\ ppc' = IF mech \in {"shm", "mq"} THEN "clean" ELSE "ended"
  /\ UNCHANGED <<mech, pdata, child, media, object, input, failed>>

\* cleanSharedMemory, cleanMessageQueue.
clean ==
  /\ ppc = "clean"
  /\ ppc' = "ended"
  /\ object' = FALSE
  /\ UNCHANGED <<mech, pdata, child, media, shown, input, failed>>

(***************************************************************************)
(* The child.                                                              *)
(***************************************************************************)
childReadFromFile ==
  /\ ChildAt({"file"}, "load")
  /\ cpc' = "sort"
  /\ cdata' = FromFile(cdata)
  /\ UNCHANGED <<mech, ppc, pdata, loop, media, object, shown, input, failed>>

childReadFails ==
  /\ ChildAt({"file"}, "load")
  /\ ChildFails("child read", "sort")

childReads ==
  /\ down # <<>>
  /\ \/ ChildAt({"pipe"}, "readSize")  /\ cpc' = "readArray" /\ UNCHANGED cdata
     \/ ChildAt({"pipe"}, "readArray") /\ cpc' = "sort" /\ cdata' = Head(down)
  /\ down' = Tail(down)
  /\ UNCHANGED <<mech, ppc, pdata, loop, file, up, segment, queue, object, shown, input, failed>>

childReceiveMessage ==
  /\ ChildAt({"mq"}, "receive")
  /\ \E m \in queue : m.type = "SEND_TYPE" /\ cdata' = m.array /\ queue' = queue \ {m}
  /\ cpc' = "sort"
  /\ UNCHANGED <<mech, ppc, pdata, loop, file, down, up, segment, object, shown, input, failed>>

\* The child returns through main.
childReceiveFails ==
  /\ ChildAt({"mq"}, "receive")
  /\ ChildFails("child receive", "ended")

\* The array the child sorts: its own, or the shared one.
Array == IF mech = "shm" THEN segment ELSE cdata

Becomes(array) ==
  IF mech = "shm" THEN segment' = array /\ UNCHANGED cdata
  ELSE cdata' = array /\ UNCHANGED segment

NextPair ==
  IF loop.index < Len(Array) THEN [loop EXCEPT !.index = @ + 1]
  ELSE [loop EXCEPT !.turn = @ + 1, !.index = loop.turn + 2]

\* sortArray: a comparison and the first store of a swap, then the second
\* store, which a kill may keep from happening.
sortArray ==
  /\ cpc = "sort"
  /\ loop.turn < Len(Array)
  /\ IF Array[loop.turn] > Array[loop.index]
     THEN /\ Becomes([Array EXCEPT ![loop.turn] = Array[loop.index]])
          /\ loop' = [loop EXCEPT !.temp = Array[loop.turn]]
          /\ cpc' = "swap"
     ELSE /\ loop' = NextPair
          /\ UNCHANGED <<cpc, cdata, segment>>
  /\ UNCHANGED <<mech, ppc, pdata, file, down, up, queue, object, shown, input, failed>>

secondStore ==
  /\ cpc = "swap"
  /\ Becomes([Array EXCEPT ![loop.index] = loop.temp])
  /\ loop' = [NextPair EXCEPT !.temp = 0]
  /\ cpc' = "sort"
  /\ UNCHANGED <<mech, ppc, pdata, file, down, up, queue, object, shown, input, failed>>

sorted ==
  /\ cpc = "sort"
  /\ loop.turn >= Len(Array)
  /\ \/ mech = "file" /\ cpc' = "fopen"
     \/ mech = "pipe" /\ cpc' = "writeSize"
     \/ mech = "shm"  /\ cpc' = "ended"
     \/ mech = "mq"   /\ cpc' = "send"
  /\ UNCHANGED <<mech, ppc, pdata, cdata, loop, media, object, shown, input, failed>>

childWriteToFile ==
  /\ \/ ChildAt({"file"}, "fopen")  /\ cpc' = "fclose" /\ file' = Empty
     \/ ChildAt({"file"}, "fclose") /\ cpc' = "ended"  /\ file' = cdata
  /\ UNCHANGED <<mech, ppc, pdata, cdata, loop, down, up, segment, queue, object, shown, input, failed>>

childWriteFails ==
  /\ ChildAt({"file"}, "fopen")
  /\ ChildFails("child write", "ended")

childWrites ==
  /\ \/ ChildAt({"pipe"}, "writeSize")  /\ cpc' = "writeArray" /\ up' = Append(up, Len(cdata))
     \/ ChildAt({"pipe"}, "writeArray") /\ cpc' = "ended"      /\ up' = Append(up, cdata)
  /\ UNCHANGED <<mech, ppc, pdata, cdata, loop, file, down, segment, queue, object, shown, input, failed>>

\* Mutant: the child forgets to set the type of its answer.
childSendUnmarked ==
  /\ ChildAt({"mq"}, "send")
  /\ cpc' = "ended"
  /\ queue' = queue \cup {[type |-> "SEND_TYPE", array |-> cdata]}
  /\ UNCHANGED <<mech, ppc, pdata, cdata, loop, file, down, up, segment, object, shown, input, failed>>

childSendMessage ==
  /\ ChildAt({"mq"}, "send")
  /\ cpc' = "ended"
  /\ queue' = queue \cup {[type |-> "RECEIVE_TYPE", array |-> cdata]}
  /\ UNCHANGED <<mech, ppc, pdata, cdata, loop, file, down, up, segment, object, shown, input, failed>>

childSendFails ==
  /\ ChildAt({"mq"}, "send")
  /\ ChildFails("child send", "ended")

ChildKilled ==
  /\ ChildMayDie
  /\ cpc \notin {"none"} \cup Ended
  /\ cpc' = "killed"
  /\ UNCHANGED <<mech, ppc, pdata, cdata, loop, media, object, shown, input, failed>>

(***************************************************************************)
(* The system.                                                             *)
(***************************************************************************)
Parent ==
  \/ create
  \/ \E a \in Arrays : readArray(a)
  \/ readInvalid
  \/ parentWriteToFile \/ parentSendMessage
  \/ fork
  \/ parentWrites \/ parentReads
  \/ wait
  \/ parentReadFromFile \/ parentReceiveMessage
  \/ show \/ clean

ParentFault ==
  \/ createFails \/ forkFails
  \/ parentWriteFails \/ parentReadFails
  \/ parentSendFails \/ parentReceiveFails

Child ==
  \/ childReadFromFile \/ childReads \/ childReceiveMessage
  \/ sortArray \/ secondStore \/ sorted
  \/ childWriteToFile \/ childWrites \/ childSendMessage

ChildFault ==
  \/ childReadFails \/ childWriteFails
  \/ childReceiveFails \/ childSendFails
  \/ ChildKilled

Next == Parent \/ ParentFault \/ Child \/ ChildFault

Spec == Init /\ [][Next]_vars

\* The scheduler runs both processes, the user enters the array, and nothing has
\* to fail: a blocked call does not return by itself.
FairSpec == Spec /\ WF_vars(Parent) /\ WF_vars(Child)

(***************************************************************************)
(* Properties.                                                             *)
(***************************************************************************)
InOrder(a) == \A i, j \in DOMAIN a : i < j => a[i] <= a[j]

Occurrences(a, v) == Cardinality({i \in DOMAIN a : a[i] = v})

SameElements(a, b) ==
  Len(a) = Len(b) /\ \A v \in Values : Occurrences(a, v) = Occurrences(b, v)

\* What a kill between the two stores of a swap leaves: one element overwritten
\* by a smaller one behind it.
Torn(a, b) ==
  \E i, j \in DOMAIN a : i < j /\ SameElements([a EXCEPT ![i] = loop.temp], b)
                           /\ a[i] = a[j] /\ a[i] < loop.temp

\* "Array after sorting" is the user's array, sorted, if the child was not killed
\* and no call failed.  Otherwise it may be unsorted, and never other numbers
\* than the user's but in two cases: in shared memory, a child killed inside a
\* swap; in the file, a failed fopen of the parent, after which the child sorts
\* what an earlier run left in data.txt.
ShownRight ==
  shown # Nothing =>
    /\ cpc = "ended" /\ failed = {} => InOrder(shown)
    /\ \/ SameElements(shown, input)
       \/ mech = "shm" /\ cpc = "killed" /\ Torn(shown, input)
       \/ mech = "file" /\ "parent write" \in failed

\* When both processes have ended, the segment or the queue is gone, unless one
\* of the returns without a clean up was taken; SIGPIPE needs a killed child.
NothingLeft ==
  /\ ppc = "ended" /\ object =>
       failed \cap {"shmat", "id 0", "parent send", "parent receive"} # {}
  /\ ppc = "killed" => mech = "pipe" /\ cpc = "killed"

\* The parent's one endless wait: the child ended without an answer.
Stuck ==
  mech = "mq" /\ ppc = "collect" /\ cpc \in Ended /\ Answers = {}

\* The parent ends, unless it waits for the answer of a child that was killed
\* or whose own message call failed.
ParentEnds ==
  <>(ppc \in Ended \/ (Stuck /\ (cpc = "killed" \/ failed \cap {"child receive", "child send"} # {})))
=============================================================================
