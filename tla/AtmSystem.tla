----------------------------- MODULE AtmSystem ------------------------------
(***************************************************************************)
(* The ATM clients and the ATM server together, and what the two programs  *)
(* promise together.                                                       *)
(***************************************************************************)
EXTENDS AtmServer, AtmClient, FiniteSets

vars == <<netVars, serverVars, clientVars>>

Init == NetInit /\ ServerInit /\ ClientInit

\* connect() succeeds only while the server listens.
ClientStep(s) ==
  /\ Client(s)
  /\ (cpc[s] = "off") => up
  /\ UNCHANGED serverVars

ServerStep == ServerNext /\ UNCHANGED clientVars

Next == ServerStep \/ \E s \in Sessions : ClientStep(s)

Spec == Init /\ [][Next]_vars

(***************************************************************************)
(* Fairness: the accept loop and the threads are scheduled, and a client   *)
(* whose recv can return does return.  Users and operators owe nothing.    *)
(* A mutex promises no order, so a waiting thread is given weak fairness   *)
(* only: it gets the lock once the lock stays free.                        *)
(***************************************************************************)
Fairness ==
  \A s \in Sessions :
    /\ WF_vars((Accept(s) \/ AcceptWithoutThread(s)) /\ UNCHANGED clientVars)
    /\ WF_vars(Thread(s) /\ UNCHANGED clientVars)
    /\ WF_vars((ReceiveResponse(s) \/ ReceiveNothing(s)) /\ UNCHANGED serverVars)

FairSpec == Spec /\ Fairness

TypeOK == NetTypeOK /\ ServerTypeOK /\ ClientTypeOK

(***************************************************************************)
(* Safety.                                                                 *)
(***************************************************************************)
\* balanceLock is held by exactly the thread that is between its lock and its
\* unlock call: two handlers never touch the account file at the same time,
\* and neither a dead thread nor a dead process keeps the lock.
LockInv == \A s \in Sessions : lock = s <=> pc[s] \in Critical

ServerEnds == {"open", "clientClosed", "clientReset"}

\* Every server-side socket has one owner, the backlog or one thread: no
\* connection is served twice, none is forgotten, and a thread never outlives
\* its socket, whichever side closes first and whenever the server dies.
SocketsOwned ==
  /\ \A s \in Sessions :
       /\ conn[s] \in ServerEnds <=> InBacklog(s) \/ pc[s] # "none"
       /\ InBacklog(s) => pc[s] = "none"
  /\ \A i, j \in DOMAIN backlog : backlog[i] = backlog[j] => i = j

Stored == IF account = Missing THEN 0 ELSE account

\* Unless a crash cut a write or an fopen failed, the file holds, outside of
\* a write, the initial balance plus what the SUCCESS messages announced:
\* no update of one session is lost under another's.
LedgerExact ==
  ~lost /\ (\A s \in Sessions : pc[s] \notin Window) => Stored = ledger

\* The account is never overdrawn, whatever sessions withdraw at once.
NoOverdraft == ~lost => ledger >= 0

\* A handler about to unlock has built a message that is true of the account:
\* the balance it names is the balance, and a refused withdrawal exceeds it.
AnswerIsCurrent ==
  \A s \in Sessions : ~lost /\ pc[s] = "unlock" /\ reply[s].kind # "invalid" =>
    /\ reply[s].balance = ledger
    /\ reply[s].kind = "poor" => reply[s].amount > ledger

\* The updated balance a handler is about to write is right for the account.
UpdateIsCurrent(s) ==
  /\ newBalance[s] >= 0
  /\ newBalance[s] = IF request[s].op = "deposit" THEN ledger + request[s].amount
                                                ELSE ledger - request[s].amount

\* The inductive form of LedgerExact, NoOverdraft and AnswerIsCurrent: what a
\* thread inside the lock knows about the account at each of its steps.
StoreInv ==
  ~lost =>
    /\ NoOverdraft
    /\ LedgerExact
    /\ AnswerIsCurrent
    /\ \A s \in Sessions :
         /\ pc[s] = "create" => account = Missing
         /\ pc[s] = "createWrite" => ledger = 0
         /\ pc[s] \in {"truncate", "write"} => UpdateIsCurrent(s)

InFlight(s) ==
  Len(toServer[s]) + Len(toClient[s]) + (IF pc[s] \in Serving THEN 1 ELSE 0)

\* Messages have no framing: both programs rely on one message at a time per
\* connection, so that one recv is one message.  A waiting client whose
\* connection stands has its request or its answer on the way.
OneInFlight ==
  \A s \in Sessions :
    /\ InFlight(s) <= 1
    /\ cpc[s] = "waiting" /\ conn[s] = "open" => InFlight(s) = 1

AnswersTo(m) ==
  CASE m.op = "withdraw" -> {"withdrawn", "poor", "invalid"}
    [] m.op = "deposit"  -> {"deposited", "invalid"}
    [] OTHER             -> {"balance"}

\* What a client's recv finds is one whole message, and it answers the request
\* that client is waiting for.
AnswersMatch ==
  /\ OneInFlight
  /\ \A s \in Sessions : toClient[s] # <<>> =>
       /\ cpc[s] = "waiting"
       /\ Head(toClient[s]).kind \in AnswersTo(asked[s])
       /\ Head(toClient[s]).amount = asked[s].amount

\* send has no MSG_NOSIGNAL; that is harmless because no thread ever has an
\* answer left to send on a connection its client has reset.
SendIsSafe == \A s \in Sessions : pc[s] = "send" => conn[s] # "clientReset"

(***************************************************************************)
(* Liveness.                                                               *)
(***************************************************************************)
\* receiveResponse returns: the server answers, or the connection ends.  So no
\* handler, on any of its paths, keeps balanceLock from the others.
RequestEnds == \A s \in Sessions : cpc[s] = "waiting" ~> cpc[s] # "waiting"

\* The thread of a client that left, in whatever way, ends.
ThreadEnds ==
  \A s \in Sessions : cpc[s] = "off" /\ pc[s] # "none" ~> pc[s] = "none"

(***************************************************************************)
(* A statement the program makes that it does not keep.                    *)
(***************************************************************************)
\* A message "SUCCESS: ... New Balance: x" means that the account holds x
\* (server.c:106 and 128).
SuccessMeansStored ==
  \A s \in Sessions :
    pc[s] = "unlock" /\ reply[s].kind \in {"withdrawn", "deposited"} =>
      account = reply[s].balance

(***************************************************************************)
(* Refinement: the file, the lock and the sockets implement AtmAccount.    *)
(* An update takes effect when its fclose puts the text in the file; until *)
(* then the account is what the handler read.                              *)
(***************************************************************************)
BalanceBefore(s) ==
  IF request[s].op = "deposit" THEN newBalance[s] - request[s].amount
                               ELSE newBalance[s] + request[s].amount

AbstractBalance ==
  IF \E s \in Sessions : pc[s] = "write"
  THEN BalanceBefore(CHOOSE s \in Sessions : pc[s] = "write")
  ELSE IF account = Empty THEN 0 ELSE Stored

AbstractCall ==
  [s \in Sessions |->
     IF pc[s] \in Serving THEN request[s]
     ELSE IF toServer[s] # <<>> /\ Head(toServer[s]).op # "exit"
          THEN Head(toServer[s]) ELSE NoReply]

AbstractAnswer ==
  [s \in Sessions |-> IF pc[s] \in {"unlock", "send"} THEN reply[s] ELSE NoReply]

AbstractAccount == INSTANCE AtmAccount WITH
  InitialBalance <- IF InitialAccount = Missing THEN 0 ELSE InitialAccount,
  Calls <- Menu, None <- NoReply,
  balance <- AbstractBalance, call <- AbstractCall, answer <- AbstractAnswer

\* While the server lives and its files open, every request takes effect at
\* one instant between its arrival and its answer.
ImplementsAccount == AbstractAccount!Spec
=============================================================================
