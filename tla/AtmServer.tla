----------------------------- MODULE AtmServer ------------------------------
(***************************************************************************)
(* server.c: a listening socket, one detached thread per accepted client,  *)
(* and one account kept in a text file that every request reads and        *)
(* rewrites under balanceLock.                                             *)
(*                                                                         *)
(* A step of a thread is what no other thread and no crash can observe the *)
(* middle of: taking the lock, one fopen, one fclose (where the buffered   *)
(* text reaches the file), releasing the lock, one call on the socket.     *)
(***************************************************************************)
EXTENDS AtmNet

CONSTANTS
  InitialAccount,    \* content of accountDB.txt when the server first starts
  Garbage,           \* what the uninitialised `balance` of getBalance may hold
  ServerMayDie,      \* the process may be killed (it has no other way to stop)
  ResourcesMayFail,  \* fopen and pthread_create may fail (descriptors, threads)
  Missing, Empty,    \* account file absent; file truncated, no number in it
  NoSession, NoRequest, NoReply

ASSUME GarbageAssumption == Garbage \subseteq Int
ASSUME SwitchesAssumption == /\ ServerMayDie \in BOOLEAN
                             /\ ResourcesMayFail \in BOOLEAN
ASSUME InitialAccountAssumption == InitialAccount \in Nat \cup {Missing}
ASSUME DistinctAssumption == /\ NoSession \notin Sessions
                             /\ NoRequest \notin Requests
                             /\ NoReply \notin Requests \cup Replies
                             /\ Missing \notin Int
                             /\ Empty \notin Int
                             /\ Missing # Empty

VARIABLES
  up,          \* the server process is running
  account,     \* content of the account file
  lock,        \* holder of balanceLock
  pc,          \* pc[s]: where the thread of session s is ("none": no thread)
  request,     \* request[s]: operation and amount parsed from buffer
  newBalance,  \* newBalance[s]: updatedBalance of the running handler
  reply,       \* reply[s]: message built by the running handler
  ledger,      \* history: the balance that the SUCCESS replies add up to
  lost         \* history: a write was cut by a crash or an fopen has failed

serverVars == <<up, account, lock, pc, request, newBalance, reply, ledger, lost>>

Steps == {"none", "recv", "lock", "read", "create", "createWrite", "truncate",
          "write", "unlock", "send", "close"}

\* Inside pthread_mutex_lock ... pthread_mutex_unlock.
Critical == {"read", "create", "createWrite", "truncate", "write", "unlock"}
\* Between an fopen(..., "w") and its fclose.
Window == {"createWrite", "write"}
\* The thread has an answer to give and has not given it.
Serving == Critical \cup {"lock", "send"}

ServerTypeOK ==
  /\ up \in BOOLEAN
  /\ account \in Int \cup {Missing, Empty}
  /\ lock \in Sessions \cup {NoSession}
  /\ pc \in [Sessions -> Steps]
  /\ request \in [Sessions -> Requests \cup {NoRequest}]
  /\ newBalance \in [Sessions -> Int]
  /\ reply \in [Sessions -> Replies \cup {NoReply}]
  /\ ledger \in Int
  /\ lost \in BOOLEAN
  /\ \A s \in Sessions : pc[s] \in Serving => request[s] \in Requests
  /\ \A s \in Sessions : pc[s] \in {"unlock", "send"} => reply[s] \in Replies

ServerInit ==
  /\ up = TRUE
  /\ account = InitialAccount
  /\ lock = NoSession
  /\ pc = [s \in Sessions |-> "none"]
  /\ request = [s \in Sessions |-> NoRequest]
  /\ newBalance = [s \in Sessions |-> 0]
  /\ reply = [s \in Sessions |-> NoReply]
  /\ ledger = (IF InitialAccount = Missing THEN 0 ELSE InitialAccount)
  /\ lost = FALSE

(***************************************************************************)
(* The process.                                                            *)
(***************************************************************************)
Die ==
  /\ up' = FALSE
  /\ lock' = NoSession
  /\ pc' = [s \in Sessions |-> "none"]
  /\ request' = [s \in Sessions |-> NoRequest]
  /\ newBalance' = [s \in Sessions |-> 0]
  /\ reply' = [s \in Sessions |-> NoReply]
  /\ lost' = (lost \/ \E s \in Sessions : pc[s] \in Window)
  /\ NetServerDies
  /\ UNCHANGED <<account, ledger>>

ServerKilled == ServerMayDie /\ up /\ Die

StartServer ==
  /\ ~up
  /\ up' = TRUE
  /\ UNCHANGED <<account, lock, pc, request, newBalance, reply, ledger, lost>>
  /\ UNCHANGED netVars

Accept(s) ==
  /\ up
  /\ NetAccept(s)
  /\ pc' = [pc EXCEPT ![s] = "recv"]
  /\ UNCHANGED <<conn, toServer, toClient>>
  /\ UNCHANGED <<up, account, lock, request, newBalance, reply, ledger, lost>>

\* Mutant: the socket is not closed when pthread_create fails.
AcceptForgotten(s) ==
  /\ up /\ ResourcesMayFail
  /\ NetAccept(s)
  /\ UNCHANGED <<conn, toServer, toClient>> /\ UNCHANGED serverVars

\* pthread_create failed: the accepted socket is closed at once.
AcceptWithoutThread(s) ==
  /\ up
  /\ ResourcesMayFail
  /\ NetAccept(s)
  /\ NetServerClose(s)
  /\ UNCHANGED serverVars

(***************************************************************************)
(* clientThread and handleClientRequest.                                   *)
(***************************************************************************)
\* The default branch of the switch answers operations that no client sends.
Dispatch(op) == IF op = "exit" THEN "close" ELSE "lock"

\* Mutant: the request is looked at and not taken out of the stream.
RecvPeek(s) ==
  /\ pc[s] = "recv" /\ toServer[s] # <<>>
  /\ request' = [request EXCEPT ![s] = Head(toServer[s])]
  /\ pc' = [pc EXCEPT ![s] = Dispatch(Head(toServer[s]).op)]
  /\ UNCHANGED <<up, account, lock, newBalance, reply, ledger, lost>> /\ UNCHANGED netVars

\* recv takes all there is in the stream; sscanf parses its first request.
RecvRequest(s) ==
  /\ pc[s] = "recv"
  /\ toServer[s] # <<>>
  /\ request' = [request EXCEPT ![s] = Head(toServer[s])]
  /\ toServer' = [toServer EXCEPT ![s] = <<>>]
  /\ pc' = [pc EXCEPT ![s] = Dispatch(Head(toServer[s]).op)]
  /\ UNCHANGED <<up, account, lock, newBalance, reply, ledger, lost>>
  /\ UNCHANGED <<conn, backlog, toClient>>

\* Mutant: only a 0 from recv ends the thread, an error does not.
RecvEndOnZero(s) ==
  /\ pc[s] = "recv" /\ toServer[s] = <<>> /\ conn[s] = "clientClosed"
  /\ pc' = [pc EXCEPT ![s] = "close"]
  /\ UNCHANGED <<up, account, lock, request, newBalance, reply, ledger, lost>>
  /\ UNCHANGED netVars

RecvEnd(s) ==
  /\ pc[s] = "recv"
  /\ toServer[s] = <<>>
  /\ conn[s] \in {"clientClosed", "clientReset"}
  /\ pc' = [pc EXCEPT ![s] = "close"]
  /\ UNCHANGED <<up, account, lock, request, newBalance, reply, ledger, lost>>
  /\ UNCHANGED netVars

CloseClient(s) ==
  /\ pc[s] = "close"
  /\ pc' = [pc EXCEPT ![s] = "none"]
  /\ request' = [request EXCEPT ![s] = NoRequest]
  /\ NetServerClose(s)
  /\ UNCHANGED <<up, account, lock, newBalance, reply, ledger, lost>>
  /\ UNCHANGED backlog

(***************************************************************************)
(* processWithdraw, processDeposit, processBalance.                        *)
(***************************************************************************)
Answer(s, kind, balance) ==
  [kind |-> kind, amount |-> request[s].amount, balance |-> balance]

\* Mutant: no pthread_mutex_lock.
EnterUnlocked(s) ==
  /\ pc[s] = "lock"
  /\ lock' = s
  /\ pc' = [pc EXCEPT ![s] = "read"]
  /\ UNCHANGED <<up, account, request, newBalance, reply, ledger, lost>> /\ UNCHANGED netVars

\* A deposit looks at the amount before it reads the account.
AcquireLock(s) ==
  /\ pc[s] = "lock"
  /\ lock = NoSession
  /\ lock' = s
  /\ LET refused == request[s].op = "deposit" /\ request[s].amount <= 0
     IN  /\ pc' = [pc EXCEPT ![s] = IF refused THEN "unlock" ELSE "read"]
         /\ reply' = [reply EXCEPT ![s] = IF refused THEN Answer(s, "invalid", 0) ELSE @]
  /\ UNCHANGED <<up, account, request, newBalance, ledger, lost>>
  /\ UNCHANGED netVars

\* Mutant: a return path without pthread_mutex_unlock.
SayLocked(s, kind, balance) ==
  /\ reply' = [reply EXCEPT ![s] = Answer(s, kind, balance)]
  /\ pc' = [pc EXCEPT ![s] = "send"]
  /\ UNCHANGED newBalance

Say(s, kind, balance) ==
  /\ reply' = [reply EXCEPT ![s] = Answer(s, kind, balance)]
  /\ pc' = [pc EXCEPT ![s] = "unlock"]
  /\ UNCHANGED newBalance

\* Mutant: the handler neither writes the balance nor builds its answer.
UpdateSkipped(s, balance) ==
  /\ newBalance' = [newBalance EXCEPT ![s] = balance]
  /\ pc' = [pc EXCEPT ![s] = "unlock"]
  /\ UNCHANGED reply

Update(s, balance) ==
  /\ newBalance' = [newBalance EXCEPT ![s] = balance]
  /\ pc' = [pc EXCEPT ![s] = "truncate"]
  /\ UNCHANGED reply

\* Mutant: a withdrawal does not look at the balance.
DecideBlindly(s, current) ==
  IF request[s].op = "balance" THEN Say(s, "balance", current)
  ELSE Update(s, IF request[s].op = "deposit" THEN current + request[s].amount
                                              ELSE current - request[s].amount)

\* Mutant: amount >= balance refuses a withdrawal.
DecideOffByOne(s, current) ==
  IF request[s].op = "withdraw" /\ request[s].amount >= current
  THEN Say(s, "poor", current) ELSE DecideBlindly(s, current)

\* What the handler does with the balance getBalance returned: it answers,
\* or has an updated balance to write.
Decide(s, current) ==
  \/ /\ request[s].op = "withdraw"
     /\ request[s].amount <= 0
     /\ Say(s, "invalid", 0)
  \/ /\ request[s].op = "withdraw"
     /\ request[s].amount > 0
     /\ request[s].amount > current
     /\ Say(s, "poor", current)
  \/ /\ request[s].op = "withdraw"
     /\ request[s].amount > 0
     /\ request[s].amount <= current
     /\ Update(s, current - request[s].amount)
  \/ /\ request[s].op = "deposit"
     /\ Update(s, current + request[s].amount)
  \/ /\ request[s].op = "balance"
     /\ Say(s, "balance", current)

\* fscanf converts nothing in an empty file and leaves balance uninitialised.
ReadValues == IF account = Empty THEN Garbage ELSE {account}

ReadBalance(s) ==
  /\ pc[s] = "read"
  /\ account # Missing
  /\ \E current \in ReadValues : Decide(s, current)
  /\ UNCHANGED <<up, account, lock, request, ledger, lost>>
  /\ UNCHANGED netVars

ReadOpenFails(s) ==
  /\ pc[s] = "read"
  /\ account = Missing \/ ResourcesMayFail
  /\ pc' = [pc EXCEPT ![s] = "create"]
  /\ lost' = (lost \/ account # Missing)
  /\ UNCHANGED <<up, account, lock, request, newBalance, reply, ledger>>
  /\ UNCHANGED netVars

CreateAccount(s) ==
  /\ pc[s] = "create"
  /\ account' = Empty
  /\ pc' = [pc EXCEPT ![s] = "createWrite"]
  /\ UNCHANGED <<up, lock, request, newBalance, reply, ledger, lost>>
  /\ UNCHANGED netVars

CreateOpenFails(s) ==
  /\ pc[s] = "create"
  /\ ResourcesMayFail
  /\ Decide(s, 0)
  /\ UNCHANGED <<up, account, lock, request, ledger, lost>>
  /\ UNCHANGED netVars

WriteCreated(s) ==
  /\ pc[s] = "createWrite"
  /\ account' = 0
  /\ Decide(s, 0)
  /\ UNCHANGED <<up, lock, request, ledger, lost>>
  /\ UNCHANGED netVars

Truncate(s) ==
  /\ pc[s] = "truncate"
  /\ account' = Empty
  /\ pc' = [pc EXCEPT ![s] = "write"]
  /\ UNCHANGED <<up, lock, request, newBalance, reply, ledger, lost>>
  /\ UNCHANGED netVars

\* updateBalance returns nothing: the handler announces success either way.
Succeed(s) ==
  LET deposit == request[s].op = "deposit"
  IN  /\ pc' = [pc EXCEPT ![s] = "unlock"]
      /\ reply' = [reply EXCEPT ![s] =
                     Answer(s, IF deposit THEN "deposited" ELSE "withdrawn", newBalance[s])]
      /\ ledger' = IF deposit THEN ledger + request[s].amount
                              ELSE ledger - request[s].amount

WriteBalance(s) ==
  /\ pc[s] = "write"
  /\ account' = newBalance[s]
  /\ Succeed(s)
  /\ UNCHANGED <<up, lock, request, newBalance, lost>>
  /\ UNCHANGED netVars

UpdateOpenFails(s) ==
  /\ pc[s] = "truncate"
  /\ ResourcesMayFail
  /\ Succeed(s)
  /\ lost' = TRUE
  /\ UNCHANGED <<up, account, lock, request, newBalance>>
  /\ UNCHANGED netVars

ReleaseLock(s) ==
  /\ pc[s] = "unlock"
  /\ lock' = NoSession
  /\ pc' = [pc EXCEPT ![s] = "send"]
  /\ UNCHANGED <<up, account, request, newBalance, reply, ledger, lost>>
  /\ UNCHANGED netVars

\* send without MSG_NOSIGNAL: on a reset connection SIGPIPE ends the server.
SendReply(s) ==
  /\ pc[s] = "send"
  /\ IF conn[s] = "clientReset"
     THEN Die
     ELSE /\ NetServerSend(s, reply[s])
          /\ pc' = [pc EXCEPT ![s] = "recv"]
          /\ request' = [request EXCEPT ![s] = NoRequest]
          /\ reply' = [reply EXCEPT ![s] = NoReply]
          /\ newBalance' = [newBalance EXCEPT ![s] = 0]
          /\ UNCHANGED <<up, account, lock, ledger, lost>>

\* The steps of the thread of session s.
Thread(s) ==
  \/ RecvRequest(s) \/ RecvEnd(s) \/ CloseClient(s)
  \/ AcquireLock(s) \/ ReadBalance(s) \/ ReadOpenFails(s)
  \/ CreateAccount(s) \/ CreateOpenFails(s) \/ WriteCreated(s)
  \/ Truncate(s) \/ WriteBalance(s) \/ UpdateOpenFails(s)
  \/ ReleaseLock(s) \/ SendReply(s)

ServerNext ==
  \/ ServerKilled
  \/ StartServer
  \/ \E s \in Sessions : Accept(s) \/ AcceptWithoutThread(s) \/ Thread(s)
=============================================================================
