-------------------------- MODULE AtmSystem_proofs --------------------------
(***************************************************************************)
(* Theorems about AtmSystem, for every set of sessions and amounts, with   *)
(* crashes and failing calls: the store of the balance and its lock, the   *)
(* messages between the clients and the server, and that the system is the *)
(* linearizable account of AtmAccount.                                     *)
(***************************************************************************)
EXTENDS AtmSystem, TLAPS, SequenceTheorems

(***************************************************************************)
(* Type correctness, module by module.                                     *)
(***************************************************************************)

\* The client's calls keep the streams and the backlog well typed.
LEMMA ClientCallsTyping ==
  ASSUME NetTypeOK, NEW s \in Sessions
  PROVE  /\ NetConnect(s) => NetTypeOK'
         /\ \A m \in Requests : NetClientSend(s, m) => NetTypeOK'
         /\ \A m \in Seq(Requests) : NetClientClose(s, m) => NetTypeOK'
<1> USE DEF NetTypeOK, ConnStates
<1>1. ASSUME NetConnect(s) PROVE NetTypeOK'
  <2>1. backlog' \in Seq(Sessions)
    BY <1>1, AppendProperties DEF NetConnect
  <2>2. QED  BY <1>1, <2>1 DEF NetConnect
<1>2. ASSUME NEW m \in Requests, NetClientSend(s, m) PROVE NetTypeOK'
  <2>1. Append(toServer[s], m) \in Seq(Requests)
    BY AppendProperties
  <2>2. QED  BY <1>2, <2>1 DEF NetClientSend
<1>3. ASSUME NEW m \in Seq(Requests), NetClientClose(s, m) PROVE NetTypeOK'
  <2>1. toServer[s] \o m \in Seq(Requests) /\ <<>> \in Seq(Requests) /\ <<>> \in Seq(Replies)
    BY ConcatProperties, EmptySeq
  <2>2. AfterClientClose(s) \in ConnStates
    BY DEF AfterClientClose
  <2>3. QED  BY <1>3, <2>1, <2>2 DEF NetClientClose
<1>4. QED  BY <1>1, <1>2, <1>3

\* So do the server's calls.
LEMMA ServerCallsTyping ==
  ASSUME NetTypeOK, NEW s \in Sessions
  PROVE  /\ NetAccept(s) => backlog' \in Seq(Sessions)
         /\ NetServerClose(s) /\ backlog' \in Seq(Sessions) => NetTypeOK'
         /\ \A m \in Replies : NetServerSend(s, m) => NetTypeOK'
<1> USE DEF NetTypeOK, ConnStates
<1>0. <<>> \in Seq(Requests) /\ <<>> \in Seq(Sessions)
  BY EmptySeq
<1>a. \A t \in Sessions, b \in BOOLEAN : AfterServerClose(t, b) \in ConnStates
  BY DEF AfterServerClose
<1>1. ASSUME NetAccept(s) PROVE backlog' \in Seq(Sessions)
  BY <1>1, HeadTailProperties DEF NetAccept
<1>2. ASSUME NetServerClose(s), backlog' \in Seq(Sessions) PROVE NetTypeOK'
  BY <1>0, <1>a, <1>2 DEF NetServerClose
<1>3. ASSUME NEW m \in Replies, NetServerSend(s, m) PROVE NetTypeOK'
  <2>1. Append(toClient[s], m) \in Seq(Replies)
    BY AppendProperties
  <2>2. QED  BY <1>3, <2>1 DEF NetServerSend
<1>4. QED  BY <1>1, <1>2, <1>3

\* So does the end of the server process.
LEMMA ServerDiesTyping ==
  ASSUME NetTypeOK, NetServerDies
  PROVE  NetTypeOK'
<1> USE DEF NetTypeOK, ConnStates
<1>1. <<>> \in Seq(Requests) /\ <<>> \in Seq(Sessions)
  BY EmptySeq
<1>2. \A s \in Sessions, b \in BOOLEAN : AfterServerClose(s, b) \in ConnStates
  BY DEF AfterServerClose
<1>3. QED  BY <1>1, <1>2 DEF NetServerDies, InBacklog

\* A thread that serves a request has parsed one.
LEMMA RequestFacts ==
  ASSUME TypeOK, NEW s \in Sessions, pc[s] \in Serving
  PROVE  /\ request[s] \in Requests
         /\ request[s].op \in Operations
         /\ request[s].amount \in Amounts \cup {0}
         /\ request[s].amount \in Nat
<1>1. request[s] \in Requests
  BY DEF TypeOK, ServerTypeOK
<1>2. request[s].op \in Operations /\ request[s].amount \in Amounts \cup {0}
  BY <1>1 DEF Requests
<1>3. Amounts \cup {0} \subseteq Nat
  BY AmountsAssumption
<1>4. QED  BY <1>1, <1>2, <1>3

\* Deciding on an answer or an update keeps the handler's variables well typed.
LEMMA DecideTyping ==
  ASSUME TypeOK, NEW s \in Sessions, pc[s] \in Serving, NEW current \in Int,
         Decide(s, current), UNCHANGED request
  PROVE  /\ pc' \in [Sessions -> Steps]
         /\ newBalance' \in [Sessions -> Int]
         /\ reply' \in [Sessions -> Replies \cup {NoReply}]
         /\ \A t \in Sessions : pc'[t] \in {"unlock", "send"} => reply'[t] \in Replies
         /\ \A t \in Sessions : pc'[t] \in Serving => request'[t] \in Requests
<1>1. /\ request[s] \in Requests
      /\ request[s].amount \in Amounts \cup {0}
      /\ request[s].amount \in Int
  BY RequestFacts
<1>2. ASSUME NEW k \in ReplyKinds, NEW b \in Int
      PROVE  Answer(s, k, b) \in Replies
  BY <1>1 DEF Answer, Replies
<1>3. ASSUME NEW k \in ReplyKinds, NEW b \in Int, Say(s, k, b)
      PROVE  /\ pc' \in [Sessions -> Steps]
             /\ newBalance' \in [Sessions -> Int]
             /\ reply' \in [Sessions -> Replies \cup {NoReply}]
             /\ \A t \in Sessions : pc'[t] \in {"unlock", "send"} => reply'[t] \in Replies
             /\ \A t \in Sessions : pc'[t] \in Serving => request'[t] \in Requests
  BY <1>1, <1>2, <1>3 DEF Say, TypeOK, ServerTypeOK, Steps, Serving, Critical
<1>4. ASSUME NEW b \in Int, Update(s, b)
      PROVE  /\ pc' \in [Sessions -> Steps]
             /\ newBalance' \in [Sessions -> Int]
             /\ reply' \in [Sessions -> Replies \cup {NoReply}]
             /\ \A t \in Sessions : pc'[t] \in {"unlock", "send"} => reply'[t] \in Replies
             /\ \A t \in Sessions : pc'[t] \in Serving => request'[t] \in Requests
  BY <1>1, <1>4 DEF Update, TypeOK, ServerTypeOK, Steps, Serving, Critical
<1>5. {"invalid", "poor", "balance"} \subseteq ReplyKinds
  BY DEF ReplyKinds
<1>6. \/ Say(s, "invalid", 0)
      \/ Say(s, "poor", current)
      \/ Say(s, "balance", current)
      \/ Update(s, current - request[s].amount)
      \/ Update(s, current + request[s].amount)
  BY DEF Decide
<1>7. current - request[s].amount \in Int /\ current + request[s].amount \in Int
  BY <1>1
<1>8. QED  BY <1>3, <1>4, <1>5, <1>6, <1>7

\* Every step of the server keeps the types.
LEMMA ServerStepTyping == TypeOK /\ ServerStep => TypeOK'
<1> SUFFICES ASSUME TypeOK, ServerNext, UNCHANGED clientVars
             PROVE  TypeOK'
  BY DEF ServerStep
<1> USE DEF TypeOK, ServerTypeOK
<1>c. ClientTypeOK'
  BY DEF ClientTypeOK, clientVars
<1>n. UNCHANGED netVars => NetTypeOK'
  BY DEF NetTypeOK, netVars
<1>d. Die => TypeOK'
  <2> SUFFICES ASSUME Die PROVE TypeOK'
    OBVIOUS
  <2>1. NetTypeOK'
    BY ServerDiesTyping DEF Die
  <2>2. lost' \in BOOLEAN
    BY DEF Die
  <2>3. pc' \in [Sessions -> Steps] /\ \A s \in Sessions : pc'[s] = "none"
    BY DEF Die, Steps
  <2>4. /\ request' \in [Sessions -> Requests \cup {NoRequest}]
        /\ newBalance' \in [Sessions -> Int]
        /\ reply' \in [Sessions -> Replies \cup {NoReply}]
    BY DEF Die
  <2>5. "none" \notin Serving /\ "none" \notin {"unlock", "send"}
    BY DEF Serving, Critical
  <2>6. /\ \A s \in Sessions : pc'[s] \in Serving => request'[s] \in Requests
        /\ \A s \in Sessions : pc'[s] \in {"unlock", "send"} => reply'[s] \in Replies
    BY <2>3, <2>5
  <2>7. /\ up' \in BOOLEAN
        /\ account' \in Int \cup {Missing, Empty}
        /\ lock' \in Sessions \cup {NoSession}
        /\ ledger' \in Int
    BY DEF Die
  <2>8. QED  BY <1>c, <2>1, <2>2, <2>3, <2>4, <2>6, <2>7
<1>1. CASE ServerKilled
  BY <1>1, <1>d DEF ServerKilled
<1>2. CASE StartServer
  BY <1>2, <1>c, <1>n DEF StartServer
<1>3. ASSUME NEW s \in Sessions, Accept(s) PROVE TypeOK'
  <2>1. NetTypeOK'
    BY <1>3, ServerCallsTyping DEF Accept, NetTypeOK
  <2>2. QED  BY <1>3, <1>c, <2>1 DEF Accept, Steps, Serving, Critical
<1>4. ASSUME NEW s \in Sessions, AcceptWithoutThread(s) PROVE TypeOK'
  <2>1. NetTypeOK'
    BY <1>4, ServerCallsTyping DEF AcceptWithoutThread
  <2>2. QED  BY <1>4, <1>c, <2>1 DEF AcceptWithoutThread, serverVars
<1>5. ASSUME NEW s \in Sessions, Thread(s) PROVE TypeOK'
  <2>1. CASE RecvRequest(s)
    <3>1. Head(toServer[s]) \in Requests /\ <<>> \in Seq(Requests)
      BY <2>1, HeadTailProperties, EmptySeq DEF RecvRequest, NetTypeOK
    <3>2. NetTypeOK'
      BY <2>1, <3>1 DEF RecvRequest, NetTypeOK
    <3>3. QED
      BY <2>1, <1>c, <3>1, <3>2 DEF RecvRequest, Dispatch, Steps, Serving, Critical
  <2>2. CASE RecvEnd(s)
    BY <2>2, <1>c, <1>n DEF RecvEnd, Steps, Serving, Critical
  <2>3. CASE CloseClient(s)
    <3>1. NetTypeOK'
      BY <2>3, ServerCallsTyping DEF CloseClient, NetTypeOK
    <3>2. QED  BY <2>3, <1>c, <3>1 DEF CloseClient, Steps, Serving, Critical
  <2>4. CASE AcquireLock(s)
    <3>1. Answer(s, "invalid", 0) \in Replies
      BY <2>4 DEF AcquireLock, Answer, Replies, ReplyKinds, Requests, Serving, Critical
    <3>2. QED
      BY <2>4, <1>c, <1>n, <3>1 DEF AcquireLock, Steps, Serving, Critical
  <2>5. CASE ReadBalance(s)
    <3>1. PICK current \in ReadValues : Decide(s, current)
      BY <2>5 DEF ReadBalance
    <3>2. current \in Int
      BY <2>5, GarbageAssumption DEF ReadBalance, ReadValues
    <3>3. QED
      BY <2>5, <1>c, <1>n, <3>1, <3>2, DecideTyping DEF ReadBalance, Serving, Critical
  <2>6. CASE ReadOpenFails(s)
    BY <2>6, <1>c, <1>n DEF ReadOpenFails, Steps, Serving, Critical
  <2>7. CASE CreateAccount(s)
    BY <2>7, <1>c, <1>n DEF CreateAccount, Steps, Serving, Critical
  <2>8. CASE CreateOpenFails(s)
    BY <2>8, <1>c, <1>n, DecideTyping DEF CreateOpenFails, Serving, Critical
  <2>9. CASE WriteCreated(s)
    BY <2>9, <1>c, <1>n, DecideTyping DEF WriteCreated, Serving, Critical
  <2>10. CASE Truncate(s)
    BY <2>10, <1>c, <1>n DEF Truncate, Steps, Serving, Critical
  <2>11. CASE WriteBalance(s) \/ UpdateOpenFails(s)
    <3>1. pc[s] \in {"write", "truncate"} /\ Succeed(s)
      BY <2>11 DEF WriteBalance, UpdateOpenFails
    <3>2. request[s].amount \in Amounts \cup {0} /\ request[s].amount \in Int
      BY <3>1, RequestFacts DEF Serving, Critical
    <3>3. \A k \in {"deposited", "withdrawn"} : Answer(s, k, newBalance[s]) \in Replies
      BY <3>2 DEF Answer, Replies, ReplyKinds
    <3>4. /\ pc' = [pc EXCEPT ![s] = "unlock"]
          /\ reply' \in [Sessions -> Replies \cup {NoReply}]
          /\ reply'[s] \in Replies
          /\ \A t \in Sessions \ {s} : reply'[t] = reply[t]
      BY <3>1, <3>3 DEF Succeed
    <3>5. ledger' \in Int
      BY <3>1, <3>2 DEF Succeed
    <3>6. /\ NetTypeOK' /\ up' \in BOOLEAN /\ account' \in Int \cup {Missing, Empty}
          /\ lock' = lock /\ request' = request /\ newBalance' = newBalance /\ lost' \in BOOLEAN
      BY <2>11, <1>n DEF WriteBalance, UpdateOpenFails
    <3>7. pc' \in [Sessions -> Steps] /\ pc'[s] = "unlock" /\ \A t \in Sessions \ {s} : pc'[t] = pc[t]
      BY <3>4 DEF Steps
    <3>8. \A t \in Sessions : pc'[t] \in Serving => request'[t] \in Requests
      BY <3>1, <3>6, <3>7 DEF Serving, Critical
    <3>9. \A t \in Sessions : pc'[t] \in {"unlock", "send"} => reply'[t] \in Replies
      BY <3>4, <3>7
    <3>10. QED
      BY <1>c, <3>4, <3>5, <3>6, <3>7, <3>8, <3>9
  <2>12. CASE ReleaseLock(s)
    BY <2>12, <1>c, <1>n DEF ReleaseLock, Steps, Serving, Critical
  <2>13. CASE SendReply(s)
    <3>1. CASE conn[s] = "clientReset"
      BY <2>13, <3>1, <1>d DEF SendReply
    <3>2. CASE conn[s] # "clientReset"
      <4>1. reply[s] \in Replies /\ NetServerSend(s, reply[s])
        BY <2>13, <3>2 DEF SendReply
      <4>2. NetTypeOK'
        BY <4>1, ServerCallsTyping
      <4>3. QED
        BY <2>13, <3>2, <1>c, <4>2 DEF SendReply, Steps, Serving, Critical
    <3>3. QED  BY <3>1, <3>2
  <2>14. QED
    BY <1>5, <2>1, <2>2, <2>3, <2>4, <2>5, <2>6, <2>7, <2>8, <2>9, <2>10, <2>11,
       <2>12, <2>13 DEF Thread
<1>6. QED
  BY <1>1, <1>2, <1>3, <1>4, <1>5 DEF ServerNext

\* Every step of a client keeps the types.
LEMMA ClientStepTyping ==
  ASSUME TypeOK, NEW s \in Sessions, ClientStep(s)
  PROVE  TypeOK'
<1> USE DEF TypeOK, ClientTypeOK
<1>s. ServerTypeOK'
  BY DEF ServerTypeOK, ClientStep, serverVars
<1>1. CASE Connect(s)
  BY <1>1, <1>s, ClientCallsTyping DEF Connect
<1>2. ASSUME NEW m \in Menu, SendRequest(s, m) PROVE TypeOK'
  <2>1. m \in Requests
    BY DEF Menu, Requests, Operations
  <2>2. NetTypeOK'
    BY <1>2, <2>1, ClientCallsTyping DEF SendRequest
  <2>3. QED  BY <1>2, <1>s, <2>1, <2>2, MaxRequestsAssumption DEF SendRequest
<1>3. ASSUME NEW m \in Seq(Requests), Leave(s, m) PROVE TypeOK'
  BY <1>3, <1>s, ClientCallsTyping DEF Leave
<1>4. CASE Quit(s)
  <2>1. [op |-> "exit", amount |-> 0] \in Requests
    BY DEF Requests, Operations
  <2>2. <<[op |-> "exit", amount |-> 0]>> \in Seq(Requests)
    BY <2>1
  <2>3. QED  BY <1>3, <1>4, <2>2 DEF Quit
<1>5. CASE BrokenPipe(s) \/ Interrupt(s)
  BY <1>3, <1>5, EmptySeq DEF BrokenPipe, Interrupt
<1>6. CASE ReceiveResponse(s)
  <2>1. NetTypeOK'
    BY <1>6, EmptySeq DEF ReceiveResponse, NetTypeOK
  <2>2. QED  BY <1>6, <1>s, <2>1 DEF ReceiveResponse, BackToMenu
<1>7. CASE ReceiveNothing(s)
  <2>1. NetTypeOK'
    BY <1>7 DEF ReceiveNothing, NetTypeOK, netVars
  <2>2. QED  BY <1>7, <1>s, <2>1 DEF ReceiveNothing, BackToMenu
<1>8. QED
  BY <1>1, <1>2, <1>4, <1>5, <1>6, <1>7 DEF ClientStep, Client

\* Every variable of the server, of the clients and of the connections between
\* them has its type in every state: in particular a thread that serves has
\* parsed a request, and one that sends has built its answer.
THEOREM TypeCorrect == Spec => []TypeOK
<1>1. Init => TypeOK
  <2> SUFFICES ASSUME Init PROVE TypeOK
    OBVIOUS
  <2>1. NetTypeOK
    BY EmptySeq DEF Init, NetInit, NetTypeOK, ConnStates
  <2>2. ServerTypeOK
    <3>1. account \in Int \cup {Missing, Empty} /\ ledger \in Int
      <4>1. CASE InitialAccount = Missing
        BY <4>1 DEF Init, ServerInit
      <4>2. CASE InitialAccount \in Nat /\ InitialAccount # Missing
        BY <4>2 DEF Init, ServerInit
      <4>3. QED  BY <4>1, <4>2, InitialAccountAssumption
    <3>b. up \in BOOLEAN /\ lost \in BOOLEAN /\ lock \in Sessions \cup {NoSession}
      BY DEF Init, ServerInit
    <3>f. /\ pc \in [Sessions -> Steps]
          /\ request \in [Sessions -> Requests \cup {NoRequest}]
          /\ newBalance \in [Sessions -> Int]
          /\ reply \in [Sessions -> Replies \cup {NoReply}]
      BY DEF Init, ServerInit, Steps
    <3>3. \A s \in Sessions : pc[s] \notin Serving /\ pc[s] \notin {"unlock", "send"}
      BY DEF Init, ServerInit, Serving, Critical
    <3>4. QED  BY <3>1, <3>b, <3>f, <3>3 DEF ServerTypeOK
  <2>3. ClientTypeOK
    BY MaxRequestsAssumption DEF Init, ClientInit, ClientTypeOK
  <2>4. QED  BY <2>1, <2>2, <2>3 DEF TypeOK
<1>2. TypeOK /\ [Next]_vars => TypeOK'
  <2>1. TypeOK /\ UNCHANGED vars => TypeOK'
    BY DEF TypeOK, NetTypeOK, ServerTypeOK, ClientTypeOK, vars, netVars,
           serverVars, clientVars
  <2>2. QED  BY <2>1, ServerStepTyping, ClientStepTyping DEF Next
<1>3. QED  BY <1>1, <1>2, PTL DEF Spec

(***************************************************************************)
(* Sockets and the threads that own them.                                  *)
(***************************************************************************)

\* accept() takes the oldest connection, which is then in the backlog no more.
LEMMA BacklogHead ==
  ASSUME TypeOK, SocketsOwned, NEW s \in Sessions, NetAccept(s)
  PROVE  /\ InBacklog(s)
         /\ ~InBacklog(s)'
         /\ \A t \in Sessions \ {s} : InBacklog(t)' <=> InBacklog(t)
         /\ \A i, j \in DOMAIN backlog' : backlog'[i] = backlog'[j] => i = j
<1>1. backlog \in Seq(Sessions) /\ backlog # <<>> /\ backlog' = Tail(backlog) /\ s = Head(backlog)
  BY DEF NetAccept, TypeOK, NetTypeOK
<1>2. /\ Len(backlog) \in Nat \ {0}
      /\ DOMAIN backlog = 1 .. Len(backlog)
      /\ s = backlog[1]
  BY <1>1, LenProperties, EmptySeq
<1>3. /\ backlog' \in Seq(Sessions)
      /\ Len(backlog') = Len(backlog) - 1
      /\ \A i \in 1 .. Len(backlog') : backlog'[i] = backlog[i + 1]
  BY <1>1, HeadTailProperties
<1>4. DOMAIN backlog' = 1 .. (Len(backlog) - 1)
  BY <1>3, LenProperties
<1>5. \A i, j \in 1 .. Len(backlog) : backlog[i] = backlog[j] => i = j
  BY <1>2 DEF SocketsOwned
<1>6. InBacklog(s) /\ ~InBacklog(s)'
  BY <1>2, <1>3, <1>4, <1>5 DEF InBacklog
<1>7. ASSUME NEW t \in Sessions \ {s}, InBacklog(t) PROVE InBacklog(t)'
  <2>1. PICK i \in 1 .. Len(backlog) : backlog[i] = t
    BY <1>2, <1>7 DEF InBacklog
  <2>2. i - 1 \in 1 .. (Len(backlog) - 1) /\ (i - 1) + 1 = i
    BY <1>2, <2>1
  <2>3. backlog'[i - 1] = t
    BY <1>3, <2>1, <2>2
  <2>4. QED  BY <1>4, <2>2, <2>3 DEF InBacklog
<1>8. ASSUME NEW t \in Sessions \ {s}, InBacklog(t)' PROVE InBacklog(t)
  <2>1. PICK i \in 1 .. (Len(backlog) - 1) : backlog'[i] = t
    BY <1>4, <1>8 DEF InBacklog
  <2>2. i + 1 \in 1 .. Len(backlog) /\ backlog[i + 1] = t
    BY <1>2, <1>3, <2>1
  <2>3. QED  BY <1>2, <2>2 DEF InBacklog
<1>9. ASSUME NEW i \in DOMAIN backlog', NEW j \in DOMAIN backlog', backlog'[i] = backlog'[j]
      PROVE  i = j
  <2>1. i + 1 \in 1 .. Len(backlog) /\ j + 1 \in 1 .. Len(backlog)
    BY <1>2, <1>4, <1>9
  <2>2. backlog[i + 1] = backlog[j + 1]
    BY <1>3, <1>4, <1>9
  <2>3. i + 1 = j + 1
    BY <1>5, <2>1, <2>2
  <2>4. i \in Int /\ j \in Int
    BY <1>4, <1>9
  <2>5. QED  BY <2>3, <2>4
<1>10. QED  BY <1>6, <1>7, <1>8, <1>9

\* A connection is appended to the backlog once.
LEMMA BacklogAppend ==
  ASSUME TypeOK, SocketsOwned, NEW s \in Sessions, ~InBacklog(s),
         backlog' = Append(backlog, s)
  PROVE  /\ InBacklog(s)'
         /\ \A t \in Sessions \ {s} : InBacklog(t)' <=> InBacklog(t)
         /\ \A i, j \in DOMAIN backlog' : backlog'[i] = backlog'[j] => i = j
<1> DEFINE n == Len(backlog)
<1>1. backlog \in Seq(Sessions)
  BY DEF TypeOK, NetTypeOK
<1>2. n \in Nat /\ DOMAIN backlog = 1 .. n
  BY <1>1, LenProperties
<1>3. /\ backlog' \in Seq(Sessions)
      /\ Len(backlog') = n + 1
      /\ \A i \in 1 .. n : backlog'[i] = backlog[i]
      /\ backlog'[n + 1] = s
  BY <1>1, AppendProperties
<1>4. DOMAIN backlog' = 1 .. (n + 1)
  BY <1>3, LenProperties
<1>5. \A i \in 1 .. (n + 1) : i = n + 1 \/ i \in 1 .. n
  BY <1>2
<1>6. n + 1 \in 1 .. (n + 1) /\ \A i \in 1 .. n : i \in 1 .. (n + 1)
  BY <1>2
<1> HIDE DEF n
<1>7. InBacklog(s)'
  BY <1>3, <1>4, <1>6 DEF InBacklog
<1>8. \A t \in Sessions \ {s} : InBacklog(t)' <=> InBacklog(t)
  BY <1>2, <1>3, <1>4, <1>5, <1>6 DEF InBacklog
<1>9. \A i, j \in DOMAIN backlog' : backlog'[i] = backlog'[j] => i = j
  BY <1>2, <1>3, <1>4, <1>5 DEF InBacklog, SocketsOwned
<1>10. QED  BY <1>7, <1>8, <1>9

(***************************************************************************)
(* What a step of a thread does to its place, to the lock and to its       *)
(* connection.                                                             *)
(***************************************************************************)
KeepsLock(s) == lock' = lock /\ (pc[s] \in Critical <=> pc'[s] \in Critical)
TakesLock(s) == lock = NoSession /\ lock' = s /\ pc'[s] \in Critical
DropsLock(s) == pc[s] \in Critical /\ lock' = NoSession /\ pc'[s] \notin Critical

ThreadMove(s) ==
  /\ pc[s] # "none"
  /\ \A t \in Sessions \ {s} : pc'[t] = pc[t]
  /\ KeepsLock(s) \/ TakesLock(s) \/ DropsLock(s)
  /\ UNCHANGED backlog
  /\ \/ pc'[s] = "none" /\ NetServerClose(s)
     \/ pc'[s] # "none" /\ UNCHANGED conn
     \/ pc'[s] # "none" /\ \E m \in Replies : NetServerSend(s, m)

\* A decision leaves the thread inside the lock.
LEMMA DecideMove ==
  ASSUME TypeOK, NEW s \in Sessions, pc[s] \in Critical, NEW current,
         Decide(s, current), UNCHANGED <<lock, conn, backlog>>
  PROVE  ThreadMove(s)
<1>1. /\ pc'[s] \in {"unlock", "truncate"}
      /\ \A t \in Sessions \ {s} : pc'[t] = pc[t]
  BY DEF Decide, Say, Update, TypeOK, ServerTypeOK
<1>2. QED  BY <1>1 DEF ThreadMove, KeepsLock, Critical

\* Every step of a thread is such a move, or a SIGPIPE that ends the process.
LEMMA ThreadMoves ==
  ASSUME TypeOK, NEW s \in Sessions, Thread(s)
  PROVE  ThreadMove(s) \/ Die
<1>t. pc \in [Sessions -> Steps]
  BY DEF TypeOK, ServerTypeOK
<1> USE DEF ThreadMove, KeepsLock, TakesLock, DropsLock
<1>1. CASE RecvRequest(s)
  BY <1>1, <1>t DEF RecvRequest, Dispatch, Critical
<1>2. CASE RecvEnd(s)
  BY <1>2, <1>t DEF RecvEnd, netVars, Critical
<1>3. CASE CloseClient(s)
  BY <1>3, <1>t DEF CloseClient, Critical
<1>4. CASE AcquireLock(s)
  BY <1>4, <1>t DEF AcquireLock, netVars, Critical
<1>5. CASE ReadBalance(s) \/ CreateOpenFails(s) \/ WriteCreated(s)
  <2>1. /\ pc[s] \in Critical
        /\ \E current : Decide(s, current)
        /\ UNCHANGED <<lock, conn, backlog>>
    BY <1>5 DEF ReadBalance, CreateOpenFails, WriteCreated, netVars, Critical
  <2>2. QED  BY <2>1, DecideMove
<1>6. CASE ReadOpenFails(s) \/ CreateAccount(s) \/ Truncate(s)
  BY <1>6, <1>t DEF ReadOpenFails, CreateAccount, Truncate, netVars, Critical
<1>7. CASE WriteBalance(s) \/ UpdateOpenFails(s)
  BY <1>7, <1>t DEF WriteBalance, UpdateOpenFails, Succeed, netVars, Critical
<1>8. CASE ReleaseLock(s)
  BY <1>8, <1>t DEF ReleaseLock, netVars, Critical
<1>9. CASE SendReply(s)
  <2>1. CASE conn[s] = "clientReset"
    BY <1>9, <2>1 DEF SendReply
  <2>2. CASE conn[s] # "clientReset"
    <3>1. reply[s] \in Replies
      BY <1>9 DEF SendReply, TypeOK, ServerTypeOK
    <3>2. NetServerSend(s, reply[s]) /\ UNCHANGED <<lock, backlog>>
      BY <1>9, <2>2 DEF SendReply, NetServerSend
    <3>3. /\ pc[s] = "send" /\ pc'[s] = "recv"
          /\ \A t \in Sessions \ {s} : pc'[t] = pc[t]
      BY <1>9, <2>2, <1>t DEF SendReply
    <3>4. QED  BY <3>1, <3>2, <3>3 DEF Critical
  <2>3. QED  BY <2>1, <2>2
<1>10. QED
  BY <1>1, <1>2, <1>3, <1>4, <1>5, <1>6, <1>7, <1>8, <1>9 DEF Thread

\* The end of the process leaves no thread, no backlog and no server end.
LEMMA SocketsAfterDeath ==
  ASSUME TypeOK, SocketsOwned, Die
  PROVE  SocketsOwned'
<1>1. /\ backlog' = <<>>
      /\ conn' = [s \in Sessions |-> AfterServerClose(s, ~InBacklog(s))]
      /\ \A s \in Sessions : pc'[s] = "none"
  BY DEF Die, NetServerDies
<1>2. DOMAIN backlog' = {}
  BY <1>1
<1>3. ASSUME NEW s \in Sessions PROVE conn'[s] \notin ServerEnds
  <2>1. conn[s] \in ConnStates
    BY DEF TypeOK, NetTypeOK
  <2>2. AfterServerClose(s, ~InBacklog(s)) \notin ServerEnds
    <3>1. CASE conn[s] = "open" /\ toServer[s] = <<>> /\ ~InBacklog(s)
      BY <3>1 DEF AfterServerClose, ServerEnds
    <3>2. CASE conn[s] = "open" /\ (toServer[s] # <<>> \/ InBacklog(s))
      BY <3>2 DEF AfterServerClose, ServerEnds
    <3>3. CASE conn[s] \in {"clientClosed", "clientReset"}
      BY <3>3 DEF AfterServerClose, ServerEnds
    <3>4. CASE conn[s] \in {"none", "serverClosed", "serverReset"}
      BY <3>4 DEF AfterServerClose, ServerEnds
    <3>5. QED  BY <2>1, <3>1, <3>2, <3>3, <3>4 DEF ConnStates
  <2>3. QED  BY <1>1, <2>2
<1>4. QED  BY <1>1, <1>2, <1>3 DEF SocketsOwned, InBacklog

\* close() leaves no server end.
LEMMA ServerCloseEffect ==
  ASSUME TypeOK, NEW s \in Sessions, NetServerClose(s)
  PROVE  /\ conn'[s] \notin ServerEnds
         /\ \A t \in Sessions \ {s} : conn'[t] = conn[t]
<1>1. conn \in [Sessions -> ConnStates]
  BY DEF TypeOK, NetTypeOK
<1>2. AfterServerClose(s, TRUE) \notin ServerEnds
  <2>1. CASE conn[s] = "open" /\ toServer[s] = <<>>
    BY <2>1 DEF AfterServerClose, ServerEnds
  <2>2. CASE conn[s] = "open" /\ toServer[s] # <<>>
    BY <2>2 DEF AfterServerClose, ServerEnds
  <2>3. CASE conn[s] \in {"clientClosed", "clientReset"}
    BY <2>3 DEF AfterServerClose, ServerEnds
  <2>4. CASE conn[s] \in {"none", "serverClosed", "serverReset"}
    BY <2>4 DEF AfterServerClose, ServerEnds
  <2>5. QED  BY <1>1, <2>1, <2>2, <2>3, <2>4 DEF ConnStates
<1>3. QED  BY <1>1, <1>2 DEF NetServerClose

\* A move of one thread keeps every socket with its one owner.
LEMMA ThreadKeepsSockets ==
  ASSUME TypeOK, SocketsOwned, NEW s \in Sessions, ThreadMove(s)
  PROVE  SocketsOwned'
<1>1. \A t \in Sessions : InBacklog(t)' <=> InBacklog(t)
  BY DEF ThreadMove, InBacklog
<1>2. conn[s] \in ServerEnds /\ ~InBacklog(s)
  BY DEF ThreadMove, SocketsOwned
<1>3. \A t \in Sessions \ {s} : pc'[t] = pc[t] /\ conn'[t] = conn[t]
  BY ServerCloseEffect DEF ThreadMove, NetServerSend, TypeOK, NetTypeOK
<1>4. conn'[s] \in ServerEnds <=> pc'[s] # "none"
  <2>1. CASE pc'[s] = "none" /\ NetServerClose(s)
    BY <2>1, ServerCloseEffect
  <2>2. CASE pc'[s] # "none" /\ UNCHANGED conn
    BY <2>2, <1>2
  <2>3. CASE pc'[s] # "none" /\ \E m \in Replies : NetServerSend(s, m)
    BY <2>3, <1>2 DEF NetServerSend, ServerEnds, TypeOK, NetTypeOK
  <2>4. QED  BY <2>1, <2>2, <2>3 DEF ThreadMove
<1>5. \A i, j \in DOMAIN backlog' : backlog'[i] = backlog'[j] => i = j
  BY DEF ThreadMove, SocketsOwned
<1>6. QED  BY <1>1, <1>2, <1>3, <1>4, <1>5 DEF SocketsOwned

\* So does every step of the server: accept hands a socket from the backlog to
\* a thread or closes it.
LEMMA ServerKeepsSockets == TypeOK /\ SocketsOwned /\ ServerNext => SocketsOwned'
<1> SUFFICES ASSUME TypeOK, SocketsOwned, ServerNext
             PROVE  SocketsOwned'
  OBVIOUS
<1>1. CASE ServerKilled
  BY <1>1, SocketsAfterDeath DEF ServerKilled
<1>2. CASE StartServer
  BY <1>2 DEF StartServer, netVars, SocketsOwned, InBacklog
<1>3. ASSUME NEW s \in Sessions, Accept(s) PROVE SocketsOwned'
  <2>1. NetAccept(s)
    BY <1>3 DEF Accept
  <2>2. /\ pc'[s] = "recv"
        /\ \A t \in Sessions \ {s} : pc'[t] = pc[t]
        /\ conn' = conn
    BY <1>3 DEF Accept, TypeOK, ServerTypeOK
  <2>3. QED  BY <2>1, <2>2, BacklogHead DEF SocketsOwned
<1>4. ASSUME NEW s \in Sessions, AcceptWithoutThread(s) PROVE SocketsOwned'
  <2>1. NetAccept(s) /\ NetServerClose(s) /\ pc' = pc
    BY <1>4 DEF AcceptWithoutThread, serverVars
  <2>2. QED  BY <2>1, BacklogHead, ServerCloseEffect DEF SocketsOwned
<1>5. ASSUME NEW s \in Sessions, Thread(s) PROVE SocketsOwned'
  BY <1>5, ThreadMoves, ThreadKeepsSockets, SocketsAfterDeath
<1>6. QED
  BY <1>1, <1>2, <1>3, <1>4, <1>5 DEF ServerNext

\* A client opens a connection into the backlog and never removes a server end.
LEMMA ClientKeepsSockets ==
  ASSUME TypeOK, SocketsOwned, NEW s \in Sessions, ClientStep(s)
  PROVE  SocketsOwned'
<1>0. pc' = pc
  BY DEF ClientStep, serverVars
<1>1. CASE Connect(s)
  <2>1. /\ conn[s] = "none"
        /\ conn' = [conn EXCEPT ![s] = "open"]
        /\ backlog' = Append(backlog, s)
    BY <1>1 DEF Connect, NetConnect
  <2>2. ~InBacklog(s) /\ pc[s] = "none"
    BY <2>1 DEF SocketsOwned, ServerEnds
  <2>3. /\ conn'[s] = "open"
        /\ \A t \in Sessions \ {s} : conn'[t] = conn[t]
    BY <2>1 DEF TypeOK, NetTypeOK
  <2>4. QED  BY <1>0, <2>1, <2>2, <2>3, BacklogAppend DEF SocketsOwned, ServerEnds
<1>2. ASSUME UNCHANGED backlog,
             \A t \in Sessions : conn'[t] \in ServerEnds <=> conn[t] \in ServerEnds
      PROVE  SocketsOwned'
  BY <1>0, <1>2 DEF SocketsOwned, InBacklog
<1>3. ASSUME NEW m, SendRequest(s, m) PROVE SocketsOwned'
  <2>1. \A t \in Sessions : conn'[t] \in ServerEnds <=> conn[t] \in ServerEnds
    BY <1>3 DEF SendRequest, NetClientSend, ServerEnds, TypeOK, NetTypeOK
  <2>2. QED  BY <1>2, <1>3, <2>1 DEF SendRequest, NetClientSend
<1>4. ASSUME NEW m, Leave(s, m) PROVE SocketsOwned'
  <2>1. conn[s] \in ConnStates
    BY DEF TypeOK, NetTypeOK
  <2>2. AfterClientClose(s) \in ServerEnds <=> conn[s] \in ServerEnds
    <3>1. CASE conn[s] = "open" /\ toClient[s] = <<>>
      BY <3>1 DEF AfterClientClose, ServerEnds
    <3>2. CASE conn[s] = "open" /\ toClient[s] # <<>>
      BY <3>2 DEF AfterClientClose, ServerEnds
    <3>3. CASE conn[s] \in {"serverClosed", "serverReset"}
      BY <3>3 DEF AfterClientClose, ServerEnds
    <3>4. CASE conn[s] \in {"none", "clientClosed", "clientReset"}
      BY <3>4 DEF AfterClientClose, ServerEnds
    <3>5. QED  BY <2>1, <3>1, <3>2, <3>3, <3>4 DEF ConnStates
  <2>3. \A t \in Sessions : conn'[t] \in ServerEnds <=> conn[t] \in ServerEnds
    BY <1>4, <2>2 DEF Leave, NetClientClose, TypeOK, NetTypeOK
  <2>4. QED  BY <1>2, <1>4, <2>3 DEF Leave, NetClientClose
<1>5. CASE ReceiveResponse(s) \/ ReceiveNothing(s)
  BY <1>2, <1>5 DEF ReceiveResponse, ReceiveNothing, netVars
<1>6. QED
  BY <1>1, <1>3, <1>4, <1>5 DEF ClientStep, Client, Quit, BrokenPipe, Interrupt

\* Every server-side socket is owned by the backlog or by one thread in every
\* state, whichever side closes first and whenever the server dies.
THEOREM SocketsAlwaysOwned == Spec => []SocketsOwned
<1>1. Init => SocketsOwned
  BY DEF Init, NetInit, ServerInit, SocketsOwned, InBacklog, ServerEnds
<1>2. TypeOK /\ SocketsOwned /\ [Next]_vars => SocketsOwned'
  <2>1. SocketsOwned /\ UNCHANGED vars => SocketsOwned'
    BY DEF SocketsOwned, InBacklog, vars, netVars, serverVars
  <2>2. QED
    BY <2>1, ServerKeepsSockets, ClientKeepsSockets DEF Next, ServerStep
<1>3. QED  BY <1>1, <1>2, TypeCorrect, PTL DEF Spec

(***************************************************************************)
(* Mutual exclusion.                                                       *)
(***************************************************************************)
\* No step of the server lets two threads between lock and unlock.
LEMMA ServerKeepsLock ==
  TypeOK /\ SocketsOwned /\ LockInv /\ ServerNext => LockInv'
<1> SUFFICES ASSUME TypeOK, SocketsOwned, LockInv, ServerNext
             PROVE  LockInv'
  OBVIOUS
<1>n. NoSession \notin Sessions
  BY DistinctAssumption
<1>d. Die => LockInv'
  BY <1>n DEF Die, LockInv, Critical
<1>1. CASE ServerKilled
  BY <1>1, <1>d DEF ServerKilled
<1>2. CASE StartServer
  BY <1>2 DEF StartServer, LockInv
<1>3. ASSUME NEW s \in Sessions, Accept(s) PROVE LockInv'
  <2>1. pc[s] = "none"
    BY <1>3, BacklogHead DEF Accept, SocketsOwned
  <2>2. QED  BY <1>3, <2>1 DEF Accept, LockInv, Critical, TypeOK, ServerTypeOK
<1>4. ASSUME NEW s \in Sessions, AcceptWithoutThread(s) PROVE LockInv'
  BY <1>4 DEF AcceptWithoutThread, serverVars, LockInv
<1>5. ASSUME NEW s \in Sessions, ThreadMove(s) PROVE LockInv'
  BY <1>5, <1>n DEF ThreadMove, KeepsLock, TakesLock, DropsLock, LockInv
<1>6. QED
  BY <1>1, <1>2, <1>3, <1>4, <1>5, <1>d, ThreadMoves DEF ServerNext

\* The lock is held by exactly the thread inside a critical section, so at most
\* one thread touches the account file, and a crash never leaves the lock held.
THEOREM MutualExclusion == Spec => []LockInv
<1>1. Init => LockInv
  BY DistinctAssumption DEF Init, ServerInit, LockInv, Critical
<1>2. TypeOK /\ SocketsOwned /\ LockInv /\ [Next]_vars => LockInv'
  <2>1. LockInv /\ UNCHANGED serverVars => LockInv'
    BY DEF LockInv, serverVars
  <2>2. QED
    BY <2>1, ServerKeepsLock DEF Next, ServerStep, ClientStep, vars
<1>3. QED  BY <1>1, <1>2, TypeCorrect, SocketsAlwaysOwned, PTL DEF Spec

(***************************************************************************)
(* The account and the ledger.                                             *)
(***************************************************************************)

\* A step of the thread inside the lock only has to care about itself.
LEMMA StoreInside ==
  ASSUME TypeOK, LockInv, NEW s \in Sessions, pc[s] \in Critical,
         \A t \in Sessions \ {s} : pc'[t] = pc[t],
         ~lost' =>
           /\ ledger' >= 0
           /\ pc'[s] \notin Window => Stored' = ledger'
           /\ pc'[s] = "create" => account' = Missing
           /\ pc'[s] = "createWrite" => ledger' = 0
           /\ pc'[s] \in {"truncate", "write"} => UpdateIsCurrent(s)'
           /\ pc'[s] = "unlock" /\ reply'[s].kind # "invalid" =>
                /\ reply'[s].balance = ledger'
                /\ reply'[s].kind = "poor" => reply'[s].amount > ledger'
  PROVE  StoreInv'
<1>1. \A t \in Sessions \ {s} : pc'[t] \notin Critical
  BY DEF LockInv
<1>2. /\ {"create", "createWrite", "truncate", "write", "unlock"} \subseteq Critical
      /\ Window \subseteq Critical
  BY DEF Critical, Window
<1>3. ~lost' => LedgerExact' /\ NoOverdraft'
  BY DEF LedgerExact, NoOverdraft
<1>4. ~lost' => AnswerIsCurrent'
  BY <1>1, <1>2 DEF AnswerIsCurrent
<1>5. ASSUME NEW t \in Sessions, ~lost'
      PROVE  /\ pc'[t] = "create" => account' = Missing
             /\ pc'[t] = "createWrite" => ledger' = 0
             /\ pc'[t] \in {"truncate", "write"} => UpdateIsCurrent(t)'
  <2>1. CASE t = s
    BY <1>5, <2>1
  <2>2. CASE t # s
    <3>1. pc'[t] \notin Critical
      BY <1>1, <2>2
    <3>2. pc'[t] \notin {"create", "createWrite", "truncate", "write"}
      BY <1>2, <3>1
    <3>3. QED  BY <3>2
  <2>3. QED  BY <2>1, <2>2
<1>6. QED  BY <1>3, <1>4, <1>5 DEF StoreInv

\* A step outside of the lock leaves the account and the lock holder alone.
LEMMA StoreOutside ==
  ASSUME TypeOK, StoreInv, UNCHANGED <<account, ledger, lost>>,
         \A t \in Sessions :
           \/ pc'[t] \notin Critical /\ pc[t] \notin Window
           \/ pc'[t] = "read" /\ pc[t] \notin Window
           \/ pc'[t] = "unlock" /\ pc[t] \notin Window /\ reply'[t].kind = "invalid"
           \/ /\ pc'[t] = pc[t]
              /\ request'[t] = request[t]
              /\ newBalance'[t] = newBalance[t]
              /\ reply'[t] = reply[t]
  PROVE  StoreInv'
<1> SUFFICES ASSUME ~lost' PROVE StoreInv'
  BY DEF StoreInv
<1>1. ~lost /\ NoOverdraft /\ LedgerExact /\ AnswerIsCurrent
  BY DEF StoreInv
<1>2. NoOverdraft'
  BY <1>1 DEF NoOverdraft
<1>3. LedgerExact'
  <2>1. SUFFICES ASSUME \A t \in Sessions : pc'[t] \notin Window PROVE Stored' = ledger'
    BY DEF LedgerExact
  <2>2. \A t \in Sessions : pc[t] \notin Window
    BY <2>1
  <2>3. QED  BY <1>1, <2>2 DEF LedgerExact, Stored
<1>4. AnswerIsCurrent'
  BY <1>1 DEF AnswerIsCurrent, Critical
<1>5. ASSUME NEW t \in Sessions
      PROVE  /\ pc'[t] = "create" => account' = Missing
             /\ pc'[t] = "createWrite" => ledger' = 0
             /\ pc'[t] \in {"truncate", "write"} => UpdateIsCurrent(t)'
  BY <1>1 DEF StoreInv, Critical, UpdateIsCurrent
<1>6. QED  BY <1>2, <1>3, <1>4, <1>5 DEF StoreInv

\* Deciding on the balance that the ledger holds.
LEMMA StoreDecide ==
  ASSUME TypeOK, LockInv, NEW s \in Sessions, pc[s] \in Critical,
         UNCHANGED <<ledger, request>>,
         NEW current \in Int, Decide(s, current),
         ~lost' => current = ledger /\ ledger >= 0 /\ Stored' = ledger
  PROVE  StoreInv'
<1>1. /\ request[s].amount \in Nat
      /\ ledger \in Int
  BY RequestFacts DEF TypeOK, ServerTypeOK, Serving
<1>2. \A t \in Sessions \ {s} : pc'[t] = pc[t]
  BY DEF Decide, Say, Update, TypeOK, ServerTypeOK
<1>w. "truncate" \notin Window /\ "unlock" \notin Window
  BY DEF Window
<1>3. ASSUME NEW k, NEW b, Say(s, k, b),
             ~lost' => \/ k = "invalid"
                       \/ b = ledger /\ (k = "poor" => request[s].amount > ledger)
      PROVE  StoreInv'
  <2>1. pc'[s] = "unlock" /\ reply'[s] = Answer(s, k, b)
    BY <1>3 DEF Say, TypeOK, ServerTypeOK
  <2>2. reply'[s].kind = k /\ reply'[s].balance = b /\ reply'[s].amount = request[s].amount
    BY <2>1 DEF Answer
  <2>3. QED  BY <1>2, <1>3, <1>w, <2>1, <2>2, StoreInside
<1>4. ASSUME NEW b \in Int, Update(s, b),
             ~lost' => /\ b >= 0
                       /\ b = IF request[s].op = "deposit" THEN ledger + request[s].amount
                                                           ELSE ledger - request[s].amount
      PROVE  StoreInv'
  <2>1. pc'[s] = "truncate" /\ newBalance'[s] = b
    BY <1>4 DEF Update, TypeOK, ServerTypeOK
  <2>2. ~lost' => UpdateIsCurrent(s)'
    BY <1>4, <2>1 DEF UpdateIsCurrent
  <2>3. QED  BY <1>2, <1>w, <2>1, <2>2, StoreInside
<1>5. CASE request[s].op = "withdraw" /\ Say(s, "invalid", 0)
  BY <1>3, <1>5
<1>6. CASE request[s].amount > current /\ Say(s, "poor", current)
  BY <1>3, <1>6
<1>7. CASE Say(s, "balance", current)
  BY <1>3, <1>7
<1>8. CASE /\ request[s].op = "withdraw"
           /\ request[s].amount <= current
           /\ Update(s, current - request[s].amount)
  <2>1. /\ current - request[s].amount \in Int
        /\ current - request[s].amount >= 0
        /\ request[s].op # "deposit"
    BY <1>1, <1>8
  <2>2. QED  BY <1>4, <1>8, <2>1
<1>9. CASE request[s].op = "deposit" /\ Update(s, current + request[s].amount)
  <2>1. /\ current + request[s].amount \in Int
        /\ current >= 0 => current + request[s].amount >= 0
    BY <1>1, <1>9
  <2>2. QED  BY <1>4, <1>9, <2>1
<1>10. QED  BY <1>5, <1>6, <1>7, <1>8, <1>9 DEF Decide

\* Each step of a handler keeps what the file, the ledger and the updated
\* balance have to do with each other.
LEMMA ThreadKeepsStore ==
  ASSUME TypeOK, LockInv, StoreInv, NEW s \in Sessions, Thread(s), ~Die
  PROVE  StoreInv'
<1>t. /\ pc \in [Sessions -> Steps]
      /\ reply \in [Sessions -> Replies \cup {NoReply}]
      /\ request \in [Sessions -> Requests \cup {NoRequest}]
      /\ newBalance \in [Sessions -> Int]
      /\ account \in Int \cup {Missing, Empty}
      /\ ledger \in Int
  BY DEF TypeOK, ServerTypeOK
<1>w. "truncate" \notin Window /\ "unlock" \notin Window /\ "read" \notin Window
      /\ "create" \notin Window
  BY DEF Window
\* Outside of its window, the thread inside the lock finds the file whole.
<1>l. ASSUME pc[s] \in Critical \ Window, ~lost
      PROVE  Stored = ledger /\ ledger >= 0
  <2>1. \A t \in Sessions : pc[t] \notin Window
    BY <1>l DEF LockInv, Critical, Window
  <2>2. QED  BY <1>l, <2>1 DEF StoreInv, LedgerExact, NoOverdraft
<1>1. CASE RecvRequest(s)
  BY <1>1, <1>t, StoreOutside DEF RecvRequest, Dispatch, Critical, Window
<1>2. CASE RecvEnd(s) \/ CloseClient(s)
  BY <1>2, <1>t, StoreOutside DEF RecvEnd, CloseClient, Critical, Window
<1>3. CASE AcquireLock(s)
  <2>1. reply'[s].kind = "invalid" \/ pc'[s] = "read"
    BY <1>3, <1>t DEF AcquireLock, Answer
  <2>2. pc[s] \notin Window /\ pc'[s] \in {"read", "unlock"}
    BY <1>3, <1>t DEF AcquireLock, Window
  <2>3. /\ UNCHANGED <<account, ledger, lost, request, newBalance>>
        /\ \A t \in Sessions \ {s} : pc'[t] = pc[t] /\ reply'[t] = reply[t]
    BY <1>3, <1>t DEF AcquireLock
  <2>4. QED  BY <2>1, <2>2, <2>3, StoreOutside
<1>4. CASE ReadBalance(s)
  <2>1. PICK current \in ReadValues : Decide(s, current)
    BY <1>4 DEF ReadBalance
  <2>2. pc[s] \in Critical \ Window /\ account # Missing
    BY <1>4 DEF ReadBalance, Critical, Window
  <2>3. current \in Int
    BY <2>2, <1>t, GarbageAssumption DEF ReadValues
  <2>4. ~lost => current = ledger /\ ledger >= 0 /\ Stored = ledger
    <3>1. SUFFICES ASSUME ~lost PROVE current = ledger /\ ledger >= 0 /\ Stored = ledger
      OBVIOUS
    <3>2. Stored = ledger /\ ledger >= 0
      BY <1>l, <2>2, <3>1
    <3>3. account # Empty
      BY <2>2, <3>2, <1>t, DistinctAssumption DEF Stored
    <3>4. QED  BY <2>2, <3>2, <3>3 DEF Stored, ReadValues
  <2>5. UNCHANGED <<account, lost, ledger, request>>
    BY <1>4 DEF ReadBalance
  <2>6. ~lost' => current = ledger /\ ledger >= 0 /\ Stored' = ledger
    BY <2>4, <2>5 DEF Stored
  <2>7. QED  BY <2>1, <2>2, <2>3, <2>5, <2>6, StoreDecide
<1>5. CASE ReadOpenFails(s)
  <2>1. /\ pc[s] \in Critical \ Window /\ pc'[s] = "create"
        /\ \A t \in Sessions \ {s} : pc'[t] = pc[t]
        /\ UNCHANGED <<account, ledger>>
        /\ ~lost' => ~lost /\ account = Missing
    BY <1>5, <1>t DEF ReadOpenFails, Critical, Window
  <2>2. ~lost' => Stored' = ledger' /\ ledger' >= 0
    BY <1>l, <2>1 DEF Stored
  <2>3. QED  BY <1>w, <2>1, <2>2, StoreInside
<1>6. CASE CreateAccount(s)
  <2>1. /\ pc[s] \in Critical \ Window /\ pc[s] = "create" /\ pc'[s] = "createWrite"
        /\ \A t \in Sessions \ {s} : pc'[t] = pc[t]
        /\ UNCHANGED <<ledger, lost>>
    BY <1>6, <1>t DEF CreateAccount, Critical, Window
  <2>2. ~lost => account = Missing
    BY <2>1 DEF StoreInv
  <2>3. ~lost => ledger = 0
    BY <1>l, <2>1, <2>2 DEF Stored
  <2>4. "createWrite" \in Window
    BY DEF Window
  <2>5. QED  BY <1>l, <2>1, <2>3, <2>4, StoreInside
<1>7. CASE CreateOpenFails(s)
  <2>1. /\ pc[s] \in Critical \ Window /\ pc[s] = "create"
        /\ Decide(s, 0)
        /\ UNCHANGED <<account, lost, ledger, request>>
    BY <1>7 DEF CreateOpenFails, Critical, Window
  <2>2. ~lost => account = Missing
    BY <2>1 DEF StoreInv
  <2>3. ~lost' => 0 = ledger /\ ledger >= 0 /\ Stored' = ledger
    BY <1>l, <2>1, <2>2 DEF Stored
  <2>4. QED  BY <2>1, <2>3, StoreDecide
<1>8. CASE WriteCreated(s)
  <2>1. /\ pc[s] \in Critical /\ pc[s] = "createWrite"
        /\ Decide(s, 0) /\ account' = 0
        /\ UNCHANGED <<lost, ledger, request>>
    BY <1>8 DEF WriteCreated, Critical
  <2>2. ~lost => ledger = 0
    BY <2>1 DEF StoreInv
  <2>3. ~lost' => 0 = ledger /\ ledger >= 0 /\ Stored' = ledger
    BY <2>1, <2>2, DistinctAssumption DEF Stored
  <2>4. QED  BY <2>1, <2>3, StoreDecide
<1>9. CASE Truncate(s)
  <2>1. /\ pc[s] \in Critical \ Window /\ pc[s] = "truncate" /\ pc'[s] = "write"
        /\ \A t \in Sessions \ {s} : pc'[t] = pc[t]
        /\ UNCHANGED <<ledger, lost, request, newBalance>>
    BY <1>9, <1>t DEF Truncate, Critical, Window
  <2>2. ~lost' => UpdateIsCurrent(s)'
    BY <2>1 DEF StoreInv, UpdateIsCurrent
  <2>3. "write" \in Window
    BY DEF Window
  <2>4. QED  BY <1>l, <2>1, <2>2, <2>3, StoreInside
<1>10. CASE WriteBalance(s)
  <2>1. /\ pc[s] \in Critical /\ pc[s] = "write" /\ pc'[s] = "unlock"
        /\ \A t \in Sessions \ {s} : pc'[t] = pc[t]
        /\ account' = newBalance[s] /\ lost' = lost
        /\ reply'[s].kind \in {"deposited", "withdrawn"}
        /\ reply'[s].balance = newBalance[s]
        /\ ledger' = IF request[s].op = "deposit" THEN ledger + request[s].amount
                                                  ELSE ledger - request[s].amount
    BY <1>10, <1>t DEF WriteBalance, Succeed, Answer, Critical
  <2>2. ~lost' => newBalance[s] = ledger' /\ newBalance[s] >= 0
    BY <2>1 DEF StoreInv, UpdateIsCurrent
  <2>3. newBalance[s] # Missing
    BY <1>t, DistinctAssumption
  <2>4. ~lost' => Stored' = ledger'
    BY <2>1, <2>2, <2>3 DEF Stored
  <2>5. QED  BY <1>w, <2>1, <2>2, <2>4, StoreInside
<1>11. CASE UpdateOpenFails(s)
  BY <1>11 DEF UpdateOpenFails, StoreInv
<1>12. CASE ReleaseLock(s)
  BY <1>12, <1>t, StoreOutside DEF ReleaseLock, Critical, Window
<1>13. CASE SendReply(s)
  <2>1. conn[s] # "clientReset"
    BY <1>13 DEF SendReply
  <2>2. /\ pc[s] = "send" /\ pc'[s] = "recv"
        /\ UNCHANGED <<account, ledger, lost>>
        /\ \A t \in Sessions \ {s} : /\ pc'[t] = pc[t]
                                     /\ request'[t] = request[t]
                                     /\ newBalance'[t] = newBalance[t]
                                     /\ reply'[t] = reply[t]
    BY <1>13, <1>t, <2>1 DEF SendReply
  <2>3. QED  BY <2>2, StoreOutside DEF Critical, Window
<1>14. QED
  BY <1>1, <1>2, <1>3, <1>4, <1>5, <1>6, <1>7, <1>8, <1>9, <1>10, <1>11, <1>12,
     <1>13 DEF Thread

\* So does a crash, which sets `lost` if it cuts a write, and a restart.
LEMMA ServerKeepsStore ==
  TypeOK /\ SocketsOwned /\ LockInv /\ StoreInv /\ ServerNext => StoreInv'
<1> SUFFICES ASSUME TypeOK, SocketsOwned, LockInv, StoreInv, ServerNext
             PROVE  StoreInv'
  OBVIOUS
<1>d. ASSUME Die PROVE StoreInv'
  <2>1. /\ UNCHANGED <<account, ledger>>
        /\ ~lost' => ~lost /\ \A s \in Sessions : pc[s] \notin Window
        /\ \A s \in Sessions : pc'[s] = "none"
    BY <1>d DEF Die
  <2>2. ~lost' => Stored' = ledger' /\ ledger' >= 0
    BY <2>1 DEF StoreInv, LedgerExact, NoOverdraft, Stored
  <2>3. QED
    BY <2>1, <2>2 DEF StoreInv, LedgerExact, NoOverdraft, AnswerIsCurrent
<1>1. CASE ServerKilled
  BY <1>1, <1>d DEF ServerKilled
<1>2. CASE StartServer
  BY <1>2, StoreOutside DEF StartServer
<1>3. ASSUME NEW s \in Sessions, Accept(s) PROVE StoreInv'
  <2>1. pc[s] = "none"
    BY <1>3, BacklogHead DEF Accept, SocketsOwned
  <2>2. QED
    BY <1>3, <2>1, StoreOutside DEF Accept, Critical, Window, TypeOK, ServerTypeOK
<1>4. ASSUME NEW s \in Sessions, AcceptWithoutThread(s) PROVE StoreInv'
  BY <1>4, StoreOutside DEF AcceptWithoutThread, serverVars
<1>5. QED
  BY <1>1, <1>2, <1>3, <1>4, <1>d, ThreadKeepsStore DEF ServerNext

\* What the file, the ledger and the thread inside the lock have to do with each
\* other, at every step of every handler and across every crash.
THEOREM StoreInvariant == Spec => []StoreInv
<1>1. Init => StoreInv
  <2> SUFFICES ASSUME Init PROVE StoreInv
    OBVIOUS
  <2>1. /\ \A s \in Sessions : pc[s] = "none"
        /\ Stored = ledger
    BY DEF Init, ServerInit, Stored
  <2>2. ledger >= 0
    <3>1. CASE InitialAccount = Missing
      BY <3>1 DEF Init, ServerInit
    <3>2. CASE InitialAccount # Missing
      BY <3>2, InitialAccountAssumption DEF Init, ServerInit
    <3>3. QED  BY <3>1, <3>2
  <2>3. QED  BY <2>1, <2>2 DEF StoreInv, NoOverdraft, LedgerExact, AnswerIsCurrent
<1>2. TypeOK /\ SocketsOwned /\ LockInv /\ StoreInv /\ [Next]_vars => StoreInv'
  <2>1. TypeOK /\ StoreInv /\ UNCHANGED serverVars => StoreInv'
    BY StoreOutside DEF serverVars
  <2>2. QED
    BY <2>1, ServerKeepsStore DEF Next, ServerStep, ClientStep, vars
<1>3. QED
  BY <1>1, <1>2, TypeCorrect, SocketsAlwaysOwned, MutualExclusion, PTL DEF Spec

\* No update is lost: as long as no crash cut a write and no fopen failed, the
\* account file is, outside of a write, the initial balance plus what the
\* SUCCESS messages of all sessions announced.
THEOREM NoLostUpdate == Spec => []LedgerExact
<1>1. StoreInv => LedgerExact
  BY DEF StoreInv, LedgerExact
<1>2. QED  BY <1>1, StoreInvariant, PTL

\* Withdrawals by any number of sessions never overdraw the account.
THEOREM NeverOverdrawn == Spec => []NoOverdraft
<1>1. StoreInv => NoOverdraft
  BY DEF StoreInv, NoOverdraft
<1>2. QED  BY <1>1, StoreInvariant, PTL

\* Every message a handler has built names the true balance when it unlocks.
THEOREM AnswersAreCurrent == Spec => []AnswerIsCurrent
<1>1. StoreInv => AnswerIsCurrent
  BY DEF StoreInv, AnswerIsCurrent
<1>2. QED  BY <1>1, StoreInvariant, PTL

(***************************************************************************)
(* The inductive invariant: where the one message of a connection is.      *)
(***************************************************************************)
Matches(r, m) == r.kind \in AnswersTo(m) /\ r.amount = m.amount

Quiet(s) == toServer[s] = <<>> /\ toClient[s] = <<>> /\ pc[s] \notin Serving

Requested(s, m) ==
  toServer[s] = <<m>> /\ toClient[s] = <<>> /\ pc[s] \notin Serving

Served(s) == toServer[s] = <<>> /\ toClient[s] = <<>> /\ pc[s] \in Serving

Answered(s) ==
  /\ toServer[s] = <<>>
  /\ pc[s] \notin Serving
  /\ toClient[s] # <<>>
  /\ toClient[s] = <<Head(toClient[s])>>
  /\ Matches(Head(toClient[s]), asked[s])

\* A client at the menu has nothing on the way.
AtMenu(s) == cpc[s] = "menu" => Quiet(s)

\* A waiting client asked for something on the menu; its request, the thread
\* that serves it or the answer is on the way, unless the server's end is gone.
Waiting(s) ==
  cpc[s] = "waiting" =>
    /\ asked[s] \in Menu
    /\ \/ Answered(s)
       \/ conn[s] # "open" /\ Quiet(s)
       \/ conn[s] = "open" /\ Requested(s, asked[s])
       \/ conn[s] = "open" /\ Served(s) /\ request[s] = asked[s]

\* A client that left may have left one last request behind, or a thread that
\* serves it, and only as long as the server's end was not reset.
Gone(s) ==
  cpc[s] = "off" =>
    \/ Quiet(s)
    \/ conn[s] = "clientClosed" /\ (Served(s) \/ \E m \in Requests : Requested(s, m))

ClientEnds == {"open", "serverClosed", "serverReset"}

\* What a handler has built answers what it parsed.
Answering(s) ==
  /\ pc[s] \in {"truncate", "write"} => request[s].op \in {"withdraw", "deposit"}
  /\ pc[s] \in {"unlock", "send"} => Matches(reply[s], request[s])

ExchangeAt(s) ==
  /\ AtMenu(s)
  /\ Waiting(s)
  /\ Gone(s)
  /\ cpc[s] # "off" <=> conn[s] \in ClientEnds
  /\ Answering(s)

Exchange == \A s \in Sessions : ExchangeAt(s)

(***************************************************************************)
(* Steps of the server.                                                    *)
(***************************************************************************)

\* A session that a step leaves alone keeps its place in the exchange.
LEMMA ExchangeUntouched ==
  ASSUME NEW t \in Sessions, ExchangeAt(t),
         conn'[t] = conn[t], toServer'[t] = toServer[t], toClient'[t] = toClient[t],
         pc'[t] = pc[t], request'[t] = request[t], reply'[t] = reply[t],
         cpc'[t] = cpc[t], asked'[t] = asked[t]
  PROVE  ExchangeAt(t)'
BY DEF ExchangeAt, AtMenu, Waiting, Gone, Answering, Quiet, Requested, Served, Answered

\* A handler that goes on serving keeps it too, if what it builds is right.
LEMMA ExchangeServing ==
  ASSUME NEW s \in Sessions, ExchangeAt(s), pc[s] \in Serving, pc'[s] \in Serving,
         conn'[s] = conn[s], toServer'[s] = toServer[s], toClient'[s] = toClient[s],
         request'[s] = request[s], cpc'[s] = cpc[s], asked'[s] = asked[s],
         Answering(s)'
  PROVE  ExchangeAt(s)'
BY DEF ExchangeAt, AtMenu, Waiting, Gone, Quiet, Requested, Served, Answered

\* The decision of a handler answers the request, whatever balance it read.
LEMMA DecideAnswers ==
  ASSUME TypeOK, NEW s \in Sessions, pc[s] \in Serving, NEW current,
         Decide(s, current), UNCHANGED request
  PROVE  /\ pc'[s] \in Serving
         /\ Answering(s)'
         /\ \A t \in Sessions \ {s} : pc'[t] = pc[t] /\ reply'[t] = reply[t]
<1>t. /\ pc \in [Sessions -> Steps]
      /\ reply \in [Sessions -> Replies \cup {NoReply}]
  BY DEF TypeOK, ServerTypeOK
<1>1. ASSUME NEW k, NEW b, Say(s, k, b), k \in AnswersTo(request[s])
      PROVE  /\ pc'[s] = "unlock" /\ Answering(s)'
             /\ \A t \in Sessions \ {s} : pc'[t] = pc[t] /\ reply'[t] = reply[t]
  <2>1. /\ pc'[s] = "unlock" /\ reply'[s] = Answer(s, k, b)
        /\ \A t \in Sessions \ {s} : pc'[t] = pc[t] /\ reply'[t] = reply[t]
    BY <1>1, <1>t DEF Say
  <2>2. reply'[s].kind = k /\ reply'[s].amount = request[s].amount
    BY <2>1 DEF Answer
  <2>3. AnswersTo(request'[s]) = AnswersTo(request[s])
    BY DEF AnswersTo
  <2>4. QED  BY <1>1, <2>1, <2>2, <2>3 DEF Answering, Matches
<1>2. ASSUME NEW b, Update(s, b), request[s].op \in {"withdraw", "deposit"}
      PROVE  /\ pc'[s] = "truncate" /\ Answering(s)'
             /\ \A t \in Sessions \ {s} : pc'[t] = pc[t] /\ reply'[t] = reply[t]
  BY <1>2, <1>t DEF Update, Answering
<1>3. CASE request[s].op = "withdraw" /\ (Say(s, "invalid", 0) \/ Say(s, "poor", current))
  BY <1>1, <1>3 DEF AnswersTo, Serving, Critical
<1>4. CASE request[s].op = "balance" /\ Say(s, "balance", current)
  BY <1>1, <1>4 DEF AnswersTo, Serving, Critical
<1>5. CASE /\ request[s].op \in {"withdraw", "deposit"}
           /\ \E b : Update(s, b)
  BY <1>2, <1>5 DEF Serving, Critical
<1>6. QED  BY <1>3, <1>4, <1>5 DEF Decide

\* The end of the server process: whoever waits is left with what was sent.
LEMMA ExchangeAfterDeath ==
  ASSUME TypeOK, Exchange, Die, UNCHANGED clientVars
  PROVE  Exchange'
<1> SUFFICES ASSUME NEW s \in Sessions PROVE ExchangeAt(s)'
  BY DEF Exchange
<1>1. /\ pc'[s] = "none" /\ toServer'[s] = <<>> /\ toClient'[s] = toClient[s]
      /\ conn'[s] = AfterServerClose(s, ~InBacklog(s))
      /\ cpc'[s] = cpc[s] /\ asked'[s] = asked[s]
  BY DEF Die, NetServerDies, clientVars
<1>2. "none" \notin Serving /\ "none" \notin {"truncate", "write", "unlock", "send"}
  BY DEF Serving, Critical
<1>3. /\ conn'[s] # "open"
      /\ conn'[s] \in ClientEnds <=> conn[s] \in ClientEnds
  <2>1. conn[s] \in ConnStates
    BY DEF TypeOK, NetTypeOK
  <2>2. CASE conn[s] = "open"
    BY <1>1, <2>2 DEF AfterServerClose, ClientEnds
  <2>3. CASE conn[s] \in {"clientClosed", "clientReset"}
    BY <1>1, <2>3 DEF AfterServerClose, ClientEnds
  <2>4. CASE conn[s] \in {"none", "serverClosed", "serverReset"}
    BY <1>1, <2>4 DEF AfterServerClose, ClientEnds
  <2>5. QED  BY <2>1, <2>2, <2>3, <2>4 DEF ConnStates
<1>4. ExchangeAt(s)
  BY DEF Exchange
<1>5. AtMenu(s)' /\ Gone(s)' /\ Answering(s)'
  BY <1>1, <1>2, <1>4 DEF ExchangeAt, AtMenu, Gone, Answering, Quiet, Requested, Served
<1>6. Waiting(s)'
  BY <1>1, <1>2, <1>3, <1>4
     DEF ExchangeAt, Waiting, Quiet, Requested, Served, Answered
<1>7. QED  BY <1>1, <1>3, <1>4, <1>5, <1>6 DEF ExchangeAt

\* A step that only touches session s has to be right for s only.
LEMMA ExchangeOneSession ==
  ASSUME Exchange, NEW s \in Sessions, ExchangeAt(s)',
         \A t \in Sessions \ {s} :
           /\ conn'[t] = conn[t] /\ toServer'[t] = toServer[t] /\ toClient'[t] = toClient[t]
           /\ pc'[t] = pc[t] /\ request'[t] = request[t] /\ reply'[t] = reply[t]
           /\ cpc'[t] = cpc[t] /\ asked'[t] = asked[t]
  PROVE  Exchange'
<1>1. ASSUME NEW t \in Sessions \ {s} PROVE ExchangeAt(t)'
  BY <1>1, ExchangeUntouched DEF Exchange
<1>2. QED  BY <1>1 DEF Exchange

\* close() on the server side of a thread that serves nothing.
LEMMA ExchangeServerClose ==
  ASSUME TypeOK, NEW s \in Sessions, ExchangeAt(s), pc[s] \notin Serving,
         NetServerClose(s), pc'[s] \notin Serving, UNCHANGED clientVars
  PROVE  ExchangeAt(s)'
<1>1. /\ toServer'[s] = <<>> /\ toClient'[s] = toClient[s]
      /\ conn'[s] = AfterServerClose(s, TRUE)
      /\ cpc'[s] = cpc[s] /\ asked'[s] = asked[s]
  BY DEF NetServerClose, clientVars, TypeOK, NetTypeOK
<1>2. /\ conn'[s] # "open"
      /\ conn'[s] \in ClientEnds <=> conn[s] \in ClientEnds
  <2>1. conn[s] \in ConnStates
    BY DEF TypeOK, NetTypeOK
  <2>2. CASE conn[s] = "open"
    BY <1>1, <2>2 DEF AfterServerClose, ClientEnds
  <2>3. CASE conn[s] \in {"clientClosed", "clientReset"}
    BY <1>1, <2>3 DEF AfterServerClose, ClientEnds
  <2>4. CASE conn[s] \in {"none", "serverClosed", "serverReset"}
    BY <1>1, <2>4 DEF AfterServerClose, ClientEnds
  <2>5. QED  BY <2>1, <2>2, <2>3, <2>4 DEF ConnStates
<1>3. AtMenu(s)' /\ Gone(s)'
  BY <1>1 DEF ExchangeAt, AtMenu, Gone, Quiet, Requested, Served
<1>4. Waiting(s)'
  BY <1>1, <1>2 DEF ExchangeAt, Waiting, Quiet, Requested, Served, Answered
<1>5. Answering(s)'
  BY DEF Answering, Serving, Critical
<1>6. QED  BY <1>1, <1>2, <1>3, <1>4, <1>5 DEF ExchangeAt

\* No step of a handler between its recv and its send breaks the exchange.
LEMMA HandlerKeepsExchange ==
  ASSUME TypeOK, Exchange, NEW s \in Sessions, UNCHANGED clientVars,
         \/ AcquireLock(s) \/ ReadBalance(s) \/ ReadOpenFails(s)
         \/ CreateAccount(s) \/ CreateOpenFails(s) \/ WriteCreated(s)
         \/ Truncate(s) \/ WriteBalance(s) \/ UpdateOpenFails(s) \/ ReleaseLock(s)
  PROVE  Exchange'
<1>t. /\ pc \in [Sessions -> Steps]
      /\ reply \in [Sessions -> Replies \cup {NoReply}]
  BY DEF TypeOK, ServerTypeOK
<1>e. ExchangeAt(s)
  BY DEF Exchange
<1>n. UNCHANGED <<conn, toServer, toClient, request, cpc, asked>>
  BY DEF AcquireLock, ReadBalance, ReadOpenFails, CreateAccount, CreateOpenFails,
         WriteCreated, Truncate, WriteBalance, UpdateOpenFails, ReleaseLock,
         netVars, clientVars
<1>a. UNCHANGED request => AnswersTo(request[s])' = AnswersTo(request[s])
  BY DEF AnswersTo
<1>q. ASSUME pc[s] \in Serving, pc'[s] \in Serving, Answering(s)',
             \A t \in Sessions \ {s} : pc'[t] = pc[t] /\ reply'[t] = reply[t]
      PROVE  Exchange'
  <2>1. ExchangeAt(s)'
    BY <1>e, <1>n, <1>q, ExchangeServing
  <2>2. QED  BY <1>n, <1>q, <2>1, ExchangeOneSession
<1>d. ASSUME pc[s] \in Serving, NEW current, Decide(s, current) PROVE Exchange'
  BY <1>d, <1>n, <1>q, DecideAnswers
<1>1. CASE AcquireLock(s)
  <2>1. \/ pc'[s] = "read"
        \/ /\ pc'[s] = "unlock" /\ request[s].op = "deposit"
           /\ reply'[s] = Answer(s, "invalid", 0)
    BY <1>1, <1>t DEF AcquireLock
  <2>2. CASE pc'[s] = "read"
    BY <1>1, <1>q, <1>t, <2>2 DEF AcquireLock, Answering, Serving, Critical
  <2>3. CASE /\ pc'[s] = "unlock" /\ request[s].op = "deposit"
             /\ reply'[s] = Answer(s, "invalid", 0)
    <3>1. reply'[s].kind \in AnswersTo(request[s]) /\ reply'[s].amount = request[s].amount
      BY <2>3 DEF Answer, AnswersTo
    <3>2. Answering(s)'
      BY <1>a, <1>n, <2>3, <3>1 DEF Answering, Matches
    <3>3. QED  BY <1>1, <1>q, <1>t, <2>3, <3>2 DEF AcquireLock, Serving, Critical
  <2>4. QED  BY <2>1, <2>2, <2>3
<1>2. CASE ReadBalance(s) \/ CreateOpenFails(s) \/ WriteCreated(s)
  BY <1>2, <1>d DEF ReadBalance, CreateOpenFails, WriteCreated, Serving, Critical
<1>3. CASE ReadOpenFails(s) \/ CreateAccount(s)
  BY <1>3, <1>q, <1>t DEF ReadOpenFails, CreateAccount, Answering, Serving, Critical
<1>4. CASE Truncate(s)
  BY <1>4, <1>e, <1>q, <1>t DEF Truncate, ExchangeAt, Answering, Serving, Critical
<1>5. CASE WriteBalance(s) \/ UpdateOpenFails(s)
  <2>1. pc[s] \in {"write", "truncate"} /\ Succeed(s)
    BY <1>5 DEF WriteBalance, UpdateOpenFails
  <2>2. request[s].op \in {"withdraw", "deposit"}
    BY <1>e, <2>1 DEF ExchangeAt, Answering
  <2>3. /\ pc'[s] = "unlock"
        /\ reply'[s].kind = (IF request[s].op = "deposit" THEN "deposited" ELSE "withdrawn")
        /\ reply'[s].amount = request[s].amount
        /\ \A t \in Sessions \ {s} : pc'[t] = pc[t] /\ reply'[t] = reply[t]
    BY <1>t, <2>1 DEF Succeed, Answer
  <2>4. reply'[s].kind \in AnswersTo(request[s])
    BY <2>2, <2>3 DEF AnswersTo
  <2>5. Answering(s)'
    BY <1>a, <1>n, <2>3, <2>4 DEF Answering, Matches
  <2>6. QED  BY <1>q, <2>1, <2>3, <2>5 DEF Serving, Critical
<1>6. CASE ReleaseLock(s)
  <2>1. Answering(s)'
    BY <1>6, <1>a, <1>e, <1>n, <1>t DEF ReleaseLock, ExchangeAt, Answering, Matches
  <2>2. QED  BY <1>6, <1>q, <1>t, <2>1 DEF ReleaseLock, Serving, Critical
<1>7. QED  BY <1>1, <1>2, <1>3, <1>4, <1>5, <1>6

\* recv takes the one request there is; the thread serves it or ends.
LEMMA RecvKeepsExchange ==
  ASSUME TypeOK, Exchange, NEW s \in Sessions, UNCHANGED clientVars,
         RecvRequest(s) \/ RecvEnd(s)
  PROVE  Exchange'
<1>t. /\ pc \in [Sessions -> Steps]
      /\ request \in [Sessions -> Requests \cup {NoRequest}]
      /\ toServer \in [Sessions -> Seq(Requests)]
  BY DEF TypeOK, ServerTypeOK, NetTypeOK
<1>e. ExchangeAt(s)
  BY DEF Exchange
<1>n. /\ UNCHANGED <<conn, toClient, reply, cpc, asked>>
      /\ pc[s] = "recv"
      /\ pc[s] \notin Serving
  BY DEF RecvRequest, RecvEnd, netVars, clientVars, Serving, Critical
<1>1. CASE RecvRequest(s)
  <2>1. PICK m \in Requests : toServer[s] = <<m>> /\ Requested(s, m)
    <3>1. ~Quiet(s) /\ ~Answered(s) /\ ~Served(s)
      BY <1>1, <1>n DEF RecvRequest, Quiet, Answered, Served
    <3>2. CASE cpc[s] = "off"
      BY <1>e, <3>1, <3>2 DEF ExchangeAt, Gone, Requested
    <3>3. CASE cpc[s] = "waiting"
      <4>1. asked[s] \in Menu /\ Requested(s, asked[s])
        BY <1>e, <3>1, <3>3 DEF ExchangeAt, Waiting
      <4>2. asked[s] \in Requests
        BY <4>1 DEF Menu, Requests, Operations
      <4>3. QED  BY <4>1, <4>2 DEF Requested
    <3>4. cpc[s] \in {"off", "waiting"}
      BY <1>e, <3>1 DEF ExchangeAt, AtMenu, TypeOK, ClientTypeOK
    <3>5. QED  BY <3>2, <3>3, <3>4
  <2>2. Head(toServer[s]) = m
    BY <2>1
  <2>3. /\ toServer'[s] = <<>> /\ request'[s] = m /\ pc'[s] = Dispatch(m.op)
        /\ \A t \in Sessions \ {s} : /\ toServer'[t] = toServer[t]
                                     /\ request'[t] = request[t] /\ pc'[t] = pc[t]
    BY <1>1, <1>t, <2>2 DEF RecvRequest
  <2>4. toClient[s] = <<>>
    BY <2>1 DEF Requested
  <2>5. cpc[s] \in {"off", "waiting"}
    BY <1>e, <2>1 DEF ExchangeAt, AtMenu, Quiet, TypeOK, ClientTypeOK
  <2>6. CASE m.op = "exit"
    <3>1. cpc[s] # "waiting"
      BY <1>e, <2>1, <2>6
         DEF ExchangeAt, Waiting, Answered, Quiet, Requested, Served, Menu
    <3>2. pc'[s] \notin Serving /\ pc'[s] = "close"
      BY <2>3, <2>6 DEF Dispatch, Serving, Critical
    <3>3. ExchangeAt(s)'
      BY <1>e, <1>n, <2>3, <2>4, <2>5, <3>1, <3>2
         DEF ExchangeAt, AtMenu, Waiting, Gone, Answering, Quiet
    <3>4. QED  BY <1>n, <2>3, <3>3, ExchangeOneSession
  <2>7. CASE m.op # "exit"
    <3>1. pc'[s] = "lock" /\ pc'[s] \in Serving
      BY <2>3, <2>7 DEF Dispatch, Serving
    <3>2. Served(s)'
      BY <1>n, <2>3, <2>4, <3>1 DEF Served
    <3>3. cpc[s] = "waiting" => conn[s] = "open" /\ asked[s] = m
      BY <1>e, <2>1 DEF ExchangeAt, Waiting, Answered, Quiet, Requested, Served
    <3>4. cpc[s] = "off" => conn[s] = "clientClosed"
      BY <1>e, <2>1 DEF ExchangeAt, Gone, Quiet
    <3>5. ExchangeAt(s)'
      BY <1>e, <1>n, <2>3, <2>5, <3>1, <3>2, <3>3, <3>4
         DEF ExchangeAt, AtMenu, Waiting, Gone, Answering
    <3>6. QED  BY <1>n, <2>3, <3>5, ExchangeOneSession
  <2>8. QED  BY <2>6, <2>7
<1>2. CASE RecvEnd(s)
  <2>1. /\ pc'[s] = "close" /\ pc'[s] \notin Serving
        /\ \A t \in Sessions \ {s} : pc'[t] = pc[t]
        /\ UNCHANGED <<toServer, request>>
    BY <1>2, <1>t DEF RecvEnd, netVars, Serving, Critical
  <2>2. ExchangeAt(s)'
    BY <1>e, <1>n, <2>1
       DEF ExchangeAt, AtMenu, Waiting, Gone, Answering, Quiet, Requested, Served, Answered
  <2>3. QED  BY <1>n, <2>1, <2>2, ExchangeOneSession
<1>3. QED  BY <1>1, <1>2

\* The end of a thread, whose client has left or is left without an answer.
LEMMA CloseKeepsExchange ==
  ASSUME TypeOK, Exchange, NEW s \in Sessions, UNCHANGED clientVars, CloseClient(s)
  PROVE  Exchange'
<1>1. /\ pc[s] \notin Serving /\ pc'[s] \notin Serving /\ NetServerClose(s)
      /\ reply' = reply
      /\ \A t \in Sessions \ {s} : pc'[t] = pc[t] /\ request'[t] = request[t]
  BY DEF CloseClient, Serving, Critical, TypeOK, ServerTypeOK
<1>2. ExchangeAt(s)'
  BY <1>1, ExchangeServerClose DEF Exchange
<1>3. \A t \in Sessions \ {s} :
        conn'[t] = conn[t] /\ toServer'[t] = toServer[t] /\ toClient'[t] = toClient[t]
  BY <1>1 DEF NetServerClose, TypeOK, NetTypeOK
<1>4. QED  BY <1>1, <1>2, <1>3, ExchangeOneSession DEF clientVars

\* A thread sends one answer, to the client that asked if it is still there; it
\* never does on a connection that was reset.
LEMMA SendKeepsExchange ==
  ASSUME TypeOK, Exchange, NEW s \in Sessions, UNCHANGED clientVars, SendReply(s)
  PROVE  Exchange' /\ conn[s] # "clientReset"
<1>t. /\ pc \in [Sessions -> Steps]
      /\ request \in [Sessions -> Requests \cup {NoRequest}]
      /\ reply \in [Sessions -> Replies \cup {NoReply}]
      /\ toClient \in [Sessions -> Seq(Replies)]
      /\ conn \in [Sessions -> ConnStates]
  BY DEF TypeOK, ServerTypeOK, NetTypeOK
<1>e. ExchangeAt(s)
  BY DEF Exchange
<1>1. pc[s] = "send" /\ pc[s] \in Serving
  BY DEF SendReply, Serving
<1>2. toServer[s] = <<>> /\ toClient[s] = <<>> /\ cpc[s] \in {"off", "waiting"}
  BY <1>1, <1>e
     DEF ExchangeAt, AtMenu, Waiting, Gone, Quiet, Requested, Served, Answered,
         TypeOK, ClientTypeOK
<1>3. /\ cpc[s] = "waiting" => conn[s] = "open" /\ request[s] = asked[s]
      /\ cpc[s] = "off" => conn[s] = "clientClosed"
  BY <1>1, <1>e DEF ExchangeAt, Waiting, Gone, Quiet, Requested, Answered
<1>4. conn[s] # "clientReset"
  BY <1>2, <1>3
<1>5. /\ NetServerSend(s, reply[s])
      /\ pc'[s] = "recv" /\ pc'[s] \notin Serving
      /\ \A t \in Sessions \ {s} :
           pc'[t] = pc[t] /\ request'[t] = request[t] /\ reply'[t] = reply[t]
  BY <1>4, <1>t DEF SendReply, Serving, Critical
<1>6. /\ UNCHANGED <<toServer, cpc, asked>>
      /\ \A t \in Sessions \ {s} : conn'[t] = conn[t] /\ toClient'[t] = toClient[t]
  BY <1>5, <1>t DEF NetServerSend, clientVars
<1>7. CASE cpc[s] = "waiting"
  <2>1. Matches(reply[s], asked[s])
    BY <1>1, <1>3, <1>7, <1>e DEF ExchangeAt, Answering
  <2>2. toClient'[s] = <<reply[s]>> /\ conn'[s] = "open"
    BY <1>2, <1>3, <1>5, <1>7, <1>t DEF NetServerSend
  <2>3. Answered(s)'
    <3>1. toClient'[s] # <<>> /\ Head(toClient'[s]) = reply[s]
      BY <2>2
    <3>2. Matches(Head(toClient'[s]), asked'[s])
      BY <1>6, <2>1, <3>1
    <3>3. QED  BY <1>2, <1>5, <1>6, <2>2, <3>1, <3>2 DEF Answered, Matches
  <2>4. ExchangeAt(s)'
    BY <1>3, <1>5, <1>6, <1>7, <1>e, <2>2, <2>3
       DEF ExchangeAt, AtMenu, Waiting, Gone, Answering, ClientEnds
  <2>5. QED  BY <1>4, <1>5, <1>6, <2>4, ExchangeOneSession
<1>8. CASE cpc[s] = "off"
  <2>1. toClient'[s] = <<>> /\ conn'[s] = "clientReset"
    BY <1>2, <1>3, <1>5, <1>8, <1>t DEF NetServerSend
  <2>2. ExchangeAt(s)'
    BY <1>2, <1>5, <1>6, <1>8, <2>1
       DEF ExchangeAt, AtMenu, Waiting, Gone, Answering, Quiet, ClientEnds
  <2>3. QED  BY <1>4, <1>5, <1>6, <2>2, ExchangeOneSession
<1>9. QED  BY <1>2, <1>7, <1>8

\* Every step of the server keeps the exchange.
LEMMA ServerKeepsExchange ==
  ASSUME TypeOK, SocketsOwned, Exchange, ServerStep
  PROVE  Exchange'
<1>n. UNCHANGED clientVars /\ ServerNext
  BY DEF ServerStep
<1>1. CASE ServerKilled
  BY <1>1, <1>n, ExchangeAfterDeath DEF ServerKilled
<1>2. CASE StartServer
  BY <1>2, <1>n, ExchangeUntouched DEF StartServer, netVars, clientVars, Exchange
<1>3. ASSUME NEW s \in Sessions, Accept(s) PROVE Exchange'
  <2>1. pc[s] = "none" /\ pc[s] \notin Serving
    BY <1>3, BacklogHead DEF Accept, SocketsOwned, Serving, Critical
  <2>2. /\ pc'[s] = "recv" /\ pc'[s] \notin Serving
        /\ \A t \in Sessions \ {s} : pc'[t] = pc[t]
        /\ UNCHANGED <<conn, toServer, toClient, request, reply, cpc, asked>>
    BY <1>3, <1>n DEF Accept, clientVars, TypeOK, ServerTypeOK, Serving, Critical
  <2>3. ExchangeAt(s)
    BY DEF Exchange
  <2>4. ExchangeAt(s)'
    BY <2>1, <2>2, <2>3
       DEF ExchangeAt, AtMenu, Waiting, Gone, Answering, Quiet, Requested, Served, Answered
  <2>5. QED  BY <2>2, <2>4, ExchangeOneSession
<1>4. ASSUME NEW s \in Sessions, AcceptWithoutThread(s) PROVE Exchange'
  <2>1. pc[s] = "none" /\ pc[s] \notin Serving
    BY <1>4, BacklogHead DEF AcceptWithoutThread, SocketsOwned, Serving, Critical
  <2>2. NetServerClose(s) /\ UNCHANGED <<pc, request, reply>>
    BY <1>4 DEF AcceptWithoutThread, serverVars
  <2>3. ExchangeAt(s)'
    BY <1>n, <2>1, <2>2, ExchangeServerClose DEF Exchange
  <2>4. \A t \in Sessions \ {s} :
          conn'[t] = conn[t] /\ toServer'[t] = toServer[t] /\ toClient'[t] = toClient[t]
    BY <2>2 DEF NetServerClose, TypeOK, NetTypeOK
  <2>5. QED  BY <1>n, <2>2, <2>3, <2>4, ExchangeOneSession DEF clientVars
<1>5. ASSUME NEW s \in Sessions, Thread(s) PROVE Exchange'
  BY <1>5, <1>n, RecvKeepsExchange, CloseKeepsExchange, SendKeepsExchange,
     HandlerKeepsExchange DEF Thread
<1>6. QED  BY <1>1, <1>2, <1>3, <1>4, <1>5, <1>n DEF ServerNext

(***************************************************************************)
(* Steps of the clients.                                                   *)
(***************************************************************************)

\* What close() on the client's side does to the state of the connection.
LEMMA ClientCloseEffect ==
  ASSUME TypeOK, NEW s \in Sessions, conn[s] \in ClientEnds
  PROVE  /\ AfterClientClose(s) \notin ClientEnds
         /\ AfterClientClose(s) = "clientClosed" <=> conn[s] = "open" /\ toClient[s] = <<>>
<1>1. CASE conn[s] = "open" /\ toClient[s] = <<>>
  BY <1>1 DEF AfterClientClose, ClientEnds
<1>2. CASE conn[s] = "open" /\ toClient[s] # <<>>
  BY <1>2 DEF AfterClientClose, ClientEnds
<1>3. CASE conn[s] \in {"serverClosed", "serverReset"}
  BY <1>3 DEF AfterClientClose, ClientEnds
<1>4. QED  BY <1>1, <1>2, <1>3 DEF ClientEnds

\* A client that leaves having sent nothing, or "exit" from the menu.
LEMMA LeaveKeepsExchange ==
  ASSUME TypeOK, Exchange, NEW s \in Sessions, UNCHANGED serverVars,
         NEW m, Leave(s, m), cpc[s] # "off",
         \/ m = <<>>
         \/ cpc[s] = "menu" /\ \E r \in Requests : m = <<r>>
  PROVE  Exchange'
<1>t. /\ conn \in [Sessions -> ConnStates]
      /\ toServer \in [Sessions -> Seq(Requests)]
      /\ toClient \in [Sessions -> Seq(Replies)]
      /\ cpc \in [Sessions -> {"off", "menu", "waiting"}]
      /\ asked \in [Sessions -> Requests \cup {NoMessage}]
  BY DEF TypeOK, NetTypeOK, ClientTypeOK
<1>e. ExchangeAt(s)
  BY DEF Exchange
<1>1. /\ cpc'[s] = "off" /\ toClient'[s] = <<>> /\ conn'[s] = AfterClientClose(s)
      /\ toServer'[s] = IF AfterClientClose(s) = "clientClosed" THEN toServer[s] \o m ELSE <<>>
      /\ UNCHANGED <<pc, request, reply>>
      /\ \A t \in Sessions \ {s} :
           /\ conn'[t] = conn[t] /\ toServer'[t] = toServer[t] /\ toClient'[t] = toClient[t]
           /\ cpc'[t] = cpc[t] /\ asked'[t] = asked[t]
  BY <1>t DEF Leave, NetClientClose, serverVars
<1>2. conn[s] \in ClientEnds /\ conn'[s] \notin ClientEnds
  BY <1>1, <1>e, ClientCloseEffect DEF ExchangeAt
<1>3. Gone(s)'
  <2>1. CASE AfterClientClose(s) # "clientClosed"
    <3>1. pc[s] \notin Serving
      BY <1>2, <1>e, <2>1, ClientCloseEffect
         DEF ExchangeAt, AtMenu, Waiting, Quiet, Requested, Served, Answered, TypeOK, ClientTypeOK
    <3>2. QED  BY <1>1, <2>1, <3>1 DEF Gone, Quiet
  <2>2. CASE AfterClientClose(s) = "clientClosed"
    <3>1. conn[s] = "open" /\ toClient[s] = <<>> /\ conn'[s] = "clientClosed"
      BY <1>1, <1>2, <2>2, ClientCloseEffect
    <3>2. toServer'[s] = toServer[s] \o m
      BY <1>1, <2>2
    <3>3. CASE cpc[s] = "menu"
      <4>1. Quiet(s)
        BY <1>e, <3>3 DEF ExchangeAt, AtMenu
      <4>2. CASE m = <<>>
        <5>1. toServer'[s] = <<>>
          BY <3>2, <4>1, <4>2 DEF Quiet
        <5>2. QED  BY <1>1, <4>1, <5>1 DEF Gone, Quiet
      <4>3. ASSUME NEW r \in Requests, m = <<r>> PROVE Gone(s)'
        <5>1. toServer'[s] = <<r>>
          BY <3>2, <4>1, <4>3 DEF Quiet
        <5>2. Requested(s, r)'
          BY <1>1, <4>1, <5>1 DEF Quiet, Requested
        <5>3. QED  BY <3>1, <5>2 DEF Gone
      <4>4. QED  BY <4>2, <4>3, <3>3
    <3>4. CASE cpc[s] = "waiting"
      <4>1. m = <<>>
        BY <3>4
      <4>2. toServer'[s] = toServer[s]
        BY <1>t, <3>2, <4>1
      <4>3. ~Answered(s)
        BY <3>1 DEF Answered
      <4>4. CASE Requested(s, asked[s])
        <5>1. asked[s] \in Menu
          BY <1>e, <3>4 DEF ExchangeAt, Waiting
        <5>2. asked[s] \in Requests
          BY <5>1 DEF Menu, Requests, Operations
        <5>3. \E r \in Requests : Requested(s, r)'
          BY <1>1, <4>2, <4>4, <5>2 DEF Requested
        <5>4. QED  BY <3>1, <5>3 DEF Gone
      <4>5. CASE Served(s)
        BY <1>1, <3>1, <4>2, <4>5 DEF Gone, Served
      <4>6. QED  BY <1>e, <3>1, <3>4, <4>3, <4>4, <4>5 DEF ExchangeAt, Waiting
    <3>5. QED  BY <1>t, <3>3, <3>4
  <2>3. QED  BY <2>1, <2>2
<1>4. AtMenu(s)' /\ Waiting(s)'
  BY <1>1 DEF AtMenu, Waiting
<1>5. Answering(s)'
  <2>1. AnswersTo(request[s])' = AnswersTo(request[s])
    BY <1>1 DEF AnswersTo
  <2>2. QED  BY <1>1, <1>e, <2>1 DEF ExchangeAt, Answering, Matches
<1>6. ExchangeAt(s)'
  BY <1>1, <1>2, <1>3, <1>4, <1>5 DEF ExchangeAt
<1>7. QED  BY <1>1, <1>6, ExchangeOneSession

\* The other steps of a client: connect, send a request, receive or give up.
LEMMA ClientKeepsExchange ==
  ASSUME TypeOK, SocketsOwned, Exchange, NEW s \in Sessions, ClientStep(s)
  PROVE  Exchange'
<1>t. /\ conn \in [Sessions -> ConnStates]
      /\ toServer \in [Sessions -> Seq(Requests)]
      /\ toClient \in [Sessions -> Seq(Replies)]
      /\ cpc \in [Sessions -> {"off", "menu", "waiting"}]
      /\ asked \in [Sessions -> Requests \cup {NoMessage}]
  BY DEF TypeOK, NetTypeOK, ClientTypeOK
<1>e. ExchangeAt(s)
  BY DEF Exchange
<1>n. UNCHANGED <<pc, request, reply>> /\ UNCHANGED serverVars
  BY DEF ClientStep, serverVars
<1>a. Answering(s)'
  <2>1. AnswersTo(request[s])' = AnswersTo(request[s])
    BY <1>n DEF AnswersTo
  <2>2. QED  BY <1>n, <1>e, <2>1 DEF ExchangeAt, Answering, Matches
<1>1. CASE Connect(s)
  <2>1. /\ cpc[s] = "off" /\ cpc'[s] = "menu" /\ conn[s] = "none" /\ conn'[s] = "open"
        /\ UNCHANGED <<toServer, toClient, asked>>
        /\ \A t \in Sessions \ {s} : conn'[t] = conn[t] /\ cpc'[t] = cpc[t]
    BY <1>1, <1>t DEF Connect, NetConnect
  <2>2. Quiet(s)
    BY <1>e, <2>1 DEF ExchangeAt, Gone
  <2>3. ExchangeAt(s)'
    BY <1>a, <1>n, <2>1, <2>2
       DEF ExchangeAt, AtMenu, Waiting, Gone, Quiet, ClientEnds
  <2>4. QED  BY <1>n, <2>1, <2>3, ExchangeOneSession
<1>2. ASSUME NEW m \in Menu, SendRequest(s, m) PROVE Exchange'
  <2>1. /\ cpc[s] = "menu" /\ cpc'[s] = "waiting" /\ asked'[s] = m
        /\ toServer'[s] = IF conn[s] = "open" THEN Append(toServer[s], m) ELSE toServer[s]
        /\ conn'[s] = IF conn[s] = "serverClosed" THEN "serverReset" ELSE conn[s]
        /\ toClient' = toClient
        /\ \A t \in Sessions \ {s} :
             /\ conn'[t] = conn[t] /\ toServer'[t] = toServer[t]
             /\ cpc'[t] = cpc[t] /\ asked'[t] = asked[t]
    BY <1>2, <1>t DEF SendRequest, NetClientSend
  <2>2. Quiet(s) /\ conn[s] \in ClientEnds
    BY <1>e, <2>1 DEF ExchangeAt, AtMenu
  <2>3. Waiting(s)'
    <3>1. CASE conn[s] = "open"
      <4>1. toServer'[s] = <<m>> /\ conn'[s] = "open"
        BY <2>1, <2>2, <3>1 DEF Quiet
      <4>2. QED  BY <1>n, <2>1, <2>2, <4>1 DEF Waiting, Requested, Quiet
    <3>2. CASE conn[s] # "open"
      <4>1. toServer'[s] = toServer[s] /\ conn'[s] # "open"
        BY <2>1, <3>2
      <4>2. QED  BY <1>n, <2>1, <2>2, <4>1 DEF Waiting, Quiet
    <3>3. QED  BY <3>1, <3>2
  <2>4. conn'[s] \in ClientEnds
    BY <2>1, <2>2 DEF ClientEnds
  <2>5. ExchangeAt(s)'
    BY <1>a, <2>1, <2>3, <2>4 DEF ExchangeAt, AtMenu, Gone
  <2>6. QED  BY <1>n, <2>1, <2>5, ExchangeOneSession
<1>3. CASE Quit(s)
  <2>1. [op |-> "exit", amount |-> 0] \in Requests
    BY DEF Requests, Operations
  <2>2. QED  BY <1>3, <1>n, <2>1, LeaveKeepsExchange DEF Quit
<1>4. CASE BrokenPipe(s) \/ Interrupt(s)
  BY <1>4, <1>n, LeaveKeepsExchange DEF BrokenPipe, Interrupt
<1>5. CASE ReceiveResponse(s) \/ ReceiveNothing(s)
  <2>1. /\ cpc[s] = "waiting" /\ cpc'[s] = "menu" /\ toClient'[s] = <<>>
        /\ UNCHANGED <<conn, toServer>>
        /\ toClient[s] # <<>> \/ conn[s] # "open"
        /\ \A t \in Sessions \ {s} :
             toClient'[t] = toClient[t] /\ cpc'[t] = cpc[t] /\ asked'[t] = asked[t]
    BY <1>5, <1>t DEF ReceiveResponse, ReceiveNothing, BackToMenu, netVars
  <2>2. toServer[s] = <<>> /\ pc[s] \notin Serving
    BY <1>e, <2>1 DEF ExchangeAt, Waiting, Quiet, Requested, Served, Answered
  <2>3. ExchangeAt(s)'
    BY <1>a, <1>e, <1>n, <2>1, <2>2
       DEF ExchangeAt, AtMenu, Waiting, Gone, Quiet
  <2>4. QED  BY <1>n, <2>1, <2>3, ExchangeOneSession
<1>6. QED
  BY <1>1, <1>2, <1>3, <1>4, <1>5 DEF ClientStep, Client

(***************************************************************************)
(* The theorems.                                                           *)
(***************************************************************************)

\* Where the one message of each connection is, in every reachable state.
LEMMA ExchangeInvariant == Spec => []Exchange
<1>1. Init => Exchange
  <2> SUFFICES ASSUME Init, NEW s \in Sessions PROVE ExchangeAt(s)
    BY DEF Exchange
  <2>1. /\ cpc[s] = "off" /\ conn[s] = "none" /\ pc[s] = "none"
        /\ toServer[s] = <<>> /\ toClient[s] = <<>>
    BY DEF Init, NetInit, ServerInit, ClientInit
  <2>2. Quiet(s) /\ Answering(s)
    BY <2>1 DEF Quiet, Answering, Serving, Critical
  <2>3. QED
    BY <2>1, <2>2 DEF ExchangeAt, AtMenu, Waiting, Gone, ClientEnds
<1>2. TypeOK /\ SocketsOwned /\ Exchange /\ [Next]_vars => Exchange'
  <2>1. Exchange /\ UNCHANGED vars => Exchange'
    BY ExchangeUntouched DEF Exchange, vars, netVars, serverVars, clientVars
  <2>2. QED
    BY <2>1, ServerKeepsExchange, ClientKeepsExchange DEF Next
<1>3. QED  BY <1>1, <1>2, TypeCorrect, SocketsAlwaysOwned, PTL DEF Spec

\* No thread sends on a connection that its client reset: the missing
\* MSG_NOSIGNAL of server.c never ends the server, whatever clients do.
THEOREM SendNeverKills == Spec => []SendIsSafe
<1>1. Exchange => SendIsSafe
  <2> SUFFICES ASSUME Exchange, NEW s \in Sessions, pc[s] = "send", conn[s] = "clientReset"
               PROVE  FALSE
    BY DEF SendIsSafe
  <2>1. ExchangeAt(s) /\ pc[s] \in Serving /\ conn[s] \notin ClientEnds
    BY DEF Exchange, Serving, ClientEnds
  <2>2. QED  BY <2>1 DEF ExchangeAt, Gone, Quiet
<1>2. QED  BY <1>1, ExchangeInvariant, PTL

\* One message at a time per connection.
LEMMA OneMessage ==
  ASSUME TypeOK, Exchange
  PROVE  OneInFlight
<1> SUFFICES ASSUME NEW s \in Sessions
             PROVE  /\ InFlight(s) <= 1
                    /\ cpc[s] = "waiting" /\ conn[s] = "open" => InFlight(s) = 1
  BY DEF OneInFlight
<1>1. ExchangeAt(s) /\ cpc[s] \in {"off", "menu", "waiting"}
  BY DEF Exchange, TypeOK, ClientTypeOK
<1>2. Quiet(s) => InFlight(s) = 0
  BY DEF Quiet, InFlight
<1>3. ASSUME NEW m, Requested(s, m) PROVE InFlight(s) = 1
  BY <1>3 DEF Requested, InFlight
<1>4. Served(s) => InFlight(s) = 1
  BY DEF Served, InFlight
<1>5. Answered(s) => InFlight(s) = 1
  <2> SUFFICES ASSUME Answered(s) PROVE InFlight(s) = 1
    OBVIOUS
  <2>1. /\ Len(toServer[s]) = 0
        /\ Len(toClient[s]) = 1
        /\ pc[s] \notin Serving
    BY DEF Answered
  <2>2. QED  BY <2>1 DEF InFlight
<1>6. QED
  BY <1>1, <1>2, <1>3, <1>4, <1>5 DEF ExchangeAt, AtMenu, Waiting, Gone

\* Without framing, one recv is still one whole message: every connection
\* carries at most one message, a waiting client of a standing connection has
\* exactly one on the way, and what it receives answers what it asked.
THEOREM AnswersAlwaysMatch == Spec => []AnswersMatch
<1>1. TypeOK /\ Exchange => AnswersMatch
  <2> SUFFICES ASSUME TypeOK, Exchange, NEW s \in Sessions, toClient[s] # <<>>
               PROVE  /\ cpc[s] = "waiting"
                      /\ Head(toClient[s]).kind \in AnswersTo(asked[s])
                      /\ Head(toClient[s]).amount = asked[s].amount
    BY OneMessage DEF AnswersMatch
  <2>1. ExchangeAt(s) /\ cpc[s] \in {"off", "menu", "waiting"}
    BY DEF Exchange, TypeOK, ClientTypeOK
  <2>2. QED
    BY <2>1
       DEF ExchangeAt, AtMenu, Waiting, Gone, Quiet, Requested, Served, Answered, Matches
<1>2. QED  BY <1>1, TypeCorrect, ExchangeInvariant, PTL

(***************************************************************************)
(* Refinement: while the server lives and its files open, AtmSystem        *)
(* implements AtmAccount.  The mapping is in AtmSystem; the file and the   *)
(* updated balance disappear behind the ledger.                            *)
(***************************************************************************)
NoFailures == ~ServerMayDie /\ ~ResourcesMayFail

\* A handler that creates the file left it empty; one that goes on past the
\* amount check has a positive amount to add or to take.
CarefulAt(s) ==
  /\ pc[s] = "createWrite" => account = Empty
  /\ pc[s] \in Critical \ {"unlock"} /\ request[s].op = "deposit" => request[s].amount > 0
  /\ pc[s] \in {"truncate", "write"} => request[s].amount > 0

Careful == \A s \in Sessions : CarefulAt(s)

\* A decision to update is a decision about a positive amount.
LEMMA DecideCareful ==
  ASSUME TypeOK, NEW s \in Sessions, CarefulAt(s), pc[s] \in Critical \ {"unlock"},
         NEW current, Decide(s, current), UNCHANGED request
  PROVE  CarefulAt(s)'
<1>1. pc \in [Sessions -> Steps]
  BY DEF TypeOK, ServerTypeOK
<1>2. CASE pc'[s] = "unlock"
  BY <1>2 DEF CarefulAt
<1>3. ASSUME NEW b, Update(s, b), request[s].amount > 0 PROVE CarefulAt(s)'
  BY <1>1, <1>3 DEF Update, CarefulAt
<1>4. CASE request[s].op = "deposit" /\ Update(s, current + request[s].amount)
  BY <1>3, <1>4 DEF CarefulAt
<1>5. CASE request[s].amount > 0 /\ Update(s, current - request[s].amount)
  BY <1>3, <1>5
<1>6. QED  BY <1>1, <1>2, <1>4, <1>5 DEF Decide, Say

\* Every step of a thread is careful.
LEMMA ThreadKeepsCareful ==
  ASSUME TypeOK, LockInv, Careful, NEW s \in Sessions, Thread(s), ~Die
  PROVE  Careful'
<1>t. /\ pc \in [Sessions -> Steps]
      /\ request \in [Sessions -> Requests \cup {NoRequest}]
  BY DEF TypeOK, ServerTypeOK
<1>c. CarefulAt(s) /\ {"createWrite", "truncate", "write"} \subseteq Critical
  BY DEF Careful, Critical
\* Another thread is either left alone or outside of the lock.
<1>q. ASSUME CarefulAt(s)',
             \A t \in Sessions \ {s} : pc'[t] = pc[t] /\ request'[t] = request[t],
             pc[s] \in Critical \/ account' = account
      PROVE  Careful'
  <2>1. ASSUME NEW t \in Sessions \ {s} PROVE CarefulAt(t)'
    <3>1. CASE pc[s] \in Critical
      <4>1. pc'[t] \notin Critical
        BY <1>q, <3>1 DEF LockInv
      <4>2. QED  BY <1>c, <4>1 DEF CarefulAt
    <3>2. CASE account' = account
      BY <1>q, <3>2 DEF Careful, CarefulAt
    <3>3. QED  BY <1>q, <3>1, <3>2
  <2>2. QED  BY <1>q, <2>1 DEF Careful
<1>d. ASSUME pc[s] \in Critical \ {"unlock"}, NEW current, Decide(s, current),
             UNCHANGED request
      PROVE  Careful'
  <2>1. \A t \in Sessions \ {s} : pc'[t] = pc[t]
    BY <1>d, <1>t DEF Decide, Say, Update
  <2>2. QED  BY <1>c, <1>d, <1>q, <2>1, DecideCareful
<1>1. CASE RecvRequest(s) \/ RecvEnd(s) \/ CloseClient(s)
  BY <1>1, <1>q, <1>t
     DEF RecvRequest, RecvEnd, CloseClient, Dispatch, CarefulAt, Critical
<1>2. CASE AcquireLock(s)
  <2>1. \/ pc'[s] = "unlock"
        \/ pc'[s] = "read" /\ ~(request[s].op = "deposit" /\ request[s].amount <= 0)
    <3>1. CASE request[s].op = "deposit" /\ request[s].amount <= 0
      BY <1>2, <1>t, <3>1 DEF AcquireLock
    <3>2. CASE ~(request[s].op = "deposit" /\ request[s].amount <= 0)
      BY <1>2, <1>t, <3>2 DEF AcquireLock
    <3>3. QED  BY <3>1, <3>2
  <2>2. request[s].amount \in Nat
    BY <1>2, RequestFacts DEF AcquireLock, Serving
  <2>3. CarefulAt(s)'
    BY <1>2, <2>1, <2>2 DEF AcquireLock, CarefulAt
  <2>4. QED  BY <1>2, <1>q, <1>t, <2>3 DEF AcquireLock
<1>3. CASE ReadBalance(s) \/ CreateOpenFails(s) \/ WriteCreated(s)
  BY <1>3, <1>d DEF ReadBalance, CreateOpenFails, WriteCreated, Critical
<1>4. CASE ReadOpenFails(s) \/ CreateAccount(s)
  BY <1>4, <1>c, <1>q, <1>t DEF ReadOpenFails, CreateAccount, CarefulAt, Critical
<1>5. CASE Truncate(s)
  BY <1>5, <1>c, <1>q, <1>t DEF Truncate, CarefulAt, Critical
<1>6. CASE WriteBalance(s) \/ UpdateOpenFails(s) \/ ReleaseLock(s)
  <2>1. /\ pc[s] \in Critical /\ pc'[s] \in {"unlock", "send"}
        /\ \A t \in Sessions \ {s} : pc'[t] = pc[t] /\ request'[t] = request[t]
    BY <1>6, <1>t DEF WriteBalance, UpdateOpenFails, ReleaseLock, Succeed, Critical
  <2>2. CarefulAt(s)'
    BY <2>1 DEF CarefulAt, Critical
  <2>3. QED  BY <1>q, <2>1, <2>2
<1>7. CASE SendReply(s)
  <2>1. /\ pc'[s] = "recv" /\ account' = account
        /\ \A t \in Sessions \ {s} : pc'[t] = pc[t] /\ request'[t] = request[t]
    BY <1>7, <1>t DEF SendReply
  <2>2. CarefulAt(s)'
    BY <2>1 DEF CarefulAt, Critical
  <2>3. QED  BY <1>q, <2>1, <2>2
<1>8. QED  BY <1>1, <1>2, <1>3, <1>4, <1>5, <1>6, <1>7 DEF Thread

\* What handlers know about their request, in every reachable state.
LEMMA CarefulInvariant == Spec => []Careful
<1>1. Init => Careful
  BY DEF Init, ServerInit, Careful, CarefulAt, Critical
<1>2. TypeOK /\ LockInv /\ Careful /\ SocketsOwned /\ [Next]_vars => Careful'
  <2> SUFFICES ASSUME TypeOK, LockInv, SocketsOwned, Careful, [Next]_vars PROVE Careful'
    OBVIOUS
  <2>1. CASE UNCHANGED serverVars
    BY <2>1 DEF serverVars, Careful, CarefulAt
  <2>2. CASE Die
    BY <2>2 DEF Die, Careful, CarefulAt, Critical
  <2>3. CASE StartServer
    BY <2>3 DEF StartServer, Careful, CarefulAt
  <2>4. ASSUME NEW s \in Sessions, Accept(s) PROVE Careful'
    BY <2>4 DEF Accept, Careful, CarefulAt, Critical, TypeOK, ServerTypeOK
  <2>5. ASSUME NEW s \in Sessions, AcceptWithoutThread(s) PROVE Careful'
    BY <2>1, <2>5 DEF AcceptWithoutThread
  <2>6. QED
    BY <2>1, <2>2, <2>3, <2>4, <2>5, ThreadKeepsCareful
       DEF Next, ServerStep, ServerNext, ServerKilled, ClientStep, vars
<1>3. QED  BY <1>1, <1>2, TypeCorrect, SocketsAlwaysOwned, MutualExclusion, PTL DEF Spec

\* Without failures no write is lost.
LEMMA NothingIsLost == NoFailures /\ Spec => []~lost
<1> SUFFICES ASSUME NoFailures PROVE Spec => []~lost
  OBVIOUS
<1>1. Init => ~lost
  BY DEF Init, ServerInit
<1>2. TypeOK /\ Exchange /\ ~lost /\ [Next]_vars => ~lost'
  <2> SUFFICES ASSUME TypeOK, Exchange, ~lost, [Next]_vars PROVE ~lost'
    OBVIOUS
  <2>1. CASE UNCHANGED serverVars
    BY <2>1 DEF serverVars
  <2>2. ASSUME NEW s \in Sessions, SendReply(s), UNCHANGED clientVars PROVE ~lost'
    BY <2>2, SendKeepsExchange DEF SendReply
  <2>3. ASSUME NEW s \in Sessions, Thread(s), ~SendReply(s) PROVE ~lost'
    BY <2>3
       DEF NoFailures, Thread, RecvRequest, RecvEnd, CloseClient, AcquireLock,
           ReadBalance, ReadOpenFails, CreateAccount, CreateOpenFails, WriteCreated,
           Truncate, WriteBalance, UpdateOpenFails, ReleaseLock
  <2>4. CASE StartServer \/ \E s \in Sessions : Accept(s) \/ AcceptWithoutThread(s)
    BY <2>4 DEF StartServer, Accept, AcceptWithoutThread, serverVars
  <2>5. QED
    BY <2>1, <2>2, <2>3, <2>4
       DEF NoFailures, Next, ServerStep, ServerNext, ServerKilled, ClientStep, vars
<1>3. QED  BY <1>1, <1>2, TypeCorrect, ExchangeInvariant, PTL DEF Spec

\* The balance of the abstract account is the ledger, also in the middle of a
\* write, when the file itself is empty.
BalanceIsLedger == AbstractBalance = ledger

LEMMA BalanceMapping ==
  ASSUME TypeOK, LockInv, StoreInv, Careful, ~lost
  PROVE  BalanceIsLedger
<1>1. ASSUME NEW s \in Sessions, pc[s] = "write" PROVE AbstractBalance = ledger
  <2>1. pc[s] \in Critical
    BY <1>1 DEF Critical
  <2>2. \A t \in Sessions : pc[t] = "write" => t = s
    BY <2>1 DEF LockInv, Critical
  <2>3. (CHOOSE t \in Sessions : pc[t] = "write") = s
    BY <1>1, <2>2
  <2>4. AbstractBalance = BalanceBefore(s)
    BY <1>1, <2>3 DEF AbstractBalance
  <2>5. request[s].amount \in Nat /\ ledger \in Int
    BY <1>1, RequestFacts DEF Serving, Critical, TypeOK, ServerTypeOK
  <2>6. UpdateIsCurrent(s)
    BY <1>1 DEF StoreInv
  <2>7. QED  BY <2>4, <2>5, <2>6 DEF BalanceBefore, UpdateIsCurrent
<1>2. CASE \A s \in Sessions : pc[s] # "write"
  <2>1. AbstractBalance = IF account = Empty THEN 0 ELSE Stored
    BY <1>2 DEF AbstractBalance
  <2>2. CASE \E s \in Sessions : pc[s] = "createWrite"
    <3>1. account = Empty /\ ledger = 0
      BY <2>2 DEF Careful, CarefulAt, StoreInv
    <3>2. QED  BY <2>1, <3>1 DEF BalanceIsLedger
  <2>3. CASE \A s \in Sessions : pc[s] # "createWrite"
    <3>1. Stored = ledger /\ ledger \in Int
      BY <1>2, <2>3 DEF StoreInv, LedgerExact, Window, TypeOK, ServerTypeOK
    <3>2. account # Empty
      BY <3>1, DistinctAssumption DEF Stored
    <3>3. QED  BY <2>1, <3>1, <3>2 DEF BalanceIsLedger
  <2>4. QED  BY <2>2, <2>3
<1>3. QED  BY <1>1, <1>2 DEF BalanceIsLedger

AbstractStep == [AbstractAccount!Next]_(AbstractAccount!vars)

\* A step of one session changes that session's abstract call and answer only.
LEMMA AbstractOneSession ==
  ASSUME NEW s \in Sessions,
         \A t \in Sessions \ {s} :
           /\ pc'[t] = pc[t] /\ request'[t] = request[t] /\ reply'[t] = reply[t]
           /\ toServer'[t] = toServer[t]
  PROVE  /\ AbstractCall' = [AbstractCall EXCEPT ![s] = AbstractCall'[s]]
         /\ AbstractAnswer' = [AbstractAnswer EXCEPT ![s] = AbstractAnswer'[s]]
<1>1. \A t \in Sessions \ {s} : /\ AbstractCall'[t] = AbstractCall[t]
                                /\ AbstractAnswer'[t] = AbstractAnswer[t]
  BY DEF AbstractCall, AbstractAnswer
<1>2. /\ AbstractCall = [t \in Sessions |-> AbstractCall[t]]
      /\ AbstractCall' = [t \in Sessions |-> AbstractCall'[t]]
  BY DEF AbstractCall
<1>3. /\ AbstractAnswer = [t \in Sessions |-> AbstractAnswer[t]]
      /\ AbstractAnswer' = [t \in Sessions |-> AbstractAnswer'[t]]
  BY DEF AbstractAnswer
<1>4. QED  BY <1>1, <1>2, <1>3

\* Where neither changes and the ledger stands, the account does nothing.
LEMMA AbstractStutter ==
  ASSUME NEW s \in Sessions, BalanceIsLedger, BalanceIsLedger', ledger' = ledger,
         AbstractCall'[s] = AbstractCall[s], AbstractAnswer'[s] = AbstractAnswer[s],
         \A t \in Sessions \ {s} :
           /\ pc'[t] = pc[t] /\ request'[t] = request[t] /\ reply'[t] = reply[t]
           /\ toServer'[t] = toServer[t]
  PROVE  AbstractStep
<1>1. UNCHANGED <<AbstractCall, AbstractAnswer>>
  <2>1. AbstractCall' = [AbstractCall EXCEPT ![s] = AbstractCall[s]]
    BY AbstractOneSession
  <2>2. AbstractAnswer' = [AbstractAnswer EXCEPT ![s] = AbstractAnswer[s]]
    BY AbstractOneSession
  <2>3. QED  BY <2>1, <2>2 DEF AbstractCall, AbstractAnswer
<1>2. AbstractBalance' = AbstractBalance
  BY DEF BalanceIsLedger
<1>3. QED  BY <1>1, <1>2 DEF AbstractStep, AbstractAccount!vars

\* A step that answers with a record r of the abstract account.
LEMMA AbstractAnswers ==
  ASSUME TypeOK, NEW s \in Sessions, BalanceIsLedger, BalanceIsLedger',
         pc[s] \in Serving \ {"unlock", "send"}, pc'[s] = "unlock", request' = request,
         \A t \in Sessions \ {s} :
           pc'[t] = pc[t] /\ reply'[t] = reply[t] /\ toServer'[t] = toServer[t]
  PROVE  /\ AbstractCall[s] = request[s]
         /\ AbstractCall[s] # NoReply
         /\ AbstractAccount!Answer(s, reply'[s])
<1>1. /\ AbstractCall[s] = request[s] /\ AbstractCall'[s] = request[s]
      /\ AbstractAnswer[s] = NoReply /\ AbstractAnswer'[s] = reply'[s]
  BY DEF AbstractCall, AbstractAnswer, Serving, Critical
<1>2. UNCHANGED AbstractCall
  <2>1. AbstractCall' = [AbstractCall EXCEPT ![s] = AbstractCall[s]]
    BY <1>1, AbstractOneSession
  <2>2. QED  BY <2>1 DEF AbstractCall
<1>3. AbstractAnswer' = [AbstractAnswer EXCEPT ![s] = reply'[s]]
  BY <1>1, AbstractOneSession
<1>4. AbstractCall[s] # NoReply
  BY <1>1, RequestFacts, DistinctAssumption
<1>5. QED  BY <1>1, <1>2, <1>3, <1>4 DEF AbstractAccount!Answer

\* A handler that read the true balance refuses, shows the balance, or has yet
\* to write.
LEMMA DecideImplements ==
  ASSUME TypeOK, NEW s \in Sessions, BalanceIsLedger, BalanceIsLedger',
         pc[s] \in Serving \ {"unlock", "send"}, Decide(s, ledger),
         UNCHANGED <<request, toServer, ledger>>
  PROVE  AbstractStep
<1>t. /\ pc \in [Sessions -> Steps]
      /\ reply \in [Sessions -> Replies \cup {NoReply}]
      /\ request[s].amount \in Nat
  BY RequestFacts DEF TypeOK, ServerTypeOK
<1>o. \A t \in Sessions \ {s} : pc'[t] = pc[t] /\ reply'[t] = reply[t]
  BY <1>t DEF Decide, Say, Update
<1>b. AbstractBalance = ledger /\ AbstractBalance' = AbstractBalance
  BY DEF BalanceIsLedger
<1>s. ASSUME NEW k, NEW b, Say(s, k, b)
      PROVE  /\ AbstractCall[s] = request[s] /\ AbstractCall[s] # NoReply
             /\ AbstractAccount!Answer(s, AbstractAccount!Reply(k, request[s], b))
  <2>1. pc'[s] = "unlock" /\ reply'[s] = Answer(s, k, b)
    BY <1>s, <1>t DEF Say
  <2>2. reply'[s] = AbstractAccount!Reply(k, request[s], b)
    BY <2>1 DEF Answer, AbstractAccount!Reply
  <2>3. QED  BY <1>o, <2>1, <2>2, AbstractAnswers
<1>1. CASE request[s].op = "withdraw" /\ request[s].amount <= 0 /\ Say(s, "invalid", 0)
  <2>1. request[s].amount = 0
    BY <1>1, <1>t
  <2>2. AbstractAccount!Refuse(s)
    BY <1>1, <1>b, <1>s, <2>1 DEF AbstractAccount!Refuse
  <2>3. QED  BY <2>2 DEF AbstractStep, AbstractAccount!Next
<1>2. CASE /\ request[s].op = "withdraw" /\ request[s].amount > ledger
           /\ Say(s, "poor", ledger)
  <2>1. AbstractAccount!Refuse(s)
    BY <1>2, <1>b, <1>s DEF AbstractAccount!Refuse
  <2>2. QED  BY <2>1 DEF AbstractStep, AbstractAccount!Next
<1>3. CASE request[s].op = "balance" /\ Say(s, "balance", ledger)
  <2>1. AbstractAccount!ShowBalance(s)
    BY <1>3, <1>b, <1>s DEF AbstractAccount!ShowBalance
  <2>2. QED  BY <2>1 DEF AbstractStep, AbstractAccount!Next
<1>4. ASSUME NEW b, Update(s, b) PROVE AbstractStep
  <2>1. pc'[s] = "truncate" /\ reply' = reply
    BY <1>4, <1>t DEF Update
  <2>2. AbstractCall'[s] = AbstractCall[s] /\ AbstractAnswer'[s] = AbstractAnswer[s]
    BY <2>1 DEF AbstractCall, AbstractAnswer, Serving, Critical
  <2>3. QED  BY <1>o, <2>2, AbstractStutter
<1>5. QED  BY <1>1, <1>2, <1>3, <1>4 DEF Decide

\* The whole write of an update is one withdrawal or one deposit.
LEMMA WriteImplements ==
  ASSUME TypeOK, StoreInv, Exchange, Careful, ~lost, NEW s \in Sessions,
         BalanceIsLedger, BalanceIsLedger', WriteBalance(s)
  PROVE  AbstractStep
<1>1. /\ pc[s] = "write" /\ pc[s] \in Serving \ {"unlock", "send"}
      /\ UNCHANGED <<request, toServer>>
      /\ Succeed(s)
  BY DEF WriteBalance, Serving, Critical, netVars
<1>2. /\ pc'[s] = "unlock"
      /\ \A t \in Sessions \ {s} : pc'[t] = pc[t] /\ reply'[t] = reply[t]
      /\ reply'[s] = Answer(s, IF request[s].op = "deposit" THEN "deposited"
                                                             ELSE "withdrawn", newBalance[s])
      /\ ledger' = IF request[s].op = "deposit" THEN ledger + request[s].amount
                                                ELSE ledger - request[s].amount
  BY <1>1 DEF Succeed, TypeOK, ServerTypeOK
<1>3. /\ request[s].amount \in Nat /\ request[s].amount > 0
      /\ request[s].op \in {"withdraw", "deposit"}
      /\ UpdateIsCurrent(s) /\ ledger \in Int
  BY <1>1, RequestFacts
     DEF Careful, CarefulAt, Exchange, ExchangeAt, Answering, StoreInv, TypeOK, ServerTypeOK
<1>4. newBalance[s] = ledger' /\ (request[s].op = "withdraw" => request[s].amount <= ledger)
  BY <1>2, <1>3 DEF UpdateIsCurrent
<1>5. /\ AbstractCall[s] = request[s] /\ AbstractCall[s] # NoReply
      /\ AbstractAccount!Answer(s, reply'[s])
  BY <1>1, <1>2, AbstractAnswers
<1>6. AbstractBalance = ledger /\ AbstractBalance' = ledger'
  BY DEF BalanceIsLedger
<1>7. CASE request[s].op = "deposit"
  <2>1. reply'[s] = AbstractAccount!Reply("deposited", request[s], ledger')
    BY <1>2, <1>4, <1>7 DEF Answer, AbstractAccount!Reply
  <2>2. AbstractAccount!Deposit(s)
    BY <1>2, <1>3, <1>5, <1>6, <1>7, <2>1 DEF AbstractAccount!Deposit
  <2>3. QED  BY <2>2 DEF AbstractStep, AbstractAccount!Next
<1>8. CASE request[s].op = "withdraw"
  <2>1. reply'[s] = AbstractAccount!Reply("withdrawn", request[s], ledger')
    BY <1>2, <1>4, <1>8 DEF Answer, AbstractAccount!Reply
  <2>2. AbstractAccount!Withdraw(s)
    BY <1>2, <1>3, <1>4, <1>5, <1>6, <1>8, <2>1 DEF AbstractAccount!Withdraw
  <2>3. QED  BY <2>2 DEF AbstractStep, AbstractAccount!Next
<1>9. QED  BY <1>3, <1>7, <1>8

\* Taking the lock answers a deposit of nothing, and shows nothing otherwise.
LEMMA LockImplements ==
  ASSUME TypeOK, NEW s \in Sessions, BalanceIsLedger, BalanceIsLedger', AcquireLock(s)
  PROVE  AbstractStep
<1>1. /\ pc[s] = "lock" /\ pc[s] \in Serving \ {"unlock", "send"}
      /\ UNCHANGED <<request, toServer, ledger>>
      /\ \A t \in Sessions \ {s} : pc'[t] = pc[t] /\ reply'[t] = reply[t]
  BY DEF AcquireLock, Serving, Critical, netVars, TypeOK, ServerTypeOK
<1>2. CASE request[s].op = "deposit" /\ request[s].amount <= 0
  <2>1. pc'[s] = "unlock" /\ reply'[s] = AbstractAccount!Reply("invalid", request[s], 0)
    BY <1>2 DEF AcquireLock, Answer, AbstractAccount!Reply, TypeOK, ServerTypeOK
  <2>2. request[s].amount = 0
    BY <1>1, <1>2, RequestFacts
  <2>3. /\ AbstractCall[s] = request[s] /\ AbstractCall[s] # NoReply
        /\ AbstractAccount!Answer(s, reply'[s])
    BY <1>1, <2>1, AbstractAnswers
  <2>4. AbstractAccount!Refuse(s)
    BY <1>1, <1>2, <2>1, <2>2, <2>3 DEF AbstractAccount!Refuse, BalanceIsLedger
  <2>5. QED  BY <2>4 DEF AbstractStep, AbstractAccount!Next
<1>3. CASE ~(request[s].op = "deposit" /\ request[s].amount <= 0)
  <2>1. pc'[s] = "read" /\ reply'[s] = reply[s]
    BY <1>3 DEF AcquireLock, TypeOK, ServerTypeOK
  <2>2. AbstractCall'[s] = AbstractCall[s] /\ AbstractAnswer'[s] = AbstractAnswer[s]
    BY <1>1, <2>1 DEF AbstractCall, AbstractAnswer, Serving, Critical
  <2>3. QED  BY <1>1, <2>2, AbstractStutter
<1>4. QED  BY <1>2, <1>3

\* Handing out the answer ends the call.
LEMMA SendImplements ==
  ASSUME TypeOK, Exchange, NEW s \in Sessions, BalanceIsLedger, BalanceIsLedger',
         SendReply(s), UNCHANGED clientVars
  PROVE  AbstractStep
<1>1. conn[s] # "clientReset"
  BY SendKeepsExchange
<1>2. /\ pc[s] = "send" /\ pc'[s] = "recv" /\ reply[s] \in Replies
      /\ UNCHANGED <<toServer, ledger>>
      /\ \A t \in Sessions \ {s} :
           pc'[t] = pc[t] /\ request'[t] = request[t] /\ reply'[t] = reply[t]
  BY <1>1 DEF SendReply, NetServerSend, TypeOK, ServerTypeOK
<1>3. toServer[s] = <<>>
  BY <1>2 DEF Exchange, ExchangeAt, AtMenu, Waiting, Gone, Quiet, Requested, Served,
              Answered, Serving, TypeOK, ClientTypeOK
<1>4. /\ AbstractAnswer[s] = reply[s] /\ AbstractAnswer[s] # NoReply
      /\ AbstractAnswer'[s] = NoReply /\ AbstractCall'[s] = NoReply
  BY <1>2, <1>3, DistinctAssumption DEF AbstractAnswer, AbstractCall, Serving, Critical
<1>5. AbstractAccount!Return(s)
  BY <1>2, <1>4, AbstractOneSession DEF AbstractAccount!Return, BalanceIsLedger
<1>6. QED  BY <1>5 DEF AbstractStep, AbstractAccount!Next

\* A connection closed before its request was looked at drops the call.
LEMMA DropImplements ==
  ASSUME NEW s \in Sessions, BalanceIsLedger, BalanceIsLedger', UNCHANGED ledger,
         pc[s] \notin Serving, pc'[s] \notin Serving, toServer'[s] = <<>>,
         \A t \in Sessions \ {s} :
           /\ pc'[t] = pc[t] /\ request'[t] = request[t] /\ reply'[t] = reply[t]
           /\ toServer'[t] = toServer[t]
  PROVE  AbstractStep
<1>1. /\ AbstractAnswer[s] = NoReply /\ AbstractAnswer'[s] = NoReply
      /\ AbstractCall'[s] = NoReply
  BY DEF AbstractAnswer, AbstractCall, Serving, Critical
<1>2. /\ AbstractCall' = [AbstractCall EXCEPT ![s] = NoReply]
      /\ AbstractAnswer' = [AbstractAnswer EXCEPT ![s] = NoReply]
  BY <1>1, AbstractOneSession
<1>3. AbstractAnswer' = AbstractAnswer
  BY <1>1, <1>2 DEF AbstractAnswer
<1>4. AbstractAccount!Drop(s)
  BY <1>1, <1>2, <1>3 DEF AbstractAccount!Drop, BalanceIsLedger
<1>5. QED  BY <1>4 DEF AbstractStep, AbstractAccount!Next

\* Every step of a thread implements a step of the account or none.
LEMMA ThreadImplements ==
  ASSUME NoFailures, TypeOK, LockInv, StoreInv, Exchange, Careful, ~lost,
         NEW s \in Sessions, BalanceIsLedger, BalanceIsLedger',
         Thread(s), UNCHANGED clientVars
  PROVE  AbstractStep
<1>t. /\ pc \in [Sessions -> Steps]
      /\ request \in [Sessions -> Requests \cup {NoRequest}]
      /\ reply \in [Sessions -> Replies \cup {NoReply}]
      /\ toServer \in [Sessions -> Seq(Requests)]
      /\ account \in Int \cup {Missing, Empty} /\ ledger \in Int
  BY DEF TypeOK, ServerTypeOK, NetTypeOK
<1>1. CASE RecvRequest(s)
  <2>1. /\ toServer[s] # <<>> /\ toServer'[s] = <<>> /\ reply' = reply /\ ledger' = ledger
        /\ pc[s] = "recv" /\ pc'[s] = Dispatch(Head(toServer[s]).op)
        /\ request'[s] = Head(toServer[s])
        /\ \A t \in Sessions \ {s} : /\ pc'[t] = pc[t] /\ request'[t] = request[t]
                                     /\ toServer'[t] = toServer[t]
    BY <1>1, <1>t DEF RecvRequest
  <2>2. AbstractCall'[s] = AbstractCall[s] /\ AbstractAnswer'[s] = AbstractAnswer[s]
    BY <2>1 DEF AbstractCall, AbstractAnswer, Dispatch, Serving, Critical
  <2>3. QED  BY <2>1, <2>2, AbstractStutter
<1>2. CASE RecvEnd(s)
  <2>1. /\ pc[s] = "recv" /\ pc'[s] = "close"
        /\ UNCHANGED <<toServer, request, reply, ledger>>
        /\ \A t \in Sessions \ {s} : pc'[t] = pc[t]
    BY <1>2, <1>t DEF RecvEnd, netVars
  <2>2. AbstractCall'[s] = AbstractCall[s] /\ AbstractAnswer'[s] = AbstractAnswer[s]
    BY <2>1 DEF AbstractCall, AbstractAnswer, Serving, Critical
  <2>3. QED  BY <2>1, <2>2, AbstractStutter
<1>3. CASE CloseClient(s)
  <2>1. /\ pc[s] \notin Serving /\ pc'[s] \notin Serving /\ toServer'[s] = <<>>
        /\ UNCHANGED <<reply, ledger>>
        /\ \A t \in Sessions \ {s} : /\ pc'[t] = pc[t] /\ request'[t] = request[t]
                                     /\ toServer'[t] = toServer[t]
    BY <1>3, <1>t DEF CloseClient, NetServerClose, Serving, Critical
  <2>2. QED  BY <2>1, DropImplements
<1>4. CASE ReadBalance(s)
  <2>1. PICK current \in ReadValues : Decide(s, current)
    BY <1>4 DEF ReadBalance
  <2>2. current = ledger
    <3>1. \A t \in Sessions : pc[t] \notin Window
      BY <1>4 DEF ReadBalance, LockInv, Critical, Window
    <3>2. Stored = ledger /\ account # Missing
      BY <1>4, <3>1 DEF StoreInv, LedgerExact, ReadBalance
    <3>3. account # Empty
      BY <3>2, <1>t, DistinctAssumption DEF Stored
    <3>4. QED  BY <2>1, <3>2, <3>3 DEF Stored, ReadValues
  <2>3. QED
    BY <1>4, <2>1, <2>2, DecideImplements DEF ReadBalance, Serving, Critical, netVars
<1>5. CASE WriteCreated(s)
  <2>1. ledger = 0
    BY <1>5 DEF WriteCreated, StoreInv
  <2>2. QED
    BY <1>5, <2>1, DecideImplements DEF WriteCreated, Serving, Critical, netVars
<1>6. CASE ReadOpenFails(s) \/ CreateAccount(s) \/ Truncate(s)
  <2>1. /\ {pc[s], pc'[s]} \subseteq Serving \ {"unlock", "send"}
        /\ UNCHANGED <<toServer, request, reply, ledger>>
        /\ \A t \in Sessions \ {s} : pc'[t] = pc[t]
    BY <1>6, <1>t DEF ReadOpenFails, CreateAccount, Truncate, netVars, Serving, Critical
  <2>2. AbstractCall'[s] = AbstractCall[s] /\ AbstractAnswer'[s] = AbstractAnswer[s]
    BY <2>1 DEF AbstractCall, AbstractAnswer
  <2>3. QED  BY <2>1, <2>2, AbstractStutter
<1>7. CASE ReleaseLock(s)
  <2>1. /\ pc[s] = "unlock" /\ pc'[s] = "send"
        /\ UNCHANGED <<toServer, request, reply, ledger>>
        /\ \A t \in Sessions \ {s} : pc'[t] = pc[t]
    BY <1>7, <1>t DEF ReleaseLock, netVars
  <2>2. AbstractCall'[s] = AbstractCall[s] /\ AbstractAnswer'[s] = AbstractAnswer[s]
    BY <2>1 DEF AbstractCall, AbstractAnswer, Serving, Critical
  <2>3. QED  BY <2>1, <2>2, AbstractStutter
<1>8. CASE CreateOpenFails(s) \/ UpdateOpenFails(s)
  BY <1>8 DEF NoFailures, CreateOpenFails, UpdateOpenFails
<1>9. QED
  BY <1>1, <1>2, <1>3, <1>4, <1>5, <1>6, <1>7, <1>8, LockImplements, WriteImplements,
     SendImplements DEF Thread

\* Nor does the rest of the server do anything to the account.
LEMMA ServerImplements ==
  ASSUME NoFailures, TypeOK, LockInv, StoreInv, SocketsOwned, Exchange, Careful, ~lost,
         BalanceIsLedger, BalanceIsLedger', ServerStep
  PROVE  AbstractStep
<1>1. UNCHANGED clientVars /\ ServerNext
  BY DEF ServerStep
<1>2. CASE StartServer
  BY <1>2 DEF StartServer, netVars, AbstractStep, AbstractAccount!vars, AbstractCall,
              AbstractAnswer, BalanceIsLedger
<1>3. ASSUME NEW s \in Sessions, Accept(s) PROVE AbstractStep
  <2>1. /\ pc[s] = "none" /\ pc'[s] = "recv"
        /\ UNCHANGED <<toServer, request, reply, ledger>>
        /\ \A t \in Sessions \ {s} : pc'[t] = pc[t]
    BY <1>3, BacklogHead DEF Accept, SocketsOwned, TypeOK, ServerTypeOK
  <2>2. AbstractCall'[s] = AbstractCall[s] /\ AbstractAnswer'[s] = AbstractAnswer[s]
    BY <2>1 DEF AbstractCall, AbstractAnswer, Serving, Critical
  <2>3. QED  BY <2>1, <2>2, AbstractStutter
<1>4. CASE ServerKilled \/ \E s \in Sessions : AcceptWithoutThread(s)
  BY <1>4 DEF NoFailures, ServerKilled, AcceptWithoutThread
<1>5. QED
  BY <1>1, <1>2, <1>3, <1>4, ThreadImplements DEF ServerNext

\* A client invokes an operation when its request reaches a living server, and
\* drops it at most by leaving.
LEMMA ClientImplements ==
  ASSUME TypeOK, Exchange, NEW s \in Sessions, BalanceIsLedger, BalanceIsLedger',
         ClientStep(s)
  PROVE  AbstractStep
<1>t. /\ conn \in [Sessions -> ConnStates]
      /\ toServer \in [Sessions -> Seq(Requests)]
  BY DEF TypeOK, NetTypeOK
<1>n. UNCHANGED <<pc, request, reply, ledger>>
  BY DEF ClientStep, serverVars
<1>q. ASSUME UNCHANGED toServer PROVE AbstractStep
  BY <1>n, <1>q, AbstractStutter DEF AbstractCall, AbstractAnswer
<1>1. ASSUME NEW m \in Menu, SendRequest(s, m) PROVE AbstractStep
  <2>1. /\ cpc[s] = "menu"
        /\ toServer' = [toServer EXCEPT ![s] = IF conn[s] = "open" THEN Append(@, m) ELSE @]
    BY <1>1 DEF SendRequest, NetClientSend
  <2>2. Quiet(s)
    BY <2>1 DEF Exchange, ExchangeAt, AtMenu
  <2>3. CASE conn[s] = "open"
    <3>1. /\ toServer'[s] = <<m>>
          /\ \A t \in Sessions \ {s} : toServer'[t] = toServer[t]
      BY <1>t, <2>1, <2>2, <2>3 DEF Quiet
    <3>2. toServer'[s] # <<>> /\ Head(toServer'[s]) = m /\ m.op # "exit"
      BY <3>1 DEF Menu
    <3>3. /\ AbstractCall[s] = NoReply /\ AbstractCall'[s] = m
          /\ AbstractAnswer[s] = NoReply /\ AbstractAnswer'[s] = NoReply
      BY <1>n, <2>2, <3>2 DEF Quiet, AbstractCall, AbstractAnswer, Serving, Critical
    <3>4. /\ AbstractCall' = [AbstractCall EXCEPT ![s] = m]
          /\ AbstractAnswer' = AbstractAnswer
      BY <1>n, <3>1, <3>3, AbstractOneSession DEF AbstractAnswer
    <3>5. AbstractAccount!Invoke(s)
      BY <1>n, <3>3, <3>4 DEF AbstractAccount!Invoke, BalanceIsLedger
    <3>6. QED  BY <3>5 DEF AbstractStep, AbstractAccount!Next
  <2>4. CASE conn[s] # "open"
    BY <1>q, <1>t, <2>1, <2>4
  <2>5. QED  BY <2>3, <2>4
<1>2. ASSUME NEW m, Leave(s, m),
             m = <<>> \/ (cpc[s] = "menu" /\ m = <<[op |-> "exit", amount |-> 0]>>)
      PROVE  AbstractStep
  <2>1. /\ toServer'[s] = IF AfterClientClose(s) = "clientClosed" THEN toServer[s] \o m ELSE <<>>
        /\ \A t \in Sessions \ {s} : toServer'[t] = toServer[t]
    BY <1>2, <1>t DEF Leave, NetClientClose
  <2>2. CASE pc[s] \in Serving
    <3>1. AbstractCall'[s] = AbstractCall[s] /\ AbstractAnswer'[s] = AbstractAnswer[s]
      BY <1>n, <2>2 DEF AbstractCall, AbstractAnswer
    <3>2. QED  BY <1>n, <2>1, <3>1, AbstractStutter
  <2>3. CASE pc[s] \notin Serving /\ toServer'[s] = <<>>
    BY <1>n, <2>1, <2>3, DropImplements
  <2>4. CASE pc[s] \notin Serving /\ m = <<>> /\ toServer'[s] = toServer[s]
    <3>1. AbstractCall'[s] = AbstractCall[s] /\ AbstractAnswer'[s] = AbstractAnswer[s]
      BY <1>n, <2>4 DEF AbstractCall, AbstractAnswer
    <3>2. QED  BY <1>n, <2>1, <3>1, AbstractStutter
  <2>5. CASE /\ cpc[s] = "menu" /\ m = <<[op |-> "exit", amount |-> 0]>>
             /\ toServer'[s] = toServer[s] \o m
    <3>1. toServer[s] = <<>> /\ pc[s] \notin Serving
      BY <2>5 DEF Exchange, ExchangeAt, AtMenu, Quiet
    <3>2. toServer'[s] = <<[op |-> "exit", amount |-> 0]>>
      BY <2>5, <3>1
    <3>3. Head(toServer'[s]).op = "exit"
      BY <3>2
    <3>4. AbstractCall'[s] = AbstractCall[s] /\ AbstractAnswer'[s] = AbstractAnswer[s]
      BY <1>n, <3>1, <3>3 DEF AbstractCall, AbstractAnswer
    <3>5. QED  BY <1>n, <2>1, <3>4, AbstractStutter
  <2>6. m = <<>> => toServer[s] \o m = toServer[s]
    BY <1>t
  <2>7. QED  BY <1>2, <2>1, <2>2, <2>3, <2>4, <2>5, <2>6
<1>3. CASE Connect(s) \/ ReceiveResponse(s) \/ ReceiveNothing(s)
  BY <1>3, <1>q DEF Connect, NetConnect, ReceiveResponse, ReceiveNothing, netVars
<1>4. CASE Quit(s) \/ BrokenPipe(s) \/ Interrupt(s)
  <2>1. \/ Leave(s, <<>>)
        \/ cpc[s] = "menu" /\ Leave(s, <<[op |-> "exit", amount |-> 0]>>)
    BY <1>4 DEF Quit, BrokenPipe, Interrupt
  <2>2. QED  BY <1>2, <2>1
<1>5. QED  BY <1>1, <1>3, <1>4 DEF ClientStep, Client

\* While the server is not killed and its calls succeed, the sockets, the lock
\* and the account file implement one account: every request takes effect at
\* one instant between its arrival and its answer, for any number of clients,
\* whenever they leave.
THEOREM AccountIsLinearizable == NoFailures => (Spec => ImplementsAccount)
<1> SUFFICES ASSUME NoFailures PROVE Spec => ImplementsAccount
  OBVIOUS
<1>1. Init => AbstractAccount!Init
  <2> SUFFICES ASSUME Init PROVE AbstractAccount!Init
    OBVIOUS
  <2>1. \A s \in Sessions : pc[s] = "none" /\ toServer[s] = <<>>
    BY DEF Init, NetInit, ServerInit
  <2>2. AbstractBalance = IF InitialAccount = Missing THEN 0 ELSE InitialAccount
    BY <2>1, InitialAccountAssumption, DistinctAssumption
       DEF Init, ServerInit, AbstractBalance, Stored
  <2>3. /\ AbstractCall = [s \in Sessions |-> NoReply]
        /\ AbstractAnswer = [s \in Sessions |-> NoReply]
    BY <2>1 DEF AbstractCall, AbstractAnswer, Serving, Critical
  <2>4. QED  BY <2>2, <2>3 DEF AbstractAccount!Init
<1>2. TypeOK /\ LockInv /\ StoreInv /\ Careful /\ ~lost => BalanceIsLedger
  BY BalanceMapping
<1>3. /\ TypeOK /\ LockInv /\ StoreInv /\ SocketsOwned /\ Exchange /\ Careful /\ ~lost
      /\ BalanceIsLedger /\ BalanceIsLedger' /\ [Next]_vars
      => [AbstractAccount!Next]_(AbstractAccount!vars)
  <2>1. BalanceIsLedger /\ BalanceIsLedger' /\ UNCHANGED vars => AbstractStep
    BY DEF vars, netVars, serverVars, AbstractStep, AbstractAccount!vars, AbstractCall,
           AbstractAnswer, BalanceIsLedger
  <2>2. QED
    BY <2>1, ServerImplements, ClientImplements DEF Next, AbstractStep
<1>4. Spec => []~lost
  BY NothingIsLost
<1>5. QED
  BY <1>1, <1>2, <1>3, <1>4, TypeCorrect, MutualExclusion, StoreInvariant,
     SocketsAlwaysOwned, ExchangeInvariant, CarefulInvariant, PTL
     DEF Spec, ImplementsAccount, AbstractAccount!Spec
=============================================================================
