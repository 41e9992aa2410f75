------------------------------- MODULE AtmNet -------------------------------
(***************************************************************************)
(* The stream sockets between the ATM clients and the ATM server, as       *)
(* client.c and server.c use them.  The kernel is not part of the          *)
(* repository: the operators below say what a call made by either program  *)
(* does to the connection, and nothing else.                               *)
(*                                                                         *)
(* A session is one client process, its connection and the server thread   *)
(* that serves it.  conn[s] is the state of the connection:                *)
(*   none          neither end exists                                      *)
(*   open          both ends exist (accepted or still in the backlog)      *)
(*   clientClosed  the client's end is gone, the server reads end-of-file  *)
(*   serverClosed  the server's end is gone, the client reads end-of-file  *)
(*   clientReset   the client's end is gone, the server's end got a reset  *)
(*   serverReset   the server's end is gone, the client's end got a reset  *)
(***************************************************************************)
EXTENDS Integers, Sequences

CONSTANTS
  Sessions,   \* client processes that may be connected
  Amounts,    \* amounts, in cents, a client can type ("%.2f" of a tiny one is 0)
  Backlog     \* connections the kernel holds for accept()

ASSUME AmountsAssumption == Amounts \subseteq Nat
ASSUME BacklogAssumption == Backlog \in Nat \ {0}

VARIABLES
  conn,       \* conn[s]: state of the session's connection
  backlog,    \* sessions connected and not accepted yet, oldest first
  toServer,   \* toServer[s]: requests sent and not read
  toClient    \* toClient[s]: replies sent and not read

netVars == <<conn, backlog, toServer, toClient>>

Operations == {"withdraw", "deposit", "balance", "exit"}
Requests   == [op : Operations, amount : Amounts \cup {0}]
ReplyKinds == {"withdrawn", "deposited", "poor", "invalid", "balance"}
Replies    == [kind : ReplyKinds, amount : Amounts \cup {0}, balance : Int]

ConnStates == {"none", "open", "clientClosed", "serverClosed",
               "clientReset", "serverReset"}

NetTypeOK ==
  /\ conn \in [Sessions -> ConnStates]
  /\ backlog \in Seq(Sessions)
  /\ toServer \in [Sessions -> Seq(Requests)]
  /\ toClient \in [Sessions -> Seq(Replies)]

NetInit ==
  /\ conn = [s \in Sessions |-> "none"]
  /\ backlog = <<>>
  /\ toServer = [s \in Sessions |-> <<>>]
  /\ toClient = [s \in Sessions |-> <<>>]

InBacklog(s) == \E i \in DOMAIN backlog : backlog[i] = s

(***************************************************************************)
(* Calls of the client.                                                    *)
(***************************************************************************)
NetConnect(s) ==
  /\ conn[s] = "none"
  /\ Len(backlog) < Backlog
  /\ conn' = [conn EXCEPT ![s] = "open"]
  /\ backlog' = Append(backlog, s)
  /\ UNCHANGED <<toServer, toClient>>

\* Data sent to an end that was closed is answered with a reset.
NetClientSend(s, m) ==
  /\ toServer' = [toServer EXCEPT ![s] = IF conn[s] = "open" THEN Append(@, m) ELSE @]
  /\ conn' = [conn EXCEPT ![s] = IF @ = "serverClosed" THEN "serverReset" ELSE @]
  /\ UNCHANGED <<backlog, toClient>>

\* A socket closed with unread data resets its peer, which drops what it queued.
AfterClientClose(s) ==
  CASE conn[s] = "open" /\ toClient[s] = <<>> -> "clientClosed"
    [] conn[s] = "open" /\ toClient[s] # <<>> -> "clientReset"
    [] conn[s] \in {"serverClosed", "serverReset"} -> "none"
    [] OTHER -> conn[s]

\* The last messages m are sent just before the socket is closed.
NetClientClose(s, m) ==
  /\ conn' = [conn EXCEPT ![s] = AfterClientClose(s)]
  /\ toClient' = [toClient EXCEPT ![s] = <<>>]
  /\ toServer' = [toServer EXCEPT ![s] =
                    IF AfterClientClose(s) = "clientClosed" THEN @ \o m ELSE <<>>]
  /\ UNCHANGED backlog

(***************************************************************************)
(* Calls of the server.                                                    *)
(***************************************************************************)
NetAccept(s) ==
  /\ backlog # <<>>
  /\ s = Head(backlog)
  /\ backlog' = Tail(backlog)

NetServerSend(s, m) ==
  /\ toClient' = [toClient EXCEPT ![s] = IF conn[s] = "open" THEN Append(@, m) ELSE @]
  /\ conn' = [conn EXCEPT ![s] = IF @ = "clientClosed" THEN "clientReset" ELSE @]
  /\ UNCHANGED <<backlog, toServer>>

\* accepted: the server called accept() for this connection.
AfterServerClose(s, accepted) ==
  CASE conn[s] = "open" /\ toServer[s] = <<>> /\ accepted -> "serverClosed"
    [] conn[s] = "open" /\ (toServer[s] # <<>> \/ ~accepted) -> "serverReset"
    [] conn[s] \in {"clientClosed", "clientReset"} -> "none"
    [] OTHER -> conn[s]

NetServerClose(s) ==
  /\ conn' = [conn EXCEPT ![s] = AfterServerClose(s, TRUE)]
  /\ toServer' = [toServer EXCEPT ![s] = <<>>]
  /\ UNCHANGED toClient

\* The server process ends: the kernel closes all its sockets.
NetServerDies ==
  /\ conn' = [s \in Sessions |-> AfterServerClose(s, ~InBacklog(s))]
  /\ toServer' = [s \in Sessions |-> <<>>]
  /\ backlog' = <<>>
  /\ UNCHANGED toClient
=============================================================================
