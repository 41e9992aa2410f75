----------------------------- MODULE AtmClient ------------------------------
(***************************************************************************)
(* client.c: connect, then show the menu, send one request and wait for    *)
(* one answer, until the user chooses Exit.  The user may also interrupt   *)
(* the client at any time.                                                 *)
(***************************************************************************)
EXTENDS AtmNet

CONSTANTS
  MaxRequests,   \* bound: requests all clients send in one behaviour
  NoMessage

ASSUME MaxRequestsAssumption == MaxRequests \in Nat
ASSUME NoMessageAssumption == NoMessage \notin Requests

VARIABLES
  cpc,     \* cpc[s]: "off" (no process), at the "menu", "waiting" in recv
  asked,   \* asked[s]: the request the client waits an answer for
  issued   \* requests sent so far

clientVars == <<cpc, asked, issued>>

ClientTypeOK ==
  /\ cpc \in [Sessions -> {"off", "menu", "waiting"}]
  /\ asked \in [Sessions -> Requests \cup {NoMessage}]
  /\ issued \in 0 .. MaxRequests

ClientInit ==
  /\ cpc = [s \in Sessions |-> "off"]
  /\ asked = [s \in Sessions |-> NoMessage]
  /\ issued = 0

\* Without a listening server the client prints a line and exits.
Connect(s) ==
  /\ cpc[s] = "off"
  /\ NetConnect(s)
  /\ cpc' = [cpc EXCEPT ![s] = "menu"]
  /\ UNCHANGED <<asked, issued>>

\* The requests prepareRequest builds; the amount is 0 where none is asked for.
Menu == [op : {"withdraw", "deposit"}, amount : Amounts] \cup
        [op : {"balance"}, amount : {0}]

SendRequest(s, m) ==
  /\ cpc[s] = "menu"
  /\ issued < MaxRequests
  /\ NetClientSend(s, m)
  /\ cpc' = [cpc EXCEPT ![s] = "waiting"]
  /\ asked' = [asked EXCEPT ![s] = m]
  /\ issued' = issued + 1

\* The client process ends having sent m on its socket.
Leave(s, m) ==
  /\ NetClientClose(s, m)
  /\ cpc' = [cpc EXCEPT ![s] = "off"]
  /\ asked' = [asked EXCEPT ![s] = NoMessage]
  /\ UNCHANGED issued

Quit(s) ==
  /\ cpc[s] = "menu"
  /\ Leave(s, <<[op |-> "exit", amount |-> 0]>>)

\* A request sent on a reset connection may raise SIGPIPE instead.
BrokenPipe(s) ==
  /\ cpc[s] = "menu"
  /\ conn[s] = "serverReset"
  /\ Leave(s, <<>>)

Interrupt(s) ==
  /\ cpc[s] # "off"
  /\ Leave(s, <<>>)

BackToMenu(s) ==
  /\ cpc' = [cpc EXCEPT ![s] = "menu"]
  /\ asked' = [asked EXCEPT ![s] = NoMessage]
  /\ UNCHANGED issued

ReceiveResponse(s) ==
  /\ cpc[s] = "waiting"
  /\ toClient[s] # <<>>
  /\ toClient' = [toClient EXCEPT ![s] = <<>>]
  /\ BackToMenu(s)
  /\ UNCHANGED <<conn, backlog, toServer>>

\* Mutant: the client gives up while its answer may still come.
ReceiveTimeout(s) ==
  /\ cpc[s] = "waiting" /\ toClient[s] = <<>>
  /\ BackToMenu(s)
  /\ UNCHANGED netVars

\* recv returned 0 or -1: a line is printed and the session goes on.
ReceiveNothing(s) ==
  /\ cpc[s] = "waiting"
  /\ toClient[s] = <<>>
  /\ conn[s] \in {"serverClosed", "serverReset"}
  /\ BackToMenu(s)
  /\ UNCHANGED netVars

Client(s) ==
  \/ Connect(s)
  \/ \E m \in Menu : SendRequest(s, m)
  \/ Quit(s) \/ BrokenPipe(s) \/ Interrupt(s)
  \/ ReceiveResponse(s) \/ ReceiveNothing(s)
=============================================================================
