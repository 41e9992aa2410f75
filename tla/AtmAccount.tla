----------------------------- MODULE AtmAccount -----------------------------
(***************************************************************************)
(* What the ATM server promises its clients: one account on which every    *)
(* operation takes effect at one instant, between its call and its answer. *)
(* No file, no lock, no socket.                                            *)
(***************************************************************************)
EXTENDS Integers

CONSTANTS Sessions, Calls, InitialBalance, None

VARIABLES
  balance,   \* money on the account
  call,      \* call[s]: operation in progress
  answer     \* answer[s]: its answer, once it has taken effect

vars == <<balance, call, answer>>

Reply(kind, m, b) == [kind |-> kind, amount |-> m.amount, balance |-> b]

Init ==
  /\ balance = InitialBalance
  /\ call = [s \in Sessions |-> None]
  /\ answer = [s \in Sessions |-> None]

Invoke(s) ==
  /\ call[s] = None
  /\ \E m \in Calls : call' = [call EXCEPT ![s] = m]
  /\ UNCHANGED <<balance, answer>>

Answer(s, r) ==
  /\ call[s] # None
  /\ answer[s] = None
  /\ answer' = [answer EXCEPT ![s] = r]
  /\ UNCHANGED call

Withdraw(s) ==
  /\ call[s] # None
  /\ call[s].op = "withdraw"
  /\ call[s].amount > 0
  /\ call[s].amount <= balance
  /\ balance' = balance - call[s].amount
  /\ Answer(s, Reply("withdrawn", call[s], balance'))

Deposit(s) ==
  /\ call[s] # None
  /\ call[s].op = "deposit"
  /\ call[s].amount > 0
  /\ balance' = balance + call[s].amount
  /\ Answer(s, Reply("deposited", call[s], balance'))

Refuse(s) ==
  /\ call[s] # None
  /\ \/ /\ call[s].op = "withdraw"
        /\ call[s].amount > balance
        /\ Answer(s, Reply("poor", call[s], balance))
     \/ /\ call[s].op \in {"withdraw", "deposit"}
        /\ call[s].amount = 0
        /\ Answer(s, Reply("invalid", call[s], 0))
  /\ UNCHANGED balance

ShowBalance(s) ==
  /\ call[s] # None
  /\ call[s].op = "balance"
  /\ Answer(s, Reply("balance", call[s], balance))
  /\ UNCHANGED balance

Return(s) ==
  /\ answer[s] # None
  /\ call' = [call EXCEPT ![s] = None]
  /\ answer' = [answer EXCEPT ![s] = None]
  /\ UNCHANGED balance

\* The connection was refused before the server looked at the call.
Drop(s) ==
  /\ answer[s] = None
  /\ call' = [call EXCEPT ![s] = None]
  /\ UNCHANGED <<balance, answer>>

Next ==
  \E s \in Sessions :
    \/ Invoke(s) \/ Withdraw(s) \/ Deposit(s) \/ Refuse(s)
    \/ ShowBalance(s) \/ Return(s) \/ Drop(s)

Spec == Init /\ [][Next]_vars
=============================================================================
