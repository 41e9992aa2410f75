----------------------------- MODULE Calculator -----------------------------
(***************************************************************************)
(* Calculator_Problem.c: an expression evaluated with a stack of operands  *)
(* and a stack of operators.  A step reads a number or an operator, or     *)
(* applies the operator on top.  int has Bits bits and wraps around; the   *)
(* smallest int / -1 and x / 0 trap, and only the second is tested for.    *)
(***************************************************************************)
EXTENDS Integers, Sequences, SequencesExt

CONSTANTS
  Expressions,  \* lines the user may enter, without spaces
  Bits          \* of an int

VARIABLES
  cpc,          \* "idle", "scan", "drain", "done", "error" or "trap"
  expression,
  exprIdx,
  operandStack,
  operatorStack,
  expectedChar, \* whether a number must come next
  result

calcVars == <<cpc, expression, exprIdx, operandStack, operatorStack, expectedChar, result>>

Digits    == <<"0", "1", "2", "3", "4", "5", "6", "7", "8", "9">>
Operators == {"+", "-", "*", "/"}
Signs     == {"+", "-"}

IsDigit(c)    == c \in ToSet(Digits)
DigitValue(c) == (CHOOSE k \in DOMAIN Digits : Digits[k] = c) - 1

MinInt  == -(2 ^ (Bits - 1))
Wrapped(n) == ((n - MinInt) % (2 ^ Bits)) + MinInt

Init ==
  /\ cpc = "idle"
  /\ expression = <<>>
  /\ exprIdx = 1
  /\ operandStack = <<>>
  /\ operatorStack = <<>>
  /\ expectedChar = TRUE
  /\ result = 0

(***************************************************************************)
(* Arithmetic.                                                             *)
(***************************************************************************)
Abs(n) == IF n < 0 THEN -n ELSE n

\* C rounds a quotient towards zero.
Quotient(a, b) == IF (a < 0) = (b < 0) THEN Abs(a) \div Abs(b) ELSE -(Abs(a) \div Abs(b))

Traps(a, b, op) == op = "/" /\ a = MinInt /\ b = -1

calculate(a, b, op) ==
  CASE op = "+" -> Wrapped(a + b)
    [] op = "-" -> Wrapped(a - b)
    [] op = "*" -> Wrapped(a * b)
    [] op = "/" -> Quotient(a, b)

getPrecedence(op) == IF op \in Signs THEN 1 ELSE 2

(***************************************************************************)
(* Steps.                                                                  *)
(***************************************************************************)
Stop(how) ==
  /\ cpc' = how
  /\ UNCHANGED <<expression, exprIdx, operandStack, operatorStack, expectedChar, result>>

\* main: fgets and removeSpaces.
readExpression ==
  /\ cpc = "idle"
  /\ \E e \in Expressions :
       /\ cpc' = IF e = <<>> THEN "error" ELSE "scan"
       /\ expression' = e
  /\ UNCHANGED <<exprIdx, operandStack, operatorStack, expectedChar, result>>

Scanning == cpc = "scan" /\ exprIdx <= Len(expression)
Char     == expression[exprIdx]

\* The first position from k on whose character is none of chars.
Past(chars, k) ==
  LET end[i \in Nat] ==
        IF i <= Len(expression) /\ expression[i] \in chars THEN end[i + 1] ELSE i
  IN  end[k]

Negative(from, to) == Len(SelectSeq(SubSeq(expression, from, to - 1), LAMBDA c : c = "-")) % 2 = 1

Number(from, to) ==
  FoldLeft(LAMBDA n, c : Wrapped(10 * n + DigitValue(c)), 0, SubSeq(expression, from, to - 1))

\* Signs, then digits.  Signs without digits leave expectedChar set, and the next
\* character is an error or the end.
readNumber ==
  /\ Scanning /\ expectedChar
  /\ LET first == Past(Signs, exprIdx)
         end   == Past(ToSet(Digits), first)
         value == Number(first, end)
     IN  IF first = exprIdx /\ end = first THEN Stop("error")
         ELSE /\ exprIdx' = end
              /\ IF end = first THEN UNCHANGED <<operandStack, expectedChar>>
                 ELSE /\ operandStack' = Append(operandStack,
                           IF Negative(exprIdx, first) THEN Wrapped(-value) ELSE value)
                      /\ expectedChar' = FALSE
              /\ UNCHANGED <<cpc, expression, operatorStack, result>>

\* evaluateTopOperations; with one operand left the second pop fails.
evaluateTopOperations ==
  LET n  == Len(operandStack)
      a  == operandStack[n - 1]
      b  == operandStack[n]
      op == Last(operatorStack)
  IN  IF n < 2 \/ (op = "/" /\ b = 0) THEN Stop("error")
      ELSE IF Traps(a, b, op) THEN Stop("trap")
      ELSE /\ operandStack' = Append(SubSeq(operandStack, 1, n - 2), calculate(a, b, op))
           /\ operatorStack' = Front(operatorStack)
           /\ UNCHANGED <<cpc, expression, exprIdx, expectedChar, result>>

\* Mutant: an operator of the same precedence waits.
BindsFirstGreater ==
  operatorStack # <<>> /\ getPrecedence(Last(operatorStack)) > getPrecedence(Char)

BindsFirst ==
  operatorStack # <<>> /\ getPrecedence(Last(operatorStack)) >= getPrecedence(Char)

reduce ==
  /\ Scanning /\ ~expectedChar /\ Char \in Operators
  /\ BindsFirst
  /\ evaluateTopOperations

readOperator ==
  /\ Scanning /\ ~expectedChar
  /\ IF Char \notin Operators THEN Stop("error")
     ELSE /\ ~BindsFirst
          /\ operatorStack' = Append(operatorStack, Char)
          /\ exprIdx' = exprIdx + 1
          /\ expectedChar' = TRUE
          /\ UNCHANGED <<cpc, expression, operandStack, result>>

endOfExpression == cpc = "scan" /\ ~Scanning /\ Stop("drain")

drain ==
  /\ cpc = "drain" /\ operatorStack # <<>>
  /\ evaluateTopOperations

popResult ==
  /\ cpc = "drain" /\ operatorStack = <<>>
  /\ IF operandStack = <<>> THEN Stop("error")
     ELSE /\ result' = Last(operandStack)
          /\ operandStack' = Front(operandStack)
          /\ cpc' = "done"
          /\ UNCHANGED <<expression, exprIdx, operatorStack, expectedChar>>

Next ==
  \/ readExpression \/ readNumber \/ reduce \/ readOperator
  \/ endOfExpression \/ drain \/ popResult

Spec == Init /\ [][Next]_calcVars

(***************************************************************************)
(* What an expression means.                                               *)
(***************************************************************************)
\* A binary operator stands behind a digit.
BinaryAt(e, ops) == {k \in 2 .. Len(e) : e[k] \in ops /\ IsDigit(e[k - 1])}

\* The last place of a set, where a left associative expression is split.
LastOf(S) == CHOOSE k \in S : \A m \in S : m <= k

IsNumber(e) ==
  \E k \in 1 .. Len(e) : /\ \A i \in 1 .. k - 1 : e[i] \in Signs
                         /\ \A i \in k .. Len(e) : IsDigit(e[i])

NumberOf(e) ==
  LET digits == SelectSeq(e, IsDigit)
      minus  == SelectSeq(e, LAMBDA c : c = "-")
      value  == FoldLeft(LAMBDA n, c : 10 * n + DigitValue(c), 0, digits)
  IN  Wrapped(IF Len(minus) % 2 = 0 THEN value ELSE -value)

Combine(l, op, r) ==
  IF ~l.ok \/ ~r.ok \/ (op = "/" /\ r.value = 0) \/ Traps(l.value, r.value, op)
  THEN [ok |-> FALSE, value |-> 0]
  ELSE [ok |-> TRUE, value |-> calculate(l.value, r.value, op)]

Meaning ==
  LET value[e \in Seq(STRING)] ==
        LET sums     == BinaryAt(e, Signs)
            products == BinaryAt(e, {"*", "/"})
            at       == LastOf(IF sums # {} THEN sums ELSE products)
        IN  IF sums = {} /\ products = {}
            THEN [ok |-> IsNumber(e), value |-> IF IsNumber(e) THEN NumberOf(e) ELSE 0]
            ELSE Combine(value[SubSeq(e, 1, at - 1)], e[at], value[SubSeq(e, at + 1, Len(e))])
  IN  value[expression]

(***************************************************************************)
(* Properties.                                                             *)
(***************************************************************************)
\* While an expression is read there is one operand more than operators, none
\* more when a number must come; the operators waiting get stronger towards the
\* top, so two at most wait; nothing is left when the result is out.
StacksOK ==
  /\ cpc \in {"scan", "drain"} =>
       Len(operandStack) = Len(operatorStack) + (IF expectedChar THEN 0 ELSE 1)
  /\ \A k \in 1 .. Len(operatorStack) - 1 :
       getPrecedence(operatorStack[k]) < getPrecedence(operatorStack[k + 1])
  /\ cpc = "done" => operandStack = <<>> /\ operatorStack = <<>>

\* The result printed is the value of the expression, with the precedence and
\* the association of its operators and the arithmetic of the machine; an
\* expression without a value is refused, or traps at the smallest int / -1.
\* On the way the stacks fit each other.
ResultRight ==
  /\ StacksOK
  /\ cpc = "done" => Meaning.ok /\ result = Meaning.value
  /\ cpc \in {"error", "trap"} => ~Meaning.ok
=============================================================================
