------------------------------ MODULE InMemory ------------------------------
(***************************************************************************)
(* The programs that run alone and keep what they work on in memory, side  *)
(* by side: `program` says which one runs, and the others keep their first *)
(* state.  This module extends the inventory's, so that Init, Next, Spec   *)
(* and vars are the inventory's.                                           *)
(***************************************************************************)
EXTENDS Inventory

CONSTANTS
  Programs,                                         \* those that may run
  Expressions, Bits,                                \* calculator
  Images,                                           \* sonar image
  Lines, Garbage, BadRoll, BadName, MaxStudents,    \* students
  Rosters, Teams                                    \* players

VARIABLES
  program,
  cpc, expression, exprIdx, operandStack, operatorStack, expectedChar, result,
  phase, rowIndex, sonarImageSize, sonarImage, originalPreviousRow, original,
  step, totalStudents, local, studentDetails, printed, lines,
  at, players, playerIndex, list, team, playerHeap, rows, ranges, asked, displayed

calculator == <<cpc, expression, exprIdx, operandStack, operatorStack, expectedChar, result>>
sonar      == <<phase, rowIndex, sonarImageSize, sonarImage, originalPreviousRow, original>>
students   == <<step, totalStudents, local, studentDetails, printed, lines>>
analyzer   == <<at, players, playerIndex, list, team, playerHeap, rows, ranges, asked, displayed>>

Calc   == INSTANCE Calculator
Sonar  == INSTANCE SonarImage
Pupils == INSTANCE StudentRecords
Icc    == INSTANCE PlayerAnalyzer WITH heap <- playerHeap

ASSUME ImagesAssumption == Images \subseteq Seq(0 .. 255)

\* Names, numbers, indices and rates are represented by integers.
ASSUME RostersAssumption ==
  Rosters \subseteq Seq([id : Int, team : Int, role : Icc!Roles, index : Int, strike : Int])

\* The table of Players_data.h is in order.
ASSUME TeamsAssumption ==
  Teams \in Seq(Int) /\ \A t, u \in DOMAIN Teams : t < u => Teams[t] < Teams[u]

InMemoryInit ==
  /\ program \in Programs
  /\ Init /\ Calc!Init /\ Sonar!Init /\ Pupils!Init /\ Icc!Init

InMemoryNext ==
  /\ UNCHANGED program
  /\ \/ /\ program = "inventory"
        /\ Next
        /\ UNCHANGED <<calculator, sonar, students, analyzer>>
     \/ /\ program = "calculator"
        /\ Calc!Next
        /\ UNCHANGED <<vars, sonar, students, analyzer>>
     \/ /\ program = "sonar"
        /\ Sonar!Next
        /\ UNCHANGED <<vars, calculator, students, analyzer>>
     \/ /\ program = "students"
        /\ Pupils!Next
        /\ UNCHANGED <<vars, calculator, sonar, analyzer>>
     \/ /\ program = "analyzer"
        /\ Icc!Next
        /\ UNCHANGED <<vars, calculator, sonar, students>>

inMemoryVars == <<program, vars, calculator, sonar, students, analyzer>>

InMemorySpec == InMemoryInit /\ [][InMemoryNext]_inMemoryVars

(***************************************************************************)
(* Properties of the programs; those of the inventory are in its module.   *)
(***************************************************************************)
\* Calculator: what is printed is the value of the expression, and the operands
\* and operators on the stacks fit each other all the way.
ResultRight == Calc!ResultRight

\* Sonar image: the image is the original, turned and then smoothed.
ImageRight == Sonar!ImageRight

\* Students: different roll numbers, valid marks, own data as far as converted.
RecordsRight == Pupils!RecordsRight

\* Players: the lists are complete and sorted, the averages those of the teams;
\* what is displayed is sorted, complete, and the best k.
DisplaysRight == Icc!DisplaysRight
=============================================================================
