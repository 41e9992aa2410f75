--------------------------- MODULE StudentRecords ---------------------------
(***************************************************************************)
(* Student_Performance_Analyzer.c: students are read line by line, then    *)
(* printed.  sscanf converts only a part of a line whose fields do not fit *)
(* the format (a roll number of five digits stops it before the name); the *)
(* variables of the loop body, which are not initialised, then hold what   *)
(* the line before left in them, or anything in the first turn.            *)
(***************************************************************************)
EXTENDS Integers, Sequences, FiniteSets, FiniteSetsExt

CONSTANTS
  Lines,       \* [read : 0 .. 5, roll, name, marks]: read fields are converted
  Garbage,     \* [roll, name, marks] the stack may hold at first
  BadRoll,     \* a roll number that is not numeric
  BadName,     \* a name that is not of letters
  MaxStudents

VARIABLES
  step,           \* "start", "read", "refused" or "printed"
  totalStudents,
  local,          \* the loop's roll number, name and marks
  studentDetails,
  printed,        \* the lines printed, by student
  lines           \* history: the lines read

studentVars == <<step, totalStudents, local, studentDetails, printed, lines>>

Init ==
  /\ step = "start"
  /\ totalStudents = 0
  /\ local = [roll |-> BadRoll, name |-> BadName, marks |-> <<0, 0, 0>>]
  /\ studentDetails = <<>>
  /\ printed = <<>>
  /\ lines = <<>>

inputTotalStudents(n) ==
  /\ step = "start"
  /\ step' = IF n \in 1 .. MaxStudents THEN "read" ELSE "refused"
  /\ totalStudents' = n
  /\ local' \in Garbage
  /\ UNCHANGED <<studentDetails, printed, lines>>

\* What sscanf leaves in the variables: roll, name and one mark after the other.
Scanned(line) ==
  [roll  |-> IF line.read >= 1 THEN line.roll ELSE local.roll,
   name  |-> IF line.read >= 2 THEN line.name ELSE local.name,
   marks |-> [i \in 1 .. 3 |-> IF line.read >= i + 2 THEN line.marks[i] ELSE local.marks[i]]]

\* Mutant: the roll number is compared with the last student's only.
isRollNumberExistLast(roll) ==
  studentDetails # <<>> /\ studentDetails[Len(studentDetails)].roll = roll

isRollNumberExist(roll) == \E k \in DOMAIN studentDetails : studentDetails[k].roll = roll

isValidMarks(marks) == \A i \in 1 .. 3 : marks[i] \in 0 .. 100

readStudent(line) ==
  /\ step = "read"
  /\ Len(studentDetails) < totalStudents
  /\ LET s == Scanned(line)
     IN  /\ local' = s
         /\ IF \/ s.roll = BadRoll \/ isRollNumberExist(s.roll)
               \/ s.name = BadName
               \/ ~isValidMarks(s.marks)
            THEN step' = "refused" /\ UNCHANGED <<studentDetails, lines>>
            ELSE /\ studentDetails' = Append(studentDetails, s)
                 /\ lines' = Append(lines, line)
                 /\ UNCHANGED step
  /\ UNCHANGED <<totalStudents, printed>>

calculateTotalMarks(s) == s.marks[1] + s.marks[2] + s.marks[3]

\* The average is a third of the total: averages are compared as totals.
calculateGrade(total) ==
  CASE total >= 3 * 85 -> "A"
    [] total >= 3 * 70 /\ total < 3 * 85 -> "B"
    [] total >= 3 * 50 /\ total < 3 * 70 -> "C"
    [] total >= 3 * 35 /\ total < 3 * 50 -> "D"
    [] OTHER -> "F"

calculatePerformance(grade) ==
  [A |-> 5, B |-> 4, C |-> 3, D |-> 2, F |-> 0][grade]

printStudentDetails ==
  /\ step = "read"
  /\ Len(studentDetails) = totalStudents
  /\ step' = "printed"
  /\ printed' = [k \in 1 .. totalStudents |->
       LET total == calculateTotalMarks(studentDetails[k])
           grade == calculateGrade(total)
       IN  [roll |-> studentDetails[k].roll, total |-> total,
            grade |-> grade, stars |-> calculatePerformance(grade)]]
  /\ UNCHANGED <<totalStudents, local, studentDetails, lines>>

Next ==
  \/ \E n \in 0 .. MaxStudents + 1 : inputTotalStudents(n)
  \/ \E line \in Lines : readStudent(line)
  \/ printStudentDetails

Spec == Init /\ [][Next]_studentVars

(***************************************************************************)
(* Properties.                                                             *)
(***************************************************************************)
\* The student whose line supplied a field of student k: the last one, up to k,
\* with a line that reached the field; 0 for the garbage of the first turn.
Origin(k, field) == Max({0} \cup {m \in 1 .. k : lines[m].read >= field})

\* Students have different roll numbers and marks from 0 to 100, and each has the
\* data of its own line as far as the line was converted.  Of the rest only the
\* roll number is safe: but for the first student, a stale one is refused; a name
\* and marks may be another student's.
RecordsRight ==
  /\ \A j, k \in DOMAIN studentDetails :
       studentDetails[j].roll = studentDetails[k].roll => j = k
  /\ \A k \in DOMAIN studentDetails :
       LET s == studentDetails[k]
       IN  /\ isValidMarks(s.marks)
           /\ k > 1 => lines[k].read >= 1
           /\ lines[k].read >= 1 => s.roll = lines[k].roll
           /\ Origin(k, 2) > 0 => s.name = lines[Origin(k, 2)].name
           /\ \A i \in 1 .. 3 : Origin(k, i + 2) > 0 =>
                s.marks[i] = lines[Origin(k, i + 2)].marks[i]
  /\ step = "printed" =>
       /\ Len(printed) = totalStudents
       /\ \A j, k \in DOMAIN printed :
            printed[j].total >= printed[k].total => printed[j].stars >= printed[k].stars
=============================================================================
