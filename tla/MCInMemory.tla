----------------------------- MODULE MCInMemory -----------------------------
(***************************************************************************)
(* Inputs for TLC.                                                         *)
(***************************************************************************)
EXTENDS InMemory

\* Texts: three ids, a number out of range, no number.
MCTexts == {<<1>>, <<2>>, <<1, 2>>, <<1, 1, 2>>, <<-1>>}

Numbers == {"0", "1", "2"}
Ops     == {"+", "-", "*", "/"}

\* All lines of up to four characters, and three operators between numbers.
MCExpressions ==
  UNION {[1 .. n -> Numbers \cup Ops \cup {"x"}] : n \in 0 .. 3}
  \cup [1 .. 4 -> {"2", "0"} \cup Ops]
  \cup {<<a, o, b, p, c, q, d>> : a, d \in {"1", "2"}, b, c \in Numbers, o, p, q \in Ops}
  \cup {<<a, o, b, p, "-", c>> : a, b, c \in Numbers, o, p \in Ops}

\* All images of 2 * 2 and 3 * 3 with two or three values, one of 4 * 4 pixels.
MCImages ==
  [1 .. 4 -> {0, 1, 255}] \cup [1 .. 9 -> {0, 255}] \cup {[k \in 1 .. 16 |-> (k * k) % 17]}

Student(r, n, m) == [roll |-> r, name |-> n, marks |-> m]

MCGarbage == {Student(9, "old", <<0, 35, 100>>), Student(0, "?", <<-1, 0, 101>>)}

Line(c, r, n, m) == [read |-> c, roll |-> r, name |-> n, marks |-> m]

MCLines ==
  {Line(0, 0, "", <<>>)}
  \cup {Line(1, r, "", <<>>) : r \in 0 .. 3}
  \cup {Line(2, r, n, <<>>) : r \in 1 .. 2, n \in {"a", "?"}}
  \cup {Line(c, r, "b", m) : c \in 4 .. 5, r \in 1 .. 3,
                            m \in {<<85, 85, 85>>, <<35, 35, 34>>, <<101, 0, 0>>}}

P(i, t, r, x, s) == [id |-> i, team |-> t, role |-> r, index |-> x, strike |-> s]

\* Four players of one list, and three of any team and role; team 5 is unknown.
MCRosters ==
  {<<P(1, 4, "Bowler", a, 1), P(2, 4, "Bowler", b, 1), P(3, 4, "Bowler", c, 1),
     P(4, 4, "Bowler", d, 1)>> : a, b, c, d \in 1 .. 3}
  \cup {<<P(1, t, r, 2, 3), P(2, u, q, x, 1), P(3, v, "All-rounder", 1, 2)>> :
          t, u \in {2, 5, 6}, v \in {4, 6}, r, q \in {"Batsman", "Bowler", "All-rounder"},
          x \in {1, 3}}

MCTeams == <<2, 4, 6>>
=============================================================================
