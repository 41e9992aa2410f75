------------------------------ MODULE Selection ------------------------------
(***************************************************************************)
(* The loop that walks along a list and keeps some of its nodes in order,  *)
(* as a recursive function: the kept nodes among the first i.              *)
(***************************************************************************)
EXTENDS Naturals, Sequences

\* The members of s that are in S, in the order they have in s.
Select(s, S) ==
  LET kept[i \in 0 .. Len(s)] ==
        IF i = 0 THEN <<>>
        ELSE IF s[i] \in S THEN Append(kept[i - 1], s[i])
        ELSE kept[i - 1]
  IN  kept[Len(s)]
=============================================================================
