------------------------------ MODULE Selection ------------------------------
(***************************************************************************)
(* SelectSeq of the standard module with a set instead of an operator, and *)
(* as a recursive function, which can be proved about.                     *)
(***************************************************************************)
EXTENDS Integers, Sequences

\* The elements of a sequence that are in S, in order.
Selected(s, S) ==
  LET kept[i \in 0 .. Len(s)] ==
        IF i = 0 THEN <<>>
        ELSE IF s[i] \in S THEN Append(kept[i - 1], s[i]) ELSE kept[i - 1]
  IN kept[Len(s)]
=============================================================================
