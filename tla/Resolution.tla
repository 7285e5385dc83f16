----------------------------- MODULE Resolution -----------------------------
(***************************************************************************)
(* What a resolution promises: one answer, either a set of packages that   *)
(* is a solution of the input, or a refusal when there is no solution.     *)
(* The input is given from the start and stays.                            *)
(***************************************************************************)
CONSTANTS
  PackagesIn(_),      \* the packages of an input
  IsSolution(_, _)    \* whether a set of packages solves an input

VARIABLES input, answer, installed

Init ==
  /\ answer = "none"
  /\ installed = {}

Solve ==
  /\ answer = "none"
  /\ answer' = "solved"
  /\ installed' \in SUBSET PackagesIn(input)
  /\ IsSolution(input, installed')
  /\ UNCHANGED input

Refuse ==
  /\ answer = "none"
  /\ answer' = "unsolvable"
  /\ \A S \in SUBSET PackagesIn(input) : ~IsSolution(input, S)
  /\ UNCHANGED <<input, installed>>

Next == Solve \/ Refuse

\* Liveness is part of the promise: an answer comes.
Spec == Init /\ [][Next]_<<input, answer, installed>> /\ <>(answer # "none")
=============================================================================
