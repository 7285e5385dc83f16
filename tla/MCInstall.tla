------------------------------ MODULE MCInstall ------------------------------
(***************************************************************************)
(* Small worlds for Install: runs r1, r2, ... of the command in one project *)
(* or in two, packages a and b.                                            *)
(***************************************************************************)
EXTENDS Install, TLC

CONSTANTS r1, r2, r3, r4

Lock(va, vb) == "a" :> va @@ "b" :> vb

\* An update, an addition and removals.
UpdateLocks == {Lock("1", None), Lock("2", "1"), Lock(None, "1")}

TwoLocks == {Lock("1", None), Lock("2", "1")}

OnePackageLocks == {"a" :> "1", "a" :> "2"}

InOneProject == [r \in Runs |-> "here"]

InTwoProjects == r1 :> "here" @@ r2 :> "here" @@ r3 :> "there"

Symmetry == Permutations(Runs)
===============================================================================
