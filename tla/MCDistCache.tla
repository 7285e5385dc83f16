----------------------------- MODULE MCDistCache -----------------------------
(***************************************************************************)
(* Processes that fetch the same dist; all of them use the one temporary   *)
(* name that dist_bytes derives from the path of the entry.                *)
(***************************************************************************)
EXTENDS DistCache, TLC

CONSTANTS w1, w2, w3, w4

MCNameOf == [w \in Writers |-> "zip.vivacity-tmp"]
===============================================================================
