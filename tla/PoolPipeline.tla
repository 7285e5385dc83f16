---------------------------- MODULE PoolPipeline ----------------------------
(***************************************************************************)
(* The pool of an update, from the request to the solver (update in        *)
(* resolver/src/session.rs): built, filtered by what may not be installed, *)
(* optimized.  The input has the fields of PoolBuilder, of PoolFilters     *)
(* and                                                                     *)
(*   policy      the preferences of the solver (Policy)                    *)
(* and the phase goes on from "filtered" to "optimized".                   *)
(***************************************************************************)
EXTENDS PoolBuilder, PoolFilters, PoolOptimizer

Semantics == INSTANCE PoolSemantics

\* The packages of a list, with pool ids for arena indices.
PoolOf(arena, list) ==
  LET IdOf(index) == IF index \in ToSet(list) THEN SelectInSeq(list, LAMBDA id : id = index)
                     ELSE Missing
  IN Each(LAMBDA acc, id : Append(acc, IF IsAlias(arena[id])
                              THEN [arena[id] EXCEPT !.alias_of = IdOf(@)] ELSE arena[id]),
          <<>>, list)

IdsIn(list, held) == {k \in DOMAIN list : list[k] \in held}

Optimized ==
  LET request == [requires |-> x.requires, fixed |-> IdsIn(b.packages, ToSet(x.fixed)),
                  locked |-> IdsIn(b.packages, LockedIds)]
      held == {b.arena[id] : id \in ToSet(FixedOrLocked(b))}
      held_locked == {b.arena[id] : id \in LockedIds}
      ids == OptimizedPool(PoolOf(b.arena, b.packages), request, x.policy, held, held_locked)
  IN Each(LAMBDA acc, k : Append(acc, b.packages[k]), <<>>, ids)

Optimize ==
  /\ phase = "filtered"
  /\ \E result \in {Optimized} : b' = [b EXCEPT !.packages = result]
  /\ phase' = "optimized"
  /\ UNCHANGED <<x, at, repo, batches, kept>>

PipelineStep == BuilderStep \/ FilterAdvisories \/ FilterLists \/ Optimize

PipelineSpec == Init /\ [][PipelineStep]_vars /\ WF_vars(PipelineStep)

-----------------------------------------------------------------------------
(* Properties.                                                             *)

\* An alias in the pool comes with the package it is an alias of: the rule
\* generator relies on it ("aliased package is in the pool", rules_gen.rs).
AliasedInPool ==
  phase = "optimized" => \A id \in ToSet(b.packages) :
    IsAlias(b.arena[id]) => b.arena[id].alias_of \in ToSet(b.packages)

\* What the solver is asked, of a pool.
Question(list) ==
  [pool |-> PoolOf(b.arena, list), requires |-> x.requires, removed |-> {},
   fixed |-> [k \in DOMAIN x.fixed |-> SelectInSeq(list, LAMBDA id : id = x.fixed[k])],
   filter |-> IgnoreNothing]

Solvable(list) ==
  \E q \in {Question(list)} : \E S \in SUBSET DOMAIN list : Semantics!Solution(q, S)

\* The optimizer leaves a solution when there was one, and the packages that
\* must stay.
OptimizerKeepsSolvable ==
  [][phase = "filtered" =>
       /\ Solvable(b.packages) => Solvable(b'.packages)
       /\ ToSet(FixedOrLocked(b)) \cap ToSet(b.packages) \subseteq ToSet(b'.packages)]_vars
=============================================================================
