--------------------------- MODULE PoolSemantics ---------------------------
(***************************************************************************)
(* What a set of installed packages has to satisfy, said of the packages   *)
(* and not of the rules the generator makes of them: the reference the     *)
(* generator and the solver are checked against.  The input is the one of  *)
(* module RulesGen.                                                        *)
(***************************************************************************)
EXTENDS Pool, FiniteSets

\* Package id answers a require (a package may answer its own).
Answers(x, id, link) ==
  ProvidesName(x.pool[id], link.target,
    FilterConstraint(x.filter, link.target, link.constraint, TRUE))

Answered(x, S, link) ==
  IsIgnored(x.filter, link.target) \/ \E id \in S : Answers(x, id, link)

\* An alias only has requires of its own when they were rewritten for it.
RequiresOf(p) == IF IsAlias(p) /\ ~p.self_requires THEN <<>> ELSE p.requires

RequiresAnswered(x, S) ==
  \A id \in S : \A k \in DOMAIN RequiresOf(x.pool[id]) :
    Answered(x, S, RequiresOf(x.pool[id])[k])

\* An alias is installed with the package it is an alias of.
AliasesTogether(x, S) ==
  \A id \in DOMAIN x.pool :
    IsAlias(x.pool[id]) => (id \in S <=> x.pool[id].alias_of \in S)

\* A conflict only bites when some package of the pool has or replaces the
\* name: a mere provider of a name nobody has is not in conflict.
IsTaken(x, name) ==
  \E id \in DOMAIN x.pool :
    ~IsAlias(x.pool[id]) /\ name \in Names(x.pool[id], FALSE)

NoConflict(x, S) ==
  \A id, other \in S : \A k \in DOMAIN x.pool[id].conflicts :
    LET link == x.pool[id].conflicts[k]
    IN ~ /\ id # other
         /\ IsTaken(x, link.target)
         /\ ~IsIgnored(x.filter, link.target)
         /\ IsAlias(x.pool[other]) => x.pool[other].name = link.target
         /\ ProvidesName(x.pool[other], link.target,
              FilterConstraint(x.filter, link.target, link.constraint, FALSE))

\* One package per name, replaced names included.
OnePerName(x, S) ==
  \A id, other \in {p \in S : ~IsAlias(x.pool[p])} :
    id # other => Names(x.pool[id], FALSE) \cap Names(x.pool[other], FALSE) = {}

RequestMet(x, S) ==
  /\ x.removed = {}
  /\ \A k \in DOMAIN x.fixed : x.fixed[k] \in S \cup {0}
  /\ \A k \in DOMAIN x.requires : Answered(x, S, x.requires[k])

PackagesAgree(x, S) ==
  /\ OnePerName(x, S)
  /\ RequiresAnswered(x, S)
  /\ AliasesTogether(x, S)
  /\ NoConflict(x, S)

Solution(x, S) == RequestMet(x, S) /\ PackagesAgree(x, S)
=============================================================================
