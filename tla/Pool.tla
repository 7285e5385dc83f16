-------------------------------- MODULE Pool --------------------------------
(***************************************************************************)
(* The pool of packages the solver sees (resolver/src/pool.rs, package.rs) *)
(* and the platform requirement filter (platform_filter.rs), as operators. *)
(* A pool is a sequence of packages; the pool id of a package is its       *)
(* position.  Versions are numbers and a constraint is the set of versions *)
(* it allows; a provide or replace link matches a constraint when the two  *)
(* sets meet.  A package is a record:                                      *)
(*   name, version, stability  (stability_rank: 0 is stable, 20 is dev)    *)
(*   requires, conflicts, provides, replaces   sequences of links          *)
(*   alias_of    pool id of the aliased package, 0 when not an alias       *)
(*   root_alias  root_package_alias                                        *)
(*   self_requires  has_self_version_requires                              *)
(***************************************************************************)
EXTENDS Integers, Sequences

CONSTANTS
  Versions,        \* the versions there are, a set of naturals
  PlatformNames    \* the names is_platform_package accepts

Link(target, constraint) == [target |-> target, constraint |-> constraint]

TargetsOf(links) == {links[k].target : k \in DOMAIN links}

\* Package::names
Names(p, provides) ==
  {p.name} \cup TargetsOf(p.replaces)
           \cup (IF provides THEN TargetsOf(p.provides) ELSE {})

IsAlias(p) == p.alias_of # 0

\* Pool::match.  The lookup by key is a lookup by target: only the lib-*
\* packages of the platform have another key.
Matches(p, name, constraint) ==
  IF p.name = name THEN p.version \in constraint
  ELSE \E links \in {p.provides, p.replaces} : \E k \in DOMAIN links :
         links[k].target = name /\ constraint \cap links[k].constraint # {}

\* Pool::what_provides, a set of pool ids.  package_by_name lists a package
\* under all its names.
ProvidesName(p, name, constraint) ==
  name \in Names(p, TRUE) /\ Matches(p, name, constraint)

WhatProvides(pool, name, constraint) ==
  {id \in DOMAIN pool : ProvidesName(pool[id], name, constraint)}

-----------------------------------------------------------------------------
(* PlatformRequirementFilter: IgnoreNothing, IgnoreAll, or IgnoreList with *)
(* the names ignored and the names whose upper bound is.                   *)

IgnoreNothing == [kind |-> "nothing", ignore |-> {}, upper |-> {}]
IgnoreAll     == [kind |-> "all", ignore |-> {}, upper |-> {}]
IgnoreList(ignore, upper) == [kind |-> "list", ignore |-> ignore, upper |-> upper]

IsIgnored(filter, name) ==
  /\ name \in PlatformNames
  /\ \/ filter.kind = "all"
     \/ filter.kind = "list" /\ name \in filter.ignore

\* filter_constraint: a constraint loses its upper bound.
FilterConstraint(filter, name, constraint, allow_upper_bound_override) ==
  IF ~(/\ filter.kind = "list"
       /\ name \in PlatformNames
       /\ allow_upper_bound_override
       /\ name \in filter.upper)
  THEN constraint
  ELSE IF name \in filter.ignore THEN Versions
  ELSE constraint \cup {v \in Versions : \A c \in constraint : c <= v}
=============================================================================
