--------------------------- MODULE PoolOptimizer ---------------------------
(***************************************************************************)
(* The pool optimizer (resolver/src/optimizer.rs): of the versions of a    *)
(* name that have the same dependencies and meet the same requirements     *)
(* only the preferred ones stay, and what a locked package makes           *)
(* impossible goes.  A pool is a sequence of packages as in module Pool,   *)
(* where alias_of is 0 for a package that is no alias and Missing for an   *)
(* alias whose package the pool does not have.  The request is a record:   *)
(*   requires   the root requirements                                      *)
(*   fixed      the pool ids of the fixed packages                         *)
(*   locked     the pool ids of the packages kept as the lock has them     *)
(* Constraints that display the same are the same here, so the cache of    *)
(* expansions is not modelled.                                             *)
(***************************************************************************)
EXTENDS Policy, FiniteSets

Missing == -1

\* expand_disjunctive: the runs of consecutive versions of a constraint.  A
\* constraint that leaves out a single version (!=) stays one piece in the
\* code: it is left to the inputs not to have one.
Pieces(constraint) ==
  {{v \in constraint : \A w \in Versions :
      (IF v <= u THEN v <= w /\ w <= u ELSE u <= w /\ w <= v) => w \in constraint} :
   u \in constraint}

\* require_constraints and conflict_constraints of a name.
PiecesOf(links, name) ==
  UNION {Pieces(l.constraint) : l \in {k \in links : k.target = name}}

AllRequires(pool, request) ==
  ToSet(request.requires) \cup UNION {ToSet(pool[id].requires) : id \in DOMAIN pool}

AllConflicts(pool) == UNION {ToSet(pool[id].conflicts) : id \in DOMAIN pool}

\* aliases_per_package
AliasesOfId(pool, id) == {a \in DOMAIN pool : pool[a].alias_of = id}

\* A package with its aliases, or an alias with its package and the others.
Family(pool, id) ==
  LET base == IF pool[id].alias_of \in DOMAIN pool THEN pool[id].alias_of ELSE id
  IN {id, base} \cup AliasesOfId(pool, base)

\* prepare and mark_irremovable: the versions a fixed or a locked package
\* has, with their families.
Irremovable(pool, held) ==
  UNION {Family(pool, id) : id \in {i \in DOMAIN pool :
    \E h \in held : h.name = pool[i].name /\ h.version = pool[i].version}}

\* (mutant: what it requires is no part of it)
MutNoRequiresInHash(p) == <<ToSet(p.conflicts), ToSet(p.replaces), ToSet(p.provides)>>

\* dependency_hash
DependencyHash(p) == <<ToSet(p.requires), ToSet(p.conflicts), ToSet(p.replaces), ToSet(p.provides)>>

\* The groups a package is in under a name: the requirement of the name it
\* meets, if any, what it replaces with its own version, and the conflicts it
\* is in.
GroupHashes(pool, id, name, requires, conflicts) ==
  LET p == pool[id]
      replaced == SelectSeq(p.replaces, LAMBDA l : p.version \in l.constraint)
      conflicted == {c \in PiecesOf(conflicts, name) : p.version \in c}
      Hash(matched) == <<matched, [k \in DOMAIN replaced |-> replaced[k].constraint], conflicted>>
  IN {Hash(IF p.version \in r THEN r ELSE {}) :
        r \in {q \in PiecesOf(requires, name) :
                 p.version \in q \/ replaced # <<>> \/ conflicted # {}}}

\* optimize_by_identical_dependencies and keep_package_in_group: the ids that
\* go.  `required` is no name here.
RemovedAsIdentical(pool, request, policy, irremovable) ==
  LET candidates == DOMAIN pool \ irremovable
      requires == AllRequires(pool, request)
      conflicts == AllConflicts(pool)
      entries == UNION {UNION {{[id |-> id, name |-> n, group |-> g, deps |-> DependencyHash(pool[id])] :
                   g \in GroupHashes(pool, id, n, requires, conflicts)} :
                   n \in Names(pool[id], FALSE)} : id \in candidates}
      keys == {[name |-> e.name, group |-> e.group, deps |-> e.deps] : e \in entries}
      Members(key) == {e.id : e \in {f \in entries :
                         [name |-> f.name, group |-> f.group, deps |-> f.deps] = key}}
      Preferred(ids) == ToSet(SelectPreferredPackages(policy, pool, ids, ""))
      kept == UNION {UNION {Family(pool, id) : id \in Preferred(Members(key))} : key \in keys}
  IN candidates \ kept

\* optimize_impossible_packages_away: what a locked package that something
\* requires does not allow.
RemovedAsImpossible(pool, request, held_locked, irremovable) ==
  LET requires == AllRequires(pool, request)
      candidates == {id \in DOMAIN pool \ irremovable :
                       /\ ~IsAlias(pool[id]) /\ AliasesOfId(pool, id) = {}
                       /\ id \notin request.fixed \cup request.locked}
      required == {l.target : l \in requires}
      inUse == {p \in held_locked : Names(p, FALSE) \cap required # {}}
  IN {id \in candidates : \E p \in inUse : \E l \in ToSet(p.requires) :
        l.target = pool[id].name /\ pool[id].version \notin l.constraint}

\* optimize and applyRemovalsToPool: the ids that stay.  held are the fixed
\* and the locked packages, locked ones among them.
OptimizedPool(pool, request, policy, held, held_locked) ==
  LET irremovable == Irremovable(pool, held)
      removed == RemovedAsIdentical(pool, request, policy, irremovable)
                 \cup RemovedAsImpossible(pool, request, held_locked, irremovable)
  IN SelectSeq([id \in DOMAIN pool |-> id], LAMBDA id : id \notin removed)
=============================================================================
