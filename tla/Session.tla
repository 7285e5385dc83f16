------------------------------- MODULE Session -------------------------------
(***************************************************************************)
(* The resolution session of update (resolver/src/session.rs, root.rs) and *)
(* the lock it writes and reads (transaction.rs, lockfile.rs, loader.rs    *)
(* and the locked repository of repository.rs): the root package is read,  *)
(* the lock too, one solve finds the packages, a second one, on what was   *)
(* dumped of them and without require-dev, tells which of them the         *)
(* development packages are, and the lock is written.  The project is      *)
(* edited between two updates.                                             *)
(*                                                                         *)
(* A package is a package of Pool with two more fields: branch_alias, the  *)
(* version its branch is an alias of, or 0, and valid, whether             *)
(* validate_package accepts it.  An entry of a lock is such a package,     *)
(* which is not an alias.  A requirement of the root has a target, a       *)
(* constraint, and as: a sequence of at most one version and alias.  The   *)
(* constraint holds the version, not the alias.                            *)
(*                                                                         *)
(* Which solution a solve finds is the business of module Solver: here it  *)
(* is any one that can be reached by answering a requirement that is not   *)
(* answered yet, until all are.  In a partial update the names outside its *)
(* list that the lock has come from the lock alone (module PoolBuilder has *)
(* the ways out of it).  Left out: links to self.version, references,      *)
(* filters of platform requirements, and the sections of the lock that     *)
(* hold settings.                                                          *)
(***************************************************************************)
EXTENDS Pool, FiniteSets, SequencesExt

CONSTANTS
  Manifests,   \* the composer.json of the project, with fields require,
               \* require_dev, provides, malformed and branch_alias
  Offered,     \* the packages of the repositories, a sequence
  Platform,    \* the packages of the platform, a sequence
  FirstLocks,  \* what composer.lock may hold before the first update
  AllowLists,  \* the lists of partial updates; {} for a full update
  MaxUpdates   \* bound on the updates

VARIABLES
  manifest,    \* composer.json
  lockfile,    \* composer.lock
  phase,       \* "idle", "prepare", "solve", "extract" or "write"
  allow_list,
  pool,        \* the pool of the update
  solutions,   \* what the next solve may find
  all,         \* the result, ids of the pool
  non_dev, dev,
  failure,     \* why the last update ended, or "none"
  updates

vars == <<manifest, lockfile, phase, allow_list, pool, solutions, all, non_dev, dev,
          failure, updates>>

Semantics == INSTANCE PoolSemantics

NoLockFile == [kind |-> "none"]
Unparsable == [kind |-> "unparsable"]
\* isset($data['packages']) fails.
NoPackages == [kind |-> "no_packages"]
Lock(packages, packages_dev, has_dev, aliases) ==
  [kind |-> "lock", packages |-> packages, packages_dev |-> packages_dev,
   has_dev |-> has_dev, aliases |-> aliases]

-----------------------------------------------------------------------------
(* Packages, their aliases, and pools.                                     *)

\* Package::alias
AliasTo(p, version, of, root_alias) ==
  [p EXCEPT !.version = version, !.alias_of = of, !.root_alias = root_alias]

\* The alias of a branch comes right before its package.
LoadOne(list, config) ==
  IF config.branch_alias = 0 THEN Append(list, config)
  ELSE list \o <<AliasTo(config, config.branch_alias, Len(list) + 2, FALSE), config>>

LoadPackages(configs) == FoldLeft(LoadOne, <<>>, configs)

Base(list, id) == IF IsAlias(list[id]) THEN list[id].alias_of ELSE id

\* The root aliases of a package; of two with the same version, the last.
RootAliasOf(aliases, p) ==
  LET named == {k \in DOMAIN aliases : aliases[k].package = p.name /\ aliases[k].version = p.version}
  IN {aliases[k].alias : k \in {k \in named : \A j \in named : j <= k}}

AddRootAlias(aliases, list, id) ==
  LET base == Base(list, id)
  IN list \o SetToSeq({AliasTo(list[base], v, base, TRUE) : v \in RootAliasOf(aliases, list[id])})

WithRootAliases(list, aliases) ==
  FoldLeft(LAMBDA grown, id : AddRootAlias(aliases, grown, id), list, [k \in DOMAIN list |-> k])

\* One list after another in the same pool.
Join(list, more) ==
  list \o [k \in DOMAIN more |->
             IF IsAlias(more[k]) THEN [more[k] EXCEPT !.alias_of = @ + Len(list)] ELSE more[k]]

-----------------------------------------------------------------------------
(* The root package.                                                       *)

\* extractAliases, of require and then of require-dev.
AliasesOf(m) ==
  LET OfAsk(ask) == [k \in DOMAIN ask.as |->
        [package |-> ask.target, version |-> ask.as[k].version, alias |-> ask.as[k].alias]]
  IN FlattenSeq([k \in DOMAIN m.require |-> OfAsk(m.require[k])])
       \o FlattenSeq([k \in DOMAIN m.require_dev |-> OfAsk(m.require_dev[k])])

\* An "as" that is no alias; a root that requires itself.
CannotLoad(m) == m.malformed \/ "root" \in TargetsOf(m.require \o m.require_dev)

\* Both sections; a target of both is asked as require-dev has it.
AllRequires(m) ==
  SelectSeq(m.require, LAMBDA ask : ask.target \notin TargetsOf(m.require_dev)) \o m.require_dev

RootPackage(m) ==
  [name |-> "root", version |-> 1, stability |-> 0, requires |-> <<>>, conflicts |-> <<>>,
   provides |-> m.provides, replaces |-> <<>>, alias_of |-> 0, root_alias |-> FALSE,
   self_requires |-> FALSE, branch_alias |-> m.branch_alias, valid |-> TRUE]

\* The root without its requirements, and the platform.
RootAndPlatform(m) == Join(LoadPackages(<<RootPackage(m)>>), Platform)

\* What the root provides is not fixed to the version the platform has.
FixedPackages(m) ==
  {id \in DOMAIN RootAndPlatform(m) :
     LET p == RootAndPlatform(m)[id]
     IN \A k \in DOMAIN m.provides :
          p.name = m.provides[k].target => p.version \notin m.provides[k].constraint}

Request(m, list, requires) ==
  [pool |-> list, filter |-> IgnoreNothing, requires |-> requires,
   fixed |-> SetToSeq(FixedPackages(m)), removed |-> {}]

-----------------------------------------------------------------------------
(* What a solve may find.                                                  *)

OpenLinks(x, S) ==
  {link \in ToSet(x.requires)
      \cup UNION {ToSet(Semantics!RequiresOf(x.pool[id])) : id \in S} :
     ~Semantics!Answered(x, S, link)}

\* A package is installed with its aliases.
Together(x, id) == {other \in DOMAIN x.pool : Base(x.pool, other) = Base(x.pool, id)}

Fits(x, S) == Semantics!OnePerName(x, S) /\ Semantics!NoConflict(x, S)

\* Every answer to every open requirement, of every set.
AnswerOne(x, found) ==
  UNION {IF OpenLinks(x, S) = {} THEN {S}
         ELSE {T \in {S \cup Together(x, id) : id \in
                        {id \in DOMAIN x.pool :
                           \E link \in OpenLinks(x, S) : Semantics!Answers(x, id, link)}} :
                 Fits(x, T)} : S \in found}

FoundBy(x) ==
  LET found == FoldLeft(LAMBDA sets, k : AnswerOne(x, sets), {ToSet(x.fixed)},
                        [k \in DOMAIN x.pool |-> k])
  IN {S \in found : Semantics!Solution(x, S)}

-----------------------------------------------------------------------------
(* The lock as a repository.                                               *)

\* An alias goes to the package of its name, whatever its version.
AddLockedAliases(list, lock) ==
  LET bases == {id \in DOMAIN list : ~IsAlias(list[id])}
      Of(id) == {a \in lock.aliases : a.package = list[id].name}
  IN FoldLeft(LAMBDA grown, id :
                grown \o SetToSeq({AliasTo(list[id], a.alias, id, TRUE) : a \in Of(id)}),
              list, SetToSeq(bases))

\* locked_repository_with, where it does not refuse.
LockedRepository(lock, with_dev) ==
  LET configs == SetToSeq(lock.packages) \o IF with_dev THEN SetToSeq(lock.packages_dev) ELSE <<>>
  IN AddLockedAliases(LoadPackages(configs), lock)

-----------------------------------------------------------------------------
(* prepare_update                                                          *)

Init ==
  /\ manifest \in Manifests
  /\ lockfile \in FirstLocks
  /\ phase = "idle"
  /\ allow_list = {}
  /\ pool = <<>>
  /\ solutions = {}
  /\ all = {}
  /\ non_dev = {}
  /\ dev = {}
  /\ failure = "none"
  /\ updates = 0

\* The user edits composer.json.
Edit ==
  /\ phase = "idle"
  /\ updates \in 1 .. MaxUpdates - 1
  /\ manifest' \in Manifests \ {manifest}
  /\ UNCHANGED <<lockfile, phase, allow_list, pool, solutions, all, non_dev, dev, failure,
                 updates>>

Start ==
  /\ phase = "idle"
  /\ updates < MaxUpdates
  /\ allow_list' \in AllowLists
  /\ phase' = "prepare"
  /\ updates' = updates + 1
  /\ failure' = "none"
  /\ UNCHANGED <<manifest, lockfile, pool, solutions, all, non_dev, dev>>

End(why) ==
  /\ phase' = "idle"
  /\ failure' = why
  /\ pool' = <<>>
  /\ solutions' = {}
  /\ all' = {}
  /\ non_dev' = {}
  /\ dev' = {}
  /\ UNCHANGED <<manifest, allow_list, updates>>

Partial == allow_list # {}

IsLocked == lockfile.kind = "lock"

\* No root package; a lock that is not JSON, or is not there, when only some
\* packages are updated; a lock without its development packages.
Unprepared ==
  \/ CannotLoad(manifest)
  \/ Partial /\ ~IsLocked
  \/ IsLocked /\ ~lockfile.has_dev

CannotPrepare ==
  /\ phase = "prepare"
  /\ Unprepared
  /\ End("unprepared")
  /\ UNCHANGED lockfile

StaysLocked(p) == Partial /\ p.name \notin allow_list

\* The packages of the lock that stay, and what the repositories offer under
\* the names that do not; the root aliases are given to the latter.
PoolOf(m) ==
  LET of_lock == IF IsLocked THEN lockfile ELSE Lock({}, {}, TRUE, {})
      stay == {p \in of_lock.packages \cup of_lock.packages_dev : StaysLocked(p)}
      kept == LockedRepository(Lock(stay, {}, TRUE, of_lock.aliases), FALSE)
      Free(p) == p.name \notin {q.name : q \in stay}
      free == WithRootAliases(LoadPackages(SelectSeq(Offered, Free)), AliasesOf(m))
  IN Join(Join(RootAndPlatform(m), kept), free)

\* What require and require-dev ask of a pool.
Asked(m, list) == Request(m, list, AllRequires(m))

Prepare ==
  /\ phase = "prepare"
  /\ ~Unprepared
  /\ phase' = "solve"
  /\ LET list == PoolOf(manifest)
     IN pool' = list /\ solutions' = FoundBy(Asked(manifest, list))
  /\ UNCHANGED <<manifest, lockfile, allow_list, all, non_dev, dev, failure, updates>>

-----------------------------------------------------------------------------
(* update                                                                  *)

Unsolvable ==
  /\ phase = "solve"
  /\ solutions = {}
  /\ End("unsolvable")
  /\ UNCHANGED lockfile

\* setResultPackages: all that is kept is validated, the root excepted.
Invalid(S) == \E id \in S : ~pool[id].valid

Reject ==
  /\ phase = "solve"
  /\ \E S \in solutions : Invalid(S)
  /\ End("invalid")
  /\ UNCHANGED lockfile

\* new_lock_packages
NewLockPackages(list, ids) == {list[id] : id \in {i \in ids : ~IsAlias(list[i])}}

\* createPoolWithAllPackages, of the result as it was dumped.
ResultPool(m, result) ==
  WithRootAliases(Join(RootAndPlatform(m), LoadPackages(SetToSeq(result))), AliasesOf(m))

AskedWithoutDev(m, list) == Request(m, list, m.require)

\* The second solve is prepared where there is something to extract.
Solve ==
  /\ phase = "solve"
  /\ \E S \in solutions :
       LET kept == S \ FixedPackages(manifest)
           second == AskedWithoutDev(manifest, ResultPool(manifest, NewLockPackages(pool, kept)))
       IN /\ ~Invalid(S)
          /\ all' = S
          /\ non_dev' = kept
          /\ solutions' = IF manifest.require_dev = <<>> THEN {} ELSE FoundBy(second)
  /\ phase' = IF manifest.require_dev = <<>> THEN "write" ELSE "extract"
  /\ UNCHANGED <<manifest, lockfile, allow_list, pool, dev, failure, updates>>

CannotExtract ==
  /\ phase = "extract"
  /\ solutions = {}
  /\ End("no set without require-dev")
  /\ UNCHANGED lockfile

\* set_non_dev_packages: by name, aliases with their packages.
ExtractDevPackages ==
  /\ phase = "extract"
  /\ \E S \in solutions :
       LET list == ResultPool(manifest, NewLockPackages(pool, non_dev))
           names == {p.name : p \in NewLockPackages(list, S \ FixedPackages(manifest))}
       IN /\ non_dev' = {id \in non_dev : pool[id].name \in names}
          /\ dev' = {id \in non_dev : pool[id].name \notin names}
  /\ phase' = "write"
  /\ solutions' = {}
  /\ UNCHANGED <<manifest, lockfile, allow_list, pool, all, failure, updates>>

\* (mutant: the aliases of the root are not recorded)
NoAliases == {}

\* getAliases: those of a name that an alias of the result has.
UsedAliases ==
  {a \in ToSet(AliasesOf(manifest)) : \E id \in all : IsAlias(pool[id]) /\ pool[id].name = a.package}

LockJson ==
  Lock(NewLockPackages(pool, non_dev), NewLockPackages(pool, dev), TRUE, UsedAliases)

WriteLock ==
  /\ phase = "write"
  /\ lockfile' = LockJson
  /\ End("none")

Next ==
  \/ Edit
  \/ Start
  \/ CannotPrepare
  \/ Prepare
  \/ Unsolvable
  \/ Reject
  \/ Solve
  \/ CannotExtract
  \/ ExtractDevPackages
  \/ WriteLock

Spec == Init /\ [][Next]_vars

-----------------------------------------------------------------------------
(* Properties.                                                             *)

\* Every name is asked for in one section, and an "as" for one version.
AskedOnce ==
  /\ TargetsOf(manifest.require) \cap TargetsOf(manifest.require_dev) = {}
  /\ \A ask \in ToSet(AllRequires(manifest)) : \A k \in DOMAIN ask.as :
       ask.constraint = {ask.as[k].version}

\* The packages that stay locked had the aliases that they have now.
AliasesStand ==
  Partial /\ IsLocked =>
    \A p \in lockfile.packages \cup lockfile.packages_dev : StaysLocked(p) =>
      {a \in lockfile.aliases : a.package = p.name} = {a \in ToSet(AliasesOf(manifest)) : a.package = p.name}

Fact(p) == [name |-> p.name, version |-> p.version, alias |-> IsAlias(p), root |-> p.root_alias]

Installed == all \ FixedPackages(manifest)

\* What is read of the lock that is written is what the solve found: every
\* package in one section, every alias, of a branch or of the root, again
\* with its package, and nothing else (an update that changes nothing finds
\* nothing to do, an install installs what was resolved).
LockRoundTrip ==
  phase = "write" /\ AskedOnce /\ AliasesStand =>
    LET read == LockedRepository(LockJson, TRUE)
    IN /\ {Fact(read[k]) : k \in DOMAIN read} = {Fact(pool[id]) : id \in Installed}
       /\ Len(read) = Cardinality(Installed)

\* The packages that are not for development, as an install without
\* development packages reads them of the lock, answer all that composer.json
\* requires, by themselves, and each of them is there because something
\* requires it (the sections come from a second solve, over packages that
\* were dumped and loaded again).
NoDevStandsAlone ==
  phase = "write" /\ AskedOnce /\ AliasesStand =>
    LET list == Join(RootAndPlatform(manifest), LockedRepository(LockJson, FALSE))
        x == Request(manifest, list, manifest.require)
        kept == DOMAIN list \ (DOMAIN RootAndPlatform(manifest) \ FixedPackages(manifest))
    IN kept \in FoundBy(x)

\* When all requirements can be met, so can those of require by what was
\* found: the second solve does not fail when the first did not.
ExtractionAlways ==
  AskedOnce /\ AliasesStand => failure # "no set without require-dev"
=============================================================================
