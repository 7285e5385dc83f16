------------------------------ MODULE MCCommands ------------------------------
(***************************************************************************)
(* The three parts of a command that changes the packages of a project,    *)
(* each by itself:                                                         *)
(*   "commands"    a project of two packages, and a user who runs a few    *)
(*                 commands one after the other                            *)
(*   "session"     updates that resolve a small world with branches,       *)
(*                 aliases and development packages, and write the lock    *)
(*   "operations"  the operations between what is present and a result     *)
(***************************************************************************)
EXTENDS Commands, Transaction, TLC

CONSTANTS alpha, beta

VARIABLES part,
          manifest, lockfile, step, allow_list, pool, solutions, all, non_dev,
          development, failure, updates

sessionVars == <<manifest, lockfile, step, allow_list, pool, solutions, all, non_dev,
                 development, failure, updates>>
partVars == <<part, vars, sessionVars, walkVars>>

Ask(target, constraint) == [target |-> target, constraint |-> constraint]

-----------------------------------------------------------------------------
(* A world: a has a branch, which is an alias of 3, and b and t versions    *)
(* that need one of its versions or aliases each; c provides v.            *)

AnyOf == 1 .. 5

Offer(name, version, requires) ==
  [name |-> name, version |-> version, stability |-> 0, requires |-> requires,
   conflicts |-> <<>>, provides |-> <<>>, replaces |-> <<>>, alias_of |-> 0,
   root_alias |-> FALSE, self_requires |-> FALSE, branch_alias |-> 0, valid |-> TRUE]

MCOffered == <<
  [Offer("a", 5, <<>>) EXCEPT !.branch_alias = 3],
  Offer("a", 1, <<>>),
  Offer("b", 1, <<Ask("a", {1, 2})>>),
  [Offer("b", 2, <<Ask("a", {3})>>) EXCEPT !.branch_alias = 1],
  Offer("b", 3, <<Ask("a", {4})>>),
  [Offer("c", 1, <<Ask("b", {1, 2, 3}), Ask("php", {2})>>) EXCEPT
     !.provides = <<Ask("v", AnyOf)>>, !.conflicts = <<Ask("a", {1})>>],
  Offer("t", 1, <<Ask("v", AnyOf)>>),
  [Offer("t", 2, <<Ask("b", {1, 3})>>) EXCEPT !.replaces = <<Ask("v", {2})>>],
  [Offer("t", 3, <<>>) EXCEPT !.valid = FALSE]>>

Require(target, constraint) == [target |-> target, constraint |-> constraint, as |-> <<>>]

RequireAs(target, version, alias) ==
  [target |-> target, constraint |-> {version},
   as |-> <<[version |-> version, alias |-> alias]>>]

Manifest(sections) ==
  [require |-> sections[1], require_dev |-> sections[2], provides |-> <<>>,
   malformed |-> FALSE, branch_alias |-> 0]

\* Requirements that meet in a and b, in one section or the other; one that is
\* in both; a root that provides php and has an alias; roots that are refused.
MCManifests ==
  {Manifest(sections) : sections \in
     {<<Require("a", AnyOf)>>, <<RequireAs("a", 5, 4), Require("c", {1})>>,
      <<RequireAs("a", 5, 2)>>, <<Require("v", AnyOf)>>,
      <<Require("c", {1}), Require("t", {1, 2})>>}
     \X {<<>>, <<RequireAs("a", 5, 4)>>, <<Require("c", {1})>>, <<Require("b", AnyOf)>>,
         <<Require("t", {1, 2})>>}}
  \cup {[Manifest(<<<<Require("a", AnyOf), Require("php", {2})>>, <<Require("b", AnyOf)>>>>)
          EXCEPT !.provides = <<Ask("php", {2})>>, !.branch_alias = 3]}
  \cup {[Manifest(<<<<Require("t", {3})>>, <<>>>>) EXCEPT !.malformed = is] : is \in BOOLEAN}
  \cup {Manifest(<<<<Require("root", {1})>>, <<>>>>)}

Session == INSTANCE Session WITH
  Versions <- AnyOf, PlatformNames <- {"php"}, Manifests <- MCManifests,
  Offered <- MCOffered, Platform <- <<Offer("php", 2, <<>>)>>,
  FirstLocks <- {[kind |-> "none"], [kind |-> "unparsable"], [kind |-> "no_packages"],
                 [kind |-> "lock", packages |-> {MCOffered[2]}, packages_dev |-> {MCOffered[3]},
                  has_dev |-> TRUE, aliases |-> {}],
                 [kind |-> "lock", packages |-> {MCOffered[1]}, packages_dev |-> {},
                  has_dev |-> FALSE, aliases |-> {}]},
  AllowLists <- {{}, {"b", "c"}}, MaxUpdates <- 2, phase <- step, dev <- development

-----------------------------------------------------------------------------
(* Results: every graph of requirements between three packages, cycles and  *)
(* packages that provide what they require included; plugins of both kinds  *)
(* that require each other; aliases.                                       *)

MCVersions == 1 .. 3

MCNameOrder == <<"a", "b", "c", "d", "php", "v">>

Walked(name, version, requires) ==
  [name |-> name, version |-> version, ref |-> 1, type |-> "library", alias_of |-> 0,
   requires |-> LET targets == SelectSeq(MCNameOrder, LAMBDA n : n \in requires)
                IN [k \in DOMAIN targets |-> Ask(targets[k], MCVersions)],
   provides |-> <<>>, replaces |-> <<>>]

ThatProvides(p, target) == [p EXCEPT !.provides = <<Ask(target, MCVersions)>>]

\* A polyfill: it provides what the platform does too.
Polyfill(p) == [p EXCEPT !.provides = <<Ask("v", MCVersions), Ask("php", MCVersions)>>]

Typed(p, type) == [p EXCEPT !.type = type]

AliasOf(id, p) == [p EXCEPT !.version = 3, !.alias_of = id]

\* The result is the first n packages of the arena; what is present is after,
\* or is a package of the result itself.
Case(arena, n, present) ==
  [arena |-> arena, present |-> present, result |-> [k \in 1 .. n |-> k]]

\* a, b and c, of which c may provide a too; present: nothing, or an older a
\* and a package that goes, or the b of the result and a c of another reference.
Walks ==
  {Case(<<Walked("a", 2, ra), Walked("b", 2, rb),
          IF provides THEN ThatProvides(Walked("c", 2, rc), "a") ELSE Walked("c", 2, rc),
          Walked("a", 1, {}), Walked("d", 1, {"a"}), [Walked("c", 2, rc) EXCEPT !.ref = 2]>>,
        3, present) :
     ra \in SUBSET {"a", "b", "c"}, rb \in SUBSET {"a", "b", "c"},
     rc \in SUBSET {"a", "b", "c"}, provides \in BOOLEAN,
     present \in {<<>>, <<4, 5>>, <<5, 2, 6>>}}

\* Two libraries, and c and d that may be plugins.
Plugins ==
  {Case(<<Walked("a", 2, ra), Polyfill(Walked("b", 2, {})),
          Typed(Walked("c", 2, rc), tc), Typed(Walked("d", 2, rd), td), Walked("php", 2, {}),
          Walked("a", 1, {})>>,
        5, present) :
     ra \in {{}, {"b"}, {"d"}}, rc \in SUBSET {"a", "v", "d", "php"},
     rd \in SUBSET {"a", "b", "php"},
     tc \in {"plugin", "dl_plugin"}, td \in {"library", "plugin", "dl_plugin"},
     present \in {<<5>>, <<5, 6>>}}

\* A package with an alias, present or not, of which another version may be.
WithAliases ==
  {Case(<<Walked("b", 2, rb), AliasOf(1, Walked("b", 2, rb)), Walked("a", 2, ra), Walked("c", 2, rc),
          Walked("b", 1, {}), AliasOf(5, Walked("b", 1, {})), Walked("d", 1, {}),
          AliasOf(7, Walked("d", 1, {}))>>,
        4, present) :
     ra \in {{}, {"b"}, {"b", "c"}}, rb \in {{}, {"a"}, {"c"}, {"b"}},
     rc \in {{}, {"b"}, {"a"}},
     present \in {<<>>, <<1>>, <<1, 2>>, <<5>>, <<5, 6>>, <<7, 8>>, <<2, 1, 8, 7>>}}

MCInstances == Walks \cup Plugins \cup WithAliases

-----------------------------------------------------------------------------
(* One part moves, the others stay as they might begin.                    *)

OneManifest == CHOOSE m \in MCManifests : TRUE
OneInstance == CHOOSE i \in MCInstances : TRUE

PartsInit ==
  /\ part \in {"commands", "session", "operations"}
  /\ part # "commands" => json = NoFile /\ lock = NoFile /\ lockEnabled = FALSE
  /\ part # "session" => manifest = OneManifest /\ lockfile = [kind |-> "none"]
  /\ part # "operations" => inst = OneInstance
  /\ Init /\ Session!Init /\ WalkInit

OperationsNext == part = "operations" /\ WalkNext /\ UNCHANGED <<part, vars, sessionVars>>

PartsNext ==
  \/ part = "commands" /\ Next /\ UNCHANGED <<part, sessionVars, walkVars>>
  \/ part = "session" /\ Session!Next /\ UNCHANGED <<part, vars, walkVars>>
  \/ OperationsNext

\* The walk of the operations is one loop after another.
PartsSpec == PartsInit /\ [][PartsNext]_partVars /\ WF_partVars(OperationsNext)

\* The walk ends, whatever cycles the requirements make (Transaction::new).
Terminates == part = "operations" => <>(at = "done")

\* The lock, read again, is what was resolved (lock_json, locked_repository); the
\* second solve, without require-dev, finds something when the first did, and what
\* it finds is enough for itself, and needed (extract_dev_packages).
LockAsResolved == Session!LockRoundTrip /\ Session!NoDevStandsAlone /\ Session!ExtractionAlways
===============================================================================
