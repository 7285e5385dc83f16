----------------------------- MODULE Transaction -----------------------------
(***************************************************************************)
(* The operations that turn the packages present (the lock in an update,   *)
(* installed.json in an install) into the packages of the result, and      *)
(* their order (resolver/src/transaction.rs).  An instance is an arena of  *)
(* packages and the positions in it of those present and of the result.    *)
(* A package is a package of Pool with two more fields: ref, standing for  *)
(* its dist and source references and whether and for what it is           *)
(* abandoned, and type: "library", "plugin" (composer-plugin or            *)
(* composer-installer) or "dl_plugin" (a composer-plugin that modifies     *)
(* downloads).                                                             *)
(***************************************************************************)
EXTENDS Pool, FiniteSets, SequencesExt, Selection

CONSTANTS
  Instances,   \* records with fields arena, present and result
  NameOrder    \* the names of packages, in byte order

\* The key of a package in installed.json or a lock: its name, or for an alias
\* its name and version.
HaveOneKey(p, q) ==
  /\ p.name = q.name
  /\ IsAlias(p) = IsAlias(q)
  /\ IsAlias(p) => p.version = q.version

\* An instance names its packages by NameOrder and has one of a key in what is
\* present and in the result; a result has with an alias the package it is for
\* (a rule of the solver), with the same names and requirements (Package::alias).
IsInstance(i) ==
  LET arena == i.arena IN
  /\ \A id \in DOMAIN arena :
       /\ arena[id].name \in Range(NameOrder)
       /\ arena[id].version \in Nat
       /\ arena[id].requires \in Seq(Range(arena[id].requires))
  /\ \A ids \in {i.present, i.result} :
       /\ ids \in Seq(DOMAIN arena)
       /\ \A k, n \in DOMAIN ids : HaveOneKey(arena[ids[k]], arena[ids[n]]) => k = n
  /\ \A id \in Range(i.result) :
       IsAlias(arena[id]) =>
         LET base == arena[id].alias_of IN
         /\ base \in Range(i.result)
         /\ ~IsAlias(arena[base])
         /\ arena[base].name = arena[id].name
         /\ TargetsOf(arena[base].requires) = TargetsOf(arena[id].requires)
         /\ Names(arena[base], TRUE) = Names(arena[id], TRUE)

ASSUME TransactionAssumption ==
  /\ NameOrder \in Seq(Range(NameOrder))
  /\ \A k, n \in DOMAIN NameOrder : NameOrder[k] = NameOrder[n] => k = n
  /\ \A i \in Instances : IsInstance(i)

VARIABLES
  inst,            \* the instance
  at,              \* the loop: "roots", "walk", "plugins" or "done"
  cursor,          \* the position a loop is at
  result_map,      \* the result, sorted
  roots,           \* getRootPackages: nobody requires them
  stack,           \* the packages to walk
  visited,         \* those whose requirements are on the stack or were
  processed,       \* those whose operation is decided
  remove_map,      \* present packages the result does not have, so far
  remove_alias_map,
  operations,
  needed,          \* names that plugins require
  moved,           \* the four lists of movePluginsToFront
  taken            \* the positions of the operations in them

walkVars == <<inst, at, cursor, result_map, roots, stack, visited, processed,
              remove_map, remove_alias_map, operations, needed, moved, taken>>

Package(id) == inst.arena[id]
NamesOf(id) == Names(Package(id), TRUE)
RequiresOf(id) == TargetsOf(Package(id).requires)

Operation(type, from, package) == [type |-> type, from |-> from, package |-> package]

-----------------------------------------------------------------------------
(* The maps of the present and of the result.                              *)

Rank(name) == CHOOSE k \in DOMAIN NameOrder : NameOrder[k] = name

\* package_sort
SortsBefore(i, j) ==
  LET a == Package(i)
      b == Package(j)
  IN IF a.name # b.name THEN Rank(a.name) > Rank(b.name)
     ELSE IF IsAlias(a) # IsAlias(b) THEN IsAlias(a)
     ELSE a.version > b.version

Results == Range(inst.result)
Present == Range(inst.present)

\* sort_by: where a package comes is how many sort before it.
ResultMap ==
  [k \in DOMAIN inst.result |->
     CHOOSE id \in Results : Cardinality({i \in Results : SortsBefore(i, id)}) = k - 1]

\* The packages of the result with this name, in that order.
Providers(target) == Selected(result_map, {id \in Results : target \in NamesOf(id)})

SameKey(i, j) == HaveOneKey(Package(i), Package(j))

PresentWithKey(id) == {i \in Present : SameKey(i, id)}

Without(map, id) == Selected(map, {i \in Present : ~SameKey(i, id)})

Differs(i, j) ==
  Package(i).version # Package(j).version \/ Package(i).ref # Package(j).ref

-----------------------------------------------------------------------------
(* Transaction::new                                                        *)

Lists == {"dl_no_deps", "dl_with_deps", "plugins_no_deps", "plugins_with_deps"}

WalkInit ==
  /\ inst \in Instances
  /\ at = "roots"
  /\ cursor = 1
  /\ result_map = ResultMap
  /\ roots = result_map
  /\ stack = <<>>
  /\ visited = {}
  /\ processed = {}
  /\ remove_map = Selected(inst.present, {i \in Present : ~IsAlias(Package(i))})
  /\ remove_alias_map = Selected(inst.present, {i \in Present : IsAlias(Package(i))})
  /\ operations = <<>>
  /\ needed = [why \in {"dl", "plugin"} |-> {}]
  /\ moved = [list \in Lists |-> <<>>]
  /\ taken = {}

\* (mutant: a package that has been struck strikes too)
AlwaysStrikes(id) == TRUE

\* One package of the result strikes what it requires off the roots, unless
\* it has itself been struck.
Strikes(id) == id \in Range(roots)

StrikeRoots ==
  /\ at = "roots"
  /\ cursor \in DOMAIN result_map
  /\ LET id == result_map[cursor]
         struck == {r \in Results \ {id} : RequiresOf(id) \cap NamesOf(r) # {}}
     IN roots' = IF Strikes(id) THEN Selected(roots, Results \ struck) ELSE roots
  /\ cursor' = cursor + 1
  /\ UNCHANGED <<inst, at, result_map, stack, visited, processed, remove_map,
                 remove_alias_map, operations, needed, moved, taken>>

StartWalk ==
  /\ at = "roots"
  /\ cursor \notin DOMAIN result_map
  /\ at' = "walk"
  /\ stack' = roots
  /\ UNCHANGED <<inst, cursor, result_map, roots, visited, processed, remove_map,
                 remove_alias_map, operations, needed, moved, taken>>

Walking(id) == at = "walk" /\ stack # <<>> /\ id = Last(stack)

\* (mutant: the top of the stack is read and left)
Peek == stack' = stack

Pop == stack' = Front(stack)

WalkUnchanged == UNCHANGED <<inst, at, result_map, cursor, roots, needed, moved, taken>>

SkipProcessed ==
  \E id \in processed :
    /\ Walking(id)
    /\ Pop
    /\ WalkUnchanged
    /\ UNCHANGED <<visited, processed, remove_map, remove_alias_map, operations>>

\* What is pushed above a package: the package an alias is for, or all the
\* providers of each requirement.
Pushed(id) ==
  IF IsAlias(Package(id)) THEN <<Package(id).alias_of>>
  ELSE LET requires == Package(id).requires
           all[k \in 0 .. Len(requires)] ==
             IF k = 0 THEN <<>> ELSE all[k - 1] \o Providers(requires[k].target)
       IN all[Len(requires)]

Visit ==
  \E id \in DOMAIN inst.arena \ (visited \cup processed) :
    /\ Walking(id)
    /\ visited' = visited \cup {id}
    /\ stack' = stack \o Pushed(id)
    /\ WalkUnchanged
    /\ UNCHANGED <<processed, remove_map, remove_alias_map, operations>>

\* The second time a package is popped.
Process(id) ==
  /\ Walking(id)
  /\ Pop
  /\ processed' = processed \cup {id}
  /\ WalkUnchanged
  /\ UNCHANGED visited

ProcessAlias ==
  \E id \in visited \ processed :
    /\ Process(id)
    /\ IsAlias(Package(id))
    /\ IF PresentWithKey(id) # {}
       THEN remove_alias_map' = Without(remove_alias_map, id) /\ UNCHANGED operations
       ELSE /\ operations' = Append(operations, Operation("mark_alias_installed", 0, id))
            /\ UNCHANGED remove_alias_map
    /\ UNCHANGED remove_map

ProcessKnown ==
  \E id \in visited \ processed, source \in Present :
    /\ Process(id)
    /\ ~IsAlias(Package(id)) /\ source \in PresentWithKey(id)
    /\ operations' = IF Differs(id, source)
                     THEN Append(operations, Operation("update", source, id))
                     ELSE operations
    /\ remove_map' = Without(remove_map, id)
    /\ UNCHANGED remove_alias_map

ProcessNew ==
  \E id \in visited \ processed :
    /\ Process(id)
    /\ ~IsAlias(Package(id)) /\ PresentWithKey(id) = {}
    /\ operations' = Append(operations, Operation("install", 0, id))
    /\ remove_map' = Without(remove_map, id)
    /\ UNCHANGED remove_alias_map

All(type, ids) == [k \in DOMAIN ids |-> Operation(type, 0, ids[k])]

\* Each removal is put in front of the previous one.
PutRemovals ==
  /\ at = "walk"
  /\ stack = <<>>
  /\ at' = "plugins"
  /\ operations' = All("uninstall", Reverse(remove_map)) \o operations
                     \o All("mark_alias_uninstalled", remove_alias_map)
  /\ cursor' = Len(operations')
  /\ UNCHANGED <<inst, result_map, roots, stack, visited, processed, remove_map,
                 remove_alias_map, needed, moved, taken>>

-----------------------------------------------------------------------------
(* movePluginsToFront, from the last operation to the first.               *)

Places(op) == op.type \in {"install", "update"}

NonPlatformRequires(id) == RequiresOf(id) \ PlatformNames

\* The operation at cursor goes in front of one of the four lists.
Take(list, id, why) ==
  /\ moved' = [moved EXCEPT ![list] = <<operations[cursor]>> \o @]
  /\ taken' = taken \cup {cursor}
  /\ needed' = [needed EXCEPT ![why] = @ \cup NonPlatformRequires(id)]

IsDlPlugin(id) == Package(id).type = "dl_plugin"
IsPlugin(id) == Package(id).type \in {"plugin", "dl_plugin"}

ForDl(id) == IsDlPlugin(id) \/ NamesOf(id) \cap needed["dl"] # {}
ForPlugin(id) == IsPlugin(id) \/ NamesOf(id) \cap needed["plugin"] # {}

MovePlugin ==
  /\ at = "plugins"
  /\ cursor > 0
  /\ LET op == operations[cursor]
         id == op.package
         alone == NonPlatformRequires(id) = {}
     IN IF Places(op) /\ ForDl(id)
        THEN Take(IF IsDlPlugin(id) /\ alone THEN "dl_no_deps" ELSE "dl_with_deps", id, "dl")
        ELSE IF Places(op) /\ ForPlugin(id)
        THEN Take(IF IsPlugin(id) /\ alone THEN "plugins_no_deps" ELSE "plugins_with_deps",
                  id, "plugin")
        ELSE UNCHANGED <<moved, needed, taken>>
  /\ cursor' = cursor - 1
  /\ UNCHANGED <<inst, at, result_map, roots, stack, visited, processed, remove_map,
                 remove_alias_map, operations>>

NotTaken ==
  LET left == Selected([k \in DOMAIN operations |-> k], DOMAIN operations \ taken)
  IN [k \in DOMAIN left |-> operations[left[k]]]

PluginsInFront ==
  moved["dl_no_deps"] \o moved["dl_with_deps"] \o moved["plugins_no_deps"]
    \o moved["plugins_with_deps"] \o NotTaken

Removes(op) == op.type \in {"uninstall", "mark_alias_uninstalled"}

\* moveUninstallsToFront
RemovalsFirst ==
  /\ at = "plugins"
  /\ cursor = 0
  /\ at' = "done"
  /\ LET removals == {op \in Range(operations) : Removes(op)}
     IN operations' = Selected(PluginsInFront, removals)
                        \o Selected(PluginsInFront, Range(operations) \ removals)
  /\ UNCHANGED <<inst, cursor, result_map, roots, stack, visited, processed, remove_map,
                 remove_alias_map, needed, moved, taken>>

WalkNext ==
  \/ StrikeRoots
  \/ StartWalk
  \/ SkipProcessed
  \/ Visit
  \/ ProcessAlias
  \/ ProcessKnown
  \/ ProcessNew
  \/ PutRemovals
  \/ MovePlugin
  \/ RemovalsFirst

\* The code is one loop after another: it takes the next step.
WalkSpec == WalkInit /\ [][WalkNext]_walkVars

-----------------------------------------------------------------------------
(* Properties.                                                             *)

\* Positions are of the right kind, and every package walked is of the result.
WalkTypes ==
  /\ at \in {"roots", "walk", "plugins", "done"}
  /\ cursor \in Nat
  /\ Range(roots) \cup Range(stack) \cup visited \subseteq Results
  /\ processed \subseteq visited
  /\ Range(remove_map) \cup Range(remove_alias_map) \subseteq Present
  /\ \A op \in Range(operations) :
       /\ op.type \in {"install", "update", "uninstall",
                       "mark_alias_installed", "mark_alias_uninstalled"}
       /\ op.package \in DOMAIN inst.arena
       /\ op.from \in IF op.type = "update" THEN Present ELSE {0}
  /\ \A why \in {"dl", "plugin"} : needed[why] \cap PlatformNames = {}
  /\ at = "plugins" => taken \subseteq DOMAIN operations

\* What is installed is a set of facts about packages; an alias has no files.
Fact(id) ==
  [name |-> Package(id).name, alias |-> IsAlias(Package(id)), version |-> Package(id).version,
   ref |-> IF IsAlias(Package(id)) THEN 0 ELSE Package(id).ref]

Facts(ids) == {Fact(id) : id \in ids}

Lost(op) ==
  IF op.type = "update" THEN {Fact(op.from)}
  ELSE IF Removes(op) THEN {Fact(op.package)} ELSE {}

Gained(op) == IF Removes(op) THEN {} ELSE {Fact(op.package)}

\* What is installed when the first n operations are done.
Have(n) ==
  LET have[k \in 0 .. n] ==
        IF k = 0 THEN Facts(Present)
        ELSE (have[k - 1] \ Lost(operations[k])) \cup Gained(operations[k])
  IN have[n]

Named(have, name) == {f \in have : f.name = name /\ ~f.alias}

\* An operation finds what it expects and changes something: an install, no
\* package of the name; an update, another package of the name; an alias,
\* the package it is for, as the result has it.
Applies(n) ==
  LET op == operations[n]
      p == op.package
      have == Have(n - 1)
  IN CASE op.type = "install" -> Named(have, Package(p).name) = {}
       [] op.type = "update" ->
            Named(have, Package(p).name) = {Fact(op.from)} /\ Fact(op.from) # Fact(p)
       [] op.type = "mark_alias_installed" ->
            Fact(p) \notin have /\ Fact(Package(p).alias_of) \in have
       [] OTHER -> Fact(p) \in have

\* The operations, applied in their order to what is present, give what the
\* result has, however its packages require each other, and none is useless
\* or out of place (getRootPackages leaves a way to every package, the walk
\* processes each once, what the result does not have is removed).
OperationsCarryOver ==
  at = "done" =>
    /\ \A n \in DOMAIN operations : Applies(n)
    /\ Have(Len(operations)) = Facts(Results)

\* The walk does not leave X.
ClosedUnderWalk(X) == \A id \in X : Range(Pushed(id)) \subseteq X

\* The walk comes back to id from what id has it walk.
OnCycle(id) ==
  \A X \in SUBSET Results :
    ClosedUnderWalk(X) /\ Range(Pushed(id)) \subseteq X => id \in X

\* X has the packages of these types and what they need: the providers of what
\* they require, the platform apart, and so on.
HasWithNeeds(X, types) ==
  /\ \A id \in Results : Package(id).type \in types => id \in X
  /\ \A id \in X, q \in Results : NonPlatformRequires(id) \cap NamesOf(q) # {} => q \in X

PluginTypes == {"dl_plugin", "plugin"}

\* A plugin needs it, or it is one: it is moved to the front.
NeededByPlugins(id) == \A X \in SUBSET Results : HasWithNeeds(X, PluginTypes) => id \in X

Position(id) == {n \in DOMAIN operations : Places(operations[n]) /\ operations[n].package = id}

\* A package is put in place after all that provide what it requires, unless
\* it reaches itself through requirements, and unless it goes to the front with
\* the plugins and what it requires of the other is the platform only, which the
\* moves do not look at (the listing of install is in this order).
DependenciesFirst ==
  at = "done" =>
    \A id \in Results :
      \/ IsAlias(Package(id)) \/ OnCycle(id)
      \/ \A q \in Range(Pushed(id)) :
           \/ NeededByPlugins(id) /\ NonPlatformRequires(id) \cap NamesOf(q) = {}
           \/ \A m \in Position(q), n \in Position(id) : m < n

\* Only what a plugin needs, and what no plugin waits for (removals), comes
\* before a plugin; and the plugins that modify downloads come before the
\* others in the same way (movePluginsToFront).
PluginsFirst ==
  at = "done" =>
    \A types \in {{"dl_plugin"}, PluginTypes}, X \in SUBSET Results :
      HasWithNeeds(X, types) =>
        \A n \in DOMAIN operations : \A m \in 1 .. n - 1 :
          /\ Places(operations[m]) /\ Places(operations[n])
          /\ Package(operations[n].package).type \in types
          => operations[m].package \in X

\* The operations, applied in their order to what is present, give the result;
\* what a package requires is put in place before it, but for cycles; and before a
\* plugin comes only what it needs (Transaction::new, movePluginsToFront).
OperationsInOrder ==
  WalkTypes /\ OperationsCarryOver /\ DependenciesFirst /\ PluginsFirst
=============================================================================
