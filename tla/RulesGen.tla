------------------------------ MODULE RulesGen ------------------------------
(***************************************************************************)
(* RuleSetGenerator (resolver/src/rules_gen.rs): the rules of a pool and a *)
(* request.  The generator is a sequential computation without output      *)
(* other than its rules, so it is a function of its input.                 *)
(*                                                                         *)
(* The input x is a record: pool; filter; requires, a sequence of links    *)
(* (the root requires); fixed, a sequence of fixed packages, each a pool   *)
(* id, or 0 for one the pool refused (unacceptable_fixed_or_locked);       *)
(* removed, the pool ids of the locked packages whose version a filter     *)
(* list removed; policy, handed on to the solver.                         *)
(***************************************************************************)
EXTENDS Pool, Rules, SequencesExt

\* The state of the generator.
Empty == [rules |-> <<>>, rule_by_id |-> <<>>, added |-> <<>>, by_name |-> <<>>]

WithRule(g, r, type) ==
  [g EXCEPT !.rules = AddToStorage(g.rules, r, type),
            !.rule_by_id = AddToRuleById(g.rules, g.rule_by_id, r)]

\* create_require_rule then add_rule: nothing for a package that is among
\* its own providers.
WithRequireRule(g, id, providers, required) ==
  IF id \in providers THEN g
  ELSE WithRule(g, Generic({-id} \cup providers, required), "package")

\* add_by_name: names in the order of their first package.
AddByName(g, name, id) ==
  [g EXCEPT !.by_name =
     IF \E k \in DOMAIN @ : @[k].name = name
     THEN [k \in DOMAIN @ |-> IF @[k].name = name
                              THEN [@[k] EXCEPT !.ids = @ \cup {id}] ELSE @[k]]
     ELSE Append(@, [name |-> name, ids |-> {id}])]

Ascending(ids) == SetToSortSeq(ids, <)

\* The rules of the requires of one package, and the providers they bring.
AddRequires(x, g0, id) ==
  LET pool == x.pool
      Step(acc, link) ==
        IF IsIgnored(x.filter, link.target) THEN acc
        ELSE LET c == FilterConstraint(x.filter, link.target, link.constraint, TRUE)
                 possible == WhatProvides(pool, link.target, c)
             IN [g |-> WithRequireRule(acc.g, id, possible, link.target),
                 found |-> acc.found \o Ascending(possible)]
  IN FoldLeft(Step, [g |-> g0, found |-> <<>>], pool[id].requires)

\* The part of the loop of add_rules_for_package that is not about requires:
\* an alias is tied to its base in both directions, another package is
\* entered under its names.
AddIdentity(x, g, id) ==
  LET p == x.pool[id]
  IN IF IsAlias(p)
     THEN WithRequireRule(WithRequireRule(g, id, {p.alias_of}, ""),
                          p.alias_of, {id}, "")
     ELSE FoldLeft(LAMBDA acc, name : AddByName(acc, name, id), g,
                   <<p.name>> \o SetToSeq(Names(p, FALSE) \ {p.name}))

\* add_rules_for_package: breadth first from the package.
RECURSIVE Drain(_, _, _)
Drain(x, g, work) ==
  IF work = <<>> THEN g
  ELSE LET id == Head(work)
           p == x.pool[id]
           known == [AddIdentity(x, g, id) EXCEPT !.added = Append(@, id)]
           base == IF IsAlias(p) THEN <<p.alias_of>> ELSE <<>>
           next == AddRequires(x, known, id)
       IN IF id \in ToSet(g.added) THEN Drain(x, g, Tail(work))
          ELSE IF IsAlias(p) /\ ~p.self_requires
          THEN Drain(x, known, Tail(work) \o base)
          ELSE Drain(x, next.g, Tail(work) \o base \o next.found)

AddRulesForPackage(x, g, id) == Drain(x, g, <<id>>)

\* add_rules_for_request
AddRulesForRequest(x, g0) ==
  LET Fixed(g, id) ==
        IF id = 0 \/ id \in x.removed THEN g
        ELSE WithRule(AddRulesForPackage(x, g, id), Generic({id}, x.pool[id].name),
                      "request")
      Required(g, link) ==
        LET packages == WhatProvides(x.pool, link.target,
                          FilterConstraint(x.filter, link.target, link.constraint, TRUE))
        IN IF IsIgnored(x.filter, link.target) \/ packages = {} THEN g
           ELSE WithRule(FoldLeft(LAMBDA acc, id : AddRulesForPackage(x, acc, id), g,
                                  Ascending(packages)),
                         Generic(packages, link.target), "request")
  IN FoldLeft(Required, FoldLeft(Fixed, g0, x.fixed), x.requires)

\* (mutant: only the aliases of the root package are considered)
AddRulesForDeclaredAliases(x, g0) ==
  LET Step(g, id) ==
        IF /\ id \notin ToSet(g.added)
           /\ IsAlias(x.pool[id])
           /\ x.pool[id].root_alias
        THEN AddRulesForPackage(x, g, id) ELSE g
  IN FoldLeft(Step, g0, [id \in DOMAIN x.pool |-> id])

\* add_rules_for_root_aliases
AddRulesForRootAliases(x, g0) ==
  LET Step(g, id) ==
        IF /\ id \notin ToSet(g.added)
           /\ IsAlias(x.pool[id])
           /\ x.pool[id].root_alias \/ x.pool[id].alias_of \in ToSet(g.added)
        THEN AddRulesForPackage(x, g, id) ELSE g
  IN FoldLeft(Step, g0, [id \in DOMAIN x.pool |-> id])

\* add_conflict_rules: the conflicts a package declares ...
AddDeclaredConflicts(x, g0) ==
  LET entered == {g0.by_name[k].name : k \in DOMAIN g0.by_name}
      \* an alias only conflicts under its own name
      Against(id, link) ==
        {c \in WhatProvides(x.pool, link.target,
                 FilterConstraint(x.filter, link.target, link.constraint, FALSE)) :
           /\ IsAlias(x.pool[c]) => x.pool[c].name = link.target
           /\ c # id}
      OfLink(g, id, link) ==
        IF link.target \notin entered \/ IsIgnored(x.filter, link.target) THEN g
        ELSE FoldLeft(LAMBDA acc, c : WithRule(acc, TwoLiterals(-id, -c), "package"),
                      g, Ascending(Against(id, link)))
      OfPackage(g, id) ==
        FoldLeft(LAMBDA acc, link : OfLink(acc, id, link), g, x.pool[id].conflicts)
  IN FoldLeft(OfPackage, g0, g0.added)

\* (mutant: two packages are too few for a conflict)
AddManyNamesakesConflicts(g0) ==
  LET Step(g, entry) ==
        LET lits == {-id : id \in entry.ids}
        IN IF Cardinality(lits) <= 2 THEN g
           ELSE WithRule(g, MultiConflict(lits), "package")
  IN FoldLeft(Step, g0, g0.by_name)

\* ... and those of the packages that share a name.
AddSameNameConflicts(g0) ==
  LET Step(g, entry) ==
        LET lits == {-id : id \in entry.ids}
        IN CASE Cardinality(lits) < 2 -> g
             [] Cardinality(lits) = 2 ->
                  WithRule(g, [MultiConflict(lits) EXCEPT !.kind = "two_literals"],
                           "package")
             [] OTHER -> WithRule(g, MultiConflict(lits), "package")
  IN FoldLeft(Step, g0, g0.by_name)

\* rules_for
RulesFor(x) ==
  AddSameNameConflicts(
    AddDeclaredConflicts(x,
      AddRulesForRootAliases(x, AddRulesForRequest(x, Empty))))

-----------------------------------------------------------------------------
(* The problems Solver::solve finds before any decision                    *)

\* check_for_root_require_problems
RootRequireProblems(x) ==
  {k \in DOMAIN x.requires :
     LET link == x.requires[k]
     IN /\ ~IsIgnored(x.filter, link.target)
        /\ WhatProvides(x.pool, link.target,
             FilterConstraint(x.filter, link.target, link.constraint, TRUE)) = {}}

\* The instance of the Solver module: the beginning of solve.
SolverInput(x) ==
  LET g == RulesFor(x)
  IN [size |-> Len(x.pool), rules |-> g.rules, rule_by_id |-> g.rule_by_id,
      fixed_map |-> ToSet(x.fixed) \ {0},
      detached |-> Cardinality(RootRequireProblems(x)) + Cardinality(x.removed),
      input |-> x]
=============================================================================
