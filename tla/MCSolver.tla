------------------------------ MODULE MCSolver ------------------------------
(***************************************************************************)
(* The solver on the rules that the generator makes of small pools, with   *)
(* the policy of the code.  A family is a set of inputs: a pool of fixed   *)
(* shape whose requires, conflicts, provides... vary.                      *)
(***************************************************************************)
EXTENDS SolverProperties, RulesGen, Policy, PoolSemantics

CONSTANT Family

Pkg(name, version, requires) ==
  [name |-> name, version |-> version, stability |-> 0, alias_of |-> 0,
   root_alias |-> FALSE, self_requires |-> FALSE, requires |-> requires,
   conflicts |-> <<>>, provides |-> <<>>, replaces |-> <<>>]

AliasOf(id, p, version, rootAlias) ==
  [p EXCEPT !.version = version, !.alias_of = id, !.root_alias = rootAlias]

Root == Pkg("root", 1, <<>>)

Highest ==
  [prefer_stable |-> TRUE, prefer_lowest |-> FALSE,
   prefer_dev_over_prerelease |-> FALSE, preferred_versions |-> <<>>,
   same_vendor |-> {}]

Lowest == [Highest EXCEPT !.prefer_lowest = TRUE]

\* A request whose only fixed package is the root package.
Ask(pool, requires) ==
  [pool |-> pool, filter |-> IgnoreNothing, requires |-> requires,
   fixed |-> <<1>>, removed |-> {}, policy |-> Highest]

AnyV == Versions
None == <<>>
One(name, versions) == <<Link(name, versions)>>

\* Two versions of a, b and c.  Nobody provides d.
MCVersions ==
  {Ask(<<Root, Pkg("a", 2, ra2), Pkg("a", 1, ra1),
         Pkg("b", 2, rb2), [Pkg("b", 1, rb1) EXCEPT !.conflicts = xb1],
         Pkg("c", 2, rc2), Pkg("c", 1, rc1)>>,
       <<Link("a", AnyV), Link("b", AnyV)>>) :
     ra2 \in {One("c", {1}), One("c", {2}), One("b", {1})},
     ra1 \in {None, One("c", {2})},
     rb2 \in {One("c", {1}), One("c", {2}), One("a", {1})},
     rb1 \in {One("c", {1}), One("c", AnyV)},
     xb1 \in {None, One("c", {1})},
     rc2 \in {None, One("a", {1}), One("b", {1})},
     rc1 \in {None, One("a", {2}), One("d", AnyV)}}

\* Packages p, q and r that provide or replace v, which a and b require.
MCProviders ==
  {Ask(<<Root, Pkg("a", 1, One("v", AnyV)), Pkg("b", 1, rb),
         [Pkg("p", 1, rp) EXCEPT !.provides = One("v", {1})],
         [Pkg("q", 1, One("c", {2})) EXCEPT !.provides = vq, !.replaces = wq],
         [Pkg("r", 1, One("c", {1})) EXCEPT !.provides = vr, !.conflicts = xr],
         Pkg("c", 2, rc2), Pkg("c", 1, None)>>,
       <<Link("a", AnyV), Link(second, AnyV)>>) :
     rb \in {One("v", {2}), One("w", AnyV), One("q", AnyV)},
     rp \in {None, One("c", {1}), One("w", AnyV)},
     vq \in {One("v", {1}), One("v", AnyV)}, wq \in {None, One("w", {1})},
     vr \in {One("v", {2}), One("w", AnyV)},
     xr \in {None, One("p", AnyV)},
     rc2 \in {None, One("v", {2})},
     second \in {"b", "c"}}

\* Three versions of c, on which the best versions of a, b and e cannot agree.
MCBestVersions ==
  {Ask(<<Root, Pkg("a", 2, ra2), Pkg("a", 1, ra1), Pkg("b", 2, rb2), Pkg("b", 1, None),
         Pkg("e", 2, re2), Pkg("e", 1, re1),
         Pkg("c", 3, rc3), Pkg("c", 2, None), Pkg("c", 1, None)>>,
       <<Link("a", AnyV), Link("b", AnyV), Link("e", AnyV)>>) :
     ra2 \in {One("c", {1, 2}), One("c", {1, 3}), One("c", {2, 3})},
     ra1 \in {None, One("c", {1}), One("e", {2})},
     rb2 \in {One("c", {1, 2}), One("c", {1, 3}), One("c", {2, 3})},
     re2 \in {One("c", {1, 2}), One("c", {1, 3}), One("c", {2, 3}), One("b", {1})},
     re1 \in {None, One("a", {2})},
     rc3 \in {None, One("b", {1})}}

\* The choice of d (or its only version), then of a provider of w, excludes
\* versions of c; the best version of e asks for c twice, itself and through f:
\* the conflicts are between levels, and the search goes back above level 1.
MCLevels ==
  {Ask(<<Root, [Pkg("d", 2, None) EXCEPT !.conflicts = One("c", {xd})], Pkg(other, 1, None),
         [Pkg("g", 2, None) EXCEPT !.provides = One("w", AnyV), !.conflicts = xg],
         [Pkg("h", 1, rh) EXCEPT !.provides = One("w", AnyV)],
         Pkg("e", 2, <<Link("c", ce), Link("f", AnyV)>>), Pkg("e", 1, re1),
         Pkg("f", 1, One("c", cf)),
         Pkg("c", 3, None), Pkg("c", 2, None), Pkg("c", 1, rc1)>>,
       <<Link("d", AnyV), Link("w", AnyV), Link("e", AnyV)>>) :
     xd \in Versions, xg \in {None, One("c", {1}), One("c", {2})}, rh \in {None, One("c", {2})},
     other \in {"d", "o"}, ce \in {{1, 2}, {1, 3}, {2, 3}}, cf \in {{1, 2}, {1, 3}, {2, 3}},
     re1 \in {None, One("c", {1})}, rc1 \in {None, One("d", {1})}}

\* A platform package, php, whose requirements a filter may lift; an alias of
\* a, from the root or not; b locked at its version 1, or refused by the pool,
\* or removed by a filter list; or the lowest versions preferred.
MCVariants ==
  LET Plain == [filter |-> IgnoreNothing, fixed |-> <<>>, removed |-> {}, policy |-> Highest]
  IN {[Plain EXCEPT !.filter = f] :
        f \in {IgnoreNothing, IgnoreAll, IgnoreList({"php"}, {}), IgnoreList({}, {"php"})}}
     \cup {[Plain EXCEPT !.fixed = <<7>>, !.removed = r] : r \in {{}, {7}}}
     \cup {[Plain EXCEPT !.fixed = <<0>>], [Plain EXCEPT !.policy = Lowest]}

MCAliases ==
  {[Ask(<<Root, Pkg("php", pv, None),
          a2, [AliasOf(3, a2, av, rootAlias) EXCEPT !.self_requires = selfRequires,
                                                    !.requires = One("b", {1})],
          [Pkg("a", 1, One("b", {2})) EXCEPT !.conflicts = One("php", {2})],
          Pkg("b", 2, One("php", {2})), Pkg("b", 1, None)>>,
        <<Link("a", ra), Link("b", AnyV)>>)
     EXCEPT !.filter = x.filter, !.fixed = <<1, 2>> \o x.fixed,
            !.removed = x.removed, !.policy = x.policy] :
     pv \in Versions, av \in {1, 3},
     a2 \in {Pkg("a", 2, One("php", {1})), Pkg("a", 2, One("b", AnyV))},
     rootAlias \in BOOLEAN, selfRequires \in BOOLEAN,
     ra \in {{1, 2}, {3}}, x \in MCVariants}

MCFamily ==
  MCVersions \cup MCProviders \cup MCBestVersions \cup MCLevels \cup MCAliases

\* The preferences are computed once per input: for what is left of the
\* packages a rule asks for.
Asks(g) ==
  {<<S, g.rules[k].required>> :
     <<k, S>> \in UNION {{k} \X (SUBSET {l \in g.rules[k].lits : l > 0} \ {{}}) :
                          k \in DOMAIN g.rules}}

WithPreferences(x, g) ==
  g @@ [preferred |-> [ask \in Asks(g) |->
          SelectPreferredPackages(x.policy, x.pool, ask[1], ask[2])]]

MCInstances == {WithPreferences(x, SolverInput(x)) : x \in Family}

MCSelect(x, candidates, required) == x.preferred[<<candidates, required>>]

-----------------------------------------------------------------------------
(* The solver implements a resolution of its input.                        *)

SolvesInput(x, S) == Solution(x.input, S)
PackagesOfInput(x) == 1 .. x.size

Resolves == INSTANCE Resolution WITH
  PackagesIn <- PackagesOfInput, IsSolution <- SolvesInput,
  input <- inst, answer <- Answer,
  installed <- IF Answer = "solved" THEN InstalledPackages ELSE {}

\* The answer of the solver is a solution of the packages and of the request,
\* or there is none, and it comes (solver.rs: solve).
ImplementsResolution == Resolves!Spec
=============================================================================
