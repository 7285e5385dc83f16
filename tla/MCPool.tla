------------------------------- MODULE MCPool -------------------------------
(***************************************************************************)
(* Small repositories, locks and policies for the pool of an update.       *)
(***************************************************************************)
EXTENDS PoolPipeline

CONSTANT Families

AnyV == Versions

One(name, versions) == <<Link(name, versions)>>

Pkg(name, version, origin, requires) ==
  [name |-> name, version |-> version, stability |-> 0, alias_of |-> 0,
   root_alias |-> FALSE, self_requires |-> FALSE, requires |-> requires,
   conflicts |-> <<>>, provides |-> <<>>, replaces |-> <<>>,
   origin |-> origin, path |-> "no", reference |-> 0, abandoned |-> FALSE]

AliasOf(id, p, version) == [p EXCEPT !.version = version, !.alias_of = id]

Root == Pkg("root", 1, OriginRoot, <<>>)

Members(arena, r) == SelectSeq([k \in DOMAIN arena |-> k], LAMBDA k : arena[k].origin = r)

Repo(kind, arena, r) == [kind |-> kind, members |-> Members(arena, r)]

Plain == [prefer_stable |-> FALSE, prefer_lowest |-> FALSE,
          prefer_dev_over_prerelease |-> FALSE, preferred_versions |-> <<>>,
          same_vendor |-> {}]

Silent == [policy |-> "absent", advisories |-> "absent", malware |-> "absent",
           abandoned |-> "absent"]

\* An update of everything, without a lock.
Update(arena, requires) ==
  [arena |-> arena,
   repositories |-> <<Repo("array", arena, 1), Repo("composer", arena, 2)>>,
   has_lock |-> FALSE, locked_repository |-> <<>>, requires |-> requires,
   fixed |-> <<1>>, fixed_locked |-> <<>>, allow |-> {}, mode |-> "none",
   restricted |-> {}, temporary |-> <<>>, root_aliases |-> {}, references |-> <<>>,
   minimum |-> 0, flags |-> <<>>,
   layers |-> <<>>, env |-> Silent, no_blocking |-> FALSE, sources |-> <<>>,
   policy |-> Plain]

Partial(arena, requires, allow, mode) ==
  [Update(arena, requires) EXCEPT !.has_lock = TRUE, !.allow = allow, !.mode = mode,
     !.locked_repository = Members(arena, OriginLocked)]

Modes == {"OnlyListed", "ListedWithTransitiveDepsNoRootRequire", "ListedWithTransitiveDeps"}

\* A lock that an update wrote: its packages are asked for by name, and the
\* requirements of its packages are met.
WrittenByAnUpdate(y) ==
  LET lock == {y.arena[id] : id \in ToSet(y.locked_repository)}
      asked == UNION {ToSet(p.requires) : p \in lock}
  IN /\ \A p \in lock : \E l \in asked \cup ToSet(y.requires) : l.target = p.name
     /\ \A l \in asked : \E p \in lock : ProvidesName(p, l.target, l.constraint)

\* An update of a with b, c and r locked; r may replace c.
MCPartial(modes) ==
  {y \in {Partial(arena, One("a", AnyV) \o also, {"a"}, mode) :
     arena \in {<<Root, Pkg("a", 1, OriginLocked, One("b", AnyV)),
                  Pkg("b", 1, OriginLocked, lb), lock,
                  Pkg("a", 2, 2, ra2), Pkg("b", 2, 2, rb2), Pkg("b", 1, 2, lb),
                  Pkg("c", 2, 2, One("b", {2})), Pkg("c", 1, 2, <<>>),
                  [Pkg("r", 2, 2, <<>>) EXCEPT !.replaces = One("c", {2})]>> :
       lb \in {<<>>, One("c", {1}), One("r", {1, 2})},
       lock \in {Pkg("c", 1, OriginLocked, <<>>),
                 [Pkg("r", 1, OriginLocked, <<>>) EXCEPT !.replaces = One("c", AnyV)],
                 [Pkg("r", 1, OriginLocked, One("b", AnyV)) EXCEPT !.replaces = One("c", {1})],
                 [Pkg("c", 1, OriginLocked, <<>>) EXCEPT !.path = "symlink"],
                 [Pkg("r", 1, OriginLocked, <<>>) EXCEPT !.path = "symlink", !.replaces = One("c", AnyV)]},
       ra2 \in {One("b", {2}), One("b", AnyV) \o One("c", {2}), One("c", AnyV), One("r", {2})},
       rb2 \in {<<>>, One("c", {2}), One("c", AnyV), One("r", AnyV)}},
     also \in {<<>>, One("c", {1, 2}), One("r", AnyV), One("b", {2})},
     mode \in modes} :
     WrittenByAnUpdate(y)}

\* Requirements of b that grow while names are loaded, over two repositories
\* and more names than a batch has; b has versions to choose from, with the
\* same dependencies or not, and c may replace it.
MCUpdates(orders) ==
  {[Update(arena, One("a", AnyV) \o also)
      EXCEPT !.restricted = restricted, !.temporary = temporary,
             !.policy.prefer_lowest = lowest] :
     arena \in {<<Root, Pkg("a", 1, 2, ra), Pkg("a", 2, 2, One("b", {2, 3})),
                  Pkg("b", 1, rb, <<>>), Pkg("b", 2, rb, db), Pkg("b", 3, 2, <<>>),
                  [Pkg("c", 1, 2, <<>>) EXCEPT !.replaces = xc, !.conflicts = cc]>> :
       ra \in {One("b", {1}), One("b", {1, 2}) \o One("c", AnyV), One("b", AnyV)},
       rb \in {1, 2},
       db \in {<<>>, One("c", AnyV)},
       xc \in {<<>>, One("b", {1, 2})},
       cc \in {<<>>, One("a", {2}), One("b", {3})}},
     also \in {<<>>, One("b", {1, 2}), One("c", AnyV) \o One("b", {2, 3})},
     restricted \in {{}, {"a", "b"}},
     temporary \in {<<>>, [n \in {"b"} |-> {1, 2}]},
     lowest \in orders}

\* Aliases of the repository and of the root, stabilities and references.
MCAliases(minimums) ==
  {[Update(arena, One("b", wanted) \o also)
      EXCEPT !.minimum = minimum, !.flags = flags, !.root_aliases = aliases,
             !.references = references] :
     arena \in {<<Root, Pkg("a", 1, r, <<>>), AliasOf(2, Pkg("a", 1, r, <<>>), 2),
                  [Pkg("b", 1, 2, One("a", ra)) EXCEPT !.stability = sb],
                  [AliasOf(4, Pkg("b", 1, 2, One("a", ra)), 3) EXCEPT !.stability = sb]>> :
       r \in {1, 2}, sb \in {0, 20}, ra \in {{1}, {2}, {3}}},
     wanted \in {{1}, {3}, AnyV}, also \in {<<>>, One("a", {1})},
     minimum \in minimums, flags \in {<<>>, [n \in {"b"} |-> 20]},
     aliases \in {{}, {[name |-> "a", version |-> 1, alias |-> 3]}},
     references \in {<<>>, [n \in {"a"} |-> 7]}}

\* What the configuration may say of the advisories and of the malware list.
Rule(name, keyed, versions) ==
  [name |-> name, keyed |-> keyed, versions |-> versions, on_block |-> TRUE]

Says(list, settings) ==
  [NoLayer EXCEPT !.policy = "object", !.lists = [l \in {list} |-> settings]]

AdvisoryLayers ==
  {<<>>, <<[NoLayer EXCEPT !.policy = "no"]>>,
   <<[NoLayer EXCEPT !.audit = [NoAudit EXCEPT !.given = TRUE, !.abandoned = "yes",
                                   !.ids = <<Rule("CVE-1", FALSE, AnyV)>>]]>>}
  \cup {<<Says("advisories", [NoSettings EXCEPT !.block = block, !.ids = ids, !.severities = severities])>> :
          block \in {"absent", "no"},
          ids \in {<<>>, <<Rule("CVE-1", FALSE, AnyV)>>, <<Rule("PKSA-1", FALSE, AnyV)>>},
          severities \in {<<>>, <<Rule("low", FALSE, AnyV)>>}}

MalwareLayers ==
  {<<Says("malware", [NoSettings EXCEPT !.scope = scope, !.ignore = <<Rule("b", keyed, {1})>>]),
     project>> :
     scope \in {"absent", "update", "install"}, keyed \in BOOLEAN,
     project \in {NoLayer, [NoLayer EXCEPT !.policy = "no"], [NoLayer EXCEPT !.policy = "yes"],
                  Says("malware", [NoSettings EXCEPT !.kind = "no"]),
                  Says("malware", [NoSettings EXCEPT !.ignore = <<Rule("b", TRUE, {2})>>]),
                  [Says("malware", NoSettings) EXCEPT !.unreachable = "set", !.scopes = {"update"}]}}

Source == [reachable |-> TRUE, metadata |-> "no", api |-> TRUE, advisories |-> {},
           lists |-> {"malware"}, entries |-> {}]

Advisory(name, affected, id, others) ==
  [name |-> name, affected |-> affected, id |-> id, severity |-> "low", others |-> others,
   complete |-> TRUE]

Entry(versions, source) ==
  [list |-> "malware", name |-> "b", versions |-> versions, source |-> source]

Risky == <<Root, Pkg("a", 1, 2, One("b", AnyV)), Pkg("b", 1, 2, <<>>), Pkg("b", 2, 2, <<>>),
           [Pkg("b", 3, 2, <<>>) EXCEPT !.stability = 20],
           [Pkg("c", 1, 2, <<>>) EXCEPT !.replaces = One("b", AnyV), !.abandoned = TRUE],
           Pkg("b", 1, OriginLocked, <<>>)>>

\* Versions with advisories, and how much of them the metadata has.
MCAdvisories(sources) ==
  {[Update(Risky, One("a", AnyV) \o One("c", AnyV))
      EXCEPT !.layers = layers, !.sources = ss, !.minimum = 20, !.no_blocking = no_blocking] :
     layers \in AdvisoryLayers, no_blocking \in BOOLEAN,
     ss \in {<<[s EXCEPT !.reachable = reachable,
                !.advisories = {Advisory("b", {1}, "PKSA-1", {"CVE-1"})} \cup more]>> :
               s \in sources, reachable \in BOOLEAN,
               more \in {{}, {Advisory("b", {1, 2, 3}, "GHSA-2", {})}}}}

\* Versions on the malware list, some of them in the lock.
MCMalware(modes) ==
  {[Partial(Risky, One("a", AnyV) \o One("b", AnyV), {"a"}, mode)
      EXCEPT !.layers = layers, !.minimum = 20, !.env.malware = malware,
             !.sources = <<[Source EXCEPT !.reachable = reachable, !.entries = entries]>>] :
     mode \in modes, layers \in MalwareLayers, malware \in {"absent", "yes"},
     reachable \in BOOLEAN,
     entries \in {{Entry({1}, "s")}, {Entry({2}, "s")}, {Entry({1, 2, 3}, "s"), Entry({3}, "t")}}}

\* A partial update needs a lock; what is fixed may not be acceptable.
MCOdd(locks) ==
  {[Partial(<<[Root EXCEPT !.stability = 20], [Pkg("b", 1, OriginLocked, <<>>) EXCEPT !.stability = 20],
              Pkg("a", 1, 2, One("b", AnyV)), Pkg("b", 2, 2, <<>>)>>,
            One("a", AnyV), {"a"}, "OnlyListed") EXCEPT !.has_lock = has_lock] : has_lock \in locks}

\* The root asks for b at 1 as 3, and version 1 has an advisory or is on the list.
MCFlagged(kinds) ==
  {[Update(<<Root, Pkg("a", 1, 2, One("b", wanted)), Pkg("b", 1, 2, <<>>), Pkg("b", 2, 2, <<>>)>>,
           One("a", AnyV) \o One("b", AnyV))
      EXCEPT !.root_aliases = {[name |-> "b", version |-> 1, alias |-> alias]},
             !.restricted = restricted,
             !.layers = layers,
             !.sources = <<[Source EXCEPT
                !.advisories = IF kind = "advisory" THEN {Advisory("b", affected, "GHSA-2", {})} ELSE {},
                !.entries = IF kind = "malware" THEN {Entry(affected, "s")} ELSE {}]>>] :
     kind \in kinds, wanted \in {{1}, {3}, AnyV}, alias \in {2, 3}, affected \in {{1}, {2}, {1, 3}},
     restricted \in {{}, {"a", "b"}}, layers \in {<<>>, <<[NoLayer EXCEPT !.policy = "no"]>>}}

MCInputs == (IF "partial" \in Families THEN MCPartial(Modes) ELSE {})
            \cup (IF "updates" \in Families THEN MCUpdates(BOOLEAN) ELSE {})
            \cup (IF "aliases" \in Families THEN MCAliases({0, 20}) ELSE {})
            \cup (IF "advisories" \in Families
                  THEN MCAdvisories({Source} \cup {[Source EXCEPT !.metadata = m, !.api = api] :
                                       m \in {"partial", "complete"}, api \in BOOLEAN}) ELSE {})
            \cup (IF "malware" \in Families
                  THEN MCMalware({"OnlyListed", "ListedWithTransitiveDeps"}) ELSE {})
            \cup (IF "odd" \in Families THEN MCOdd(BOOLEAN) ELSE {})
            \cup (IF "flagged" \in Families THEN MCFlagged({"advisory", "malware"}) ELSE {})
=============================================================================
