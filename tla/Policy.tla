------------------------------- MODULE Policy -------------------------------
(***************************************************************************)
(* DefaultPolicy (resolver/src/policy.rs): which of the candidates for a   *)
(* rule is tried first.  A policy is a record: prefer_stable,              *)
(* prefer_lowest, prefer_dev_over_prerelease, preferred_versions (a        *)
(* function from some names to a version), same_vendor (the pairs of a     *)
(* required name and a package name under the same vendor).  Versions are  *)
(* numbered: dev-* branches, which are compared by name, are not modelled. *)
(***************************************************************************)
EXTENDS Pool, SequencesExt

\* version_compare, for the operators < and >, and for ==.
StabilityOf(policy, a, b, p) ==
  LET mapped == policy.prefer_lowest /\ policy.prefer_dev_over_prerelease
                /\ a.stability # 0 /\ b.stability # 0
  IN IF mapped /\ p.stability = 20 THEN 0 ELSE p.stability

IsBetter(policy, a, b) ==
  IF policy.prefer_stable /\ a.stability # b.stability
  THEN StabilityOf(policy, a, b, a) < StabilityOf(policy, a, b, b)
  ELSE IF policy.prefer_lowest THEN a.version < b.version ELSE a.version > b.version

\* Two packages of different stabilities are never equal: the code asks the
\* same question of the stabilities whatever the operator, and `==` comes
\* after the other one was answered no.
IsAsGood(policy, a, b) ==
  IF policy.prefer_stable /\ a.stability # b.stability
  THEN StabilityOf(policy, a, b, a) < StabilityOf(policy, a, b, b)
  ELSE a.version = b.version

\* compare_by_priority = Less, for the packages of ids a and b.
Replaces(source, target) == target.name \in TargetsOf(source.replaces)

IsBefore(policy, pool, a, b, required, ignore_replace) ==
  LET pa == pool[a]
      pb == pool[b]
      SameVendor(p) == <<required, p.name>> \in policy.same_vendor
  IN CASE pa.name = pb.name /\ IsAlias(pa) # IsAlias(pb) -> IsAlias(pa)
       [] ignore_replace -> a < b
       [] Replaces(pa, pb) -> FALSE
       [] Replaces(pb, pa) -> TRUE
       [] SameVendor(pa) # SameVendor(pb) -> SameVendor(pa)
       [] OTHER -> a < b

\* sort_by on a short slice: insertion from the right.  The comparison is not
\* transitive when packages replace each other, so the algorithm matters.
SortBy(s, Less(_, _)) ==
  LET Insert(sorted, e) ==
        LET stops == {0} \cup {k \in DOMAIN sorted : ~Less(e, sorted[k])}
            at == CHOOSE k \in stops : \A j \in stops : j <= k
        IN InsertAt(sorted, at + 1, e)
  IN FoldLeft(Insert, <<>>, s)

\* prune_to_best_version
PruneToBestVersion(policy, pool, ids) ==
  LET name == pool[ids[1]].name
      preferred == IF name \in DOMAIN policy.preferred_versions
                   THEN SelectSeq(ids, LAMBDA id :
                          pool[id].version = policy.preferred_versions[name])
                   ELSE <<>>
      Step(best, id) ==
        CASE IsBetter(policy, pool[id], pool[best.id]) -> [id |-> id, all |-> <<id>>]
          [] IsAsGood(policy, pool[id], pool[best.id]) ->
               [best EXCEPT !.all = Append(@, id)]
          [] OTHER -> best
  IN IF preferred # <<>> THEN preferred
     ELSE FoldLeft(Step, [id |-> ids[1], all |-> <<ids[1]>>], Tail(ids)).all

\* prune_remote_aliases
PruneRemoteAliases(pool, ids) ==
  LET IsRootAlias(id) == IsAlias(pool[id]) /\ pool[id].root_alias
  IN IF \E k \in DOMAIN ids : IsRootAlias(ids[k])
     THEN SelectSeq(ids, IsRootAlias) ELSE ids

\* select_preferred_packages: the best version of each name, in the order of
\* preference.  The caches only store what this computes for a pool.
SelectPreferredPackages(policy, pool, candidates, required) ==
  LET literals == SetToSortSeq(candidates, <)
      firsts == SelectSeq(literals, LAMBDA id :
                  \A m \in candidates : pool[m].name = pool[id].name => id <= m)
      Group(id) == SelectSeq(literals, LAMBDA m : pool[m].name = pool[id].name)
      Best(id) ==
        PruneRemoteAliases(pool,
          PruneToBestVersion(policy, pool,
            SortBy(Group(id),
                   LAMBDA a, b : IsBefore(policy, pool, a, b, required, TRUE))))
      selected == FoldLeft(LAMBDA acc, id : acc \o Best(id), <<>>, firsts)
  IN SortBy(selected, LAMBDA a, b : IsBefore(policy, pool, a, b, required, FALSE))
=============================================================================
