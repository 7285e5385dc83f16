--------------------------- MODULE RepositoryConfig ---------------------------
(***************************************************************************)
(* The repositories of a project (merge_repositories and MergedConfig of   *)
(* resolver/src/session.rs): packagist.org, those of the global            *)
(* config.json and those of composer.json, one list merged over the other. *)
(* An entry has a key, a name or an index, and says: "repository", with    *)
(* what tells it from the others, "packagist", a repository at             *)
(* packagist.org, "false", or "disables" another key.                      *)
(***************************************************************************)
EXTENDS Naturals, FiniteSets, SequencesExt

Named(name) == [name |-> name, index |-> 0]
Indexed(k) == [name |-> "", index |-> k]   \* PHP's index and one

IsIndexed(key) == key.index # 0

Entry(key, says, of) == [key |-> key, says |-> says, of |-> of]

PackagistOrg == Named("packagist.org")

KeysOf(list) == {list[k].key : k \in DOMAIN list}

WithoutKey(list, key) == SelectSeq(list, LAMBDA r : r.key # key)

\* disableRepoByName
Disable(list, key) ==
  IF key \notin KeysOf(list) /\ key = Named("packagist") THEN WithoutKey(list, PackagistOrg)
  ELSE WithoutKey(list, key)

NextIndex(list) == Indexed(Max({key.index : key \in KeysOf(list)}) + 1)

\* An index that is taken is not used twice.
PutIndexed(list, entry) ==
  Append(list, IF entry.key \in KeysOf(list) THEN [entry EXCEPT !.key = NextIndex(list)] ELSE entry)

\* A name that is taken keeps its place.
PutNamed(list, entry) ==
  LET key == IF entry.key = Named("packagist") THEN PackagistOrg ELSE entry.key
      put == [entry EXCEPT !.key = key]
  IN IF key \in KeysOf(list)
     THEN [k \in DOMAIN list |-> IF list[k].key = key THEN put ELSE list[k]]
     ELSE Append(list, put)

Put(list, entry) ==
  LET open == IF entry.says = "packagist" THEN Disable(list, PackagistOrg) ELSE list
  IN IF IsIndexed(entry.key) THEN PutIndexed(open, entry) ELSE PutNamed(open, entry)

MergeEntry(list, entry) ==
  CASE entry.says = "false" -> Disable(list, entry.key)
    [] entry.says = "disables" -> Disable(list, entry.of)
    [] OTHER -> Put(list, entry)

\* (mutant: the new ones from the first to the last)
MergeForwards(current, entries) ==
  IF entries = <<>> THEN current
  ELSE Reverse(FoldLeft(MergeEntry, Reverse(current), entries))

\* merge_repositories: from the last to the first, in front of the others.
MergeRepositories(current, entries) ==
  IF entries = <<>> THEN current
  ELSE Reverse(FoldLeft(MergeEntry, Reverse(current), Reverse(entries)))

DefaultRepositories == <<Entry(PackagistOrg, "packagist", <<"default", 1>>)>>

\* MergedConfig::load
LoadRepositories(global, manifest) ==
  MergeRepositories(MergeRepositories(DefaultRepositories, global), manifest)

-----------------------------------------------------------------------------
(* Properties.                                                             *)

Defines(entry) == entry.says \in {"repository", "packagist"}

\* The name an entry goes by once merged: "packagist" is packagist.org.
NameOf(key) == IF key = Named("packagist") THEN PackagistOrg ELSE key

\* Another repository at packagist.org stands for packagist.org.
Disables(entry, key) ==
  \/ entry.says = "false" /\ NameOf(entry.key) = key
  \/ entry.says = "disables" /\ NameOf(entry.of) = key
  \/ entry.says = "packagist" /\ key = PackagistOrg

\* The repositories that composer.json defines are asked before all others,
\* in its order, unless one has a name that was taken and keeps that place;
\* one that no entry in front of it disables or replaces is there, and no two
\* have the same key (which repository is asked first decides which package
\* is installed).  Entries disable names.
InOrder(global, manifest) ==
  LET before == MergeRepositories(DefaultRepositories, global)
      merged == MergeRepositories(before, manifest)
      Own(k) == {i \in DOMAIN manifest :
                   Defines(manifest[i]) /\ manifest[i].of = merged[k].of}
      InPlace(k) == merged[k].key \in KeysOf(before) /\ ~IsIndexed(merged[k].key)
      Stands(i) ==
        \A j \in 1 .. i - 1 :
          /\ ~Disables(manifest[j], NameOf(manifest[i].key))
          /\ NameOf(manifest[j].key) # NameOf(manifest[i].key)
  IN /\ \A j, k \in DOMAIN merged :
          /\ j # k => merged[j].key # merged[k].key
          /\ j < k /\ Own(k) # {} /\ ~InPlace(k) =>
               InPlace(j) \/ \E i \in Own(j), l \in Own(k) : i < l
     /\ \A i \in DOMAIN manifest :
          Defines(manifest[i]) /\ Stands(i) => \E k \in DOMAIN merged : i \in Own(k)
=============================================================================
