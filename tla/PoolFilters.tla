---------------------------- MODULE PoolFilters ----------------------------
(***************************************************************************)
(* The filters a pool goes through before the solver                       *)
(* (resolver/src/pool_filters.rs): abandoned packages and versions with a  *)
(* security advisory, then versions on the malware list.  A package of the *)
(* pool is an index in the arena, as in PoolBuilder; here it has a field   *)
(*   abandoned   BOOLEAN                                                   *)
(* A composer repository is seen through a record, a source:               *)
(*   reachable   BOOLEAN: packages.json and the rest can be fetched        *)
(*   metadata    "no", "partial" or "complete": the advisories its package *)
(*               metadata carries, without or with what ignore rules name  *)
(*   api         BOOLEAN: it answers for complete advisories               *)
(*   advisories  {[name, affected, id, severity, others, complete]}, with  *)
(*               the CVE and the remote ids in `others`                    *)
(*   lists       the filter lists it advertises and are not disabled       *)
(*   entries     {[list, name, versions, source]}                          *)
(* The filters run on the pool that was built (create_filtered_pool in     *)
(* session.rs): b.packages of PoolState goes through the phases "built",   *)
(* "advised" and "filtered".  The input has the fields                     *)
(*   layers, env, no_blocking   the policy configuration (PolicyConfig)    *)
(*   sources                                                               *)
(***************************************************************************)
EXTENDS PoolState, PolicyConfig, Selection, FiniteSets

CONSTANT PackagistIds    \* the advisory ids that start with PKSA-

Filterable(p) == p.origin # 0 /\ p.name \notin PlatformNames

\* constraints_by_name: what is asked, {<<name, version>>}.
ConstraintsByName(arena, ids) ==
  {<<arena[id].name, arena[id].version>> :
     id \in {i \in ids : ~(IsAlias(arena[i]) /\ arena[i].root_alias)}}

AskedNames(map) == {e[1] : e \in map}

Concerned(map, name, versions) == \E e \in map : e[1] = name /\ e[2] \in versions

-----------------------------------------------------------------------------
(* Security advisories.                                                    *)

\* get_security_advisories of one source: from the metadata, or else from
\* the API.  Nobody can complete a partial advisory without an API.
FromMetadata(source, allow_partial) ==
  source.metadata # "no" /\ (allow_partial \/ ~source.api)

CannotComplete(source, map, allow_partial) ==
  /\ ~allow_partial /\ source.metadata = "partial" /\ ~source.api
  /\ \E a \in source.advisories : a.name \in AskedNames(map)

AdvisoriesOf(source, map, allow_partial) ==
  LET complete == ~FromMetadata(source, allow_partial) \/ source.metadata = "complete"
  IN IF source.metadata = "no" /\ ~source.api THEN {}
     ELSE {[a EXCEPT !.complete = complete] :
             a \in {given \in source.advisories : Concerned(map, given.name, given.affected)}}

\* security_advisories_for_constraints: only an unreachable source may be
\* ignored.
Advisories(sources, map, allow_partial, ignore_unreachable) ==
  LET down == {k \in DOMAIN sources : ~sources[k].reachable}
      up == DOMAIN sources \ down
  IN [failed |-> \/ down # {} /\ ~ignore_unreachable
                 \/ \E k \in up : CannotComplete(sources[k], map, allow_partial),
      all |-> UNION {AdvisoriesOf(sources[k], map, allow_partial) : k \in up},
      unreachable |-> down]

\* needs_complete_advisory_load
NeedsCompleteAdvisoryLoad(all, ignored) ==
  (\E a \in all : ~a.complete) /\ ~ ignored \subseteq PackagistIds

\* (mutant: a remote id of an advisory is not an id to ignore)
MutOnlyOwnId(a, ignored, severities) ==
  /\ ignored \cap {a.name, a.id} = {}
  /\ a.complete => a.severity \notin severities

\* process_advisories: severity, CVE and remote ids are only known of a
\* complete advisory.
IsActive(a, ignored, severities) ==
  /\ ignored \cap {a.name, a.id} = {}
  /\ a.complete => a.severity \notin severities /\ ignored \cap a.others = {}

\* matching_advisories: never of a dev version, on its name and what it
\* replaces.
MatchingAdvisories(p, active) ==
  IF p.stability = 20 THEN {}
  ELSE {a \in active : a.name \in Names(p, FALSE) /\ p.version \in a.affected}

\* security_advisory_filter.  list and its result are sequences of packages.
SecurityAdvisoryFilter(arena, list, locked, sources, policy) ==
  LET ignored == OnBlock(policy.advisories.ids) \cup OnBlock(policy.advisories.ignore)
      severities == OnBlock(policy.advisories.severities)
      candidates == {id \in ToSet(list) \ locked : Filterable(arena[id])}
      map == ConstraintsByName(arena, candidates)
      Load(partial) == Advisories(sources, map, partial, "update" \in policy.unreachable)
      Remains(found) ==
        LET active == {a \in found.all : IsActive(a, ignored, severities)}
            Abandoned(p) == /\ policy.abandoned.block
                            /\ p.abandoned
                            /\ p.name \notin OnBlock(policy.abandoned.ignore)
        IN [failed |-> found.failed, unreachable |-> found.unreachable,
            kept |-> Selected(list, {id \in ToSet(list) :
              ~Abandoned(arena[id]) /\ MatchingAdvisories(arena[id], active) = {}})]
      first == Load(TRUE)
  IN IF ~policy.advisories.block THEN [failed |-> FALSE, unreachable |-> {}, kept |-> list]
     ELSE IF ~first.failed /\ NeedsCompleteAdvisoryLoad(first.all, ignored)
     THEN Remains(Load(FALSE)) ELSE Remains(first)

-----------------------------------------------------------------------------
(* Filter lists.  Only the malware list is there; a declared list that a   *)
(* repository advertises is an error.                                      *)

ActiveLists(policy, scope) == IF MalwareBlocks(policy, scope) THEN {"malware"} ELSE {}

\* get_filter and what FilterListProviderSet keeps of it.
EntriesOf(sources, map, lists) ==
  UNION {{e \in sources[k].entries : /\ e.list \in lists \cap sources[k].lists
                                     /\ Concerned(map, e.name, e.versions)} :
           k \in {j \in DOMAIN sources : sources[j].reachable}}

\* matching_entries
MatchingEntries(p, entries, lists, policy) ==
  {e \in entries :
     /\ e.list \in lists /\ e.name \in Names(p, FALSE) /\ p.version \in e.versions
     /\ e.source \notin policy.malware.sources
     /\ ~\E r \in ToSet(policy.malware.ignore) :
           r.on_block /\ r.name = e.name /\ p.version \in r.versions}

\* What the lock has, or a new download of the same version.
LockedEquivalent(arena, id, locked, locked_repository) ==
  \/ id \in locked
  \/ \E l \in locked_repository : /\ arena[l].name = arena[id].name
                                  /\ arena[l].version = arena[id].version

\* filter_list_filter in the scope "update" or "install".  In an update what
\* the lock already has is judged as an install would.
FilterListFilter(arena, list, locked, locked_repository, sources, policy, scope) ==
  LET update == scope = "update"
      configured == ActiveLists(policy, scope)
      install_lists == IF update THEN ActiveLists(policy, "install") ELSE {}
      lists == configured \cup install_lists
      ignore == policy.unreachable \cap {scope, "install"} = {scope, "install"}
      map == ConstraintsByName(arena, {id \in ToSet(list) : Filterable(arena[id])})
      down == {k \in DOMAIN sources : ~sources[k].reachable}
      entries == EntriesOf(sources, map, lists)
      Hits(id) == IF ~Filterable(arena[id]) THEN {}
                  ELSE MatchingEntries(arena[id], entries,
                         IF update /\ LockedEquivalent(arena, id, locked, locked_repository)
                         THEN install_lists ELSE configured, policy)
      custom == \E k \in DOMAIN sources :
                  sources[k].reachable /\ sources[k].lists \cap policy.custom # {}
      out == {id \in ToSet(list) : Hits(id) # {}}
  IN IF custom THEN [failed |-> TRUE, unreachable |-> {}, kept |-> list, removed |-> {}]
     ELSE IF lists = {} THEN [failed |-> FALSE, unreachable |-> {}, kept |-> list, removed |-> {}]
     ELSE [failed |-> down # {} /\ ~ignore, unreachable |-> down,
           kept |-> Selected(list, ToSet(list) \ out),
           removed |-> UNION {{<<n, arena[id].version>> : n \in Names(arena[id], FALSE)} :
                                id \in out}]

\* install_policy_problems: the packages of the lock an install refuses, each
\* of them with its problem.
InstallPolicyProblems(arena, lock, sources, policy) ==
  IF ~MalwareBlocks(policy, "install") THEN [failed |-> FALSE, refused |-> {}]
  ELSE LET result == FilterListFilter(arena, lock, {}, {}, sources, policy, "install")
       IN [failed |-> result.failed,
           refused |-> {id \in ToSet(lock) :
                          <<arena[id].name, arena[id].version>> \in result.removed}]

-----------------------------------------------------------------------------
(* The filters as steps, on the pool that is built.                        *)

BlockPolicy == PolicyOf(x.layers, x.env, x.no_blocking)

LockedIds == ToSet(b.locked) \cup ToSet(x.fixed_locked)

AdvisoriesFiltered(policy) ==
  SecurityAdvisoryFilter(b.arena, b.packages, LockedIds, x.sources, policy)

\* (mutant: what is locked is exempt, as it is from the advisories)
MutLockedExempt(policy) ==
  LET result == FilterListFilter(b.arena, b.packages, LockedIds, ToSet(x.locked_repository),
                                 x.sources, policy, "update")
  IN [result EXCEPT !.kept = Selected(b.packages, ToSet(@) \cup LockedIds)]

ListsFiltered(policy) ==
  FilterListFilter(b.arena, b.packages, LockedIds, ToSet(x.locked_repository), x.sources,
                   policy, "update")

Filtered(result, next) ==
  /\ phase' = IF result.failed THEN "failed" ELSE next
  /\ b' = IF result.failed THEN b ELSE [b EXCEPT !.packages = result.kept]
  /\ UNCHANGED <<x, at, repo, batches, kept>>

\* An unreachable source the policy does not ignore ends the update.
FilterAdvisories ==
  /\ phase = "built"
  /\ \E policy \in {BlockPolicy} : \E result \in {AdvisoriesFiltered(policy)} :
       Filtered(result, "advised")

FilterLists ==
  /\ phase = "advised"
  /\ \E policy \in {BlockPolicy} : \E result \in {ListsFiltered(policy)} :
       Filtered(result, "filtered")

-----------------------------------------------------------------------------
(* The filters by themselves, from any pool.                               *)

\* The settings of a list in one layer: a key is there once.
IsSettings(s) ==
  /\ DOMAIN s = DOMAIN NoSettings
  /\ s.kind \in {"no", "yes", "object"}
  /\ s.ignore \in Seq(ToSet(s.ignore))
  /\ s.kind # "object" => s.ignore = <<>>
  /\ \A i, j \in DOMAIN s.ignore : SameKey(s.ignore[i], s.ignore[j]) => i = j

IsLayer(layer) ==
  /\ DOMAIN layer = DOMAIN NoLayer
  /\ layer.policy \in {"absent", "no", "yes", "object"}
  /\ layer.policy # "object" => DOMAIN layer.lists = {}
  /\ \A l \in DOMAIN layer.lists : IsSettings(layer.lists[l])

\* Only the own id of an advisory starts with PKSA-.
IsAdvisory(a) ==
  /\ {"name", "affected", "id", "severity", "others", "complete"} \subseteq DOMAIN a
  /\ a.others \cap PackagistIds = {}

ASSUME InputsAssumption ==
  \A y \in Inputs :
    /\ Len(y.layers) \in Nat /\ DOMAIN y.layers = 1 .. Len(y.layers)
    /\ \A k \in DOMAIN y.layers : IsLayer(y.layers[k])
    /\ \A k \in DOMAIN y.sources :
         /\ y.sources[k].reachable \in BOOLEAN /\ y.sources[k].api \in BOOLEAN
         /\ y.sources[k].metadata \in {"no", "partial", "complete"}
         /\ \A a \in y.sources[k].advisories : IsAdvisory(a)

FilterInit == x \in Inputs /\ phase = "built" /\ BuiltPool

FilterStep == FilterAdvisories \/ FilterLists

FilterSpec == FilterInit /\ [][FilterStep]_vars

-----------------------------------------------------------------------------
(* Properties.                                                             *)

\* A lock an update may write is one an install accepts, unless the list only
\* blocks installs (filter_list_filter).
InstallAcceptsUpdate ==
  phase = "filtered" => \A policy \in {BlockPolicy} :
    LET lock == Selected(b.packages, {id \in ToSet(b.packages) :
                  ~IsAlias(b.arena[id]) /\ Filterable(b.arena[id])})
    IN policy.malware.scope # "install"
         => InstallPolicyProblems(b.arena, lock, x.sources, policy).refused = {}

\* An update gives up a version of the lock because of a list only when an
\* install would refuse it (filter_list_filter, install_policy_problems).  An
\* install judges no root alias.
LockJudgedAsInstalled ==
  [][phase = "advised" /\ phase' = "filtered" => \A policy \in {BlockPolicy} :
       \A id \in ToSet(b.packages) \ ToSet(b'.packages) :
         (~b.arena[id].root_alias /\ b.arena[id].replaces = <<>> /\ \E l \in ToSet(x.locked_repository) :
             b.arena[l].name = b.arena[id].name /\ b.arena[l].version = b.arena[id].version)
         => id \in InstallPolicyProblems(b.arena, <<id>>, x.sources, policy).refused]_vars

\* The advisories of the sources about a package, with all there is to know.
KnownOf(p) ==
  {a \in UNION {IF x.sources[k].reachable /\ (x.sources[k].metadata # "no" \/ x.sources[k].api)
                THEN x.sources[k].advisories ELSE {} : k \in DOMAIN x.sources} :
     p.stability # 20 /\ a.name \in Names(p, FALSE) /\ p.version \in a.affected}

\* An ignore rule is for the name, an id, the CVE or the severity.
Ignored(policy, a) ==
  \/ (OnBlock(policy.advisories.ids) \cup OnBlock(policy.advisories.ignore))
       \cap ({a.name, a.id} \cup a.others) # {}
  \/ a.severity \in OnBlock(policy.advisories.severities)

\* No version with an advisory the user did not ignore gets to the solver, and
\* a version only goes for one, or because it is abandoned: that the metadata
\* only has part of an advisory changes nothing, but for its severity
\* (needs_complete_advisory_load, process_advisories).
AdvisoriesDecide ==
  [][phase = "built" /\ phase' = "advised" => \A policy \in {BlockPolicy} :
       policy.advisories.block => \A id \in ToSet(b.packages) \ LockedIds :
         LET p == b.arena[id]
             known == KnownOf(p)
         IN /\ id \in ToSet(b'.packages)
                 => \A a \in known : a.name = p.name /\ ~p.root_alias /\ Filterable(p)
                                     => Ignored(policy, a)
            /\ id \notin ToSet(b'.packages)
                 => \/ p.abandoned /\ policy.abandoned.block
                    \/ \E a \in known : \/ ~Ignored(policy, a)
                                        \/ a.severity \in OnBlock(policy.advisories.severities)]_vars

\* Of the lock and of the repositories, the filters take what they have a reason
\* to take, and all of it.
FiltersDecide == LockJudgedAsInstalled /\ AdvisoriesDecide

\* The rules of a layer for the malware list.
IgnoredIn(layer) ==
  IF "malware" \in DOMAIN layer.lists THEN ToSet(layer.lists["malware"].ignore) ELSE {}

TurnsOff(layer) ==
  \/ layer.policy = "no"
  \/ "malware" \in DOMAIN layer.lists /\ layer.lists["malware"].kind = "no"

\* A rule of any layer is in force unless a later layer turns the list or all
\* of them off, or has a rule of its own under the same key (merge).
RulesAccumulate ==
  phase = "built" => \A policy \in {BlockPolicy} : \A k \in DOMAIN x.layers :
    \A r \in IgnoredIn(x.layers[k]) :
      \/ r \in ToSet(policy.malware.ignore)
      \/ x.env.policy = "no"
      \/ \E j \in k + 1 .. Len(x.layers) :
           TurnsOff(x.layers[j]) \/ \E q \in IgnoredIn(x.layers[j]) : SameKey(r, q)
=============================================================================
