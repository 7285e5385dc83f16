---------------------------- MODULE PoolBuilder ----------------------------
(***************************************************************************)
(* PoolBuilder of resolver/src/pool.rs: which packages of the repositories *)
(* and of the lock the pool of a solve holds.  What it builds is `b` of    *)
(* module PoolState; in what the caller gives, `x`, the names matching a   *)
(* pattern of the allow list are the set x.allow.                          *)
(***************************************************************************)
EXTENDS PoolState

CONSTANT LOAD_BATCH_SIZE    \* names asked of a repository at once (50 in the code)

-----------------------------------------------------------------------------
(* Package::origin, when it is no repository of the set.                   *)

OriginRoot == 0
OriginPlatform == -1
OriginLocked == -2
OriginDetached == -3

-----------------------------------------------------------------------------
(* Names, constraints and stabilities.                                     *)

\* is_package_acceptable: some name has a flag that allows the stability, or
\* no flag and the stability is under the minimum.
IsPackageAcceptable(names, stability) ==
  \E n \in names : IF n \in DOMAIN x.flags THEN stability <= x.flags[n]
                                           ELSE stability <= x.minimum

Acceptable(p) == IsPackageAcceptable(Names(p, TRUE), p.stability)

NamesIn(map) == {map[k].name : k \in DOMAIN map}

ConstraintIn(map, name) == (CHOOSE e \in ToSet(map) : e.name = name).constraint

\* OrderedMap::insert
Insert(map, name, constraint) ==
  IF name \in NamesIn(map)
  THEN [map EXCEPT ![SelectInSeq(map, LAMBDA e : e.name = name)].constraint = constraint]
  ELSE Append(map, [name |-> name, constraint |-> constraint])

RootRequires == TargetsOf(x.requires)

RootRequire(name) == (CHOOSE l \in ToSet(x.requires) : l.target = name).constraint

Drop(map, name) == SelectSeq(map, LAMBDA e : e.name # name)

PushUnique(list, e) == IF Contains(list, e) THEN list ELSE Append(list, e)

InPool(s) == {s.packages[k] : k \in DOMAIN s.packages} \ {0}

LoadedInPool(s) == SelectSeq(s.packages, LAMBDA id : id # 0)

\* op(s), and op over a sequence; TLC evaluates s and the sequence once.
After(s, op(_)) == CHOOSE r \in {op(v) : v \in {s}} : TRUE

Each(op(_, _), s, seq) ==
  LET Steps(q) == LET upTo[k \in 0..Len(q)] ==
                        IF k = 0 THEN s
                        ELSE CHOOSE r \in {op(v, q[k]) : v \in {upTo[k - 1]}} : TRUE
                  IN upTo[Len(q)]
  IN CHOOSE r \in {Steps(q) : q \in {seq}} : TRUE

-----------------------------------------------------------------------------
(* The request.                                                            *)

AllowTransitive == x.mode # "OnlyListed"

AllowTransitiveRoot == x.mode = "ListedWithTransitiveDeps"

IsLocked(s, id) == id \in ToSet(s.locked) \cup ToSet(x.fixed_locked)

IsFixed(id) == id \in ToSet(x.fixed)

FixedOrLocked(s) == x.fixed \o s.locked

-----------------------------------------------------------------------------
(* Marking a name for loading.                                             *)

\* (mutant: a name that was loaded is not loaded again for more versions)
MutLoadedOnce(s, name, asked) ==
  LET c == IF name \in RootRequires /\ ~ asked \subseteq RootRequire(name)
           THEN RootRequire(name) ELSE asked
      pending == IF name \in NamesIn(s.to_load) THEN ConstraintIn(s.to_load, name) ELSE {}
  IN IF name \in PlatformNames \cup s.max_extended \cup NamesIn(s.loaded) THEN s
     ELSE [s EXCEPT !.to_load = Insert(@, name, pending \cup c)]

\* mark_package_name_for_loading: under the root requirement when the
\* constraint allows more than it, joined with what is pending or loaded.
MarkForLoading(s, name, asked) ==
  LET c == IF name \in RootRequires /\ ~ asked \subseteq RootRequire(name)
           THEN RootRequire(name) ELSE asked
      pending == IF name \in NamesIn(s.to_load) THEN ConstraintIn(s.to_load, name) ELSE {}
  IN IF name \in PlatformNames \cup s.max_extended THEN s
     ELSE IF name \notin NamesIn(s.loaded)
     THEN IF name \in NamesIn(s.to_load) /\ c \subseteq pending THEN s
          ELSE [s EXCEPT !.to_load = Insert(@, name, pending \cup c)]
     ELSE IF c \subseteq ConstraintIn(s.loaded, name) THEN s
     ELSE [s EXCEPT !.to_load = Insert(@, name, ConstraintIn(s.loaded, name) \cup c),
                    !.loaded = Drop(@, name)]

MarkLinks(s, links, name) ==
  Each(LAMBDA acc, l : IF l.target = name
                           THEN MarkForLoading(acc, name, l.constraint) ELSE acc,
           s, links)

\* mark_package_name_for_loading_if_required
MarkIfRequired(s, name) ==
  Each(LAMBDA acc, id : MarkLinks(acc, s.arena[id].requires, name),
           MarkLinks(s, x.requires, name), LoadedInPool(s))

-----------------------------------------------------------------------------
(* Packages that leave the pool.                                           *)

\* (mutant: its versions count as loaded still)
MutStaysLoaded(s, id, index) ==
  LET aliases == {e \in s.alias_map : e[1] = id}
  IN [s EXCEPT
        !.packages = FoldSet(LAMBDA k, list : [list EXCEPT ![k] = 0], @,
                             {index} \cup {e[2] : e \in aliases}),
        !.alias_map = @ \ aliases]

\* remove_loaded_package: with its aliases; their versions may be loaded
\* again from the repository they came from.
RemoveLoaded(s, id, index) ==
  LET aliases == {e \in s.alias_map : e[1] = id}
      gone == {id} \cup {e[3] : e \in aliases}
  IN [s EXCEPT
        !.packages = FoldSet(LAMBDA k, list : [list EXCEPT ![k] = 0], @,
                             {index} \cup {e[2] : e \in aliases}),
        !.alias_map = @ \ aliases,
        !.per_repo = @ \ {<<s.arena[id].origin, s.arena[g].name, s.arena[g].version>> : g \in gone}]

IndicesNamed(s, name) ==
  SelectSeq([k \in DOMAIN s.packages |-> k],
            LAMBDA k : s.packages[k] # 0 /\ s.arena[s.packages[k]].name = name)

\* The first position of a package, 0 when the pool does not have it.
Position(s, id) == SelectInSeq(s.packages, LAMBDA p : p = id)

\* The last loop of unlock_package: `locked`, taken out of the pool, is asked
\* for again by the packages that stay locked, and so is what it replaces.
RECURSIVE Unlock(_, _)

UnlockAndMark(s, l) ==
  After(Unlock(s, l.target), LAMBDA v : MarkForLoading(v, l.target, l.constraint))

AskAgain(s, locked) ==
  LET name == s.arena[locked].name
      Asks(acc, other) ==
        LET requires == acc.arena[other].requires
            One(ac2, r) ==
              IF r.target \in TargetsOf(requires) /\ r.target \in NamesIn(ac2.skipped)
              THEN UnlockAndMark(ac2, r)
              ELSE ac2
        IN IF other = locked \/ acc.arena[other].name \notin NamesIn(acc.skipped) THEN acc
           ELSE Each(One, MarkLinks(acc, requires, name), acc.arena[locked].replaces)
  IN Each(Asks, s, FixedOrLocked(s))

UnlockLocked(s, name) ==
  LET One(acc, id) ==
        IF ~ /\ ~IsAlias(acc.arena[id])
             /\ acc.arena[id].name = name
             /\ Position(acc, id) # 0
        THEN acc
        ELSE After(RemoveLoaded([acc EXCEPT !.locked = Remove(@, id)], id, Position(acc, id)),
                   LAMBDA v : AskAgain(v, id))
  IN Each(One, s, s.locked \o x.fixed_locked)

\* skipped_load of a name
Standing(s, name) ==
  LET entries == SelectSeq(s.skipped, LAMBDA e : e.name = name)
  IN [k \in DOMAIN entries |-> entries[k].id]

\* The packages that stand for `name` by replacing it are unlocked first.
UnlockReplacers(s, name) ==
  LET One(acc, id) ==
        LET replacer == acc.arena[id].name
            Marked(v) ==
              IF replacer \in RootRequires THEN MarkForLoading(v, replacer, Versions)
              ELSE Each(LAMBDA ac2, p : MarkLinks(ac2, ac2.arena[p].requires, replacer),
                        v, LoadedInPool(v))
        IN IF ~ /\ replacer # name
                /\ replacer \in NamesIn(acc.skipped)
                /\ \/ AllowTransitiveRoot
                   \/ {name, replacer} \cap RootRequires = {}
           THEN acc ELSE After(Unlock(acc, replacer), Marked)
  IN Each(One, s, Standing(s, name))

\* The packages of a path repository that were loaded in place of the lock's.
DropUnlockedPath(s, name) ==
  IF name \notin s.path_unlocked THEN s
  ELSE Each(LAMBDA acc, k : RemoveLoaded(acc, s.packages[k], k), s, IndicesNamed(s, name))

Forget(s, name) ==
  [s EXCEPT !.skipped = Drop(@, name), !.loaded = Drop(@, name),
            !.max_extended = @ \ {name}, !.path_unlocked = @ \ {name}]

\* unlock_package
Unlock(s, name) ==
  After(After(UnlockReplacers(s, name), LAMBDA v : Forget(DropUnlockedPath(v, name), name)),
        LAMBDA v : UnlockLocked(v, name))

\* skipped_root_requires: the root requirements that hold `name` back.
SkippedRootRequires(s, name) ==
  {s.arena[id].name : id \in {i \in ToSet(Standing(s, name)) :
     \/ name \in RootRequires
     \/ ({s.arena[i].name} \cup TargetsOf(s.arena[i].replaces)) \cap RootRequires # {}}}

-----------------------------------------------------------------------------
(* Packages that enter the pool.                                           *)

PushPackage(s, id) ==
  LET base == s.arena[id].alias_of
  IN [s EXCEPT !.packages = Append(@, id),
               !.alias_map = IF base = 0 THEN @ ELSE @ \cup {<<base, Len(s.packages) + 1, id>>}]

\* set_source_dist_references: the package and all its aliases.
PinReference(s, id) ==
  LET p == s.arena[id]
      base == IF IsAlias(p) THEN p.alias_of ELSE id
  IN IF p.name \notin DOMAIN x.references \/ IsLocked(s, id) \/ IsFixed(id) THEN s
     ELSE [s EXCEPT !.arena = FoldLeftDomain(LAMBDA arena, k :
             IF k = base \/ arena[k].alias_of = base
             THEN [arena EXCEPT ![k].reference = x.references[p.name]] ELSE arena, @, @)]

\* The root alias of a loaded version, a new package of the arena.
AddRootAlias(s, id, propagate) ==
  LET p == s.arena[id]
      base == IF IsAlias(p) THEN p.alias_of ELSE id
      found == {a \in x.root_aliases : a.name = p.name /\ a.version = p.version}
      new == [s.arena[base] EXCEPT !.version = (CHOOSE a \in found : TRUE).alias,
                !.alias_of = base, !.root_alias = TRUE, !.origin = OriginDetached]
  IN IF found = {} \/ ~(propagate \/ p.name \in s.path_unlocked) THEN s
     ELSE PushPackage([s EXCEPT !.arena = Append(@, new)], Len(s.arena) + 1)

Warn(s, names) == [s EXCEPT !.warned = @ \cup names]

\* A require of a package that enters the pool: a name the lock stands for is
\* only unlocked by an update that carries over to it.
LoadRequire(propagate, s, l) ==
  LET roots == SkippedRootRequires(s, l.target)
  IN IF l.target \notin NamesIn(s.skipped) THEN MarkForLoading(s, l.target, l.constraint)
     ELSE IF propagate /\ AllowTransitive
     THEN IF AllowTransitiveRoot \/ roots = {}
          THEN UnlockAndMark(s, l)
          ELSE Warn(s, roots)
     ELSE IF l.target \in s.path_unlocked \ NamesIn(s.loaded)
     THEN MarkForLoading(s, l.target, l.constraint)
     ELSE s

\* (mutant: what a root requirement keeps is unlocked by a replacement)
MutReplaceUnlocks(s, l) ==
  IF l.target \notin NamesIn(s.loaded) \cap NamesIn(s.skipped) THEN s
  ELSE After(Unlock(s, l.target), LAMBDA v : MarkIfRequired(v, l.target))

\* What it replaces may have been locked.
LoadReplace(s, l) ==
  LET roots == SkippedRootRequires(s, l.target)
  IN IF l.target \notin NamesIn(s.loaded) \cap NamesIn(s.skipped) THEN s
     ELSE IF AllowTransitiveRoot \/ roots = {}
     THEN After(Unlock(s, l.target), LAMBDA v : MarkIfRequired(v, l.target))
     ELSE Warn(s, roots)

LoadReplaces(s, links, propagate) ==
  IF propagate /\ AllowTransitive THEN Each(LoadReplace, s, links) ELSE s

\* load_package
LoadPackage(s, id, propagate) ==
  LET p == s.arena[id]
      entered == After(PinReference(PushPackage(s, id), id),
                       LAMBDA v : AddRootAlias(v, id, propagate))
  IN After(Each(LAMBDA acc, l : LoadRequire(propagate, acc, l), entered, p.requires),
           LAMBDA v : LoadReplaces(v, p.replaces, propagate))

-----------------------------------------------------------------------------
(* What a repository answers for a batch of names.                         *)

AliasesOf(s, members, id) == SelectSeq(members, LAMBDA m : s.arena[m].alias_of = id)

\* array_repository_load_packages: a version and its aliases come together.
ArrayLoad(s, r, batch, members) ==
  LET Wanted(id) == LET p == s.arena[id]
                    IN /\ p.name \in NamesIn(batch)
                       /\ p.version \in ConstraintIn(batch, p.name)
                       /\ Acceptable(p)
                       /\ <<r, p.name, p.version>> \notin s.per_repo
      WithBase(acc, id) ==
        IF ~Wanted(id) THEN acc
        ELSE LET base == s.arena[id].alias_of
             IN IF base = 0 THEN PushUnique(acc, id) ELSE PushUnique(PushUnique(acc, id), base)
      result == Each(WithBase, <<>>, members)
  IN Each(LAMBDA acc, id : IF s.arena[id].alias_of \in ToSet(result)
                               THEN PushUnique(acc, id) ELSE acc,
              result, members)

\* ComposerRepository::load_packages: the metadata of each name, then that of
\* its dev versions; a version is taken when it or its branch alias is wanted.
ComposerLoad(s, r, batch, members) ==
  LET Wanted(id, c) ==
        LET p == s.arena[id]
            faces == {id} \cup ToSet(AliasesOf(s, members, id))
        IN /\ ~IsAlias(p)
           /\ <<r, p.name, p.version>> \notin s.per_repo
           /\ \E f \in faces : /\ s.arena[f].version \in c
                               /\ IsPackageAcceptable({p.name}, s.arena[f].stability)
      Versions_(e, dev) ==
        LET ids == SelectSeq(members, LAMBDA id : s.arena[id].name = e.name
                                 /\ (s.arena[id].stability = 20) = dev /\ Wanted(id, e.constraint))
        IN FlattenSeq([k \in DOMAIN ids |-> AliasesOf(s, members, ids[k]) \o <<ids[k]>>])
      Names_(dev) == FlattenSeq([k \in DOMAIN batch |->
                       IF dev /\ ~IsPackageAcceptable({batch[k].name}, 20)
                       THEN <<>> ELSE Versions_(batch[k], dev)])
  IN Names_(FALSE) \o Names_(TRUE)

AnswerOf(s, r, batch) ==
  LET repository == x.repositories[r]
  IN IF repository.kind = "composer" THEN ComposerLoad(s, r, batch, repository.members)
     ELSE ArrayLoad(s, r, batch, repository.members)

\* The names it knows, acceptable versions or not: no other repository is
\* asked for them.
NamesFound(s, r, batch) ==
  {s.arena[id].name : id \in ToSet(x.repositories[r].members)} \cap NamesIn(batch)

LoadAnswer(s, r, answer) ==
  LET One(acc, id) ==
        LET p == acc.arena[id]
        IN LoadPackage([acc EXCEPT !.per_repo = @ \cup {<<r, p.name, p.version>>}], id,
                       p.name \notin acc.path_unlocked)
  IN Each(One, s, answer)

-----------------------------------------------------------------------------
(* build_pool                                                              *)

NewBuilder ==
  [arena |-> x.arena, packages |-> <<>>, alias_map |-> {}, to_load |-> <<>>,
   loaded |-> <<>>, per_repo |-> {}, skipped |-> <<>>, path_unlocked |-> {},
   max_extended |-> {}, warned |-> {}, unacceptable |-> {}, locked |-> <<>>]

Init ==
  /\ x \in Inputs
  /\ b = NewBuilder
  /\ phase = "skip" /\ at = 1 /\ repo = 0 /\ batches = <<>> /\ kept = <<>>

\* A locked package the update does not list stands for its name and what it
\* replaces; a symlinked path package is read again from its repository.
SkipLocked ==
  /\ phase = "skip" /\ x.allow # {} /\ x.has_lock /\ at <= Len(x.locked_repository)
  /\ LET id == x.locked_repository[at]
         p == b.arena[id]
         skips == Each(LAMBDA acc, n : [acc EXCEPT !.skipped = Append(@, [name |-> n, id |-> id])], b,
                           <<p.name>> \o [k \in DOMAIN p.replaces |-> p.replaces[k].target])
     IN b' = IF p.name \in x.allow THEN b
             ELSE IF p.path = "symlink"
             THEN [skips EXCEPT !.path_unlocked = @ \cup {p.name}]
             ELSE [skips EXCEPT !.locked = PushUnique(@, id)]
  /\ at' = at + 1
  /\ UNCHANGED <<x, phase, repo, batches, kept>>

\* A partial update without a lock.
NoLock ==
  /\ phase = "skip" /\ x.allow # {} /\ ~x.has_lock
  /\ phase' = "failed"
  /\ UNCHANGED <<x, b, at, repo, batches, kept>>

AllSkipped ==
  /\ phase = "skip" /\ (x.allow = {} \/ (x.has_lock /\ at > Len(x.locked_repository)))
  /\ phase' = "fixed" /\ at' = 1
  /\ UNCHANGED <<x, b, repo, batches, kept>>

LoadFixedOrLocked ==
  /\ phase = "fixed" /\ at <= Len(FixedOrLocked(b))
  /\ LET id == FixedOrLocked(b)[at]
         p == b.arena[id]
         names == <<p.name>> \o [k \in DOMAIN p.replaces |-> p.replaces[k].target]
         known == Each(LAMBDA acc, n : [acc EXCEPT !.loaded = Insert(@, n, Versions)], b, names)
     IN b' = IF p.origin \in {OriginRoot, OriginPlatform} \/ Acceptable(p)
             THEN LoadPackage(known, id, FALSE)
             ELSE [known EXCEPT !.unacceptable = @ \cup {id}]
  /\ at' = at + 1
  /\ UNCHANGED <<x, phase, repo, batches, kept>>

MarkRootRequires ==
  /\ phase = "fixed" /\ at > Len(FixedOrLocked(b))
  /\ LET wanted == SelectSeq(x.requires, LAMBDA l : l.target \notin NamesIn(b.loaded))
         marked == Each(LAMBDA acc, l : [acc EXCEPT
                      !.to_load = Insert(@, l.target, l.constraint),
                      !.max_extended = @ \cup {l.target}], b, wanted)
     IN b' = [marked EXCEPT
                !.to_load = SelectSeq(@, LAMBDA e : e.name \notin NamesIn(b.loaded))]
  /\ phase' = "round"
  /\ UNCHANGED <<x, at, repo, batches, kept>>

Chunks(map) ==
  [k \in 1..((Len(map) + LOAD_BATCH_SIZE - 1) \div LOAD_BATCH_SIZE) |->
     SubSeq(map, (k - 1) * LOAD_BATCH_SIZE + 1,
            IF k * LOAD_BATCH_SIZE > Len(map) THEN Len(map) ELSE k * LOAD_BATCH_SIZE)]

\* (mutant: what is asked for stays marked)
MutStaysMarked ==
  /\ phase = "round" /\ b.to_load # <<>>
  /\ b' = [b EXCEPT !.loaded = SelectSeq(@, LAMBDA e : e.name \notin NamesIn(b.to_load)) \o b.to_load]
  /\ batches' = Chunks(b.to_load)
  /\ phase' = "load" /\ repo' = 1 /\ kept' = <<>>
  /\ UNCHANGED <<x, at>>

\* load_packages_marked_for_loading: the marked names count as loaded, the
\* ones outside a restriction are dropped, then the repositories are asked.
StartRound ==
  /\ phase = "round" /\ b.to_load # <<>>
  /\ LET asked == IF x.restricted = {} THEN b.to_load
                  ELSE SelectSeq(b.to_load, LAMBDA e : e.name \in x.restricted)
     IN /\ b' = [b EXCEPT !.to_load = <<>>,
                          !.loaded = SelectSeq(@, LAMBDA e : e.name \notin NamesIn(asked))
                                     \o asked]
        /\ batches' = Chunks(asked)
  /\ phase' = "load" /\ repo' = 1 /\ kept' = <<>>
  /\ UNCHANGED <<x, at>>

LoadBatch ==
  /\ phase = "load" /\ batches # <<>> /\ repo <= Len(x.repositories)
  /\ LET batch == Head(batches)
     IN /\ b' = LoadAnswer(b, repo, AnswerOf(b, repo, batch))
        /\ kept' = kept \o SelectSeq(batch, LAMBDA e : e.name \notin NamesFound(b, repo, batch))
  /\ batches' = Tail(batches)
  /\ UNCHANGED <<x, phase, at, repo>>

\* Names no repository of higher priority knows are asked of the next one.
NextRepository ==
  /\ phase = "load" /\ batches = <<>> /\ kept # <<>> /\ repo < Len(x.repositories)
  /\ repo' = repo + 1 /\ batches' = Chunks(kept) /\ kept' = <<>>
  /\ UNCHANGED <<x, b, phase, at>>

RoundEnds ==
  /\ phase = "load" /\ batches = <<>> /\ (kept = <<>> \/ repo = Len(x.repositories))
  /\ phase' = "round"
  /\ UNCHANGED <<x, b, at, repo, batches, kept>>

\* The constraints of the command line: a version goes when neither it nor an
\* alias of it is allowed, under each name it has.
RuledOut(s, id) ==
  LET faces == {id} \cup {e[3] : e \in {m \in s.alias_map : m[1] = id}}
  IN \E n \in Names(s.arena[id], TRUE) \cap DOMAIN x.temporary :
       \A f \in faces : s.arena[f].version \notin x.temporary[n]

PoolIsBuilt ==
  /\ phase = "round" /\ b.to_load = <<>>
  /\ LET out == {id \in InPool(b) : ~IsAlias(b.arena[id]) /\ RuledOut(b, id)}
         gone == out \cup {e[3] : e \in {m \in b.alias_map : m[1] \in out}}
     IN b' = [b EXCEPT !.packages = SelectSeq(@, LAMBDA id : id \notin gone \cup {0})]
  /\ phase' = "built"
  /\ UNCHANGED <<x, at, repo, batches, kept>>

BuilderStep ==
  \/ SkipLocked \/ NoLock \/ AllSkipped \/ LoadFixedOrLocked \/ MarkRootRequires
  \/ StartRound \/ LoadBatch \/ NextRepository \/ RoundEnds \/ PoolIsBuilt

BuilderSpec == Init /\ [][BuilderStep]_vars /\ WF_vars(BuilderStep)

-----------------------------------------------------------------------------
(* Properties.                                                             *)

Built == phase = "built"

\* A package of the lock or a fixed one is what the pool has for the name.
Stands(name) ==
  \E id \in ToSet(FixedOrLocked(b)) :
    name \in {b.arena[id].name} \cup TargetsOf(b.arena[id].replaces)

\* A symlinked path package of the lock is loaded again for the first that
\* requires it, stands for what it replaces, and when it is unlocked those
\* that stay locked do not ask for it again.
LeftToPath(id, name) ==
  \E k \in ToSet(x.locked_repository) :
    LET p == x.arena[k]
    IN /\ p.path = "symlink" /\ p.name \notin x.allow
       /\ name \in {p.name} \cup TargetsOf(p.replaces)
       /\ \/ id \in ToSet(b.locked)
          \/ name \in NamesIn(b.skipped) /\ (p.name = name => name \in NamesIn(b.loaded))

\* The versions of a name in the first repository that knows it.
Offered(name) ==
  LET knows == {r \in DOMAIN x.repositories :
                  \E id \in ToSet(x.repositories[r].members) : b.arena[id].name = name}
  IN IF knows = {} THEN {}
     ELSE {id \in ToSet(x.repositories[CHOOSE r \in knows : \A k \in knows : r <= k].members) :
             b.arena[id].name = name}

\* What a link may still choose: under the root requirement of its target.
MayChoose(l) ==
  {id \in Offered(l.target) :
     LET p == b.arena[id]
     IN /\ p.version \in l.constraint
        /\ l.target \in RootRequires => p.version \in RootRequire(l.target)
        /\ Acceptable(p)}

\* The pool is closed: whatever the request and a package in the pool may
\* require is in it too, unless the lock stands for the name (load_package,
\* unlock_package and mark_package_name_for_loading, pool.rs).
Covered(l) ==
  \/ l.target \in PlatformNames
  \/ x.restricted # {} /\ l.target \notin x.restricted
  \/ Stands(l.target)
  \/ \A id \in MayChoose(l) :
       id \in InPool(b) \/ RuledOut(b, IF IsAlias(b.arena[id]) THEN b.arena[id].alias_of ELSE id)

\* The lock stood for the name at first: when it is unlocked it is loaded for
\* those that asked, and not under the whole root requirement.
WasHeld(name) ==
  \E k \in ToSet(x.locked_repository) :
    LET p == x.arena[k]
    IN x.allow # {} /\ p.name \notin x.allow /\ name \in {p.name} \cup TargetsOf(p.replaces)

PoolIsClosed ==
  Built => /\ \A l \in ToSet(x.requires) : Covered(l) \/ WasHeld(l.target)
           /\ \A id \in InPool(b) : \A l \in ToSet(b.arena[id].requires) :
                Covered(l) \/ LeftToPath(id, l.target)

\* No package enters twice, and no version of a name from two places.
NothingTwice ==
  Built => \A i, j \in DOMAIN b.packages : i # j =>
     LET p == b.arena[b.packages[i]]  q == b.arena[b.packages[j]]
     IN b.packages[i] # b.packages[j] /\ (p.name = q.name => p.version # q.version)

\* A locked package keeps out the other versions of its name.
LockedStaysAlone ==
  Built => \A id \in ToSet(b.locked) : \A other \in InPool(b) :
     LET p == b.arena[id]  q == b.arena[other]
     IN (~IsAlias(p) /\ ~IsAlias(q) /\ q.name = p.name) => other = id

\* loaded_per_repo says what the pool has of each repository.
PerRepoInStep ==
  phase \in {"round", "load"} =>
    b.per_repo = {<<b.arena[id].origin, b.arena[id].name, b.arena[id].version>> :
                    id \in {i \in InPool(b) : b.arena[i].origin \in DOMAIN x.repositories}}

\* The lock only gives way to an update that carries over, and a root
\* requirement, or what replaces one, only to -W.
UnlocksOnlyWhenAllowed ==
  [][\A id \in ToSet(b.locked) \ ToSet(b'.locked) :
       /\ AllowTransitive
       /\ \/ AllowTransitiveRoot
          \/ ({b.arena[id].name} \cup TargetsOf(b.arena[id].replaces)) \cap RootRequires = {}]_vars

\* A package and the aliases its repository gives it come together, and the
\* version the root names for an alias comes with it, the same reference on
\* both (load_package, remove_loaded_package).
AliasesComeTogether ==
  Built => /\ \A id \in DOMAIN b.arena : LET p == b.arena[id] IN
                (IsAlias(p) /\ p.origin \in DOMAIN x.repositories)
                  => (id \in InPool(b) <=> p.alias_of \in InPool(b))
           /\ \A id \in InPool(b) : LET p == b.arena[id] IN
                /\ p.root_alias => b.arena[p.alias_of].reference = p.reference
                /\ \A a \in x.root_aliases :
                     (a.name = p.name /\ a.version = p.version /\ p.origin \in DOMAIN x.repositories)
                       => \E other \in InPool(b) : /\ b.arena[other].name = a.name
                                                   /\ b.arena[other].version = a.alias

\* What an update that carries over still leaves to the lock is a root
\* requirement, or replaces one, and the user is told (load_package).
KeptWarned ==
  Built /\ AllowTransitive => \A id \in InPool(b) :
    (b.arena[id].origin \in DOMAIN x.repositories /\ ~ \E k \in ToSet(x.locked_repository) :
        b.arena[k].path = "symlink" /\ b.arena[k].name = b.arena[id].name)
      => \A name \in TargetsOf(b.arena[id].requires) \cap NamesIn(b.skipped) :
           /\ ~AllowTransitiveRoot
           /\ SkippedRootRequires(b, name) # {} /\ SkippedRootRequires(b, name) \subseteq b.warned

\* What unlocking, extending and aliasing record in several places stays in step,
\* and no unset place is left in the pool.
BuilderInStep ==
  (Built => BuiltPool) /\ NothingTwice /\ LockedStaysAlone /\ PerRepoInStep /\ AliasesComeTogether /\ KeptWarned

BuilderEnds == <>(phase \in {"built", "failed"})
=============================================================================
