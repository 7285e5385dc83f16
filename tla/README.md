# TLA+ specifications of vivacity

vivacity reimplements the Composer commands `install`, `update`, `require`,
`remove` and `dump-autoload` in Rust. These specifications model the parts of it
whose correctness depends on more than one step or more than one actor. They
are translated from the code; each definition is mapped to its lines in
`PROJECT.json`.

## The system

| Component | Code | State it keeps | Operations |
|---|---|---|---|
| Solver | `resolver/src/solver.rs`, `decisions.rs`, `watch.rs`, `rule.rs` | rules, decision map and stack, watch graph, branches, learned pool, problems | assertions, propagate, analyze, learn and revert, the passes of `run_sat`, retry of a branch |
| Rule generator | `rules_gen.rs` | rules, packages added, packages by name | rules for the request, for root aliases, for conflicts |
| Policy | `policy.rs` | comparison caches | `select_preferred_packages` |
| Pool and its builder | `pool.rs`, `package.rs` | packages by id and by name, packages loaded or skipped | load names, unlock, mark for loading, `what_provides` |
| Platform filter | `platform_filter.rs` | names ignored, names whose upper bound is | `is_ignored`, `filter_constraint` |
| Optimizer, pool filters | `optimizer.rs`, `pool_filters.rs`, `policy_config.rs` | identity groups, removed versions | reduce the pool before the solver |
| Constraints | `constraint.rs`, `intervals.rs`, `version.rs`, `phpver.rs` | none | parse, match, compact, subset |
| Repositories | `repository.rs`, `metacache.rs`, `path_repo.rs`, `loader.rs` | metadata cache on disk, packages loaded | fetch with `If-Modified-Since`, read, write, load |
| Session | `session.rs`, `root.rs` | request, root aliases, stability flags | update, partial update, require: pool, solver, transaction, lock |
| composer.json edition | `json_manipulator.rs`, `config_source.rs` | none beyond the file | add or remove a link, a setting, a section; sort |
| Transaction, lock file | `transaction.rs`, `lockfile.rs` | operations, lock data | order of the operations, non-dev extraction, write of `composer.lock` |
| Store | `core/src/store.rs`, `extract.rs` | one directory per archive identity, shared by projects and processes | lookup, extract aside and rename |
| Dist cache | `core/src/fetch.rs` | archives on disk, shared by processes | lookup, download with retries, checksum, write aside and rename |
| Installer | `core/src/installer.rs`, `clone.rs`, `state.rs`, `layout.rs`, `binproxy.rs`, ... | `vendor/`, `installed.json` | compare the lock with what is installed, remove, clone, write the state |
| Autoload generator | `autoload/src/*` | class map cache, generated files | sort packages, scan, write |
| Command line | `vivacity/src/lib.rs`, `require.rs` | `composer.json`, `composer.lock` | the commands; `require` edits, resolves, installs and reverts on failure |

A command resolves (session: pool builder, optimizer, rule generator, solver,
transaction), writes the lock file, then installs (download through the dist
cache, extraction into the store, clone into `vendor/`), then writes the
autoloader. The solver and the generator are sequential. Downloads and
extractions of one run are concurrent tasks; the store, the dist cache and the
metadata cache are directories that concurrent runs share.

### What is hard, and what makes each part correct

* **Solver**: a conflict-driven search with lazy watches and backjumps. Its
  decision map, stack, levels, branches and propagation index move separately and
  have to stay in agreement; a watch missed or a learned rule that does not follow
  gives a wrong answer only on inputs of a certain shape. Correct: it answers, a
  solution is one, a refusal means there is none, the problems reported are real.
* **Generator**: the rules have to mean what the packages say (requires, provides,
  replaces, conflicts, aliases, platform filters).
* **Optimizer, filters, constraints**: no solution may be lost, no forbidden
  version kept.
* **Shared directories** (store, dist cache, metadata cache): interleavings of
  processes, crashes between a write and its rename.
* **Installer, require**: a crash or a failure between two writes, and what the
  next run makes of what is left.
* **Session**: the sections of the lock come from a second solve, on packages that
  were dumped and loaded again; aliases are recorded by name and read back. Correct:
  the lock, read again, is what was resolved, and its part without development
  packages stands alone.
* **Autoloader**: parallel scans and a shared cache whose result may not depend on
  either; files written one by one by a dump that may be killed.
* **composer.json**: text edited by regular expressions has to mean what the same
  edit of the decoded file means.
* **Transaction**: an order of operations in which dependencies come first, for
  cyclic dependencies too.

`hazards` in `PROJECT.json` lists them at their lines; `components` says which
parts are modelled, partly modelled or not.

## Modules

| Module | Models | Kind |
|---|---|---|
| `Rules` | literals, rules, `RuleSet::add` (`rule.rs`) | operators |
| `Solver` | `solve` from the assertion pass to the answer, one action per iteration of the loops of the code | state machine |
| `SolverProperties` | what is true of it | properties |
| `Pool` | `what_provides`, names, platform filter | operators |
| `RulesGen` | the rule generator, and the input it makes for the solver | operators (recursive) |
| `Policy` | the preferred packages of a rule | operators |
| `PoolSemantics` | reference: when a set of packages is a solution, said of packages and not of rules | operators |
| `Resolution` | abstract specification: one answer, right in both cases | state machine |
| `MCSolver` | families of pools, the instances made of them, and the refinement mapping to `Resolution` | model |
| `PoolState` | the variables that the phases of the pool share | variables |
| `PoolBuilder` | which packages of the repositories and the lock the pool holds | state machine over operators (recursive) |
| `PolicyConfig` | what may not be installed: the layers of the configuration | operators |
| `PoolFilters` | advisories, abandoned packages, filter lists, and the two filters as steps on a pool that is built; the check of an install | state machine |
| `PoolOptimizer` | the packages that are interchangeable or impossible | operators |
| `PoolPipeline` | builder, filters and optimizer, one after the other, as the session calls them | state machine |
| `RepositoryConfig` | the repositories of `config.json` and `composer.json`, merged | operators |
| `Session` | an update from the manifest to the lock, and the next one from what it wrote | state machine |
| `Constraints` | constraints, intervals, compaction, subset | operators (recursive) |
| `ConstraintSyntax` | what `~`, `^`, `x`, `-` and comparisons are parsed to | operators |
| `Transaction` | `Transaction::new`: roots, walk, plugins and removals to the front, one action per iteration | state machine |
| `StorePromise` | abstract specification of the store: an entry appears once, whole | state machine |
| `Store` | `Store::ensure` with the extraction file by file, in processes that die | state machine, refines `StorePromise` |
| `TempRename` | a file written in chunks under a temporary name and renamed onto an entry | state machine |
| `DistCache` | `Fetcher::dist_bytes`; its write is that of `TempRename`, which it extends | state machine |
| `MetadataFetch` | `packages.json` and the metadata files of several runs over one cache and a server that changes | state machine |
| `Install` | the install transaction and the clone of packages, file by file, interrupted and run again, over a shared store | state machine |
| `Binaries` | the proxies of `vendor/bin` | state machine |
| `Autoload` | the sorter, the package filter, parallel scans with the class map cache, and the files of a dump | state machine over operators (recursive) |
| `Commands` | `require`, `remove`, `update`, `install` over `composer.json`, `composer.lock` and `vendor/` | state machine |
| `JsonEdit` | what `require` and `remove` write to `composer.json` | operators (recursive) |
| `NaturalOrder` | `strnatcmp`, by which `sort-packages` sorts | operators (recursive) |
| `MCPool`, `MCCaches`, `MCCommands`, `MCData`, ... | the small worlds in which TLC checks the modules | models |
| `Selection` | the selection from a sequence that `Rules`, `Transaction` and `PoolFilters` use | operator |
| `SequenceLemmas` | lemmas on numbers and sequences that several proofs cite | proofs |
| `...Proofs` | theorems about the module of that name, and of those it extends (`SolverProofs`: the solver's stacks and its conclusions; `AnswerProofs`: its answers; `CachesProofs`: `Store` and `MetadataFetch`; `DistCacheProofs`: `TempRename` too; `CommandsProofs`: `Transaction` too; `InstallProofs`: `Binaries` too) | proofs |

How they fit together: `Commands` runs a resolution (any result that contains
what is required) and an install (one step); `Solver` and its companions are what
happens inside that resolution, `Install` and `Binaries` inside that install;
`PoolPipeline` makes the pool that `MCSolver` takes from its families, and
`Session` surrounds both: it takes any result the solver may find and writes the
lock that `Commands` treats as a fact. `Transaction` orders what `Install` carries
out. `Install` takes an entry of the store to appear whole in one step, which is
`StorePromise`, which `Store` implements; `Store` is fed by `DistCache`, whose
write is `TempRename`. `TempRename` with one name per process also stands for the
metadata cache (whose entries appear in one step in `MetadataFetch`), and with one
name per writer for the class map cache (whose slots appear in one step in
`Autoload`). `Constraints` is what the sets of versions of the other modules stand
for. `MCCaches`, `MCCommands` and `MCData` check several modules in one run: a
variable says which part moves, the others stay as they begin.

### How the solver corresponds to the code

The variables have the names of the fields of `Solver`, `Decisions`,
`RuleWatchGraph` and `RuleSet`; `level`, `run` and `an` are the locals of
`run_sat`, `set_propagate_learn` and `analyze`; `pc` says in which loop the call
is. Literals are signed pool ids as in the code; a rule keeps its literals as a
set, and where the code takes the first of its sorted literals the model takes the
least. Indices are 1-based.

A `SolverBug` of the code is the absence of a step: an action whose guard is the
negation of the error. `NoSolverBug` says which steps are then there, and the
runs check for deadlocks. `decide` is guarded in the same way.

The generated rules are those of a real pool: `MCSolver` applies `RulesGen` to
every input of a family, and `Policy` to every choice a rule may offer
(precomputed per input), so that the runs check generator, policy and solver
together. The order of the reasons within a problem, which only the
wording of a message depends on, is left out: a problem is a set of rules.

### How the pool corresponds to the code

The builder and the request it changes are one record `b` (module comment), for
`unlock_package` changes all of it from inside `load_package`. One step is one
batch of names loaded, one fixed or locked package, one name that is extended.
Versions are numbers and constraints sets of versions, stabilities those of the
code; a pattern of an allow list is the set of names it matches. Then
`PoolFilters` filters `b.packages` and `PoolPipeline` optimizes what is left, as
`create_filtered_pool` and `update` do. `PoolFilters` also is a specification of its
own, `FilterSpec`, that begins with any pool that is built (`BuiltPool`); the run
checks that the pools of the builder are such (`BuilderInStep`). A repository is seen
by the filters as a record of what it says of its packages. A switch of the
configuration is `yes`, `no` or `absent`.

`OptimizerKeepsSolvable` is said of what packages mean (`PoolSemantics`), not of the
groups of the optimizer. `InstallAcceptsUpdate` and `LockJudgedAsInstalled` compare
the two judgements of one list, `AdvisoriesDecide` compares the answer with the
complete advisories, whichever the filter has read.

### How the session corresponds to the code

The phases are those of `UpdateSession::update`. A solve answers an open
requirement, and another, until none is open (`FoundBy`): any solution the solver
may prefer is one of them. The result is dumped and loaded again (`ResultPool`)
for the second solve. `Edit` changes the manifest between two updates.
`LockRoundTrip`, `NoDevStandsAlone` and `ExtractionAlways` have two premises. One is
`AskedOnce`: no name is in both sections, and an `as` is for one version;
otherwise an alias is recorded that is not in use, or two for one version, and what
is read back differs. The other is `AliasesStand`: the aliases of packages that
stay locked are those of the manifest; after an edited `as` a partial update keeps
the alias of the lock in the pool and records the other. Composer does the same in
each case.

### How the metadata cache corresponds to the code

A run is a sequence of phases (`Plan`), each a batch of files; `cached` is what it
read of the cache before it sent its requests, `memo` what it has settled. The
server publishes and withdraws versions between any two steps. `ConfirmedOrWarned`
compares what a run uses with all the versions there were since it began (`seen`).

### How constraints, autoloader and composer.json correspond to the code

`Constraints` has the operators of `constraint.rs` and `intervals.rs` by name, over
numbers for versions and negative numbers for branches. The properties compare
their answers with membership: what a constraint admits is found version by
version. `ConstraintSyntax` parses what is written (a form with its digits) to a
constraint over versions of four digits; `RangesByPrefix` compares it with what the
documentation of each form says, digit by digit.

In `Autoload` a name, a class and a path are sequences of segments. A dump reads,
scans its directories in any order, merges in the order of the rules, and writes
one file at a time; it may be killed between any two, and a directory of the class
map that is not there ends it before the first (`MissingPath`). Packages have symbolic
links, so that a file and a scanned directory have a name and a real path: of the
exclusions, a job keeps those related to its directory by one or the other
(`RelatedExclusions` is the `retain` of `build_exclusion_regex`) and applies them to
both paths of a file. An excluded directory that a link inside another leads to is
therefore mapped through it, and the data of the run have such a link.
`OptimizeFindsTheSame` looks each class up by the rules, as the class loader does, and
in the class map.

`JsonEdit` has a file as its entries in their order. The two ways of an edit, of the
text (`AddLink`, `RemoveSubNode`, ...) and of the decoded file (`UnsetKey`,
`RewriteLink`, `FixupEmptyObjects`), are composed as in `manipulate` and
`update_file`; `limited` makes the first give up. `Meaning` is the decoded file in
which an empty array is an empty object.

### How the transaction corresponds to the code

The variables are the locals of `Transaction::new` and of `move_plugins_to_front`;
`at` says in which loop the call is and `cursor` where in it; `taken` has the
positions of the operations in the four lists of `moved`, which the code collects in
`removed`. A package is one
of `Pool` with its type and with `ref`, a number that stands for the two
references and the abandoned mark, which the code compares one by one. The maps
keyed by name, or by name and version for an alias, are found by `SameKey`; as in
`installed.json` and in a lock, no two present packages have one key. The four
lists of `move_plugins_to_front` are the fields of `moved`. Names are ordered by
their place in `NameOrder`. Instances respect what a lock and the solver
guarantee: one package of a name, and with an alias the package it is for.

`OperationsCarryOver` runs the operations over what is present, as facts (name,
version, `ref`; name and version of an alias), and wants each to find what it
expects: an update the package it names, an install nobody of the name, an alias
its package. `DependenciesFirst` exempts the packages that reach themselves
through requirements. For them it is false: a package that requires what it
itself provides is pushed a second time above its other requirements, and is
processed there, before them.

### How the shared directories correspond to the code

`Store` has one stage per file operation of `Store::ensure`: the lookup, the
temporary directory under a fresh name, `extract_zip` one file at a time, the
rename, the removal. A process dies (`Crash`) at any of them and starts again
with nothing but the directories. An archive is the set of its files; a damaged
one fails at some file. A directory replaces another by `rename(2)` only when
that one is empty (`CanReplace`). That the removal of a temporary directory may
itself fail is left out. Archives hold at least one file (`StoreAssumption`).

`TempRename` has an inode per writer: a name is resolved when it is opened, a
rename moves the inode that has the name at that moment, and a writer that is
still writing writes to the inode it opened, whatever its name has become. This
is what `dist_bytes` is sensitive to. `Tidy` tells whether a failed rename is
followed by a removal (the metadata cache does, the dist cache does not).
`Exclusive` says that two writers never hold one name at a time.

`DistCache` adds the lookup, the checksum that the lock may or may not give
(`Checked`), the attempts and their checks, `offline`, and what is returned.

### How the installer corresponds to the code

`recorded` is `installed.json`, `lock` is `composer.lock`, `vendor` the
directories; the rest are locals of a run, which vanish with it. `Begin` is the
comparison of the lock with what is installed; then come the phases `fetch`,
`remove`, `place`, `state` in the order of the code, and in them one action per
file operation: `ClearFile` and `ClearDir` are `remove_path`, `MakeDir`, `Probe`,
`Refused`, `Reflink`, `HardLink` and `Copy` are the body of `link_or_copy_tree`
and of `reflink`; a reflink is granted, refused for the file, or refused for good. The
packages of a run are placed in any order and interleaved,
as by rayon. A file of `vendor` is the version it has the bytes of and whether it
is the inode of the store's file; a write through a link shows in `spoiled`.

What a user does between two runs is part of the model (`EditLock`,
`DeleteByHand`). `Alone` and `Patient` are assumptions on how the runs are used,
not on the code: one run at a time in a project, and an interrupted run is run
again before anything else is done. The runs that refute a property name the
assumption that they drop.

`Binaries` follows the proxies: `InstallBinaries` writes those that are missing of
unchanged packages and all of changed ones, `Prune` removes the names that nobody
declares.

### How the commands correspond to the code

Each phase of `run_require` and `run_remove` is an action or two, and each way
out of a phase an action of its own, for what is restored differs:
`Unsolvable` and `InstallRefused` are exit statuses, `ResolutionThrows` and
`InstallThrows` are errors that skip the rest of the command, `RefuseToEdit`,
`CannotInstallUnlocked` and `CannotPin` return without a look at the backups.
`before` holds the backups. A manifest maps packages to `none`, `any` (the `*`
that `require` writes when it has yet to find the constraint) or `pinned`; the
`content-hash` of a lock is the manifest it was made from. The files are written
in one step. The premises of `FailureRestores` are the cases in which the code has
something to put back: a `composer.json` that `require` did not create, a
`composer.lock` that was there. Otherwise `Files::revert` deletes both, or leaves
the new lock.

## Runs

| Run | World | Question |
|---|---|---|
| `solver` | 3720 inputs: two versions of a, b, c that require and exclude each other; three versions and conflicts across levels; packages that provide, replace and conflict; aliases, platform filters, locked, refused and removed packages, two policies | no error of the solver, consequences never undone, the stack, watches and learned rules sound through backjumps, reported problems real, no rule missed, answers right in what the packages say |
| `pool` | partial updates in the three modes with and without a lock, updates with aliases and minimum stabilities, advisories and malware lists under layers of configuration | the loading ends and loads what is required, once, and unlocks only what it may; filters decide as the configuration says and install agrees; the optimizer loses no solution |
| `pool_aliases` | root aliases of versions that an advisory or a list is about | (violation) an alias stays without its package |
| `caches` | store: three processes, two entries, three archives, one damaged, any crash. Entry: four writers, two of which share a process id. Dist: three processes and one temporary name, two with a checksum, one offline. Metadata: an update, an audit and an offline run over one cache and a changing server | entries appear whole and once (`Store` implements `StorePromise`); a reader never finds a part of a file; what is returned with a checksum is the archive of the lock; what a run uses was on the server, or its user was warned |
| `dist_cache_shared` | the dist part | (violation) without a checksum, a part of an archive is returned |
| `install_reruns` | three runs in a project, two edits of the lock, packages added, updated, removed, interruptions anywhere | a run that is not killed ends, one that succeeds leaves the lock, complete; the store is untouched |
| `install_projects` | three runs in two projects over one store, deletions by hand, impatient users | projects do not see each other |
| `install_deleted` | one project, a directory deleted by hand | (violation) a partial directory passes for an unchanged package |
| `install_together` | two runs at once in one project | (violation) the store's file is truncated |
| `commands` | Commands: two of any kind and options over two packages, any initial files. Session: two updates, full or partial, of a world with branches, aliases and development packages, edited in between. Operations: every graph of requirements between three packages, with providers, plugins and aliases, and several sets of packages present | what a failure restores, that the lock follows, that a dry run is dry; the lock is what was resolved and its sections are right; operations can be applied in their order, what is required and what plugins need come first, and the walk ends |
| `data` | one question a state: two constraints; one or two alternatives as written; `vendor/bin` under installs and a user who wipes it; two lists of repositories; graphs of requirements of four packages; two dumps, killed anywhere, of packages with links into what they exclude; a `composer.json` and an edit; names with digits | see *properties of answers* |
| `autoload_providers` | three packages, one of which provides a name | (violation) a provider that is required is not autoloaded |

`pool`, `solver` and `data` are large in inputs and shallow in steps; `caches`,
`install_...` and `commands` are interleavings.

### Properties that are conjunctions

The parts of a property that is about one thing are named definitions of the
modules, and can be read, and proved, one by one.

* `WellFormed` (solver): `TypeOK`, `NoSolverBug`, and that `analyze` collects no
  literal twice (`CollectedOnce`). `StacksAgree`: `DecisionsAgree`, `LevelsStacked`,
  `BranchesStacked`. `ReasonsHold`: the reason of a decision forces it
  (`ReasonsForce`), learned rules follow (`LearnedFollow`). `NothingMissed`: between
  two choices no rule of the generator is left a unit (`NoUnitLeft`), and the answer
  satisfies them all (`AnswerHolds`). A learned rule may be left a unit: one of its
  watches is its first literal, which can be false at a low level and stay so when a
  revert undoes the others, and the other watch then moves beside it (as in
  Composer). It never loses its last literal unseen.
* `BuilderInStep` (pool): no package twice (`NothingTwice`), a locked one alone
  (`LockedStaysAlone`), what was loaded of each repository recorded
  (`PerRepoInStep`), aliases with their packages (`AliasesComeTogether`), what stays
  locked told (`KeptWarned`), no unset place left in what is built (`BuiltPool`). `FiltersDecide`: `LockJudgedAsInstalled`,
  `AdvisoriesDecide`.
* `OperationsInOrder` (commands): the operations of `Transaction`, one after the other,
  turn what is present into the result and each finds what it expects
  (`OperationsCarryOver`); what a package requires is put in place before it
  (`DependenciesFirst`), but for cycles, and but for plugins whose requirement is of
  the platform (a polyfill that provides an extension: `move_plugins_to_front` leaves
  platform names out, and moves the plugin past the polyfill); nothing comes before a
  plugin but what plugins need (`PluginsFirst`). `LockAsResolved`: the properties of
  `Session`.
* `DistAnswers` (caches): that of `DistCache`. `MetadataServed`: `ConfirmedOrWarned`
  and `ServedByTheCache`, of `MetadataFetch`.

The run `data` checks functions of the code against what they are for, over all the
small inputs of its world.

* `IntervalsStand`: two constraints, merged, mean either of them; a compact form
  admits the same; a subset needs no more loading; constraints with a common version
  match. `RangesAsWritten`: ranges admit what their form says.
* `RepositoriesInOrder`: repositories are asked in the order of the files.
* `EditsAreExact`: `require` and `remove` change what they are asked to and nothing
  else, by either way, and one undoes the other; `sort-packages` sorts by an order.
* `RequiredIsAutoloaded`: the files of a package come after those it requires, and
  what is needed is kept.
* `DumpsAgree`: the class map does not depend on scans nor cache (`ClassesAsScanned`),
  has no file where a rule excludes its path, whichever exclusions a directory does
  without (`NothingExcluded`), and agrees with the rules (`OptimizeFindsTheSame`), and
  the generated files agree with each other (`VendorAgrees`).
* `BinariesKept`: after an install every binary of an installed package has a proxy, to
  a package that has it (to that one, when no other declares the name), and the names in
  vendor/bin are those of installed packages (`NamesExpected`).

### Bounds, and why they are enough

The solver is deterministic, so a run explores one behaviour per input; what
varies is the input. The families were widened until every action fired, learned
rules had three literals and more, backjumps crossed several levels, `analyze`
walked on to decisions of level 1, branches were popped, kept and retried, and
assertions contradicted each other. Ten packages bound the subsets the reference
semantics enumerates.

In `Transaction` three packages make every shape a cycle has with what leads to
it and leaves it; a plugin with two levels of requirements below it, another
plugin among them, is what tells the lists of `move_plugins_to_front` apart. A package
that provides `php` shows what becomes of requirements of the platform.

In the shared directories a collision takes two processes and its witness a
third (who reads while one writes what the other has renamed). Two files in an
archive, or two chunks in a file, are what tells a part from the whole. The
attempts of a download are two instead of three: what the model distinguishes is
the last attempt and the others.

In `Install` a run has to be interrupted, followed by another one, and that one
by a change of the lock: three runs. Two files tell an interrupted copy from a
complete one. A run of the model runs once, so that their number bounds the
interruptions. `MaxEdits` bounds the user.

In the pool, three versions are what tells a bound from an exact version and leave
something between the locked and the newest; batches of two names instead of fifty
make every input cross a batch. Constraints of the optimizer's inputs are
contiguous and its policies plain, see the limits below.

In `Session` two updates are a write and a read of the lock; one branch with an
alias and one root alias make the four combinations. `MetadataFetch` bounds what
happens on the server (`Changes`); its attempts are one, for nothing is kept between
them.

In `data`, two versions and two branches, with a version on each side of them and
between, meet every comparison of two bounds; constraints of at most two pairs are
what the builder and the optimizer combine. Four packages have every cycle with a
way in and a way out. Sections of three links, of which two may have one name, are
what tells the passes of `RemoveChild` apart. Names of four characters have two runs
of digits or one of three.

In `Commands` the second command (`MaxCommands`) meets whatever the first has
left; two packages let a requirement be edited next to one that is not.

### Properties that refine or converge

`ImplementsResolution` is the strongest property of the solver: under the
refinement mapping of `MCSolver` every behaviour is one of `Resolution`, whose
`Solve` asks for a solution in the sense of `PoolSemantics`, whose `Refuse` asks
that there be none, and which promises that an answer comes. `KeepsPromise` is
the same for the store, without a promise of progress. `RunConverges` says of
every run that succeeds what `installer.rs` says in its first lines.

### Fairness

* `Solver`, `PoolPipeline`, and the walk of `Transaction` in `MCCommands`: weak
  fairness of their step: each is one sequential computation, and that it ends
  (`ImplementsResolution`, `BuilderEnds`, `Terminates`) is checked under nothing
  more.
* `Install`: weak fairness of the steps of each run, while it is active: the
  operating system runs a process until it ends or is killed. Nothing makes a
  run begin, a user act, or a process die or live. Only `RunsEnd` uses it.
* The other modules have safety properties only, and no fairness. Deadlock is
  not checked where the runs, the processes, the edits or the commands are
  bounded: the model stops when they are used up.

### What the violations show

Each checks a sentence of a comment or a document; `findings` in `PROJECT.json`
quotes it.

* `dist_cache_shared`: the temporary name of the dist cache is the same for every
  process. One renames what another has truncated and is still writing. With a
  checksum in the lock (`DistAnswers`, run `caches`) the damage is found and repaired; without
  one a part of an archive is handed to the store.
* `install_deleted`: delete `vendor/a` and interrupt the install that lays it out
  again; `installed.json` still names `a` and the directory exists, so it is
  unchanged for every later run. Without the deletion the record is older than
  the directory and the next run copies it again (`install_reruns`).
* `install_together`: `reflink` opens its destination with truncation to find out
  whether the file system clones. If another run of the project has just put a
  hard link there, the store's file is emptied.

* `pool_aliases`: the filters judge an alias by its own version. With `b: 1 as 3`
  and an advisory for version 1, version 1 goes and the alias stays, and the rule
  generator, which expects the package of every alias, panics.
* `autoload_providers`: the package filter of the original keeps a package by all
  its names, the port by its name and those it replaces.

### Limits that the inputs respect

What follows was met while modelling and is left out of the inputs or of the
properties: mostly the code does there what Composer does, or a comment says so.

* Optimizer: a constraint that leaves out one version (`!=`) stays one piece, and
  preferences that mix stabilities or name versions may keep another version than
  the one a solution needs: the inputs have contiguous constraints and plain
  policies. `RemovedAsImpossible` may remove versions that are in a solution, when
  another solution is left.
* Filters: the comment of `security_advisory_filter` removes abandoned packages "if
  `abandoned.block`"; the code returns before that when `advisories.block` is off, as
  the model does. `ignore-severity` has no effect on advisories the metadata has in
  part.
* Proxies: of two packages that declare one name, the last one placed has the proxy.
  When that one is removed, the proxy stays and leads nowhere, although the other has
  the binary: there is a file, so that none is missing (installer.rs:339), and the name
  is declared, so that none is orphaned (installer.rs:431). A comment calls "the proxy of
  a removed package (purged)" (installer.rs:430), and Composer removes it with the package
  and then writes what is missing. `BinariesKept` therefore does not say that a shared
  name leads to a package that is still there; TLC refutes that in two installs.
* Constraints: `<2 || >2` is compacted to `!=2`, which admits branches; two
  contradictory pairs may fuse into an empty one. The inputs are what the builder
  and the optimizer make.
* Repositories: entries that disable another by its index are left out when both
  files have indexes, for a renumbered entry may be disabled by the other file's
  `false`.
* Autoloader: PSR-4 rules drop the bytes of the namespace without comparing them;
  directories with rules of both kinds below each other, `target-dir`,
  `include-path`, wildcards and `..` in exclusions, and classes with underscores are
  left out. Paths are related by segments where `related` compares beginnings of
  strings; they differ only where the name of a directory is the beginning of
  another's beside it, and then the code keeps an exclusion that matches there at
  most what a link leads to. Links lead to directories without links, and not to files. That an entry of
  the store never changes, and that a package has the files of its entry, are
  assumptions of the class map cache.
* composer.json: one spelling of a name in a section, lower case when the file is
  rewritten (`Tidy`); otherwise only that nothing else changes is claimed. No value is
  null.

## Proofs

Each `...Proofs` module has the inductive invariant, one lemma per action or
group of actions that can disturb it, and the temporal theorems at its end. TLC
checked each invariant on the small worlds before it was proved. What follows
holds for every value of the constants that meets the named assumption of the
module (`InstancesAssumption`, `StoreAssumption`, ...).

**Solver, its stacks** (`SolverProofs`). `StacksAlwaysAgree` is three theorems.
`MapAndStackAgree`: the decision map and stack tell the same decisions;
`StackedByLevel`, `BranchesByLevel`: levels never decrease along the
stack nor along the branches, which is what `revert` relies on when it stops at
the first entry low enough; `LevelOneIsKept`: no learning, backjump or retry
undoes a decision of level 1. The inductive invariant `StackInv` is the
conjunction of the three with the positivity of levels. They cannot be proved
apart: a decision at level 0 would read as no decision, so agreement needs levels
to be positive; a revert keeps the levels stacked because it removes a suffix,
which needs agreement; and a retried branch opens the level above its own, which
is positive because branches are unwound by level.

**Solver, what it concludes** (`SolverProofs`), for every pool, request and
policy, in pools of any size:

* `ReasonsAlwaysHold`: a decision that is not a choice is forced by its reason, and
  a rule just learned follows from the package rules and the requests that
  `analyze_unsolvable_rule` finds behind it;
* `ProblemsAlwaysReal`: no set of packages satisfies the package rules and those
  that a reported problem names. What the solver refuses cannot be resolved;
* `NoErrorMet`: the `SolverBug`s and the panics of solver.rs are out of reach. The
  walk of `analyze` never runs off the stack, it learns a literal, it goes back to a
  lower level, and a retry finds a decision left;
* `EachLiteralOnce`, and `AlwaysWellFormed`, with the types.

The inductive invariant, `SolverInv`, goes down the search, and each part is there
because the next one needs it.

| part | says | needed because |
|---|---|---|
| `StackInv` | as above | positions and levels of decisions are read everywhere |
| `RulesInv` | rules have literals, two unless they assert; multi-conflicts only exclude and are never learned | a watch needs another literal; the reason of a multi-conflict is resolved apart |
| `WatchInv` | nodes and chains point to rules that hold the literal watched | the cursor of `propagate_literal` stays inside, and what it finds is about the literal propagated |
| `RunInv`, `QueueInv` | the loops stay within what they counted; what is not propagated is of the current level | a conflict is at the current level, so that `analyze` finds a literal of that level |
| `ReasonInv` | the other literals of a reason were false *before* its decision; of a multi-conflict, all were or become so with it | walking the stack backwards, the literals of a reason are met later |
| `ConflictInv` | the rule in conflict is false, one literal at the current level | the start of `analyze` |
| `AnTyped`, `AnInv`, `ResolveInv` | `num` and `l1num` are the numbers of literals seen and not passed, of the level and of level 1; all were decided below `decision_id` | the walk ends on a literal, not off the stack |
| `PoolInv`, `SoundInv`, `LearnedInv` | what is collected, with the rule at hand, follows from the rules noted in `learned_pool`; these are older than the rule they give | soundness, and the recursion of `analyze_unsolvable_rule` ends |
| `AssertInv` | in the first pass every decision is an enabled assertion's, and one assertion stays enabled | a conflict names two rules that contradict each other; level 1 is never empty |
| `ProblemsInv` | no set of packages satisfies what a problem names | the theorem |

`ReasonInv` is where the shape of the code matters most. A `MultiConflict` rule
forces many decisions during one visit, and until the visit is over some of its
literals are undecided (`Busy`): the invariant has to allow it, and `analyze` is right
because a visit is only cut short by a conflict. `SoundInv` is resolution: a clause
with a literal and a clause with its negation give both without it. A multi-conflict
is resolved on one pair of its literals, found by `analyze` as the first false one,
which has to be older than the decision: that is the last part of `ReasonInv`.

**Solver, what it answers** (`AnswerProofs`), on top of that:

* `NothingIsMissed`: between two choices no enabled rule of the generator is a unit, a
  learned one has a literal left, and what is installed in the end satisfies every
  package rule and every request;
* `SolverResolves`: every step is a step of `Resolution` or none, where a solution is a
  set of packages that satisfies all the rules the generator stored, and no problem was
  there before. An answer is a solution, and a refusal means that there is none. (In
  `MCSolver` the same specification is that of packages, by `PoolSemantics`; TLC checks
  that one, with the termination.)

The invariant, `AnswerInv`, says where the search has been.

| part | says | needed because |
|---|---|---|
| `SeenInv` | a watch that is false by a decision already propagated has the other watch true, *decided at its level or below* (`TrueBy`) | a revert undoes the second only with the first: nothing has to be visited again after a backjump |
| `ChainInv` | a node is once in the chains of its two watches and nowhere else; a learned rule watched twice on one literal is twice there | the visit of a chain meets all that watch its literal, while the chain is changed under the cursor |
| `ProgressInv` | the part of the chain before the cursor has nothing left to do | what is seen at the end of a chain |
| `PendingInv` | after a conflict, what is not propagated is of the level that is left | the decision in conflict was visited in part only, and is undone |
| `EnrolInv` | registered rules are listed, and watched unless they assert; without a problem none is disabled | no rule is out of the graph |
| `GivenInv` | the rules of the generator stay as they are | the answer is about those |
| `AssertedInv` | an enabled assertion is true at level 1 | assertions are not watched: those learned later included |
| `ReachedInv` | `analyze` goes back to the level of one of the literals it keeps | its learned rule is a unit there, its watches are right as they are placed |
| `SweepInv` | of the rules the pass went over, counted round, none asks for a choice | `run_sat` ends the pass after as many rules without a choice as there are, and not at the end of the list |
| `AnswerHolds` | as above | the theorem |

A `MultiConflict` is in the chains of all its literals and its part of `SeenInv` is for
every pair. A learned rule has a weaker part, since its first watch may be false before
the rule is there: only when both watches are false is one of its literals true, and
this is as much as `NoUnitLeft` says of it. At the end no decision is left to
propagate and no rule is open, so that a rule of the generator with a false watch has
the other one true, and one without has a literal that is true already, or undecided
and negative, or a choice that the pass would have found. That a refusal is right
is `ProblemsAlwaysReal`, with the learned rules a problem may name following from those
of the generator, the oldest first (`GivenSuffice`).

What is assumed, and why the code gives it. `InstancesAssumption`: the rules are
those `RuleSetGenerator` registers (`Generated`): no empty rule, package and request
rules, requests that only ask, multi-conflicts of more than two that only exclude;
and the root package is an assertion, since the session always fixes it in the request
(session.rs:520 and 633) and `add_rules_for_request` makes a rule of what is fixed
(rules_gen.rs:178). What is registered is in `rule_by_id`, and a rule that is stored
but not registered is the duplicate of one that is (`RuleSet::add`): an answer that
satisfies the registered ones satisfies all. Without the root package level 1 could be
empty, and `analyze_unsolvable` and the retries read its decisions. TLC evaluates the
assumption for all inputs of the run. `PolicySelects`, for the types only:
`select_preferred_packages` returns some of its candidates, at least one. It is a
hypothesis of that theorem and not an assumption on the constant, as the
model of the policy is defined on the candidates of each input only, and `TypeOK`
checks it there.

Proofs that need induction over a sequence or a recursive function
(`RequestsBehind`, `MapKeeping`, the chains of the first watch graph) take a least
counterexample (`LeastNumber`, from `WFMin`), which needs no theorem with an operator
as parameter. For the same reason `Selected` (`Selection`) is a recursive function.

**Store** (`CachesProofs`). `EntriesStayWhole`, `NothingReplacesAnEntry`, `StoreKeepsPromise`, for
any number of processes, entries and archives. The invariant says of each stage
what its temporary directory holds: a part of the archive while it is extracted,
all of it before the rename. The refinement is by cases on the action: only
`Rename` shelves an entry, everything else is a step of one call or a stutter.

`CrashesAloneLeak` follows from the same invariant: a temporary directory that no
process is at work in was left by one that died.

**TempRename** (in `DistCacheProofs`). `EntryStaysWhole` and `EntryIsNotRewritten`, for any number of
writers, names and chunks, under `Exclusive`: process ids (metadata cache) and
names per writer (class map cache) make it so. The invariant ties a writer to its
inode (nobody else holds it, and it is not the entry's as long as it is open);
`dist_cache_shared` is what the dist cache, which has one name, does without it.

**DistCache.** `DistAnswersAlways`: with a checksum in the lock a run has the archive
it names or an error, and offline it neither downloads nor writes, for any number of
processes, under `DistAssumption`: those processes are among the writers, there is at
least one attempt, and an archive is not the absence of one. Nothing is asked of the
temporary names: the checksum makes up for their being shared. The invariant adds
that what is about to be saved has been checked (`SavedIsChecked`).

**Metadata cache** (`CachesProofs`). `MetadataIsServed` and `OneVersionAlways`, for
any runs, plans, files and changes on the server, under `FetchAssumption` (the root
is no package's file, a run has a phase). The invariant, `FetchInv`, follows one request
from the reading of the cache to the memo (`RequestInOrder`, `AnswersFounded`,
`ValuesFounded`). A 304 confirms the version that was read *before* the request, so
what was read is kept with the request: the entry on disk may be an older one by then.
Two facts are about the other runs, and they are all it takes: what a run has seen goes
up to now (`SeenUpToNow`), so that a reply is about a version seen even when the next
change comes before it is settled; and no entry ever loses its stamp (`StampsKept`),
since the server sends the Last-Modified of a file always or never (`StampsSent`). A run
that began with stamped entries therefore still has one for each request that fails. A
server that stopped sending it would leave entries that an offline run cannot use: this
is a hypothesis of the model, in `Stamped`.

**Install.** `StoreStaysIntact` and `ProjectsStayApart`, for any number of runs,
projects, packages and files, under `Alone` alone: interruptions, edits and
deletions are allowed everywhere. The invariant says that in front of the next
file to place there is nothing in the way of a run that is laying out a package
(`NothingInTheWay`), so that no destination is ever somebody's hard link;
`install_together` is what happens without `Alone`.

`RunsConverge`, under `Calm`: `Alone`, `Patient` and no
deletion by hand. The record in installed.json says what a run may leave alone, so
the invariant is about when it is true: of every package between two runs that
nothing interrupted, and, while a run is under way or after it died, of the packages
that the lock does not change (`RecordIsTrue`). A run therefore plans all that the
record tells apart from the lock (`AsPlanned`), and has laid out the files that come
before the next one (`LaidOut`), in the version of the lock since the store is
intact. `Patient` is needed where the user changes the lock: a lock changed back after
a run that died would find the record unchanged and the directory half replaced.
(`MCInstall_Reruns.cfg` with `Patient = FALSE` and `RunConverges` alone shows it: the
run that follows succeeds and leaves the half there, as in the finding of
`install_deleted`, and for the same reason.)
`install_deleted` is what happens when a directory is deleted.

**Proxies** (in `InstallProofs`). `BinariesAreKept`, for any packages, versions and
names, after any installs and removals by hand. The invariant adds that every proxy
leads to a package that has such a binary (`LeadOn`); the loop over the packages of the
lock keeps this and loses no proxy (`AllBinariesThere`, by a least counterexample along
the lock), and each package ends with its own there. `BinariesAssumption` asks that the
lock's order have every package.

**Transaction** (in `CommandsProofs`). `OperationsAlwaysInOrder`: for any packages
present and any result, `OperationsInOrder`. The invariant, `WalkStateInv`, says in each
loop of the code what the next one relies on.

| part | says | needed because |
|---|---|---|
| `MapInv` | `result_map` has each package of the result once, an alias before what it is for | the roots are stacked in this order, and the package an alias is for has to be popped before it |
| `TypesInv` | what the variables hold, what is still empty | |
| `RootsInv` | a set of packages that has the roots, and with a package what its visit pushes, is the whole result | the walk reaches every package: in a cycle, a package that has been struck strikes no more, so that one is left to lead to the others |
| `WalkInv` | what a package that is visited and not processed has pushed is processed or above it, and what is above it is there because of what it pushed (`Opened`); an alias is below its package | the second pop comes after the requirements; a requirement that is processed later is on a cycle |
| `MapsInv` | the two maps of removals hold, once each, the present packages that share no key with a processed one | what is left at the end is what the result does not have |
| `WalkedOps`, `AllOps` | the operations are the changes of the processed packages, then those of the result and the removals; each is once there, after those it depends on | the order before the moves |
| `MovesInv` | the four lists have the operations taken, in their order (`ListsInv`); of what the backward pass met, plugins are taken, and before what is taken what provides its requirements (`PassedInv`); nothing else is taken (`TakenInv`) | the moves keep the order of requirements and put nothing but needs before a plugin |
| `DoneInv` | the order at the end | the theorem |

That the walk comes back to a package, that a plugin needs one, and that a set is
closed are said with sets of packages (`OnCycle`, `NeededByPlugins`,
`ClosedUnderWalk`) and not with paths, so that no induction over a path is needed.
`RootsInv` holds after each step of the loop over the roots: a package that strikes
others is a root and stays one, and its visit leads to those it strikes (a root that
strikes later may strike it, and then leads to it). The end (`OperationsCarryOver`) is by induction on the number
of operations done: what is there is what was present, without the packages that
operations before took away and with those they put in place.

`TransactionAssumption` is about the instances. The two lists have one package of each
name, and one alias of each name and version, as a lock or installed.json has and as
the rules of the solver make the result; an alias in the result comes with its package
(a rule of `RuleSetGenerator`), of the same name, requirements and provided names
(`Package::alias` copies them). TLC evaluates it for the instances of the run.

**Pool filters** (`PoolFiltersProofs`), from any pool of any packages, any layers of
configuration, sources, advisories and entries:

* `RulesAlwaysAccumulate`: an ignore rule of any layer is in force at the end, unless a
  later layer turns the list or all lists off or has a rule under the same key;
* `InstallAlwaysAcceptsUpdate`: of the pool that an update filtered, the check of an
  install refuses nothing, unless the list is for installs only;
* `FiltersAlwaysDecide`: a version with an advisory that no rule ignores goes, one
  without an advisory, and not abandoned, stays, and what is locked goes for a list only when an install would refuse
  it. The filter reads what the metadata has of an advisory, and asks for the rest only
  when a rule needs it (`needs_complete_advisory_load`); the theorem is about the
  complete advisories.

The specification is `FilterSpec`, not that of the whole pipeline, since a
recursive operator of `PoolBuilder` keeps the prover away from every module that uses it.
What is lost is only where the pools come from: `FilterInit` asks that a pool be one of
packages of the arena (`BuiltPool`), TLC checks that the builder ends with such a pool,
and the filters are the same actions in both. The inductive invariant (`FilterTyped`) is
this and the phases; the rest is in the lemmas about the operators.
For `RulesAlwaysAccumulate` it is what a merge keeps (`MergeRulesKeeps`,
`MergeLayerKeeps`), and, by a least counterexample along the layers, what they all
keep (`MergedKeeps`): after a layer, a rule of an earlier one is in force or has been
overridden. That the rules of one list have different keys has to be
carried along, since a rule with the key of two would replace one and leave the other.
For `InstallAlwaysAcceptsUpdate` each hit of the install was one of the update: a
smaller pool asks for no more entries (`FewerEntries`), and the operation only matters
through the scope of the list.
For `FiltersAlwaysDecide` partial and complete advisories agree as soon as
no rule reads what is missing, but for the severity.

`InputsAssumption` is on the configuration and on the sources, and TLC evaluates it for
the inputs of the run: a key is once in a JSON object; `false` and `true` have no
rules and no lists; only the own id of an advisory starts with `PKSA-`, as those that
packagist.org gives do, by which `needs_complete_advisory_load` tells an
id the metadata has from one it may lack.

**Commands.** `LockFollowsJson`, `RequireKeepsMatched`, `FailureRestores` and
`DryRunIsDry` for any number of packages and commands. The invariant describes the
files in the middle of a command: what has been edited, by which command, and
that `before` still is what a restoration needs.

Only model-checked: termination and liveness (`ImplementsResolution`, `RunsEnd`,
`Terminates`), which are out of the prover's reach, as `ENABLED` is; the builder of the
pool and its optimizer, the session and the answers of `data` but for the proxies (most
of those modules have recursive operators, with which the prover loses its arithmetic);
and that a solution of the generated rules is one of what the packages say, which is
about `RulesGen` and part of `ImplementsResolution`. The theorems of types
(`StoreTypes`, `InstallTypes`, `CommandTypes`) are proved and no run repeats them.

## What is not modelled

Parsing, formatting and the wording of messages, problem reports among them; the
HTTP client; the choice of the constraint that `require` writes
(`version_selector.rs`, any choice in `Commands`); the detection of the platform; the
templates of the autoloader. `PROJECT.json` lists them under `components` with the
reason. The files that the commands write in place (`fs::write`) are written in one
step. Of the lock: references, stability flags, the sections that hold settings and
links to `self.version`.

## Plan

1. (done) Solver, generator, policy, their abstract specification, first proofs.
2. (done) Shared directories, with processes and crashes; the store implements
   its abstract specification.
3. (done) Installer, proxies, commands, with interruptions and failures; proofs.
4. (done) `Transaction`; `Session`: the lock, its sections, its aliases.
5. (done) `PoolBuilder`, `PoolFilters`, `PoolOptimizer` and their composition.
6. (done) `Constraints`, `ConstraintSyntax`; `MetadataFetch`; `Autoload`;
   `RepositoryConfig`; `JsonEdit`, `NaturalOrder`.
7. Left: path packages and metapackages in `Install`; a write in place that dies
   half-way in `Commands`; `version_selector.rs`; the sources of `PoolPipeline` taken
   from `MetadataFetch`.
8. (done) What the solver concludes: reasons, learned rules, problems, no errors;
   what it answers, in both cases.
9. (done) Proofs about the order of the operations, the filters of the pool and the
   proxies. Left: the closure of the pool (`PoolIsClosed`) and what the optimizer keeps,
   once the recursive operators of the builder and of `RulesGen` are functions.
