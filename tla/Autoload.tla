------------------------------- MODULE Autoload -------------------------------
(***************************************************************************)
(* The autoloader (autoload/src: generator.rs, sorter.rs, classmap.rs): a  *)
(* dump sorts the installed packages, merges their rules, scans            *)
(* directories for classes, in parallel and through a cache that the       *)
(* store's entries share, and writes the files of vendor/composer one by   *)
(* one.  It may be killed anywhere; packages and options change between    *)
(* two dumps.                                                              *)
(*                                                                         *)
(* A name, a class or a path is a sequence of segments: a PSR-4 rule       *)
(* <<ns, dir>> says that ns \o rest is in dir \o rest.  A package is       *)
(*   [name, version, requires, replaces, provides   (names of packages)    *)
(*    psr4, psr0   sequences of rules, and the root's psr4_dev             *)
(*    classmap, files, exclude             sequences of paths              *)
(*    tree         sequence of [path, classes], in the order of the walk   *)
(*    links        set of symbolic links [path, target] to directories;    *)
(*                 the tree has the files of the target a second time,     *)
(*                 below the path                                          *)
(*    stored       installed from an entry of the store                    *)
(*    php, exts    what it requires of the platform; gives: the extensions *)
(*                 it provides or replaces]                                *)
(* Paths are relative to the package.  The targets of links hold no links, *)
(* and a directory that is there has files.  The code compares beginnings  *)
(* of strings where segments are compared here: no name of a directory is  *)
(* the beginning of another's beside it.  Left out: target-dir,            *)
(* include-path, wildcards and .. in exclusions, names with an underscore  *)
(* (PSR-0), the text of the files, errors other than that of a directory   *)
(* of the class map that is not there.                                     *)
(***************************************************************************)
EXTENDS Integers, SequencesExt, TLC

CONSTANTS Absent,
          Before(_, _)   \* the order of names and of segments

\* strcmp
NamespaceBefore(n, m) ==
  \/ IsStrictPrefix(n, m)
  \/ \E k \in DOMAIN n \cap DOMAIN m :
       SubSeq(n, 1, k - 1) = SubSeq(m, 1, k - 1) /\ Before(n[k], m[k])

-----------------------------------------------------------------------------
(* sort_packages                                                           *)

NamesOfUsers(packages, name) ==
  LET users == SelectSeq(packages, LAMBDA p : name \in p.requires)
  IN [k \in DOMAIN users |-> users[k].name]

\* (mutant: the users of users do not count)
DirectUsers(packages, ctx, name) ==
  LET weight == -Len(NamesOfUsers(packages, name))
  IN [ctx EXCEPT !.weight = weight, !.computed = name :> weight @@ @]

\* The weight of a package, less than that of each of its users; one that is
\* being computed, on a cycle, counts as 0.
RECURSIVE Importance(_, _, _)
ComputeImportance(packages, ctx, name) ==
  LET AddUser(sum, user) ==
        LET i == Importance(packages, sum.ctx, user)
        IN [ctx |-> i, weight |-> sum.weight - (1 - i.weight)]
      sum == FoldLeft(AddUser,
                      [ctx |-> [ctx EXCEPT !.computing = @ \cup {name}], weight |-> 0],
                      NamesOfUsers(packages, name))
  IN [weight |-> sum.weight, computing |-> sum.ctx.computing \ {name},
      computed |-> name :> sum.weight @@ sum.ctx.computed]

Importance(packages, ctx, name) ==
  IF name \in DOMAIN ctx.computed
  THEN [ctx EXCEPT !.weight = ctx.computed[name]]
  ELSE IF name \in ctx.computing
  THEN [ctx EXCEPT !.weight = 0]
  ELSE ComputeImportance(packages, ctx, name)

SortPackages(packages) ==
  LET all == FoldLeft(LAMBDA ctx, p : Importance(packages, ctx, p.name),
                      [weight |-> 0, computing |-> {}, computed |-> <<>>], packages)
      weight(p) == all.computed[p.name]
  IN SortSeq(packages, LAMBDA p, q : \/ weight(p) < weight(q)
                                     \/ weight(p) = weight(q) /\ Before(p.name, q.name))

-----------------------------------------------------------------------------
(* parse_autoloads                                                         *)

\* The package that a requirement leads to: the last that replaces the name.
ReplacedBy(packages, name) ==
  LET replacers == SelectSeq(packages, LAMBDA p : name \in p.replaces)
  IN IF replacers = <<>> THEN name ELSE Last(replacers).name

\* The names that the root reaches through requirements.
RECURSIVE Include(_, _)
Include(packages, names) ==
  LET Targets(p) == {ReplacedBy(packages, t) : t \in p.requires}
      more == names \cup UNION {Targets(p) : p \in {q \in Range(packages) : q.name \in names}}
  IN IF more = names THEN names ELSE Include(packages, more)

FilterPackageMap(root, packages) ==
  LET include == Include(packages, {ReplacedBy(packages, t) : t \in root.requires})
  IN SelectSeq(packages, LAMBDA p : p.name \in include \/ p.replaces \cap include # {})

InstallPath(p) == IF p.name = "root" THEN <<>> ELSE <<"vendor", p.name>>

At(p, path) == InstallPath(p) \o path

\* The rules of autoload-dev come after the root's own.
EffectiveAutoload(root, dev_mode) ==
  IF dev_mode THEN [root EXCEPT !.psr4 = @ \o root.psr4_dev] ELSE root

\* parse_type_map: the directories of each namespace, and krsort.
TypeMap(packages, type) ==
  LET all == FlattenSeq([k \in DOMAIN packages |->
               LET p == packages[k] IN
                 [j \in DOMAIN p[type] |-> <<p[type][j][1], At(p, p[type][j][2])>>]])
      spaces == SetToSortSeq({all[k][1] : k \in DOMAIN all}, LAMBDA n, m : NamespaceBefore(m, n))
      of(ns) == SelectSeq(all, LAMBDA r : r[1] = ns)
  IN [k \in DOMAIN spaces |->
        [ns |-> spaces[k], dirs |-> [j \in DOMAIN of(spaces[k]) |-> of(spaces[k])[j][2]]]]

\* parse_type_list
TypeList(packages, type) ==
  FlattenSeq([k \in DOMAIN packages |->
    LET p == packages[k] IN [j \in DOMAIN p[type] |-> At(p, p[type][j])]])

\* A file has an id, made of its package and path: once in a package.
Once(paths) == FoldLeft(LAMBDA out, f : IF Contains(out, f) THEN out ELSE Append(out, f),
                        <<>>, paths)

\* The installed packages, and the root last; the rules that look for a class
\* begin with the root's.
ParseAutoloads(root, packages, dev_mode) ==
  LET filtered == IF dev_mode THEN packages ELSE FilterPackageMap(root, packages)
      sorted == Append(SortPackages(filtered), EffectiveAutoload(root, dev_mode))
      reversed == Reverse(sorted)
  IN [sorted   |-> sorted,
      psr4     |-> TypeMap(reversed, "psr4"),
      psr0     |-> TypeMap(reversed, "psr0"),
      classmap |-> TypeList(reversed, "classmap"),
      files    |-> Once(TypeList(sorted, "files")),
      exclude  |-> TypeList(sorted, "exclude")]

-----------------------------------------------------------------------------
(* The class map.  The files of a project: those of the root, then those   *)
(* of its packages, with the package each belongs to.                      *)

Links(root, packages) ==
  UNION {{[path |-> At(p, l.path), target |-> At(p, l.target)] : l \in p.links} :
           p \in {root} \cup Range(packages)}

\* canonicalize
RealPath(links, path) ==
  LET crossed == {l \in links : IsPrefix(l.path, path)}
      link == CHOOSE l \in crossed : TRUE
  IN IF crossed = {} THEN path
     ELSE link.target \o SubSeq(path, Len(link.path) + 1, Len(path))

ProjectFiles(root, packages) ==
  LET links == Links(root, packages)
      FilesOf(p) == [k \in DOMAIN p.tree |->
                       [path |-> At(p, p.tree[k].path),
                        real |-> RealPath(links, At(p, p.tree[k].path)),
                        classes |-> p.tree[k].classes]]
  IN FlattenSeq([k \in DOMAIN packages |-> FilesOf(packages[k])]) \o FilesOf(root)

\* collect_files, and what find_classes finds in each.
Walk(files, dir) == SelectSeq(files, LAMBDA f : IsPrefix(dir, f.path))

IsDirectory(files, dir) == \E k \in DOMAIN files : IsStrictPrefix(dir, files[k].path)

\* build_exclusion_regex: the exclusions that lie in the directory or that it
\* lies in, as it is named or as it really is.
RelatedExclusions(exclude, links, dir) ==
  SelectSeq(exclude, LAMBDA x : \E d \in {dir, RealPath(links, dir)} :
                                  IsPrefix(x, d) \/ IsPrefix(d, x))

Job(dir, type, ns, excl) == [dir |-> dir, type |-> type, ns |-> ns, excl |-> excl]

\* psr-4 and psr-0 of a namespace, then those of the one before it.
Descending(groups) ==
  SortSeq(groups, LAMBDA g, h : \/ NamespaceBefore(h.ns, g.ns)
                                \/ g.ns = h.ns /\ g.type = "psr4" /\ h.type = "psr0")

\* The directories to scan: the class map's own, then with -o those of the
\* rules that are there, without vendor.
Jobs(autoloads, files, links, optimize) ==
  LET Related(exclude, dir) == RelatedExclusions(exclude, links, dir)
      own == [k \in DOMAIN autoloads.classmap |->
                LET dir == autoloads.classmap[k]
                IN Job(dir, "classmap", <<>>, Related(autoloads.exclude, dir))]
      Excluded(dir) ==
        autoloads.exclude \o IF IsStrictPrefix(dir, <<"vendor">>) THEN <<<<"vendor">>>> ELSE <<>>
      Group(rules, type) == [k \in DOMAIN rules |->
                               [ns |-> rules[k].ns, dirs |-> rules[k].dirs, type |-> type]]
      groups == Descending(Group(autoloads.psr4, "psr4") \o Group(autoloads.psr0, "psr0"))
      scans == FlattenSeq([k \in DOMAIN groups |->
                 [j \in DOMAIN groups[k].dirs |->
                    LET dir == groups[k].dirs[j]
                    IN Job(dir, groups[k].type, groups[k].ns, Related(Excluded(dir), dir))]])
  IN own \o IF optimize THEN SelectSeq(scans, LAMBDA j : IsDirectory(files, j.dir)) ELSE <<>>

\* What the exclusions that are kept for a job match.
Excludes(job, f) ==
  \E x \in Range(job.excl) : IsPrefix(x, f.real) \/ IsPrefix(x, f.path)

\* What the standard makes of a class: the rest of its name after as much as
\* the namespace is long (psr-4), or its whole name (psr-0).
SubPath(job, class) ==
  IF job.type = "psr4" THEN SubSeq(class, Len(job.ns) + 1, Len(class)) ELSE class

FilterByNamespace(classes, path, job) ==
  SelectSeq(classes, LAMBDA c :
    /\ job.type = "psr0" => IsPrefix(job.ns, c)
    /\ SubPath(job, c) = SubSeq(path, Len(job.dir) + 1, Len(path)))

\* The first file of a class wins; a file that gave classes is not looked at
\* again under another path.
MergeFile(job, m, f) ==
  LET classes == IF job.type = "classmap" THEN f.classes
                 ELSE FilterByNamespace(f.classes, f.path, job)
  IN IF f.real \in m.scanned \/ Excludes(job, f)
     THEN m
     ELSE [scanned |-> IF job.type = "classmap" \/ classes # <<>>
                       THEN m.scanned \cup {f.real} ELSE m.scanned,
           map |-> m.map @@ [c \in Range(classes) |-> f.path]]

MergeScanned(jobs, scans) ==
  FoldLeft(LAMBDA m, k : FoldLeft(LAMBDA n, f : MergeFile(jobs[k], n, f), m, scans[k]),
           [scanned |-> {}, map |-> <<>>], [k \in DOMAIN jobs |-> k]).map

-----------------------------------------------------------------------------
(* The dump.  A project is [root, packages, dev (the names of packages-dev), *)
(* hash (the content-hash of the lock), suffix (of its config, or Absent)]. *)

CONSTANTS Projects,   \* what composer.json and composer.lock may become
          Options,    \* and the options of a dump
          MaxDumps    \* bound on the dumps

VARIABLES project, dumps,
          phase,      \* "idle", "scan", "write" or "done"
          options,    \* of the last dump: dev_mode and optimize
          plan,       \* what it works with
          scans,      \* scans[k]: the result of the k-th job, or Absent
          cache,      \* the slots of the class map cache
          classes,    \* the class map of this dump
          suffix,     \* and its suffix
          cursor,     \* the next file to write
          vendor      \* the generated files

dumpVars == <<project, dumps, phase, options, plan, scans, cache, classes,
              suffix, cursor, vendor>>

Generated == <<"namespaces", "psr4", "classmap", "files", "static", "platform", "autoload", "real">>

WantedPackages(p, dev_mode) ==
  IF dev_mode THEN p.packages ELSE SelectSeq(p.packages, LAMBDA q : q.name \notin p.dev)

\* What a dump works with.
PlanOf(p, o) ==
  LET packages == WantedPackages(p, o.dev_mode)
      autoloads == ParseAutoloads(p.root, packages, o.dev_mode)
      files == ProjectFiles(p.root, packages)
      links == Links(p.root, packages)
  IN [packages |-> packages, autoloads |-> autoloads, files |-> files, links |-> links,
      jobs |-> Jobs(autoloads, files, links, o.optimize)]

DumpInit ==
  /\ project \in Projects
  /\ dumps = 0
  /\ phase = "idle"
  /\ options = [dev_mode |-> TRUE, optimize |-> FALSE]
  /\ plan = <<>>
  /\ scans = <<>>
  /\ cache = <<>>
  /\ classes = <<>>
  /\ suffix = Absent
  /\ cursor = 1
  /\ vendor = [f \in Range(Generated) |-> Absent]

Begin(p, o) ==
  /\ phase \in {"idle", "done"}
  /\ dumps < MaxDumps
  /\ dumps' = dumps + 1
  /\ project' = p
  /\ options' = o
  /\ phase' = "scan"
  /\ LET new == PlanOf(p, o)
     IN plan' = new /\ scans' = [k \in DOMAIN new.jobs |-> Absent]
  /\ UNCHANGED <<cache, classes, suffix, cursor, vendor>>

\* (mutant: one slot for all the versions of a package)
SlotOfName(p, dir) == <<p.name, dir>>

\* CacheSlot::new: the store's entry, and the directory in it.
SlotOf(p, dir) == <<p.name, p.version, dir>>

\* The package installed from the store that a directory belongs to.
Owners(dir) == SelectSeq(plan.packages, LAMBDA p : p.stored /\ IsPrefix(InstallPath(p), dir))

\* The walk of a directory meets no link.
Cacheable(dir) == \A l \in plan.links : ~IsPrefix(dir, l.path)

\* scan_only for one job, in any order: from the cache, where a file is known by
\* its path in the directory, or by walking; nothing where there is no directory.
Scan(k) ==
  LET dir == plan.jobs[k].dir
      walked == Walk(plan.files, dir)
      owners == Owners(dir)
      slot == SlotOf(owners[1], SubSeq(dir, Len(InstallPath(owners[1])) + 1, Len(dir)))
      relative == [j \in DOMAIN walked |->
                     [path |-> SubSeq(walked[j].path, Len(dir) + 1, Len(walked[j].path)),
                      classes |-> walked[j].classes]]
      hit == owners # <<>> /\ slot \in DOMAIN cache
  IN /\ phase = "scan"
     /\ scans[k] = Absent
     /\ scans' = [scans EXCEPT ![k] =
                    IF hit THEN [j \in DOMAIN cache[slot] |->
                                   [path |-> dir \o cache[slot][j].path,
                                    real |-> RealPath(plan.links, dir) \o cache[slot][j].path,
                                    classes |-> cache[slot][j].classes]]
                    ELSE walked]
     /\ cache' = IF owners # <<>> /\ ~hit /\ walked # <<>> /\ Cacheable(dir)
                 THEN slot :> relative @@ cache ELSE cache
     /\ UNCHANGED <<project, dumps, phase, options, plan, classes, suffix, cursor, vendor>>

ResolveSuffix ==
  CASE project.suffix # Absent -> project.suffix
    [] project.suffix = Absent /\ vendor["autoload"] # Absent -> vendor["autoload"]
    [] OTHER -> project.hash

\* A class of the dump's own.
InstalledVersions ==
  <<"Composer", "InstalledVersions">> :> <<"vendor", "composer", "InstalledVersions">>

\* The error of one scan ends the dump, once all have ended.
MissingPath ==
  /\ phase = "scan"
  /\ \A k \in DOMAIN scans : scans[k] # Absent
  /\ \E k \in DOMAIN scans : scans[k] = <<>>
  /\ phase' = "idle"
  /\ scans' = <<>>
  /\ UNCHANGED <<project, dumps, options, plan, cache, classes, suffix, cursor, vendor>>

Merge ==
  /\ phase = "scan"
  /\ \A k \in DOMAIN scans : scans[k] \notin {Absent, <<>>}
  /\ classes' = InstalledVersions @@ MergeScanned(plan.jobs, scans)
  /\ suffix' = ResolveSuffix
  /\ scans' = <<>>
  /\ cursor' = 1
  /\ phase' = "write"
  /\ UNCHANGED <<project, dumps, options, plan, cache, vendor>>

\* platform_check: what the packages that are not for development require, and
\* no package provides.
PlatformCheck ==
  LET all == {project.root} \cup Range(plan.packages)
      checked == {p \in all : ~(options.dev_mode /\ p.name \in project.dev)}
      php == CHOOSE n \in {p.php : p \in checked} : \A p \in checked : p.php <= n
      exts == UNION {p.exts : p \in checked} \ UNION {p.gives : p \in all}
  IN IF php = 0 /\ exts = {} THEN Absent ELSE [php |-> php, exts |-> exts]

RemoveUnused(f, list) == IF list = <<>> THEN Absent ELSE list

Content(f) ==
  CASE f = "namespaces" -> plan.autoloads.psr0
    [] f = "psr4" -> plan.autoloads.psr4
    [] f = "classmap" -> classes
    [] f = "files" -> RemoveUnused(f, plan.autoloads.files)
    [] f = "static" -> [suffix |-> suffix, files |-> plan.autoloads.files, map |-> classes]
    [] f = "platform" -> PlatformCheck
    [] f = "autoload" -> suffix
    [] f = "real" -> [suffix |-> suffix, platform |-> PlatformCheck # Absent,
                      files |-> plan.autoloads.files # <<>>]

Write ==
  /\ phase = "write"
  /\ LET f == Generated[cursor] IN vendor' = [vendor EXCEPT ![f] = Content(f)]
  /\ cursor' = cursor + 1
  /\ phase' = IF cursor = Len(Generated) THEN "done" ELSE "write"
  /\ UNCHANGED <<project, dumps, options, plan, scans, cache, classes, suffix>>

\* The process dies; the files it has written stay.
Kill ==
  /\ phase \in {"scan", "write"}
  /\ phase' = "idle"
  /\ scans' = <<>>
  /\ UNCHANGED <<project, dumps, options, plan, cache, classes, suffix, cursor, vendor>>

DumpNext ==
  \/ \E p \in Projects, o \in Options : Begin(p, o)
  \/ \E k \in DOMAIN scans : Scan(k)
  \/ MissingPath
  \/ Merge
  \/ Write
  \/ Kill

-----------------------------------------------------------------------------
(* What the autoloader does with them (ClassLoader.php), and properties.   *)

FileAt(path) == \E k \in DOMAIN plan.files : plan.files[k].path = path

FirstOrAbsent(paths) ==
  LET there == SelectSeq(paths, FileAt) IN IF there = <<>> THEN Absent ELSE there[1]

\* findFile: the class map, the PSR-4 rules from the longest namespace, PSR-0.
FindFile(map, class) ==
  LET After(ns) == SubSeq(class, Len(ns) + 1, Len(class))
      Fitting(rules) == SelectSeq(rules, LAMBDA r : IsStrictPrefix(r.ns, class))
      longest == SortSeq(Fitting(plan.autoloads.psr4), LAMBDA r, q : Len(r.ns) > Len(q.ns))
      psr4 == FlattenSeq([k \in DOMAIN longest |->
                [j \in DOMAIN longest[k].dirs |-> longest[k].dirs[j] \o After(longest[k].ns)]])
      psr0 == FlattenSeq([k \in DOMAIN Fitting(plan.autoloads.psr0) |->
                LET dirs == Fitting(plan.autoloads.psr0)[k].dirs
                IN [j \in DOMAIN dirs |-> dirs[j] \o class]])
  IN IF class \in DOMAIN map THEN map[class] ELSE FirstOrAbsent(psr4 \o psr0)

Fresh(optimize) ==
  LET jobs == Jobs(plan.autoloads, plan.files, plan.links, optimize)
  IN InstalledVersions
     @@ MergeScanned(jobs, [k \in DOMAIN jobs |-> Walk(plan.files, jobs[k].dir)])

\* The class map is that of a dump that walks every directory, one after the
\* other, whatever order the scans end in and whatever other dumps, of other
\* versions and with other rules, left in the cache (scan_only); and where one of
\* its directories is not there, no dump ends (MissingPath).
ClassesAsScanned ==
  phase = "done" =>
    /\ vendor["classmap"] = Fresh(options.optimize)
    /\ \A dir \in Range(plan.autoloads.classmap) : Walk(plan.files, dir) # <<>>

\* The files of a finished dump agree: the loader finds the class names of
\* its suffix and the lists it includes, and none is left of an earlier dump,
\* finished or killed, whose packages had files or requirements (dump).
VendorAgrees ==
  phase = "done" =>
    /\ vendor["real"].suffix = vendor["autoload"]
    /\ vendor["static"].suffix = vendor["autoload"]
    /\ vendor["static"].map = vendor["classmap"]
    /\ vendor["real"].files <=> vendor["files"] # Absent
    /\ vendor["files"] # Absent => vendor["files"] = vendor["static"].files
    /\ vendor["real"].platform <=> vendor["platform"] # Absent

\* An exclusion that is left out for a directory (related, generator.rs:940) hides
\* no file of it: nothing is mapped that lies, by its own path, where a rule excludes.
NothingExcluded ==
  phase = "done" =>
    \A path \in Range(vendor["classmap"]), x \in Range(plan.autoloads.exclude) :
      ~IsPrefix(x, path)

\* -o is faster and no different: a class that the rules find is mapped to the
\* file they find, when it does declare the class and none of the scans it is in
\* excludes it (jobs in descending namespaces, generator.rs:339).
OptimizeFindsTheSame ==
  phase = "done" /\ options.optimize =>
    \A f \in Range(plan.files) : \A class \in Range(f.classes) :
      LET plain == FindFile(Fresh(FALSE), class)
          kept == \A job \in Range(plan.jobs) : IsPrefix(job.dir, plain) => ~Excludes(job, f)
      IN f.path = plain /\ kept => FindFile(vendor["classmap"], class) = plain

-----------------------------------------------------------------------------
\* p requires q, itself or through others.
RECURSIVE Reaches(_, _, _)
Reaches(packages, names, target) ==
  LET more == names \cup UNION {p.requires : p \in {r \in Range(packages) : r.name \in names}}
  IN target \in more \/ (more # names /\ Reaches(packages, more, target))

\* The files of a package are included before those of the packages that require
\* it, and the root's last, whatever cycles there are elsewhere (PackageSorter).
FilesAfterRequired(root, packages) ==
  LET sorted == ParseAutoloads(root, packages, TRUE).sorted
      At1(name) == CHOOSE k \in DOMAIN sorted : sorted[k].name = name
  IN /\ Last(sorted).name = "root"
     /\ \A p, q \in Range(packages) :
          p.name \in q.requires /\ ~Reaches(packages, p.requires, q.name)
            => At1(p.name) < At1(q.name)

\* What the lock says an install without development packages needs is
\* autoloaded there: `packages` is what the root's requirements lead to, by
\* name or by a name replaced (filterPackageMap).
NeededIsAutoloaded(root, packages) ==
  Range(packages) \subseteq Range(ParseAutoloads(root, packages, FALSE).sorted)

\* A package is kept for any of its names, those it provides included, as in
\* the code this is a port of (docs/reference/AutoloadGenerator.php:1393).
ProvidersAutoloaded(root, packages) ==
  LET include == Include(packages, {ReplacedBy(packages, t) : t \in root.requires})
  IN \A p \in Range(packages) :
       p.provides \cap include # {} => p \in Range(ParseAutoloads(root, packages, FALSE).sorted)
===============================================================================
