-------------------------------- MODULE MCData --------------------------------
(***************************************************************************)
(* What vivacity computes from its inputs, over small inputs: each state   *)
(* is a question, and an invariant compares the answer of the code with    *)
(* what it is for.                                                         *)
(*   "constraints"  two constraints on the versions 0 to 5 and two branches *)
(*   "ranges"       one or two alternatives as they are written, against   *)
(*                  every version of four digits up to 2                   *)
(*   "binaries"     vendor/bin, which installs and a user change           *)
(*   "repositories" up to two entries of config.json and two of            *)
(*                  composer.json                                          *)
(*   "require", "remove"  composer.json, edited                            *)
(*   "names"        names of packages, with digits                         *)
(*   "order"        packages that require each other                       *)
(*   "dumps"        the autoloader, generated twice                        *)
(***************************************************************************)
EXTENDS ConstraintSyntax, Binaries, TLC

VARIABLES question,
          project, dumps, phase, options, plan, scans, cache, classes, suffix, cursor, vendor

dumpVars == <<project, dumps, phase, options, plan, scans, cache, classes,
              suffix, cursor, vendor>>

dataVars == <<question, binVars, dumpVars>>

-----------------------------------------------------------------------------
\* Requirements on branches -1 and -2 and on the versions 2 and 4: single, and
\* two of them together.
Atoms == {Single(op, v) : op \in {"==", "!=", "<", "<=", ">", ">="}, v \in {2, 4}}
         \cup {Single(op, v) : op \in {"==", "!="}, v \in {-1, -2}}
         \cup {MatchAll}

\* `>=a <b` is written with a below b.
Sound(c) == TwoBounds(c) =>
  ~IsBranch(c.constraints[1].version) /\ c.constraints[1].version < c.constraints[2].version

Pairs == {c \in {Create(<<a, b>>, conjunctive) :
                   a \in Atoms \ {MatchAll}, b \in Atoms \ {MatchAll}, conjunctive \in BOOLEAN} :
            Sound(c)}

Ranges == {Multi(<<Single(">=", v), Single("<", w)>>, TRUE) :
             <<v, w>> \in {<<1, 2>>, <<1, 4>>, <<2, 4>>, <<2, 5>>, <<4, 5>>}}

\* Each of these, and then an atom or a range.
AskConstraint ==
  /\ question.b = MatchAll
  /\ question' \in {[question EXCEPT !.b = b] : b \in Atoms \cup Ranges}

MCProbes == -3 .. 5

-----------------------------------------------------------------------------
Digit == {0, 1}
Written(lo, hi) == UNION {[1 .. n -> Digit] : n \in lo .. hi}

Form(form, lo, hi, stabilities) ==
  {[form |-> form, digits |-> d, stability |-> s] : d \in Written(lo, hi), s \in stabilities}

XForm(lo, hi) == {[form |-> "x", digits |-> d] : d \in Written(lo, hi)}

Forms ==
  Form("tilde", 1, 4, {Unsaid, 2}) \cup Form("caret", 1, 4, {Unsaid, 2}) \cup XForm(1, 3)
  \cup {[form |-> "hyphen", digits |-> d, stability |-> s, to |-> e, to_stability |-> t] :
          d \in Written(1, 3), e \in Written(1, 3), s \in {Unsaid, 3}, t \in {Unsaid, 2}}
  \cup {[form |-> "basic", op |-> op, digits |-> d, stability |-> s, flag |-> f] :
          op \in {"==", "!=", "<", "<=", ">", ">="}, d \in Written(1, 2),
          s \in {Unsaid, 2}, f \in {Unsaid, 0, 4}}

ShortForms == Form("caret", 1, 2, {Unsaid, 2}) \cup XForm(1, 2) \cup Form("tilde", 1, 3, {Unsaid})

\* Each of these forms, and after a short one another.
AskAlternative ==
  /\ question.alternatives[1] \in ShortForms
  /\ Len(question.alternatives) = 1
  /\ question' \in {[question EXCEPT !.alternatives = Append(@, w)] : w \in ShortForms}

Sample == [1 .. 4 -> 0 .. 2]

-----------------------------------------------------------------------------
\* Three packages: b declares what a declares in its second version, and a
\* binary that it does not ship; c has a name of its own.
MCLockOrder == <<"a", "b", "c">>

MCDeclared ==
  "a" :> ("1" :> {"lint"} @@ "2" :> {"lint", "test"}) @@
  "b" :> ("1" :> {"test", "gone"} @@ "2" :> {}) @@
  "c" :> ("1" :> {"own"} @@ "2" :> {"own", "gone"})

MCShipped ==
  "a" :> ("1" :> {"lint"} @@ "2" :> {"lint", "test"}) @@
  "b" :> ("1" :> {"test"} @@ "2" :> {"test"}) @@
  "c" :> ("1" :> {"own"} @@ "2" :> {"own", "gone"})

-----------------------------------------------------------------------------
Configured == INSTANCE RepositoryConfig

EntriesOf(name) ==
  LET key == Configured!Named(name)
  IN {Configured!Entry(key, says, key) : says \in {"repository", "packagist", "false"}}
       \cup {Configured!Entry(Configured!Indexed(k), "disables", key) : k \in 1 .. 2}

IndexedEntries ==
  {Configured!Entry(Configured!Indexed(k), says, "") : k \in 1 .. 2, says \in {"repository", "packagist"}}

\* A list, or an object, of which some keys may be indexes.
RepositoryLists(names, file) ==
  LET entries == UNION {EntriesOf(n) : n \in names} \cup IndexedEntries
      Told(s) == [k \in DOMAIN s |->
        IF Configured!Defines(s[k]) THEN [s[k] EXCEPT !.of = <<file, k>>] ELSE s[k]]
  IN {Told(s) : s \in {t \in UNION {[1 .. n -> entries] : n \in 0 .. 2} :
        \A j, k \in DOMAIN t : j # k => t[j].key # t[k].key}}

AskRepositories ==
  /\ question.manifest = <<>>
  /\ question' \in {[question EXCEPT !.manifest = m] :
                    m \in RepositoryLists({"packagist", "packagist.org", "x"}, "composer.json")}

-----------------------------------------------------------------------------
\* a/b may be written in two ways; php comes before the packages.
LowercaseOf(n) == IF n = "A/b" THEN "a/b" ELSE n
GroupOf(n) == IF n = "php" THEN 0 ELSE 5
Characters ==
  "a/b" :> <<20, -1, 21>> @@ "A/b" :> <<11, -1, 21>> @@ "c/d" :> <<22, -1, 23>> @@
  "e/f" :> <<24, -1, 25>> @@ "php" :> <<30, 31, 30>>
CharactersOf(n) == Characters[n]

Edit == INSTANCE JsonEdit WITH
  Lowercase <- LowercaseOf, Group <- GroupOf, Spelled <- CharactersOf

Linked(name, constraint) == Edit!Entry(name, Edit!Text(constraint))
Twice == {Linked("a/b", "1"), Linked("A/b", "1"), Linked("a/b", "2")}
Links == Twice \cup {Linked("c/d", "1"), Linked("php", "1")}
ThreeLinks == {<<x, y, z>> : x \in {Linked("c/d", "1")} \cup Twice, y \in Twice, z \in {Linked("php", "1")} \cup Twice}

\* A section, or none.
RequireSections ==
  {<<>>, <<Edit!EmptyList>>}
    \cup {<<Edit!Object(s)>> : s \in UNION {[1 .. n -> Links] : n \in 0 .. 2} \cup ThreeLinks}
DevSections ==
  {<<>>, <<Edit!Object(<<>>)>>, <<Edit!Object(<<Linked("a/b", "1")>>)>>,
   <<Edit!Object(<<Linked("c/d", "1"), Linked("a/b", "1")>>)>>,
   <<Edit!Object(<<Linked("c/d", "1"), Linked("A/b", "1"), Linked("A/b", "1")>>)>>}
Allowed ==
  {<<>>, <<Edit!True>>, <<Edit!Object(<<>>)>>, <<Edit!Object(<<Edit!Entry("c/d", Edit!True)>>)>>,
   <<Edit!Object(<<Edit!Entry("a/b", Edit!True)>>)>>,
   <<Edit!Object(<<Edit!Entry("a/b", Edit!True), Edit!Entry("c/d", Edit!True)>>)>>}

ComposerJson(required, dev, allowed) ==
  LET keyed(key, section) == IF section = <<>> THEN <<>> ELSE <<Edit!Entry(key, section[1])>>
      config == <<Edit!Entry("lock", Edit!True)>> \o keyed("allow-plugins", allowed)
  IN keyed("require", required) \o <<Edit!Entry("autoload", Edit!Object(<<>>))>>
       \o keyed("require-dev", dev) \o keyed("config", <<Edit!Object(config)>>)

\* Of a file, everything that require and remove may be asked for.
AskToEdit ==
  \/ /\ question.part = "require" /\ question.new = <<>>
     /\ question' \in {[question EXCEPT !.new = n, !.sort = s, !.limited = l] :
          n \in {<<<<"a/b", "3">>>>, <<<<"e/f", "3">>>>, <<<<"c/d", "3">>, <<"a/b", "3">>>>},
          s \in BOOLEAN, l \in BOOLEAN}
  \/ /\ question.part = "remove" /\ question.packages = <<>>
     /\ question' \in {[question EXCEPT !.packages = n, !.limited = l, !.global = g] :
          n \in {<<"a/b">>, <<"c/d", "a/b">>, <<"e/f">>}, l \in BOOLEAN,
          g \in {<<>>, <<Edit!True>>, <<Edit!Object(<<Edit!Entry("a/b", Edit!True)>>)>>}}

Files ==
  {[part |-> "require", file |-> ComposerJson(r, d, <<>>), new |-> <<>>, sort |-> FALSE, limited |-> FALSE] :
     r \in RequireSections, d \in DevSections}
  \cup {[part |-> "remove", file |-> ComposerJson(r, <<>>, a), packages |-> <<>>, global |-> <<>>, limited |-> FALSE] :
          r \in RequireSections, a \in Allowed}

\* A letter, and then digits and letters.
DigitNames == {<<10>> \o s : s \in UNION {[1 .. n -> {0, 1, 2, 10}] : n \in 0 .. 3}}

-----------------------------------------------------------------------------
Segments == <<"A","B","K","Q","R","T","W","X","Y","Z","a","b","c","d">>
MCBefore(x, y) == \E i, j \in DOMAIN Segments : i < j /\ x = Segments[i] /\ y = Segments[j]

File(path, cs) == [path |-> path, classes |-> cs]
Link(path, target) == [path |-> path, target |-> target]

Plain(name, requires) ==
  [name |-> name, version |-> 1, requires |-> requires, replaces |-> {}, provides |-> {},
   psr4 |-> <<>>, psr4_dev |-> <<>>, psr0 |-> <<>>, classmap |-> <<>>, files |-> <<>>,
   exclude |-> <<>>, tree |-> <<>>, links |-> {}, stored |-> TRUE, php |-> 0, exts |-> {}, gives |-> {}]

\* A\B has a directory of its own, and one below A's.
MCa(v) ==
  [Plain("a", {"b"}) EXCEPT
     !.version = v,
     !.psr4 = <<<<<<"A">>, <<"src">>>>, <<<<"A", "B">>, <<"b">>>>>>,
     !.classmap = IF v = 2 THEN <<<<"src">>>> ELSE <<>>,
     !.files = IF v = 1 THEN <<<<"lib">>>> ELSE <<>>,
     !.exts = {"intl"},
     !.tree = <<File(<<"b", "Z">>, <<<<"A", "B", "Z">>, <<"A", "B", "W">>>>),
                File(<<"src", "B", "Z">>, <<<<"A", "B", "Z">>>>),
                IF v = 1 THEN File(<<"src", "X">>, <<<<"A", "X">>>>)
                         ELSE File(<<"src", "Y">>, <<<<"A", "Y">>, <<"A", "X">>>>)>>]

\* Files that are excluded, with a link to them that is scanned and one in a
\* directory that is; and PSR-0.
MCb == [Plain("b", {}) EXCEPT
     !.classmap = <<<<"s">>, <<"lib">>>>,
     !.psr0 = <<<<<<"K">>, <<"p">>>>>>,
     !.exclude = <<<<"t">>>>,
     !.gives = {"intl"},
     !.links = {Link(<<"lib", "l">>, <<"t">>), Link(<<"s">>, <<"t">>)},
     !.tree = <<File(<<"lib", "l", "Q">>, <<<<"Q">>>>),
                File(<<"p", "K", "X">>, <<<<"K", "X">>>>),
                File(<<"s", "Q">>, <<<<"Q">>>>), File(<<"t", "Q">>, <<<<"Q">>>>)>>]

MCRoot(requires, exclude) ==
  [Plain("root", requires) EXCEPT
     !.psr4 = <<<<<<"R">>, <<"src">>>>>>, !.psr4_dev = <<<<<<"R", "T">>, <<"tests">>>>>>,
     !.stored = FALSE, !.exclude = exclude,
     !.tree = <<File(<<"src", "T", "Y">>, <<<<"R", "T", "Y">>>>),
                File(<<"src", "X">>, <<<<"R", "X">>>>),
                File(<<"tests", "Y">>, <<<<"R", "T", "Y">>>>)>>]

\* a is updated, with a class map and without files, under a root that excludes a
\* part of it; or only b stays, for development, below a root that is scanned
\* whole; or a directory of the class map is gone.
MCProjects ==
  {[root |-> MCRoot({"a"}, <<>>), packages |-> <<MCa(1), MCb>>, dev |-> {}, hash |-> "h1", suffix |-> Absent],
   [root |-> MCRoot({"a"}, <<<<"vendor", "a", "src", "B">>>>), packages |-> <<MCa(2), MCb>>, dev |-> {}, hash |-> "h2", suffix |-> Absent],
   [root |-> [MCRoot({}, <<>>) EXCEPT !.php = 80, !.psr0 = <<<<<<>>, <<>>>>>>], packages |-> <<MCb>>, dev |-> {"b"}, hash |-> "h3", suffix |-> Absent],
   [root |-> [MCRoot({}, <<>>) EXCEPT !.classmap = <<<<"src">>, <<"gone">>>>], packages |-> <<>>, dev |-> {}, hash |-> "h4", suffix |-> Absent]}
MCOptions == {[dev_mode |-> TRUE, optimize |-> TRUE], [dev_mode |-> FALSE, optimize |-> TRUE], [dev_mode |-> TRUE, optimize |-> FALSE]}

Autoloader == INSTANCE Autoload WITH
  Absent <- Absent, Before <- MCBefore, Projects <- MCProjects, Options <- MCOptions,
  MaxDumps <- 2

\* The packages that the root's requirements lead to, and so on.
Needed(root, packages, Answers(_, _)) ==
  LET More(S) == S \cup {p \in Range(packages) :
                           \E q \in S \cup {root} : \E t \in q.requires : Answers(p, t)}
  IN FoldLeft(LAMBDA S, p : More(S), {}, packages)

ByNameOrReplace(p, target) == target = p.name \/ target \in p.replaces

\* Every graph of requirements of four packages.
Graphs ==
  LET others(n) == SUBSET ({"a", "b", "c", "d"} \ {n}) IN
  {<<Plain("a", ra), Plain("b", rb), Plain("c", rc), Plain("d", rd)>> :
     ra \in others("a"), rb \in others("b"), rc \in others("c"), rd \in others("d")}

\* c may stand for v, in one of two ways.
Standing(field) ==
  LET stand(p) == IF field = "replaces" THEN [p EXCEPT !.replaces = {"v"}]
                                        ELSE [p EXCEPT !.provides = {"v"}] IN
  {<<Plain("a", ra), Plain("b", rb), stand(Plain("c", rc))>> :
     ra \in SUBSET {"b", "c", "v"}, rb \in SUBSET {"a", "c", "v"}, rc \in SUBSET {"a", "b"}}

Orders == {[part |-> "order", root |-> Plain("root", {"a"}), packages |-> ps] :
             ps \in Graphs \cup Standing("replaces")}

-----------------------------------------------------------------------------
Questions ==
  {[part |-> "constraints", a |-> a, b |-> MatchAll] :
     a \in Pairs \cup Atoms \cup Ranges}
    \cup {[part |-> "ranges", alternatives |-> <<w>>] : w \in Forms}
    \cup Orders \cup Files
    \cup {[part |-> "names", name |-> n] : n \in DigitNames}
    \cup {[part |-> "repositories", global |-> g, manifest |-> <<>>] :
            g \in RepositoryLists({"packagist.org", "x"}, "config.json")}
    \cup {[part |-> "binaries"], [part |-> "dumps"]}

\* A project matters to the dumps only.
DataInit ==
  /\ question \in Questions
  /\ BinInit /\ Autoloader!DumpInit
  /\ question.part # "dumps" => project = CHOOSE p \in MCProjects : TRUE

DataNext ==
  \/ question.part = "constraints" /\ AskConstraint /\ UNCHANGED <<binVars, dumpVars>>
  \/ question.part = "ranges" /\ AskAlternative /\ UNCHANGED <<binVars, dumpVars>>
  \/ question.part = "repositories" /\ AskRepositories /\ UNCHANGED <<binVars, dumpVars>>
  \/ question.part \in {"require", "remove"} /\ AskToEdit /\ UNCHANGED <<binVars, dumpVars>>
  \/ question.part = "binaries" /\ BinNext /\ UNCHANGED <<question, dumpVars>>
  \/ question.part = "dumps" /\ Autoloader!DumpNext /\ UNCHANGED <<question, binVars>>

DataSpec == DataInit /\ [][DataNext]_dataVars

Of(part, Answer) == question.part = part => Answer

\* PoolBuilder keeps one constraint for what it has loaded of a name, loads no
\* more for a subset of it (pool.rs:777, 786), and the optimizer groups packages
\* by the compact form of a requirement (optimizer.rs:114): the merged constraint
\* stands for both, a subset admits nothing that is not loaded, the compact form
\* stands for the requirement, and no provider is missed by the order in which
\* two constraints are matched.
IntervalsStand ==
  Of("constraints", /\ MergedMeansEither(question.a, question.b)
                    /\ SubsetIsLoaded(question.a, question.b)
                    /\ CompactMeansSame(question.a, question.b)
                    /\ CommonVersionsMatch(question.a, question.b))

\* What ~, ^, x, - and the comparisons are written for is what they admit
\* (parse_constraints, constraint.rs:423).
RangesAsWritten == Of("ranges", RangesByPrefix(question.alternatives, Sample))

\* The repositories of composer.json are asked first, in its order
\* (merge_repositories).
RepositoriesInOrder ==
  Of("repositories", Configured!InOrder(question.global, question.manifest))

\* Whether the text is edited or the file rewritten (update_file,
\* JsonManipulator), require changes the links it is asked for and no others, and
\* remove takes out the links, and the plugins that were allowed, and no others;
\* a require that is followed by a remove leaves the text as it was.
\* sort-packages sorts by an order, in which the numbers in names are numbers
\* (strnatcmp, sort_packages).
EditsAreExact ==
  /\ Of("require",
       /\ Edit!UpdateIsExact(question.file, question.new, "require", "require-dev",
                             question.sort, question.limited)
       /\ question.new # <<>> =>
            Edit!RequireThenRemove(question.file, question.new[1], "require", "require-dev"))
  /\ Of("remove", Edit!RemovalIsExact(question.file, question.global, question.packages,
                                      "require", question.limited))
  /\ Of("names", /\ Edit!TotalOrder(question.name, DigitNames)
                 /\ question.name # <<10>> \/ Edit!NumbersAscend(question.name))

\* The files of a package are included before those of the packages that require
\* it, and the root's last, whatever cycles there are elsewhere (PackageSorter);
\* an install without development packages autoloads each of its packages: those
\* that the requirements lead to, by name or replaced name (filterPackageMap).
RequiredIsAutoloaded ==
  Of("order", /\ Autoloader!FilesAfterRequired(question.root, question.packages)
              /\ Needed(question.root, question.packages, ByNameOrReplace) = Range(question.packages)
                   => Autoloader!NeededIsAutoloaded(question.root, question.packages))

\* The class map is that of a dump that walks every directory, one after the
\* other, whatever order the scans end in and whatever other dumps left in the
\* cache (scan_only), and nothing is in it that a rule excludes
\* (build_exclusion_regex); -o finds each class where the rules find it
\* (generator.rs:339); and the generated files agree after any dumps, killed
\* ones included (dump).
DumpsAgree ==
  /\ Autoloader!ClassesAsScanned
  /\ Autoloader!NothingExcluded
  /\ Autoloader!OptimizeFindsTheSame
  /\ Autoloader!VendorAgrees

-----------------------------------------------------------------------------
\* c provides what a or b requires.
Providing == {[part |-> "order", root |-> Plain("root", {"a"}), packages |-> ps] :
                ps \in Standing("provides")}

ProvidingInit ==
  /\ question \in Providing
  /\ BinInit /\ Autoloader!DumpInit
  /\ project = CHOOSE p \in MCProjects : TRUE

ProvidingSpec == ProvidingInit /\ [][DataNext]_dataVars

\* A package that the requirements lead to by a name it provides is autoloaded
\* without the development packages too, as the original of the port has it.
ProvidersAutoloaded == Autoloader!ProvidersAutoloaded(question.root, question.packages)
===============================================================================
