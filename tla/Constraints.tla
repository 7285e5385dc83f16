----------------------------- MODULE Constraints -----------------------------
(***************************************************************************)
(* Version constraints (constraint.rs) and the intervals they cover        *)
(* (intervals.rs).  A normalized version is a number from 0 to Infinity, a *)
(* branch (dev-...) a negative number.  A constraint is one of             *)
(*   Single(op, version)    MatchAll    MatchNone                          *)
(*   Multi(constraints, conjunctive)                                       *)
(* The caches of parse_constraints and of generate are left out: what they *)
(* keep is a function of their key.                                        *)
(***************************************************************************)
EXTENDS Integers, SequencesExt

CONSTANT Infinity

Single(op, version) == [kind |-> "single", op |-> op, version |-> version]
Multi(constraints, conjunctive) ==
  [kind |-> "multi", constraints |-> constraints, conjunctive |-> conjunctive]
MatchAll == [kind |-> "all"]
MatchNone == [kind |-> "none"]

IsBranch(version) == version < 0

\* str_replace('=', '', op)
NoEqual(op) == CASE op \in {"<", "<="} -> "<"
                 [] op \in {">", ">="} -> ">"
                 [] op = "!="          -> "!"
                 [] op = "=="          -> ""

Compare(v, op, w) == CASE op = "==" -> v = w
                       [] op = "!=" -> v # w
                       [] op = "<"  -> v < w
                       [] op = "<=" -> v <= w
                       [] op = ">"  -> v > w
                       [] op = ">=" -> v >= w

\* version_compare_branches, whose callers never compare branches.
CompareBranches(v, op, w) ==
  IF op = "!=" /\ (IsBranch(v) \/ IsBranch(w))
  THEN v # w
  ELSE IF IsBranch(v) \/ IsBranch(w)
       THEN op = "==" /\ v = w
       ELSE Compare(v, op, w)

\* A "!=" on either side.
MatchUnequal(c, p) ==
  /\ ~(c.op = "!=" /\ p.op \notin {"==", "!="} /\ IsBranch(p.version))
  /\ ~(p.op = "!=" /\ c.op \notin {"==", "!="} /\ IsBranch(c.version))
  /\ c.op = "==" \/ p.op = "==" => CompareBranches(p.version, "!=", c.version)

MatchSpecific(c, p) ==
  IF c.op = "!=" \/ p.op = "!="
  THEN MatchUnequal(c, p)
  ELSE IF c.op # "==" /\ NoEqual(c.op) = NoEqual(p.op)
  THEN ~IsBranch(c.version) /\ ~IsBranch(p.version)
  ELSE /\ IF c.op = "==" THEN CompareBranches(c.version, p.op, p.version)
                         ELSE CompareBranches(p.version, c.op, c.version)
       /\ ~(/\ p.op = NoEqual(p.op)
            /\ c.op # NoEqual(c.op)
            /\ p.version = c.version)

RECURSIVE Matches(_, _)
Matches(c, p) ==
  CASE c.kind = "all"    -> TRUE
    [] c.kind = "none"   -> FALSE
    [] c.kind = "single" -> IF p.kind = "single" THEN MatchSpecific(c, p) ELSE Matches(p, c)
    [] c.kind = "multi"  ->
         IF ~c.conjunctive
         THEN \E k \in DOMAIN c.constraints : Matches(p, c.constraints[k])
         ELSE IF p.kind = "multi" /\ ~p.conjunctive
         THEN Matches(p, c)
         ELSE \A k \in DOMAIN c.constraints : Matches(p, c.constraints[k])

MatchesVersion(c, version) == Matches(c, Single("==", version))

-----------------------------------------------------------------------------
\* `>=a <b`
TwoBounds(c) ==
  /\ c.kind = "multi"
  /\ c.conjunctive
  /\ Len(c.constraints) = 2
  /\ c.constraints[1].kind = "single" /\ c.constraints[1].op = ">="
  /\ c.constraints[2].kind = "single" /\ c.constraints[2].op = "<"

\* (mutant: the two ranges need not meet)
FusesAny(left, right) == TwoBounds(left) /\ TwoBounds(right)

\* `>=a <b || >=b <c`
Fuses(left, right) ==
  /\ TwoBounds(left)
  /\ TwoBounds(right)
  /\ left.constraints[2].version = right.constraints[1].version

\* MultiConstraint::optimizeConstraints for a disjunction: `left` grows until
\* the next constraint does not begin where it ends.
OptimizeConstraints(constraints) ==
  LET step(done, right) ==
        IF Fuses(done.left, right)
        THEN [done EXCEPT !.left = Multi(<<done.left.constraints[1],
                                           right.constraints[2]>>, TRUE)]
        ELSE [merged |-> Append(done.merged, done.left), left |-> right]
      end == FoldLeft(step, [merged |-> <<>>, left |-> Head(constraints)],
                      Tail(constraints))
  IN Append(end.merged, end.left)

Create(constraints, conjunctive) ==
  LET kept == IF conjunctive \/ constraints = <<>> THEN constraints
                                                   ELSE OptimizeConstraints(constraints)
  IN CASE Len(kept) = 0 -> MatchAll
       [] Len(kept) = 1 -> kept[1]
       [] OTHER         -> Multi(kept, conjunctive)

-----------------------------------------------------------------------------
FromZero == Single(">=", 0)
UntilInfinity == Single("<", Infinity)
Interval(start, end) == [start |-> start, end |-> end]
Everything == <<Interval(FromZero, UntilInfinity)>>

\* Branches: those named, or all but those named.
Branches(names, exclude) == [names |-> names, exclude |-> exclude]
AnyDev == Branches(<<>>, TRUE)
NoDev == Branches(<<>>, FALSE)

Covers(numeric, branches) == [numeric |-> numeric, branches |-> branches]

\* Intervals of one operator.
OfSingle(c) ==
  IF IsBranch(c.version)
  THEN CASE c.op = "!=" -> Covers(Everything, Branches(<<c.version>>, TRUE))
         [] c.op = "==" -> Covers(<<>>, Branches(<<c.version>>, FALSE))
         [] OTHER       -> Covers(<<>>, NoDev)
  ELSE CASE c.op \in {">", ">="} -> Covers(<<Interval(c, UntilInfinity)>>, NoDev)
         [] c.op \in {"<", "<="} -> Covers(<<Interval(FromZero, c)>>, NoDev)
         [] c.op = "==" ->
              Covers(<<Interval(Single(">=", c.version), Single("<=", c.version))>>, NoDev)
         [] c.op = "!=" ->
              Covers(<<Interval(FromZero, Single("<", c.version)),
                       Interval(Single(">", c.version), UntilInfinity)>>, AnyDev)

Without(names, others) == SelectSeq(names, LAMBDA n : ~Contains(others, n))
Within(names, others) == SelectSeq(names, LAMBDA n : Contains(others, n))
Unique(names) ==
  FoldLeft(LAMBDA out, n : IF Contains(out, n) THEN out ELSE Append(out, n), <<>>, names)

UnionOfBranches(b, c) ==
  CASE c.exclude /\ b.exclude   -> Branches(Within(b.names, c.names), TRUE)
    [] c.exclude /\ ~b.exclude  -> Branches(Without(c.names, b.names), TRUE)
    [] ~c.exclude /\ b.exclude  -> Branches(Without(b.names, c.names), TRUE)
    [] ~c.exclude /\ ~b.exclude -> Branches(b.names \o c.names, FALSE)

IntersectionOfBranches(b, c) ==
  CASE c.exclude /\ b.exclude   -> Branches(b.names \o c.names, TRUE)
    [] c.exclude /\ ~b.exclude  -> Branches(Without(b.names, c.names), FALSE)
    [] ~c.exclude /\ b.exclude  -> Branches(Without(c.names, b.names), FALSE)
    [] ~c.exclude /\ ~b.exclude -> Branches(Within(b.names, c.names), FALSE)

\* $opSortOrder: at a version, [ begins, ) ends, ( begins, ] ends.
SortOrder(op) == CASE op = ">=" -> -3 [] op = "<" -> -2 [] op = ">" -> 2 [] op = "<=" -> 3

\* The ends of the intervals, sorted: each goes after those not above it.
Borders(groups) ==
  LET intervals == FlattenSeq(groups)
      ends == FlattenSeq([k \in DOMAIN intervals |->
                <<[at |-> intervals[k].start, start |-> TRUE],
                  [at |-> intervals[k].end, start |-> FALSE]>>])
      above(b, c) == \/ b.at.version > c.at.version
                     \/ /\ b.at.version = c.at.version
                        /\ SortOrder(b.at.op) > SortOrder(c.at.op)
      insert(sorted, b) == SelectSeq(sorted, LAMBDA c : ~above(c, b)) \o <<b>>
                           \o SelectSeq(sorted, LAMBDA c : above(c, b))
  IN FoldLeft(insert, <<>>, ends)

IsEmpty(start, end) ==
  /\ start.version = end.version
  /\ <<start.op, end.op>> \in {<<">", "<=">>, <<">=", "<">>}

\* The intervals where at least `threshold` of the groups are open; `start` is
\* a sequence with the start of the open interval, if any.
Sweep(borders, threshold, stop_on_first_valid) ==
  LET step(s, border) ==
        LET active == IF border.start THEN s.active + 1 ELSE s.active - 1 IN
        IF stop_on_first_valid /\ s.intervals # <<>>
        THEN s
        ELSE CASE s.start = <<>> /\ active >= threshold ->
                    [s EXCEPT !.active = active, !.start = <<border.at>>]
               [] s.start # <<>> /\ active < threshold ->
                    [active |-> active, start |-> <<>>,
                     intervals |-> IF IsEmpty(s.start[1], border.at)
                                   THEN s.intervals
                                   ELSE Append(s.intervals,
                                               Interval(s.start[1], border.at))]
               [] OTHER -> [s EXCEPT !.active = active]
  IN FoldLeft(step, [active |-> 0, start |-> <<>>, intervals |-> <<>>], borders).intervals

\* Intervals::get
RECURSIVE Generate(_, _)
Generate(c, stop_on_first_valid) ==
  CASE c.kind = "all"    -> Covers(Everything, AnyDev)
    [] c.kind = "none"   -> Covers(<<>>, NoDev)
    [] c.kind = "single" -> OfSingle(c)
    [] c.kind = "multi"  ->
         LET parts == [k \in DOMAIN c.constraints |-> Generate(c.constraints[k], FALSE)]
             groups == [k \in DOMAIN parts |-> parts[k].numeric]
             branches ==
               FoldLeft(LAMBDA b, part : IF c.conjunctive
                                         THEN IntersectionOfBranches(b, part.branches)
                                         ELSE UnionOfBranches(b, part.branches),
                        IF c.conjunctive THEN AnyDev ELSE NoDev, parts)
         IN Covers(IF Len(groups) = 1
                   THEN groups[1]
                   ELSE Sweep(Borders(groups),
                              IF c.conjunctive THEN Len(groups) ELSE 1,
                              stop_on_first_valid),
                   Branches(Unique(branches.names), branches.exclude))

\* The intersection with the constraint is the candidate, to the order of its
\* branches.
IsSubsetOf(candidate, constraint) ==
  \/ constraint.kind = "all"
  \/ /\ candidate.kind # "none" /\ constraint.kind # "none"
     /\ Generate(Multi(<<candidate, constraint>>, TRUE), FALSE) = Generate(candidate, FALSE)

HaveIntersections(a, b) ==
  \/ a.kind = "all" \/ b.kind = "all"
  \/ /\ a.kind # "none" /\ b.kind # "none"
     /\ LET both == Generate(Multi(<<a, b>>, TRUE), TRUE)
        IN both.numeric # <<>> \/ both.branches.exclude \/ both.branches.names # <<>>

\* Intervals that only leave out single versions become `!=`s: what `unequal`
\* holds goes out with the interval that closes it.
NumericConstraints(numeric) ==
  LET open(k) == numeric[k].start
      close(k) == numeric[k].end
      gap(k) == /\ close(k).op = "<"
                /\ k < Len(numeric)
                /\ open(k + 1) = Single(">", close(k).version)
      one(constraints) == IF Len(constraints) > 1 THEN Multi(constraints, TRUE)
                                                  ELSE constraints[1]
      plain(k) ==
        CASE /\ open(k).version = close(k).version
             /\ open(k).op = ">=" /\ close(k).op = "<=" -> Single("==", open(k).version)
          [] open(k) = FromZero        -> close(k)
          [] close(k) = UntilInfinity  -> open(k)
          [] OTHER                     -> Multi(<<open(k), close(k)>>, TRUE)
      step(s, k) ==
        CASE gap(k) ->
               [s EXCEPT !.unequal =
                  (IF @ = <<>> /\ open(k) # FromZero THEN <<open(k)>> ELSE @)
                  \o <<Single("!=", close(k).version)>>]
          [] ~gap(k) /\ s.unequal # <<>> ->
               [constraints |->
                  Append(s.constraints,
                         one(IF close(k) = UntilInfinity THEN s.unequal
                                                         ELSE Append(s.unequal, close(k)))),
                unequal |-> <<>>]
          [] OTHER -> [s EXCEPT !.constraints = Append(@, plain(k))]
  IN FoldLeft(step, [constraints |-> <<>>, unequal |-> <<>>],
              [k \in DOMAIN numeric |-> k]).constraints

\* The numeric constraints, and none of the branches.
ExcludeBranches(constraints, dev) ==
  CASE Len(constraints) > 1        -> Multi(<<Multi(constraints, FALSE)>> \o dev, TRUE)
    [] constraints = <<FromZero>>  -> IF Len(dev) > 1 THEN Multi(dev, TRUE) ELSE dev[1]
    [] OTHER                       -> Multi(constraints \o dev, TRUE)

CompactConstraint(c) ==
  LET intervals == Generate(c, FALSE)
      numeric == IF intervals.numeric = Everything THEN <<FromZero>>
                 ELSE NumericConstraints(intervals.numeric)
      names == intervals.branches.names
      dev == [k \in DOMAIN names |->
                Single(IF intervals.branches.exclude THEN "!=" ELSE "==", names[k])]
      all == numeric \o dev
  IN CASE c.kind # "multi" -> c
       [] c.kind = "multi" /\ intervals.branches.exclude /\ names # <<>> ->
            ExcludeBranches(numeric, dev)
       [] c.kind = "multi" /\ intervals = Covers(Everything, AnyDev) -> MatchAll
       [] OTHER -> CASE Len(all) > 1 -> Multi(all, FALSE)
                     [] Len(all) = 1 -> all[1]
                     [] OTHER        -> MatchNone

-----------------------------------------------------------------------------
\* The properties below are of a question [a, b], two constraints; Probes are
\* the versions that tell constraints apart.
CONSTANT Probes

\* `compact` stands for what `Admitted` says: it admits the same numbered
\* versions, and no branch less.  It may admit one more, as the code of Composer
\* does: `<2 || >2` is compacted to `!=2`, which every branch matches.
StandsFor(compact, Admitted(_)) ==
  \A v \in Probes :
    /\ Admitted(v) => MatchesVersion(compact, v)
    /\ MatchesVersion(compact, v) => Admitted(v) \/ IsBranch(v)

\* PoolBuilder keeps one constraint for the versions of a name that it has
\* loaded: it stands for the two constraints it merges (pool.rs:786, 798).
MergedMeansEither(a, b) ==
  StandsFor(CompactConstraint(Create(<<a, b>>, FALSE)),
            LAMBDA v : MatchesVersion(a, v) \/ MatchesVersion(b, v))

\* The optimizer groups packages by the compact form of a requirement, which
\* stands for it (optimizer.rs:114).
CompactMeansSame(a, b) ==
  StandsFor(CompactConstraint(Multi(<<a, b>>, TRUE)),
            LAMBDA v : MatchesVersion(a, v) /\ MatchesVersion(b, v))

\* PoolBuilder loads nothing more for a constraint that is a subset of what it
\* has loaded: all the versions it admits are there (pool.rs:777, pool.rs:795).
SubsetIsLoaded(a, b) ==
  IsSubsetOf(a, b) => \A v \in Probes : MatchesVersion(a, v) => MatchesVersion(b, v)

\* Two constraints that have a version in common match each other, whichever
\* is asked: no provider is missed (Constraint::matches).
CommonVersionsMatch(a, b) ==
  (\E v \in Probes : MatchesVersion(a, v) /\ MatchesVersion(b, v))
    => Matches(a, b) /\ Matches(b, a) /\ HaveIntersections(a, b)
===============================================================================
