-------------------------- MODULE SolverProperties --------------------------
(***************************************************************************)
(* What makes the solver correct, stated of its state.                     *)
(***************************************************************************)
EXTENDS Solver

RuleIds == 1 .. Len(rules)
Labels == {"assertions", "run_sat", "propagate", "conflict", "resolve", "walk",
           "learn", "requests", "sweep", "branches", "done"}

\* Every variable keeps the shape the code gives it.
TypeOK ==
  /\ inst.size \in Nat
  /\ \A k \in DOMAIN rules :
       /\ rules[k].kind \in RuleKinds
       /\ rules[k].rule_type \in RuleTypes
       /\ rules[k].lits \subseteq Literals
  /\ rule_by_id \in Seq(RuleIds)
  /\ disabled \subseteq RuleIds
  /\ map \in [Packages -> Int]
  /\ queue \in Seq([literal : Literals, reason : RuleIds])
  /\ \A k \in DOMAIN nodes : nodes[k].rule \in RuleIds
                             /\ {nodes[k].watch1, nodes[k].watch2} \subseteq Literals
  /\ chains \in [Literals -> Seq(1 .. Len(nodes))]
  /\ propagate_index \in 0 .. Len(queue)
  /\ cursor \in Nat \ {0}
  /\ \A b \in DOMAIN branches : /\ branches[b].literals \in Seq(Packages)
                                /\ branches[b].level \in Nat \ {0}
  /\ \A k \in DOMAIN problems : problems[k].rules \subseteq RuleIds
  /\ learned_pool \in Seq(SUBSET RuleIds)
  /\ level \in Nat \ {0}
  /\ pc \in Labels

LevelAt(k) == DecisionLevel(queue[k].literal)

\* The map and the stack tell the same decisions: no package is decided
\* twice, and what was popped by a revert is undecided again
\* (decisions.rs: decide, revert_last, reset_to_offset).
DecisionsAgree ==
  /\ \A j, k \in DOMAIN queue :
       AbsOf(queue[j].literal) = AbsOf(queue[k].literal) => j = k
  /\ \A k \in DOMAIN queue : Satisfy(queue[k].literal)
  /\ \A p \in Packages : map[p] # 0 => \E k \in DOMAIN queue : AbsOf(queue[k].literal) = p

\* The levels never decrease along the stack and none is above the current
\* one, which is what lets revert stop at the first decision low enough.
LevelsStacked ==
  /\ \A j, k \in DOMAIN queue : j <= k => LevelAt(j) <= LevelAt(k)
  /\ \A k \in DOMAIN queue : LevelAt(k) <= level

\* The branches are stacked by level too, each below the current level: revert
\* pops exactly those whose choice it undoes.
BranchesStacked ==
  /\ \A b, c \in DOMAIN branches : b <= c => branches[b].level <= branches[c].level
  /\ \A b \in DOMAIN branches : branches[b].level < level

\* The map, the decisions and the branches are undone together.
StacksAgree == DecisionsAgree /\ LevelsStacked /\ BranchesStacked

\* The first decision of a level above 1 is a choice; every other one is
\* forced: its reason asks for it once the decisions before it are made.
\* analyze resolves on reasons, so a reason that does not force its literal
\* would make it learn a wrong rule.
FalseBefore(l, k) == \E j \in 1 .. k - 1 : queue[j].literal = -l

Forced(k) ==
  LET r == rules[queue[k].reason]
      l == queue[k].literal
  IN /\ l \in r.lits
     /\ IF IsMulti(r) THEN \E m \in r.lits \ {l} : FalseBefore(m, k)
        ELSE \A m \in r.lits \ {l} : FalseBefore(m, k)

IsChoice(k) == LevelAt(k) > 1 /\ (k = 1 \/ LevelAt(k - 1) < LevelAt(k))

ReasonsForce == \A k \in DOMAIN queue : Forced(k) \/ IsChoice(k)

\* Once everything decided is propagated, no enabled rule of the generator has
\* lost all its literals or all but one undecided: the two watched literals see
\* every rule that becomes a unit.  A learned rule may be left a unit (it is
\* watched on its first literal, which a revert may leave false), but it never
\* loses its last literal unseen.
IsUnit(r) ==
  IF IsMulti(r)
  THEN \E l \in r.lits : Conflict(l) /\ \E m \in r.lits \ {l} : ~Satisfy(m)
  ELSE /\ \A l \in r.lits : ~Satisfy(l)
       /\ Cardinality({l \in r.lits : ~Conflict(l)}) <= 1

NoUnitLeft ==
  pc \in {"requests", "sweep", "branches"} =>
    \A id \in RuleIds : rules[id].rule_type # "none"
                        /\ id \notin disabled =>
      IF rules[id].rule_type = "learned"
      THEN \E l \in rules[id].lits : ~Conflict(l)
      ELSE ~IsUnit(rules[id])

\* No error of the code: analyze finds the decisions it looks for and a
\* literal to learn, the level it goes back to is a lower one, and the
\* literals set_propagate_learn decides are then undecided; a branch that is
\* retried leaves a decision to take the reason of.
NoSolverBug ==
  /\ pc = "walk" => NothingLeft \/ \E d \in DOMAIN queue : IsLastSeen(d)
  /\ pc = "learn" => /\ an.learned # 0
                     /\ an.rule_level \in 1 .. level - 1
                     /\ DecisionLevel(an.learned) > an.rule_level
  /\ pc = "branches" =>
       \A b \in DOMAIN branches : \A k \in DOMAIN branches[b].literals :
         IsOpenAlternative(b, k) =>
           \E d \in DOMAIN queue : LevelAt(d) <= branches[b].level

\* The literals that analyze collects below the current level are never met
\* twice, so the learned rule has each of them once.
CollectedOnce ==
  pc = "resolve" => \A l \in NewlySeen : l \in an.others => DecisionLevel(l) = level

\* No step takes the solver out of its types, into an error of its own (SolverBug,
\* expect), or makes it account for a literal twice.
WellFormed == TypeOK /\ NoSolverBug /\ CollectedOnce

-----------------------------------------------------------------------------
(* Soundness, over all the sets of packages                                *)

Sets == SUBSET Packages

\* All the package rules allow the set.
AllowedByPackages(S) ==
  \A id \in RuleIds : rules[id].rule_type = "package" => Holds(S, rules[id])

\* A learned rule follows from the package rules and the requests recorded
\* in learned_pool for it: search never loses a solution, and the requests
\* a problem names are to blame.  Said when the rule has just been learned and
\* is the reason of the last decision.
JustLearned ==
  /\ pc = "propagate"
  /\ queue # <<>>
  /\ queue[Len(queue)].reason = Len(rules)
  /\ rules[Len(rules)].why > 0

LearnedFollow ==
  JustLearned =>
    LET learned == rules[Len(rules)]
        requests == {rules[q] : q \in RequestsBehind(learned_pool)[Len(rules)]}
    IN ~\E S \in Sets :
         /\ ~Holds(S, learned)
         /\ \A r \in requests : Holds(S, r)
         /\ AllowedByPackages(S)

\* What the search rests on: the reason of a decision forces it, and what was
\* learned follows.
ReasonsHold == ReasonsForce /\ LearnedFollow

\* A reported problem is real: no set of packages satisfies the package rules
\* and the rules that the problem names (analyze_unsolvable,
\* make_assertion_rule_decisions).
ProblemsReal ==
  pc = "done" =>
    \A k \in DOMAIN problems : problems[k].detached \/
      ~\E S \in Sets : /\ \A id \in problems[k].rules : Holds(S, rules[id])
                       /\ AllowedByPackages(S)

\* A decision of level 1 is a consequence of the rules: once the search has
\* begun it is never undone.
LevelOneStays ==
  [][pc # "assertions" => \A p \in Packages : AbsOf(map[p]) = 1 => map'[p] = map[p]]_vars

-----------------------------------------------------------------------------
(* The answer                                                              *)

\* What LockTransaction::new reads from the decisions.
InstalledPackages == {p \in Packages : map[p] > 0}

Answer == CASE pc # "done" -> "none"
            [] pc = "done" /\ problems = <<>> -> "solved"
            [] OTHER -> "unsolvable"

\* What is installed satisfies every package rule and every request: the passes
\* and the watches leave none of them out (run_sat, propagate).
AnswerHolds ==
  Answer = "solved" =>
    \A id \in RuleIds :
      rules[id].rule_type \in {"package", "request"} => Holds(InstalledPackages, rules[id])

\* No rule is missed, along the way nor in the end.
NothingMissed == NoUnitLeft /\ AnswerHolds

=============================================================================
