------------------------------- MODULE Solver -------------------------------
(***************************************************************************)
(* The CDCL solver of vivacity-resolver: Solver (solver.rs), its decision  *)
(* stack (decisions.rs) and its watch graph (watch.rs), one step per       *)
(* iteration of the loops of the code.  The rules come from the rule       *)
(* generator (module RulesGen) and the preferred package from the policy   *)
(* (module Policy); here both are constants.                               *)
(*                                                                         *)
(* Indices are 1-based where the code's are 0-based, and propagate_index   *)
(* counts the decisions already propagated.                                *)
(***************************************************************************)
EXTENDS Rules, SequencesExt

CONSTANTS
  Instances,                \* the inputs of Solver::solve
  SelectPreferred(_, _, _)  \* DefaultPolicy::select_preferred_packages

(* An instance has                                                         *)
(*   size        number of packages of the pool, ids 1..size               *)
(*   rules       storage of the generated RuleSet                          *)
(*   rule_by_id  registered rules, in insertion order                      *)
(*   fixed_map   pool ids of the fixed packages of the request             *)
(*   detached    number of problems found before any decision: root        *)
(*               requires nobody provides, locked packages removed by a    *)
(*               filter list                                               *)
LiteralsOf(size) == (-size .. size) \ {0}

\* What RuleSetGenerator stores (rules_gen.rs): a rule is registered as a package
\* rule or as a request, unless it is a duplicate; requests ask for packages,
\* multi-conflicts exclude some; the root package, always fixed, is an assertion.
\* What is registered is in rule_by_id, a duplicate is of something registered.
Generated(r, size) ==
  /\ r \in [kind : RuleKinds, lits : SUBSET LiteralsOf(size), required : STRING,
            why : {0}, rule_type : {"package", "request", "none"}]
  /\ IF r.kind = "generic" THEN r.lits # {} ELSE Cardinality(r.lits) > 1
  /\ IsMulti(r) => r.rule_type # "request" /\ \A l \in r.lits : l < 0
  /\ r.rule_type = "request" => \A l \in r.lits : l > 0

ASSUME InstancesAssumption ==
  \A x \in Instances :
    /\ x.size \in Nat
    /\ x.detached \in Nat
    /\ x.fixed_map \subseteq 1 .. x.size
    /\ x.rules \in Seq(Range(x.rules)) /\ \A k \in DOMAIN x.rules : Generated(x.rules[k], x.size)
    /\ x.rule_by_id \in Seq({k \in DOMAIN x.rules : x.rules[k].rule_type # "none"})
    /\ \A k \in DOMAIN x.rules :
         \E j \in Range(x.rule_by_id) :
           /\ x.rules[j].kind = x.rules[k].kind /\ x.rules[j].lits = x.rules[k].lits
           /\ x.rules[k].rule_type # "none" => j = k
    /\ \E k \in DOMAIN x.rule_by_id : IsAssertion(x.rules[x.rule_by_id[k]])

VARIABLES
  inst,             \* the pool, the request and the policy of this call
  rules, rule_by_id,  \* RuleSet: storage and ruleById
  disabled,         \* ids of the rules whose `disabled` flag is set
  map, queue,       \* Decisions: package -> signed level, and the stack
  nodes, chains,    \* RuleWatchGraph
  propagate_index,  \* decisions already propagated
  cursor,           \* position in the chain being propagated
  branches,         \* alternatives left by select_and_install
  problems,         \* reported problems
  learned_pool,     \* learned_pool[why]: the rules a learned rule comes from
  level,            \* decision level (run_sat and set_propagate_learn)
  run,              \* the other locals of the loops
  an,               \* locals of analyze
  pc

decisionVars == <<map, queue>>
ruleVars     == <<rules, rule_by_id, disabled>>
watchVars    == <<nodes, chains>>
searchVars   == <<branches, problems, learned_pool>>
vars == <<inst, rules, rule_by_id, disabled, map, queue, nodes, chains,
          propagate_index, cursor, branches, problems, learned_pool, level,
          run, an, pc>>

Literals == LiteralsOf(inst.size)
Packages == 1 .. inst.size

-----------------------------------------------------------------------------
(* Decisions                                                               *)

Entry(l) == map[AbsOf(l)]
Satisfy(l) == (l > 0 /\ Entry(l) > 0) \/ (l < 0 /\ Entry(l) < 0)
Conflict(l) == (Entry(l) > 0 /\ l < 0) \/ (Entry(l) < 0 /\ l > 0)
Decided(l) == Entry(l) # 0
Undecided(l) == Entry(l) = 0
DecidedInstall(l) == Entry(l) > 0
DecisionLevel(l) == AbsOf(Entry(l))

\* decision_rule: the reason of the first decision on the package.
DecisionRule(l) ==
  LET first == CHOOSE k \in DOMAIN queue :
                 /\ AbsOf(queue[k].literal) = AbsOf(l)
                 /\ \A j \in 1 .. k - 1 : AbsOf(queue[j].literal) # AbsOf(l)
  IN queue[first].reason

\* add_decision refuses a literal out of the pool or already decided.  An
\* error of the code (SolverBug) is the absence of a step: SolverProperties
\* says that there is none, and the runs check for deadlocks.
CanDecide(m, l) == l \in Literals /\ m[AbsOf(l)] = 0

\* decide, on the stack <<m, q>> that a revert may have left.
DecideOn(m, q, l, lv, reason) ==
  /\ CanDecide(m, l)
  /\ map' = [m EXCEPT ![AbsOf(l)] = IF l > 0 THEN lv ELSE -lv]
  /\ queue' = Append(q, [literal |-> l, reason |-> reason])

Decide(l, lv, reason) == DecideOn(map, queue, l, lv, reason)

\* (mutant: the last of the decisions kept is erased as well)
MapKeepingOneLess(keep) ==
  [p \in DOMAIN map |->
    IF \E k \in (keep .. Len(queue)) \ {0} : AbsOf(queue[k].literal) = p
    THEN 0 ELSE map[p]]

\* The decision map once only the first `keep` decisions are left.
MapKeeping(keep) ==
  [p \in DOMAIN map |->
    IF \E k \in keep + 1 .. Len(queue) : AbsOf(queue[k].literal) = p
    THEN 0 ELSE map[p]]

\* (mutant: the decisions of level lv are popped as well)
KeepsBelow(keep, lv) ==
  /\ keep \in 0 .. Len(queue)
  /\ keep > 0 => DecisionLevel(queue[keep].literal) < lv
  /\ \A k \in keep + 1 .. Len(queue) : DecisionLevel(queue[k].literal) >= lv

\* revert(lv) pops the decisions down to the last one whose level is at most
\* lv (an undecided last literal, of level 0, would stop it as well) ...
Keeps(keep, lv) ==
  /\ keep \in 0 .. Len(queue)
  /\ keep > 0 => DecisionLevel(queue[keep].literal) <= lv
  /\ \A k \in keep + 1 .. Len(queue) : DecisionLevel(queue[k].literal) > lv

\* ... and the branches down to the last one taken below lv.
BranchesBelow(kept, bs, lv) ==
  /\ kept \in 0 .. Len(bs)
  /\ kept > 0 => bs[kept].level < lv
  /\ \A b \in kept + 1 .. Len(bs) : bs[b].level >= lv

PropagateIndexAfterRevert(keep) ==
  IF keep < Len(queue) THEN keep ELSE propagate_index

-----------------------------------------------------------------------------
(* The watch graph                                                         *)

\* RuleWatchNode::new: the first two literals (0 when there is none).
WatchNode(id, lits) ==
  LET first == CHOOSE l \in lits : IsFirst(l, lits)
      rest  == lits \ {first}
  IN [rule   |-> id,
      watch1 |-> first,
      watch2 |-> IF rest = {} THEN 0 ELSE CHOOSE l \in rest : IsFirst(l, rest)]

\* watch2_on_highest: of a rule of three literals or more, the second watch
\* is the first of the literals decided at the highest level, if any is.
Watch2OnHighest(node, lits, m) ==
  LET LevelIn(l) == AbsOf(m[AbsOf(l)])
      highest == {l \in lits : LevelIn(l) > 0 /\ \A k \in lits : LevelIn(k) <= LevelIn(l)}
  IN IF Cardinality(lits) < 3 \/ highest = {} THEN node
     ELSE [node EXCEPT !.watch2 = CHOOSE l \in highest : IsFirst(l, highest)]

\* (mutant: a node enters the chain of its first watch only)
FirstWatchEntries(k, node, r, l) ==
  IF IsMulti(r) THEN (IF l \in r.lits THEN <<k>> ELSE <<>>)
  ELSE (IF l = node.watch1 THEN <<k>> ELSE <<>>)

\* The entries a node adds at the head of the chain of l: all the literals
\* of a MultiConflict rule are watched, the two watches of another one
\* (twice in the same chain when the two are the same literal).
ChainEntries(k, node, r, l) ==
  IF IsMulti(r) THEN (IF l \in r.lits THEN <<k>> ELSE <<>>)
  ELSE (IF l = node.watch2 THEN <<k>> ELSE <<>>)
       \o (IF l = node.watch1 THEN <<k>> ELSE <<>>)

\* RuleWatchGraph::insert: nothing for an assertion.
InsertNode(node, r) ==
  IF IsAssertion(r) THEN UNCHANGED watchVars
  ELSE /\ nodes' = Append(nodes, node)
       /\ chains' = [l \in DOMAIN chains |->
                      ChainEntries(Len(nodes) + 1, node, r, l) \o chains[l]]

\* solve inserts a node per rule, packages first, then the requests.
InitialNodes(x) ==
  LET order == IdsOfType(x.rules, x.rule_by_id, "package")
               \o IdsOfType(x.rules, x.rule_by_id, "request")
      watched == Selected(order, {id \in DOMAIN x.rules : ~IsAssertion(x.rules[id])})
  IN [k \in DOMAIN watched |-> WatchNode(watched[k], x.rules[watched[k]].lits)]

InitialChains(x, ns) ==
  [l \in LiteralsOf(x.size) |->
    Reverse(Selected([k \in DOMAIN ns |-> k],
                     {k \in DOMAIN ns :
                        ChainEntries(k, ns[k], x.rules[ns[k].rule], l) # <<>>}))]

-----------------------------------------------------------------------------
(* Solver::new and the beginning of solve, up to make_assertion_rule_...   *)

NoAnalysis == [rule |-> 0, rule_level |-> 1, num |-> 0, l1num |-> 0, seen |-> {},
               learned |-> 0, others |-> {}, decision_id |-> 0]

NoRun == [rule_index |-> 1, system_level |-> 2, caller |-> "run_sat", o_level |-> 0,
          position |-> 1, i |-> 1, n |-> 0, rules_count |-> 0]

\* A problem: the ids of its rules; `detached` when it is a rule out of the
\* RuleSet that nothing satisfies.
DetachedProblem == [rules |-> {}, detached |-> TRUE]
ProblemOf(ids)  == [rules |-> ids, detached |-> FALSE]

Init ==
  /\ inst \in Instances
  /\ rules = inst.rules
  /\ rule_by_id = inst.rule_by_id
  /\ disabled = {}
  /\ map = [p \in 1 .. inst.size |-> 0]
  /\ queue = <<>>
  /\ nodes = InitialNodes(inst)
  /\ chains = InitialChains(inst, nodes)
  /\ propagate_index = 0
  /\ cursor = 1
  /\ branches = <<>>
  /\ problems = [k \in 1 .. inst.detached |-> DetachedProblem]
  /\ learned_pool = <<>>
  /\ level = 1
  /\ run = NoRun
  /\ an = NoAnalysis
  /\ pc = "assertions"

-----------------------------------------------------------------------------
(* make_assertion_rule_decisions: the rules of one literal, in ruleById    *)
(* order.  No decision has been made when it starts.                       *)

AssertionId == rule_by_id[run.rule_index]
AssertionLiteral == CHOOSE l \in rules[AssertionId].lits : TRUE
IsOpenAssertion == IsAssertion(rules[AssertionId]) /\ AssertionId \notin disabled

NextAssertion == run' = [run EXCEPT !.rule_index = @ + 1]

Asserting ==
  /\ pc = "assertions"
  /\ run.rule_index <= Len(rule_by_id)

AssertSkip ==
  /\ Asserting
  /\ IsOpenAssertion => Satisfy(AssertionLiteral)
  /\ NextAssertion
  /\ UNCHANGED <<inst, ruleVars, decisionVars, watchVars, propagate_index, cursor,
                 searchVars, level, an, pc>>

AssertDecide ==
  /\ Asserting
  /\ IsOpenAssertion /\ Undecided(AssertionLiteral)
  /\ Decide(AssertionLiteral, 1, AssertionId)
  /\ NextAssertion
  /\ UNCHANGED <<inst, ruleVars, watchVars, propagate_index, cursor, searchVars,
                 level, an, pc>>

\* The rule contradicts a decision.  Taken by a package rule: this rule alone
\* is disabled.  Taken by a request: every request on the package is, and the
\* pass starts again from no decision.
RequestsOn(l) ==
  {k \in DOMAIN rules :
     /\ rules[k].rule_type = "request" /\ k \notin disabled
     /\ IsAssertion(rules[k]) /\ AbsOf(l) \in PackagesOf(rules[k].lits)}

AssertConflict ==
  LET conflict  == DecisionRule(AssertionLiteral)
      byPackage == rules[conflict].rule_type = "package"
      withdrawn == IF byPackage THEN {AssertionId} ELSE RequestsOn(AssertionLiteral)
  IN /\ Asserting
     /\ IsOpenAssertion /\ Conflict(AssertionLiteral)
     /\ disabled' = disabled \cup withdrawn
     /\ problems' = Append(problems, ProblemOf({AssertionId, conflict} \cup withdrawn))
     /\ IF byPackage
        THEN UNCHANGED decisionVars /\ NextAssertion
        ELSE /\ map' = MapKeeping(0) /\ queue' = <<>>
             /\ run' = [run EXCEPT !.rule_index = 1]
     /\ UNCHANGED <<inst, rules, rule_by_id, watchVars, propagate_index, cursor,
                    branches, learned_pool, level, an, pc>>

AssertionsDone ==
  /\ pc = "assertions"
  /\ run.rule_index > Len(rule_by_id)
  /\ pc' = "run_sat"
  /\ UNCHANGED <<inst, ruleVars, decisionVars, watchVars, propagate_index, cursor,
                 searchVars, level, run, an>>

-----------------------------------------------------------------------------
(* run_sat: the head of its loop                                           *)

Requests == IdsOfType(rules, rule_by_id, "request")

\* The pass over all the rules starts: `if level < system_level`, and the
\* loop variables.
SweepFrom(lv, sl) ==
  /\ pc' = "sweep"
  /\ run' = [run EXCEPT !.system_level = IF lv < sl THEN lv ELSE sl,
                        !.rules_count = Len(rule_by_id), !.i = 1, !.n = 0]

\* The pass over the requests starts, or is skipped.
RequestsOrSweep ==
  IF level < run.system_level
  THEN pc' = "requests" /\ run' = [run EXCEPT !.position = 1]
  ELSE SweepFrom(level, run.system_level)

RunSat ==
  /\ pc = "run_sat"
  /\ IF level = 1
     THEN pc' = "propagate" /\ run' = [run EXCEPT !.caller = "run_sat"]
     ELSE RequestsOrSweep
  /\ UNCHANGED <<inst, ruleVars, decisionVars, watchVars, propagate_index, cursor,
                 searchVars, level, an>>

-----------------------------------------------------------------------------
(* propagate and propagate_literal                                         *)

Propagating ==
  /\ pc = "propagate"
  /\ propagate_index < Len(queue)

PropagatedLiteral == -queue[propagate_index + 1].literal
Chain == chains[PropagatedLiteral]
Visiting == Propagating /\ cursor <= Len(Chain)

Node == nodes[Chain[cursor]]
VisitedRule == rules[Node.rule]

\* other_watch
OtherWatch == IF Node.watch1 = PropagatedLiteral THEN Node.watch2 ELSE Node.watch1

Alternatives ==
  {l \in VisitedRule.lits : l # PropagatedLiteral /\ l # OtherWatch /\ ~Conflict(l)}

\* A MultiConflict rule asks for each of its other literals.
Pending == {l \in VisitedRule.lits : l # PropagatedLiteral /\ ~Satisfy(l)}

\* Nothing (more) to do for the rule of this node.
VisitSettled ==
  /\ Visiting
  /\ IF IsMulti(VisitedRule) THEN Pending = {}
     ELSE Node.rule \in disabled \/ Satisfy(OtherWatch)
  /\ cursor' = cursor + 1
  /\ UNCHANGED <<inst, ruleVars, decisionVars, watchVars, propagate_index,
                 searchVars, level, run, an, pc>>

\* move_watch, to the first literal that is not false: the node leaves this
\* chain (the cursor is now on the next one) and enters the head of another.
VisitMoveWatch ==
  /\ Visiting
  /\ ~IsMulti(VisitedRule) /\ Node.rule \notin disabled /\ ~Satisfy(OtherWatch)
  /\ \E to \in Alternatives :
       /\ IsFirst(to, Alternatives)
       /\ nodes' = [nodes EXCEPT ![Chain[cursor]] =
                      IF @.watch1 = PropagatedLiteral THEN [@ EXCEPT !.watch1 = to]
                      ELSE [@ EXCEPT !.watch2 = to]]
       /\ chains' = [chains EXCEPT ![PropagatedLiteral] = RemoveAt(@, cursor),
                                   ![to] = <<Chain[cursor]>> \o @]
  /\ UNCHANGED <<inst, ruleVars, decisionVars, propagate_index, cursor,
                 searchVars, level, run, an, pc>>

\* The literal the rule now asks for: the other watch, or the first pending
\* literal of a MultiConflict rule.
Asked(l) ==
  IF IsMulti(VisitedRule) THEN IsFirst(l, Pending)
  ELSE /\ Node.rule \notin disabled /\ ~Satisfy(OtherWatch)
       /\ Alternatives = {} /\ l = OtherWatch

VisitImply ==
  /\ Visiting
  /\ \E l \in VisitedRule.lits :
       /\ Asked(l)
       /\ ~Conflict(l)
       /\ Decide(l, level, Node.rule)
  /\ cursor' = IF IsMulti(VisitedRule) THEN cursor ELSE cursor + 1
  /\ UNCHANGED <<inst, ruleVars, watchVars, propagate_index, searchVars, level,
                 run, an, pc>>

\* The conflicting rule is handed to the caller.
VisitConflict ==
  /\ Visiting
  /\ \E l \in VisitedRule.lits : Asked(l) /\ Conflict(l)
  /\ an' = [an EXCEPT !.rule = Node.rule]
  /\ propagate_index' = propagate_index + 1
  /\ cursor' = 1
  /\ pc' = "conflict"
  /\ UNCHANGED <<inst, ruleVars, decisionVars, watchVars, searchVars, level, run>>

\* The chain is exhausted.
NextDecision ==
  /\ Propagating
  /\ cursor > Len(Chain)
  /\ propagate_index' = propagate_index + 1
  /\ cursor' = 1
  /\ UNCHANGED <<inst, ruleVars, decisionVars, watchVars, searchVars, level, run,
                 an, pc>>

\* propagate returns without a conflict, to run_sat or, through
\* set_propagate_learn, to the pass that called select_and_install.
Propagated ==
  /\ pc = "propagate"
  /\ propagate_index >= Len(queue)
  /\ \/ run.caller = "run_sat" /\ RequestsOrSweep
     \/ /\ run.caller = "requests"
        /\ IF level > run.o_level
           THEN pc' = "requests" /\ run' = [run EXCEPT !.position = @ + 1]
           ELSE IF run.position < Len(Requests)
           THEN pc' = "run_sat" /\ run' = [run EXCEPT !.system_level = level + 1]
           ELSE SweepFrom(level, level + 1)
     \/ /\ run.caller = "sweep"
        /\ pc' = "sweep"
        /\ run' = [run EXCEPT !.rules_count = Len(rule_by_id), !.n = 0]
     \/ run.caller = "branches" /\ pc' = "run_sat" /\ run' = run
  /\ UNCHANGED <<inst, ruleVars, decisionVars, watchVars, propagate_index, cursor,
                 searchVars, level, an>>

-----------------------------------------------------------------------------
(* analyze_unsolvable: a conflict that no decision can be blamed for       *)

\* analyze_unsolvable_rule: the request rules behind a rule, through the
\* rules a learned one comes from.
RequestsBehind(learned_from) ==
  LET behind[id \in DOMAIN rules] ==
        CASE rules[id].rule_type = "learned" ->
               UNION {behind[k] : k \in learned_from[rules[id].why]}
          [] rules[id].rule_type = "package" -> {}
          [] OTHER -> {id}
  IN behind

\* (mutant: the satisfied literals are followed instead)
TrueIn(id) == PackagesOf({l \in rules[id].lits : Satisfy(l)})

FalseIn(id) == PackagesOf({l \in rules[id].lits : ~Satisfy(l)})

\* The decisions the conflict follows from, found from the last one to the
\* first: seen[k] is what is looked for before decision k is examined.
UnsolvableProblem(conflict) ==
  LET len == Len(queue)
      seen[k \in 0 .. len] ==
        IF k = len THEN FalseIn(conflict)
        ELSE IF AbsOf(queue[k + 1].literal) \in seen[k + 1]
             THEN seen[k + 1] \cup FalseIn(queue[k + 1].reason)
             ELSE seen[k + 1]
      whys == {queue[k].reason : k \in {j \in DOMAIN queue :
                                          AbsOf(queue[j].literal) \in seen[j]}}
      behind == RequestsBehind(learned_pool)
      blamed == {conflict} \cup whys
  IN ProblemOf(blamed \cup UNION {behind[id] : id \in blamed})

Unsolvable ==
  /\ pc = "conflict"
  /\ level = 1
  /\ problems' = Append(problems, UnsolvableProblem(an.rule))
  /\ pc' = "done"
  /\ UNCHANGED <<inst, ruleVars, decisionVars, watchVars, propagate_index, cursor,
                 branches, learned_pool, level, run, an>>

-----------------------------------------------------------------------------
(* analyze: the learned rule of a conflict above level 1                   *)

BeginAnalysis ==
  /\ pc = "conflict"
  /\ level > 1
  /\ learned_pool' = Append(learned_pool, {})
  /\ an' = [NoAnalysis EXCEPT !.rule = an.rule, !.decision_id = Len(queue)]
  /\ pc' = "resolve"
  /\ UNCHANGED <<inst, ruleVars, decisionVars, watchVars, propagate_index, cursor,
                 branches, problems, level, run>>

\* The counters after looking at a set of false literals not seen yet: those
\* of level 1, those of the current level, and the others, which are kept.
Count(a, lits) ==
  LET others == {l \in lits : DecisionLevel(l) \notin {1, level}}
  IN [a EXCEPT
       !.seen = @ \cup PackagesOf(lits),
       !.l1num = @ + Cardinality({l \in lits : DecisionLevel(l) = 1}),
       !.num = @ + Cardinality({l \in lits : DecisionLevel(l) = level}),
       !.others = @ \cup others,
       !.rule_level = CHOOSE v \in {@} \cup {DecisionLevel(l) : l \in others} :
                        \A w \in {@} \cup {DecisionLevel(l) : l \in others} : w <= v]

\* Body of the outer loop: the literals of one rule.
NewlySeen ==
  {l \in rules[an.rule].lits :
     /\ IsMulti(rules[an.rule]) => Decided(l)
     /\ ~Satisfy(l)
     /\ AbsOf(l) \notin an.seen}

Resolve ==
  /\ pc = "resolve"
  /\ learned_pool' = [learned_pool EXCEPT ![Len(learned_pool)] = @ \cup {an.rule}]
  /\ an' = Count(an, NewlySeen)
  /\ pc' = "walk"
  /\ UNCHANGED <<inst, ruleVars, decisionVars, watchVars, propagate_index, cursor,
                 branches, problems, level, run>>

\* (mutant: the literals of level 1 are forgotten)
NoL1Num == 0

\* The l1retry loop.  `if num == 0 { l1num -= 1; if l1num == 0 { break 'outer } }`
L1Num == IF an.num = 0 THEN an.l1num - 1 ELSE an.l1num
NothingLeft == an.num = 0 /\ L1Num = 0

\* (mutant: off by one, the decision at decision_id is passed over)
IsEarlierSeen(d) ==
  /\ d \in 1 .. an.decision_id - 1
  /\ AbsOf(queue[d].literal) \in an.seen
  /\ \A k \in d + 1 .. an.decision_id - 1 : AbsOf(queue[k].literal) \notin an.seen

\* The last decision below decision_id on a package seen.
IsLastSeen(d) ==
  /\ d \in 1 .. an.decision_id
  /\ AbsOf(queue[d].literal) \in an.seen
  /\ \A k \in d + 1 .. an.decision_id : AbsOf(queue[k].literal) \notin an.seen

WalkEnd ==
  /\ pc = "walk"
  /\ NothingLeft
  /\ an' = [an EXCEPT !.l1num = L1Num]
  /\ pc' = "learn"
  /\ UNCHANGED <<inst, ruleVars, decisionVars, watchVars, propagate_index, cursor,
                 searchVars, level, run>>

\* The last literal of the current level: it is the one to learn.  Done if no
\* literal of level 1 was met; otherwise the walk goes on, for the sake of
\* learned_pool, down to the decisions of level 1.
WalkLearn ==
  /\ pc = "walk"
  /\ an.num = 1
  /\ \E d \in 1 .. Len(queue) :
       /\ IsLastSeen(d)
       /\ LET seen == an.seen \ {AbsOf(queue[d].literal)}
              here == [an EXCEPT !.decision_id = d - 1, !.num = 0,
                                 !.learned = -queue[d].literal, !.seen = seen]
          IN IF L1Num = 0
             THEN an' = here /\ pc' = "learn"
             ELSE /\ an' = [here EXCEPT !.seen = seen \ PackagesOf(an.others),
                                        !.l1num = L1Num + 1]
                  /\ pc' = "walk"
  /\ UNCHANGED <<inst, ruleVars, decisionVars, watchVars, propagate_index, cursor,
                 searchVars, level, run>>

\* Another literal: it is replaced by its reason.  Of a MultiConflict reason
\* only the first installed package not seen yet is taken, and the walk goes on.
Installed(r, seen) == {l \in r.lits : AbsOf(l) \notin seen /\ Satisfy(-l)}

WalkReason ==
  /\ pc = "walk"
  /\ ~NothingLeft /\ an.num # 1
  /\ \E d \in 1 .. Len(queue) :
       /\ IsLastSeen(d)
       /\ LET reason == queue[d].reason
              here == [an EXCEPT !.decision_id = d - 1, !.l1num = L1Num,
                                 !.num = IF @ = 0 THEN 0 ELSE @ - 1,
                                 !.seen = @ \ {AbsOf(queue[d].literal)}]
              open == Installed(rules[reason], here.seen)
              taken == {l \in open : IsFirst(l, open)}
          IN IF IsMulti(rules[reason])
             THEN /\ an' = [Count(here, taken) EXCEPT !.rule = reason]
                  /\ learned_pool' = IF taken = {} THEN learned_pool
                       ELSE [learned_pool EXCEPT ![Len(learned_pool)] = @ \cup {reason}]
                  /\ pc' = "walk"
             ELSE /\ an' = [here EXCEPT !.rule = reason]
                  /\ pc' = "resolve"
                  /\ UNCHANGED learned_pool
  /\ UNCHANGED <<inst, ruleVars, decisionVars, watchVars, propagate_index, cursor,
                 branches, problems, level, run>>

-----------------------------------------------------------------------------
(* set_propagate_learn                                                     *)

\* Its beginning: the literal opens the next level.
SetPropagateLearn(m, q, lv, l, reason) ==
  /\ DecideOn(m, q, l, lv + 1, reason)
  /\ level' = lv + 1
  /\ pc' = "propagate"
  /\ cursor' = 1

\* After analyze: back to the level of the learned rule, which now decides
\* its own literal.  A duplicate is stored, watched and used as a reason too.
Learn ==
  /\ pc = "learn"
  /\ an.learned # 0 /\ an.rule_level \in 1 .. level - 1
  /\ \E keep \in 0 .. Len(queue), kept \in 0 .. Len(branches) :
       LET r == Learned({an.learned} \cup an.others, Len(learned_pool))
           id == Len(rules) + 1
           m == MapKeeping(keep)
       IN /\ Keeps(keep, an.rule_level)
          /\ BranchesBelow(kept, branches, an.rule_level)
          /\ rules' = AddToStorage(rules, r, "learned")
          /\ rule_by_id' = AddToRuleById(rules, rule_by_id, r)
          /\ InsertNode(Watch2OnHighest(WatchNode(id, r.lits), r.lits, m), r)
          /\ DecideOn(m, SubSeq(queue, 1, keep), an.learned, an.rule_level, id)
          /\ propagate_index' = PropagateIndexAfterRevert(keep)
          /\ branches' = SubSeq(branches, 1, kept)
  /\ level' = an.rule_level
  /\ an' = NoAnalysis
  /\ pc' = "propagate"
  /\ UNCHANGED <<inst, disabled, cursor, problems, learned_pool, run>>

\* select_and_install: the preferred literal is decided, the others are kept
\* as a branch of the current level.
SelectAndInstall(candidates, id) ==
  LET chosen == SelectPreferred(inst, candidates, rules[id].required)
  IN /\ branches' = IF Len(chosen) = 1 THEN branches
                    ELSE Append(branches, [literals |-> Tail(chosen), level |-> level])
     /\ SetPropagateLearn(map, queue, level, Head(chosen), id)
     /\ UNCHANGED <<inst, ruleVars, watchVars, propagate_index, problems, learned_pool, an>>

-----------------------------------------------------------------------------
(* run_sat: the pass over the request rules                                *)

Requesting == pc = "requests" /\ run.position <= Len(Requests)
RequestRule == rules[Requests[run.position]]

RequestCandidates ==
  LET open == {l \in RequestRule.lits : l > 0 /\ Undecided(l)}
      fixed == open \cap inst.fixed_map
  IN IF fixed # {} THEN fixed ELSE open

RequestIsOpen ==
  /\ Requests[run.position] \notin disabled
  /\ \A l \in RequestRule.lits : ~Satisfy(l)
  /\ RequestCandidates # {}

SkipRequest ==
  /\ Requesting
  /\ ~RequestIsOpen
  /\ run' = [run EXCEPT !.position = @ + 1]
  /\ UNCHANGED <<inst, ruleVars, decisionVars, watchVars, propagate_index, cursor,
                 searchVars, level, an, pc>>

InstallRequest ==
  /\ Requesting
  /\ RequestIsOpen
  /\ SelectAndInstall(RequestCandidates, Requests[run.position])
  /\ run' = [run EXCEPT !.caller = "requests", !.o_level = level]
  /\ UNCHANGED disabled

RequestsDone ==
  /\ pc = "requests"
  /\ run.position > Len(Requests)
  /\ SweepFrom(level, level + 1)
  /\ UNCHANGED <<inst, ruleVars, decisionVars, watchVars, propagate_index, cursor,
                 searchVars, level, an>>

-----------------------------------------------------------------------------
(* run_sat: the pass over all the rules, until none of rules_count in a row *)
(* leaves a choice                                                         *)

Sweeping == pc = "sweep" /\ run.n < run.rules_count
SweptAt == IF run.i = run.rules_count + 1 THEN 1 ELSE run.i
SweptId == rule_by_id[SweptAt]
SweptRule == rules[SweptId]
NextSwept == [run EXCEPT !.i = SweptAt + 1, !.n = @ + 1]

SweepCandidates == {l \in SweptRule.lits : l > 0 /\ Undecided(l)}

\* (mutant: a choice between two packages is left open)
SweepIsWide ==
  /\ SweptId \notin disabled
  /\ \A l \in SweptRule.lits : DecidedInstall(l) <=> l < 0
  /\ Cardinality(SweepCandidates) > 2

\* Every package the rule is about is installed, none of those it asks for
\* is, and at least two still can be.
SweepIsOpen ==
  /\ SweptId \notin disabled
  /\ \A l \in SweptRule.lits : DecidedInstall(l) <=> l < 0
  /\ Cardinality(SweepCandidates) >= 2

SkipRule ==
  /\ Sweeping
  /\ ~SweepIsOpen
  /\ run' = NextSwept
  /\ UNCHANGED <<inst, ruleVars, decisionVars, watchVars, propagate_index, cursor,
                 searchVars, level, an, pc>>

InstallProvider ==
  /\ Sweeping
  /\ SweepIsOpen
  /\ SelectAndInstall(SweepCandidates, SweptId)
  /\ run' = [NextSwept EXCEPT !.caller = "sweep"]
  /\ UNCHANGED disabled

Swept ==
  /\ pc = "sweep"
  /\ run.n >= run.rules_count
  /\ pc' = IF level < run.system_level THEN "run_sat" ELSE "branches"
  /\ UNCHANGED <<inst, ruleVars, decisionVars, watchVars, propagate_index, cursor,
                 searchVars, level, run, an>>

-----------------------------------------------------------------------------
(* run_sat: the alternatives left open                                     *)

\* Installed or rejected above the level of the branch it belongs to.
IsOpenAlternative(b, k) ==
  /\ b \in DOMAIN branches
  /\ k \in DOMAIN branches[b].literals
  /\ branches[b].literals[k] > 0
  /\ DecisionLevel(branches[b].literals[k]) > branches[b].level + 1

\* The search goes from the last branch to the first and keeps the last hit.
IsLastAlternative(b, k) ==
  /\ IsOpenAlternative(b, k)
  /\ \A c \in DOMAIN branches : \A j \in DOMAIN branches[c].literals :
       IsOpenAlternative(c, j) => b < c \/ (b = c /\ j <= k)

\* The alternative is tried instead, for the reason of the last decision
\* that is left.
RetryBranch ==
  /\ pc = "branches"
  /\ \E b \in DOMAIN branches : \E k \in DOMAIN branches[b].literals :
       /\ IsLastAlternative(b, k)
       /\ \E keep \in 1 .. Len(queue), kept \in 0 .. Len(branches) :
            LET lv == branches[b].level
                remaining == [branches EXCEPT ![b] =
                                [literals |-> RemoveAt(@.literals, k), level |-> lv]]
            IN /\ Keeps(keep, lv)
               /\ BranchesBelow(kept, remaining, lv)
               /\ branches' = SubSeq(remaining, 1, kept)
               /\ propagate_index' = PropagateIndexAfterRevert(keep)
               /\ SetPropagateLearn(MapKeeping(keep), SubSeq(queue, 1, keep), lv,
                                    branches[b].literals[k], queue[keep].reason)
  /\ run' = [run EXCEPT !.caller = "branches"]
  /\ UNCHANGED <<inst, ruleVars, watchVars, problems, learned_pool, an>>

BranchesDone ==
  /\ pc = "branches"
  /\ \A b \in DOMAIN branches : \A k \in DOMAIN branches[b].literals :
       ~IsOpenAlternative(b, k)
  /\ pc' = "done"
  /\ UNCHANGED <<inst, ruleVars, decisionVars, watchVars, propagate_index, cursor,
                 searchVars, level, run, an>>

-----------------------------------------------------------------------------
(* Specification                                                           *)

Terminated == pc = "done" /\ UNCHANGED vars

Next ==
  \/ AssertSkip \/ AssertDecide \/ AssertConflict \/ AssertionsDone
  \/ RunSat
  \/ VisitSettled \/ VisitMoveWatch \/ VisitImply \/ VisitConflict
  \/ NextDecision \/ Propagated
  \/ Unsolvable \/ BeginAnalysis \/ Resolve
  \/ WalkEnd \/ WalkLearn \/ WalkReason \/ Learn
  \/ SkipRequest \/ InstallRequest \/ RequestsDone
  \/ SkipRule \/ InstallProvider \/ Swept
  \/ RetryBranch \/ BranchesDone
  \/ Terminated

\* The solver is one sequential call: it takes its next step.
Spec == Init /\ [][Next]_vars /\ WF_vars(Next)
=============================================================================
