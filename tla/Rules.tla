------------------------------- MODULE Rules -------------------------------
(***************************************************************************)
(* Rules of the dependency solver (resolver/src/rule.rs).  A literal is a  *)
(* signed pool id: p stands for "package p is installed", -p for "p is not *)
(* installed".  A rule is the disjunction of its literals, except that a   *)
(* MultiConflict rule {-p, -q, ...} stands for every pair of its literals. *)
(* The code keeps the literals sorted; here they are a set, and "the first *)
(* literal such that" is the least literal such that.                      *)
(***************************************************************************)
EXTENDS Integers, Sequences, FiniteSets, Selection

RuleKinds == {"generic", "two_literals", "multi_conflict"}

\* "none" is the rule_type of a rule that RuleSet::add rejected as a duplicate.
RuleTypes == {"package", "request", "learned", "none"}

AbsOf(l) == IF l < 0 THEN -l ELSE l

PackagesOf(lits) == {AbsOf(l) : l \in lits}

\* l is the first literal of the sorted list that is in S.
IsFirst(l, S) == l \in S /\ \A m \in S : l <= m

\* A rule before it enters a RuleSet.  `required` is required_package (the
\* name the policy is given), `why` the index of Reason::Learned.
NewRule(kind, lits, required, why) ==
  [kind |-> kind, lits |-> lits, required |-> required, why |-> why,
   rule_type |-> "none"]

Generic(lits, required)  == NewRule("generic", lits, required, 0)
TwoLiterals(l1, l2)      == NewRule("two_literals", {l1, l2}, "", 0)
MultiConflict(lits)      == NewRule("multi_conflict", lits, "", 0)
Learned(lits, why)       == NewRule("generic", lits, "", why)

IsMulti(r) == r.kind = "multi_conflict"

IsAssertion(r) == r.kind = "generic" /\ Cardinality(r.lits) = 1

\* The deduplication key of RuleSet is (class, literals); a rule that is in
\* the storage without being registered has no key.
IsDuplicate(rules, r) ==
  \E i \in DOMAIN rules :
    /\ rules[i].rule_type # "none"
    /\ rules[i].kind = r.kind
    /\ rules[i].lits = r.lits

\* RuleSet::add: the rule is always stored; it is registered (typed, listed
\* in rule_by_id) only when it is not a duplicate.
AddToStorage(rules, r, type) ==
  Append(rules, IF IsDuplicate(rules, r) THEN r
                ELSE [r EXCEPT !.rule_type = type])

AddToRuleById(rules, rule_by_id, r) ==
  IF IsDuplicate(rules, r) THEN rule_by_id
  ELSE Append(rule_by_id, Len(rules) + 1)

IdsOfType(rules, rule_by_id, type) ==
  Selected(rule_by_id, {id \in DOMAIN rules : rules[id].rule_type = type})

\* A set S of installed packages satisfies a rule.
Holds(S, r) ==
  IF IsMulti(r)
  THEN \A l, m \in r.lits : l # m => ~(-l \in S /\ -m \in S)
  ELSE \E l \in r.lits : IF l > 0 THEN l \in S ELSE -l \notin S
============================================================================
