---------------------------- MODULE AnswerProofs ----------------------------
(***************************************************************************)
(* The answers of the solver are right, for every pool and every request:  *)
(* between two choices no rule is left that asks for something, and what   *)
(* the solver says in the end is a resolution of the rules it was given.   *)
(*                                                                         *)
(* AnswerInv adds to SolverInv, in parts as well, what the watches see of  *)
(* the decisions that are propagated (SeenInv), that the chains find every *)
(* node to visit (ChainInv), how far the visit of a chain is (ProgressInv),*)
(* which rules the graph knows (EnrolInv), and how far the pass over the   *)
(* rules is (SweepInv).                                                    *)
(***************************************************************************)
EXTENDS SolverProofs

(***************************************************************************)
(* The invariant.                                                          *)
(***************************************************************************)

\* From a conflict on, until the solver goes back, the decisions of the current
\* level are as good as not propagated.
InConflict == pc \in {"conflict", "resolve", "walk", "learn", "done"}

\* l is false, by a decision that was propagated.
FalseSeen(l) ==
  \E k \in 1 .. propagate_index :
    queue[k].literal = -l /\ (InConflict => LevelAt(k) < level)

\* m is true at the level of l or before: it stays true as long as l is false.
TrueBy(m, l) == Satisfy(m) /\ DecisionLevel(m) <= DecisionLevel(l)

PairSees(w, o) == FalseSeen(w) => TrueBy(o, w)

\* A generated rule with a false watch is satisfied by the other one.  A
\* learned rule is satisfied when both are false: a revert may leave its first
\* watch false.  A MultiConflict rule with a false literal has the others true.
NodeSees(node) ==
  LET r == rules[node.rule]
      w1 == node.watch1
      w2 == node.watch2
  IN /\ IsMulti(r) => \A l \in r.lits : \A m \in r.lits \ {l} : PairSees(l, m)
     /\ ~IsMulti(r) /\ r.why = 0 => PairSees(w1, w2) /\ PairSees(w2, w1)
     /\ r.why > 0 => (FalseSeen(w1) /\ FalseSeen(w2) =>
                        \E m \in r.lits : TrueBy(m, w1) \/ TrueBy(m, w2))

SeenInv == \A k \in DOMAIN nodes : NodeSees(nodes[k])

\* How often k is in a chain s.
Has(s, k) == \E i \in 1 .. Len(s) : s[i] = k
AtMostOnce(s, k) == \A i, j \in 1 .. Len(s) : s[i] = k /\ s[j] = k => i = j
Twice(s, k) == \E i, j \in 1 .. Len(s) : i # j /\ s[i] = k /\ s[j] = k

\* Where node k is in the chains.  A generated rule is once in the chains of its
\* two watches, which differ; a learned one whose watches are the same literal
\* is twice in its chain.
NodeChained(k) ==
  LET r == rules[nodes[k].rule]
      w1 == nodes[k].watch1
      w2 == nodes[k].watch2
  IN /\ IsMulti(r) => \A l \in r.lits : Has(chains[l], k)
     /\ ~IsMulti(r) /\ r.why = 0 =>
          /\ w1 # w2
          /\ \A l \in Literals : (Has(chains[l], k) <=> l \in {w1, w2}) /\ AtMostOnce(chains[l], k)
     /\ r.why > 0 =>
          /\ Has(chains[w1], k) /\ Has(chains[w2], k)
          /\ w1 = w2 => Twice(chains[w1], k)

ChainInv == \A k \in DOMAIN nodes : NodeChained(k)

\* Nothing is left to do for node k, visited in the chain of the literal that
\* is being propagated.
PassedBy(k) ==
  LET r == rules[nodes[k].rule]
      w1 == nodes[k].watch1
      w2 == nodes[k].watch2
  IN IF IsMulti(r) THEN \A m \in r.lits \ {PropagatedLiteral} : Satisfy(m)
     ELSE PropagatedLiteral \in {w1, w2} => Satisfy(w1) \/ Satisfy(w2)

ProgressInv ==
  /\ pc # "propagate" \/ propagate_index = Len(queue) => cursor = 1
  /\ Propagating => \A j \in 1 .. cursor - 1 : j <= Len(Chain) => PassedBy(Chain[j])

\* In a conflict too, what is not propagated is at the current level.
PendingInv ==
  InConflict => \A k \in propagate_index + 1 .. Len(queue) : LevelAt(k) = level

\* Every registered rule is listed and, unless it is an assertion, watched;
\* only assertions are disabled, each with a problem.
EnrolInv ==
  /\ \A id \in RuleIds : rules[id].rule_type # "none" => id \in Range(rule_by_id)
  /\ \A id \in RuleIds : rules[id].rule_type # "none" /\ ~IsAssertion(rules[id]) =>
       \E k \in DOMAIN nodes : nodes[k].rule = id
  /\ \A k \in DOMAIN nodes : ~IsAssertion(rules[nodes[k].rule])
  /\ \A id \in disabled : IsAssertion(rules[id])
  /\ problems = <<>> => disabled = {}

\* What the generator gave is kept; the rest was learned.  Problems found before
\* any decision stay, and only they are detached.
GivenInv ==
  /\ inst \in Instances
  /\ \A k \in DOMAIN inst.rules : k \in RuleIds /\ rules[k] = inst.rules[k]
  /\ \A id \in RuleIds : rules[id].why = 0 => id \in DOMAIN inst.rules
  /\ inst.detached = 0 => \A k \in DOMAIN problems : ~problems[k].detached
  /\ inst.detached > 0 => problems # <<>>

\* Once the search has begun, an assertion that is enabled is satisfied for good.
AssertedInv ==
  pc # "assertions" =>
    \A id \in RuleIds :
      IsAssertion(rules[id]) /\ rules[id].rule_type # "none" /\ id \notin disabled =>
        \E l \in rules[id].lits : Satisfy(l) /\ DecisionLevel(l) = 1

\* The level the analysis goes back to is that of a literal it keeps.
Reached(a) == \/ a.others = {} /\ a.rule_level = 1
              \/ \E l \in a.others : DecisionLevel(l) = a.rule_level

ReachedInv == InAnalysis => Reached(an)

\* A rule asks for a choice, as SweepIsOpen says of the one swept.
RuleIsOpen(id) ==
  /\ id \notin disabled
  /\ \A l \in rules[id].lits : DecidedInstall(l) <=> l < 0
  /\ Cardinality({l \in rules[id].lits : l > 0 /\ Undecided(l)}) >= 2

\* Rule q is one of the last n swept, going round, when the next is i, of c rules.
IsSwept(q, i, n, c) == i - q \in 1 .. n \/ (i - q) + c \in 1 .. n

\* Those ask for none.
SweepInv ==
  /\ pc = "sweep" =>
       /\ run.rules_count = Len(rule_by_id)
       /\ \A q \in 1 .. run.rules_count :
            IsSwept(q, run.i, run.n, run.rules_count) => ~RuleIsOpen(rule_by_id[q])
  /\ pc = "branches" => \A q \in DOMAIN rule_by_id : ~RuleIsOpen(rule_by_id[q])

AnswerInv ==
  /\ SeenInv /\ ChainInv /\ ProgressInv /\ PendingInv
  /\ EnrolInv /\ GivenInv /\ AssertedInv /\ ReachedInv /\ SweepInv
  /\ AnswerHolds

-----------------------------------------------------------------------------
(***************************************************************************)
(* Sequences.                                                              *)
(***************************************************************************)

\* Elements put in front of a chain add their own and move the others.
LEMMA PrependedOthers ==
  ASSUME NEW S, NEW s \in Seq(S), NEW t \in Seq(S), NEW k, \A i \in 1 .. Len(s) : s[i] # k
  PROVE  /\ Has(s \o t, k) <=> Has(t, k)
         /\ AtMostOnce(t, k) => AtMostOnce(s \o t, k)
         /\ Twice(t, k) => Twice(s \o t, k)
<1> DEFINE m == Len(s)
           n == Len(t)
           u == s \o t
<1>1. /\ m \in Nat /\ n \in Nat /\ Len(u) = m + n
      /\ \A i \in 1 .. m : u[i] = s[i]
      /\ \A i \in 1 .. n : u[m + i] = t[i]
  BY JoinedElements
<1>2. \A i \in 1 .. m : u[i] # k
  BY <1>1
<1> HIDE DEF u
<1>3. ASSUME NEW i \in 1 .. m + n, u[i] = k
      PROVE  i - m \in 1 .. n /\ t[i - m] = k
  <2>1. i \notin 1 .. m
    BY <1>2, <1>3
  <2>2. i - m \in 1 .. n /\ m + (i - m) = i
    BY <1>1, <2>1
  <2> QED
    BY <1>1, <1>3, <2>2
<1>4. \A i \in 1 .. n : m + i \in 1 .. m + n /\ u[m + i] = t[i]
  BY <1>1
<1> HIDE DEF m, n
<1>5. Has(u, k) <=> Has(t, k)
  BY <1>1, <1>3, <1>4 DEF Has, n
<1>6. ASSUME AtMostOnce(t, k)
      PROVE  AtMostOnce(u, k)
  <2> SUFFICES ASSUME NEW i \in 1 .. m + n, NEW j \in 1 .. m + n, u[i] = k, u[j] = k
               PROVE  i = j
    BY <1>1 DEF AtMostOnce
  <2>1. i - m = j - m
    BY <1>3, <1>6 DEF AtMostOnce, n
  <2> QED
    BY <2>1, <1>1
<1>7. ASSUME Twice(t, k)
      PROVE  Twice(u, k)
  <2>1. PICK i \in 1 .. n, j \in 1 .. n : i # j /\ t[i] = k /\ t[j] = k
    BY <1>7 DEF Twice, n
  <2>2. m + i # m + j
    BY <2>1, <1>1
  <2> QED
    BY <2>1, <2>2, <1>1, <1>4 DEF Twice
<1> QED
  BY <1>5, <1>6, <1>7 DEF u

\* An element put in front of a chain it was not in.
LEMMA PrependedOnce ==
  ASSUME NEW S, NEW k \in S, NEW t \in Seq(S), ~Has(t, k)
  PROVE  Has(<<k>> \o t, k) /\ AtMostOnce(<<k>> \o t, k)
<1> DEFINE n == Len(t)
           u == <<k>> \o t
<1>0. <<k>> \in Seq(S) /\ Len(<<k>>) = 1 /\ <<k>>[1] = k
  OBVIOUS
<1>1. /\ n \in Nat /\ Len(u) = 1 + n /\ u[1] = k
      /\ \A i \in 1 .. n : u[1 + i] = t[i]
  <2>1. /\ n \in Nat /\ Len(u) = Len(<<k>>) + n
        /\ \A i \in 1 .. Len(<<k>>) : u[i] = <<k>>[i]
        /\ \A i \in 1 .. n : u[Len(<<k>>) + i] = t[i]
    BY <1>0, JoinedElements
  <2> QED
    BY <2>1, <1>0
<1> HIDE DEF u
<1>2. ASSUME NEW i \in 1 .. 1 + n, u[i] = k
      PROVE  i = 1
  <2> SUFFICES ASSUME i # 1 PROVE FALSE
    OBVIOUS
  <2>1. i - 1 \in 1 .. n /\ 1 + (i - 1) = i
    BY <1>1
  <2>2. t[i - 1] = k
    BY <1>1, <1>2, <2>1
  <2> QED
    BY <2>1, <2>2 DEF Has
<1>3. 1 \in 1 .. 1 + n
  BY <1>1
<1> QED
  BY <1>1, <1>2, <1>3 DEF Has, AtMostOnce, u

\* It is in front in any case.
LEMMA PrependedHas ==
  ASSUME NEW S, NEW k \in S, NEW t \in Seq(S)
  PROVE  Has(<<k>> \o t, k)
<1> DEFINE u == <<k>> \o t
<1>0. <<k>> \in Seq(S) /\ Len(<<k>>) = 1 /\ <<k>>[1] = k
  OBVIOUS
<1>1. /\ Len(t) \in Nat /\ Len(u) = Len(<<k>>) + Len(t)
      /\ \A i \in 1 .. Len(<<k>>) : u[i] = <<k>>[i]
  BY <1>0, JoinedElements
<1>2. u[1] = k /\ 1 \in 1 .. Len(u)
  BY <1>0, <1>1
<1> QED
  BY <1>2 DEF Has

\* The elements left by RemoveAt.
LEMMA RemovedAt ==
  ASSUME NEW S, NEW s \in Seq(S), NEW c \in 1 .. Len(s)
  PROVE  /\ Len(s) \in Nat /\ RemoveAt(s, c) \in Seq(S) /\ Len(RemoveAt(s, c)) = Len(s) - 1
         /\ \A i \in 1 .. c - 1 : RemoveAt(s, c)[i] = s[i]
         /\ \A i \in c + 1 .. Len(s) : RemoveAt(s, c)[i - 1] = s[i]
<1> DEFINE n == Len(s)
           a == SubSeq(s, 1, c - 1)
           b == SubSeq(s, c + 1, n)
<1>1. n \in Nat /\ \A i \in 1 .. n : s[i] \in S
  BY ElementOfSeq
<1>2. a \in Seq(S) /\ Len(a) = c - 1 /\ \A i \in 1 .. c - 1 : a[i] = s[i]
  <2>1. /\ SubSeq(s, 1, c - 1) \in Seq(S)
        /\ Len(SubSeq(s, 1, c - 1)) = IF 1 <= c - 1 THEN (c - 1) - 1 + 1 ELSE 0
        /\ \A i \in 1 .. (c - 1) - 1 + 1 : SubSeq(s, 1, c - 1)[i] = s[1 + i - 1]
    BY <1>1, SubSeqProperties
  <2>2. \A i \in 1 .. c - 1 : i \in 1 .. (c - 1) - 1 + 1 /\ 1 + i - 1 = i
    BY <1>1
  <2>3. Len(a) = c - 1
    BY <2>1, <1>1
  <2> QED
    BY <2>1, <2>2, <2>3
<1>3. b \in Seq(S) /\ Len(b) = n - c /\ \A i \in 1 .. n - c : b[i] = s[c + i]
  <2>1. /\ SubSeq(s, c + 1, n) \in Seq(S)
        /\ Len(SubSeq(s, c + 1, n)) = IF c + 1 <= n THEN n - (c + 1) + 1 ELSE 0
        /\ \A i \in 1 .. n - (c + 1) + 1 : SubSeq(s, c + 1, n)[i] = s[(c + 1) + i - 1]
    BY <1>1, SubSeqProperties
  <2>2. \A i \in 1 .. n - c : i \in 1 .. n - (c + 1) + 1 /\ (c + 1) + i - 1 = c + i
    BY <1>1
  <2>3. Len(b) = n - c
    BY <2>1, <1>1
  <2> QED
    BY <2>1, <2>2, <2>3
<1> HIDE DEF a, b
<1>4. RemoveAt(s, c) = a \o b
  BY DEF RemoveAt, a, b
<1>4a. a \in Seq(S) /\ b \in Seq(S)
  BY <1>2, <1>3
<1>5. /\ a \o b \in Seq(S) /\ Len(a \o b) = Len(a) + Len(b)
      /\ \A i \in 1 .. Len(a) : (a \o b)[i] = a[i]
      /\ \A i \in 1 .. Len(b) : (a \o b)[Len(a) + i] = b[i]
  BY <1>4a, JoinedElements
<1>6. Len(a \o b) = n - 1
  BY <1>1, <1>2, <1>3, <1>5
<1>7. \A i \in 1 .. c - 1 : (a \o b)[i] = s[i]
  BY <1>2, <1>5
<1>8. ASSUME NEW i \in c + 1 .. n
      PROVE  (a \o b)[i - 1] = s[i]
  <2>1. i - c \in 1 .. n - c /\ (c - 1) + (i - c) = i - 1 /\ c + (i - c) = i
    BY <1>1
  <2>2. (a \o b)[(c - 1) + (i - c)] = b[i - c]
    BY <1>2, <1>3, <1>5, <2>1
  <2> QED
    BY <1>3, <2>1, <2>2
<1> QED
  BY <1>1, <1>4, <1>5, <1>6, <1>7, <1>8

\* Where an element of what RemoveAt leaves comes from.
LEMMA RemovedFrom ==
  ASSUME NEW S, NEW s \in Seq(S), NEW c \in 1 .. Len(s), NEW i \in 1 .. Len(s) - 1
  PROVE  \E j \in 1 .. Len(s) : /\ j # c /\ RemoveAt(s, c)[i] = s[j]
                                /\ j = IF i < c THEN i ELSE i + 1
<1>1. Len(s) \in Nat
  BY RemovedAt
<1>2. CASE i < c
  <2>1. i \in 1 .. c - 1 /\ i \in 1 .. Len(s) /\ i # c
    BY <1>1, <1>2
  <2> QED
    BY <1>2, <2>1, RemovedAt
<1>3. CASE ~(i < c)
  <2>1. i + 1 \in c + 1 .. Len(s) /\ i + 1 \in 1 .. Len(s) /\ i + 1 # c /\ (i + 1) - 1 = i
    BY <1>1, <1>3
  <2>2. RemoveAt(s, c)[(i + 1) - 1] = s[i + 1]
    BY <2>1, RemovedAt
  <2> QED
    BY <1>3, <2>1, <2>2
<1> QED
  BY <1>2, <1>3

\* And where it goes.
LEMMA RemovedTo ==
  ASSUME NEW S, NEW s \in Seq(S), NEW c \in 1 .. Len(s), NEW j \in 1 .. Len(s), j # c
  PROVE  \E i \in 1 .. Len(s) - 1 : /\ RemoveAt(s, c)[i] = s[j]
                                    /\ i = IF j < c THEN j ELSE j - 1
<1>1. Len(s) \in Nat
  BY RemovedAt
<1>2. CASE j < c
  <2>1. j \in 1 .. c - 1 /\ j \in 1 .. Len(s) - 1
    BY <1>1, <1>2
  <2> QED
    BY <1>2, <2>1, RemovedAt
<1>3. CASE ~(j < c)
  <2>1. j \in c + 1 .. Len(s) /\ j - 1 \in 1 .. Len(s) - 1
    BY <1>1, <1>3
  <2> QED
    BY <1>3, <2>1, RemovedAt
<1> QED
  BY <1>2, <1>3

\* RemoveAt leaves the other elements, and of the element removed all but one.
LEMMA RemovedOthers ==
  ASSUME NEW S, NEW s \in Seq(S), NEW c \in 1 .. Len(s), NEW k
  PROVE  /\ s[c] # k => /\ Has(RemoveAt(s, c), k) <=> Has(s, k)
                        /\ AtMostOnce(s, k) => AtMostOnce(RemoveAt(s, c), k)
                        /\ Twice(s, k) => Twice(RemoveAt(s, c), k)
         /\ s[c] = k => /\ AtMostOnce(s, k) => ~Has(RemoveAt(s, c), k)
                        /\ AtMostOnce(s, k) => AtMostOnce(RemoveAt(s, c), k)
                        /\ Twice(s, k) => Has(RemoveAt(s, c), k)
<1> DEFINE n == Len(s)
           t == RemoveAt(s, c)
<1>1. n \in Nat /\ Len(t) = n - 1
  BY RemovedAt
<1>2. \A i \in 1 .. n - 1 : \E j \in 1 .. n : j # c /\ t[i] = s[j] /\ j = IF i < c THEN i ELSE i + 1
  BY RemovedFrom
<1>3. \A j \in 1 .. n : j # c =>
        \E i \in 1 .. n - 1 : t[i] = s[j] /\ i = IF j < c THEN j ELSE j - 1
  BY RemovedTo
<1> HIDE DEF t
<1>4. Has(t, k) => \E j \in 1 .. n : j # c /\ s[j] = k
  BY <1>1, <1>2 DEF Has
<1>5. ASSUME AtMostOnce(s, k)
      PROVE  AtMostOnce(t, k)
  <2> SUFFICES ASSUME NEW i \in 1 .. n - 1, NEW j \in 1 .. n - 1, t[i] = k, t[j] = k
               PROVE  i = j
    BY <1>1 DEF AtMostOnce
  <2>1. PICK x \in 1 .. n : x # c /\ t[i] = s[x] /\ x = IF i < c THEN i ELSE i + 1
    BY <1>2
  <2>2. PICK y \in 1 .. n : y # c /\ t[j] = s[y] /\ y = IF j < c THEN j ELSE j + 1
    BY <1>2
  <2>3. x = y
    BY <1>5, <2>1, <2>2 DEF AtMostOnce
  <2> QED
    BY <2>1, <2>2, <2>3, <1>1
<1>6. CASE s[c] # k
  <2>1. Has(s, k) => Has(t, k)
    BY <1>1, <1>3, <1>6 DEF Has
  <2>2. Has(t, k) => Has(s, k)
    BY <1>4 DEF Has
  <2>3. ASSUME Twice(s, k)
        PROVE  Twice(t, k)
    <3>1. PICK x \in 1 .. n, y \in 1 .. n : x # y /\ s[x] = k /\ s[y] = k
      BY <2>3 DEF Twice
    <3>2. PICK i \in 1 .. n - 1 : t[i] = s[x] /\ i = IF x < c THEN x ELSE x - 1
      BY <3>1, <1>3, <1>6
    <3>3. PICK j \in 1 .. n - 1 : t[j] = s[y] /\ j = IF y < c THEN y ELSE y - 1
      BY <3>1, <1>3, <1>6
    <3>4. x # c /\ y # c
      BY <3>1, <1>6
    <3>5. i # j
      BY <3>1, <3>2, <3>3, <3>4, <1>1
    <3> QED
      BY <3>1, <3>2, <3>3, <3>5, <1>1 DEF Twice
  <2> QED
    BY <1>5, <1>6, <2>1, <2>2, <2>3 DEF t
<1>7. CASE s[c] = k
  <2>1. AtMostOnce(s, k) => ~Has(t, k)
    BY <1>4, <1>7 DEF AtMostOnce
  <2>2. ASSUME Twice(s, k)
        PROVE  Has(t, k)
    <3>1. PICK x \in 1 .. n, y \in 1 .. n : x # y /\ s[x] = k /\ s[y] = k
      BY <2>2 DEF Twice
    <3>2. PICK z \in 1 .. n : z # c /\ s[z] = k
      BY <3>1
    <3> QED
      BY <3>2, <1>1, <1>3 DEF Has
  <2> QED
    BY <1>5, <1>7, <2>1, <2>2 DEF t
<1> QED
  BY <1>6, <1>7

\* An element put at the end.
LEMMA AppendedHas ==
  ASSUME NEW S, NEW t \in Seq(S), NEW x \in S, NEW k
  PROVE  /\ Append(t, x) \in Seq(S)
         /\ Has(Append(t, x), k) <=> Has(t, k) \/ x = k
         /\ AtMostOnce(t, k) /\ ~(Has(t, k) /\ x = k) => AtMostOnce(Append(t, x), k)
<1> DEFINE n == Len(t)
           u == Append(t, x)
<1>1. /\ n \in Nat /\ u \in Seq(S) /\ Len(u) = n + 1
      /\ \A i \in 1 .. n : u[i] = t[i]
      /\ u[n + 1] = x
  BY AppendProperties, LenProperties
<1> HIDE DEF u
<1>2. \A i \in 1 .. n + 1 : i \in 1 .. n \/ i = n + 1
  BY <1>1
<1>3. Has(u, k) <=> Has(t, k) \/ x = k
  <2>1. n + 1 \in 1 .. n + 1 /\ \A i \in 1 .. n : i \in 1 .. n + 1
    BY <1>1
  <2> QED
    BY <1>1, <1>2, <2>1 DEF Has
<1>4. ASSUME AtMostOnce(t, k), ~(Has(t, k) /\ x = k)
      PROVE  AtMostOnce(u, k)
  <2> SUFFICES ASSUME NEW i \in 1 .. n + 1, NEW j \in 1 .. n + 1, u[i] = k, u[j] = k
               PROVE  i = j
    BY <1>1 DEF AtMostOnce
  <2>1. CASE i = n + 1 /\ j \in 1 .. n
    BY <2>1, <1>1, <1>4 DEF Has
  <2>2. CASE j = n + 1 /\ i \in 1 .. n
    BY <2>2, <1>1, <1>4 DEF Has
  <2>3. CASE i \in 1 .. n /\ j \in 1 .. n
    BY <2>3, <1>1, <1>4 DEF AtMostOnce
  <2> QED
    BY <2>1, <2>2, <2>3, <1>2
<1> QED
  BY <1>1, <1>3, <1>4 DEF u

\* Selected keeps every element that is in S, as often as it is in s.
LEMMA SelectedHas ==
  ASSUME NEW A, NEW s \in Seq(A), NEW S, NEW k
  PROVE  /\ Has(Selected(s, S), k) <=> k \in S /\ Has(s, k)
         /\ AtMostOnce(s, k) => AtMostOnce(Selected(s, S), k)
<1>1. Len(s) \in Nat /\ \A i \in 1 .. Len(s) : s[i] \in A
  BY ElementOfSeq
<1> DEFINE f == CHOOSE g : Selects(g, s, S, Len(s))
           Kept(n) ==
             /\ f[n] \in Seq(A \cap S)
             /\ Has(f[n], k) <=> k \in S /\ \E i \in 1 .. n : s[i] = k
             /\ AtMostOnce(s, k) => AtMostOnce(f[n], k)
<1>2. Selects(f, s, S, Len(s))
  BY <1>1, SelectsExists
<1>3. Selected(s, S) = f[Len(s)]
  BY DEF Selected, Selects
<1> HIDE DEF f
<1> DEFINE T == {n \in 0 .. Len(s) : ~Kept(n)}
<1>4. T = {}
  <2> SUFFICES ASSUME T # {} PROVE FALSE
    OBVIOUS
  <2>1. T \in SUBSET Nat
    BY <1>1
  <2>2. PICK n \in T : \A m \in T : n <= m
    BY <2>1, LeastNumber
  <2>3. f[n] = IF n = 0 THEN <<>>
               ELSE IF s[n] \in S THEN Append(f[n - 1], s[n]) ELSE f[n - 1]
    BY <1>2 DEF Selects
  <2>4. CASE n = 0
    <3>1. f[n] = <<>>
      BY <2>3, <2>4
    <3>2. Len(f[n]) = 0 /\ f[n] \in Seq(A \cap S)
      BY <3>1, EmptySeq
    <3>3. \A i \in 1 .. 0 : FALSE
      OBVIOUS
    <3> QED
      BY <3>2, <3>3, <2>4 DEF Has, AtMostOnce
  <2>5. CASE n # 0
    <3>1. n \in 1 .. Len(s) /\ n - 1 \in 0 .. Len(s) /\ n - 1 \in Nat
      BY <1>1, <2>5
    <3>2. Kept(n - 1)
      <4>1. n - 1 \notin T
        BY <2>2, <3>1
      <4> QED
        BY <4>1, <3>1
    <3>3. \A i \in 1 .. n : i \in 1 .. n - 1 \/ i = n
      BY <3>1
    <3>4. n \in 1 .. n /\ \A i \in 1 .. n - 1 : i \in 1 .. n /\ i \in 1 .. Len(s) /\ i # n
      BY <3>1, <1>1
    <3>5. CASE s[n] \notin S
      <4>1. f[n] = f[n - 1]
        BY <2>3, <2>5, <3>5
      <4>2. k \in S => ((\E i \in 1 .. n : s[i] = k) <=> (\E i \in 1 .. n - 1 : s[i] = k))
        BY <3>3, <3>4, <3>5
      <4> QED
        BY <3>2, <4>1, <4>2
    <3>6. CASE s[n] \in S
      <4> DEFINE t == f[n - 1]
      <4>0. t \in Seq(A \cap S) /\ s[n] \in A \cap S
        BY <1>1, <3>1, <3>2, <3>6
      <4>1a. f[n] = Append(t, s[n])
        BY <2>3, <2>5, <3>6
      <4> HIDE DEF t
      <4>1. /\ Append(t, s[n]) \in Seq(A \cap S)
            /\ Has(Append(t, s[n]), k) <=> Has(t, k) \/ s[n] = k
            /\ AtMostOnce(t, k) /\ ~(Has(t, k) /\ s[n] = k) => AtMostOnce(Append(t, s[n]), k)
        BY <4>0, AppendedHas
      <4>2. Has(t, k) <=> k \in S /\ \E i \in 1 .. n - 1 : s[i] = k
        BY <3>2 DEF t
      <4>3. AtMostOnce(s, k) => AtMostOnce(t, k) /\ ~(Has(t, k) /\ s[n] = k)
        BY <3>1, <3>2, <3>4, <4>2 DEF AtMostOnce, t
      <4>4. Has(f[n], k) <=> k \in S /\ \E i \in 1 .. n : s[i] = k
        BY <4>1a, <4>1, <4>2, <3>3, <3>4, <3>6
      <4>5. f[n] \in Seq(A \cap S) /\ (AtMostOnce(s, k) => AtMostOnce(f[n], k))
        BY <4>1a, <4>1, <4>3
      <4> QED
        BY <4>4, <4>5
    <3> QED
      BY <3>5, <3>6
  <2> QED
    BY <2>4, <2>5
<1>5. Kept(Len(s))
  BY <1>1, <1>4
<1> QED
  BY <1>3, <1>5 DEF Has

\* Reverse changes the order only.
LEMMA ReversedHas ==
  ASSUME NEW S, NEW s \in Seq(S), NEW k
  PROVE  /\ Has(Reverse(s), k) <=> Has(s, k)
         /\ AtMostOnce(s, k) => AtMostOnce(Reverse(s), k)
<1> DEFINE n == Len(s)
           t == Reverse(s)
<1>1. n \in Nat
  BY LenProperties
<1>2. t = [i \in 1 .. n |-> s[(n - i) + 1]]
  BY DEF Reverse
<1>3. Reverse(s) \in Seq(S)
  BY ReversedElements
<1>4. Len(t) = n
  <2>1. Len(t) \in Nat /\ DOMAIN t = 1 .. Len(t)
    BY <1>3, LenProperties
  <2>2. DOMAIN t = 1 .. n
    BY <1>2
  <2> HIDE DEF t
  <2>3. 1 .. Len(t) = 1 .. n
    BY <2>1, <2>2
  <2> QED
    BY <1>1, <2>1, <2>3
<1>5. \A i \in 1 .. n : /\ t[i] = s[(n - i) + 1] /\ (n - i) + 1 \in 1 .. n
                        /\ (n - ((n - i) + 1)) + 1 = i
  BY <1>1, <1>2
<1> HIDE DEF t
<1>6. Has(t, k) <=> Has(s, k)
  BY <1>4, <1>5 DEF Has
<1>7. ASSUME AtMostOnce(s, k)
      PROVE  AtMostOnce(t, k)
  <2> SUFFICES ASSUME NEW i \in 1 .. n, NEW j \in 1 .. n, t[i] = k, t[j] = k
               PROVE  i = j
    BY <1>4 DEF AtMostOnce
  <2>1. PICK x \in 1 .. n : x = (n - i) + 1 /\ s[x] = k
    BY <1>5
  <2>2. PICK y \in 1 .. n : y = (n - j) + 1 /\ s[y] = k
    BY <1>5
  <2>3. x = y
    BY <2>1, <2>2, <1>7 DEF AtMostOnce
  <2> QED
    BY <2>1, <2>2, <2>3, <1>1
<1> QED
  BY <1>6, <1>7 DEF t

\* One sequence after the other has what either has.
LEMMA JoinedHas ==
  ASSUME NEW S, NEW s \in Seq(S), NEW t \in Seq(S), NEW k, Has(s, k) \/ Has(t, k)
  PROVE  Has(s \o t, k)
<1>1. /\ Len(s) \in Nat /\ Len(t) \in Nat
      /\ Len(s \o t) = Len(s) + Len(t)
      /\ \A i \in 1 .. Len(s) : (s \o t)[i] = s[i]
      /\ \A i \in 1 .. Len(t) : (s \o t)[Len(s) + i] = t[i]
  BY JoinedElements
<1>2. /\ \A i \in 1 .. Len(s) : i \in 1 .. Len(s) + Len(t)
      /\ \A i \in 1 .. Len(t) : Len(s) + i \in 1 .. Len(s) + Len(t)
  BY <1>1
<1> QED
  BY <1>1, <1>2 DEF Has

-----------------------------------------------------------------------------
(***************************************************************************)
(* The steps, from a state of both invariants.                             *)
(***************************************************************************)

\* A conflict comes from propagation, and an answer from the pass over the
\* branches; the analysis changes no decision.
LEMMA ConflictComes ==
  ASSUME [Next]_vars, InConflict'
  PROVE  \/ InConflict /\ UNCHANGED <<inst, map, queue, level, propagate_index>>
         \/ VisitConflict
         \/ BranchesDone
<1> USE DEF InConflict
<1>1. CASE AssertSkip \/ AssertDecide \/ AssertConflict \/ AssertionsDone \/ RunSat
  BY <1>1 DEF AssertSkip, AssertDecide, AssertConflict, AssertionsDone, RunSat, Asserting,
              RequestsOrSweep, SweepFrom
<1>2. CASE VisitSettled \/ VisitMoveWatch \/ VisitImply \/ NextDecision
  BY <1>2 DEF VisitSettled, VisitMoveWatch, VisitImply, NextDecision, Visiting, Propagating
<1>3. CASE Propagated
  BY <1>3 DEF Propagated, RequestsOrSweep, SweepFrom
<1>4. CASE Unsolvable \/ BeginAnalysis \/ Resolve
  BY <1>4 DEF Unsolvable, BeginAnalysis, Resolve, decisionVars
<1>5. CASE WalkEnd \/ WalkLearn \/ WalkReason
  BY <1>5, Zenon DEF WalkEnd, WalkLearn, WalkReason, decisionVars
<1>6. CASE Learn
  BY <1>6 DEF Learn
<1>7. CASE SkipRequest \/ InstallRequest \/ RequestsDone
  BY <1>7 DEF SkipRequest, InstallRequest, RequestsDone, SelectAndInstall, SetPropagateLearn,
              SweepFrom, Requesting
<1>8. CASE SkipRule \/ InstallProvider \/ Swept
  BY <1>8 DEF SkipRule, InstallProvider, Swept, SelectAndInstall, SetPropagateLearn, Sweeping
<1>9. CASE RetryBranch
  BY <1>9 DEF RetryBranch, SetPropagateLearn
<1>10. CASE Terminated \/ UNCHANGED vars
  BY <1>10 DEF Terminated, vars
<1> QED
  BY <1>1, <1>2, <1>3, <1>4, <1>5, <1>6, <1>7, <1>8, <1>9, <1>10 DEF Next

\* What is not propagated when a conflict is met is at the current level.
LEMMA PendingStep ==
  ASSUME SolverInv, PendingInv, [Next]_vars
  PROVE  PendingInv'
<1> SUFFICES ASSUME InConflict', NEW k \in propagate_index' + 1 .. Len(queue')
             PROVE  LevelAt(k)' = level'
  BY DEF PendingInv
<1>0. Len(queue) \in Nat /\ propagate_index \in 0 .. Len(queue)
  BY QueueFacts DEF SolverInv, QueueInv
<1>1. CASE InConflict /\ UNCHANGED <<inst, map, queue, level, propagate_index>>
  BY <1>1 DEF PendingInv, LevelAt, DecisionLevel, Entry
<1>2. CASE VisitConflict
  <2>1. /\ pc = "propagate" /\ propagate_index' = propagate_index + 1
        /\ UNCHANGED <<map, queue, level>>
    BY <1>2 DEF VisitConflict, Visiting, Propagating, decisionVars
  <2>2. k \in propagate_index + 1 .. Len(queue)
    BY <1>0, <2>1
  <2>3. LevelAt(k) = level
    BY <2>1, <2>2 DEF SolverInv, QueueInv
  <2> QED
    BY <2>1, <2>3 DEF LevelAt, DecisionLevel, Entry
<1>3. CASE BranchesDone
  <2>1. propagate_index = Len(queue) /\ UNCHANGED <<propagate_index, queue>>
    BY <1>3 DEF BranchesDone, decisionVars, SolverInv, QueueInv
  <2> QED
    BY <1>0, <2>1
<1> QED
  BY <1>1, <1>2, <1>3, ConflictComes

\* What the generator gave is never lost, whatever is learned.
LEMMA GivenStep ==
  ASSUME SolverInv, GivenInv, [Next]_vars
  PROVE  GivenInv'
<1>1. Grown
  BY RulesStep
<1>2. inst' = inst /\ inst' \in Instances
  BY <1>1 DEF Grown, GivenInv
<1>3. \A k \in DOMAIN inst.rules : k \in RuleIds' /\ rules'[k] = inst.rules[k]
  BY <1>1 DEF Grown, GivenInv
<1>4. ASSUME NEW id \in RuleIds', rules'[id].why = 0
      PROVE  id \in DOMAIN inst.rules
  <2>1. CASE id \in RuleIds
    BY <1>1, <1>4, <2>1 DEF Grown, GivenInv
  <2>2. CASE id \notin RuleIds
    <3>1. Learn
      BY <2>2, <1>4, Frames DEF RuleIds
    <3>2. id = Len(rules) + 1
      BY <3>1, <2>2, <1>4, LearnedStored, RulesFacts DEF RuleIds
    <3>3. rules'[id].why = Len(learned_pool)
      BY <3>1, <3>2, LearnedStored DEF IsTheLearned
    <3>4. learned_pool # <<>> /\ learned_pool \in Seq(SUBSET RuleIds)
      BY <3>1 DEF Learn, SolverInv, AnInv, InAnalysis, PoolInv
    <3> QED
      BY <1>4, <3>3, <3>4, EmptySeq
  <2> QED
    BY <2>1, <2>2
<1>5. \/ UNCHANGED problems
      \/ \E ids : problems' = Append(problems, ProblemOf(ids))
  <2>1. CASE AssertConflict
    BY <2>1 DEF AssertConflict
  <2>2. CASE Unsolvable
    BY <2>2 DEF Unsolvable, UnsolvableProblem
  <2> QED
    BY <2>1, <2>2, Frames
<1>6. IsSequence(problems)
  BY DEF SolverInv, ProblemsInv
<1>7. ASSUME NEW ids, problems' = Append(problems, ProblemOf(ids))
      PROVE  /\ inst.detached = 0 => \A k \in DOMAIN problems' : ~problems'[k].detached
             /\ problems' # <<>>
  <2>1. /\ Len(problems) \in Nat /\ DOMAIN problems = 1 .. Len(problems)
        /\ DOMAIN problems' = 1 .. Len(problems) + 1
        /\ \A k \in 1 .. Len(problems) : problems'[k] = problems[k]
        /\ problems'[Len(problems) + 1] = ProblemOf(ids)
        /\ Len(problems') = Len(problems) + 1
    BY <1>6, <1>7, Appended
  <2>2. ~ProblemOf(ids).detached
    BY DEF ProblemOf
  <2>3. problems' # <<>>
    BY <2>1, EmptySeq
  <2>4. \A k \in 1 .. Len(problems) + 1 : k \in 1 .. Len(problems) \/ k = Len(problems) + 1
    BY <2>1
  <2> QED
    BY <2>1, <2>2, <2>3, <2>4 DEF GivenInv
<1> QED
  BY <1>2, <1>3, <1>4, <1>5, <1>7 DEF GivenInv

\* What Learn does to the graph: nothing for an assertion, a node otherwise.
LearnedNode(node, keep) ==
  LET id == Len(rules) + 1
      lits == {an.learned} \cup an.others
      n == Len(nodes) + 1
  IN /\ node = Watch2OnHighest(WatchNode(id, lits), lits, MapKeeping(keep))
     /\ nodes' = Append(nodes, node)
     /\ chains' = [l \in Literals |-> ((IF l = node.watch2 THEN <<n>> ELSE <<>>)
                                        \o (IF l = node.watch1 THEN <<n>> ELSE <<>>)) \o chains[l]]

LEMMA LearnGraph ==
  ASSUME SolverInv, Learn
  PROVE  \E keep :
           /\ Keeps(keep, an.rule_level)
           /\ map' = [MapKeeping(keep) EXCEPT ![AbsOf(an.learned)] =
                        IF an.learned > 0 THEN an.rule_level ELSE -an.rule_level]
           /\ \/ IsAssertion(rules'[Len(rules) + 1]) /\ UNCHANGED <<nodes, chains>>
              \/ /\ ~IsAssertion(rules'[Len(rules) + 1])
                 /\ \E node : LearnedNode(node, keep)
<1> DEFINE id == Len(rules) + 1
           lits == {an.learned} \cup an.others
           r == Learned(lits, Len(learned_pool))
           node(keep) == Watch2OnHighest(WatchNode(id, lits), lits, MapKeeping(keep))
<1>1. /\ r.kind = "generic" /\ r.lits = lits
  BY LearnedFields
<1>2. IsTheLearned(rules'[id])
  BY LearnedStored
<1>3. PICK keep : /\ Keeps(keep, an.rule_level)
                  /\ InsertNode(Watch2OnHighest(WatchNode(id, r.lits), r.lits, MapKeeping(keep)), r)
                  /\ map' = [MapKeeping(keep) EXCEPT ![AbsOf(an.learned)] =
                               IF an.learned > 0 THEN an.rule_level ELSE -an.rule_level]
  BY DEF Learn, DecideOn
<1> HIDE DEF r
<1>4. IsAssertion(r) <=> IsAssertion(rules'[id])
  BY <1>1, <1>2 DEF IsTheLearned, IsAssertion
<1>5. ~IsMulti(r)
  BY <1>1 DEF IsMulti
<1>6. DOMAIN chains = Literals
  BY DEF SolverInv, WatchInv
<1>7. CASE IsAssertion(r)
  BY <1>3, <1>4, <1>7 DEF InsertNode, watchVars
<1>8. CASE ~IsAssertion(r)
  <2>1. /\ nodes' = Append(nodes, node(keep))
        /\ chains' = [l \in Literals |->
                        ChainEntries(Len(nodes) + 1, node(keep), r, l) \o chains[l]]
    BY <1>1, <1>3, <1>6, <1>8 DEF InsertNode
  <2>2. LearnedNode(node(keep), keep)
    BY <2>1, <1>5 DEF LearnedNode, ChainEntries
  <2> QED
    BY <1>3, <1>4, <1>8, <2>2
<1> QED
  BY <1>7, <1>8

\* The watches of the learned rule are literals of it.
LEMMA LearnedNodeFacts ==
  ASSUME SolverInv, Learn, ~IsAssertion(rules'[Len(rules) + 1]),
         NEW keep, NEW node, LearnedNode(node, keep)
  PROVE  LET lits == {an.learned} \cup an.others
             n == Len(nodes)
         IN /\ lits \subseteq Literals /\ rules'[Len(rules) + 1].lits = lits
            /\ \E l, m \in lits : l # m
            /\ node.rule = Len(rules) + 1 /\ node.watch1 \in lits /\ node.watch2 \in lits
            /\ n \in Nat /\ DOMAIN nodes = 1 .. n /\ DOMAIN nodes' = 1 .. n + 1
            /\ \A j \in 1 .. n : nodes'[j] = nodes[j]
            /\ nodes'[n + 1] = node
<1> DEFINE id == Len(rules) + 1
           lits == {an.learned} \cup an.others
           n == Len(nodes)
<1>1. lits \subseteq Literals
  BY DEF Learn, InAnalysis, SolverInv, AnInv, AnBounds, AnPhase, AnTyped, AnShape
<1>2. rules'[id].lits = lits /\ rules'[id].kind = "generic"
  BY LearnedStored DEF IsTheLearned
<1>3. inst.size \in Nat
  BY RulesFacts
<1>4. \E l, m \in lits : l # m
  <2> SUFFICES ASSUME \A l, m \in lits : l = m PROVE FALSE
    OBVIOUS
  <2>1. lits = {an.learned} /\ an.learned \in Literals
    BY <1>1
  <2> HIDE DEF lits
  <2> QED
    BY <2>1, <1>1, <1>2, <1>3, AssertionFacts
<1>5. node \in [rule : {id}, watch1 : lits, watch2 : lits]
  <2>1. node = Watch2OnHighest(WatchNode(id, lits), lits, MapKeeping(keep))
    BY DEF LearnedNode
  <2> HIDE DEF lits, id
  <2>2. WatchNode(id, lits) \in [rule : {id}, watch1 : lits, watch2 : lits]
    BY <1>1, <1>3, <1>4, WatchNodeFacts
  <2>3. \A m : Watch2OnHighest(WatchNode(id, lits), lits, m)
                 \in [rule : {id}, watch1 : lits, watch2 : lits]
    BY <1>1, <1>3, <2>2, HighestFacts
  <2> QED
    BY <2>1, <2>3 DEF lits, id
<1>6. IsSequence(nodes) /\ nodes' = Append(nodes, node)
  BY DEF LearnedNode, SolverInv, WatchInv
<1>7. /\ n \in Nat /\ DOMAIN nodes = 1 .. n /\ DOMAIN nodes' = 1 .. n + 1
      /\ \A j \in 1 .. n : nodes'[j] = nodes[j]
      /\ nodes'[n + 1] = node
  BY <1>6, Appended
<1> QED
  BY <1>1, <1>2, <1>4, <1>5, <1>7

\* A learned rule that is registered is listed.
LEMMA LearnedListed ==
  ASSUME SolverInv, Learn
  PROVE  /\ \A id \in Range(rule_by_id) : id \in Range(rule_by_id')
         /\ rules'[Len(rules) + 1].rule_type # "none" => Len(rules) + 1 \in Range(rule_by_id')
<1> DEFINE r == Learned({an.learned} \cup an.others, Len(learned_pool))
           n == Len(rules)
<1>1. /\ rules' = AddToStorage(rules, r, "learned")
      /\ rule_by_id' = AddToRuleById(rules, rule_by_id, r)
  BY DEF Learn
<1>2. r.rule_type = "none"
  BY LearnedFields
<1> HIDE DEF r
<1>3. IsSequence(rules) /\ rule_by_id \in Seq({id \in RuleIds : rules[id].rule_type # "none"})
  BY DEF SolverInv, RulesInv
<1>4. CASE IsDuplicate(rules, r)
  <2>1. rules' = Append(rules, r) /\ rule_by_id' = rule_by_id
    BY <1>1, <1>4 DEF AddToStorage, AddToRuleById
  <2>2. rules'[n + 1] = r
    BY <1>3, <2>1, Appended
  <2> QED
    BY <1>2, <2>1, <2>2
<1>5. CASE ~IsDuplicate(rules, r)
  <2>1. rule_by_id' = Append(rule_by_id, n + 1)
    BY <1>1, <1>5 DEF AddToRuleById
  <2>2. /\ Len(rule_by_id) \in Nat /\ DOMAIN rule_by_id = 1 .. Len(rule_by_id)
        /\ DOMAIN rule_by_id' = 1 .. Len(rule_by_id) + 1
        /\ \A i \in 1 .. Len(rule_by_id) : rule_by_id'[i] = rule_by_id[i]
        /\ rule_by_id'[Len(rule_by_id) + 1] = n + 1
    <3>1. IsSequence(rule_by_id)
      BY <1>3, SeqOfRange DEF IsSequence
    <3> QED
      BY <2>1, <3>1, Appended
  <2> QED
    BY <2>2 DEF Range
<1> QED
  BY <1>4, <1>5

\* Every step keeps the rules listed and watched.
LEMMA EnrolStep ==
  ASSUME SolverInv, EnrolInv, [Next]_vars
  PROVE  EnrolInv'
<1>1. Grown /\ DOMAIN rules = RuleIds
  BY RulesStep, RulesFacts
<1>2. \A id \in RuleIds : /\ rules'[id] = rules[id]
                          /\ IsAssertion(rules'[id]) <=> IsAssertion(rules[id])
  BY <1>1 DEF Grown
<1>3. problems' = <<>> => problems = <<>> /\ UNCHANGED disabled
  <2>1. \A x : Append(problems, x) # <<>>
    <3>1. IsSequence(problems)
      BY DEF SolverInv, ProblemsInv
    <3> QED
      BY <3>1, Appended, EmptySeq
  <2>2. CASE AssertConflict
    BY <2>1, <2>2 DEF AssertConflict
  <2>3. CASE ~AssertConflict /\ Unsolvable
    BY <2>1, <2>3 DEF Unsolvable
  <2> QED
    BY <2>2, <2>3, Frames
<1>4. \A id \in disabled' : IsAssertion(rules'[id])
  <2>1. CASE AssertConflict
    <3>1. /\ disabled' \subseteq (disabled \cup {AssertionId}) \cup RequestsOn(AssertionLiteral)
          /\ Asserting /\ IsAssertion(rules[AssertionId])
      BY <2>1 DEF AssertConflict, IsOpenAssertion
    <3>2. AssertionId \in RuleIds
      BY <3>1, AssertionInRange
    <3>3. RequestsOn(AssertionLiteral) \subseteq RuleIds
          /\ \A id \in RequestsOn(AssertionLiteral) : IsAssertion(rules[id])
      BY <1>1 DEF RequestsOn
    <3>4. disabled \subseteq RuleIds
      BY DEF SolverInv, RulesInv
    <3> QED
      BY <1>2, <3>1, <3>2, <3>3, <3>4 DEF EnrolInv
  <2>2. CASE ~AssertConflict
    BY <1>2, <2>2, Frames DEF EnrolInv, SolverInv, RulesInv
  <2> QED
    BY <2>1, <2>2
<1>5. CASE Learn
  <2> DEFINE new == Len(rules) + 1
  <2>0. Len(rules) \in Nat /\ RuleIds = 1 .. Len(rules) /\ RuleIds' = 1 .. Len(rules) + 1
    BY <1>5, LearnedStored, RulesFacts DEF RuleIds
  <2>1. \A id \in RuleIds' : id \in RuleIds \/ id = new
    BY <2>0
  <2>2. \A id \in RuleIds' : rules'[id].rule_type # "none" => id \in Range(rule_by_id')
    BY <1>2, <1>5, <2>1, LearnedListed DEF EnrolInv
  <2>3. PICK keep :
           \/ IsAssertion(rules'[new]) /\ UNCHANGED <<nodes, chains>>
           \/ /\ ~IsAssertion(rules'[new])
              /\ \E node : LearnedNode(node, keep)
    BY <1>5, LearnGraph
  <2>4. \A k \in DOMAIN nodes : nodes[k].rule \in RuleIds
    BY DEF SolverInv, WatchInv, NodeOK
  <2>5. CASE IsAssertion(rules'[new]) /\ UNCHANGED <<nodes, chains>>
    BY <1>2, <1>3, <1>4, <2>1, <2>2, <2>4, <2>5 DEF EnrolInv
  <2>6. CASE ~IsAssertion(rules'[new]) /\ \E node : LearnedNode(node, keep)
    <3>1. PICK node : LearnedNode(node, keep)
      BY <2>6
    <3>2. /\ node.rule = new
          /\ Len(nodes) \in Nat /\ DOMAIN nodes = 1 .. Len(nodes)
          /\ DOMAIN nodes' = 1 .. Len(nodes) + 1
          /\ \A j \in 1 .. Len(nodes) : nodes'[j] = nodes[j]
          /\ nodes'[Len(nodes) + 1] = node
      BY <1>5, <2>6, <3>1, LearnedNodeFacts
    <3> HIDE DEF new
    <3>3. \A k \in DOMAIN nodes' : ~IsAssertion(rules'[nodes'[k].rule])
      <4>1. \A k \in 1 .. Len(nodes) + 1 : k \in 1 .. Len(nodes) \/ k = Len(nodes) + 1
        BY <3>2
      <4> QED
        BY <1>2, <2>4, <2>6, <3>2, <4>1 DEF EnrolInv
    <3>4. ASSUME NEW id \in RuleIds', rules'[id].rule_type # "none", ~IsAssertion(rules'[id])
          PROVE  \E k \in DOMAIN nodes' : nodes'[k].rule = id
      <4>1. CASE id \in RuleIds
        <5>1. PICK k \in DOMAIN nodes : nodes[k].rule = id
          BY <1>2, <3>4, <4>1 DEF EnrolInv
        <5>2. k \in 1 .. Len(nodes) /\ k \in 1 .. Len(nodes) + 1
          BY <3>2
        <5> QED
          BY <3>2, <5>1, <5>2
      <4>2. CASE id = new
        BY <3>2, <4>2
      <4> QED
        BY <4>1, <4>2, <2>1, <3>4
    <3> QED
      BY <1>3, <1>4, <2>2, <3>3, <3>4 DEF EnrolInv
  <2> QED
    BY <2>3, <2>5, <2>6
<1>6. CASE ~Learn
  <2>1. UNCHANGED <<rules, rule_by_id>> /\ RuleIds' = RuleIds
    BY <1>6, Frames DEF RuleIds
  <2>2. DOMAIN nodes' = DOMAIN nodes /\ \A k \in DOMAIN nodes : nodes'[k].rule = nodes[k].rule
    <3>1. CASE VisitMoveWatch
      <4>1. PICK to : nodes' = [nodes EXCEPT ![Chain[cursor]] =
                        IF @.watch1 = PropagatedLiteral THEN [@ EXCEPT !.watch1 = to]
                        ELSE [@ EXCEPT !.watch2 = to]]
        BY <3>1 DEF VisitMoveWatch
      <4>2. \A k \in DOMAIN nodes :
              nodes[k] \in [rule : RuleIds, watch1 : Literals, watch2 : Literals]
        BY DEF SolverInv, WatchInv, NodeOK
      <4> QED
        BY <4>1, <4>2
    <3>2. CASE ~VisitMoveWatch
      BY <1>6, <3>2, Frames
    <3> QED
      BY <3>1, <3>2
  <2>3. \A id \in RuleIds' : rules'[id].rule_type # "none" => id \in Range(rule_by_id')
    BY <2>1 DEF EnrolInv
  <2>4. \A id \in RuleIds' : rules'[id].rule_type # "none" /\ ~IsAssertion(rules'[id]) =>
          \E k \in DOMAIN nodes' : nodes'[k].rule = id
    BY <2>1, <2>2 DEF EnrolInv
  <2>5. \A k \in DOMAIN nodes' : ~IsAssertion(rules'[nodes'[k].rule])
    BY <2>1, <2>2 DEF EnrolInv
  <2> QED
    BY <1>3, <1>4, <2>3, <2>4, <2>5 DEF EnrolInv
<1> QED
  BY <1>5, <1>6

-----------------------------------------------------------------------------
(***************************************************************************)
(* The assertions.                                                         *)
(***************************************************************************)

\* What the learned rule says is true after it: its literal, at the level the
\* search went back to.
LEMMA LearnedIsTrue ==
  ASSUME SolverInv, Learn, NEW l, l = an.learned, NEW lv, lv = an.rule_level
  PROVE  l \in Literals /\ Satisfy(l)' /\ DecisionLevel(l)' = lv
<1>1. /\ l \in Literals /\ lv \in Nat \ {0}
  BY DEF Learn, InAnalysis, SolverInv, AnInv, AnBounds, AnPhase
<1>2. PICK keep : map' = [MapKeeping(keep) EXCEPT ![AbsOf(l)] = IF l > 0 THEN lv ELSE -lv]
  BY LearnGraph
<1>3. inst.size \in Nat /\ DOMAIN map = Packages
  BY DEF SolverInv, StackInv, Agree, Packages
<1>4. DOMAIN MapKeeping(keep) = Packages
  BY <1>3 DEF MapKeeping
<1>5. l \in Int /\ l # 0 /\ AbsOf(l) \in Packages
  BY <1>1, <1>3, LiteralFacts
<1>6. map'[AbsOf(l)] = IF l > 0 THEN lv ELSE -lv
  BY <1>2, <1>4, <1>5
<1> QED
  BY <1>1, <1>5, <1>6 DEF Satisfy, DecisionLevel, Entry, AbsOf

\* The literal to learn is above the literals kept.
LEMMA LearnedApart ==
  ASSUME SolverInv, Learn
  PROVE  /\ an.learned \notin an.others /\ an.learned \in Literals /\ an.others \subseteq Literals
         /\ DecisionLevel(an.learned) = level /\ Conflict(an.learned)
         /\ an.rule_level \in 1 .. level - 1 /\ level \in Nat \ {0, 1}
         /\ \A l \in an.others :
              Conflict(l) /\ DecisionLevel(l) > 1 /\ DecisionLevel(l) <= an.rule_level
  BY DEF Learn, InAnalysis, SolverInv, StackInv, AnInv, AnBounds, AnPhase, AnTyped, AnShape

\* An assertion that is learned takes the search back to level 1.
LEMMA LearnedAssertion ==
  ASSUME SolverInv, ReachedInv, Learn, IsAssertion(rules'[Len(rules) + 1])
  PROVE  rules'[Len(rules) + 1].lits = {an.learned} /\ an.rule_level = 1
<1> DEFINE new == Len(rules) + 1
<1>1. rules'[new].lits = {an.learned} \cup an.others
  BY LearnedStored DEF IsTheLearned
<1>2. inst.size \in Nat
  BY RulesFacts
<1>3. rules'[new].lits \subseteq Literals
  BY <1>1, LearnedApart
<1> HIDE DEF new
<1>4. PICK x \in Literals : rules'[new].lits = {x}
  BY <1>2, <1>3, AssertionFacts DEF new
<1>5. x = an.learned /\ an.others = {}
  BY <1>1, <1>4, LearnedApart
<1>6. Reached(an)
  BY DEF ReachedInv, Learn, InAnalysis
<1> QED
  BY <1>4, <1>5, <1>6 DEF Reached, new

\* A decision of level 1 is there after the step.
LEMMA LevelOneTrue ==
  ASSUME SolverInv, [Next]_vars, pc # "assertions",
         NEW l \in Literals, Satisfy(l), DecisionLevel(l) = 1
  PROVE  Satisfy(l)' /\ DecisionLevel(l)' = 1
<1>1. LevelOneKept
  BY StepKeeps DEF SolverInv
<1>2. AbsOf(l) \in Packages
  BY LiteralFacts, RulesFacts
<1>3. map'[AbsOf(l)] = map[AbsOf(l)]
  BY <1>1, <1>2 DEF LevelOneKept, DecisionLevel, Entry
<1> QED
  BY <1>3 DEF Satisfy, DecisionLevel, Entry

LEMMA AssertedStep ==
  ASSUME SolverInv, EnrolInv, AssertedInv, ReachedInv, [Next]_vars
  PROVE  AssertedInv'
<1> SUFFICES ASSUME pc' # "assertions", NEW id \in RuleIds',
                    IsAssertion(rules'[id]), rules'[id].rule_type # "none", id \notin disabled'
             PROVE  \E l \in rules'[id].lits : Satisfy(l)' /\ DecisionLevel(l)' = 1
  BY DEF AssertedInv
<1>1. Grown
  BY RulesStep
<1>2. CASE pc = "assertions"
  <2>1. AssertionsDone
    BY <1>2, PassSteps DEF AssertSkip, AssertDecide, AssertConflict, vars
  <2>2. /\ run.rule_index > Len(rule_by_id)
        /\ UNCHANGED <<rules, disabled, map>>
    BY <2>1 DEF AssertionsDone, ruleVars, decisionVars
  <2>3. id \in RuleIds /\ id \in Range(rule_by_id)
    BY <2>2 DEF EnrolInv, RuleIds
  <2>4. PICK i \in 1 .. Len(rule_by_id) : rule_by_id[i] = id
    BY <2>3, RulesFacts DEF Range
  <2>5. i < run.rule_index /\ i \in DOMAIN rule_by_id
    BY <2>2, RulesFacts DEF SolverInv, RunInv, RunTyped
  <2>6. EnabledAssertion(i)
    BY <2>2, <2>4 DEF EnabledAssertion
  <2>7. PICK l \in rules[id].lits : Satisfy(l)
    BY <1>2, <2>4, <2>5, <2>6 DEF SolverInv, AssertInv
  <2>8. l \in Literals
    BY <2>3, <2>7 DEF SolverInv, RulesInv, RuleOK
  <2>9. StackInv /\ level = 1
    BY <1>2 DEF SolverInv, AssertInv
  <2>10. PICK k \in 1 .. Len(queue) : LevelAt(k) = DecisionLevel(l)
    BY <2>7, <2>8, <2>9, SatisfiedIsDecided
  <2>11. DecisionLevel(l) = 1
    BY <2>9, <2>10, QueueFacts
  <2> QED
    BY <2>2, <2>7, <2>11 DEF Satisfy, DecisionLevel, Entry
<1>3. CASE pc # "assertions"
  <2>1. disabled' = disabled
    BY <1>3, Frames DEF AssertConflict, Asserting
  <2>2. CASE id \in RuleIds
    <3>1. rules'[id] = rules[id]
      BY <1>1, <2>2 DEF Grown
    <3>2. PICK l \in rules[id].lits : Satisfy(l) /\ DecisionLevel(l) = 1
      BY <1>3, <2>1, <2>2, <3>1 DEF AssertedInv
    <3>3. l \in Literals
      BY <2>2, <3>2 DEF SolverInv, RulesInv, RuleOK
    <3> QED
      BY <1>3, <3>1, <3>2, <3>3, LevelOneTrue
  <2>3. CASE id \notin RuleIds
    <3>1. Learn
      BY <2>3, Frames DEF RuleIds
    <3>2. id = Len(rules) + 1
      BY <3>1, <2>3, LearnedStored, RulesFacts DEF RuleIds
    <3>3. rules'[id].lits = {an.learned} /\ an.rule_level = 1
      BY <3>1, <3>2, LearnedAssertion
    <3> DEFINE l == an.learned
    <3>4. \A x : x = an.learned => Satisfy(x)' /\ DecisionLevel(x)' = 1
      BY <3>1, <3>3, LearnedIsTrue
    <3>5. PICK x : x = an.learned
      OBVIOUS
    <3>6. x \in rules'[id].lits
      BY <3>3, <3>5
    <3> QED
      BY <3>4, <3>5, <3>6
  <2> QED
    BY <2>2, <2>3
<1> QED
  BY <1>2, <1>3

-----------------------------------------------------------------------------
(***************************************************************************)
(* The level analyze goes back to.                                         *)
(***************************************************************************)

\* It is the highest of the levels counted.
LEMMA CountedLevel ==
  ASSUME SolverInv, NEW a, a.rule_level \in 1 .. level - 1, AnShape(a),
         NEW lits \in SUBSET Literals, \A l \in lits : Conflict(l)
  PROVE  LET kept == {l \in lits : DecisionLevel(l) \notin {1, level}}
         IN Count(a, lits).rule_level \in {a.rule_level} \cup {DecisionLevel(l) : l \in kept}
<1> DEFINE kept == {l \in lits : DecisionLevel(l) \notin {1, level}}
           levels == {a.rule_level} \cup {DecisionLevel(l) : l \in kept}
           top == CHOOSE v \in levels : \A w \in levels : w <= v
<1>1. level \in Nat
  BY DEF SolverInv, StackInv
<1>2. ASSUME NEW l \in lits
      PROVE  DecisionLevel(l) \in 1 .. level
  <2>1. PICK k \in 1 .. Len(queue) : LevelAt(k) = DecisionLevel(l)
    BY FalseIsDecided DEF SolverInv
  <2> QED
    BY <2>1, <1>1, QueueFacts DEF SolverInv
<1>3. levels \in SUBSET (0 .. level) /\ levels # {}
  BY <1>1, <1>2
<1>4. \E v \in levels : \A w \in levels : w <= v
  BY <1>1, <1>3, GreatestNumber
<1>5. top \in levels
  BY <1>4
<1>6. Count(a, lits).rule_level = top
  BY DEF Count, AnShape
<1> QED
  BY <1>5, <1>6

\* Counting keeps it the level of a literal that is kept.
LEMMA CountReached ==
  ASSUME SolverInv, NEW a, a.rule_level \in 1 .. level - 1, AnShape(a), Reached(a),
         NEW lits \in SUBSET Literals, \A l \in lits : Conflict(l) /\ AbsOf(l) \notin a.seen
  PROVE  Reached(Count(a, lits))
<1> DEFINE b == Count(a, lits)
           kept == {l \in lits : DecisionLevel(l) \notin {1, level}}
<1>1. /\ b.others = a.others \cup kept
      /\ b.rule_level \in a.rule_level .. level - 1
      /\ \A l \in kept : DecisionLevel(l) > 1 /\ DecisionLevel(l) <= b.rule_level
  BY CountFacts
<1>2. b.rule_level \in {a.rule_level} \cup {DecisionLevel(l) : l \in kept}
  BY CountedLevel
<1> SUFFICES Reached(b)
  OBVIOUS
<1> HIDE DEF b
<1>3. CASE \E l \in kept : b.rule_level = DecisionLevel(l)
  BY <1>1, <1>3 DEF Reached
<1>4. CASE b.rule_level = a.rule_level
  <2>1. CASE \E l \in a.others : DecisionLevel(l) = a.rule_level
    BY <2>1, <1>1, <1>4 DEF Reached
  <2>2. CASE a.others = {} /\ a.rule_level = 1
    <3>1. \A l \in kept : DecisionLevel(l) \in Nat
      BY StatusFacts DEF SolverInv
    <3>2. kept = {}
      BY <3>1, <2>2, <1>1, <1>4
    <3> QED
      BY <3>2, <2>2, <1>1, <1>4 DEF Reached
  <2> QED
    BY <2>1, <2>2 DEF Reached
<1> QED
  BY <1>2, <1>3, <1>4

LEMMA ReachedStep ==
  ASSUME SolverInv, ReachedInv, [Next]_vars
  PROVE  ReachedInv'
<1> SUFFICES ASSUME InAnalysis' PROVE Reached(an)'
  BY DEF ReachedInv
<1>1. UNCHANGED map
  BY AnalysisFrames
<1>2. ASSUME NEW a, Reached(a), an'.others = a.others, an'.rule_level = a.rule_level
      PROVE  Reached(an)'
  BY <1>1, <1>2 DEF Reached, DecisionLevel, Entry
<1>3. AnShape(an)
  BY DEF SolverInv, AnTyped
<1>4. InAnalysis => Reached(an) /\ an.rule_level \in 1 .. level - 1
  BY DEF ReachedInv, SolverInv, AnInv, AnBounds
<1>5. CASE BeginAnalysis
  <2>1. an' = [NoAnalysis EXCEPT !.rule = an.rule, !.decision_id = Len(queue)]
    BY <1>5 DEF BeginAnalysis
  <2>2. an'.others = {} /\ an'.rule_level = 1
    BY <2>1 DEF NoAnalysis
  <2> QED
    BY <2>2 DEF Reached
<1>6. CASE Resolve
  <2>1. pc = "resolve" /\ an' = Count(an, NewlySeen)
    BY <1>6 DEF Resolve
  <2>2. NewlySeen \in SUBSET Literals /\ \A l \in NewlySeen : Conflict(l) /\ AbsOf(l) \notin an.seen
    BY <2>1, NewlySeenFacts
  <2>3. Reached(an) /\ an.rule_level \in 1 .. level - 1
    BY <2>1, <1>4 DEF InAnalysis
  <2>4. Reached(Count(an, NewlySeen))
    BY <2>2, <2>3, <1>3, CountReached
  <2>5. PICK a : a = Count(an, NewlySeen)
    OBVIOUS
  <2> QED
    BY <2>1, <2>4, <2>5, <1>2
<1>7. CASE WalkEnd
  <2>1. an'.others = an.others /\ an'.rule_level = an.rule_level /\ InAnalysis
    BY <1>7, <1>3 DEF WalkEnd, InAnalysis, AnShape
  <2>2. PICK a : a = an
    OBVIOUS
  <2> QED
    BY <2>1, <2>2, <1>2, <1>4
<1>8. CASE WalkLearn
  <2>1. an'.others = an.others /\ an'.rule_level = an.rule_level /\ InAnalysis
    BY <1>8, WalkLearnStep DEF InAnalysis
  <2>2. PICK a : a = an
    OBVIOUS
  <2> QED
    BY <2>1, <2>2, <1>2, <1>4
<1>9. CASE WalkReason
  <2>1. PICK d \in 1 .. Len(queue) :
           /\ pc = "walk" /\ ~NothingLeft /\ an.num # 1 /\ IsLastSeen(d)
           /\ IF IsMulti(rules[queue[d].reason])
              THEN an' = [Count(Passed(d), Taken(d)) EXCEPT !.rule = queue[d].reason]
              ELSE an' = [Passed(d) EXCEPT !.rule = queue[d].reason]
    BY <1>9, WalkReasonStep
  <2> DEFINE a == Passed(d)
             c == Count(a, Taken(d))
  <2>2. AnShape(a) /\ AnBounds(a) /\ a.others = an.others /\ ReasonOK(d)
    BY <2>1, PassedFacts
  <2>3. a.rule_level = an.rule_level
    BY <1>3 DEF Passed, AnShape
  <2>4. Reached(an) /\ a.rule_level \in 1 .. level - 1
    BY <2>1, <2>3, <1>4 DEF InAnalysis
  <2>5. Reached(a)
    BY <2>2, <2>3, <2>4 DEF Reached
  <2>6. CASE IsMulti(rules[queue[d].reason])
    <3>1. Taken(d) \in SUBSET Literals
          /\ \A l \in Taken(d) : Conflict(l) /\ AbsOf(l) \notin a.seen
      BY <2>2, <2>6, TakenFacts
    <3> HIDE DEF a
    <3>2. Reached(c)
      BY <2>2, <2>4, <2>5, <3>1, CountReached
    <3>3. an' = [c EXCEPT !.rule = queue[d].reason]
      BY <2>1, <2>6 DEF a
    <3>4. AnShape(c)
      BY <2>2, <2>4, <3>1, CountFacts
    <3> HIDE DEF c
    <3>5. an'.others = c.others /\ an'.rule_level = c.rule_level
      BY <3>3, <3>4 DEF AnShape
    <3>6. PICK e : e = c
      OBVIOUS
    <3> QED
      BY <3>2, <3>5, <3>6, <1>2
  <2>7. CASE ~IsMulti(rules[queue[d].reason])
    <3>1. an' = [a EXCEPT !.rule = queue[d].reason]
      BY <2>1, <2>7
    <3> HIDE DEF a
    <3>2. an'.others = a.others /\ an'.rule_level = a.rule_level
      BY <3>1, <2>2 DEF AnShape
    <3>3. PICK e : e = a
      OBVIOUS
    <3> QED
      BY <2>5, <3>2, <3>3, <1>2
  <2> QED
    BY <2>6, <2>7
<1>10. CASE UNCHANGED vars
  <2>1. UNCHANGED <<an, pc>>
    BY <1>10 DEF vars
  <2>2. PICK a : a = an
    OBVIOUS
  <2> QED
    BY <2>1, <2>2, <1>2, <1>4 DEF InAnalysis
<1> QED
  BY <1>5, <1>6, <1>7, <1>8, <1>9, <1>10, AnalysisFrames

-----------------------------------------------------------------------------
(***************************************************************************)
(* The pass over the rules.                                                *)
(***************************************************************************)

\* How the pass goes on; no decision is made meanwhile.
LEMMA SweepComes ==
  ASSUME SolverInv, [Next]_vars, pc' \in {"sweep", "branches"}
  PROVE  /\ UNCHANGED <<inst, rules, rule_by_id, disabled, map>>
         /\ \/ pc' = "sweep" /\ run'.n = 0 /\ run'.rules_count = Len(rule_by_id)
            \/ SkipRule
            \/ Swept /\ pc' = "branches"
            \/ UNCHANGED vars
<1>1. DOMAIN run = {"rule_index", "system_level", "caller", "o_level", "position", "i", "n",
                    "rules_count"}
  BY DEF SolverInv, RunInv, RunTyped
<1>2. ASSUME NEW lv, NEW sl, SweepFrom(lv, sl)
      PROVE  pc' = "sweep" /\ run'.n = 0 /\ run'.rules_count = Len(rule_by_id)
  BY <1>1, <1>2 DEF SweepFrom
<1>3. CASE AssertSkip \/ AssertDecide \/ AssertConflict \/ AssertionsDone
  BY <1>3 DEF AssertSkip, AssertDecide, AssertConflict, AssertionsDone, Asserting
<1>4. CASE RunSat \/ RequestsDone
  <2>1. UNCHANGED <<inst, ruleVars, decisionVars>>
    BY <1>4 DEF RunSat, RequestsDone
  <2>2. \E lv, sl : SweepFrom(lv, sl)
    BY <1>4 DEF RunSat, RequestsDone, RequestsOrSweep
  <2> QED
    BY <2>1, <2>2, <1>2 DEF ruleVars, decisionVars
<1>5. CASE VisitSettled \/ VisitMoveWatch \/ VisitImply \/ VisitConflict \/ NextDecision
  BY <1>5 DEF VisitSettled, VisitMoveWatch, VisitImply, VisitConflict, NextDecision, Visiting,
              Propagating
<1>6. CASE Propagated
  <2>1. UNCHANGED <<inst, ruleVars, decisionVars>>
    BY <1>6 DEF Propagated
  <2>2. \/ \E lv, sl : SweepFrom(lv, sl)
        \/ run' = [run EXCEPT !.rules_count = Len(rule_by_id), !.n = 0] /\ pc' = "sweep"
    BY <1>6 DEF Propagated, RequestsOrSweep
  <2> QED
    BY <2>1, <2>2, <1>1, <1>2 DEF ruleVars, decisionVars
<1>7. CASE Unsolvable \/ BeginAnalysis \/ Resolve \/ WalkEnd \/ WalkLearn \/ Learn
  BY <1>7 DEF Unsolvable, BeginAnalysis, Resolve, WalkEnd, WalkLearn, Learn
<1>8. CASE WalkReason
  BY <1>8, Zenon DEF WalkReason
<1>9. CASE SkipRequest \/ InstallRequest \/ InstallProvider
  BY <1>9 DEF SkipRequest, InstallRequest, InstallProvider, SelectAndInstall, SetPropagateLearn,
              Requesting
<1>10. CASE SkipRule
  BY <1>10 DEF SkipRule, ruleVars, decisionVars
<1>11. CASE Swept
  BY <1>11 DEF Swept, ruleVars, decisionVars
<1>12. CASE RetryBranch \/ BranchesDone \/ Terminated \/ UNCHANGED vars
  BY <1>12 DEF RetryBranch, BranchesDone, SetPropagateLearn, Terminated, vars
<1> QED
  BY <1>3, <1>4, <1>5, <1>6, <1>7, <1>8, <1>9, <1>10, <1>11, <1>12 DEF Next

\* One more is swept.
LEMMA OneMoreSwept ==
  ASSUME NEW c \in Nat, NEW n \in Nat, NEW i \in 1 .. c + 1, NEW s \in 1 .. c,
         s = IF i = c + 1 THEN 1 ELSE i,
         NEW q \in 1 .. c, q # s, IsSwept(q, s + 1, n + 1, c)
  PROVE  IsSwept(q, i, n, c)
<1>1. CASE i = c + 1
  BY <1>1 DEF IsSwept
<1>2. CASE i # c + 1
  BY <1>2 DEF IsSwept
<1> QED
  BY <1>1, <1>2

\* All of them are, once n have been.
LEMMA AllSwept ==
  ASSUME NEW c \in Nat, NEW n \in Nat, n >= c, NEW i \in 1 .. c + 1, NEW q \in 1 .. c
  PROVE  IsSwept(q, i, n, c)
<1>1. CASE i > q
  BY <1>1 DEF IsSwept
<1>2. CASE i <= q
  BY <1>2 DEF IsSwept
<1> QED
  BY <1>1, <1>2

LEMMA SweepStep ==
  ASSUME SolverInv, SweepInv, [Next]_vars
  PROVE  SweepInv'
<1> DEFINE c == run.rules_count
           n == run.n
           i == run.i
<1> SUFFICES ASSUME pc' \in {"sweep", "branches"} PROVE SweepInv'
  BY DEF SweepInv
<1>1. UNCHANGED <<inst, rules, rule_by_id, disabled, map>>
  BY SweepComes
<1>2. \A id : RuleIsOpen(id)' <=> RuleIsOpen(id)
  BY <1>1 DEF RuleIsOpen, DecidedInstall, Undecided, Entry
<1>3. /\ c \in Nat /\ n \in Nat /\ i \in 1 .. c + 1 /\ DOMAIN rule_by_id = 1 .. Len(rule_by_id)
      /\ Len(rule_by_id) \in Nat
      /\ DOMAIN run = {"rule_index", "system_level", "caller", "o_level", "position", "i", "n",
                       "rules_count"}
  BY RulesFacts DEF SolverInv, RunInv, RunTyped
<1>4. CASE pc' = "sweep" /\ run'.n = 0 /\ run'.rules_count = Len(rule_by_id)
  BY <1>1, <1>4 DEF SweepInv, IsSwept
<1>5. CASE SkipRule
  <2>1. /\ pc = "sweep" /\ pc' = pc /\ ~SweepIsOpen /\ run' = NextSwept /\ n < c
    BY <1>5 DEF SkipRule, Sweeping
  <2>2. SweptAt \in 1 .. c /\ SweptAt = IF i = c + 1 THEN 1 ELSE i
    BY <1>5, SweptIds DEF SkipRule, SweptAt
  <2> DEFINE s == SweptAt
  <2>3. run'.i = s + 1 /\ run'.n = n + 1 /\ run'.rules_count = c
    BY <2>1, <1>3 DEF NextSwept
  <2>4. ~RuleIsOpen(rule_by_id[s])
    BY <2>1 DEF SweepIsOpen, RuleIsOpen, SweepCandidates, SweptRule, SweptId
  <2>5. c = Len(rule_by_id) /\ \A q \in 1 .. c : IsSwept(q, i, n, c) => ~RuleIsOpen(rule_by_id[q])
    BY <2>1 DEF SweepInv
  <2> HIDE DEF s
  <2>6. ASSUME NEW q \in 1 .. c, IsSwept(q, s + 1, n + 1, c)
        PROVE  ~RuleIsOpen(rule_by_id[q])
    <3>1. CASE q = s
      BY <3>1, <2>4
    <3>2. CASE q # s
      <4>1. s \in 1 .. c /\ s = IF i = c + 1 THEN 1 ELSE i
        BY <2>2 DEF s
      <4> HIDE DEF c, n, i
      <4>2. IsSwept(q, i, n, c)
        BY <1>3, <2>6, <3>2, <4>1, OneMoreSwept
      <4> QED
        BY <2>5, <4>2
    <3> QED
      BY <3>1, <3>2
  <2>7. ASSUME NEW q \in 1 .. run'.rules_count,
               IsSwept(q, run'.i, run'.n, run'.rules_count)
        PROVE  ~RuleIsOpen(rule_by_id[q])
    BY <2>3, <2>6, <2>7
  <2> QED
    BY <2>1, <2>3, <2>5, <2>7, <1>1, <1>2 DEF SweepInv
<1>6. CASE Swept /\ pc' = "branches"
  <2>1. pc = "sweep" /\ n >= c
    BY <1>6 DEF Swept
  <2>2. c = Len(rule_by_id) /\ \A q \in 1 .. c : IsSwept(q, i, n, c) => ~RuleIsOpen(rule_by_id[q])
    BY <2>1 DEF SweepInv
  <2> HIDE DEF c, n, i
  <2>3. \A q \in 1 .. c : ~RuleIsOpen(rule_by_id[q])
    BY <2>1, <2>2, <1>3, AllSwept
  <2> QED
    BY <2>2, <2>3, <1>1, <1>2, <1>3, <1>6 DEF SweepInv
<1>7. CASE UNCHANGED vars
  BY <1>2, <1>7 DEF SweepInv, vars
<1> QED
  BY <1>4, <1>5, <1>6, <1>7, SweepComes

-----------------------------------------------------------------------------
(***************************************************************************)
(* The visit of a chain.                                                   *)
(***************************************************************************)

\* Out of the visits the cursor is at the head of the chain.
LEMMA CursorMoves ==
  ASSUME SolverInv, ProgressInv, [Next]_vars
  PROVE  VisitSettled \/ VisitMoveWatch \/ VisitImply \/ cursor' = 1 \/ UNCHANGED vars
<1>1. pc # "propagate" => cursor = 1
  BY DEF ProgressInv
<1>2. CASE AssertSkip \/ AssertDecide \/ AssertConflict \/ AssertionsDone \/ RunSat
  BY <1>1, <1>2 DEF AssertSkip, AssertDecide, AssertConflict, AssertionsDone, RunSat, Asserting
<1>3. CASE VisitConflict \/ NextDecision
  BY <1>3 DEF VisitConflict, NextDecision
<1>4. CASE Propagated
  <2>1. propagate_index = Len(queue) /\ cursor' = cursor
    BY <1>4, QueueFacts DEF Propagated, SolverInv, QueueInv
  <2> QED
    BY <2>1 DEF ProgressInv
<1>5. CASE Unsolvable \/ BeginAnalysis \/ Resolve \/ WalkEnd \/ WalkLearn
  BY <1>1, <1>5 DEF Unsolvable, BeginAnalysis, Resolve, WalkEnd, WalkLearn
<1>6. CASE WalkReason
  BY <1>1, <1>6, Zenon DEF WalkReason
<1>7. CASE Learn
  BY <1>1, <1>7 DEF Learn
<1>8. CASE SkipRequest \/ RequestsDone \/ SkipRule \/ Swept
  BY <1>1, <1>8 DEF SkipRequest, RequestsDone, SkipRule, Swept, Requesting, Sweeping
<1>9. CASE InstallRequest \/ InstallProvider \/ RetryBranch
  BY <1>9 DEF InstallRequest, InstallProvider, RetryBranch, SelectAndInstall, SetPropagateLearn
<1>10. CASE BranchesDone \/ Terminated \/ UNCHANGED vars
  BY <1>1, <1>10 DEF BranchesDone, Terminated
<1> QED
  BY <1>2, <1>3, <1>4, <1>5, <1>6, <1>7, <1>8, <1>9, <1>10 DEF Next

\* What was just decided is satisfied.
LEMMA DecidedIsTrue ==
  ASSUME inst.size \in Nat, NEW m, m \in [Packages -> Int], NEW q, NEW l, NEW lv \in Nat \ {0},
         NEW reason, DecideOn(m, q, l, lv, reason)
  PROVE  l \in Literals /\ Satisfy(l)' /\ DecisionLevel(l)' = lv
<1>1. /\ l \in Literals
      /\ map' = [m EXCEPT ![AbsOf(l)] = IF l > 0 THEN lv ELSE -lv]
  BY DEF DecideOn, CanDecide
<1>2. l \in Int /\ l # 0 /\ AbsOf(l) \in Packages
  BY <1>1, LiteralFacts
<1>3. map'[AbsOf(l)] = IF l > 0 THEN lv ELSE -lv
  BY <1>1, <1>2
<1> QED
  BY <1>1, <1>2, <1>3 DEF Satisfy, DecisionLevel, Entry, AbsOf

\* What was satisfied stays so.
LEMMA ImplyKeepsTrue ==
  ASSUME SolverInv, StackInv', VisitImply, NEW m \in Literals, Satisfy(m)
  PROVE  Satisfy(m)'
<1>1. PICK l \in VisitedRule.lits :
         /\ Undecided(l)
         /\ \A p \in Packages : p # AbsOf(l) => map'[p] = map[p]
  BY VisitImplyStep
<1>2. AbsOf(m) \in Packages
  BY LiteralFacts, RulesFacts
<1>3. AbsOf(m) # AbsOf(l)
  BY <1>1, StatusFacts DEF Undecided, Satisfy, Entry
<1>4. map'[AbsOf(m)] = map[AbsOf(m)]
  BY <1>1, <1>2, <1>3
<1> QED
  BY <1>4 DEF Satisfy, Entry

\* The other watch and the propagated literal are the two watches of a node that
\* is still watched by it.
LEMMA OtherWatchIs ==
  PropagatedLiteral \in {Node.watch1, Node.watch2} =>
    {Node.watch1, Node.watch2} = {PropagatedLiteral, OtherWatch}
  BY DEF OtherWatch

\* VisitSettled
LEMMA SettledPasses ==
  ASSUME SolverInv, EnrolInv, VisitSettled
  PROVE  PassedBy(Chain[cursor])
<1>1. Chain[cursor] \in DOMAIN nodes
  BY VisitFacts DEF VisitSettled
<1>2. Node.rule \notin disabled
  BY <1>1 DEF EnrolInv, Node
<1>3. CASE IsMulti(VisitedRule)
  BY <1>3 DEF VisitSettled, Pending, PassedBy, VisitedRule, Node
<1>4. CASE ~IsMulti(VisitedRule)
  <2>1. Satisfy(OtherWatch)
    BY <1>2, <1>4 DEF VisitSettled
  <2>2. Satisfy(Node.watch1) \/ Satisfy(Node.watch2)
    BY <2>1 DEF OtherWatch
  <2> QED
    BY <1>4, <2>2 DEF PassedBy, VisitedRule, Node
<1> QED
  BY <1>3, <1>4

\* VisitMoveWatch
MovedTo(to) ==
  /\ to \in Alternatives /\ to # PropagatedLiteral
  /\ to \in Literals /\ PropagatedLiteral \in Literals
  /\ nodes' = [nodes EXCEPT ![Chain[cursor]] =
                 IF @.watch1 = PropagatedLiteral THEN [@ EXCEPT !.watch1 = to]
                 ELSE [@ EXCEPT !.watch2 = to]]
  /\ chains' = [chains EXCEPT ![PropagatedLiteral] = RemoveAt(@, cursor),
                              ![to] = <<Chain[cursor]>> \o @]

LEMMA MoveFacts ==
  ASSUME SolverInv, VisitMoveWatch
  PROVE  \E to :
           /\ MovedTo(to)
           /\ chains'[PropagatedLiteral] = RemoveAt(Chain, cursor)
           /\ chains'[to] = <<Chain[cursor]>> \o chains[to]
           /\ \A l \in Literals \ {PropagatedLiteral, to} : chains'[l] = chains[l]
           /\ DOMAIN nodes' = DOMAIN nodes
           /\ \A k \in DOMAIN nodes \ {Chain[cursor]} : nodes'[k] = nodes[k]
           /\ \A k \in {Chain[cursor]} :
                /\ nodes'[k].rule = nodes[k].rule
                /\ IF nodes[k].watch1 = PropagatedLiteral
                   THEN nodes'[k].watch1 = to /\ nodes'[k].watch2 = nodes[k].watch2
                   ELSE nodes'[k].watch2 = to /\ nodes'[k].watch1 = nodes[k].watch1
           /\ UNCHANGED <<inst, rules, map, queue, propagate_index, cursor, level, pc>>
<1>1. PICK to \in Alternatives :
        /\ nodes' = [nodes EXCEPT ![Chain[cursor]] =
                       IF @.watch1 = PropagatedLiteral THEN [@ EXCEPT !.watch1 = to]
                       ELSE [@ EXCEPT !.watch2 = to]]
        /\ chains' = [chains EXCEPT ![PropagatedLiteral] = RemoveAt(@, cursor),
                                    ![to] = <<Chain[cursor]>> \o @]
  BY DEF VisitMoveWatch
<1>2. /\ Chain[cursor] \in DOMAIN nodes /\ RuleOK(VisitedRule)
      /\ NodeOK(Node)
      /\ PropagatedLiteral \in Literals
  BY VisitFacts, PropagatedFacts DEF VisitMoveWatch, Visiting
<1>3. to \in Literals /\ to # PropagatedLiteral
  BY <1>1, <1>2 DEF Alternatives, RuleOK
<1>4. DOMAIN chains = Literals
  BY DEF SolverInv, WatchInv
<1>5. MovedTo(to)
  BY <1>1, <1>2, <1>3 DEF MovedTo
<1>6. /\ chains'[PropagatedLiteral] = RemoveAt(Chain, cursor)
      /\ chains'[to] = <<Chain[cursor]>> \o chains[to]
      /\ \A l \in Literals \ {PropagatedLiteral, to} : chains'[l] = chains[l]
  BY <1>1, <1>2, <1>3, <1>4 DEF Chain
<1>7. nodes[Chain[cursor]] \in [rule : RuleIds, watch1 : Literals, watch2 : Literals]
  BY <1>2 DEF NodeOK, Node
<1>8. /\ DOMAIN nodes' = DOMAIN nodes
      /\ \A k \in DOMAIN nodes \ {Chain[cursor]} : nodes'[k] = nodes[k]
      /\ \A k \in {Chain[cursor]} :
           /\ nodes'[k].rule = nodes[k].rule
           /\ IF nodes[k].watch1 = PropagatedLiteral
              THEN nodes'[k].watch1 = to /\ nodes'[k].watch2 = nodes[k].watch2
              ELSE nodes'[k].watch2 = to /\ nodes'[k].watch1 = nodes[k].watch1
  BY <1>1, <1>2, <1>7
<1>9. UNCHANGED <<inst, rules, map, queue, propagate_index, cursor, level, pc>>
  BY DEF VisitMoveWatch, ruleVars, decisionVars
<1> QED
  BY <1>5, <1>6, <1>8, <1>9

\* What was passed stays passed by a moved watch ...
LEMMA MoveKeepsPassed ==
  ASSUME SolverInv, VisitMoveWatch, NEW k \in DOMAIN nodes, PassedBy(k)
  PROVE  PassedBy(k)'
<1>1. PICK to :
           /\ MovedTo(to)
           /\ \A j \in DOMAIN nodes \ {Chain[cursor]} : nodes'[j] = nodes[j]
           /\ \A j \in {Chain[cursor]} :
                /\ nodes'[j].rule = nodes[j].rule
                /\ IF nodes[j].watch1 = PropagatedLiteral
                   THEN nodes'[j].watch1 = to /\ nodes'[j].watch2 = nodes[j].watch2
                   ELSE nodes'[j].watch2 = to /\ nodes'[j].watch1 = nodes[j].watch1
           /\ UNCHANGED <<rules, map, queue, propagate_index>>
  BY MoveFacts
<1>2. PropagatedLiteral' = PropagatedLiteral /\ \A l : Satisfy(l)' <=> Satisfy(l)
  BY <1>1 DEF PropagatedLiteral, Satisfy, Entry
<1>3. CASE k # Chain[cursor]
  BY <1>1, <1>2, <1>3 DEF PassedBy
<1>4. CASE k = Chain[cursor]
  <2>1. /\ ~IsMulti(VisitedRule) /\ ~Satisfy(OtherWatch)
        /\ PropagatedLiteral \in Literals /\ Conflict(PropagatedLiteral)
    BY PropagatedFacts DEF VisitMoveWatch, Visiting
  <2>2. ~Satisfy(PropagatedLiteral)
    BY <2>1, StatusFacts DEF SolverInv
  <2>3. Node = nodes[k] /\ VisitedRule = rules[nodes[k].rule]
    BY <1>4 DEF Node, VisitedRule
  <2>4. PropagatedLiteral \notin {nodes[k].watch1, nodes[k].watch2}
    BY <2>1, <2>2, <2>3, OtherWatchIs DEF PassedBy
  <2>5. PropagatedLiteral \notin {nodes'[k].watch1, nodes'[k].watch2}
    BY <2>4, <1>1, <1>4 DEF MovedTo
  <2>6. ~IsMulti(rules'[nodes'[k].rule])
    BY <2>1, <2>3, <1>1, <1>4
  <2> QED
    BY <1>2, <2>5, <2>6 DEF PassedBy
<1> QED
  BY <1>3, <1>4

\* ... and by a decision.
LEMMA ImplyKeepsPassed ==
  ASSUME SolverInv, StackInv', VisitImply, NEW k \in DOMAIN nodes, PassedBy(k)
  PROVE  PassedBy(k)'
<1>1. UNCHANGED <<rules, nodes, propagate_index>>
  BY DEF VisitImply, ruleVars, watchVars
<1>2. PropagatedLiteral' = PropagatedLiteral
  <2>1. PICK l : Becomes(Len(queue), level, l, level, Node.rule)
    BY VisitImplyStep
  <2>2. propagate_index + 1 \in 1 .. Len(queue)
    BY PropagatedFacts DEF VisitImply, Visiting
  <2> QED
    BY <1>1, <2>1, <2>2 DEF Becomes, PropagatedLiteral
<1>3. NodeOK(nodes[k])
  BY DEF SolverInv, WatchInv
<1>4. /\ rules[nodes[k].rule].lits \subseteq Literals
      /\ nodes[k].watch1 \in Literals /\ nodes[k].watch2 \in Literals
  BY <1>3 DEF NodeOK, SolverInv, RulesInv, RuleOK
<1>5. \A m \in Literals : Satisfy(m) => Satisfy(m)'
  BY ImplyKeepsTrue
<1>6. CASE IsMulti(rules[nodes[k].rule])
  BY <1>1, <1>2, <1>4, <1>5, <1>6 DEF PassedBy
<1>7. CASE ~IsMulti(rules[nodes[k].rule])
  BY <1>1, <1>2, <1>4, <1>5, <1>7 DEF PassedBy
<1> QED
  BY <1>6, <1>7

\* VisitImply
LEMMA ImplyPasses ==
  ASSUME SolverInv, VisitImply, ~IsMulti(VisitedRule)
  PROVE  \A k \in {Chain[cursor]} : PassedBy(k)'
<1>1. PICK l : l = OtherWatch /\ Decide(l, level, Node.rule)
  BY DEF VisitImply, Asked
<1>2. inst.size \in Nat /\ map \in [Packages -> Int] /\ level \in Nat \ {0}
  BY DEF SolverInv, StackInv, Agree, Packages
<1>3. Satisfy(l)'
  BY <1>1, <1>2, DecidedIsTrue DEF Decide
<1>4. UNCHANGED <<rules, nodes, chains>> /\ Chain[cursor] \in DOMAIN nodes
  BY VisitFacts DEF VisitImply, ruleVars, watchVars
<1>5. l = Node.watch1 \/ l = Node.watch2
  BY <1>1 DEF OtherWatch
<1>6. ASSUME NEW k, k = Chain[cursor]
      PROVE  PassedBy(k)'
  <2>1. Satisfy(nodes[k].watch1)' \/ Satisfy(nodes[k].watch2)'
    BY <1>3, <1>4, <1>5, <1>6 DEF Node
  <2>2. ~IsMulti(rules'[nodes'[k].rule])
    BY <1>4, <1>6 DEF VisitedRule, Node
  <2> QED
    BY <1>4, <2>1, <2>2 DEF PassedBy
<1> QED
  BY <1>6

LEMMA ProgressStep ==
  ASSUME SolverInv, EnrolInv, ProgressInv, [Next]_vars
  PROVE  ProgressInv'
<1>1. StackInv'
  BY StepKeeps DEF SolverInv
<1>2. Len(queue) \in Nat /\ propagate_index \in 0 .. Len(queue) /\ cursor \in Nat \ {0}
  BY QueueFacts DEF SolverInv, QueueInv, RunInv
<1>3. CASE cursor' = 1
  <2>1. 1 .. cursor' - 1 = {}
    BY <1>3
  <2> QED
    BY <1>3, <2>1 DEF ProgressInv
<1>4. CASE VisitSettled \/ VisitMoveWatch \/ VisitImply
  <2>1. /\ Visiting /\ Propagating /\ pc' = "propagate" /\ pc = "propagate"
        /\ propagate_index' = propagate_index /\ propagate_index < Len(queue)
    BY <1>4 DEF VisitSettled, VisitMoveWatch, VisitImply, Visiting, Propagating
  <2>2. /\ cursor \in 1 .. Len(Chain) /\ Chain \in Seq(WatchedBy(PropagatedLiteral))
        /\ Len(Chain) \in Nat
        /\ PropagatedLiteral \in Literals
    <3>1. cursor \in 1 .. Len(Chain) /\ Chain \in Seq(WatchedBy(PropagatedLiteral))
      BY <2>1, VisitFacts
    <3> QED
      BY <3>1, <2>1, PropagatedFacts, LenProperties
  <2>3. \A j \in 1 .. Len(Chain) : Chain[j] \in DOMAIN nodes
    BY <2>2, ElementOfSeq DEF WatchedBy
  <2>4. \A j \in 1 .. cursor - 1 : j \in 1 .. Len(Chain) /\ PassedBy(Chain[j])
    BY <2>1, <2>2, <1>2 DEF ProgressInv
  <2>5. ASSUME Len(queue') \in Nat, Len(queue') >= Len(queue),
               NEW p, p = PropagatedLiteral',
               \A j \in 1 .. cursor' - 1 : j <= Len(chains'[p]) =>
                 \A k \in {chains'[p][j]} : PassedBy(k)'
        PROVE  ProgressInv'
    <3>1. pc' = "propagate" /\ propagate_index' # Len(queue')
      BY <2>1, <2>5, <1>2
    <3> QED
      BY <2>5, <3>1 DEF ProgressInv, Chain
  <2>6. CASE VisitSettled
    <3>1. /\ cursor' = cursor + 1
          /\ UNCHANGED <<rules, map, queue, nodes, chains, propagate_index, inst>>
      BY <2>6 DEF VisitSettled, ruleVars, decisionVars, watchVars
    <3>2. \A k : PassedBy(k)' <=> PassedBy(k)
      BY <3>1 DEF PassedBy, Satisfy, Entry, PropagatedLiteral
    <3>3. PassedBy(Chain[cursor])
      BY <2>6, SettledPasses
    <3>4. ASSUME NEW j \in 1 .. cursor' - 1
          PROVE  \A k \in {Chain[j]} : PassedBy(k)'
      <4>1. j \in 1 .. cursor - 1 \/ j = cursor
        BY <1>2, <3>1
      <4> QED
        BY <2>4, <3>2, <3>3, <4>1
    <3>5. PICK p : p = PropagatedLiteral'
      OBVIOUS
    <3>6. p = PropagatedLiteral /\ chains'[p] = Chain
      BY <3>1, <3>5 DEF PropagatedLiteral, Chain
    <3> QED
      BY <1>2, <2>5, <3>1, <3>4, <3>5, <3>6
  <2>7. CASE VisitMoveWatch
    <3>1. /\ UNCHANGED <<queue, propagate_index, cursor>>
          /\ chains'[PropagatedLiteral] = RemoveAt(Chain, cursor)
      BY <2>7, MoveFacts
    <3>2. PICK p : p = PropagatedLiteral'
      OBVIOUS
    <3>3. p = PropagatedLiteral
      BY <3>1, <3>2 DEF PropagatedLiteral
    <3>4. \A j \in 1 .. cursor - 1 : RemoveAt(Chain, cursor)[j] = Chain[j]
      BY <2>2, RemovedAt
    <3>5. \A k \in DOMAIN nodes : PassedBy(k) => PassedBy(k)'
      BY <2>7, MoveKeepsPassed
    <3>6. ASSUME NEW j \in 1 .. cursor' - 1
          PROVE  \A k \in {chains'[p][j]} : PassedBy(k)'
      <4>1. j \in 1 .. cursor - 1 /\ chains'[p][j] = Chain[j]
        BY <3>1, <3>3, <3>4
      <4> QED
        BY <2>3, <2>4, <3>5, <4>1
    <3> QED
      BY <1>2, <2>5, <3>1, <3>2, <3>6
  <2>8. CASE VisitImply
    <3>1. UNCHANGED <<chains, propagate_index>>
          /\ cursor' = IF IsMulti(VisitedRule) THEN cursor ELSE cursor + 1
      BY <2>8 DEF VisitImply, watchVars
    <3>2. Len(queue') = Len(queue) + 1 /\ queue'[propagate_index + 1] = queue[propagate_index + 1]
      <4>1. PICK l : Becomes(Len(queue), level, l, level, Node.rule)
        BY <1>1, <2>8, VisitImplyStep
      <4>2. propagate_index + 1 \in 1 .. Len(queue)
        BY <1>2, <2>1
      <4> QED
        BY <4>1, <4>2 DEF Becomes
    <3>3. PICK p : p = PropagatedLiteral'
      OBVIOUS
    <3>4. p = PropagatedLiteral /\ chains'[p] = Chain
      BY <3>1, <3>2, <3>3 DEF PropagatedLiteral, Chain
    <3>5. \A k \in DOMAIN nodes : PassedBy(k) => PassedBy(k)'
      BY <1>1, <2>8, ImplyKeepsPassed
    <3>6. ~IsMulti(VisitedRule) => \A k \in {Chain[cursor]} : PassedBy(k)'
      BY <2>8, ImplyPasses
    <3>7. ASSUME NEW j \in 1 .. cursor' - 1
          PROVE  \A k \in {Chain[j]} : PassedBy(k)'
      <4>1. j \in 1 .. cursor - 1 \/ (j = cursor /\ ~IsMulti(VisitedRule))
        BY <1>2, <3>1
      <4> QED
        BY <2>3, <2>4, <3>5, <3>6, <4>1
    <3> QED
      BY <1>2, <2>5, <3>2, <3>3, <3>4, <3>7
  <2> QED
    BY <1>4, <2>6, <2>7, <2>8
<1>5. CASE UNCHANGED vars
  <2>1. UNCHANGED <<rules, map, queue, nodes, chains, propagate_index, pc, cursor>>
    BY <1>5 DEF vars
  <2>2. \A k : PassedBy(k)' <=> PassedBy(k)
    BY <2>1 DEF PassedBy, Satisfy, Entry, PropagatedLiteral
  <2> QED
    BY <2>1, <2>2 DEF ProgressInv, Propagating, Chain, PropagatedLiteral
<1> QED
  BY <1>3, <1>4, <1>5, CursorMoves

-----------------------------------------------------------------------------
(***************************************************************************)
(* The chains.                                                             *)
(***************************************************************************)

\* A node that keeps its watches and its entries stays chained.
LEMMA ChainedStays ==
  ASSUME NEW k, NodeChained(k), UNCHANGED inst,
         rules'[nodes'[k].rule] = rules[nodes[k].rule],
         nodes'[k] = nodes[k],
         NodeOK(nodes[k]), rules[nodes[k].rule].lits \subseteq Literals,
         \A l \in Literals : /\ Has(chains'[l], k) <=> Has(chains[l], k)
                             /\ AtMostOnce(chains[l], k) => AtMostOnce(chains'[l], k)
                             /\ Twice(chains[l], k) => Twice(chains'[l], k)
  PROVE  NodeChained(k)'
<1> DEFINE r == rules[nodes[k].rule]
           w1 == nodes[k].watch1
           w2 == nodes[k].watch2
<1>1. w1 \in Literals /\ w2 \in Literals /\ r.lits \subseteq Literals /\ Literals' = Literals
  BY DEF NodeOK, Literals
<1>2. /\ IsMulti(r) => \A l \in r.lits : Has(chains'[l], k)
      /\ ~IsMulti(r) /\ r.why = 0 =>
           /\ w1 # w2
           /\ \A l \in Literals : /\ Has(chains'[l], k) <=> l \in {w1, w2}
                                  /\ AtMostOnce(chains'[l], k)
      /\ r.why > 0 =>
           /\ Has(chains'[w1], k) /\ Has(chains'[w2], k)
           /\ w1 = w2 => Twice(chains'[w1], k)
  BY <1>1 DEF NodeChained
<1> QED
  BY <1>1, <1>2 DEF NodeChained

\* The entries of the learned node, at the head of the chain of l.
Entries(n, node, l) ==
  (IF l = node.watch2 THEN <<n>> ELSE <<>>) \o (IF l = node.watch1 THEN <<n>> ELSE <<>>)

LEMMA EntriesOf ==
  ASSUME NEW n, NEW node, NEW l
  PROVE  /\ Entries(n, node, l) \in Seq({n})
         /\ \A i \in 1 .. Len(Entries(n, node, l)) : Entries(n, node, l)[i] = n
         /\ l \in {node.watch1, node.watch2} => Has(Entries(n, node, l), n)
         /\ l = node.watch1 /\ l = node.watch2 => Twice(Entries(n, node, l), n)
<1> DEFINE s == IF l = node.watch2 THEN <<n>> ELSE <<>>
           t == IF l = node.watch1 THEN <<n>> ELSE <<>>
           e == s \o t
<1>1. <<n>> \in Seq({n}) /\ Len(<<n>>) = 1 /\ <<n>>[1] = n
  OBVIOUS
<1>2. <<>> \in Seq({n}) /\ Len(<<>>) = 0
  BY EmptySeq
<1>2a. PICK one, none :
         /\ one \in Seq({n}) /\ Len(one) = 1 /\ none \in Seq({n}) /\ Len(none) = 0
         /\ s = IF l = node.watch2 THEN one ELSE none
         /\ t = IF l = node.watch1 THEN one ELSE none
  <2>1. PICK one : one = <<n>>
    OBVIOUS
  <2>2. PICK none : none = <<>>
    OBVIOUS
  <2>3. /\ s = IF l = node.watch2 THEN one ELSE none
        /\ t = IF l = node.watch1 THEN one ELSE none
    BY <2>1, <2>2, Zenon
  <2> HIDE DEF s, t
  <2>4. one \in Seq({n}) /\ Len(one) = 1
    BY <2>1, <1>1, Zenon
  <2>5. none \in Seq({n}) /\ Len(none) = 0
    BY <2>2, <1>2, Zenon
  <2> QED
    BY <2>3, <2>4, <2>5
<1> HIDE DEF s, t
<1>3. /\ s \in Seq({n}) /\ Len(s) = IF l = node.watch2 THEN 1 ELSE 0
      /\ t \in Seq({n}) /\ Len(t) = IF l = node.watch1 THEN 1 ELSE 0
  BY <1>2a
<1>4. e \in Seq({n}) /\ Len(e) = Len(s) + Len(t)
  BY <1>3, JoinedElements
<1> HIDE DEF e
<1>5. \A i \in 1 .. Len(e) : e[i] = n
  BY <1>4, ElementOfSeq
<1>6. l \in {node.watch1, node.watch2} => Len(e) >= 1
  BY <1>3, <1>4
<1>7. l = node.watch1 /\ l = node.watch2 => Len(e) = 2
  BY <1>3, <1>4
<1>8. l \in {node.watch1, node.watch2} => 1 \in 1 .. Len(e)
  BY <1>4, <1>6, LenProperties
<1>9. l = node.watch1 /\ l = node.watch2 => 1 \in 1 .. Len(e) /\ 2 \in 1 .. Len(e)
  BY <1>7
<1>10. Entries(n, node, l) = e
  BY DEF Entries, e, s, t
<1> QED
  BY <1>4, <1>5, <1>8, <1>9, <1>10 DEF Has, Twice

\* Elements put before a sequence that has some.
LEMMA PrependedTwice ==
  ASSUME NEW S, NEW s \in Seq(S), NEW t \in Seq(S), NEW k
  PROVE  /\ Has(s, k) => Has(s \o t, k)
         /\ Twice(s, k) => Twice(s \o t, k)
<1> DEFINE u == s \o t
<1>1. /\ Len(s) \in Nat /\ Len(t) \in Nat /\ Len(u) = Len(s) + Len(t)
      /\ \A i \in 1 .. Len(s) : u[i] = s[i]
  BY JoinedElements
<1>2. \A i \in 1 .. Len(s) : i \in 1 .. Len(u)
  BY <1>1
<1> HIDE DEF u
<1>3. (Has(s, k) => Has(u, k)) /\ (Twice(s, k) => Twice(u, k))
  BY <1>1, <1>2 DEF Has, Twice
<1> QED
  BY <1>3 DEF u

LEMMA LearnChains ==
  ASSUME SolverInv, ChainInv, Learn
  PROVE  ChainInv'
<1> DEFINE new == Len(rules) + 1
           n == Len(nodes) + 1
<1>1. Grown /\ RulesInv'
  BY LearnedStored
<1>2. \A k \in DOMAIN nodes :
        /\ NodeOK(nodes[k]) /\ nodes[k].rule \in RuleIds
        /\ rules[nodes[k].rule].lits \subseteq Literals
        /\ rules'[nodes[k].rule] = rules[nodes[k].rule]
  BY <1>1 DEF SolverInv, WatchInv, NodeOK, RulesInv, RuleOK, Grown
<1>3. UNCHANGED inst
  BY DEF Learn
<1>4. PICK keep :
        \/ IsAssertion(rules'[new]) /\ UNCHANGED <<nodes, chains>>
        \/ ~IsAssertion(rules'[new]) /\ \E node : LearnedNode(node, keep)
  BY LearnGraph
<1>5. CASE UNCHANGED <<nodes, chains>>
  <2>1. ASSUME NEW k \in DOMAIN nodes
        PROVE  NodeChained(k)'
    BY <1>2, <1>3, <1>5, <2>1, ChainedStays DEF ChainInv
  <2> QED
    BY <1>5, <2>1 DEF ChainInv
<1>6. CASE ~IsAssertion(rules'[new]) /\ \E node : LearnedNode(node, keep)
  <2>1. PICK node : LearnedNode(node, keep)
    BY <1>6
  <2>2. /\ node.rule = new /\ node.watch1 \in Literals /\ node.watch2 \in Literals
        /\ n \in Nat /\ n - 1 \in Nat /\ DOMAIN nodes = 1 .. n - 1 /\ DOMAIN nodes' = 1 .. n
        /\ \A j \in 1 .. n - 1 : nodes'[j] = nodes[j]
        /\ nodes'[n] = node
    BY <1>6, <2>1, LearnedNodeFacts
  <2>3. \A l \in Literals : chains'[l] = Entries(n, node, l) \o chains[l]
    BY <2>1 DEF LearnedNode, Entries
  <2>4. \A l \in Literals : chains[l] \in Seq(1 .. n) /\ Entries(n, node, l) \in Seq(1 .. n)
    <3> SUFFICES ASSUME NEW l \in Literals
                 PROVE  chains[l] \in Seq(1 .. n) /\ Entries(n, node, l) \in Seq(1 .. n)
      OBVIOUS
    <3>1. chains[l] \in Seq(1 .. n - 1) /\ 1 .. n - 1 \subseteq 1 .. n
      BY <2>2 DEF SolverInv, WatchInv
    <3> HIDE DEF n
    <3>2. Entries(n, node, l) \in Seq({n}) /\ {n} \subseteq 1 .. n
      <4>1. {n} \subseteq 1 .. n
        BY <2>2
      <4> QED
        BY <4>1, EntriesOf
    <3>3. chains[l] \in Seq(1 .. n)
      BY <3>1, SeqWider
    <3> QED
      BY <3>2, <3>3, SeqWider
  <2> HIDE DEF n, new
  <2>5. ASSUME NEW k \in DOMAIN nodes
        PROVE  NodeChained(k)'
    <3>1. k # n /\ nodes'[k] = nodes[k]
      BY <2>2
    <3>2. ASSUME NEW l \in Literals
          PROVE  /\ Has(chains'[l], k) <=> Has(chains[l], k)
                 /\ AtMostOnce(chains[l], k) => AtMostOnce(chains'[l], k)
                 /\ Twice(chains[l], k) => Twice(chains'[l], k)
      <4>1. \A i \in 1 .. Len(Entries(n, node, l)) : Entries(n, node, l)[i] # k
        <5>1. \A i \in 1 .. Len(Entries(n, node, l)) : Entries(n, node, l)[i] = n
          BY EntriesOf
        <5> QED
          BY <3>1, <5>1
      <4>2. chains'[l] = Entries(n, node, l) \o chains[l]
            /\ chains[l] \in Seq(1 .. n) /\ Entries(n, node, l) \in Seq(1 .. n)
        BY <2>3, <2>4
      <4>3. /\ Has(Entries(n, node, l) \o chains[l], k) <=> Has(chains[l], k)
            /\ AtMostOnce(chains[l], k) => AtMostOnce(Entries(n, node, l) \o chains[l], k)
            /\ Twice(chains[l], k) => Twice(Entries(n, node, l) \o chains[l], k)
        BY <4>1, <4>2, PrependedOthers
      <4> QED
        BY <4>2, <4>3
    <3>3. NodeChained(k)
      BY DEF ChainInv
    <3>4. rules'[nodes'[k].rule] = rules[nodes[k].rule]
      BY <1>2, <3>1
    <3> QED
      BY <1>2, <1>3, <3>1, <3>2, <3>3, <3>4, ChainedStays
  <2>6. ASSUME NEW k, k = n
        PROVE  NodeChained(k)'
    <3>1. nodes'[k] = node /\ rules'[new].kind = "generic" /\ rules'[new].why # 0
      <4>1. rules'[new].kind = "generic" /\ rules'[new].why = Len(learned_pool)
        BY LearnedStored DEF IsTheLearned, new
      <4>2. learned_pool # <<>> /\ learned_pool \in Seq(SUBSET RuleIds)
        BY DEF Learn, SolverInv, AnInv, InAnalysis, PoolInv
      <4> QED
        BY <2>2, <2>6, <4>1, <4>2, EmptySeq
    <3>2. \A l \in {node.watch1, node.watch2} : Has(chains'[l], n)
      <4> SUFFICES ASSUME NEW l \in {node.watch1, node.watch2} PROVE Has(chains'[l], n)
        OBVIOUS
      <4>1. Has(Entries(n, node, l), n)
        BY EntriesOf
      <4>2. /\ chains'[l] = Entries(n, node, l) \o chains[l]
            /\ chains[l] \in Seq(1 .. n) /\ Entries(n, node, l) \in Seq(1 .. n)
        BY <2>2, <2>3, <2>4
      <4> QED
        BY <4>1, <4>2, PrependedTwice
    <3>3. node.watch1 = node.watch2 => Twice(chains'[node.watch1], n)
      <4> SUFFICES ASSUME node.watch1 = node.watch2, NEW l, l = node.watch1
                   PROVE  Twice(chains'[l], n)
        OBVIOUS
      <4>1. Twice(Entries(n, node, l), n)
        BY EntriesOf
      <4>2. /\ chains'[l] = Entries(n, node, l) \o chains[l]
            /\ chains[l] \in Seq(1 .. n) /\ Entries(n, node, l) \in Seq(1 .. n)
        BY <2>2, <2>3, <2>4
      <4> QED
        BY <4>1, <4>2, PrependedTwice
    <3> QED
      BY <2>2, <2>6, <3>1, <3>2, <3>3 DEF NodeChained, IsMulti
  <2>7. \A k \in 1 .. n : k \in 1 .. n - 1 \/ k = n
    BY <2>2
  <2> QED
    BY <2>2, <2>5, <2>6, <2>7 DEF ChainInv
<1> QED
  BY <1>4, <1>5, <1>6

\* A moved watch changes the entries of its node only.
LEMMA MovedOthers ==
  ASSUME SolverInv, VisitMoveWatch, NEW to, MovedTo(to),
         chains'[PropagatedLiteral] = RemoveAt(Chain, cursor),
         chains'[to] = <<Chain[cursor]>> \o chains[to],
         \A l \in Literals \ {PropagatedLiteral, to} : chains'[l] = chains[l],
         NEW k, k # Chain[cursor], NEW l \in Literals
  PROVE  /\ Has(chains'[l], k) <=> Has(chains[l], k)
         /\ AtMostOnce(chains[l], k) => AtMostOnce(chains'[l], k)
         /\ Twice(chains[l], k) => Twice(chains'[l], k)
<1>1. /\ cursor \in 1 .. Len(Chain) /\ Chain \in Seq(WatchedBy(PropagatedLiteral))
      /\ Chain[cursor] \in DOMAIN nodes
  BY VisitFacts DEF VisitMoveWatch
<1>2. to \in Literals /\ chains[to] \in Seq(DOMAIN nodes)
  BY DEF MovedTo, SolverInv, WatchInv
<1>3. CASE l = PropagatedLiteral
  <2>1. /\ Has(RemoveAt(Chain, cursor), k) <=> Has(Chain, k)
        /\ AtMostOnce(Chain, k) => AtMostOnce(RemoveAt(Chain, cursor), k)
        /\ Twice(Chain, k) => Twice(RemoveAt(Chain, cursor), k)
    BY <1>1, RemovedOthers
  <2> QED
    BY <2>1, <1>3 DEF Chain
<1>4. CASE l = to
  <2> DEFINE s == <<Chain[cursor]>>
  <2>1. /\ s \in Seq(DOMAIN nodes) /\ Len(s) = 1 /\ s[1] = Chain[cursor]
    BY <1>1
  <2>2. \A i \in 1 .. Len(s) : s[i] # k
    BY <2>1
  <2> HIDE DEF s
  <2>3. /\ Has(s \o chains[to], k) <=> Has(chains[to], k)
        /\ AtMostOnce(chains[to], k) => AtMostOnce(s \o chains[to], k)
        /\ Twice(chains[to], k) => Twice(s \o chains[to], k)
    BY <1>2, <2>1, <2>2, PrependedOthers
  <2> QED
    BY <2>3, <1>4 DEF s
<1>5. CASE l \notin {PropagatedLiteral, to}
  BY <1>5
<1> QED
  BY <1>3, <1>4, <1>5

\* Of the node that moves, an entry leaves the chain that is propagated and one
\* enters the chain of the new watch.
LEMMA MovedNode ==
  ASSUME SolverInv, VisitMoveWatch, NEW to, MovedTo(to),
         chains'[PropagatedLiteral] = RemoveAt(Chain, cursor),
         chains'[to] = <<Chain[cursor]>> \o chains[to],
         \A l \in Literals \ {PropagatedLiteral, to} : chains'[l] = chains[l],
         NEW k, k = Chain[cursor]
  PROVE  /\ Has(chains[PropagatedLiteral], k)
         /\ AtMostOnce(chains[PropagatedLiteral], k) =>
              /\ ~Has(chains'[PropagatedLiteral], k)
              /\ AtMostOnce(chains'[PropagatedLiteral], k)
         /\ Twice(chains[PropagatedLiteral], k) => Has(chains'[PropagatedLiteral], k)
         /\ Has(chains'[to], k)
         /\ ~Has(chains[to], k) => AtMostOnce(chains'[to], k)
<1>1. /\ cursor \in 1 .. Len(Chain) /\ Chain \in Seq(WatchedBy(PropagatedLiteral))
      /\ Chain[cursor] \in DOMAIN nodes
  BY VisitFacts DEF VisitMoveWatch
<1>2. to \in Literals /\ chains[to] \in Seq(DOMAIN nodes)
  BY DEF MovedTo, SolverInv, WatchInv
<1>3. /\ AtMostOnce(Chain, k) => ~Has(RemoveAt(Chain, cursor), k)
      /\ AtMostOnce(Chain, k) => AtMostOnce(RemoveAt(Chain, cursor), k)
      /\ Twice(Chain, k) => Has(RemoveAt(Chain, cursor), k)
  BY <1>1, RemovedOthers
<1>4. Has(Chain, k)
  BY <1>1 DEF Has
<1>5. Has(<<k>> \o chains[to], k)
  BY <1>1, <1>2, PrependedHas
<1>6. ~Has(chains[to], k) => AtMostOnce(<<k>> \o chains[to], k)
  BY <1>1, <1>2, PrependedOnce
<1> QED
  BY <1>3, <1>4, <1>5, <1>6 DEF Chain

LEMMA MoveChains ==
  ASSUME SolverInv, ChainInv, VisitMoveWatch
  PROVE  ChainInv'
<1> DEFINE L == PropagatedLiteral
           p == Chain[cursor]
<1>1. PICK to :
           /\ MovedTo(to)
           /\ chains'[L] = RemoveAt(Chain, cursor)
           /\ chains'[to] = <<p>> \o chains[to]
           /\ \A l \in Literals \ {L, to} : chains'[l] = chains[l]
           /\ DOMAIN nodes' = DOMAIN nodes
           /\ \A k \in DOMAIN nodes \ {p} : nodes'[k] = nodes[k]
           /\ \A k \in {p} :
                /\ nodes'[k].rule = nodes[k].rule
                /\ IF nodes[k].watch1 = L
                   THEN nodes'[k].watch1 = to /\ nodes'[k].watch2 = nodes[k].watch2
                   ELSE nodes'[k].watch2 = to /\ nodes'[k].watch1 = nodes[k].watch1
           /\ UNCHANGED <<inst, rules>>
  BY MoveFacts
<1>2. \A k \in DOMAIN nodes :
        NodeOK(nodes[k]) /\ rules[nodes[k].rule].lits \subseteq Literals
  BY DEF SolverInv, WatchInv, NodeOK, RulesInv, RuleOK
<1>3. ASSUME NEW k \in DOMAIN nodes, k # p
      PROVE  NodeChained(k)'
  <2>1. \A l \in Literals :
          /\ Has(chains'[l], k) <=> Has(chains[l], k)
          /\ AtMostOnce(chains[l], k) => AtMostOnce(chains'[l], k)
          /\ Twice(chains[l], k) => Twice(chains'[l], k)
    BY <1>1, <1>3, MovedOthers
  <2>2. nodes'[k] = nodes[k] /\ rules'[nodes'[k].rule] = rules[nodes[k].rule] /\ NodeChained(k)
    BY <1>1, <1>3 DEF ChainInv
  <2> QED
    BY <1>1, <1>2, <2>1, <2>2, ChainedStays
<1>4. ASSUME NEW k \in DOMAIN nodes, k = p
      PROVE  NodeChained(k)'
  <2> DEFINE r == rules[nodes[k].rule]
             w1 == nodes[k].watch1
             w2 == nodes[k].watch2
  <2>1. ~IsMulti(r) /\ to # L /\ to # OtherWatch /\ to \in Literals /\ L \in Literals
        /\ w1 \in Literals /\ w2 \in Literals
    BY <1>1, <1>2, <1>4 DEF MovedTo, VisitMoveWatch, VisitedRule, Node, Alternatives, NodeOK
  <2>2. OtherWatch = IF w1 = L THEN w2 ELSE w1
    BY <1>4 DEF OtherWatch, Node
  <2>3. /\ Has(chains[L], k)
        /\ AtMostOnce(chains[L], k) => ~Has(chains'[L], k) /\ AtMostOnce(chains'[L], k)
        /\ Twice(chains[L], k) => Has(chains'[L], k)
        /\ Has(chains'[to], k)
        /\ ~Has(chains[to], k) => AtMostOnce(chains'[to], k)
    BY <1>1, <1>4, MovedNode
  <2>4. nodes'[k].rule = nodes[k].rule /\ rules' = rules /\ Literals' = Literals
        /\ IF w1 = L THEN nodes'[k].watch1 = to /\ nodes'[k].watch2 = w2
           ELSE nodes'[k].watch2 = to /\ nodes'[k].watch1 = w1
    BY <1>1, <1>4 DEF Literals
  <2>5. \A l \in Literals \ {L, to} : chains'[l] = chains[l]
    BY <1>1
  <2>6. /\ r.why = 0 => /\ w1 # w2
                        /\ \A l \in Literals : /\ Has(chains[l], k) <=> l \in {w1, w2}
                                               /\ AtMostOnce(chains[l], k)
        /\ r.why > 0 => /\ Has(chains[w1], k) /\ Has(chains[w2], k)
                        /\ w1 = w2 => Twice(chains[w1], k)
    BY <2>1 DEF ChainInv, NodeChained
  <2> HIDE DEF L, p, r, w1, w2
  <2>7. CASE w1 = L
    <3>1. nodes'[k].watch1 = to /\ nodes'[k].watch2 = w2 /\ to # w2
      BY <2>1, <2>2, <2>4, <2>7
    <3>2. ASSUME r.why = 0
          PROVE  \A l \in Literals : /\ Has(chains'[l], k) <=> l \in {to, w2}
                                     /\ AtMostOnce(chains'[l], k)
      <4>1. ASSUME NEW l \in Literals, l \notin {L, to}
            PROVE  /\ Has(chains'[l], k) <=> l \in {to, w2}
                   /\ AtMostOnce(chains'[l], k)
        BY <2>5, <2>6, <2>7, <3>2, <4>1
      <4>2. ~Has(chains'[L], k) /\ AtMostOnce(chains'[L], k) /\ L \notin {to, w2}
        BY <2>1, <2>3, <2>6, <2>7, <3>2
      <4>3. Has(chains'[to], k) /\ AtMostOnce(chains'[to], k)
        BY <2>1, <2>3, <2>6, <2>7, <3>1, <3>2
      <4> QED
        BY <4>1, <4>2, <4>3
    <3>3. ASSUME r.why > 0
          PROVE  Has(chains'[to], k) /\ Has(chains'[w2], k)
      <4>1. CASE w2 = L
        BY <2>3, <2>6, <2>7, <3>3, <4>1
      <4>2. CASE w2 # L
        BY <2>1, <2>3, <2>5, <2>6, <3>1, <3>3, <4>2
      <4> QED
        BY <4>1, <4>2, <2>3
    <3> QED
      BY <2>1, <2>4, <3>1, <3>2, <3>3 DEF NodeChained, r
  <2>8. CASE w1 # L
    <3>1. nodes'[k].watch1 = w1 /\ nodes'[k].watch2 = to /\ to # w1
      BY <2>1, <2>2, <2>4, <2>8
    <3>2. ASSUME r.why = 0
          PROVE  \A l \in Literals : /\ Has(chains'[l], k) <=> l \in {w1, to}
                                     /\ AtMostOnce(chains'[l], k)
      <4>0. w2 = L
        BY <2>1, <2>3, <2>6, <2>8, <3>2
      <4>1. ASSUME NEW l \in Literals, l \notin {L, to}
            PROVE  /\ Has(chains'[l], k) <=> l \in {w1, to}
                   /\ AtMostOnce(chains'[l], k)
        BY <2>5, <2>6, <3>2, <4>0, <4>1
      <4>2. ~Has(chains'[L], k) /\ AtMostOnce(chains'[L], k) /\ L \notin {w1, to}
        BY <2>1, <2>3, <2>6, <2>8, <3>2
      <4>3. Has(chains'[to], k) /\ AtMostOnce(chains'[to], k)
        BY <2>1, <2>3, <2>6, <3>1, <3>2, <4>0
      <4> QED
        BY <4>1, <4>2, <4>3
    <3>3. ASSUME r.why > 0
          PROVE  Has(chains'[w1], k) /\ Has(chains'[to], k)
      BY <2>1, <2>3, <2>5, <2>6, <2>8, <3>1, <3>3
    <3> QED
      BY <2>1, <2>4, <3>1, <3>2, <3>3 DEF NodeChained, r
  <2> QED
    BY <2>7, <2>8
<1> QED
  BY <1>1, <1>3, <1>4 DEF ChainInv

LEMMA ChainStep ==
  ASSUME SolverInv, ChainInv, [Next]_vars
  PROVE  ChainInv'
<1>1. CASE UNCHANGED <<rules, nodes, chains>>
  <2>1. UNCHANGED inst
    BY Frames
  <2> QED
    BY <1>1, <2>1 DEF ChainInv, NodeChained, Literals
<1> QED
  BY <1>1, LearnChains, MoveChains, Frames

-----------------------------------------------------------------------------
(***************************************************************************)
(* What the watches see.                                                   *)
(***************************************************************************)

\* Which steps make decisions, or propagate them.
LEMMA SeeingSteps ==
  ASSUME [Next]_vars
  PROVE  \/ UNCHANGED <<map, queue, level, propagate_index>> /\ (InConflict => InConflict')
         \/ NextDecision \/ VisitConflict
         \/ AssertDecide \/ AssertConflict
         \/ VisitImply \/ InstallRequest \/ InstallProvider \/ Learn \/ RetryBranch
<1> USE DEF decisionVars, InConflict
<1>1. CASE AssertSkip \/ AssertionsDone \/ RunSat
  BY <1>1 DEF AssertSkip, AssertionsDone, RunSat, Asserting
<1>2. CASE VisitSettled \/ VisitMoveWatch
  BY <1>2 DEF VisitSettled, VisitMoveWatch, Visiting, Propagating
<1>3. CASE Propagated
  BY <1>3 DEF Propagated
<1>4. CASE Unsolvable \/ BeginAnalysis \/ Resolve
  BY <1>4 DEF Unsolvable, BeginAnalysis, Resolve
<1>5. CASE WalkEnd \/ WalkLearn \/ WalkReason
  BY <1>5, Zenon DEF WalkEnd, WalkLearn, WalkReason
<1>6. CASE SkipRequest \/ RequestsDone \/ SkipRule \/ Swept
  BY <1>6 DEF SkipRequest, RequestsDone, SkipRule, Swept, Requesting, Sweeping
<1>7. CASE BranchesDone \/ Terminated \/ UNCHANGED vars
  BY <1>7 DEF BranchesDone, Terminated, vars
<1> QED
  BY <1>1, <1>2, <1>3, <1>4, <1>5, <1>6, <1>7 DEF Next

\* After a revert, what is seen false was so before, and what was true by then
\* still is.
LEMMA SeenBecomes ==
  ASSUME SolverInv, UNCHANGED inst, NEW keep, NEW floor \in Nat, NEW d, NEW lv, NEW reason,
         Becomes(keep, floor, d, lv, reason),
         propagate_index' \in Nat, propagate_index' <= keep,
         \A k \in 1 .. propagate_index' :
           k <= propagate_index /\ (InConflict => LevelAt(k) < level),
         NEW l \in Literals, FalseSeen(l)'
  PROVE  /\ FalseSeen(l)
         /\ \A m \in Literals : TrueBy(m, l) => TrueBy(m, l)'
<1>1. PICK k \in 1 .. propagate_index' : queue'[k].literal = -l
  BY DEF FalseSeen
<1>2. /\ Len(queue) \in Nat /\ keep \in 0 .. Len(queue)
      /\ propagate_index \in 0 .. Len(queue) /\ StackInv
  BY QueueFacts DEF SolverInv, QueueInv, Becomes
<1>3. /\ k \in 1 .. keep /\ k \in 1 .. Len(queue) /\ k \in 1 .. propagate_index
      /\ (InConflict => LevelAt(k) < level)
  BY <1>1, <1>2
<1>4. queue[k].literal = -l /\ LevelAt(k) <= floor
  BY <1>1, <1>3 DEF Becomes
<1>5. FalseSeen(l)
  BY <1>3, <1>4 DEF FalseSeen
<1>6. Conflict(l) /\ DecisionLevel(l) = LevelAt(k)
  BY <1>2, <1>3, <1>4, NegatedDecision
<1>7. ~Undecided(l) /\ DecisionLevel(l) <= floor
  BY <1>2, <1>4, <1>6, StatusFacts
<1>8. DecisionLevel(l)' = DecisionLevel(l)
  BY <1>7, KeptStatus
<1>9. ASSUME NEW m \in Literals, TrueBy(m, l)
      PROVE  TrueBy(m, l)'
  <2>1. Satisfy(m) /\ DecisionLevel(m) <= DecisionLevel(l)
    BY <1>9 DEF TrueBy
  <2>2. /\ DecisionLevel(m) \in Nat /\ DecisionLevel(l) \in Nat /\ ~Undecided(m)
        /\ LevelAt(k) \in Nat
    BY <1>2, <1>3, <2>1, StatusFacts, QueueFacts
  <2>3. DecisionLevel(m) <= floor
    BY <1>4, <1>6, <2>1, <2>2
  <2>4. Satisfy(m)' /\ DecisionLevel(m)' = DecisionLevel(m)
    BY <2>1, <2>2, <2>3, KeptStatus
  <2> QED
    BY <1>8, <2>1, <2>4 DEF TrueBy
<1> QED
  BY <1>5, <1>9

\* Only the end of a chain makes a literal seen; what was true by a literal that
\* is seen false stays so.
LEMMA SeenFacts ==
  ASSUME SolverInv, PendingInv, [Next]_vars, NEW l \in Literals, FalseSeen(l)'
  PROVE  /\ FalseSeen(l) \/ (NextDecision /\ l = PropagatedLiteral)
         /\ \A m \in Literals : TrueBy(m, l) => TrueBy(m, l)'
<1>0. /\ StackInv /\ StackInv' /\ Len(queue) \in Nat /\ DOMAIN queue = 1 .. Len(queue)
      /\ propagate_index \in 0 .. Len(queue) /\ UNCHANGED inst /\ level \in Nat
  BY StepKeeps, QueueFacts, Frames DEF SolverInv, QueueInv, StackInv
<1>1. ASSUME UNCHANGED <<map, queue, level>>
      PROVE  \A m \in Literals : TrueBy(m, l) => TrueBy(m, l)'
  BY <1>1 DEF TrueBy, Satisfy, DecisionLevel, Entry
<1>2. CASE UNCHANGED <<map, queue, level, propagate_index>> /\ (InConflict => InConflict')
  <2>1. FalseSeen(l)
    BY <1>2 DEF FalseSeen, LevelAt, DecisionLevel, Entry
  <2> QED
    BY <1>1, <1>2, <2>1
<1>3. CASE NextDecision
  <2>1. /\ UNCHANGED <<map, queue, level>> /\ propagate_index' = propagate_index + 1
        /\ Propagating /\ ~InConflict
    BY <1>3 DEF NextDecision, decisionVars, Propagating, InConflict
  <2>2. PICK k \in 1 .. propagate_index + 1 : queue[k].literal = -l
    BY <2>1 DEF FalseSeen
  <2>3. CASE k \in 1 .. propagate_index
    BY <1>1, <2>1, <2>2, <2>3 DEF FalseSeen
  <2>4. CASE k = propagate_index + 1
    <3>1. l = PropagatedLiteral
      BY <1>0, <2>2, <2>4, LiteralFacts, RulesFacts DEF PropagatedLiteral
    <3> QED
      BY <1>1, <1>3, <2>1, <3>1
  <2> QED
    BY <1>0, <2>2, <2>3, <2>4
<1>4. CASE VisitConflict
  <2>1. /\ UNCHANGED <<map, queue, level>> /\ propagate_index' = propagate_index + 1
        /\ Propagating /\ ~InConflict /\ InConflict'
    BY <1>4 DEF VisitConflict, Visiting, decisionVars, Propagating, InConflict
  <2>2. PICK k \in 1 .. propagate_index + 1 : queue[k].literal = -l /\ LevelAt(k) < level
    BY <2>1 DEF FalseSeen, LevelAt, DecisionLevel, Entry
  <2>3. LevelAt(propagate_index + 1) = level
    BY <2>1, <1>0, PropagatedFacts DEF SolverInv, QueueInv, Propagating
  <2>4. k \in 1 .. propagate_index
    BY <1>0, <2>2, <2>3
  <2> QED
    BY <1>1, <2>1, <2>2, <2>4 DEF FalseSeen
<1>5. CASE AssertDecide \/ AssertConflict
  <2>1. propagate_index' = 0
    BY <1>5 DEF AssertDecide, AssertConflict, Asserting, SolverInv, AssertInv
  <2> QED
    BY <2>1 DEF FalseSeen
<1>6. CASE VisitImply \/ InstallRequest \/ InstallProvider
  <2>1. propagate_index' = propagate_index /\ ~InConflict
    BY <1>6 DEF VisitImply, InstallRequest, InstallProvider, Requesting, Sweeping,
                Visiting, Propagating, InConflict, SelectAndInstall
  <2>2. \E d, lv, reason : Becomes(Len(queue), level, d, lv, reason)
    BY <1>0, <1>6, VisitImplyStep, InstallStep
  <2>3. \A k \in 1 .. propagate_index' :
          k <= propagate_index /\ (InConflict => LevelAt(k) < level)
    BY <1>0, <2>1
  <2> QED
    BY <1>0, <2>1, <2>2, <2>3, SeenBecomes
<1>7. CASE Learn
  <2>1. PICK keep \in 0 .. Len(queue) :
           /\ keep < Len(queue)
           /\ Becomes(keep, an.rule_level, an.learned, an.rule_level, Len(rules) + 1)
           /\ propagate_index' = keep
    BY <1>0, <1>7, LearnStep
  <2>2. InConflict /\ an.rule_level \in 1 .. level - 1 /\ an.rule_level \in Nat
    BY <1>7 DEF Learn, InConflict
  <2>3. ASSUME NEW k \in 1 .. keep
        PROVE  k <= propagate_index /\ LevelAt(k) < level
    <3>1. k \in 1 .. Len(queue) /\ LevelAt(k) <= an.rule_level /\ LevelAt(k) \in Nat
      BY <1>0, <2>1, QueueFacts DEF Becomes
    <3>2. LevelAt(k) < level
      BY <1>0, <2>2, <3>1
    <3>3. k \notin propagate_index + 1 .. Len(queue)
      BY <2>2, <3>1, <3>2 DEF PendingInv
    <3> QED
      BY <1>0, <3>1, <3>2, <3>3
  <2>4. propagate_index' \in Nat /\ propagate_index' <= keep
    BY <1>0, <2>1
  <2>5. \A k \in 1 .. propagate_index' :
          k <= propagate_index /\ (InConflict => LevelAt(k) < level)
    BY <2>1, <2>3
  <2> QED
    BY <1>0, <2>1, <2>2, <2>4, <2>5, SeenBecomes
<1>8. CASE RetryBranch
  <2>1. PICK keep \in 1 .. Len(queue), floor \in Nat \ {0} : \E d :
           /\ Becomes(keep, floor, d, floor + 1, queue[keep].reason)
           /\ propagate_index' = keep
    BY <1>0, <1>8, RetryStep
  <2>2. ~InConflict /\ propagate_index = Len(queue)
    BY <1>8 DEF RetryBranch, InConflict, SolverInv, QueueInv
  <2>3. \A k \in 1 .. propagate_index' :
          k <= propagate_index /\ (InConflict => LevelAt(k) < level)
    BY <1>0, <2>1, <2>2
  <2>4. propagate_index' \in Nat /\ propagate_index' <= keep
    BY <1>0, <2>1
  <2> QED
    BY <1>0, <2>1, <2>3, <2>4, SeenBecomes
<1> QED
  BY <1>2, <1>3, <1>4, <1>5, <1>6, <1>7, <1>8, SeeingSteps

\* The two watches of a node are different literals when it is made.
LEMMA WatchNodeDistinct ==
  ASSUME NEW size \in Nat, NEW lits \in SUBSET LiteralsOf(size), \E l, m \in lits : l # m, NEW id
  PROVE  /\ WatchNode(id, lits).watch1 \in lits /\ WatchNode(id, lits).watch2 \in lits
         /\ WatchNode(id, lits).watch1 # WatchNode(id, lits).watch2
         /\ WatchNode(id, lits).rule = id
<1>1. lits \subseteq -size .. size
  BY DEF LiteralsOf
<1> DEFINE first == CHOOSE l \in lits : IsFirst(l, lits)
<1>2. \E l \in lits : IsFirst(l, lits)
  BY <1>1, FirstExists
<1>3. first \in lits
  BY <1>2
<1> HIDE DEF first
<1> DEFINE rest == lits \ {first}
           second == CHOOSE l \in rest : IsFirst(l, rest)
<1>4. rest # {}
  OBVIOUS
<1>5. \E l \in rest : IsFirst(l, rest)
  BY <1>1, <1>4, FirstExists
<1>6. second \in rest
  BY <1>5
<1>7. WatchNode(id, lits) = [rule |-> id, watch1 |-> first, watch2 |-> second]
  BY <1>4 DEF WatchNode, first
<1> QED
  BY <1>3, <1>6, <1>7

\* Three different literals make a rule of three literals or more.
LEMMA ThreeLiterals ==
  ASSUME inst.size \in Nat, NEW lits \in SUBSET Literals,
         NEW a \in lits, NEW b \in lits, NEW c \in lits, a # b, a # c, b # c
  PROVE  ~(Cardinality(lits) < 3)
<1>1. IsFiniteSet(lits) /\ Cardinality(lits) \in Nat
  BY FiniteLiterals
<1>2. IsFiniteSet(lits \ {a}) /\ Cardinality(lits \ {a}) = Cardinality(lits) - 1
  BY <1>1, FS_RemoveElement
<1>3. /\ IsFiniteSet((lits \ {a}) \ {b})
      /\ Cardinality((lits \ {a}) \ {b}) = Cardinality(lits) - 1 - 1
  BY <1>2, FS_RemoveElement
<1>4. c \in (lits \ {a}) \ {b}
  OBVIOUS
<1>5. Cardinality((lits \ {a}) \ {b}) # 0 /\ Cardinality((lits \ {a}) \ {b}) \in Nat
  BY <1>3, <1>4, FS_EmptySet, FS_CardinalityType
<1> QED
  BY <1>1, <1>3, <1>5

\* What the revert of Learn leaves of the literals of the rule: those kept are
\* as they were, the one to learn is open.
LEMMA RevertedLevels ==
  ASSUME SolverInv, Learn, NEW keep, Keeps(keep, an.rule_level)
  PROVE  /\ MapKeeping(keep)[AbsOf(an.learned)] = 0
         /\ \A l \in an.others : AbsOf(MapKeeping(keep)[AbsOf(l)]) = DecisionLevel(l)
<1>1. /\ an.learned \in Literals /\ Conflict(an.learned) /\ an.others \subseteq Literals
      /\ DecisionLevel(an.learned) = level
      /\ an.rule_level \in 1 .. level - 1 /\ level \in Nat
      /\ \A l \in an.others : DecisionLevel(l) <= an.rule_level
  BY LearnedApart
<1>2. StackInv /\ inst.size \in Nat /\ DOMAIN map = Packages
  BY DEF SolverInv, StackInv, Agree, Packages
<1>3. PICK k \in 1 .. Len(queue) : queue[k].literal = -an.learned /\ LevelAt(k) = level
  BY <1>1, <1>2, FalseIsDecided
<1>4. k \in keep + 1 .. Len(queue)
  <2>1. /\ keep \in 0 .. Len(queue) /\ Len(queue) \in Nat
        /\ keep > 0 => LevelAt(keep) <= an.rule_level
    BY <1>2, QueueFacts DEF Keeps, LevelAt
  <2>2. SUFFICES ASSUME k <= keep PROVE FALSE
    BY <2>1
  <2>3. keep \in 1 .. Len(queue)
    BY <2>1, <2>2
  <2>4. LevelAt(k) <= LevelAt(keep) /\ LevelAt(keep) \in Nat
    BY <1>2, <2>2, <2>3, QueueFacts
  <2> QED
    BY <1>1, <1>3, <2>1, <2>3, <2>4
<1>5. AbsOf(queue[k].literal) = AbsOf(an.learned) /\ AbsOf(an.learned) \in DOMAIN map
  BY <1>1, <1>2, <1>3, LiteralFacts
<1>6. MapKeeping(keep)[AbsOf(an.learned)] = 0
  BY <1>4, <1>5 DEF MapKeeping
<1>7. \A p \in 1 .. inst.size : AbsOf(map[p]) <= an.rule_level => MapKeeping(keep)[p] = map[p]
  BY <1>1, <1>2, RevertStep
<1>8. ASSUME NEW l \in an.others
      PROVE  AbsOf(MapKeeping(keep)[AbsOf(l)]) = DecisionLevel(l)
  <2>1. AbsOf(l) \in 1 .. inst.size /\ AbsOf(map[AbsOf(l)]) = DecisionLevel(l)
    BY <1>1, <1>2, LiteralFacts DEF Packages, DecisionLevel, Entry
  <2> QED
    BY <1>1, <1>7, <2>1
<1> QED
  BY <1>6, <1>8

\* Of a learned rule of three literals or more, the second watch is at the level
\* the search goes back to.
LEMMA SecondWatch ==
  ASSUME SolverInv, ReachedInv, Learn, NEW keep, Keeps(keep, an.rule_level),
         NEW lits, lits = {an.learned} \cup an.others, ~(Cardinality(lits) < 3),
         NEW first \in [rule : {Len(rules) + 1}, watch1 : lits, watch2 : lits],
         NEW node, node = Watch2OnHighest(first, lits, MapKeeping(keep))
  PROVE  node.watch2 \in an.others /\ DecisionLevel(node.watch2) = an.rule_level
<1> DEFINE m == MapKeeping(keep)
           highest == {l \in lits : AbsOf(m[AbsOf(l)]) > 0
                                    /\ \A k \in lits : AbsOf(m[AbsOf(k)]) <= AbsOf(m[AbsOf(l)])}
           second == CHOOSE l \in highest : IsFirst(l, highest)
<1>1. /\ an.learned \in Literals /\ an.others \subseteq Literals
      /\ an.rule_level \in Nat \ {0}
      /\ \A l \in an.others : DecisionLevel(l) <= an.rule_level
  BY LearnedApart
<1>2. /\ AbsOf(m[AbsOf(an.learned)]) = 0
      /\ \A l \in an.others : AbsOf(m[AbsOf(l)]) = DecisionLevel(l)
  BY RevertedLevels DEF AbsOf
<1>3. Watch2OnHighest(first, lits, m) = IF Cardinality(lits) < 3 \/ highest = {} THEN first
                                        ELSE [first EXCEPT !.watch2 = second]
  BY DEF Watch2OnHighest
<1>4. inst.size \in Nat /\ lits \subseteq -inst.size .. inst.size
  BY <1>1, RulesFacts DEF Literals, LiteralsOf
<1>5. an.others # {}
  <2> SUFFICES ASSUME an.others = {} PROVE FALSE
    OBVIOUS
  <2>1. lits = {an.learned}
    OBVIOUS
  <2>2. Cardinality({an.learned}) = 1
    BY FS_Singleton
  <2> QED
    BY <2>1, <2>2
<1>6. PICK x \in an.others : DecisionLevel(x) = an.rule_level
  BY <1>5 DEF ReachedInv, InAnalysis, Learn, Reached
<1> HIDE DEF m
<1>7. x \in highest
  BY <1>1, <1>2, <1>6
<1>8. \A l \in highest : l \in an.others /\ DecisionLevel(l) = an.rule_level
  <2> SUFFICES ASSUME NEW l \in highest
               PROVE  l \in an.others /\ DecisionLevel(l) = an.rule_level
    OBVIOUS
  <2>1. /\ l \in lits /\ AbsOf(m[AbsOf(l)]) > 0 /\ x \in lits
        /\ AbsOf(m[AbsOf(x)]) <= AbsOf(m[AbsOf(l)])
    BY <1>6
  <2>2. l \in an.others
    BY <1>2, <2>1
  <2>3. DecisionLevel(l) \in Nat
    BY <1>1, <2>2, StatusFacts DEF SolverInv
  <2> QED
    BY <1>1, <1>2, <1>6, <2>1, <2>2, <2>3
<1>9. highest \subseteq -inst.size .. inst.size
  BY <1>4
<1> HIDE DEF highest
<1>10. second \in highest
  <2>1. \E l \in highest : IsFirst(l, highest)
    BY <1>4, <1>7, <1>9, FirstExists
  <2> QED
    BY <2>1
<1>11. node = [first EXCEPT !.watch2 = second]
  BY <1>3, <1>7 DEF m
<1>12. node.watch2 = second
  BY <1>11
<1> QED
  BY <1>8, <1>10, <1>12

\* What is seen false is false.
LEMMA SeenIsFalse ==
  ASSUME SolverInv, NEW l \in Literals, FalseSeen(l)
  PROVE  Conflict(l) /\ (InConflict => DecisionLevel(l) < level)
<1>1. PICK k \in 1 .. propagate_index :
           queue[k].literal = -l /\ (InConflict => LevelAt(k) < level)
  BY DEF FalseSeen
<1>2. StackInv /\ Len(queue) \in Nat /\ propagate_index \in 0 .. Len(queue)
  BY QueueFacts DEF SolverInv, QueueInv
<1>3. k \in 1 .. Len(queue)
  BY <1>2
<1> QED
  BY <1>1, <1>2, <1>3, NegatedDecision

\* When a chain is exhausted, its nodes are passed.
LEMMA ChainPassed ==
  ASSUME SolverInv, ProgressInv, NextDecision, NEW k, Has(chains[PropagatedLiteral], k)
  PROVE  PassedBy(k)
<1>1. Propagating /\ cursor > Len(Chain) /\ PropagatedLiteral \in Literals
  BY PropagatedFacts DEF NextDecision
<1>2. Len(Chain) \in Nat /\ cursor \in Nat
  BY <1>1, LenProperties DEF SolverInv, WatchInv, RunInv, Chain
<1>3. PICK j \in 1 .. Len(Chain) : Chain[j] = k
  BY DEF Has, Chain
<1>4. j \in 1 .. cursor - 1
  BY <1>1, <1>2, <1>3
<1> QED
  BY <1>1, <1>3, <1>4 DEF ProgressInv

\* What is true is so at the level of the decision being propagated, or before.
LEMMA TrueByPropagated ==
  ASSUME SolverInv, Propagating, NEW m \in Literals, Satisfy(m)
  PROVE  TrueBy(m, PropagatedLiteral)
<1>1. StackInv
  BY DEF SolverInv
<1>2. PICK k \in 1 .. Len(queue) : LevelAt(k) = DecisionLevel(m)
  BY <1>1, SatisfiedIsDecided
<1>3. DecisionLevel(m) <= level
  BY <1>1, <1>2, QueueFacts
<1> QED
  BY <1>3, PropagatedFacts DEF TrueBy

\* A watch that sees the other one keeps seeing it, given that it sees it when the
\* chain of the watch is exhausted.
LEMMA PairStays ==
  ASSUME SolverInv, PendingInv, [Next]_vars, NEW w \in Literals, NEW o \in Literals,
         PairSees(w, o), NextDecision /\ w = PropagatedLiteral => Satisfy(o)
  PROVE  FalseSeen(w)' => TrueBy(o, w)'
<1> SUFFICES ASSUME FalseSeen(w)' PROVE TrueBy(o, w)'
  OBVIOUS
<1>1. /\ FalseSeen(w) \/ (NextDecision /\ w = PropagatedLiteral)
      /\ TrueBy(o, w) => TrueBy(o, w)'
  BY SeenFacts
<1>2. CASE FalseSeen(w)
  BY <1>1, <1>2 DEF PairSees
<1>3. CASE NextDecision /\ w = PropagatedLiteral
  BY <1>1, <1>3, TrueByPropagated DEF NextDecision
<1> QED
  BY <1>1, <1>2, <1>3

\* What a node that does not change sees.
LEMMA SeenStays ==
  ASSUME SolverInv, ChainInv, ProgressInv, PendingInv, SeenInv, [Next]_vars,
         NEW k \in DOMAIN nodes, nodes'[k] = nodes[k],
         rules'[nodes[k].rule] = rules[nodes[k].rule]
  PROVE  NodeSees(nodes[k])'
<1>0. PICK r, w1, w2 : r = rules[nodes[k].rule] /\ w1 = nodes[k].watch1 /\ w2 = nodes[k].watch2
  OBVIOUS
<1>1. NodeOK(nodes[k]) /\ NodeSees(nodes[k]) /\ NodeChained(k)
  BY DEF SolverInv, WatchInv, SeenInv, ChainInv
<1>2. w1 \in Literals /\ w2 \in Literals /\ r.lits \subseteq Literals /\ r.why \in Nat
      /\ w1 \in r.lits /\ w2 \in r.lits
  BY <1>0, <1>1 DEF NodeOK, SolverInv, RulesInv, RuleOK
<1>3. NextDecision => /\ PropagatedLiteral \in Literals /\ ~Satisfy(PropagatedLiteral)
                      /\ Conflict(PropagatedLiteral)
  BY PropagatedFacts, StatusFacts DEF NextDecision, SolverInv
<1>4. ASSUME IsMulti(r), NEW l \in r.lits, NEW m \in r.lits \ {l}
      PROVE  FalseSeen(l)' => TrueBy(m, l)'
  <2>1. PairSees(l, m) /\ Has(chains[l], k)
    BY <1>0, <1>1, <1>4 DEF NodeSees, NodeChained
  <2>2. NextDecision /\ l = PropagatedLiteral => Satisfy(m)
    BY <1>0, <1>4, <2>1, ChainPassed DEF PassedBy
  <2> QED
    BY <1>2, <1>4, <2>1, <2>2, PairStays
<1>5. ASSUME ~IsMulti(r), r.why = 0, NEW w \in {w1, w2}, NEW o \in {w1, w2}, w # o
      PROVE  FalseSeen(w)' => TrueBy(o, w)'
  <2>1. PairSees(w, o) /\ Has(chains[w], k)
    BY <1>0, <1>1, <1>2, <1>5 DEF NodeSees, NodeChained
  <2>2. NextDecision /\ w = PropagatedLiteral => Satisfy(o)
    BY <1>0, <1>3, <1>5, <2>1, ChainPassed DEF PassedBy
  <2> QED
    BY <1>2, <1>5, <2>1, <2>2, PairStays
<1>6. ASSUME r.why > 0, FalseSeen(w1)', FalseSeen(w2)'
      PROVE  \E m \in r.lits : TrueBy(m, w1)' \/ TrueBy(m, w2)'
  <2>1. \A w \in {w1, w2} :
          /\ FalseSeen(w) \/ (NextDecision /\ w = PropagatedLiteral)
          /\ \A m \in Literals : TrueBy(m, w) => TrueBy(m, w)'
    <3>1. /\ FalseSeen(w1) \/ (NextDecision /\ w1 = PropagatedLiteral)
          /\ \A m \in Literals : TrueBy(m, w1) => TrueBy(m, w1)'
      BY <1>2, <1>6, SeenFacts
    <3>2. /\ FalseSeen(w2) \/ (NextDecision /\ w2 = PropagatedLiteral)
          /\ \A m \in Literals : TrueBy(m, w2) => TrueBy(m, w2)'
      BY <1>2, <1>6, SeenFacts
    <3> QED
      BY <3>1, <3>2
  <2>2. CASE FalseSeen(w1) /\ FalseSeen(w2)
    <3>1. PICK m \in r.lits : TrueBy(m, w1) \/ TrueBy(m, w2)
      BY <1>0, <1>1, <1>6, <2>2 DEF NodeSees
    <3> QED
      BY <1>2, <2>1, <3>1
  <2>3. CASE ~(FalseSeen(w1) /\ FalseSeen(w2))
    <3>1. NextDecision /\ PropagatedLiteral \in {w1, w2}
      BY <2>1, <2>3
    <3>2. Conflict(w1) /\ Conflict(w2)
      BY <1>2, <1>3, <2>1, SeenIsFalse
    <3>3. ~Satisfy(w1) /\ ~Satisfy(w2)
      BY <1>2, <3>2, StatusFacts DEF SolverInv
    <3>4. Has(chains[PropagatedLiteral], k)
      BY <1>0, <1>1, <1>6, <3>1 DEF NodeChained
    <3>5. PassedBy(k)
      BY <3>1, <3>4, ChainPassed
    <3>6. ~IsMulti(r)
      BY <1>0, <1>1, <1>6 DEF NodeOK, SolverInv, RulesInv, RuleOK
    <3> QED
      BY <1>0, <3>1, <3>3, <3>5, <3>6 DEF PassedBy
  <2> QED
    BY <2>2, <2>3
<1>7. ~IsMulti(r) /\ r.why = 0 => w1 # w2
  BY <1>0, <1>1 DEF NodeChained
<1>8. ASSUME ~IsMulti(r), r.why = 0
      PROVE  (FalseSeen(w1)' => TrueBy(w2, w1)') /\ (FalseSeen(w2)' => TrueBy(w1, w2)')
  <2>1. w1 # w2
    BY <1>7, <1>8
  <2>2. FalseSeen(w1)' => TrueBy(w2, w1)'
    BY <1>5, <1>8, <2>1
  <2>3. FalseSeen(w2)' => TrueBy(w1, w2)'
    BY <1>5, <1>8, <2>1
  <2> QED
    BY <2>2, <2>3
<1> QED
  BY <1>0, <1>4, <1>6, <1>8 DEF NodeSees, PairSees

\* The node of a moved watch sees no less: its new literal is not false.
LEMMA MovedSees ==
  ASSUME SolverInv, ChainInv, PendingInv, SeenInv, VisitMoveWatch,
         NEW k, k = Chain[cursor]
  PROVE  NodeSees(nodes[k])'
<1>1. PICK to :
           /\ MovedTo(to)
           /\ \A j \in {k} :
                /\ nodes'[j].rule = nodes[j].rule
                /\ IF nodes[j].watch1 = PropagatedLiteral
                   THEN nodes'[j].watch1 = to /\ nodes'[j].watch2 = nodes[j].watch2
                   ELSE nodes'[j].watch2 = to /\ nodes'[j].watch1 = nodes[j].watch1
           /\ UNCHANGED rules
  BY MoveFacts
<1>2. /\ Visiting /\ ~IsMulti(VisitedRule) /\ ~Satisfy(OtherWatch) /\ [Next]_vars
      /\ ~NextDecision
  <2>1. cursor \in 1 .. Len(Chain) /\ Len(Chain) \in Nat
    BY VisitFacts, LenProperties DEF VisitMoveWatch
  <2>2. ~NextDecision
    BY <2>1 DEF NextDecision
  <2>3. [Next]_vars
    BY DEF Next
  <2> QED
    BY <2>2, <2>3 DEF VisitMoveWatch
<1>3. k \in DOMAIN nodes /\ NodeOK(nodes[k]) /\ NodeSees(nodes[k]) /\ NodeChained(k)
  BY <1>2, VisitFacts DEF SolverInv, WatchInv, SeenInv, ChainInv
<1>4. PICK r, w1, w2 : /\ r = rules[nodes[k].rule] /\ w1 = nodes[k].watch1 /\ w2 = nodes[k].watch2
                       /\ r = VisitedRule
  BY DEF VisitedRule, Node
<1>5. /\ w1 \in Literals /\ w2 \in Literals /\ r.why \in Nat
      /\ to \in Literals /\ PropagatedLiteral \in Literals
  BY <1>1, <1>3, <1>4 DEF NodeOK, SolverInv, RulesInv, RuleOK, MovedTo
<1>6. ~Conflict(to) /\ Conflict(PropagatedLiteral) /\ ~Satisfy(PropagatedLiteral)
  BY <1>1, <1>2, <1>5, PropagatedFacts, StatusFacts DEF MovedTo, Alternatives, Visiting, SolverInv
<1>7. \A l \in Literals : FalseSeen(l)' => FalseSeen(l)
  BY <1>2, SeenFacts
<1>8. ~FalseSeen(to)'
  <2>1. ~FalseSeen(to)
    BY <1>5, <1>6, SeenIsFalse
  <2> QED
    BY <1>5, <1>7, <2>1
<1>9. OtherWatch = IF w1 = PropagatedLiteral THEN w2 ELSE w1
  BY <1>4 DEF OtherWatch, Node
<1>10. ASSUME r.why = 0
       PROVE  ~FalseSeen(OtherWatch)
  <2>1. PairSees(w1, w2) /\ PairSees(w2, w1)
    BY <1>2, <1>3, <1>4, <1>10 DEF NodeSees
  <2>2. PropagatedLiteral \in {w1, w2}
    <3>1. Has(chains[PropagatedLiteral], k)
      BY <1>2, VisitFacts DEF Has, Chain
    <3> QED
      BY <1>2, <1>3, <1>4, <1>5, <1>10, <3>1 DEF NodeChained
  <2> QED
    BY <1>6, <1>9, <2>1, <2>2 DEF PairSees, TrueBy
<1>11. PICK o : o = OtherWatch
  OBVIOUS
<1>12. r.why = 0 => ~FalseSeen(o)'
  BY <1>5, <1>7, <1>9, <1>10, <1>11
<1>13. /\ nodes'[k].rule = nodes[k].rule
       /\ \/ nodes'[k].watch1 = to /\ nodes'[k].watch2 = o
          \/ nodes'[k].watch1 = o /\ nodes'[k].watch2 = to
  BY <1>1, <1>4, <1>9, <1>11
<1>14. rules'[nodes'[k].rule] = r /\ ~IsMulti(r)
  BY <1>1, <1>2, <1>4, <1>13
<1>15. CASE nodes'[k].watch1 = to /\ nodes'[k].watch2 = o
  BY <1>8, <1>12, <1>14, <1>15 DEF NodeSees, PairSees
<1>16. CASE nodes'[k].watch1 = o /\ nodes'[k].watch2 = to
  BY <1>8, <1>12, <1>14, <1>16 DEF NodeSees, PairSees
<1> QED
  BY <1>13, <1>15, <1>16

\* When both watches of the learned rule are false, its literal is true by the
\* second one.
LEMMA LearnedSees ==
  ASSUME SolverInv, PendingInv, ReachedInv, Learn, ~IsAssertion(rules'[Len(rules) + 1]),
         NEW keep, Keeps(keep, an.rule_level), NEW node, LearnedNode(node, keep),
         NEW k, k = Len(nodes) + 1
  PROVE  NodeSees(nodes[k])'
<1>1. PICK lits, x, lv : lits = {an.learned} \cup an.others /\ x = an.learned /\ lv = an.rule_level
  OBVIOUS
<1>2. /\ lits \subseteq Literals /\ rules'[Len(rules) + 1].lits = lits
      /\ \E l, m \in lits : l # m
      /\ node.rule = Len(rules) + 1 /\ node.watch1 \in lits /\ node.watch2 \in lits
      /\ nodes'[k] = node
  BY <1>1, LearnedNodeFacts
<1>3. ~IsMulti(rules'[Len(rules) + 1]) /\ rules'[Len(rules) + 1].why # 0
  <2>1. /\ rules'[Len(rules) + 1].kind = "generic" /\ rules'[Len(rules) + 1].why = Len(learned_pool)
    BY LearnedStored DEF IsTheLearned
  <2>2. learned_pool # <<>> /\ learned_pool \in Seq(SUBSET RuleIds)
    BY DEF Learn, SolverInv, AnInv, InAnalysis, PoolInv
  <2> QED
    BY <2>1, <2>2, EmptySeq DEF IsMulti
<1>4. /\ x \in Literals /\ Conflict(x) /\ DecisionLevel(x) = level /\ x \notin an.others
      /\ level \in Nat /\ InConflict /\ [Next]_vars /\ inst.size \in Nat /\ ~NextDecision
  <2>1. InConflict /\ ~NextDecision /\ [Next]_vars
    BY DEF Learn, InConflict, NextDecision, Propagating, Next
  <2> QED
    BY <1>1, <2>1, LearnedApart, RulesFacts
<1>5. ~FalseSeen(x)'
  <2>1. ~FalseSeen(x)
    BY <1>4, SeenIsFalse
  <2> QED
    BY <1>4, <2>1, SeenFacts
<1>6. Satisfy(x)' /\ DecisionLevel(x)' = lv
  BY <1>1, LearnedIsTrue
<1>7. SUFFICES ASSUME FalseSeen(node.watch1)', FalseSeen(node.watch2)'
               PROVE  TrueBy(x, node.watch2)'
  <2>1. x \in lits
    BY <1>1
  <2> QED
    BY <1>2, <1>3, <2>1 DEF NodeSees
<1>8. node.watch1 # x /\ node.watch2 # x
  BY <1>5, <1>7
<1>9. /\ WatchNode(Len(rules) + 1, lits).watch1 \in lits
      /\ WatchNode(Len(rules) + 1, lits).watch2 \in lits
      /\ WatchNode(Len(rules) + 1, lits).watch1 # WatchNode(Len(rules) + 1, lits).watch2
      /\ WatchNode(Len(rules) + 1, lits) \in [rule : {Len(rules) + 1}, watch1 : lits, watch2 : lits]
  BY <1>2, <1>4, WatchNodeDistinct, WatchNodeFacts DEF Literals
<1>10. node = Watch2OnHighest(WatchNode(Len(rules) + 1, lits), lits, MapKeeping(keep))
  BY <1>1 DEF LearnedNode
<1>11. ~(Cardinality(lits) < 3)
  <2>1. SUFFICES ASSUME Cardinality(lits) < 3 PROVE FALSE
    OBVIOUS
  <2>2. node = WatchNode(Len(rules) + 1, lits)
    BY <1>10, <2>1 DEF Watch2OnHighest
  <2>3. node.watch1 \in lits /\ node.watch2 \in lits /\ node.watch1 # node.watch2 /\ x \in lits
    BY <1>1, <1>9, <2>2
  <2> QED
    BY <1>2, <1>4, <1>8, <2>1, <2>3, ThreeLiterals
<1>12. node.watch2 \in an.others /\ DecisionLevel(node.watch2) = lv
  BY <1>1, <1>9, <1>10, <1>11, SecondWatch
<1>13. PICK w : w = node.watch2
  OBVIOUS
<1>14. DecisionLevel(w)' = lv
  <2>1. PICK kp \in 0 .. Len(queue) :
            Becomes(kp, an.rule_level, an.learned, an.rule_level, Len(rules) + 1)
    BY <1>4, StepKeeps, LearnStep DEF SolverInv
  <2>2. /\ w \in Literals /\ Conflict(w) /\ an.rule_level \in Nat
        /\ DecisionLevel(w) = an.rule_level
    BY <1>1, <1>12, <1>13, LearnedApart
  <2>3. ~Undecided(w)
    BY <2>2, StatusFacts DEF SolverInv
  <2>4. UNCHANGED inst
    BY <1>4, Frames
  <2> QED
    BY <1>1, <2>1, <2>2, <2>3, <2>4, KeptStatus
<1>15. TrueBy(x, w)'
  <2>1. lv \in Nat
    BY <1>1, LearnedApart
  <2> QED
    BY <1>6, <1>14, <2>1 DEF TrueBy
<1> QED
  BY <1>13, <1>15

LEMMA SeenStep ==
  ASSUME SolverInv, ChainInv, ProgressInv, PendingInv, ReachedInv, SeenInv, [Next]_vars
  PROVE  SeenInv'
<1>1. Grown
  BY RulesStep
<1>2. ASSUME NEW k \in DOMAIN nodes, nodes'[k] = nodes[k]
      PROVE  NodeSees(nodes[k])'
  <2>1. rules'[nodes[k].rule] = rules[nodes[k].rule]
    BY <1>1 DEF SolverInv, WatchInv, NodeOK, Grown
  <2> QED
    BY <1>2, <2>1, SeenStays
<1>3. CASE ~Learn /\ ~VisitMoveWatch
  BY <1>2, <1>3, Frames DEF SeenInv
<1>4. CASE VisitMoveWatch
  <2>1. /\ DOMAIN nodes' = DOMAIN nodes
        /\ \A k \in DOMAIN nodes \ {Chain[cursor]} : nodes'[k] = nodes[k]
    BY <1>4, MoveFacts
  <2>2. \A k : k = Chain[cursor] => NodeSees(nodes[k])'
    BY <1>4, MovedSees
  <2> QED
    BY <1>2, <2>1, <2>2 DEF SeenInv
<1>5. CASE Learn
  <2>1. PICK keep :
           /\ Keeps(keep, an.rule_level)
           /\ \/ IsAssertion(rules'[Len(rules) + 1]) /\ UNCHANGED <<nodes, chains>>
              \/ /\ ~IsAssertion(rules'[Len(rules) + 1])
                 /\ \E node : LearnedNode(node, keep)
    BY <1>5, LearnGraph
  <2>2. CASE IsAssertion(rules'[Len(rules) + 1]) /\ UNCHANGED <<nodes, chains>>
    BY <1>2, <2>2 DEF SeenInv
  <2>3. CASE ~IsAssertion(rules'[Len(rules) + 1]) /\ \E node : LearnedNode(node, keep)
    <3>1. PICK node : LearnedNode(node, keep)
      BY <2>3
    <3>2. PICK n : n = Len(nodes)
      OBVIOUS
    <3>3. /\ n \in Nat /\ DOMAIN nodes = 1 .. n /\ DOMAIN nodes' = 1 .. n + 1
          /\ \A j \in 1 .. n : nodes'[j] = nodes[j]
      BY <1>5, <2>3, <3>1, <3>2, LearnedNodeFacts
    <3>4. \A k : k = n + 1 => NodeSees(nodes[k])'
      BY <1>5, <2>1, <2>3, <3>1, <3>2, LearnedSees
    <3>5. \A k \in 1 .. n + 1 : k \in 1 .. n \/ k = n + 1
      BY <3>3
    <3> QED
      BY <1>2, <3>3, <3>4, <3>5 DEF SeenInv
  <2> QED
    BY <2>1, <2>2, <2>3
<1> QED
  BY <1>3, <1>4, <1>5

-----------------------------------------------------------------------------
(***************************************************************************)
(* No rule is missed.                                                      *)
(***************************************************************************)

\* Two different literals are more than one.
LEMMA TwoAreMore ==
  ASSUME inst.size \in Nat, NEW lits \in SUBSET Literals,
         NEW a \in lits, NEW b \in lits, a # b
  PROVE  ~(Cardinality(lits) <= 1)
<1>1. IsFiniteSet(lits) /\ Cardinality(lits) \in Nat
  BY FiniteLiterals
<1>2. IsFiniteSet(lits \ {a}) /\ Cardinality(lits \ {a}) = Cardinality(lits) - 1
  BY <1>1, FS_RemoveElement
<1>3. b \in lits \ {a}
  OBVIOUS
<1>4. Cardinality(lits \ {a}) # 0 /\ Cardinality(lits \ {a}) \in Nat
  BY <1>2, <1>3, FS_EmptySet, FS_CardinalityType
<1> QED
  BY <1>1, <1>2, <1>4

\* Between two choices everything decided is propagated: what is false is seen.
LEMMA AllSeen ==
  ASSUME SolverInv, pc \in {"requests", "sweep", "branches"},
         NEW l \in Literals, Conflict(l)
  PROVE  FalseSeen(l)
<1>1. propagate_index = Len(queue) /\ ~InConflict /\ StackInv
  BY DEF SolverInv, QueueInv, InConflict
<1>2. PICK k \in 1 .. Len(queue) : queue[k].literal = -l
  BY <1>1, FalseIsDecided
<1> QED
  BY <1>1, <1>2 DEF FalseSeen

LEMMA NoUnits ==
  ASSUME SolverInv, SeenInv, ChainInv, EnrolInv, AssertedInv
  PROVE  NoUnitLeft
<1> SUFFICES ASSUME pc \in {"requests", "sweep", "branches"},
                    NEW id \in RuleIds, rules[id].rule_type # "none", id \notin disabled
             PROVE  IF rules[id].rule_type = "learned"
                    THEN \E l \in rules[id].lits : ~Conflict(l)
                    ELSE ~IsUnit(rules[id])
  BY DEF NoUnitLeft
<1> DEFINE r == rules[id]
<1>1. RuleOK(r) /\ r.lits \subseteq Literals /\ StackInv /\ inst.size \in Nat
  BY DEF SolverInv, RulesInv, RuleOK, StackInv
<1>2. CASE IsAssertion(r)
  <2>1. PICK l \in r.lits : Satisfy(l)
    BY <1>2 DEF AssertedInv
  <2>2. ~Conflict(l)
    BY <1>1, <2>1, StatusFacts
  <2>3. ~IsMulti(r)
    BY <1>2 DEF IsAssertion, IsMulti
  <2> QED
    BY <2>1, <2>2, <2>3 DEF IsUnit
<1>3. CASE ~IsAssertion(r)
  <2>1. PICK k \in DOMAIN nodes : nodes[k].rule = id
    BY <1>3 DEF EnrolInv
  <2>2. NodeOK(nodes[k]) /\ NodeSees(nodes[k]) /\ NodeChained(k)
    BY DEF SolverInv, WatchInv, SeenInv, ChainInv
  <2> DEFINE w1 == nodes[k].watch1
             w2 == nodes[k].watch2
  <2>3. w1 \in r.lits /\ w2 \in r.lits
    BY <2>1, <2>2 DEF NodeOK
  <2>4. \A l \in r.lits : Conflict(l) => FalseSeen(l)
    BY <1>1, AllSeen
  <2>5. CASE r.rule_type = "learned"
    <3>1. r.why > 0
      BY <1>1, <2>5 DEF RuleOK
    <3>2. SUFFICES ASSUME \A l \in r.lits : Conflict(l) PROVE FALSE
      BY <2>5
    <3>3. FalseSeen(w1) /\ FalseSeen(w2)
      BY <2>3, <2>4, <3>2
    <3>4. PICK m \in r.lits : TrueBy(m, w1) \/ TrueBy(m, w2)
      BY <2>1, <2>2, <3>1, <3>3 DEF NodeSees
    <3> QED
      BY <1>1, <3>2, <3>4, StatusFacts DEF TrueBy
  <2>6. CASE r.rule_type # "learned"
    <3>1. r.why = 0
      BY <1>1, <2>6 DEF RuleOK
    <3>2. CASE IsMulti(r)
      <4>1. \A l \in r.lits : \A m \in r.lits \ {l} : Conflict(l) => Satisfy(m)
        BY <2>1, <2>2, <2>4, <3>2 DEF NodeSees, PairSees, TrueBy
      <4> QED
        BY <2>6, <3>2, <4>1 DEF IsUnit
    <3>3. CASE ~IsMulti(r)
      <4>1. PairSees(w1, w2) /\ PairSees(w2, w1) /\ w1 # w2
        BY <2>1, <2>2, <3>1, <3>3 DEF NodeSees, NodeChained
      <4>2. SUFFICES ASSUME IsUnit(r) PROVE FALSE
        BY <2>6
      <4>3. (\A l \in r.lits : ~Satisfy(l)) /\ Cardinality({l \in r.lits : ~Conflict(l)}) <= 1
        BY <3>3, <4>2 DEF IsUnit
      <4>4. ~Conflict(w1) /\ ~Conflict(w2)
        BY <2>3, <2>4, <4>1, <4>3 DEF PairSees, TrueBy
      <4> DEFINE left == {l \in r.lits : ~Conflict(l)}
      <4>5. left \subseteq Literals /\ w1 \in left /\ w2 \in left
        BY <1>1, <2>3, <4>4
      <4> HIDE DEF left, w1, w2
      <4>6. ~(Cardinality(left) <= 1)
        BY <1>1, <4>1, <4>5, TwoAreMore
      <4> QED
        BY <4>3, <4>6 DEF left
    <3> QED
      BY <3>2, <3>3
  <2> QED
    BY <2>5, <2>6
<1> QED
  BY <1>2, <1>3

-----------------------------------------------------------------------------
(***************************************************************************)
(* The answer.                                                             *)
(***************************************************************************)

\* How the solver comes to an end.
LEMMA DoneComes ==
  ASSUME [Next]_vars, pc' = "done"
  PROVE  (pc = "done" /\ UNCHANGED vars) \/ Unsolvable \/ BranchesDone
<1>1. CASE InConflict
  <2>1. CASE BeginAnalysis \/ Resolve \/ Learn
    BY <2>1 DEF BeginAnalysis, Resolve, Learn
  <2>2. CASE WalkEnd \/ WalkLearn \/ WalkReason
    BY <2>2, Zenon DEF WalkEnd, WalkLearn, WalkReason
  <2>3. CASE AssertSkip \/ AssertDecide \/ AssertConflict \/ AssertionsDone \/ RunSat
    BY <1>1, <2>3 DEF AssertSkip, AssertDecide, AssertConflict, AssertionsDone, RunSat, Asserting,
                      InConflict
  <2>4. CASE \/ VisitSettled \/ VisitMoveWatch \/ VisitImply \/ VisitConflict
             \/ NextDecision \/ Propagated
    BY <1>1, <2>4 DEF VisitSettled, VisitMoveWatch, VisitImply, VisitConflict, NextDecision,
                      Propagated, Visiting, Propagating, InConflict
  <2>5. CASE SkipRequest \/ InstallRequest \/ RequestsDone \/ SkipRule \/ InstallProvider \/ Swept
             \/ RetryBranch
    BY <1>1, <2>5 DEF SkipRequest, InstallRequest, RequestsDone, SkipRule, InstallProvider, Swept,
                      RetryBranch, Requesting, Sweeping, InConflict
  <2>6. CASE Terminated \/ UNCHANGED vars
    BY <2>6 DEF Terminated, vars
  <2> QED
    BY <2>1, <2>2, <2>3, <2>4, <2>5, <2>6 DEF Next
<1>2. CASE ~InConflict
  <2>1. InConflict'
    BY DEF InConflict
  <2>2. VisitConflict \/ BranchesDone
    BY <1>2, <2>1, ConflictComes
  <2> QED
    BY <2>2 DEF VisitConflict
<1> QED
  BY <1>1, <1>2

\* What is installed in the end satisfies a rule that is no unit and asks for
\* no choice.
LEMMA RuleHolds ==
  ASSUME SolverInv, NEW id \in RuleIds, id \notin disabled,
         ~IsUnit(rules[id]), ~RuleIsOpen(id)
  PROVE  Holds(InstalledPackages, rules[id])
<1> DEFINE r == rules[id]
<1>1. r.lits \subseteq Literals /\ StackInv /\ inst.size \in Nat
      /\ (IsMulti(r) => \A l \in r.lits : l < 0)
  BY DEF SolverInv, RulesInv, RuleOK, StackInv
<1>2. \A l \in r.lits :
        /\ l \in Int /\ l # 0 /\ (l > 0 => l \in Packages) /\ (l < 0 => -l \in Packages)
        /\ l > 0 => Entry(l) = map[l]
        /\ l < 0 => Entry(l) = map[-l]
        /\ Entry(l) \in Int
  <2> SUFFICES ASSUME NEW l \in r.lits
               PROVE  /\ l \in Int /\ l # 0
                      /\ (l > 0 => l \in Packages) /\ (l < 0 => -l \in Packages)
                      /\ l > 0 => Entry(l) = map[l]
                      /\ l < 0 => Entry(l) = map[-l]
                      /\ Entry(l) \in Int
    OBVIOUS
  <2>1. l \in Literals
    BY <1>1
  <2>2. l \in Int /\ l # 0 /\ AbsOf(l) \in Packages /\ Entry(l) \in Int
    BY <1>1, <2>1, LiteralFacts, StatusFacts
  <2> QED
    BY <2>2 DEF AbsOf, Entry
<1>3. CASE IsMulti(r)
  <2>1. SUFFICES ASSUME NEW l \in r.lits, NEW m \in r.lits, l # m,
                        -l \in InstalledPackages, -m \in InstalledPackages
                 PROVE  FALSE
    BY <1>3 DEF Holds
  <2>2. l < 0 /\ m < 0 /\ Entry(l) > 0 /\ Entry(m) > 0
    BY <1>1, <1>2, <1>3, <2>1 DEF InstalledPackages
  <2>3. Conflict(l) /\ ~Satisfy(m)
    BY <1>2, <2>2 DEF Conflict, Satisfy
  <2> QED
    BY <1>3, <2>1, <2>3 DEF IsUnit
<1>4. CASE ~IsMulti(r)
  <2>1. SUFFICES ASSUME \A l \in r.lits : IF l > 0 THEN l \notin InstalledPackages
                                          ELSE -l \in InstalledPackages
                 PROVE  FALSE
    BY <1>4 DEF Holds
  <2>2. \A l \in r.lits : IF l > 0 THEN ~(Entry(l) > 0) ELSE l < 0 /\ Entry(l) > 0
    BY <1>2, <2>1 DEF InstalledPackages
  <2>3. \A l \in r.lits : ~Satisfy(l) /\ (DecidedInstall(l) <=> l < 0)
    BY <1>2, <2>2 DEF Satisfy, DecidedInstall
  <2>4. ~(Cardinality({l \in r.lits : ~Conflict(l)}) <= 1)
    BY <1>4, <2>3 DEF IsUnit
  <2>5. {l \in r.lits : ~Conflict(l)} = {l \in r.lits : l > 0 /\ Undecided(l)}
    BY <1>2, <2>2 DEF Conflict, Undecided
  <2> DEFINE left == {l \in r.lits : l > 0 /\ Undecided(l)}
  <2>6. left \subseteq Literals
    BY <1>1
  <2>7. ~(Cardinality(left) <= 1)
    BY <2>4, <2>5
  <2> HIDE DEF left
  <2>8. Cardinality(left) \in Nat
    BY <1>1, <2>6, FiniteLiterals
  <2>9. Cardinality(left) >= 2
    BY <2>7, <2>8
  <2> QED
    BY <2>3, <2>9 DEF RuleIsOpen, left
<1> QED
  BY <1>3, <1>4

\* A problem that is found is not forgotten.
LEMMA OneMoreProblem ==
  ASSUME SolverInv, NEW problem
  PROVE  Append(problems, problem) # <<>>
<1>1. IsSequence(problems)
  BY DEF SolverInv, ProblemsInv
<1>2. Len(problems) \in Nat /\ Len(Append(problems, problem)) = Len(problems) + 1
  BY <1>1, Appended
<1>3. Len(Append(problems, problem)) # 0
  BY <1>2
<1> QED
  BY <1>3, EmptySeq

LEMMA AnswerStep ==
  ASSUME SolverInv, SeenInv, ChainInv, EnrolInv, AssertedInv, SweepInv, AnswerHolds,
         [Next]_vars
  PROVE  AnswerHolds'
<1> SUFFICES ASSUME pc' = "done", problems' = <<>>
             PROVE  \A id \in RuleIds' :
                      rules'[id].rule_type \in {"package", "request"} =>
                        Holds(InstalledPackages, rules[id])'
  BY DEF AnswerHolds, Answer
<1>1. CASE pc = "done" /\ UNCHANGED vars
  BY <1>1 DEF vars, AnswerHolds, Answer, RuleIds, InstalledPackages, Packages, Holds
<1>2. CASE Unsolvable
  <2>1. problems' = Append(problems, UnsolvableProblem(an.rule))
    BY <1>2 DEF Unsolvable
  <2> QED
    BY <2>1, OneMoreProblem
<1>3. CASE BranchesDone
  <2>1. pc = "branches" /\ UNCHANGED <<inst, rules, rule_by_id, disabled, map, problems>>
    BY <1>3 DEF BranchesDone, ruleVars, decisionVars, searchVars
  <2>2. disabled = {}
    BY <2>1 DEF EnrolInv
  <2>3. NoUnitLeft
    BY NoUnits
  <2>4. ASSUME NEW id \in RuleIds, rules[id].rule_type \in {"package", "request"}
        PROVE  Holds(InstalledPackages, rules[id])
    <3>1. ~IsUnit(rules[id])
      BY <2>1, <2>2, <2>3, <2>4 DEF NoUnitLeft
    <3>2. PICK q \in DOMAIN rule_by_id : rule_by_id[q] = id
      BY <2>4 DEF EnrolInv, Range
    <3>3. ~RuleIsOpen(id)
      BY <2>1, <3>2 DEF SweepInv
    <3> QED
      BY <2>2, <3>1, <3>3, RuleHolds
  <2>5. RuleIds' = RuleIds /\ InstalledPackages' = InstalledPackages
    BY <2>1 DEF RuleIds, InstalledPackages, Packages
  <2> QED
    BY <2>1, <2>4, <2>5 DEF Holds
<1> QED
  BY <1>1, <1>2, <1>3, DoneComes

-----------------------------------------------------------------------------
(***************************************************************************)
(* When solve begins.                                                      *)
(***************************************************************************)

\* The node of every rule that is registered and is no assertion.
LEMMA FirstNodes ==
  ASSUME Init
  PROVE  /\ \A k \in DOMAIN nodes :
              /\ nodes[k].rule \in RuleIds /\ rules[nodes[k].rule].lits \subseteq Literals
              /\ ~IsAssertion(rules[nodes[k].rule])
              /\ nodes[k].watch1 \in Literals /\ nodes[k].watch2 \in Literals
              /\ nodes[k].watch1 # nodes[k].watch2
         /\ \A id \in RuleIds :
              /\ rules[id].rule_type # "none" /\ ~IsAssertion(rules[id])
              /\ id \in Range(rule_by_id)
              => \E k \in DOMAIN nodes : nodes[k].rule = id
<1>1. /\ inst.size \in Nat /\ RulesInv /\ RuleIds = DOMAIN rules
      /\ \A id \in RuleIds : rules[id].why = 0
  BY RulesInit
<1> DEFINE A == {id \in RuleIds : rules[id].rule_type # "none"}
           U == {id \in DOMAIN inst.rules : ~IsAssertion(inst.rules[id])}
           packages == IdsOfType(rules, rule_by_id, "package")
           requests == IdsOfType(rules, rule_by_id, "request")
           watched == Selected(packages \o requests, U)
<1>2. /\ nodes = InitialNodes(inst)
      /\ rules = inst.rules /\ rule_by_id = inst.rule_by_id
  BY DEF Init
<1>3. nodes = [k \in DOMAIN watched |-> WatchNode(watched[k], rules[watched[k]].lits)]
  BY <1>2 DEF InitialNodes
<1>4. /\ packages \in Seq(A) /\ requests \in Seq(A)
      /\ \A id \in A : id \in Range(rule_by_id) => Has(packages, id) \/ Has(requests, id)
  <2>1. rule_by_id \in Seq(A)
    BY <1>1 DEF RulesInv
  <2>2. ASSUME NEW type
        PROVE  /\ IdsOfType(rules, rule_by_id, type) \in Seq(A)
               /\ \A id \in A : /\ id \in Range(rule_by_id) /\ rules[id].rule_type = type
                                => Has(IdsOfType(rules, rule_by_id, type), id)
    <3> DEFINE V == {id \in DOMAIN rules : rules[id].rule_type = type}
    <3>1. Selected(rule_by_id, V) \in Seq(A \cap V)
      BY <2>1, SelectedElements
    <3>2. A \cap V \subseteq A
      OBVIOUS
    <3>3. \A id \in A : rules[id].rule_type = type => id \in V
      BY <1>1
    <3> HIDE DEF V, A
    <3>4. Selected(rule_by_id, V) \in Seq(A)
      BY <3>1, <3>2, SeqWider
    <3>5. \A id : Has(Selected(rule_by_id, V), id) <=> id \in V /\ Has(rule_by_id, id)
      BY <2>1, SelectedHas
    <3>6. \A id : id \in Range(rule_by_id) => Has(rule_by_id, id)
      BY <2>1, LenProperties DEF Range, Has
    <3> QED
      BY <3>3, <3>4, <3>5, <3>6 DEF IdsOfType, V
  <2>3. \A id \in A : rules[id].rule_type \in {"package", "request"}
    BY <1>1 DEF RulesInv, RuleOK, RuleTypes
  <2> HIDE DEF A
  <2>4. packages \in Seq(A) /\ requests \in Seq(A)
    BY <2>2
  <2>5. ASSUME NEW id \in A, id \in Range(rule_by_id)
        PROVE  Has(packages, id) \/ Has(requests, id)
    <3>1. CASE rules[id].rule_type = "package"
      BY <2>2, <2>5, <3>1
    <3>2. CASE rules[id].rule_type = "request"
      BY <2>2, <2>5, <3>2
    <3> QED
      BY <2>3, <3>1, <3>2
  <2> QED
    BY <2>4, <2>5
<1> HIDE DEF A, U, packages, requests
<1>5. packages \o requests \in Seq(A)
  BY <1>4, ConcatProperties
<1>6. watched \in Seq(A \cap U)
  BY <1>5, SelectedElements
<1>7. \A id : Has(watched, id) <=> id \in U /\ Has(packages \o requests, id)
  BY <1>5, SelectedHas
<1> HIDE DEF watched
<1>8. /\ DOMAIN watched = 1 .. Len(watched) /\ DOMAIN nodes = 1 .. Len(watched)
      /\ \A k \in 1 .. Len(watched) : watched[k] \in A \cap U
  BY <1>3, <1>6, ElementOfSeq, LenProperties
<1>9. ASSUME NEW k \in DOMAIN nodes
      PROVE  /\ nodes[k].rule \in RuleIds /\ rules[nodes[k].rule].lits \subseteq Literals
             /\ ~IsAssertion(rules[nodes[k].rule])
             /\ nodes[k].watch1 \in Literals /\ nodes[k].watch2 \in Literals
             /\ nodes[k].watch1 # nodes[k].watch2
  <2>1. /\ watched[k] \in RuleIds
        /\ ~IsAssertion(rules[watched[k]])
        /\ nodes[k] = WatchNode(watched[k], rules[watched[k]].lits)
    BY <1>2, <1>3, <1>8, <1>9 DEF A, U
  <2>2. RuleOK(rules[watched[k]])
    BY <2>1, <1>1 DEF RulesInv
  <2>3. /\ rules[watched[k]].lits \in SUBSET LiteralsOf(inst.size)
        /\ \E l, m \in rules[watched[k]].lits : l # m
    BY <2>1, <2>2 DEF RuleOK, Literals
  <2>4. /\ nodes[k].watch1 \in rules[watched[k]].lits /\ nodes[k].watch2 \in rules[watched[k]].lits
        /\ nodes[k].watch1 # nodes[k].watch2
        /\ nodes[k].rule = watched[k]
    BY <1>1, <2>1, <2>3, WatchNodeDistinct
  <2> QED
    BY <2>1, <2>3, <2>4 DEF Literals
<1>10. ASSUME NEW id \in RuleIds, rules[id].rule_type # "none", ~IsAssertion(rules[id]),
              id \in Range(rule_by_id)
       PROVE  \E k \in DOMAIN nodes : nodes[k].rule = id
  <2>1. id \in A /\ id \in U
    BY <1>1, <1>2, <1>10 DEF A, U
  <2>2. Has(packages, id) \/ Has(requests, id)
    BY <1>4, <1>10, <2>1
  <2>3. Has(packages \o requests, id)
    BY <1>4, <2>2, JoinedHas
  <2>4. PICK k \in 1 .. Len(watched) : watched[k] = id
    BY <1>7, <2>1, <2>3 DEF Has
  <2>5. nodes[k].rule = id
    BY <1>3, <1>8, <2>4 DEF WatchNode
  <2> QED
    BY <1>8, <2>5
<1> QED
  BY <1>9, <1>10

\* The chains find the nodes, each once.
LEMMA FirstChains ==
  ASSUME Init
  PROVE  ChainInv
<1>1. SolverInv
  BY SolverInit
<1>2. /\ chains = InitialChains(inst, nodes) /\ rules = inst.rules
  BY DEF Init
<1>3. IsSequence(nodes)
  BY <1>1 DEF SolverInv, WatchInv
<1>4. DOMAIN nodes = 1 .. Len(nodes) /\ Len(nodes) \in Nat
  BY <1>3, LenProperties DEF IsSequence
<1>5. ASSUME NEW l \in Literals, NEW k \in DOMAIN nodes
      PROVE  /\ Has(chains[l], k) <=>
                  ChainEntries(k, nodes[k], rules[nodes[k].rule], l) # <<>>
             /\ AtMostOnce(chains[l], k)
  <2> DEFINE V == {j \in DOMAIN nodes :
                     ChainEntries(j, nodes[j], rules[nodes[j].rule], l) # <<>>}
             order == [j \in DOMAIN nodes |-> j]
  <2>1. chains[l] = Reverse(Selected(order, V))
    BY <1>2, <1>5 DEF InitialChains, Literals
  <2>2. order \in Seq(DOMAIN nodes)
    BY <1>4, IsASeq
  <2>3. DOMAIN order = 1 .. Len(order)
    BY <2>2, LenProperties
  <2>4. Has(order, k) /\ AtMostOnce(order, k)
    <3>1. \A j \in 1 .. Len(order) : order[j] = j
      BY <2>3
    <3>2. k \in 1 .. Len(order)
      BY <2>3
    <3> HIDE DEF order
    <3> QED
      BY <3>1, <3>2 DEF Has, AtMostOnce
  <2>5. k \in V <=> ChainEntries(k, nodes[k], rules[nodes[k].rule], l) # <<>>
    OBVIOUS
  <2> HIDE DEF V, order
  <2>6. Selected(order, V) \in Seq(DOMAIN nodes \cap V)
    BY <2>2, SelectedElements
  <2>7. /\ Has(Selected(order, V), k) <=> k \in V
        /\ AtMostOnce(Selected(order, V), k)
    BY <2>2, <2>4, SelectedHas
  <2>8. /\ Has(Reverse(Selected(order, V)), k) <=> Has(Selected(order, V), k)
        /\ AtMostOnce(Reverse(Selected(order, V)), k)
    BY <2>6, <2>7, ReversedHas
  <2> QED
    BY <2>1, <2>5, <2>7, <2>8
<1>6. ASSUME NEW k \in DOMAIN nodes, NEW l
      PROVE  LET r == rules[nodes[k].rule]
             IN ChainEntries(k, nodes[k], r, l) # <<>> <=>
                  IF IsMulti(r) THEN l \in r.lits ELSE l \in {nodes[k].watch1, nodes[k].watch2}
  <2>1. <<k>> # <<>>
    OBVIOUS
  <2>2. CASE IsMulti(rules[nodes[k].rule])
    BY <2>1, <2>2 DEF ChainEntries
  <2>3. CASE ~IsMulti(rules[nodes[k].rule])
    <3>1. ChainEntries(k, nodes[k], rules[nodes[k].rule], l) = Entries(k, nodes[k], l)
      BY <2>3 DEF ChainEntries, Entries
    <3>2. l \in {nodes[k].watch1, nodes[k].watch2} => Has(Entries(k, nodes[k], l), k)
      BY EntriesOf
    <3>3. ASSUME l \in {nodes[k].watch1, nodes[k].watch2}
          PROVE  Entries(k, nodes[k], l) # <<>>
      <4>1. Entries(k, nodes[k], l) \in Seq({k})
        BY EntriesOf
      <4>2. Len(Entries(k, nodes[k], l)) # 0
        <5>1. PICK i \in 1 .. Len(Entries(k, nodes[k], l)) : TRUE
          BY <3>2, <3>3 DEF Has
        <5>2. Len(Entries(k, nodes[k], l)) \in Nat
          BY <4>1, LenProperties
        <5> QED
          BY <5>1, <5>2
      <4> QED
        BY <4>2, EmptySeq
    <3>4. <<>> \o <<>> = <<>>
      OBVIOUS
    <3>5. l \notin {nodes[k].watch1, nodes[k].watch2} => Entries(k, nodes[k], l) = <<>>
      BY <3>4 DEF Entries
    <3> QED
      BY <2>3, <3>1, <3>3, <3>5
  <2> QED
    BY <2>2, <2>3
<1>7. ASSUME NEW k \in DOMAIN nodes
      PROVE  NodeChained(k)
  <2>1. PICK r : r = rules[nodes[k].rule]
    OBVIOUS
  <2>2. r.lits \subseteq Literals /\ nodes[k].watch1 # nodes[k].watch2 /\ nodes[k].rule \in RuleIds
    BY <2>1, FirstNodes
  <2>3. r.why = 0
    BY <2>1, <2>2, RulesInit
  <2>4. \A l \in Literals :
          /\ Has(chains[l], k) <=>
               IF IsMulti(r) THEN l \in r.lits ELSE l \in {nodes[k].watch1, nodes[k].watch2}
          /\ AtMostOnce(chains[l], k)
    BY <1>5, <1>6, <2>1
  <2> QED
    BY <2>1, <2>2, <2>3, <2>4 DEF NodeChained
<1> QED
  BY <1>7 DEF ChainInv

LEMMA AnswerInit ==
  ASSUME Init
  PROVE  AnswerInv
<1>1. /\ inst \in Instances /\ rules = inst.rules /\ rule_by_id = inst.rule_by_id
      /\ disabled = {} /\ propagate_index = 0 /\ cursor = 1 /\ pc = "assertions"
      /\ problems = [k \in 1 .. inst.detached |-> DetachedProblem]
  BY DEF Init
<1>2. RuleIds = DOMAIN rules /\ \A id \in RuleIds : rules[id].why = 0
  BY RulesInit
<1>3. SeenInv
  <2>1. \A l : ~FalseSeen(l)
    BY <1>1 DEF FalseSeen
  <2> QED
    BY <2>1 DEF SeenInv, NodeSees, PairSees
<1>4. ChainInv
  BY FirstChains
<1>5. ProgressInv /\ PendingInv /\ AssertedInv /\ ReachedInv /\ SweepInv /\ AnswerHolds
  BY <1>1 DEF ProgressInv, PendingInv, AssertedInv, ReachedInv, SweepInv, AnswerHolds, Answer,
              Propagating, InConflict, InAnalysis
<1>6. EnrolInv
  <2>1. \A id \in RuleIds : rules[id].rule_type # "none" => id \in Range(rule_by_id)
    BY <1>1, <1>2, InstancesAssumption
  <2>2. \A id \in RuleIds : rules[id].rule_type # "none" /\ ~IsAssertion(rules[id]) =>
          \E k \in DOMAIN nodes : nodes[k].rule = id
    BY <2>1, FirstNodes
  <2>3. \A k \in DOMAIN nodes : ~IsAssertion(rules[nodes[k].rule])
    BY FirstNodes
  <2> QED
    BY <1>1, <2>1, <2>2, <2>3 DEF EnrolInv
<1>7. GivenInv
  <2>1. inst.detached \in Nat
    BY <1>1, InstancesAssumption
  <2>2. /\ DOMAIN problems = 1 .. inst.detached
        /\ \A k \in DOMAIN problems : problems[k] = DetachedProblem
    BY <1>1
  <2>3. inst.detached > 0 => problems # <<>>
    <3> SUFFICES ASSUME inst.detached > 0, problems = <<>> PROVE FALSE
      OBVIOUS
    <3>1. DOMAIN problems = {}
      OBVIOUS
    <3>2. 1 \in 1 .. inst.detached
      BY <2>1
    <3> QED
      BY <2>2, <3>1, <3>2
  <2>4. inst.detached = 0 => DOMAIN problems = {}
    BY <2>2
  <2> QED
    BY <1>1, <1>2, <2>3, <2>4 DEF GivenInv
<1> QED
  BY <1>3, <1>4, <1>5, <1>6, <1>7 DEF AnswerInv

-----------------------------------------------------------------------------
(***************************************************************************)
(* The theorems.                                                           *)
(***************************************************************************)

LEMMA AnswerNext ==
  ASSUME SolverInv, AnswerInv, [Next]_vars
  PROVE  AnswerInv'
<1>1. /\ SeenInv /\ ChainInv /\ ProgressInv /\ PendingInv
      /\ EnrolInv /\ GivenInv /\ AssertedInv /\ ReachedInv /\ SweepInv
      /\ AnswerHolds
  BY DEF AnswerInv
<1>2. SeenInv' /\ ChainInv' /\ ProgressInv' /\ PendingInv'
  BY <1>1, SeenStep, ChainStep, ProgressStep, PendingStep
<1>3. EnrolInv' /\ GivenInv' /\ AssertedInv' /\ ReachedInv'
  BY <1>1, EnrolStep, GivenStep, AssertedStep, ReachedStep
<1>4. SweepInv' /\ AnswerHolds'
  BY <1>1, SweepStep, AnswerStep
<1> QED
  BY <1>2, <1>3, <1>4 DEF AnswerInv

\* AnswerInv holds in every state of the solver.
THEOREM AnswerInvariant == Spec => [](SolverInv /\ AnswerInv)
<1>1. Init => SolverInv /\ AnswerInv
  BY SolverInit, AnswerInit
<1>2. SolverInv /\ AnswerInv /\ [Next]_vars => (SolverInv /\ AnswerInv)'
  BY SolverStep, AnswerNext
<1> QED
  BY <1>1, <1>2, PTL DEF Spec

\* No rule is missed, whatever the rules, the requests and the policy: between
\* two choices no rule that is enabled is a unit, and what is installed in the
\* end satisfies every package rule and every request (propagate, run_sat).
THEOREM NothingIsMissed == Spec => []NothingMissed
<1>1. SolverInv /\ AnswerInv => NothingMissed
  BY NoUnits DEF AnswerInv, NothingMissed
<1> QED
  BY <1>1, AnswerInvariant, PTL

-----------------------------------------------------------------------------
(***************************************************************************)
(* The promise kept: the solver is a resolution of the rules it was given. *)
(***************************************************************************)

\* A solution of the rules: nothing was lost before them, and they all hold.
RulesSolved(x, S) == x.detached = 0 /\ \A k \in DOMAIN x.rules : Holds(S, x.rules[k])
PackagesOfInstance(x) == 1 .. x.size
InstalledInTheEnd == IF Answer = "solved" THEN InstalledPackages ELSE {}

Promise == INSTANCE Resolution WITH
  PackagesIn <- PackagesOfInstance, IsSolution <- RulesSolved,
  input <- inst, answer <- Answer, installed <- InstalledInTheEnd

\* What is said in the end is true.
AnswerIsRight ==
  /\ Answer = "solved" => RulesSolved(inst, InstalledPackages)
  /\ Answer = "unsolvable" => \A S \in SUBSET Packages : ~RulesSolved(inst, S)

\* What satisfies the given rules satisfies every rule stored, learned ones too.
LEMMA GivenSuffice ==
  ASSUME SolverInv, GivenInv, NEW S \in SUBSET Packages, RulesSolved(inst, S)
  PROVE  \A id \in RuleIds : Holds(S, rules[id])
<1> DEFINE T == {id \in RuleIds : ~Holds(S, rules[id])}
<1>1. \A id \in RuleIds : RuleOK(rules[id])
  BY DEF SolverInv, RulesInv
<1>2. \A id \in RuleIds : rules[id].why = 0 => Holds(S, rules[id])
  BY DEF GivenInv, RulesSolved
<1>3. AllowedByPackages(S)
  BY <1>1, <1>2 DEF AllowedByPackages, RuleOK
<1>4. SUFFICES ASSUME T # {} PROVE FALSE
  OBVIOUS
<1>5. T \in SUBSET Nat
  BY RulesFacts
<1>6. PICK id \in T : \A j \in T : id <= j
  BY <1>4, <1>5, LeastNumber
<1>7. rules[id].why > 0 /\ ~IsMulti(rules[id])
  BY <1>1, <1>2 DEF RuleOK
<1>8. learned_pool[rules[id].why] \subseteq 1 .. id - 1
  BY <1>7 DEF SolverInv, PoolInv
<1>9. \A j \in 1 .. id - 1 : j \in RuleIds /\ ~(id <= j)
  BY <1>5, RulesFacts
<1>10. \A j \in learned_pool[rules[id].why] : Holds(S, rules[j])
  BY <1>6, <1>8, <1>9
<1>11. Follows(learned_pool[rules[id].why], rules[id].lits)
  BY <1>7 DEF SolverInv, LearnedInv
<1>12. SatisfiedBy(S, rules[id].lits)
  BY <1>3, <1>10, <1>11 DEF Follows, Sets
<1> QED
  BY <1>7, <1>12 DEF Holds, SatisfiedBy

\* A refusal is right: a problem names rules that cannot hold together.
LEMMA RefusalIsRight ==
  ASSUME SolverInv, GivenInv, problems # <<>>
  PROVE  \A S \in SUBSET Packages : ~RulesSolved(inst, S)
<1> SUFFICES ASSUME NEW S \in SUBSET Packages, RulesSolved(inst, S) PROVE FALSE
  OBVIOUS
<1>1. \A id \in RuleIds : Holds(S, rules[id])
  BY GivenSuffice
<1>2. inst.detached = 0
  BY DEF RulesSolved
<1>3. 1 \in DOMAIN problems
  <2>1. IsSequence(problems)
    BY DEF SolverInv, ProblemsInv
  <2>2. Len(problems) \in Nat /\ DOMAIN problems = 1 .. Len(problems)
    BY <2>1, LenProperties DEF IsSequence
  <2>3. Len(problems) # 0
    BY <2>1, EmptySeq DEF IsSequence
  <2> QED
    BY <2>2, <2>3
<1>4. /\ ~problems[1].detached /\ problems[1].rules \subseteq RuleIds
      /\ Unsatisfiable(problems[1])
  BY <1>2, <1>3 DEF GivenInv, SolverInv, ProblemsInv
<1>5. AllowedByPackages(S)
  BY <1>1 DEF AllowedByPackages
<1> QED
  BY <1>1, <1>4, <1>5 DEF Unsatisfiable, Sets

\* An answer is right: a duplicate holds with the rule it is a duplicate of.
LEMMA SolutionIsRight ==
  ASSUME SolverInv, GivenInv, AnswerHolds, Answer = "solved"
  PROVE  RulesSolved(inst, InstalledPackages)
<1>1. problems = <<>>
  BY DEF Answer
<1>2. inst.detached = 0
  <2>1. inst.detached \in Nat
    BY InstancesAssumption DEF GivenInv
  <2> QED
    BY <1>1, <2>1 DEF GivenInv
<1>3. ASSUME NEW k \in DOMAIN inst.rules
      PROVE  Holds(InstalledPackages, inst.rules[k])
  <2>1. PICK j \in Range(inst.rule_by_id) :
             inst.rules[j].kind = inst.rules[k].kind /\ inst.rules[j].lits = inst.rules[k].lits
    BY InstancesAssumption DEF GivenInv
  <2>2. j \in DOMAIN inst.rules /\ inst.rules[j].rule_type # "none"
    <3>1. inst.rule_by_id \in Seq({i \in DOMAIN inst.rules : inst.rules[i].rule_type # "none"})
      BY InstancesAssumption DEF GivenInv
    <3> QED
      BY <2>1, <3>1, ElementOfSeq, LenProperties DEF Range
  <2>3. Generated(inst.rules[j], inst.size)
    BY <2>2, InstancesAssumption DEF GivenInv
  <2>4. inst.rules[j].rule_type \in {"package", "request"} /\ j \in RuleIds
        /\ rules[j] = inst.rules[j]
    BY <2>2, <2>3 DEF GivenInv, Generated
  <2>5. Holds(InstalledPackages, inst.rules[j])
    BY <2>4 DEF AnswerHolds
  <2> QED
    BY <2>1, <2>5 DEF Holds, IsMulti
<1> QED
  BY <1>2, <1>3 DEF RulesSolved

\* The solver stops when it has answered.
LEMMA AnswerStays ==
  ASSUME [Next]_vars, pc = "done"
  PROVE  UNCHANGED vars
<1>1. CASE AssertSkip \/ AssertDecide \/ AssertConflict \/ AssertionsDone \/ RunSat
  BY <1>1 DEF AssertSkip, AssertDecide, AssertConflict, AssertionsDone, RunSat, Asserting
<1>2. CASE \/ VisitSettled \/ VisitMoveWatch \/ VisitImply \/ VisitConflict
           \/ NextDecision \/ Propagated
  BY <1>2 DEF VisitSettled, VisitMoveWatch, VisitImply, VisitConflict, NextDecision,
              Propagated, Visiting, Propagating
<1>3. CASE Unsolvable \/ BeginAnalysis \/ Resolve \/ Learn
  BY <1>3 DEF Unsolvable, BeginAnalysis, Resolve, Learn
<1>4. CASE WalkEnd \/ WalkLearn \/ WalkReason
  BY <1>4, Zenon DEF WalkEnd, WalkLearn, WalkReason
<1>5. CASE SkipRequest \/ InstallRequest \/ RequestsDone \/ SkipRule \/ InstallProvider \/ Swept
           \/ RetryBranch \/ BranchesDone
  BY <1>5 DEF SkipRequest, InstallRequest, RequestsDone, SkipRule, InstallProvider, Swept,
              RetryBranch, BranchesDone, Requesting, Sweeping
<1>6. CASE Terminated \/ UNCHANGED vars
  BY <1>6 DEF Terminated
<1> QED
  BY <1>1, <1>2, <1>3, <1>4, <1>5, <1>6 DEF Next

\* The answers of the solver are right, whatever the rules, the requests and the
\* policy: what it installs satisfies all the rules it was given, and it refuses
\* only what no set of packages satisfies (solve).
THEOREM SolverResolves ==
  Spec => Promise!Init /\ [][Promise!Next]_<<inst, Answer, InstalledInTheEnd>>
<1>1. Init => Promise!Init
  <2> SUFFICES ASSUME Init PROVE Promise!Init
    OBVIOUS
  <2>1. Answer = "none"
    BY DEF Init, Answer
  <2> QED
    BY <2>1 DEF Promise!Init, InstalledInTheEnd
<1>2. SolverInv /\ AnswerInv => AnswerIsRight
  BY RefusalIsRight, SolutionIsRight DEF AnswerInv, AnswerIsRight, Answer
<1>3. AnswerIsRight' /\ [Next]_vars => [Promise!Next]_<<inst, Answer, InstalledInTheEnd>>
  <2> SUFFICES ASSUME AnswerIsRight', [Next]_vars
               PROVE  [Promise!Next]_<<inst, Answer, InstalledInTheEnd>>
    OBVIOUS
  <2>1. CASE pc = "done"
    <3>1. UNCHANGED vars
      BY <2>1, AnswerStays
    <3> QED
      BY <3>1 DEF vars, Answer, InstalledInTheEnd, InstalledPackages, Packages
  <2>2. CASE pc # "done"
    <3>1. Answer = "none" /\ InstalledInTheEnd = {} /\ inst' = inst
      BY <2>2, Frames DEF Answer, InstalledInTheEnd
    <3>2. CASE pc' # "done"
      BY <3>1, <3>2 DEF Answer, InstalledInTheEnd
    <3>3. CASE pc' = "done" /\ problems' = <<>>
      <4>1. Answer' = "solved" /\ InstalledInTheEnd' = InstalledPackages'
        BY <3>3 DEF Answer, InstalledInTheEnd
      <4>2. RulesSolved(inst, InstalledPackages')
        BY <3>1, <4>1 DEF AnswerIsRight, RulesSolved
      <4>3. InstalledPackages' \in SUBSET PackagesOfInstance(inst)
        BY <3>1 DEF InstalledPackages, Packages, PackagesOfInstance
      <4>4. Promise!Solve
        BY <3>1, <4>1, <4>2, <4>3 DEF Promise!Solve
      <4> QED
        BY <4>4 DEF Promise!Next
    <3>4. CASE pc' = "done" /\ problems' # <<>>
      <4>1. Answer' = "unsolvable" /\ InstalledInTheEnd' = {}
        BY <3>4 DEF Answer, InstalledInTheEnd
      <4>2. \A S \in SUBSET PackagesOfInstance(inst) : ~RulesSolved(inst, S)
        BY <3>1, <4>1 DEF AnswerIsRight, RulesSolved, Packages, PackagesOfInstance
      <4>3. Promise!Refuse
        BY <3>1, <4>1, <4>2 DEF Promise!Refuse
      <4> QED
        BY <4>3 DEF Promise!Next
    <3> QED
      BY <3>2, <3>3, <3>4
  <2> QED
    BY <2>1, <2>2
<1> QED
  BY <1>1, <1>2, <1>3, AnswerInvariant, PTL DEF Spec

=============================================================================
