--------------------------- MODULE PoolFiltersProofs ---------------------------
(***************************************************************************)
(* What the filters of a pool do with the policy and with what the         *)
(* repositories say, for every pool, every configuration and any number of *)
(* layers, sources, advisories and entries.                                *)
(***************************************************************************)
EXTENDS PoolFilters, SequenceLemmas

(***************************************************************************)
(* Sequences as sets.                                                      *)
(***************************************************************************)

LEMMA ToSetOf ==
  ASSUME NEW S, NEW s \in Seq(S)
  PROVE  /\ Len(s) \in Nat /\ DOMAIN s = 1 .. Len(s)
         /\ ToSet(s) \in SUBSET S
         /\ ToSet(s) = Range(s)
         /\ \A e : e \in ToSet(s) <=> \E i \in 1 .. Len(s) : s[i] = e
BY LenProperties, ElementOfSeq DEF ToSet, Range

\* What is selected of a sequence, as a set.
LEMMA SelectedSet ==
  ASSUME NEW S, NEW s \in Seq(S), NEW T
  PROVE  /\ Selected(s, T) \in Seq(S)
         /\ ToSet(Selected(s, T)) = ToSet(s) \cap T
<1>1. Selected(s, T) \in Seq(S) /\ Range(Selected(s, T)) = Range(s) \cap T
  BY SelectedKeeps
<1> QED
  BY <1>1, ToSetOf

LEMMA SeqOfItself ==
  ASSUME NEW S, NEW s \in Seq(S)
  PROVE  s \in Seq(ToSet(s))
<1>1. \A i \in 1 .. Len(s) : s[i] \in ToSet(s)
  BY ToSetOf
<1>2. s = [i \in 1 .. Len(s) |-> s[i]] /\ Len(s) \in Nat
  OBVIOUS
<1> QED
  BY <1>1, <1>2, SeqDef

LEMMA SingletonSet ==
  ASSUME NEW S, NEW e \in S
  PROVE  <<e>> \in Seq(S) /\ ToSet(<<e>>) = {e}
<1>1. <<e>> \in Seq(S) /\ Len(<<e>>) = 1 /\ <<e>>[1] = e
  OBVIOUS
<1>2. \A d : d \in ToSet(<<e>>) <=> \E i \in 1 .. 1 : <<e>>[i] = d
  BY <1>1, ToSetOf, Zenon
<1> QED
  BY <1>1, <1>2

(***************************************************************************)
(* Rules that are merged.                                                  *)
(***************************************************************************)

\* One rule takes the place of the one under its key, and of no other.
LEMMA MergeRuleKeeps ==
  ASSUME NEW S, NEW rules \in Seq(S), NEW r \in S
  PROVE  /\ MergeRule(rules, r) \in Seq(S)
         /\ r \in ToSet(MergeRule(rules, r))
         /\ \A o \in ToSet(rules) : o \in ToSet(MergeRule(rules, r)) \/ SameKey(o, r)
<1> DEFINE slots == {j \in DOMAIN rules : SameKey(rules[j], r)}
<1>0. Len(rules) \in Nat /\ DOMAIN rules = 1 .. Len(rules)
  BY ToSetOf
<1>1. CASE slots = {}
  <2>1. MergeRule(rules, r) = Append(rules, r)
    BY <1>1 DEF MergeRule
  <2>2. /\ Append(rules, r) \in Seq(S) /\ Len(Append(rules, r)) = Len(rules) + 1
        /\ \A i \in 1 .. Len(rules) : Append(rules, r)[i] = rules[i]
        /\ Append(rules, r)[Len(rules) + 1] = r
    BY <1>0, AppendProperties
  <2> DEFINE t == Append(rules, r)
  <2> HIDE DEF t
  <2>5. t \in Seq(S) /\ Len(rules) + 1 \in 1 .. Len(t) /\ 1 .. Len(rules) \subseteq 1 .. Len(t)
    BY <1>0, <2>2 DEF t
  <2>6. \A i \in 1 .. Len(t) : t[i] \in ToSet(t)
    BY <2>5, ToSetOf
  <2>3. r \in ToSet(t)
    BY <2>2, <2>5, <2>6 DEF t
  <2>4. ASSUME NEW o \in ToSet(rules)
        PROVE  o \in ToSet(t)
    <3>1. PICK i \in 1 .. Len(rules) : rules[i] = o
      BY ToSetOf
    <3>2. i \in 1 .. Len(t) /\ t[i] = o
      BY <3>1, <2>2, <2>5 DEF t
    <3> QED
      BY <3>2, <2>6
  <2> QED
    BY <2>1, <2>3, <2>4, <2>5 DEF t
<1>2. CASE slots # {}
  <2> DEFINE slot == CHOOSE j \in slots : \A k \in slots : j <= k
             put == [rules EXCEPT ![slot] = r]
  <2>1. slot \in slots
    <3>1. slots \in SUBSET Nat
      BY <1>0
    <3> QED
      BY <3>1, <1>2, LeastNumber
  <2>2. MergeRule(rules, r) = put
    BY <1>2 DEF MergeRule
  <2>3. slot \in 1 .. Len(rules) /\ SameKey(rules[slot], r)
    BY <2>1, <1>0
  <2> HIDE DEF slot
  <2>4. put \in Seq(S) /\ Len(put) = Len(rules)
    BY <2>3, ExceptSeq
  <2>5. put[slot] = r /\ \A i \in 1 .. Len(rules) : i # slot => put[i] = rules[i]
    BY <2>3, <1>0
  <2>6. r \in ToSet(put)
    BY <2>3, <2>4, <2>5, ToSetOf
  <2>7. ASSUME NEW o \in ToSet(rules)
        PROVE  o \in ToSet(put) \/ SameKey(o, r)
    <3>1. PICK i \in 1 .. Len(rules) : rules[i] = o
      BY ToSetOf
    <3> QED
      BY <3>1, <2>3, <2>4, <2>5, ToSetOf
  <2> QED
    BY <2>2, <2>4, <2>6, <2>7
<1> QED
  BY <1>1, <1>2

\* What the recursive function of MergeRules computes, up to n.
MergesRules(f, old, new, n) ==
  f = [i \in 0 .. n |-> IF i = 0 THEN old ELSE MergeRule(f[i - 1], new[i])]

\* It exists.
LEMMA MergesRulesExists ==
  ASSUME NEW old, NEW new, NEW n \in Nat
  PROVE  \E f : MergesRules(f, old, new, n)
<1> DEFINE T == {k \in Nat : ~\E f : MergesRules(f, old, new, k)}
<1> SUFFICES ASSUME T # {} PROVE FALSE
  OBVIOUS
<1>1. PICK k \in T : \A j \in T : k <= j
  BY LeastNumber
<1>2. CASE k = 0
  <2>1. MergesRules([i \in 0 .. 0 |-> old], old, new, 0)
    BY DEF MergesRules
  <2> QED
    BY <2>1, <1>2
<1>3. CASE k > 0
  <2>1. k - 1 \in Nat /\ k - 1 \notin T
    BY <1>1, <1>3
  <2>2. PICK f : MergesRules(f, old, new, k - 1)
    BY <2>1
  <2> DEFINE g == [i \in 0 .. k |-> IF i < k THEN f[i] ELSE MergeRule(f[k - 1], new[k])]
             h == [i \in 0 .. k |-> IF i = 0 THEN old ELSE MergeRule(g[i - 1], new[i])]
  <2>3. \A i \in 0 .. k - 1 : g[i] = f[i]
    BY <1>3
  <2>4. ASSUME NEW i \in 0 .. k
        PROVE  g[i] = h[i]
    <3>1. CASE i = k
      BY <3>1, <1>3, <2>3
    <3>2. CASE i < k
      <4>1. i \in 0 .. k - 1 /\ (i # 0 => i - 1 \in 0 .. k - 1)
        BY <3>2
      <4>2. f[i] = IF i = 0 THEN old ELSE MergeRule(f[i - 1], new[i])
        BY <4>1, <2>2 DEF MergesRules
      <4> QED
        BY <4>1, <4>2, <2>3
    <3> QED
      BY <3>1, <3>2
  <2>5. DOMAIN g = 0 .. k /\ DOMAIN h = 0 .. k
    OBVIOUS
  <2>6. g = h
    BY <2>4, <2>5
  <2>7. MergesRules(g, old, new, k)
    BY <2>6 DEF MergesRules
  <2> QED
    BY <2>7
<1> QED
  BY <1>1, <1>2, <1>3

\* Merging loses no rule but to one under the same key.
LEMMA MergeRulesKeeps ==
  ASSUME NEW S, NEW old \in Seq(S), NEW new \in Seq(S),
         \A i, j \in DOMAIN new : SameKey(new[i], new[j]) => i = j
  PROVE  /\ MergeRules(old, new) \in Seq(S)
         /\ ToSet(new) \subseteq ToSet(MergeRules(old, new))
         /\ \A r \in ToSet(old) :
              r \in ToSet(MergeRules(old, new)) \/ \E q \in ToSet(new) : SameKey(r, q)
<1>1. Len(new) \in Nat /\ DOMAIN new = 1 .. Len(new) /\ \A i \in 1 .. Len(new) : new[i] \in S
  BY ToSetOf, ElementOfSeq
<1> DEFINE f == CHOOSE g : MergesRules(g, old, new, Len(new))
<1>2. MergesRules(f, old, new, Len(new))
  BY <1>1, MergesRulesExists
<1>3. MergeRules(old, new) = f[Len(new)]
  BY DEF MergeRules, MergesRules
<1> HIDE DEF f
<1> DEFINE Kept(k) ==
             /\ f[k] \in Seq(S)
             /\ \A j \in 1 .. k : new[j] \in ToSet(f[k])
             /\ \A r \in ToSet(old) :
                  r \in ToSet(f[k]) \/ \E j \in 1 .. k : SameKey(r, new[j])
           T == {k \in 0 .. Len(new) : ~Kept(k)}
<1>4. T = {}
  <2> SUFFICES ASSUME T # {} PROVE FALSE
    OBVIOUS
  <2>1. T \in SUBSET Nat
    BY <1>1
  <2>2. PICK k \in T : \A j \in T : k <= j
    BY <2>1, LeastNumber
  <2>3. f[k] = IF k = 0 THEN old ELSE MergeRule(f[k - 1], new[k])
    BY <1>2 DEF MergesRules
  <2>4. CASE k = 0
    BY <2>2, <2>3, <2>4
  <2>5. CASE k # 0
    <3>1. k \in 1 .. Len(new) /\ k - 1 \in 0 .. Len(new) /\ new[k] \in S
      BY <1>1, <2>5
    <3>2. k - 1 \notin T
      BY <2>2, <3>1
    <3>3. Kept(k - 1)
      BY <3>1, <3>2
    <3>8. f[k - 1] \in Seq(S) /\ f[k] = MergeRule(f[k - 1], new[k])
      BY <3>3, <2>3, <2>5
    <3>4. /\ f[k] \in Seq(S) /\ new[k] \in ToSet(f[k])
          /\ \A o \in ToSet(f[k - 1]) : o \in ToSet(f[k]) \/ SameKey(o, new[k])
      <4> DEFINE g == f[k - 1]
                 n == new[k]
      <4>1. g \in Seq(S) /\ n \in S /\ f[k] = MergeRule(g, n)
        BY <3>1, <3>8
      <4> HIDE DEF g, n, Kept
      <4>2. /\ MergeRule(g, n) \in Seq(S) /\ n \in ToSet(MergeRule(g, n))
            /\ \A o \in ToSet(g) : o \in ToSet(MergeRule(g, n)) \/ SameKey(o, n)
        BY <4>1, MergeRuleKeeps, Zenon
      <4> QED
        BY <4>1, <4>2 DEF g, n
    <3>5. ASSUME NEW j \in 1 .. k
          PROVE  new[j] \in ToSet(f[k])
      <4>1. CASE j = k
        BY <4>1, <3>4
      <4>2. CASE j # k
        <5>1. j \in 1 .. k - 1 /\ j \in DOMAIN new /\ k \in DOMAIN new
          BY <4>2, <3>1, <1>1
        <5>2. new[j] \in ToSet(f[k - 1])
          BY <5>1, <3>3
        <5>3. ~SameKey(new[j], new[k])
          BY <5>1, <4>2
        <5> QED
          BY <5>2, <5>3, <3>4
      <4> QED
        BY <4>1, <4>2
    <3>6. ASSUME NEW r \in ToSet(old)
          PROVE  r \in ToSet(f[k]) \/ \E j \in 1 .. k : SameKey(r, new[j])
      <4>1. CASE r \in ToSet(f[k - 1])
        BY <4>1, <3>1, <3>4
      <4>2. CASE \E j \in 1 .. k - 1 : SameKey(r, new[j])
        BY <4>2, <3>1
      <4> QED
        BY <4>1, <4>2, <3>3
    <3>7. Kept(k)
      BY <3>4, <3>5, <3>6
    <3> QED
      BY <3>7, <2>2
  <2> QED
    BY <2>4, <2>5
<1>5. Kept(Len(new))
  BY <1>1, <1>4
<1>6. \A j \in 1 .. Len(new) : new[j] \in ToSet(new)
  BY ToSetOf
<1>7. ToSet(new) \subseteq ToSet(f[Len(new)])
  BY <1>5, ToSetOf
<1>8. \A r \in ToSet(old) : r \in ToSet(f[Len(new)]) \/ \E q \in ToSet(new) : SameKey(r, q)
  BY <1>5, <1>6
<1> QED
  BY <1>3, <1>5, <1>7, <1>8

(***************************************************************************)
(* Layers that are merged.                                                 *)
(***************************************************************************)

\* The settings of a list that layers were merged into.
IsMerged(s) ==
  /\ DOMAIN s = DOMAIN NoSettings
  /\ s.kind \in {"no", "object"}
  /\ s.ignore \in Seq(ToSet(s.ignore))

\* The configuration layers were merged into.
IsRaw(raw) ==
  /\ DOMAIN raw = DOMAIN NoLayer
  /\ raw.policy # "object" => DOMAIN raw.lists = {}
  /\ "malware" \in DOMAIN raw.lists => IsMerged(raw.lists["malware"])

\* A rule is in force in it.
InForce(raw, r) ==
  /\ raw.policy = "object"
  /\ "malware" \in DOMAIN raw.lists
  /\ raw.lists["malware"].kind = "object"
  /\ r \in ToSet(raw.lists["malware"].ignore)

Overridden(layer, r) ==
  TurnsOff(layer) \/ \E q \in IgnoredIn(layer) : SameKey(r, q)

LEMMA NoRules ==
  <<>> \in Seq(ToSet(<<>>)) /\ ToSet(<<>>) = {} /\ DOMAIN <<>> = {}
<1>1. <<>> \in Seq({})
  OBVIOUS
<1>2. ToSet(<<>>) \in SUBSET {}
  BY <1>1, ToSetOf
<1>3. DOMAIN <<>> = 1 .. Len(<<>>) /\ Len(<<>>) = 0
  BY <1>1, ToSetOf
<1> QED
  BY <1>1, <1>2, <1>3

\* A list that is an object or `true`, over what the earlier layers made of it.
LEMMA MergeSettingsKeeps ==
  ASSUME NEW old, NEW new, IsMerged(old), IsSettings(new)
  PROVE  LET s == MergeSettings(Object(old), Object(new)) IN
         /\ IsMerged(s)
         /\ \A r \in ToSet(new.ignore) : s.kind = "object" /\ r \in ToSet(s.ignore)
         /\ old.kind = "object" /\ new.kind # "no" =>
              /\ s.kind = "object"
              /\ \A r \in ToSet(old.ignore) :
                   r \in ToSet(s.ignore) \/ \E q \in ToSet(new.ignore) : SameKey(r, q)
<1> DEFINE o == Object(new)
           s == MergeSettings(Object(old), Object(new))
<1>1. Object(old) = old /\ old.kind \in {"no", "object"} /\ old.ignore \in Seq(ToSet(old.ignore))
  BY DEF IsMerged, Object
<1>2. /\ DOMAIN o = DOMAIN NoSettings
      /\ o.kind \in {"no", "object"}
      /\ o.kind = "no" <=> new.kind = "no"
      /\ o.ignore = new.ignore
  <2>1. CASE new.kind = "yes"
    BY <2>1 DEF IsSettings, Object, NoSettings
  <2>2. CASE new.kind # "yes"
    BY <2>2 DEF IsSettings, Object
  <2> QED
    BY <2>1, <2>2
<1>3. /\ new.ignore \in Seq(ToSet(new.ignore))
      /\ new.kind # "object" => new.ignore = <<>>
      /\ \A i, j \in DOMAIN new.ignore : SameKey(new.ignore[i], new.ignore[j]) => i = j
  BY DEF IsSettings
<1>4. CASE new.kind = "no" \/ old.kind = "no"
  <2>1. s = o
    BY <1>1, <1>2, <1>4 DEF MergeSettings
  <2>2. \A r \in ToSet(new.ignore) : new.kind = "object"
    BY <1>3, NoRules
  <2> QED
    BY <2>1, <2>2, <1>2, <1>3, <1>4 DEF IsMerged
<1>5. CASE new.kind # "no" /\ old.kind # "no"
  <2> DEFINE m == MergeRules(old.ignore, new.ignore)
             S == ToSet(old.ignore) \cup ToSet(new.ignore)
  <2>1. /\ DOMAIN s = DOMAIN NoSettings
        /\ s.kind = "object"
        /\ s.ignore = m
    <3>1. s = [o EXCEPT !.block = Given(@, old.block), !.scope = Given(@, old.scope),
                 !.sources = @ \cup old.sources, !.ids = MergeRules(old.ids, @),
                 !.severities = MergeRules(old.severities, @),
                 !.ignore = MergeRules(old.ignore, @)]
      BY <1>1, <1>2, <1>5 DEF MergeSettings
    <3>2. {"kind", "ignore"} \subseteq DOMAIN o
      BY <1>2 DEF NoSettings
    <3> HIDE DEF o, s
    <3> QED
      BY <3>1, <3>2, <1>2, <1>5
  <2>2. old.ignore \in Seq(S) /\ new.ignore \in Seq(S)
    BY <1>1, <1>3, SeqMonotonic
  <2>3. /\ m \in Seq(S) /\ ToSet(new.ignore) \subseteq ToSet(m)
        /\ \A r \in ToSet(old.ignore) :
             r \in ToSet(m) \/ \E q \in ToSet(new.ignore) : SameKey(r, q)
    <3> HIDE DEF S
    <3> QED
      BY <2>2, <1>3, MergeRulesKeeps
  <2>4. m \in Seq(ToSet(m))
    BY <2>3, SeqOfItself
  <2> HIDE DEF m, s, o, S
  <2> QED
    BY <2>1, <2>3, <2>4 DEF IsMerged, s
<1> QED
  BY <1>4, <1>5

\* The fields of a layer that rules are read from survive the merge of `audit`.
LEMMA MergeLayerFields ==
  ASSUME NEW old, NEW new, IsRaw(old), IsLayer(new)
  PROVE  LET raw == MergeLayer(old, new)
             over == IF old.policy = "object" THEN old ELSE NoLayer
         IN /\ DOMAIN raw = DOMAIN NoLayer
            /\ new.policy = "absent" => raw.policy = old.policy /\ raw.lists = old.lists
            /\ new.policy = "no" => raw.policy = "no" /\ raw.lists = <<>>
            /\ new.policy \in {"yes", "object"} =>
                 raw.policy = "object" /\ raw.lists = MergeLists(over.lists, new.lists)
<1> DEFINE over == IF old.policy = "object" THEN old ELSE NoLayer
           raw == MergeLayer(old, new)
           audit == MergeAudit(old.audit, new.audit)
<1>1. new.policy \in {"absent", "no", "yes", "object"}
  BY DEF IsLayer
<1>2. DOMAIN old = DOMAIN NoLayer
  BY DEF IsRaw
<1>3. CASE new.policy = "absent"
  <2>1. raw = [old EXCEPT !.audit = audit]
    BY <1>3 DEF MergeLayer
  <2>2. DOMAIN raw = DOMAIN old /\ {"policy", "lists", "audit"} \subseteq DOMAIN old
    BY <1>2, <2>1 DEF NoLayer
  <2>3. raw.policy = old.policy /\ raw.lists = old.lists
    <3> HIDE DEF raw, audit
    <3> QED
      BY <2>1, <2>2
  <2> HIDE DEF raw, over
  <2> QED
    BY <1>2, <1>3, <2>2, <2>3 DEF raw
<1>4. CASE new.policy = "no"
  <2>1. raw = [[NoLayer EXCEPT !.policy = "no"] EXCEPT !.audit = audit]
    BY <1>4 DEF MergeLayer
  <2>2. DOMAIN raw = DOMAIN NoLayer /\ raw.policy = "no" /\ raw.lists = <<>>
    <3> HIDE DEF raw, audit
    <3> QED
      BY <2>1 DEF NoLayer
  <2> HIDE DEF raw, over
  <2> QED
    BY <1>4, <2>2 DEF raw
<1>5. CASE new.policy \in {"yes", "object"}
  <2> DEFINE lists == MergeLists(over.lists, new.lists)
             unreachable == Given(new.unreachable, over.unreachable)
             scopes == IF new.unreachable = "set" THEN new.scopes ELSE over.scopes
  <2>1. raw = [[policy |-> "object", lists |-> lists, unreachable |-> unreachable,
                scopes |-> scopes, audit |-> old.audit] EXCEPT !.audit = audit]
    BY <1>5 DEF MergeLayer
  <2>2. DOMAIN raw = DOMAIN NoLayer /\ raw.policy = "object" /\ raw.lists = lists
    <3> HIDE DEF raw, audit, lists, unreachable, scopes
    <3> QED
      BY <2>1 DEF NoLayer
  <2>3. raw.policy = "object" /\ raw.lists = MergeLists(over.lists, new.lists)
    BY <2>2
  <2> HIDE DEF raw, over, lists
  <2> QED
    BY <1>5, <2>2, <2>3 DEF raw, over
<1> QED
  BY <1>1, <1>3, <1>4, <1>5

\* One more layer keeps every rule in force that it does not override, and puts
\* its own in force.
LEMMA MergeLayerKeeps ==
  ASSUME NEW old, NEW new, IsRaw(old), IsLayer(new)
  PROVE  /\ IsRaw(MergeLayer(old, new))
         /\ \A r \in IgnoredIn(new) : InForce(MergeLayer(old, new), r)
         /\ \A r : InForce(old, r) => InForce(MergeLayer(old, new), r) \/ Overridden(new, r)
<1> DEFINE over == IF old.policy = "object" THEN old ELSE NoLayer
           raw == MergeLayer(old, new)
           m == "malware"
<1>1. /\ DOMAIN raw = DOMAIN NoLayer
      /\ new.policy = "absent" => raw.policy = old.policy /\ raw.lists = old.lists
      /\ new.policy = "no" => raw.policy = "no" /\ raw.lists = <<>>
      /\ new.policy \in {"yes", "object"} =>
           raw.policy = "object" /\ raw.lists = MergeLists(over.lists, new.lists)
  BY MergeLayerFields
<1>2. /\ new.policy \in {"absent", "no", "yes", "object"}
      /\ new.policy # "object" => m \notin DOMAIN new.lists
      /\ m \in DOMAIN new.lists => IsSettings(new.lists[m])
  BY DEF IsLayer
<1>3. /\ old.policy # "object" => DOMAIN old.lists = {}
      /\ m \in DOMAIN old.lists => IsMerged(old.lists[m])
  BY DEF IsRaw
<1> HIDE DEF raw, over
<1>4. CASE new.policy = "absent"
  <2>1. IgnoredIn(new) = {}
    BY <1>2, <1>4 DEF IgnoredIn
  <2>2. IsRaw(raw)
    BY <1>1, <1>3, <1>4 DEF IsRaw
  <2>3. \A r : InForce(old, r) => InForce(raw, r)
    BY <1>1, <1>4 DEF InForce
  <2> QED
    BY <2>1, <2>2, <2>3 DEF raw
<1>5. CASE new.policy = "no"
  <2>1. IgnoredIn(new) = {} /\ TurnsOff(new)
    BY <1>2, <1>5 DEF IgnoredIn, TurnsOff
  <2>2. IsRaw(raw)
    BY <1>1, <1>5, NoRules DEF IsRaw
  <2> QED
    BY <2>1, <2>2 DEF raw, Overridden
<1>6. CASE new.policy \in {"yes", "object"}
  <2>1. raw.policy = "object" /\ raw.lists = MergeLists(over.lists, new.lists)
    BY <1>1, <1>6
  <2>2. m \in DOMAIN over.lists => m \in DOMAIN old.lists /\ over.lists = old.lists /\ IsMerged(over.lists[m])
    BY <1>3, NoRules DEF over, NoLayer
  <2>3. \A r : InForce(old, r) => over = old /\ m \in DOMAIN over.lists
    BY DEF InForce, over
  <2>4. DOMAIN raw.lists = DOMAIN over.lists \cup DOMAIN new.lists
    BY <2>1 DEF MergeLists
  <2>5. m \in DOMAIN raw.lists =>
          raw.lists[m] = IF m \notin DOMAIN new.lists THEN over.lists[m]
                         ELSE IF m \notin DOMAIN over.lists THEN Object(new.lists[m])
                         ELSE MergeSettings(Object(over.lists[m]), Object(new.lists[m]))
    BY <2>1, <2>4 DEF MergeLists
  <2>6. CASE m \notin DOMAIN new.lists
    <3>1. IgnoredIn(new) = {}
      BY <2>6 DEF IgnoredIn
    <3>2. m \in DOMAIN raw.lists => raw.lists[m] = over.lists[m] /\ IsMerged(raw.lists[m])
      BY <2>2, <2>4, <2>5, <2>6
    <3>3. IsRaw(raw)
      BY <1>1, <2>1, <3>2 DEF IsRaw
    <3>4. \A r : InForce(old, r) => InForce(raw, r)
      BY <2>1, <2>3, <2>4, <3>2 DEF InForce
    <3> QED
      BY <3>1, <3>3, <3>4 DEF raw
  <2>7. CASE m \in DOMAIN new.lists /\ m \notin DOMAIN over.lists
    <3> DEFINE s == new.lists[m]
    <3>1. IsSettings(s) /\ raw.lists[m] = Object(s) /\ m \in DOMAIN raw.lists
      BY <1>2, <2>4, <2>5, <2>7
    <3>2. IgnoredIn(new) = ToSet(s.ignore)
      BY <2>7 DEF IgnoredIn
    <3> HIDE DEF s
    <3>3. /\ IsMerged(Object(s))
          /\ \A r \in ToSet(s.ignore) : Object(s).kind = "object" /\ r \in ToSet(Object(s).ignore)
      <4>1. CASE s.kind = "yes"
        BY <3>1, <4>1, NoRules DEF IsSettings, IsMerged, Object, NoSettings
      <4>2. CASE s.kind # "yes"
        BY <3>1, <4>2, NoRules DEF IsSettings, IsMerged, Object
      <4> QED
        BY <4>1, <4>2
    <3>4. IsRaw(raw)
      BY <1>1, <2>1, <3>1, <3>3 DEF IsRaw
    <3>5. \A r \in IgnoredIn(new) : InForce(raw, r)
      BY <2>1, <3>1, <3>2, <3>3 DEF InForce
    <3>6. \A r : ~InForce(old, r)
      BY <2>3, <2>7
    <3> QED
      BY <3>4, <3>5, <3>6 DEF raw
  <2>8. CASE m \in DOMAIN new.lists /\ m \in DOMAIN over.lists
    <3> DEFINE s == new.lists[m]
               o == over.lists[m]
               both == MergeSettings(Object(o), Object(s))
    <3>1. IsSettings(s) /\ IsMerged(o) /\ raw.lists[m] = both /\ m \in DOMAIN raw.lists
      BY <1>2, <2>2, <2>4, <2>5, <2>8
    <3>2. IgnoredIn(new) = ToSet(s.ignore) /\ (s.kind = "no" => TurnsOff(new))
      BY <2>8 DEF IgnoredIn, TurnsOff
    <3>3. \A r : InForce(old, r) => o.kind = "object" /\ r \in ToSet(o.ignore)
      BY <2>3 DEF InForce
    <3> HIDE DEF s, o
    <3>4. /\ IsMerged(both)
          /\ \A r \in ToSet(s.ignore) : both.kind = "object" /\ r \in ToSet(both.ignore)
          /\ o.kind = "object" /\ s.kind # "no" =>
               /\ both.kind = "object"
               /\ \A r \in ToSet(o.ignore) :
                    r \in ToSet(both.ignore) \/ \E q \in ToSet(s.ignore) : SameKey(r, q)
      BY <3>1, MergeSettingsKeeps
    <3> HIDE DEF both
    <3>5. IsRaw(raw)
      BY <1>1, <2>1, <3>1, <3>4 DEF IsRaw
    <3>6. \A r \in IgnoredIn(new) : InForce(raw, r)
      BY <2>1, <3>1, <3>2, <3>4 DEF InForce
    <3>7. \A r : InForce(old, r) => InForce(raw, r) \/ Overridden(new, r)
      BY <2>1, <3>1, <3>2, <3>3, <3>4 DEF InForce, Overridden
    <3> QED
      BY <3>5, <3>6, <3>7 DEF raw
  <2> QED
    BY <2>6, <2>7, <2>8
<1> QED
  BY <1>2, <1>4, <1>5, <1>6

\* What the recursive function of Merged computes, up to n.
MergesLayers(f, layers, n) ==
  f = [i \in 0 .. n |-> IF i = 0 THEN DefaultLayer ELSE MergeLayer(f[i - 1], layers[i])]

\* It exists.
LEMMA MergesLayersExists ==
  ASSUME NEW layers, NEW n \in Nat
  PROVE  \E f : MergesLayers(f, layers, n)
<1> DEFINE T == {k \in Nat : ~\E f : MergesLayers(f, layers, k)}
<1> SUFFICES ASSUME T # {} PROVE FALSE
  OBVIOUS
<1>1. PICK k \in T : \A j \in T : k <= j
  BY LeastNumber
<1>2. CASE k = 0
  <2>1. MergesLayers([i \in 0 .. 0 |-> DefaultLayer], layers, 0)
    BY DEF MergesLayers
  <2> QED
    BY <2>1, <1>2
<1>3. CASE k > 0
  <2>1. k - 1 \in Nat /\ k - 1 \notin T
    BY <1>1, <1>3
  <2>2. PICK f : MergesLayers(f, layers, k - 1)
    BY <2>1
  <2> DEFINE g == [i \in 0 .. k |-> IF i < k THEN f[i] ELSE MergeLayer(f[k - 1], layers[k])]
             h == [i \in 0 .. k |->
                     IF i = 0 THEN DefaultLayer ELSE MergeLayer(g[i - 1], layers[i])]
  <2>3. \A i \in 0 .. k - 1 : g[i] = f[i]
    BY <1>3
  <2>4. ASSUME NEW i \in 0 .. k
        PROVE  g[i] = h[i]
    <3>1. CASE i = k
      BY <3>1, <1>3, <2>3
    <3>2. CASE i < k
      <4>1. i \in 0 .. k - 1 /\ (i # 0 => i - 1 \in 0 .. k - 1)
        BY <3>2
      <4>2. f[i] = IF i = 0 THEN DefaultLayer ELSE MergeLayer(f[i - 1], layers[i])
        BY <4>1, <2>2 DEF MergesLayers
      <4> QED
        BY <4>1, <4>2, <2>3
    <3> QED
      BY <3>1, <3>2
  <2>5. DOMAIN g = 0 .. k /\ DOMAIN h = 0 .. k
    OBVIOUS
  <2>6. g = h
    BY <2>4, <2>5
  <2>7. MergesLayers(g, layers, k)
    BY <2>6 DEF MergesLayers
  <2> QED
    BY <2>7
<1> QED
  BY <1>1, <1>2, <1>3

\* A rule of any layer is in force in the end, unless a later layer overrides it.
LEMMA MergedKeeps ==
  ASSUME NEW layers, Len(layers) \in Nat,
         \A k \in 1 .. Len(layers) : IsLayer(layers[k]),
         NEW k \in 1 .. Len(layers), NEW r \in IgnoredIn(layers[k])
  PROVE  InForce(Merged(layers), r) \/ \E j \in k + 1 .. Len(layers) : Overridden(layers[j], r)
<1> DEFINE f == CHOOSE g : MergesLayers(g, layers, Len(layers))
<1>1. MergesLayers(f, layers, Len(layers))
  BY MergesLayersExists
<1>2. Merged(layers) = f[Len(layers)]
  BY DEF Merged, MergesLayers
<1> HIDE DEF f
<1>3. \A i \in 0 .. Len(layers) :
        f[i] = IF i = 0 THEN DefaultLayer ELSE MergeLayer(f[i - 1], layers[i])
  BY <1>1 DEF MergesLayers
<1>4. IsRaw(DefaultLayer)
  BY NoRules DEF IsRaw, DefaultLayer, NoLayer
<1> DEFINE Kept(i) ==
             /\ IsRaw(f[i])
             /\ i >= k => InForce(f[i], r) \/ \E j \in k + 1 .. i : Overridden(layers[j], r)
           T == {i \in 0 .. Len(layers) : ~Kept(i)}
<1>5. T = {}
  <2> SUFFICES ASSUME T # {} PROVE FALSE
    OBVIOUS
  <2>1. T \in SUBSET Nat
    OBVIOUS
  <2>2. PICK i \in T : \A j \in T : i <= j
    BY <2>1, LeastNumber
  <2>3. CASE i = 0
    BY <2>2, <2>3, <1>3, <1>4
  <2>4. CASE i # 0
    <3>1. i \in 1 .. Len(layers) /\ i - 1 \in 0 .. Len(layers) /\ i - 1 \notin T
      BY <2>2, <2>4
    <3>2. Kept(i - 1)
      BY <3>1
    <3>3. f[i] = MergeLayer(f[i - 1], layers[i]) /\ IsLayer(layers[i]) /\ IsRaw(f[i - 1])
      BY <1>3, <2>4, <3>1, <3>2
    <3>4. /\ IsRaw(f[i])
          /\ \A q \in IgnoredIn(layers[i]) : InForce(f[i], q)
          /\ \A q : InForce(f[i - 1], q) => InForce(f[i], q) \/ Overridden(layers[i], q)
      <4> HIDE DEF Kept, T
      <4> QED
        BY <3>3, MergeLayerKeeps
    <3>5. CASE i < k
      BY <3>1, <3>4, <3>5, <2>2
    <3>6. CASE i = k
      BY <3>1, <3>4, <3>6, <2>2
    <3>7. CASE i > k
      <4>1. InForce(f[i - 1], r) \/ \E j \in k + 1 .. i - 1 : Overridden(layers[j], r)
        BY <3>1, <3>2, <3>7
      <4>2. InForce(f[i], r) \/ \E j \in k + 1 .. i : Overridden(layers[j], r)
        BY <3>1, <3>4, <3>7, <4>1
      <4>3. Kept(i)
        BY <3>4, <4>2
      <4> QED
        BY <4>3, <2>2
    <3> QED
      BY <3>1, <3>5, <3>6, <3>7
  <2> QED
    BY <2>3, <2>4
<1>6. Kept(Len(layers))
  BY <1>5
<1> QED
  BY <1>2, <1>6

\* What is in force in the merged configuration is in the policy, unless the
\* environment turns the policy off.
LEMMA InForceInPolicy ==
  ASSUME NEW layers, NEW env, NEW no_blocking, NEW r,
         InForce(Merged(layers), r), env.policy # "no"
  PROVE  r \in ToSet(PolicyOf(layers, env, no_blocking).malware.ignore)
<1> DEFINE raw == Merged(layers)
<1>1. raw.policy = "object" /\ "malware" \in DOMAIN raw.lists
  BY DEF InForce
<1>2. Effective(raw, env) = "object"
  BY <1>1 DEF Effective
<1>3. PolicyOf(layers, env, no_blocking).malware.ignore = raw.lists["malware"].ignore
  BY <1>1, <1>2 DEF PolicyOf
<1> QED
  BY <1>3 DEF InForce

(***************************************************************************)
(* The filter lists.                                                       *)
(***************************************************************************)

AListIsUnknown(sources, policy) ==
  \E k \in DOMAIN sources : sources[k].reachable /\ sources[k].lists \cap policy.custom # {}

InstallLists(policy, scope) == IF scope = "update" THEN ActiveLists(policy, "install") ELSE {}

ListsIn(policy, scope) == ActiveLists(policy, scope) \cup InstallLists(policy, scope)

\* The entries that concern a pool.
EntriesFor(arena, list, sources, policy, scope) ==
  EntriesOf(sources, ConstraintsByName(arena, {id \in ToSet(list) : Filterable(arena[id])}),
            ListsIn(policy, scope))

\* Those a package is refused for.
HitsOf(arena, list, id, locked, locked_repository, sources, policy, scope) ==
  IF ~Filterable(arena[id]) THEN {}
  ELSE MatchingEntries(arena[id], EntriesFor(arena, list, sources, policy, scope),
         IF scope = "update" /\ LockedEquivalent(arena, id, locked, locked_repository)
         THEN InstallLists(policy, scope) ELSE ActiveLists(policy, scope), policy)

\* Those that are refused.
OutOf(arena, list, locked, locked_repository, sources, policy, scope) ==
  {id \in ToSet(list) :
     HitsOf(arena, list, id, locked, locked_repository, sources, policy, scope) # {}}

NamesOf(arena, out) == UNION {{<<n, arena[id].version>> : n \in Names(arena[id], FALSE)} : id \in out}

\* What the filter does, with these names.
LEMMA ListFilterCases ==
  ASSUME NEW arena, NEW list, NEW locked, NEW locked_repository, NEW sources, NEW policy, NEW scope
  PROVE  LET result == FilterListFilter(arena, list, locked, locked_repository, sources, policy, scope)
             out == OutOf(arena, list, locked, locked_repository, sources, policy, scope)
         IN IF AListIsUnknown(sources, policy)
            THEN result.failed /\ result.kept = list /\ result.removed = {}
            ELSE IF ListsIn(policy, scope) = {}
            THEN result.kept = list /\ result.removed = {}
            ELSE result.kept = Selected(list, ToSet(list) \ out) /\ result.removed = NamesOf(arena, out)
BY DEF FilterListFilter, AListIsUnknown, ListsIn, InstallLists, EntriesFor, HitsOf, OutOf, NamesOf

\* What it removes it has an entry for; what has one it removes.
LEMMA ListFilterDecides ==
  ASSUME NEW S, NEW arena, NEW list \in Seq(S), NEW locked, NEW locked_repository,
         NEW sources, NEW policy, NEW scope
  PROVE  LET result == FilterListFilter(arena, list, locked, locked_repository, sources, policy, scope)
             out == OutOf(arena, list, locked, locked_repository, sources, policy, scope)
         IN /\ result.kept \in Seq(S)
            /\ ToSet(result.kept) \subseteq ToSet(list)
            /\ ~result.failed => ~AListIsUnknown(sources, policy)
            /\ ~result.failed /\ ListsIn(policy, scope) # {} => ToSet(result.kept) = ToSet(list) \ out
            /\ ToSet(list) \ ToSet(result.kept) \subseteq out
            /\ ~AListIsUnknown(sources, policy) /\ ListsIn(policy, scope) # {} =>
                 result.removed = NamesOf(arena, out)
<1> DEFINE result == FilterListFilter(arena, list, locked, locked_repository, sources, policy, scope)
           out == OutOf(arena, list, locked, locked_repository, sources, policy, scope)
           rest == Selected(list, ToSet(list) \ out)
<1>1. IF AListIsUnknown(sources, policy)
      THEN result.failed /\ result.kept = list /\ result.removed = {}
      ELSE IF ListsIn(policy, scope) = {}
      THEN result.kept = list /\ result.removed = {}
      ELSE result.kept = rest /\ result.removed = NamesOf(arena, out)
  BY ListFilterCases, Zenon
<1>2. rest \in Seq(S) /\ ToSet(rest) = ToSet(list) \cap (ToSet(list) \ out)
  BY SelectedSet
<1> HIDE DEF rest, result, out
<1>3. /\ result.kept \in Seq(S)
      /\ ToSet(result.kept) \subseteq ToSet(list)
      /\ ~result.failed => ~AListIsUnknown(sources, policy)
      /\ ~result.failed /\ ListsIn(policy, scope) # {} => ToSet(result.kept) = ToSet(list) \ out
      /\ ToSet(list) \ ToSet(result.kept) \subseteq out
      /\ ~AListIsUnknown(sources, policy) /\ ListsIn(policy, scope) # {} =>
           result.removed = NamesOf(arena, out)
  BY <1>1, <1>2
<1> QED
  BY <1>3 DEF result, out

\* An install judges only what is in the lock.
LEMMA InstallRemoves ==
  ASSUME NEW S, NEW arena, NEW lock \in Seq(S), NEW sources, NEW policy,
         ~AListIsUnknown(sources, policy), ListsIn(policy, "install") # {}
  PROVE  FilterListFilter(arena, lock, {}, {}, sources, policy, "install").removed
           = NamesOf(arena, OutOf(arena, lock, {}, {}, sources, policy, "install"))
<1>1. \A none : FilterListFilter(arena, lock, none, none, sources, policy, "install").removed
           = NamesOf(arena, OutOf(arena, lock, none, none, sources, policy, "install"))
  BY ListFilterDecides
<1> QED
  BY <1>1, Zenon

\* A smaller pool concerns no more entries.
LEMMA FewerEntries ==
  ASSUME NEW arena, NEW list, NEW more, ToSet(list) \subseteq ToSet(more),
         NEW sources, NEW policy, NEW scope, NEW wider,
         ListsIn(policy, scope) \subseteq ListsIn(policy, wider)
  PROVE  EntriesFor(arena, list, sources, policy, scope)
           \subseteq EntriesFor(arena, more, sources, policy, wider)
<1> DEFINE map == ConstraintsByName(arena, {id \in ToSet(list) : Filterable(arena[id])})
           whole == ConstraintsByName(arena, {id \in ToSet(more) : Filterable(arena[id])})
<1>1. map \subseteq whole
  BY DEF ConstraintsByName
<1> HIDE DEF map, whole
<1>2. \A name, versions : Concerned(map, name, versions) => Concerned(whole, name, versions)
  BY <1>1 DEF Concerned
<1>3. EntriesOf(sources, map, ListsIn(policy, scope))
        \subseteq EntriesOf(sources, whole, ListsIn(policy, wider))
  BY <1>2 DEF EntriesOf
<1> QED
  BY <1>3 DEF EntriesFor, map, whole

LEMMA MalwareBlocksEverywhere ==
  ASSUME NEW policy, policy.malware.scope # "install", MalwareBlocks(policy, "install")
  PROVE  MalwareBlocks(policy, "update")
BY DEF MalwareBlocks

\* What an update lets through an install accepts.
LEMMA InstallAccepts ==
  ASSUME NEW S, NEW arena, NEW list \in Seq(S), NEW locked, NEW locked_repository, NEW sources,
         NEW policy, policy.malware.scope # "install",
         ~FilterListFilter(arena, list, locked, locked_repository, sources, policy, "update").failed,
         NEW lock \in Seq(S),
         ToSet(lock) \subseteq
           ToSet(FilterListFilter(arena, list, locked, locked_repository, sources, policy, "update").kept)
  PROVE  InstallPolicyProblems(arena, lock, sources, policy).refused = {}
<1> DEFINE update == FilterListFilter(arena, list, locked, locked_repository, sources, policy, "update")
           install == FilterListFilter(arena, lock, {}, {}, sources, policy, "install")
           out == OutOf(arena, lock, {}, {}, sources, policy, "install")
           gone == OutOf(arena, list, locked, locked_repository, sources, policy, "update")
<1>1. CASE ~MalwareBlocks(policy, "install")
  BY <1>1 DEF InstallPolicyProblems
<1>2. CASE MalwareBlocks(policy, "install")
  <2>1. MalwareBlocks(policy, "update")
    BY <1>2, MalwareBlocksEverywhere
  <2>2. /\ ActiveLists(policy, "update") = {"malware"} /\ ActiveLists(policy, "install") = {"malware"}
        /\ InstallLists(policy, "update") = {"malware"}
        /\ ListsIn(policy, "update") = {"malware"} /\ ListsIn(policy, "install") = {"malware"}
    BY <1>2, <2>1 DEF ActiveLists, InstallLists, ListsIn
  <2>3. /\ ToSet(update.kept) \subseteq ToSet(list)
        /\ ~AListIsUnknown(sources, policy)
        /\ ToSet(update.kept) = ToSet(list) \ gone
    <3> HIDE DEF update, gone
    <3> QED
      BY <2>2, ListFilterDecides DEF update, gone
  <2>4. install.removed = NamesOf(arena, out)
    <3> HIDE DEF install, out
    <3> QED
      BY <2>2, <2>3, InstallRemoves DEF install, out
  <2>5. ASSUME NEW id \in ToSet(lock)
        PROVE  HitsOf(arena, lock, id, {}, {}, sources, policy, "install") = {}
    <3>1. HitsOf(arena, list, id, locked, locked_repository, sources, policy, "update") = {}
      BY <2>3 DEF OutOf
    <3>2. CASE ~Filterable(arena[id])
      BY <3>2 DEF HitsOf
    <3>3. CASE Filterable(arena[id])
      <4>1. HitsOf(arena, list, id, locked, locked_repository, sources, policy, "update") =
              MatchingEntries(arena[id], EntriesFor(arena, list, sources, policy, "update"),
                              {"malware"}, policy)
        BY <3>3, <2>2 DEF HitsOf
      <4>2. HitsOf(arena, lock, id, {}, {}, sources, policy, "install") =
              MatchingEntries(arena[id], EntriesFor(arena, lock, sources, policy, "install"),
                              {"malware"}, policy)
        BY <3>3, <2>2 DEF HitsOf
      <4>3. EntriesFor(arena, lock, sources, policy, "install")
              \subseteq EntriesFor(arena, list, sources, policy, "update")
        BY <2>2, <2>3, FewerEntries
      <4> QED
        BY <3>1, <4>1, <4>2, <4>3 DEF MatchingEntries
    <3> QED
      BY <3>2, <3>3
  <2>6. out = {}
    BY <2>5 DEF OutOf
  <2>7. install.removed = {}
    BY <2>4, <2>6 DEF NamesOf
  <2>8. InstallPolicyProblems(arena, lock, sources, policy).refused =
          {id \in ToSet(lock) : <<arena[id].name, arena[id].version>> \in install.removed}
    BY <1>2 DEF InstallPolicyProblems
  <2> QED
    BY <2>7, <2>8
<1> QED
  BY <1>1, <1>2

\* What an update gives up of the lock an install refuses.
LEMMA LockJudged ==
  ASSUME NEW S, NEW arena, NEW list \in Seq(S), NEW locked, NEW locked_repository, NEW sources,
         NEW policy,
         ~FilterListFilter(arena, list, locked, locked_repository, sources, policy, "update").failed,
         NEW id \in ToSet(list) \
           ToSet(FilterListFilter(arena, list, locked, locked_repository, sources, policy, "update").kept),
         ~arena[id].root_alias, arena[id].replaces = <<>>,
         \E l \in locked_repository :
            arena[l].name = arena[id].name /\ arena[l].version = arena[id].version,
         NEW lock \in Seq(S), ToSet(lock) = {id}
  PROVE  id \in InstallPolicyProblems(arena, lock, sources, policy).refused
<1> DEFINE p == arena[id]
           install == FilterListFilter(arena, lock, {}, {}, sources, policy, "install")
           out == OutOf(arena, lock, {}, {}, sources, policy, "install")
<1>1. /\ HitsOf(arena, list, id, locked, locked_repository, sources, policy, "update") # {}
      /\ ~AListIsUnknown(sources, policy)
  <2> DEFINE update == FilterListFilter(arena, list, locked, locked_repository, sources, policy, "update")
             gone == OutOf(arena, list, locked, locked_repository, sources, policy, "update")
  <2>1. ~AListIsUnknown(sources, policy) /\ ToSet(list) \ ToSet(update.kept) \subseteq gone
    BY ListFilterDecides
  <2> QED
    BY <2>1 DEF OutOf
<1>2. Filterable(p)
  BY <1>1 DEF HitsOf
<1>3. LockedEquivalent(arena, id, locked, locked_repository)
  BY DEF LockedEquivalent
<1>4. HitsOf(arena, list, id, locked, locked_repository, sources, policy, "update") =
        MatchingEntries(p, EntriesFor(arena, list, sources, policy, "update"),
                        ActiveLists(policy, "install"), policy)
  BY <1>2, <1>3 DEF HitsOf, InstallLists
<1>5. PICK e : e \in MatchingEntries(p, EntriesFor(arena, list, sources, policy, "update"),
                                     ActiveLists(policy, "install"), policy)
  BY <1>1, <1>4
<1>6. /\ e \in EntriesFor(arena, list, sources, policy, "update")
      /\ e.list \in ActiveLists(policy, "install")
      /\ e.name \in Names(p, FALSE) /\ p.version \in e.versions
  BY <1>5 DEF MatchingEntries
<1>7. MalwareBlocks(policy, "install") /\ ActiveLists(policy, "install") # {}
  BY <1>6 DEF ActiveLists
<1>8. ListsIn(policy, "install") = ActiveLists(policy, "install")
  BY DEF ListsIn, InstallLists
<1>9. Names(p, FALSE) = {p.name}
  BY NoRules DEF Names, TargetsOf
<1>11. <<p.name, p.version>> \in ConstraintsByName(arena, {k \in ToSet(lock) : Filterable(arena[k])})
  BY <1>2 DEF ConstraintsByName
<1>12. e \in EntriesFor(arena, lock, sources, policy, "install")
  <2> DEFINE map == ConstraintsByName(arena, {k \in ToSet(lock) : Filterable(arena[k])})
             all == ConstraintsByName(arena, {k \in ToSet(list) : Filterable(arena[k])})
  <2>1. Concerned(map, e.name, e.versions)
    <3> HIDE DEF map
    <3> QED
      BY <1>6, <1>9, <1>11 DEF Concerned, map
  <2> HIDE DEF map, all
  <2>2. e \in EntriesOf(sources, all, ListsIn(policy, "update"))
    BY <1>6 DEF EntriesFor, all
  <2>3. e \in EntriesOf(sources, map, ListsIn(policy, "install"))
    BY <2>1, <2>2, <1>6, <1>8 DEF EntriesOf
  <2> QED
    BY <2>3 DEF EntriesFor, map
<1>13. e \in HitsOf(arena, lock, id, {}, {}, sources, policy, "install")
  BY <1>2, <1>5, <1>12 DEF HitsOf, MatchingEntries
<1>14. id \in out
  BY <1>13 DEF OutOf
<1>15. install.removed = NamesOf(arena, out)
  <2> HIDE DEF install, out
  <2> QED
    BY <1>1, <1>7, <1>8, InstallRemoves DEF install, out
<1>16. <<p.name, p.version>> \in install.removed
  <2> HIDE DEF out, install
  <2>1. <<p.name, p.version>> \in {<<n, p.version>> : n \in Names(p, FALSE)}
    BY <1>9
  <2>2. {<<n, p.version>> : n \in Names(p, FALSE)} \subseteq NamesOf(arena, out)
    BY <1>14, Zenon DEF NamesOf
  <2> QED
    BY <2>1, <2>2, <1>15
<1>17. InstallPolicyProblems(arena, lock, sources, policy).refused =
         {k \in ToSet(lock) : <<arena[k].name, arena[k].version>> \in install.removed}
  BY <1>7 DEF InstallPolicyProblems
<1> QED
  BY <1>16, <1>17

(***************************************************************************)
(* The advisories.                                                         *)
(***************************************************************************)

IgnoredIds(policy) == OnBlock(policy.advisories.ids) \cup OnBlock(policy.advisories.ignore)

IgnoredSeverities(policy) == OnBlock(policy.advisories.severities)

\* What the sources are asked for.
AskedOf(arena, list, locked) ==
  ConstraintsByName(arena, {id \in ToSet(list) \ locked : Filterable(arena[id])})

ActiveIn(found, policy) ==
  {a \in found : IsActive(a, IgnoredIds(policy), IgnoredSeverities(policy))}

Abandoned(policy, p) ==
  policy.abandoned.block /\ p.abandoned /\ p.name \notin OnBlock(policy.abandoned.ignore)

\* What the advisories that were found leave of a pool.
Unharmed(arena, list, found, policy) ==
  {id \in ToSet(list) : /\ ~Abandoned(policy, arena[id])
                        /\ MatchingAdvisories(arena[id], ActiveIn(found, policy)) = {}}

\* The filter asks for all there is to know when a rule could name it.
LEMMA SecurityCases ==
  ASSUME NEW arena, NEW list, NEW locked, NEW sources, NEW policy, policy.advisories.block
  PROVE  \E partial \in BOOLEAN :
           LET result == SecurityAdvisoryFilter(arena, list, locked, sources, policy)
               found == Advisories(sources, AskedOf(arena, list, locked), partial,
                                   "update" \in policy.unreachable)
           IN /\ result.failed = found.failed
              /\ result.kept = Selected(list, Unharmed(arena, list, found.all, policy))
              /\ partial /\ ~found.failed => ~NeedsCompleteAdvisoryLoad(found.all, IgnoredIds(policy))
<1> DEFINE Load(partial) == Advisories(sources, AskedOf(arena, list, locked), partial,
                                       "update" \in policy.unreachable)
           result == SecurityAdvisoryFilter(arena, list, locked, sources, policy)
           again == ~Load(TRUE).failed /\ NeedsCompleteAdvisoryLoad(Load(TRUE).all, IgnoredIds(policy))
<1>1. CASE again
  <2>1. /\ result.failed = Load(FALSE).failed
        /\ result.kept = Selected(list, Unharmed(arena, list, Load(FALSE).all, policy))
    BY <1>1 DEF SecurityAdvisoryFilter, AskedOf, IgnoredIds, IgnoredSeverities, ActiveIn, Abandoned, Unharmed
  <2> QED
    BY <2>1
<1>2. CASE ~again
  <2>1. /\ result.failed = Load(TRUE).failed
        /\ result.kept = Selected(list, Unharmed(arena, list, Load(TRUE).all, policy))
    BY <1>2 DEF SecurityAdvisoryFilter, AskedOf, IgnoredIds, IgnoredSeverities, ActiveIn, Abandoned, Unharmed
  <2> QED
    BY <1>2, <2>1
<1> QED
  BY <1>1, <1>2

\* An advisory and what a source says of it.
SameAdvisory(a, c) ==
  /\ c.name = a.name /\ c.affected = a.affected /\ c.id = a.id
  /\ c.severity = a.severity /\ c.others = a.others

IsSource(source) ==
  /\ source.reachable \in BOOLEAN /\ source.api \in BOOLEAN
  /\ source.metadata \in {"no", "partial", "complete"}
  /\ \A a \in source.advisories : IsAdvisory(a)

Answers(source) == source.reachable /\ (source.metadata # "no" \/ source.api)

\* What one source answers is what it has, and a partial advisory comes only
\* when partial ones were asked for, or from a source that cannot complete it.
LEMMA AdvisoriesOfSource ==
  ASSUME NEW source, IsSource(source), NEW map, NEW partial \in BOOLEAN
  PROVE  /\ \A a \in source.advisories :
              /\ Concerned(map, a.name, a.affected) /\ (source.metadata # "no" \/ source.api)
              => \E c \in AdvisoriesOf(source, map, partial) : SameAdvisory(a, c)
         /\ \A c \in AdvisoriesOf(source, map, partial) :
              /\ source.metadata # "no" \/ source.api
              /\ c.complete \in BOOLEAN
              /\ \E a \in source.advisories : SameAdvisory(a, c)
              /\ ~c.complete /\ ~partial => CannotComplete(source, map, partial)
<1> DEFINE complete == ~FromMetadata(source, partial) \/ source.metadata = "complete"
           With(a) == [a EXCEPT !.complete = complete]
           silent == source.metadata = "no" /\ ~source.api
<1>0. complete \in BOOLEAN
  OBVIOUS
<1>1. AdvisoriesOf(source, map, partial) =
        IF silent THEN {}
        ELSE {[a EXCEPT !.complete = complete] :
                a \in {e \in source.advisories : Concerned(map, e.name, e.affected)}}
  BY DEF AdvisoriesOf
<1>2. ~complete /\ ~partial => source.metadata = "partial" /\ ~source.api
  BY DEF IsSource, FromMetadata
<1> HIDE DEF complete
<1>3. ASSUME NEW a \in source.advisories
      PROVE  SameAdvisory(a, With(a)) /\ With(a).complete = complete
  BY DEF IsSource, IsAdvisory, SameAdvisory
<1>4. ASSUME NEW a \in source.advisories, Concerned(map, a.name, a.affected), ~silent
      PROVE  \E c \in AdvisoriesOf(source, map, partial) : SameAdvisory(a, c)
  <2>1. With(a) \in AdvisoriesOf(source, map, partial)
    BY <1>1, <1>4
  <2> QED
    BY <1>3, <2>1
<1>5. ASSUME NEW c \in AdvisoriesOf(source, map, partial)
      PROVE  /\ ~silent
             /\ c.complete \in BOOLEAN
             /\ \E a \in source.advisories : SameAdvisory(a, c)
             /\ ~c.complete /\ ~partial => CannotComplete(source, map, partial)
  <2>1. ~silent
    BY <1>1
  <2>2. PICK a \in {e \in source.advisories : Concerned(map, e.name, e.affected)} : c = With(a)
    BY <1>1, <2>1
  <2>3. SameAdvisory(a, c) /\ c.complete = complete
    BY <1>3, <2>2
  <2>4. a.name \in AskedNames(map)
    BY <2>2 DEF Concerned, AskedNames
  <2> QED
    BY <1>0, <1>2, <2>1, <2>2, <2>3, <2>4 DEF CannotComplete
<1> QED
  BY <1>4, <1>5

\* What is found is what the sources know, and what is partial no rule names
\* but by the id of the advisory.
LEMMA AdvisoriesFound ==
  ASSUME NEW sources, \A k \in DOMAIN sources : IsSource(sources[k]),
         NEW map, NEW partial \in BOOLEAN, NEW ignore, NEW ids,
         ~Advisories(sources, map, partial, ignore).failed,
         partial => ~NeedsCompleteAdvisoryLoad(Advisories(sources, map, partial, ignore).all, ids)
  PROVE  LET all == Advisories(sources, map, partial, ignore).all IN
         /\ \A k \in DOMAIN sources : \A a \in sources[k].advisories :
              Answers(sources[k]) /\ Concerned(map, a.name, a.affected)
              => \E c \in all : SameAdvisory(a, c)
         /\ \A c \in all :
              /\ \E k \in DOMAIN sources : /\ Answers(sources[k])
                                           /\ \E a \in sources[k].advisories : SameAdvisory(a, c)
              /\ c.complete \in BOOLEAN
              /\ ~c.complete => ids \subseteq PackagistIds
<1> DEFINE found == Advisories(sources, map, partial, ignore)
           up == {k \in DOMAIN sources : sources[k].reachable}
<1>1. /\ found.all = UNION {AdvisoriesOf(sources[k], map, partial) : k \in up}
      /\ \A k \in up : ~CannotComplete(sources[k], map, partial)
  <2>1. up = DOMAIN sources \ {k \in DOMAIN sources : ~sources[k].reachable}
    OBVIOUS
  <2> QED
    BY <2>1 DEF Advisories
<1>2. partial => ~NeedsCompleteAdvisoryLoad(found.all, ids)
  OBVIOUS
<1> HIDE DEF found
<1>3. ASSUME NEW k \in DOMAIN sources, NEW a \in sources[k].advisories,
             Answers(sources[k]), Concerned(map, a.name, a.affected)
      PROVE  \E c \in found.all : SameAdvisory(a, c)
  <2>1. k \in up /\ (sources[k].metadata # "no" \/ sources[k].api)
    BY <1>3 DEF Answers
  <2>2. PICK c \in AdvisoriesOf(sources[k], map, partial) : SameAdvisory(a, c)
    BY <1>3, <2>1, AdvisoriesOfSource
  <2>3. c \in found.all
    BY <1>1, <2>1, <2>2
  <2> QED
    BY <2>2, <2>3
<1>4. ASSUME NEW c \in found.all
      PROVE  /\ \E k \in DOMAIN sources : /\ Answers(sources[k])
                                          /\ \E a \in sources[k].advisories : SameAdvisory(a, c)
             /\ c.complete \in BOOLEAN
             /\ ~c.complete => ids \subseteq PackagistIds
  <2>1. PICK k \in up : c \in AdvisoriesOf(sources[k], map, partial)
    BY <1>1
  <2>2. /\ sources[k].metadata # "no" \/ sources[k].api
        /\ c.complete \in BOOLEAN
        /\ \E a \in sources[k].advisories : SameAdvisory(a, c)
        /\ ~c.complete /\ ~partial => CannotComplete(sources[k], map, partial)
    BY <2>1, AdvisoriesOfSource
  <2>3. Answers(sources[k])
    BY <2>1, <2>2 DEF Answers
  <2>4. ~c.complete => ids \subseteq PackagistIds
    BY <1>1, <1>2, <2>1, <2>2 DEF NeedsCompleteAdvisoryLoad
  <2> QED
    BY <2>1, <2>2, <2>3, <2>4
<1> QED
  BY <1>3, <1>4 DEF found

\* Whether the ignore rules let an advisory through, of what is known of it.
LEMMA ActiveOrIgnored ==
  ASSUME NEW policy, NEW a, NEW c, SameAdvisory(a, c), c.complete \in BOOLEAN
  PROVE  /\ ~IsActive(c, IgnoredIds(policy), IgnoredSeverities(policy)) => Ignored(policy, a)
         /\ /\ IsActive(c, IgnoredIds(policy), IgnoredSeverities(policy))
            /\ ~c.complete => IgnoredIds(policy) \cap a.others = {}
            => ~Ignored(policy, a) \/ a.severity \in IgnoredSeverities(policy)
<1>1. Ignored(policy, a) <=> \/ IgnoredIds(policy) \cap ({a.name, a.id} \cup a.others) # {}
                            \/ a.severity \in IgnoredSeverities(policy)
  BY DEF Ignored, IgnoredIds, IgnoredSeverities
<1>2. IsActive(c, IgnoredIds(policy), IgnoredSeverities(policy)) <=>
        /\ IgnoredIds(policy) \cap {a.name, a.id} = {}
        /\ c.complete => /\ a.severity \notin IgnoredSeverities(policy)
                         /\ IgnoredIds(policy) \cap a.others = {}
  BY DEF IsActive, SameAdvisory
<1> QED
  BY <1>1, <1>2

LEMMA SourcesOfInputs ==
  ASSUME x \in Inputs
  PROVE  \A k \in DOMAIN x.sources : IsSource(x.sources[k])
BY InputsAssumption DEF IsSource

\* What is known of a package, source by source.
LEMMA Known ==
  ASSUME NEW p, NEW a
  PROVE  a \in KnownOf(p) <=>
           /\ \E k \in DOMAIN x.sources : Answers(x.sources[k]) /\ a \in x.sources[k].advisories
           /\ p.stability # 20 /\ a.name \in Names(p, FALSE) /\ p.version \in a.affected
BY DEF KnownOf, Answers

\* The advisories decide about every package that the lock does not keep.
LEMMA AdvisoriesDecideOf ==
  ASSUME x \in Inputs, BuiltPool, NEW policy, policy.advisories.block,
         ~AdvisoriesFiltered(policy).failed, NEW id \in ToSet(b.packages) \ LockedIds
  PROVE  LET p == b.arena[id]
             rest == ToSet(AdvisoriesFiltered(policy).kept)
         IN /\ id \in rest => \A a \in KnownOf(p) :
                 a.name = p.name /\ ~p.root_alias /\ Filterable(p) => Ignored(policy, a)
            /\ id \notin rest => \/ p.abandoned /\ policy.abandoned.block
                               \/ \E a \in KnownOf(p) : \/ ~Ignored(policy, a)
                                                       \/ a.severity \in IgnoredSeverities(policy)
<1> DEFINE p == b.arena[id]
           map == AskedOf(b.arena, b.packages, LockedIds)
           result == AdvisoriesFiltered(policy)
           ids == IgnoredIds(policy)
<1>0. PICK ignore : ignore = ("update" \in policy.unreachable)
  OBVIOUS
<1> DEFINE Load(partial) == Advisories(x.sources, map, partial, ignore)
<1>1. PICK partial \in BOOLEAN :
        /\ result.failed = Load(partial).failed
        /\ result.kept = Selected(b.packages, Unharmed(b.arena, b.packages, Load(partial).all, policy))
        /\ partial /\ ~Load(partial).failed => ~NeedsCompleteAdvisoryLoad(Load(partial).all, ids)
  BY <1>0, SecurityCases DEF AdvisoriesFiltered
<1> DEFINE all == Load(partial).all
           unharmed == Unharmed(b.arena, b.packages, all, policy)
<1>2. /\ \A k \in DOMAIN x.sources : \A a \in x.sources[k].advisories :
           Answers(x.sources[k]) /\ Concerned(map, a.name, a.affected)
           => \E c \in all : SameAdvisory(a, c)
      /\ \A c \in all :
           /\ \E k \in DOMAIN x.sources : /\ Answers(x.sources[k])
                                          /\ \E a \in x.sources[k].advisories : SameAdvisory(a, c)
           /\ c.complete \in BOOLEAN
           /\ ~c.complete => ids \subseteq PackagistIds
  <2>1. \A k \in DOMAIN x.sources : IsSource(x.sources[k])
    BY SourcesOfInputs
  <2>2. ~Load(partial).failed /\ (partial => ~NeedsCompleteAdvisoryLoad(Load(partial).all, ids))
    BY <1>1
  <2> HIDE DEF map, ids
  <2> QED
    BY <2>1, <2>2, AdvisoriesFound
<1>3. /\ ToSet(result.kept) = ToSet(b.packages) \cap unharmed
      /\ b.packages \in Seq(DOMAIN b.arena)
  <2>1. b.packages \in Seq(DOMAIN b.arena)
    BY DEF BuiltPool
  <2>2. ToSet(Selected(b.packages, unharmed)) = ToSet(b.packages) \cap unharmed
    <3> HIDE DEF unharmed
    <3> QED
      BY <2>1, SelectedSet
  <2> QED
    BY <1>1, <2>1, <2>2
<1> HIDE DEF all
<1>4. id \in ToSet(result.kept) <=>
        /\ ~Abandoned(policy, p)
        /\ MatchingAdvisories(p, ActiveIn(all, policy)) = {}
  BY <1>3 DEF Unharmed
<1>5. ASSUME id \in ToSet(result.kept), NEW a \in KnownOf(p),
             a.name = p.name, ~p.root_alias, Filterable(p)
      PROVE  Ignored(policy, a)
  <2>1. PICK k \in DOMAIN x.sources : Answers(x.sources[k]) /\ a \in x.sources[k].advisories
    BY <1>5, Known
  <2>2. p.stability # 20 /\ p.name \in Names(p, FALSE) /\ p.version \in a.affected
    BY <1>5, Known
  <2>3. <<p.name, p.version>> \in map
    BY <1>5 DEF AskedOf, ConstraintsByName
  <2>4. Concerned(map, a.name, a.affected)
    <3> HIDE DEF map
    <3> QED
      BY <2>2, <2>3, <1>5 DEF Concerned
  <2>5. PICK c \in all : SameAdvisory(a, c)
    BY <1>2, <2>1, <2>4
  <2>6. c.name \in Names(p, FALSE) /\ p.version \in c.affected /\ c.complete \in BOOLEAN
    BY <1>2, <1>5, <2>2, <2>5 DEF SameAdvisory
  <2>7. c \notin ActiveIn(all, policy)
    BY <1>4, <1>5, <2>2, <2>6 DEF MatchingAdvisories
  <2>8. ~IsActive(c, IgnoredIds(policy), IgnoredSeverities(policy))
    BY <2>5, <2>7 DEF ActiveIn
  <2> QED
    BY <2>5, <2>6, <2>8, ActiveOrIgnored
<1>6. ASSUME id \notin ToSet(result.kept), ~(p.abandoned /\ policy.abandoned.block)
      PROVE  \E a \in KnownOf(p) : ~Ignored(policy, a) \/ a.severity \in IgnoredSeverities(policy)
  <2>1. PICK c : c \in MatchingAdvisories(p, ActiveIn(all, policy))
    BY <1>4, <1>6 DEF Abandoned
  <2>2. /\ p.stability # 20 /\ c \in all
        /\ IsActive(c, IgnoredIds(policy), IgnoredSeverities(policy))
        /\ c.name \in Names(p, FALSE) /\ p.version \in c.affected
    BY <2>1 DEF MatchingAdvisories, ActiveIn
  <2>3. PICK k \in DOMAIN x.sources : /\ Answers(x.sources[k])
                                      /\ \E a \in x.sources[k].advisories : SameAdvisory(a, c)
    BY <1>2, <2>2
  <2>4. PICK a \in x.sources[k].advisories : SameAdvisory(a, c)
    BY <2>3
  <2>5. a \in KnownOf(p)
    BY <2>2, <2>3, <2>4, Known DEF SameAdvisory
  <2>6. a.others \cap PackagistIds = {}
    BY <2>4, SourcesOfInputs DEF IsSource, IsAdvisory
  <2>7. c.complete \in BOOLEAN /\ (~c.complete => IgnoredIds(policy) \cap a.others = {})
    BY <1>2, <2>2, <2>6
  <2>8. ~Ignored(policy, a) \/ a.severity \in IgnoredSeverities(policy)
    BY <2>2, <2>4, <2>7, ActiveOrIgnored
  <2> QED
    BY <2>5, <2>8
<1> HIDE DEF result, p
<1> QED
  BY <1>5, <1>6 DEF result, p

(***************************************************************************)
(* The steps.                                                              *)
(***************************************************************************)

Phases == {"built", "advised", "filtered", "failed"}

FilterTyped == x \in Inputs /\ phase \in Phases /\ BuiltPool

\* What either filter leaves is some of the pool.
LEMMA FilterLeaves ==
  ASSUME BuiltPool, NEW policy
  PROVE  /\ AdvisoriesFiltered(policy).kept \in Seq(DOMAIN b.arena)
         /\ ListsFiltered(policy).kept \in Seq(DOMAIN b.arena)
         /\ ToSet(ListsFiltered(policy).kept) \subseteq ToSet(b.packages)
<1>1. b.packages \in Seq(DOMAIN b.arena)
  BY DEF BuiltPool
<1>2. AdvisoriesFiltered(policy).kept \in Seq(DOMAIN b.arena)
  <2>1. CASE policy.advisories.block
    <3>1. PICK kept_ids : AdvisoriesFiltered(policy).kept = Selected(b.packages, kept_ids)
      BY <2>1, SecurityCases DEF AdvisoriesFiltered
    <3> QED
      BY <1>1, <3>1, SelectedSet
  <2>2. CASE ~policy.advisories.block
    BY <1>1, <2>2 DEF AdvisoriesFiltered, SecurityAdvisoryFilter
  <2> QED
    BY <2>1, <2>2
<1>3. /\ ListsFiltered(policy).kept \in Seq(DOMAIN b.arena)
      /\ ToSet(ListsFiltered(policy).kept) \subseteq ToSet(b.packages)
  BY <1>1, ListFilterDecides DEF ListsFiltered
<1> QED
  BY <1>2, <1>3

\* A filter that does not fail leaves what it keeps, in the same arena.
LEMMA FilteredPool ==
  ASSUME BuiltPool, NEW result, NEW next, Filtered(result, next),
         result.kept \in Seq(DOMAIN b.arena)
  PROVE  /\ x' = x /\ BuiltPool' /\ b'.arena = b.arena
         /\ result.failed => phase' = "failed"
         /\ ~result.failed => phase' = next /\ b'.packages = result.kept
<1>1. x' = x /\ (result.failed => phase' = "failed") /\ (~result.failed => phase' = next)
  BY DEF Filtered
<1>2. CASE result.failed
  BY <1>1, <1>2 DEF Filtered, BuiltPool
<1>3. CASE ~result.failed
  <2>1. b' = [b EXCEPT !.packages = result.kept]
    BY <1>3 DEF Filtered
  <2>2. {"arena", "packages", "locked"} \subseteq DOMAIN b
    BY DEF BuiltPool
  <2>3. b'.arena = b.arena /\ b'.packages = result.kept /\ DOMAIN b' = DOMAIN b
    BY <2>1, <2>2
  <2> QED
    BY <1>1, <1>3, <2>2, <2>3 DEF BuiltPool
<1> QED
  BY <1>2, <1>3

LEMMA FilterTypedStep ==
  ASSUME FilterTyped, [FilterStep]_vars
  PROVE  FilterTyped'
<1>1. x \in Inputs /\ phase \in Phases /\ BuiltPool
  BY DEF FilterTyped
<1>2. CASE FilterAdvisories
  <2>1. Filtered(AdvisoriesFiltered(BlockPolicy), "advised")
    BY <1>2 DEF FilterAdvisories
  <2>2. AdvisoriesFiltered(BlockPolicy).kept \in Seq(DOMAIN b.arena)
    BY <1>1, FilterLeaves
  <2>3. x' = x /\ BuiltPool' /\ phase' \in {"failed", "advised"}
    BY <1>1, <2>1, <2>2, FilteredPool
  <2> QED
    BY <1>1, <2>3 DEF FilterTyped, Phases
<1>3. CASE FilterLists
  <2>1. Filtered(ListsFiltered(BlockPolicy), "filtered")
    BY <1>3 DEF FilterLists
  <2>2. ListsFiltered(BlockPolicy).kept \in Seq(DOMAIN b.arena)
    BY <1>1, FilterLeaves
  <2>3. x' = x /\ BuiltPool' /\ phase' \in {"failed", "filtered"}
    BY <1>1, <2>1, <2>2, FilteredPool
  <2> QED
    BY <1>1, <2>3 DEF FilterTyped, Phases
<1>4. CASE UNCHANGED vars
  BY <1>1, <1>4 DEF FilterTyped, BuiltPool, vars
<1> QED
  BY <1>2, <1>3, <1>4 DEF FilterStep

\* The pool has only packages of the arena, before and after each filter.
THEOREM FilterTypedAlways == FilterSpec => []FilterTyped
<1>1. FilterInit => FilterTyped
  BY DEF FilterInit, FilterTyped, Phases
<1>2. FilterTyped /\ [FilterStep]_vars => FilterTyped'
  BY FilterTypedStep
<1> QED
  BY <1>1, <1>2, PTL DEF FilterSpec

(***************************************************************************)
(* RulesAccumulate.                                                        *)
(***************************************************************************)

\* However many layers the configuration has, no later one takes a rule of an
\* earlier one away but by saying so.
THEOREM RulesAlwaysAccumulate == FilterSpec => []RulesAccumulate
<1>1. ASSUME FilterTyped
      PROVE  RulesAccumulate
  <2> SUFFICES ASSUME NEW k \in DOMAIN x.layers, NEW r \in IgnoredIn(x.layers[k]),
                      x.env.policy # "no"
               PROVE  \/ r \in ToSet(BlockPolicy.malware.ignore)
                      \/ \E j \in k + 1 .. Len(x.layers) : Overridden(x.layers[j], r)
    BY DEF RulesAccumulate, Overridden
  <2>1. /\ Len(x.layers) \in Nat /\ DOMAIN x.layers = 1 .. Len(x.layers)
        /\ \A i \in 1 .. Len(x.layers) : IsLayer(x.layers[i])
    BY <1>1, InputsAssumption DEF FilterTyped
  <2>2. InForce(Merged(x.layers), r) \/ \E j \in k + 1 .. Len(x.layers) : Overridden(x.layers[j], r)
    BY <2>1, MergedKeeps
  <2> QED
    BY <2>2, InForceInPolicy DEF BlockPolicy
<1> QED
  BY <1>1, FilterTypedAlways, PTL

(***************************************************************************)
(* InstallAcceptsUpdate.                                                   *)
(***************************************************************************)

\* An install accepts what any update lets into the solver.
THEOREM InstallAlwaysAcceptsUpdate == FilterSpec => []InstallAcceptsUpdate
<1> DEFINE Lock == Selected(b.packages, {id \in ToSet(b.packages) :
                     ~IsAlias(b.arena[id]) /\ Filterable(b.arena[id])})
<1>1. FilterInit => InstallAcceptsUpdate
  BY DEF FilterInit, InstallAcceptsUpdate
<1>2. ASSUME FilterTyped, InstallAcceptsUpdate, [FilterStep]_vars
      PROVE  InstallAcceptsUpdate'
  <2>1. BuiltPool
    BY <1>2 DEF FilterTyped
  <2>2. CASE FilterAdvisories
    <3>1. Filtered(AdvisoriesFiltered(BlockPolicy), "advised")
      BY <2>2 DEF FilterAdvisories
    <3>2. phase' # "filtered"
      BY <2>1, <3>1, FilterLeaves, FilteredPool
    <3> QED
      BY <3>2 DEF InstallAcceptsUpdate
  <2>3. CASE FilterLists
    <3>1. Filtered(ListsFiltered(BlockPolicy), "filtered")
      BY <2>3 DEF FilterLists
    <3>2. /\ x' = x /\ BuiltPool' /\ b'.arena = b.arena
          /\ phase' = "filtered" =>
               ~ListsFiltered(BlockPolicy).failed /\ b'.packages = ListsFiltered(BlockPolicy).kept
      BY <2>1, <3>1, FilterLeaves, FilteredPool
    <3>3. BlockPolicy' = BlockPolicy
      BY <3>2 DEF BlockPolicy
    <3>4. ASSUME phase' = "filtered", BlockPolicy.malware.scope # "install"
          PROVE  InstallPolicyProblems(b.arena, Lock', x.sources, BlockPolicy).refused = {}
      <4>1. Lock' \in Seq(DOMAIN b.arena) /\ ToSet(Lock') \subseteq ToSet(b'.packages)
        BY <3>2, SelectedSet DEF BuiltPool
      <4>2. b.packages \in Seq(DOMAIN b.arena)
        BY <2>1 DEF BuiltPool
      <4> DEFINE lock == Lock'
      <4>3. lock \in Seq(DOMAIN b.arena) /\ ToSet(lock) \subseteq ToSet(ListsFiltered(BlockPolicy).kept)
        BY <3>2, <3>4, <4>1
      <4> HIDE DEF lock
      <4>4. InstallPolicyProblems(b.arena, lock, x.sources, BlockPolicy).refused = {}
        BY <3>2, <3>4, <4>2, <4>3, InstallAccepts DEF ListsFiltered
      <4> QED
        BY <4>4 DEF lock
    <3> QED
      BY <3>2, <3>3, <3>4 DEF InstallAcceptsUpdate
  <2>4. CASE UNCHANGED vars
    BY <1>2, <2>4 DEF InstallAcceptsUpdate, BlockPolicy, vars
  <2> QED
    BY <1>2, <2>2, <2>3, <2>4 DEF FilterStep
<1> QED
  BY <1>1, <1>2, FilterTypedAlways, PTL DEF FilterSpec

(***************************************************************************)
(* FiltersDecide.                                                          *)
(***************************************************************************)

\* What an update gives up of the lock an install would refuse, and what gets
\* through the advisories, or does not, is what the rules say, whatever the
\* sources tell and in how many parts.
THEOREM FiltersAlwaysDecide == FilterSpec => FiltersDecide
<1>1. ASSUME FilterTyped, [FilterStep]_vars, phase = "advised", phase' = "filtered",
             NEW id \in ToSet(b.packages) \ ToSet(b'.packages),
             ~b.arena[id].root_alias, b.arena[id].replaces = <<>>,
             \E l \in ToSet(x.locked_repository) :
               b.arena[l].name = b.arena[id].name /\ b.arena[l].version = b.arena[id].version
      PROVE  id \in InstallPolicyProblems(b.arena, <<id>>, x.sources, BlockPolicy).refused
  <2>1. BuiltPool
    BY <1>1 DEF FilterTyped
  <2>2. FilterLists
    BY <1>1 DEF FilterStep, FilterAdvisories, vars
  <2>3. Filtered(ListsFiltered(BlockPolicy), "filtered")
    BY <2>2 DEF FilterLists
  <2>4. ~ListsFiltered(BlockPolicy).failed /\ b'.packages = ListsFiltered(BlockPolicy).kept
    BY <1>1, <2>1, <2>3, FilterLeaves, FilteredPool
  <2>5. b.packages \in Seq(DOMAIN b.arena)
    BY <2>1 DEF BuiltPool
  <2>6. <<id>> \in Seq(DOMAIN b.arena) /\ ToSet(<<id>>) = {id}
    BY <2>5, ToSetOf, SingletonSet
  <2> QED
    BY <1>1, <2>4, <2>5, <2>6, LockJudged DEF ListsFiltered
<1>2. ASSUME FilterTyped, [FilterStep]_vars, phase = "built", phase' = "advised",
             BlockPolicy.advisories.block, NEW id \in ToSet(b.packages) \ LockedIds
      PROVE  LET p == b.arena[id] IN
             /\ id \in ToSet(b'.packages) => \A a \in KnownOf(p) :
                  a.name = p.name /\ ~p.root_alias /\ Filterable(p) => Ignored(BlockPolicy, a)
             /\ id \notin ToSet(b'.packages) =>
                  \/ p.abandoned /\ BlockPolicy.abandoned.block
                  \/ \E a \in KnownOf(p) :
                       \/ ~Ignored(BlockPolicy, a)
                       \/ a.severity \in OnBlock(BlockPolicy.advisories.severities)
  <2>1. x \in Inputs /\ BuiltPool
    BY <1>2 DEF FilterTyped
  <2>2. FilterAdvisories
    BY <1>2 DEF FilterStep, FilterLists, vars
  <2>3. Filtered(AdvisoriesFiltered(BlockPolicy), "advised")
    BY <2>2 DEF FilterAdvisories
  <2>4. ~AdvisoriesFiltered(BlockPolicy).failed /\ b'.packages = AdvisoriesFiltered(BlockPolicy).kept
    BY <1>2, <2>1, <2>3, FilterLeaves, FilteredPool
  <2> QED
    BY <1>2, <2>1, <2>4, AdvisoriesDecideOf DEF IgnoredSeverities
<1>3. FilterTyped /\ [FilterStep]_vars =>
        (phase = "advised" /\ phase' = "filtered" => \A policy \in {BlockPolicy} :
           \A id \in ToSet(b.packages) \ ToSet(b'.packages) :
             (~b.arena[id].root_alias /\ b.arena[id].replaces = <<>> /\ \E l \in ToSet(x.locked_repository) :
                 b.arena[l].name = b.arena[id].name /\ b.arena[l].version = b.arena[id].version)
             => id \in InstallPolicyProblems(b.arena, <<id>>, x.sources, policy).refused)
  BY <1>1
<1>4. FilterTyped /\ [FilterStep]_vars =>
        (phase = "built" /\ phase' = "advised" => \A policy \in {BlockPolicy} :
           policy.advisories.block => \A id \in ToSet(b.packages) \ LockedIds :
             LET p == b.arena[id]
                 known == KnownOf(p)
             IN /\ id \in ToSet(b'.packages)
                     => \A a \in known : a.name = p.name /\ ~p.root_alias /\ Filterable(p)
                                         => Ignored(policy, a)
                /\ id \notin ToSet(b'.packages)
                     => \/ p.abandoned /\ policy.abandoned.block
                        \/ \E a \in known : \/ ~Ignored(policy, a)
                                            \/ a.severity \in OnBlock(policy.advisories.severities))
  BY <1>2
<1>5. FilterSpec => LockJudgedAsInstalled
  BY <1>3, FilterTypedAlways, PTL DEF FilterSpec, LockJudgedAsInstalled
<1>6. FilterSpec => AdvisoriesDecide
  BY <1>4, FilterTypedAlways, PTL DEF FilterSpec, AdvisoriesDecide
<1> QED
  BY <1>5, <1>6 DEF FiltersDecide
================================================================================
