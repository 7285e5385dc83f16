---------------------------- MODULE SolverProofs ----------------------------
(***************************************************************************)
(* Proofs about the solver, for every pool and every request. First its    *)
(* decision stack: the map and the stack agree, decisions and branches are *)
(* stacked by level, and decisions of level 1 stay. The levels matter to   *)
(* the agreement itself: a decision at level 0 would read as no decision at*)
(* all.                                                                    *)
(*                                                                         *)
(* Then what it concludes: each decision that is not a choice is forced by *)
(* its reason, each learned rule follows from the rules it was learned     *)
(* from, and each problem reported without rules detached cannot be solved.*)
(* SolverInv is the inductive invariant. It is stated in parts, each with  *)
(* the part of the search it is about: the stack (StackInv), the rules, the*)
(* watch graph, the locals of the loops, the queue, the reasons, the       *)
(* conflict, the locals of analyze, the soundness of what analyze collects,*)
(* the learned rules, the pass over the assertions, and the problems. For  *)
(* each part a lemma (...Step) says that every step keeps it; SolverStep   *)
(* puts them together.                                                     *)
(***************************************************************************)
EXTENDS SolverProperties, SequenceLemmas, FiniteSetTheorems

(***************************************************************************)
(* Sequences, without saying what their elements are.                      *)
(***************************************************************************)

IsSequence(s) == s \in Seq(Range(s))

\* Appending to a sequence.
LEMMA Appended ==
  ASSUME NEW s, IsSequence(s), NEW e
  PROVE  /\ IsSequence(Append(s, e))
         /\ Len(s) \in Nat
         /\ DOMAIN s = 1 .. Len(s)
         /\ Len(Append(s, e)) = Len(s) + 1
         /\ DOMAIN Append(s, e) = 1 .. Len(s) + 1
         /\ \A k \in 1 .. Len(s) : Append(s, e)[k] = s[k]
         /\ Append(s, e)[Len(s) + 1] = e
<1> DEFINE S == Range(s) \cup {e}
<1>1. s \in Seq(S)
  BY SeqMonotonic DEF IsSequence
<1>2. /\ Append(s, e) \in Seq(S)
      /\ Len(Append(s, e)) = Len(s) + 1
      /\ \A k \in 1 .. Len(s) : Append(s, e)[k] = s[k]
      /\ Append(s, e)[Len(s) + 1] = e
  BY <1>1, AppendProperties
<1>3. Append(s, e) \in Seq(Range(Append(s, e)))
  BY <1>2, SeqOfRange
<1>4. Len(s) \in Nat /\ DOMAIN s = 1 .. Len(s)
  BY <1>1, LenProperties
<1>5. DOMAIN Append(s, e) = 1 .. Len(Append(s, e))
  BY <1>2, LenProperties
<1> QED
  BY <1>2, <1>3, <1>4, <1>5 DEF IsSequence

\* A prefix of a sequence.
LEMMA Prefix ==
  ASSUME NEW s, IsSequence(s), NEW n \in 0 .. Len(s)
  PROVE  /\ IsSequence(SubSeq(s, 1, n))
         /\ Len(s) \in Nat
         /\ DOMAIN s = 1 .. Len(s)
         /\ Len(SubSeq(s, 1, n)) = n
         /\ DOMAIN SubSeq(s, 1, n) = 1 .. n
         /\ \A k \in 1 .. n : SubSeq(s, 1, n)[k] = s[k]
<1> DEFINE S == Range(s)
<1>1. s \in Seq(S)
  BY DEF IsSequence
<1>2. Len(s) \in Nat /\ DOMAIN s = 1 .. Len(s) /\ s \in [1 .. Len(s) -> S]
  BY <1>1, LenProperties
<1> HIDE DEF S
<1>3. \A k \in 1 .. n : s[k] \in S
  BY <1>2
<1>4. /\ SubSeq(s, 1, n) \in Seq(S)
      /\ Len(SubSeq(s, 1, n)) = IF 1 <= n THEN n - 1 + 1 ELSE 0
      /\ \A k \in 1 .. n - 1 + 1 : SubSeq(s, 1, n)[k] = s[1 + k - 1]
  BY <1>2, <1>3, SubSeqProperties
<1>5. SubSeq(s, 1, n) \in Seq(Range(SubSeq(s, 1, n)))
  BY <1>4, SeqOfRange
<1>6. DOMAIN SubSeq(s, 1, n) = 1 .. Len(SubSeq(s, 1, n))
  BY <1>4, LenProperties
<1> QED
  BY <1>2, <1>4, <1>5, <1>6 DEF IsSequence

-----------------------------------------------------------------------------
(***************************************************************************)
(* A decision map and a decision stack, whatever the step leaves there.    *)
(***************************************************************************)

LevelIn(m, l) == AbsOf(m[AbsOf(l)])

\* They tell the same decisions.
Agree(size, m, q) ==
  /\ m \in [1 .. size -> Int]
  /\ IsSequence(q)
  /\ \A k \in DOMAIN q : q[k].literal \in LiteralsOf(size)
  /\ \A j, k \in DOMAIN q : AbsOf(q[j].literal) = AbsOf(q[k].literal) => j = k
  /\ \A k \in DOMAIN q : \/ q[k].literal > 0 /\ m[AbsOf(q[k].literal)] > 0
                         \/ q[k].literal < 0 /\ m[AbsOf(q[k].literal)] < 0
  /\ \A p \in 1 .. size : m[p] # 0 => \E k \in DOMAIN q : AbsOf(q[k].literal) = p

\* The levels are stacked, up to lv.
Stacked(m, q, lv) ==
  /\ \A j, k \in DOMAIN q : j <= k => LevelIn(m, q[j].literal) <= LevelIn(m, q[k].literal)
  /\ \A k \in DOMAIN q : LevelIn(m, q[k].literal) <= lv

\* The map and the stack after decide, and after a revert down to `keep`.
MapWith(m, l, lv) == [m EXCEPT ![AbsOf(l)] = IF l > 0 THEN lv ELSE -lv]
StackWith(q, l, reason) == Append(q, [literal |-> l, reason |-> reason])
MapDownTo(m, q, keep) ==
  [p \in DOMAIN m |->
    IF \E k \in keep + 1 .. Len(q) : AbsOf(q[k].literal) = p THEN 0 ELSE m[p]]
StackDownTo(q, keep) == SubSeq(q, 1, keep)

\* The package of a literal.
LEMMA PackageOfLiteral ==
  ASSUME NEW size \in Nat, NEW l \in LiteralsOf(size)
  PROVE  AbsOf(l) \in 1 .. size /\ l \in Int /\ l # 0
  BY DEF LiteralsOf, AbsOf

\* The distance to zero.
LEMMA AbsOfInteger ==
  ASSUME NEW i \in Int
  PROVE  AbsOf(i) \in Nat /\ (i = 0 <=> AbsOf(i) = 0)
  BY DEF AbsOf

\* Deciding an undecided literal at a level no lower than the others.
LEMMA DecidedOnce ==
  ASSUME NEW size \in Nat, NEW m, NEW q, Agree(size, m, q),
         NEW lv \in Nat \ {0}, Stacked(m, q, lv),
         NEW l \in LiteralsOf(size), m[AbsOf(l)] = 0,
         NEW reason
  PROVE  /\ Agree(size, MapWith(m, l, lv), StackWith(q, l, reason))
         /\ Stacked(MapWith(m, l, lv), StackWith(q, l, reason), lv)
         /\ \A p \in 1 .. size : m[p] # 0 => MapWith(m, l, lv)[p] = m[p]
<1> DEFINE n == Len(q)
           m2 == MapWith(m, l, lv)
           q2 == StackWith(q, l, reason)
<1>1. AbsOf(l) \in 1 .. size /\ l \in Int /\ l # 0
  BY PackageOfLiteral
<1>2. /\ IsSequence(q2) /\ n \in Nat /\ DOMAIN q = 1 .. n /\ DOMAIN q2 = 1 .. n + 1
      /\ \A k \in 1 .. n : q2[k] = q[k]
      /\ q2[n + 1] = [literal |-> l, reason |-> reason]
  BY Appended DEF Agree, StackWith
<1>3. m \in [1 .. size -> Int] /\ m2 \in [1 .. size -> Int]
  BY <1>1 DEF Agree, MapWith
<1>4. /\ m2[AbsOf(l)] = IF l > 0 THEN lv ELSE -lv
      /\ \A p \in 1 .. size : p # AbsOf(l) => m2[p] = m[p]
  BY <1>1, <1>3 DEF MapWith
<1> HIDE DEF n, m2, q2
<1>5. \A k \in 1 .. n : /\ q[k].literal \in LiteralsOf(size)
                        /\ AbsOf(q[k].literal) \in 1 .. size
                        /\ q[k].literal \in Int
                        /\ m[AbsOf(q[k].literal)] \in Int \ {0}
  <2> SUFFICES ASSUME NEW k \in 1 .. n
               PROVE  /\ q[k].literal \in LiteralsOf(size)
                      /\ AbsOf(q[k].literal) \in 1 .. size
                      /\ q[k].literal \in Int
                      /\ m[AbsOf(q[k].literal)] \in Int \ {0}
    OBVIOUS
  <2>1. q[k].literal \in LiteralsOf(size)
    BY <1>2 DEF Agree
  <2>2. AbsOf(q[k].literal) \in 1 .. size /\ q[k].literal \in Int
    BY <2>1, PackageOfLiteral
  <2>3. m[AbsOf(q[k].literal)] \in Int
    BY <2>2, <1>3
  <2>4. m[AbsOf(q[k].literal)] > 0 \/ m[AbsOf(q[k].literal)] < 0
    BY <1>2 DEF Agree
  <2> QED
    BY <2>1, <2>2, <2>3, <2>4
<1>6. \A k \in 1 .. n : AbsOf(q[k].literal) # AbsOf(l)
  BY <1>5
<1>7. \A k \in 1 .. n : /\ q2[k].literal = q[k].literal
                        /\ m2[AbsOf(q[k].literal)] = m[AbsOf(q[k].literal)]
  BY <1>2, <1>4, <1>5, <1>6
<1>8. q2[n + 1].literal = l
  BY <1>2
<1>9. Agree(size, m2, q2)
  <2>1. \A k \in DOMAIN q2 : q2[k].literal \in LiteralsOf(size)
    BY <1>2, <1>5, <1>7, <1>8
  <2>2. \A j, k \in DOMAIN q2 : AbsOf(q2[j].literal) = AbsOf(q2[k].literal) => j = k
    BY <1>2, <1>6, <1>7, <1>8 DEF Agree
  <2>3. ASSUME NEW k \in DOMAIN q2
        PROVE  \/ q2[k].literal > 0 /\ m2[AbsOf(q2[k].literal)] > 0
               \/ q2[k].literal < 0 /\ m2[AbsOf(q2[k].literal)] < 0
    <3>1. CASE k = n + 1
      BY <3>1, <1>1, <1>4, <1>8
    <3>2. CASE k \in 1 .. n
      BY <3>2, <1>2, <1>7 DEF Agree
    <3> QED
      BY <3>1, <3>2, <1>2
  <2>4. ASSUME NEW p \in 1 .. size, m2[p] # 0
        PROVE  \E k \in DOMAIN q2 : AbsOf(q2[k].literal) = p
    <3>1. CASE p = AbsOf(l)
      BY <3>1, <1>2, <1>8
    <3>2. CASE p # AbsOf(l)
      <4>1. PICK k \in DOMAIN q : AbsOf(q[k].literal) = p
        BY <3>2, <2>4, <1>4 DEF Agree
      <4> QED
        BY <4>1, <1>2, <1>7
    <3> QED
      BY <3>1, <3>2
  <2> QED
    BY <1>2, <1>3, <2>1, <2>2, <2>3, <2>4 DEF Agree
<1>10. Stacked(m2, q2, lv)
  <2>1. LevelIn(m2, q2[n + 1].literal) = lv
    <3>1. AbsOf(IF l > 0 THEN lv ELSE -lv) = lv
      BY DEF AbsOf
    <3> QED
      BY <3>1, <1>4, <1>8 DEF LevelIn
  <2>2. \A k \in 1 .. n : LevelIn(m2, q2[k].literal) = LevelIn(m, q[k].literal)
    BY <1>7 DEF LevelIn
  <2>3. /\ \A j, k \in 1 .. n : j <= k => LevelIn(m, q[j].literal) <= LevelIn(m, q[k].literal)
        /\ \A k \in 1 .. n : LevelIn(m, q[k].literal) <= lv
    BY <1>2 DEF Stacked
  <2>4. ASSUME NEW j \in 1 .. n + 1, NEW k \in 1 .. n + 1, j <= k
        PROVE  LevelIn(m2, q2[j].literal) <= LevelIn(m2, q2[k].literal)
    <3>1. CASE k = n + 1 /\ j = n + 1
      <4>1. lv \in Int /\ lv <= lv
        OBVIOUS
      <4> QED
        BY <4>1, <3>1, <2>1
    <3>2. CASE k = n + 1 /\ j \in 1 .. n
      BY <3>2, <2>1, <2>2, <2>3
    <3>3. CASE k \in 1 .. n /\ j \in 1 .. n
      BY <3>3, <2>2, <2>3, <2>4
    <3> QED
      BY <3>1, <3>2, <3>3, <1>2, <2>4
  <2>5. ASSUME NEW k \in 1 .. n + 1
        PROVE  LevelIn(m2, q2[k].literal) <= lv
    <3>1. CASE k = n + 1
      <4>1. lv \in Int /\ lv <= lv
        OBVIOUS
      <4> QED
        BY <4>1, <3>1, <2>1
    <3>2. CASE k \in 1 .. n
      BY <3>2, <2>2, <2>3
    <3> QED
      BY <3>1, <3>2, <1>2
  <2> QED
    BY <1>2, <2>4, <2>5 DEF Stacked
<1>11. \A p \in 1 .. size : m[p] # 0 => m2[p] = m[p]
  BY <1>4
<1> QED
  BY <1>9, <1>10, <1>11 DEF m2, q2

\* Popping the decisions above a level.
LEMMA Reverted ==
  ASSUME NEW size \in Nat, NEW m, NEW q, Agree(size, m, q),
         NEW top, Stacked(m, q, top),
         NEW lv \in Nat, NEW keep \in 0 .. Len(q),
         keep > 0 => LevelIn(m, q[keep].literal) <= lv,
         \A k \in keep + 1 .. Len(q) : LevelIn(m, q[k].literal) > lv
  PROVE  /\ Agree(size, MapDownTo(m, q, keep), StackDownTo(q, keep))
         /\ Stacked(MapDownTo(m, q, keep), StackDownTo(q, keep), lv)
         /\ \A p \in 1 .. size : AbsOf(m[p]) <= lv => MapDownTo(m, q, keep)[p] = m[p]
<1> DEFINE n == Len(q)
           m2 == MapDownTo(m, q, keep)
           q2 == StackDownTo(q, keep)
<1>1. /\ IsSequence(q2) /\ n \in Nat /\ DOMAIN q = 1 .. n /\ DOMAIN q2 = 1 .. keep
      /\ \A k \in 1 .. keep : q2[k] = q[k]
  BY Prefix DEF Agree, StackDownTo
<1>2. keep \in Nat /\ keep <= n
  BY <1>1
<1>3. \A k \in keep + 1 .. n : LevelIn(m, q[k].literal) > lv
  OBVIOUS
<1>4. m2 = [p \in DOMAIN m |->
              IF \E k \in keep + 1 .. n : AbsOf(q[k].literal) = p THEN 0 ELSE m[p]]
  BY DEF MapDownTo
<1> HIDE DEF n, m2, q2
<1>5. m \in [1 .. size -> Int]
  BY DEF Agree
<1>6. \A k \in 1 .. n : /\ q[k].literal \in LiteralsOf(size)
                        /\ AbsOf(q[k].literal) \in 1 .. size
                        /\ LevelIn(m, q[k].literal) \in Nat
  <2> SUFFICES ASSUME NEW k \in 1 .. n
               PROVE  /\ q[k].literal \in LiteralsOf(size)
                      /\ AbsOf(q[k].literal) \in 1 .. size
                      /\ LevelIn(m, q[k].literal) \in Nat
    OBVIOUS
  <2>1. q[k].literal \in LiteralsOf(size)
    BY <1>1 DEF Agree
  <2>2. AbsOf(q[k].literal) \in 1 .. size
    BY <2>1, PackageOfLiteral
  <2>3. m[AbsOf(q[k].literal)] \in Int
    BY <2>2, <1>5
  <2> QED
    BY <2>1, <2>2, <2>3, AbsOfInteger DEF LevelIn
<1>7. m2 \in [1 .. size -> Int]
  BY <1>4, <1>5
<1>8. \A k \in 1 .. keep : m2[AbsOf(q[k].literal)] = m[AbsOf(q[k].literal)]
  <2> SUFFICES ASSUME NEW k \in 1 .. keep
               PROVE  m2[AbsOf(q[k].literal)] = m[AbsOf(q[k].literal)]
    OBVIOUS
  <2>1. k \in 1 .. n
    BY <1>1, <1>2
  <2>2. \A j \in keep + 1 .. n : AbsOf(q[j].literal) # AbsOf(q[k].literal)
    BY <1>1, <1>2, <2>1 DEF Agree
  <2> QED
    BY <1>4, <1>5, <1>6, <2>1, <2>2
<1>9. \A k \in 1 .. keep : q2[k].literal = q[k].literal /\ k \in 1 .. n
  BY <1>1, <1>2
<1>10. Agree(size, m2, q2)
  <2>1. \A k \in DOMAIN q2 : q2[k].literal \in LiteralsOf(size)
    BY <1>1, <1>6, <1>9
  <2>2. \A j, k \in DOMAIN q2 : AbsOf(q2[j].literal) = AbsOf(q2[k].literal) => j = k
    BY <1>1, <1>9 DEF Agree
  <2>3. \A k \in DOMAIN q2 : \/ q2[k].literal > 0 /\ m2[AbsOf(q2[k].literal)] > 0
                             \/ q2[k].literal < 0 /\ m2[AbsOf(q2[k].literal)] < 0
    <3> SUFFICES ASSUME NEW k \in 1 .. keep
                 PROVE  \/ q[k].literal > 0 /\ m[AbsOf(q[k].literal)] > 0
                        \/ q[k].literal < 0 /\ m[AbsOf(q[k].literal)] < 0
      BY <1>1, <1>8, <1>9
    <3> QED
      BY <1>1, <1>9 DEF Agree
  <2>4. ASSUME NEW p \in 1 .. size, m2[p] # 0
        PROVE  \E k \in DOMAIN q2 : AbsOf(q2[k].literal) = p
    <3>1. m[p] # 0 /\ ~\E k \in keep + 1 .. n : AbsOf(q[k].literal) = p
      BY <1>4, <1>5, <2>4
    <3>2. PICK k \in 1 .. n : AbsOf(q[k].literal) = p
      BY <3>1, <1>1 DEF Agree
    <3>3. k \in 1 .. keep
      BY <3>1, <3>2, <1>1, <1>2
    <3> QED
      BY <3>2, <3>3, <1>1, <1>9
  <2> QED
    BY <1>1, <1>7, <2>1, <2>2, <2>3, <2>4 DEF Agree
<1>11. Stacked(m2, q2, lv)
  <2>1. \A k \in 1 .. keep : LevelIn(m2, q2[k].literal) = LevelIn(m, q[k].literal)
    BY <1>8, <1>9 DEF LevelIn
  <2>2. \A j, k \in 1 .. keep : j <= k => LevelIn(m, q[j].literal) <= LevelIn(m, q[k].literal)
    BY <1>1, <1>9 DEF Stacked
  <2>3. ASSUME NEW k \in 1 .. keep
        PROVE  LevelIn(m, q[k].literal) <= lv
    <3>1. keep \in 1 .. keep /\ keep > 0 /\ k <= keep /\ keep \in 1 .. n /\ k \in 1 .. n
      BY <1>1, <1>2
    <3>2. LevelIn(m, q[k].literal) <= LevelIn(m, q[keep].literal)
      BY <2>2, <3>1
    <3> QED
      BY <3>1, <3>2, <1>6
  <2>4. \A j, k \in 1 .. keep :
          j <= k => LevelIn(m2, q2[j].literal) <= LevelIn(m2, q2[k].literal)
    BY <2>1, <2>2
  <2>5. \A k \in 1 .. keep : LevelIn(m2, q2[k].literal) <= lv
    BY <2>1, <2>3
  <2> QED
    BY <1>1, <2>4, <2>5 DEF Stacked
<1>12. ASSUME NEW p \in 1 .. size, AbsOf(m[p]) <= lv
       PROVE  m2[p] = m[p]
  <2>1. ~\E k \in keep + 1 .. n : AbsOf(q[k].literal) = p
    <3> SUFFICES ASSUME NEW k \in keep + 1 .. n, AbsOf(q[k].literal) = p
                 PROVE  FALSE
      OBVIOUS
    <3>1. LevelIn(m, q[k].literal) = AbsOf(m[p])
      BY DEF LevelIn
    <3>2. LevelIn(m, q[k].literal) > lv /\ LevelIn(m, q[k].literal) \in Nat
      BY <1>1, <1>2, <1>3, <1>6
    <3> QED
      BY <3>1, <3>2, <1>12
  <2> QED
    BY <2>1, <1>4, <1>5
<1> QED
  BY <1>10, <1>11, <1>12 DEF m2, q2

-----------------------------------------------------------------------------
(***************************************************************************)
(* The inductive invariant.                                                *)
(***************************************************************************)

Unwinds(bs, lv) ==
  /\ IsSequence(bs)
  /\ \A b \in DOMAIN bs : bs[b].level \in Nat \ {0} /\ bs[b].level < lv
  /\ \A b, c \in DOMAIN bs : b <= c => bs[b].level <= bs[c].level

StackInv ==
  /\ inst.size \in Nat
  /\ level \in Nat \ {0}
  /\ pc = "assertions" => level = 1
  /\ Agree(inst.size, map, queue)
  /\ Stacked(map, queue, level)
  /\ Unwinds(branches, level)

\* It says the three properties of the stack.
LEMMA StackInvImplies ==
  StackInv => DecisionsAgree /\ LevelsStacked /\ BranchesStacked
<1> SUFFICES ASSUME StackInv
             PROVE  DecisionsAgree /\ LevelsStacked /\ BranchesStacked
  OBVIOUS
<1>1. DecisionsAgree
  BY DEF StackInv, Agree, DecisionsAgree, Satisfy, Entry, Packages
<1>2. LevelsStacked
  BY DEF StackInv, Stacked, LevelIn, LevelsStacked, LevelAt, DecisionLevel, Entry
<1>3. BranchesStacked
  BY DEF StackInv, Unwinds, BranchesStacked
<1> QED
  BY <1>1, <1>2, <1>3

\* It holds of the empty stack.
LEMMA StackInvInit == Init => StackInv
<1> SUFFICES ASSUME Init PROVE StackInv
  OBVIOUS
<1>1. inst.size \in Nat
  BY InstancesAssumption DEF Init
<1>2. IsSequence(<<>>) /\ DOMAIN <<>> = {}
  <2>1. <<>> \in Seq(Range(<<>>)) /\ Len(<<>>) = 0
    BY EmptySeq
  <2>2. DOMAIN <<>> = 1 .. Len(<<>>)
    BY <2>1, LenProperties
  <2> QED
    BY <2>1, <2>2 DEF IsSequence
<1>3. map \in [1 .. inst.size -> Int] /\ \A p \in 1 .. inst.size : map[p] = 0
  BY DEF Init
<1>4. queue = <<>> /\ branches = <<>> /\ level = 1
  BY DEF Init
<1>5. Agree(inst.size, map, queue) /\ Stacked(map, queue, level) /\ Unwinds(branches, level)
  BY <1>2, <1>3, <1>4 DEF Agree, Stacked, Unwinds
<1> QED
  BY <1>1, <1>4, <1>5 DEF StackInv

(***************************************************************************)
(* The operations on the stack, in a state of the invariant.               *)
(***************************************************************************)

\* decide
LEMMA DecideStep ==
  ASSUME inst.size \in Nat,
         NEW m, NEW q, NEW lv \in Nat \ {0},
         Agree(inst.size, m, q), Stacked(m, q, lv),
         NEW l, NEW reason, DecideOn(m, q, l, lv, reason)
  PROVE  /\ Agree(inst.size, map', queue')
         /\ Stacked(map', queue', lv)
         /\ \A p \in 1 .. inst.size : m[p] # 0 => map'[p] = m[p]
<1>1. /\ l \in LiteralsOf(inst.size) /\ m[AbsOf(l)] = 0
      /\ map' = MapWith(m, l, lv)
      /\ queue' = StackWith(q, l, reason)
  BY DEF DecideOn, CanDecide, Literals, MapWith, StackWith
<1> QED
  BY <1>1, DecidedOnce

\* revert, on the decisions
LEMMA RevertStep ==
  ASSUME StackInv, NEW lv \in Nat, NEW keep, Keeps(keep, lv)
  PROVE  /\ Agree(inst.size, MapKeeping(keep), SubSeq(queue, 1, keep))
         /\ Stacked(MapKeeping(keep), SubSeq(queue, 1, keep), lv)
         /\ \A p \in 1 .. inst.size : AbsOf(map[p]) <= lv => MapKeeping(keep)[p] = map[p]
<1>1. /\ inst.size \in Nat /\ Agree(inst.size, map, queue) /\ Stacked(map, queue, level)
  BY DEF StackInv
<1>2. /\ keep \in 0 .. Len(queue)
      /\ keep > 0 => LevelIn(map, queue[keep].literal) <= lv
      /\ \A k \in keep + 1 .. Len(queue) : LevelIn(map, queue[k].literal) > lv
  BY DEF Keeps, DecisionLevel, Entry, LevelIn
<1>3. /\ MapKeeping(keep) = MapDownTo(map, queue, keep)
      /\ SubSeq(queue, 1, keep) = StackDownTo(queue, keep)
  BY DEF MapKeeping, MapDownTo, StackDownTo
<1>4. /\ Agree(inst.size, MapDownTo(map, queue, keep), StackDownTo(queue, keep))
      /\ Stacked(MapDownTo(map, queue, keep), StackDownTo(queue, keep), lv)
      /\ \A p \in 1 .. inst.size :
           AbsOf(map[p]) <= lv => MapDownTo(map, queue, keep)[p] = map[p]
  BY <1>1, <1>2, Reverted
<1> QED
  BY <1>3, <1>4

\* revert, on the branches
LEMMA RevertBranches ==
  ASSUME NEW bs, NEW top, Unwinds(bs, top), NEW lv \in Nat, NEW kept, BranchesBelow(kept, bs, lv)
  PROVE  Unwinds(SubSeq(bs, 1, kept), lv)
<1> DEFINE cut == SubSeq(bs, 1, kept)
<1>1. kept \in 0 .. Len(bs)
  BY DEF BranchesBelow
<1>2. /\ IsSequence(cut) /\ Len(bs) \in Nat /\ DOMAIN bs = 1 .. Len(bs)
      /\ DOMAIN cut = 1 .. kept /\ \A b \in 1 .. kept : cut[b] = bs[b]
  BY <1>1, Prefix DEF Unwinds
<1>3. ASSUME NEW b \in 1 .. kept
      PROVE  bs[b].level \in Nat \ {0} /\ bs[b].level < lv
  <2>1. b \in DOMAIN bs /\ kept \in DOMAIN bs /\ b <= kept /\ kept > 0
    BY <1>1, <1>2, <1>3
  <2>2. bs[b].level <= bs[kept].level /\ bs[kept].level < lv
    BY <2>1 DEF Unwinds, BranchesBelow
  <2>3. bs[b].level \in Nat \ {0} /\ bs[kept].level \in Nat
    BY <2>1 DEF Unwinds
  <2> QED
    BY <2>2, <2>3
<1>4. \A b, c \in 1 .. kept : b <= c => bs[b].level <= bs[c].level
  BY <1>1, <1>2 DEF Unwinds
<1> HIDE DEF cut
<1>5. Unwinds(cut, lv)
  BY <1>2, <1>3, <1>4 DEF Unwinds
<1> QED
  BY <1>5 DEF cut
-----------------------------------------------------------------------------
(***************************************************************************)
(* The actions.                                                            *)
(***************************************************************************)

\* Most steps leave the decisions and the branches alone.
Quiet ==
  /\ UNCHANGED <<inst, map, queue, branches, level>>
  /\ pc' = "assertions" => pc = "assertions"

LEMMA QuietSteps ==
  ASSUME \/ AssertSkip \/ AssertionsDone \/ RunSat \/ VisitSettled \/ VisitMoveWatch
         \/ VisitConflict \/ NextDecision \/ Propagated \/ Unsolvable \/ BeginAnalysis
         \/ Resolve \/ WalkEnd \/ WalkLearn \/ WalkReason \/ SkipRequest \/ RequestsDone
         \/ SkipRule \/ Swept \/ BranchesDone \/ Terminated \/ UNCHANGED vars
  PROVE  Quiet
<1> USE DEF Quiet, decisionVars, searchVars, ruleVars, watchVars
<1>1. CASE AssertSkip
  BY <1>1 DEF AssertSkip, Asserting
<1>2. CASE AssertionsDone
  BY <1>2 DEF AssertionsDone
<1>3. CASE RunSat
  BY <1>3 DEF RunSat, RequestsOrSweep, SweepFrom
<1>4. CASE VisitSettled \/ VisitMoveWatch \/ VisitConflict \/ NextDecision
  BY <1>4 DEF VisitSettled, VisitMoveWatch, VisitConflict, NextDecision
<1>5. CASE Propagated
  BY <1>5 DEF Propagated, RequestsOrSweep, SweepFrom
<1>6. CASE Unsolvable \/ BeginAnalysis \/ Resolve
  BY <1>6 DEF Unsolvable, BeginAnalysis, Resolve
<1>7. CASE WalkEnd \/ WalkLearn \/ WalkReason
  BY <1>7 DEF WalkEnd, WalkLearn, WalkReason
<1>8. CASE SkipRequest \/ RequestsDone \/ SkipRule \/ Swept \/ BranchesDone
  BY <1>8 DEF SkipRequest, RequestsDone, SweepFrom, SkipRule, Swept, BranchesDone
<1>9. CASE Terminated \/ UNCHANGED vars
  BY <1>9 DEF Terminated, vars
<1> QED
  BY <1>1, <1>2, <1>3, <1>4, <1>5, <1>6, <1>7, <1>8, <1>9

\* A quiet step keeps the invariant.
LEMMA QuietKeeps ==
  ASSUME StackInv, Quiet
  PROVE  StackInv'
  BY DEF StackInv, Quiet, Agree, Stacked, Unwinds, LevelIn

\* A bound may be raised.
LEMMA StackedHigher ==
  ASSUME NEW size \in Nat, NEW m, NEW q, Agree(size, m, q),
         NEW lv \in Nat, NEW higher \in Nat, lv <= higher, Stacked(m, q, lv)
  PROVE  Stacked(m, q, higher)
<1> SUFFICES ASSUME NEW k \in DOMAIN q
             PROVE  LevelIn(m, q[k].literal) <= higher
  BY DEF Stacked
<1>1. AbsOf(q[k].literal) \in 1 .. size
  BY PackageOfLiteral DEF Agree
<1>2. LevelIn(m, q[k].literal) \in Nat
  BY <1>1, AbsOfInteger DEF Agree, LevelIn
<1>3. LevelIn(m, q[k].literal) <= lv
  BY DEF Stacked
<1> QED
  BY <1>2, <1>3

\* What the other steps do; the level 1 decisions are left as they are once
\* the search has begun.
LevelOneKept == \A p \in Packages : AbsOf(map[p]) = 1 => map'[p] = map[p]

\* A literal is decided at the current level.
LEMMA DecideKeeps ==
  ASSUME StackInv, NEW l, NEW reason, Decide(l, level, reason),
         UNCHANGED <<inst, branches, level, pc>>
  PROVE  StackInv' /\ LevelOneKept
<1>1. /\ inst.size \in Nat /\ level \in Nat \ {0}
      /\ Agree(inst.size, map, queue) /\ Stacked(map, queue, level)
  BY DEF StackInv
<1>2. DecideOn(map, queue, l, level, reason)
  BY DEF Decide
<1>3. /\ Agree(inst.size, map', queue')
      /\ Stacked(map', queue', level)
      /\ \A p \in 1 .. inst.size : map[p] # 0 => map'[p] = map[p]
  BY <1>1, <1>2, DecideStep
<1>4. StackInv'
  BY <1>3 DEF StackInv, Agree, Stacked, Unwinds, LevelIn
<1>5. LevelOneKept
  BY <1>3 DEF LevelOneKept, Packages, AbsOf
<1> QED
  BY <1>4, <1>5

\* select_and_install, and the retry of a branch: a literal opens the level
\* above lv.
LEMMA NextLevelKeeps ==
  ASSUME inst.size \in Nat, NEW m, NEW q, NEW lv \in Nat \ {0},
         Agree(inst.size, m, q), Stacked(m, q, lv),
         NEW l, NEW reason, SetPropagateLearn(m, q, lv, l, reason),
         Unwinds(branches', lv + 1),
         UNCHANGED inst
  PROVE  /\ StackInv'
         /\ \A p \in Packages : AbsOf(m[p]) = 1 => map'[p] = m[p]
<1>1. /\ DecideOn(m, q, l, lv + 1, reason)
      /\ level' = lv + 1 /\ pc' = "propagate"
  BY DEF SetPropagateLearn
<1>2. lv + 1 \in Nat \ {0} /\ lv <= lv + 1
  OBVIOUS
<1>3. Stacked(m, q, lv + 1)
  BY StackedHigher
<1>4. /\ Agree(inst.size, map', queue')
      /\ Stacked(map', queue', lv + 1)
      /\ \A p \in 1 .. inst.size : m[p] # 0 => map'[p] = m[p]
  BY <1>1, <1>2, <1>3, DecideStep
<1>5. StackInv'
  BY <1>1, <1>2, <1>4 DEF StackInv, Agree, Stacked, Unwinds, LevelIn
<1>6. \A p \in Packages : AbsOf(m[p]) = 1 => map'[p] = m[p]
  BY <1>4 DEF Packages, AbsOf
<1> QED
  BY <1>5, <1>6

LEMMA AssertConflictKeeps ==
  ASSUME StackInv, AssertConflict
  PROVE  StackInv'
<1>1. UNCHANGED <<inst, branches, level, pc>> /\ pc = "assertions"
  BY DEF AssertConflict, Asserting
<1>2. CASE UNCHANGED decisionVars
  BY <1>1, <1>2, QuietKeeps DEF Quiet, decisionVars
<1>3. CASE map' = MapKeeping(0) /\ queue' = <<>>
  <2>1. inst.size \in Nat /\ Agree(inst.size, map, queue) /\ level = 1
    BY <1>1 DEF StackInv
  <2>2. Keeps(0, 0)
    <3>1. Len(queue) \in Nat /\ DOMAIN queue = 1 .. Len(queue)
      BY <2>1, Appended DEF Agree
    <3> SUFFICES ASSUME NEW k \in 1 .. Len(queue)
                 PROVE  DecisionLevel(queue[k].literal) > 0
      BY <3>1 DEF Keeps
    <3>2. queue[k].literal \in LiteralsOf(inst.size)
      BY <2>1, <3>1 DEF Agree
    <3>3. AbsOf(queue[k].literal) \in 1 .. inst.size
      BY <2>1, <3>2, PackageOfLiteral
    <3>4. map[AbsOf(queue[k].literal)] \in Int
      BY <2>1, <3>3 DEF Agree
    <3>5. map[AbsOf(queue[k].literal)] > 0 \/ map[AbsOf(queue[k].literal)] < 0
      BY <2>1, <3>1 DEF Agree
    <3> QED
      BY <3>4, <3>5 DEF DecisionLevel, Entry, AbsOf
  <2>3. SubSeq(queue, 1, 0) = <<>>
    BY SubSeqEmpty
  <2>4. Agree(inst.size, map', queue') /\ Stacked(map', queue', 0)
    BY <1>3, <2>2, <2>3, RevertStep
  <2>5. queue' = <<>> /\ DOMAIN queue' = {}
    <3>1. queue' = <<>>
      BY <1>3
    <3>2. Len(queue') = 0 /\ IsSequence(queue')
      BY <2>4, <3>1, EmptySeq DEF Agree
    <3> QED
      BY <3>1, <3>2, Appended
  <2>6. Stacked(map', queue', level)
    BY <2>5 DEF Stacked
  <2> QED
    BY <1>1, <2>1, <2>4, <2>6 DEF StackInv, Agree, Stacked, Unwinds, LevelIn
<1> QED
  BY <1>2, <1>3 DEF AssertConflict

\* A new branch is the highest.
LEMMA BranchPushed ==
  ASSUME NEW bs, NEW lv \in Nat \ {0}, Unwinds(bs, lv), NEW lits
  PROVE  /\ Unwinds(bs, lv + 1)
         /\ Unwinds(Append(bs, [literals |-> lits, level |-> lv]), lv + 1)
<1> DEFINE new == Append(bs, [literals |-> lits, level |-> lv])
           n == Len(bs)
<1>1. /\ IsSequence(new) /\ n \in Nat /\ DOMAIN bs = 1 .. n /\ DOMAIN new = 1 .. n + 1
      /\ \A b \in 1 .. n : new[b] = bs[b]
      /\ new[n + 1] = [literals |-> lits, level |-> lv]
  BY Appended DEF Unwinds
<1> HIDE DEF new, n
<1>2. /\ \A b \in 1 .. n : bs[b].level \in Nat \ {0} /\ bs[b].level < lv
      /\ \A b, c \in 1 .. n : b <= c => bs[b].level <= bs[c].level
  BY <1>1 DEF Unwinds
<1>3. new[n + 1].level = lv
  BY <1>1
<1>4. \A b \in 1 .. n + 1 : new[b].level \in Nat \ {0} /\ new[b].level < lv + 1
  BY <1>1, <1>2, <1>3
<1>5. ASSUME NEW b \in 1 .. n + 1, NEW c \in 1 .. n + 1, b <= c
      PROVE  new[b].level <= new[c].level
  <2>1. CASE c = n + 1
    BY <2>1, <1>3, <1>4
  <2>2. CASE c \in 1 .. n
    BY <2>2, <1>1, <1>2, <1>5
  <2> QED
    BY <2>1, <2>2, <1>1
<1>6. Unwinds(new, lv + 1)
  BY <1>1, <1>4, <1>5 DEF Unwinds
<1>7. Unwinds(bs, lv + 1)
  BY <1>1, <1>2 DEF Unwinds
<1> QED
  BY <1>6, <1>7 DEF new

LEMMA SelectAndInstallKeeps ==
  ASSUME StackInv, NEW candidates, NEW id, SelectAndInstall(candidates, id)
  PROVE  StackInv' /\ LevelOneKept
<1> DEFINE chosen == SelectPreferred(inst, candidates, rules[id].required)
<1>1. /\ SetPropagateLearn(map, queue, level, Head(chosen), id)
      /\ \/ branches' = branches
         \/ branches' = Append(branches, [literals |-> Tail(chosen), level |-> level])
      /\ UNCHANGED inst
  BY DEF SelectAndInstall
<1>2. /\ inst.size \in Nat /\ level \in Nat \ {0} /\ Unwinds(branches, level)
      /\ Agree(inst.size, map, queue) /\ Stacked(map, queue, level)
  BY DEF StackInv
<1> HIDE DEF chosen
<1>3. Unwinds(branches', level + 1)
  BY <1>1, <1>2, BranchPushed
<1>4. /\ StackInv'
      /\ \A p \in Packages : AbsOf(map[p]) = 1 => map'[p] = map[p]
  BY <1>1, <1>2, <1>3, NextLevelKeeps
<1> QED
  BY <1>4 DEF LevelOneKept

LEMMA LearnKeeps ==
  ASSUME StackInv, Learn
  PROVE  StackInv' /\ LevelOneKept
<1> DEFINE lv == an.rule_level
<1>1. PICK keep \in 0 .. Len(queue), kept \in 0 .. Len(branches) :
        /\ Keeps(keep, lv)
        /\ BranchesBelow(kept, branches, lv)
        /\ DecideOn(MapKeeping(keep), SubSeq(queue, 1, keep), an.learned, lv, Len(rules) + 1)
        /\ branches' = SubSeq(branches, 1, kept)
  BY DEF Learn
<1>2. /\ lv \in 1 .. level - 1 /\ level' = lv /\ pc' = "propagate"
      /\ UNCHANGED inst
  BY DEF Learn
<1>3. inst.size \in Nat /\ level \in Nat \ {0} /\ Unwinds(branches, level)
  BY DEF StackInv
<1>4. lv \in Nat \ {0} /\ lv \in Nat
  BY <1>2, <1>3
<1> HIDE DEF lv
<1>5. /\ Agree(inst.size, MapKeeping(keep), SubSeq(queue, 1, keep))
      /\ Stacked(MapKeeping(keep), SubSeq(queue, 1, keep), lv)
      /\ \A p \in 1 .. inst.size : AbsOf(map[p]) <= lv => MapKeeping(keep)[p] = map[p]
  BY <1>1, <1>4, RevertStep
<1>6. /\ Agree(inst.size, map', queue')
      /\ Stacked(map', queue', lv)
      /\ \A p \in 1 .. inst.size : MapKeeping(keep)[p] # 0 => map'[p] = MapKeeping(keep)[p]
  BY <1>1, <1>3, <1>4, <1>5, DecideStep
<1>7. Unwinds(branches', lv)
  BY <1>1, <1>3, <1>4, RevertBranches
<1>8. StackInv'
  BY <1>2, <1>3, <1>4, <1>6, <1>7 DEF StackInv, Agree, Stacked, Unwinds, LevelIn
<1>9. LevelOneKept
  BY <1>4, <1>5, <1>6 DEF LevelOneKept, Packages, AbsOf
<1> QED
  BY <1>8, <1>9

LEMMA RetryBranchKeeps ==
  ASSUME StackInv, RetryBranch
  PROVE  StackInv' /\ LevelOneKept
<1> DEFINE Retry(b, k, keep, kept) ==
             LET lv == branches[b].level
                 remaining == [branches EXCEPT ![b] =
                                 [literals |-> RemoveAt(@.literals, k), level |-> lv]]
             IN /\ Keeps(keep, lv)
                /\ BranchesBelow(kept, remaining, lv)
                /\ branches' = SubSeq(remaining, 1, kept)
                /\ SetPropagateLearn(MapKeeping(keep), SubSeq(queue, 1, keep), lv,
                                     branches[b].literals[k], queue[keep].reason)
<1>0. \E b \in DOMAIN branches : \E k, keep, kept : Retry(b, k, keep, kept)
  BY DEF RetryBranch
<1>. PICK b \in DOMAIN branches : \E k, keep, kept : Retry(b, k, keep, kept)
  BY <1>0
<1>1. PICK k, keep, kept : Retry(b, k, keep, kept)
  OBVIOUS
<1> DEFINE lv == branches[b].level
           branch == [literals |-> RemoveAt(branches[b].literals, k), level |-> lv]
           remaining == [branches EXCEPT ![b] = branch]
<1>2. /\ Keeps(keep, lv)
      /\ BranchesBelow(kept, remaining, lv)
      /\ branches' = SubSeq(remaining, 1, kept)
      /\ SetPropagateLearn(MapKeeping(keep), SubSeq(queue, 1, keep), lv,
                           branches[b].literals[k], queue[keep].reason)
  BY <1>1
<1>3. /\ inst.size \in Nat /\ level \in Nat \ {0} /\ Unwinds(branches, level)
      /\ UNCHANGED inst
  BY DEF StackInv, RetryBranch
<1>4. lv \in Nat \ {0} /\ lv \in Nat
  BY <1>3 DEF Unwinds
<1>5. branch.level = lv
  OBVIOUS
<1> HIDE DEF branch
<1>6. Unwinds(remaining, level)
  <2> DEFINE S == Range(branches) \cup {branch}
  <2>1. branches \in Seq(S) /\ b \in 1 .. Len(branches) /\ branch \in S
    BY <1>1, <1>3, SeqMonotonic, LenProperties DEF Unwinds, IsSequence
  <2>2. remaining \in Seq(S) /\ Len(remaining) = Len(branches)
    BY <2>1, ExceptSeq
  <2>3. IsSequence(remaining)
    BY <2>2, SeqOfRange DEF IsSequence
  <2>4. DOMAIN remaining = DOMAIN branches
    OBVIOUS
  <2>5. \A c \in DOMAIN branches : remaining[c].level = branches[c].level
    BY <1>5
  <2> HIDE DEF remaining
  <2> QED
    BY <2>3, <2>4, <2>5, <1>3 DEF Unwinds
<1> HIDE DEF lv, remaining
<1>7. Unwinds(branches', lv)
  BY <1>2, <1>4, <1>6, RevertBranches
<1>8. Unwinds(branches', lv + 1)
  BY <1>4, <1>7, BranchPushed
<1>9. /\ Agree(inst.size, MapKeeping(keep), SubSeq(queue, 1, keep))
      /\ Stacked(MapKeeping(keep), SubSeq(queue, 1, keep), lv)
      /\ \A p \in 1 .. inst.size : AbsOf(map[p]) <= lv => MapKeeping(keep)[p] = map[p]
  BY <1>2, <1>4, RevertStep
<1>10. /\ StackInv'
       /\ \A p \in Packages : AbsOf(MapKeeping(keep)[p]) = 1
                               => map'[p] = MapKeeping(keep)[p]
  BY <1>2, <1>3, <1>4, <1>8, <1>9, NextLevelKeeps
<1>11. LevelOneKept
  BY <1>4, <1>9, <1>10 DEF LevelOneKept, Packages
<1> QED
  BY <1>10, <1>11

-----------------------------------------------------------------------------
(***************************************************************************)
(* The theorems.                                                           *)
(***************************************************************************)

\* Every step keeps the invariant and, once the search has begun, the
\* decisions of level 1.
LEMMA StepKeeps ==
  ASSUME StackInv, [Next]_vars
  PROVE  StackInv' /\ (pc # "assertions" => LevelOneKept)
<1>1. CASE Quiet
  BY <1>1, QuietKeeps DEF Quiet, LevelOneKept
<1>2. CASE AssertDecide
  <2>1. Decide(AssertionLiteral, level, AssertionId) /\ UNCHANGED <<inst, branches, level, pc>>
    BY <1>2 DEF AssertDecide, Asserting, searchVars, StackInv
  <2> QED
    BY <2>1, DecideKeeps
<1>3. CASE AssertConflict
  BY <1>3, AssertConflictKeeps DEF AssertConflict, Asserting
<1>4. CASE VisitImply
  <2>1. PICK l : Decide(l, level, Node.rule)
    BY <1>4 DEF VisitImply
  <2>2. UNCHANGED <<inst, branches, level, pc>>
    BY <1>4 DEF VisitImply, searchVars
  <2> QED
    BY <2>1, <2>2, DecideKeeps
<1>5. CASE Learn
  BY <1>5, LearnKeeps
<1>6. CASE InstallRequest \/ InstallProvider
  BY <1>6, SelectAndInstallKeeps DEF InstallRequest, InstallProvider
<1>7. CASE RetryBranch
  BY <1>7, RetryBranchKeeps
<1> QED
  BY <1>1, <1>2, <1>3, <1>4, <1>5, <1>6, <1>7, QuietSteps DEF Next

\* The invariant holds of every reachable state.
THEOREM StackInvariant == Spec => []StackInv
<1>1. Init => StackInv
  BY StackInvInit
<1>2. StackInv /\ [Next]_vars => StackInv'
  BY StepKeeps
<1> QED
  BY <1>1, <1>2, PTL DEF Spec

\* The decision map and the decision stack always tell the same decisions,
\* each package being decided once.
THEOREM MapAndStackAgree == Spec => []DecisionsAgree
<1>1. StackInv => DecisionsAgree
  BY StackInvImplies
<1> QED
  BY <1>1, StackInvariant, PTL

\* The levels never decrease along the stack, so that revert may stop at the
\* first decision low enough.
THEOREM StackedByLevel == Spec => []LevelsStacked
<1>1. StackInv => LevelsStacked
  BY StackInvImplies
<1> QED
  BY <1>1, StackInvariant, PTL

\* The branches are stacked by level, below the current one.
THEOREM BranchesByLevel == Spec => []BranchesStacked
<1>1. StackInv => BranchesStacked
  BY StackInvImplies
<1> QED
  BY <1>1, StackInvariant, PTL

\* The map, the decisions and the branches are undone together.
THEOREM StacksAlwaysAgree == Spec => []StacksAgree
<1> QED
  BY MapAndStackAgree, StackedByLevel, BranchesByLevel, PTL DEF StacksAgree

\* A decision of level 1 is never undone once the search has begun, whatever
\* the solver learns, reverts or retries.
THEOREM LevelOneIsKept == Spec => LevelOneStays
<1>1. StackInv /\ [Next]_vars =>
        [pc # "assertions" => \A p \in Packages : AbsOf(map[p]) = 1 => map'[p] = map[p]]_vars
  BY StepKeeps DEF LevelOneKept
<1> QED
  BY <1>1, StackInvariant, PTL DEF Spec, LevelOneStays

-----------------------------------------------------------------------------
(***************************************************************************)
(* Numbers.                                                                *)
(***************************************************************************)

\* The first of the sorted literals exists.
LEMMA FirstExists ==
  ASSUME NEW size \in Nat, NEW lits \in SUBSET (-size .. size), lits # {}
  PROVE  \E l \in lits : IsFirst(l, lits)
<1> DEFINE U == {l + size : l \in lits}
<1>1. U \in SUBSET Nat /\ U # {}
  OBVIOUS
<1>2. PICK u \in U : \A v \in U : u <= v
  BY <1>1, LeastNumber
<1>3. PICK l \in lits : u = l + size
  OBVIOUS
<1>4. ASSUME NEW m \in lits
      PROVE  l <= m
  <2>1. m + size \in U
    OBVIOUS
  <2> QED
    BY <2>1, <1>2, <1>3
<1> QED
  BY <1>4 DEF IsFirst

-----------------------------------------------------------------------------
(***************************************************************************)
(* Sequences.                                                              *)
(***************************************************************************)

\* RemoveAt keeps only elements of the sequence.
LEMMA RemovedElements ==
  ASSUME NEW S, NEW s \in Seq(S), NEW i \in 1 .. Len(s)
  PROVE  RemoveAt(s, i) \in Seq(S)
<1>1. Len(s) \in Nat /\ \A k \in 1 .. Len(s) : s[k] \in S
  BY ElementOfSeq
<1>2. SubSeq(s, 1, i - 1) \in Seq(S)
  BY <1>1, SubSeqProperties
<1>3. SubSeq(s, i + 1, Len(s)) \in Seq(S)
  BY <1>1, SubSeqProperties
<1> QED
  BY <1>2, <1>3, ConcatProperties DEF RemoveAt

\* A sequence of fewer elements is one of more.
LEMMA SeqWider ==
  ASSUME NEW S, NEW T, S \subseteq T, NEW s \in Seq(S)
  PROVE  s \in Seq(T)
  BY SeqMonotonic

-----------------------------------------------------------------------------
(***************************************************************************)
(* Decisions, in a state of the invariant of the stack.                    *)
(***************************************************************************)

\* A literal, its negation and its package.
LEMMA LiteralFacts ==
  ASSUME inst.size \in Nat, NEW l \in Literals
  PROVE  /\ l \in Int /\ l # 0 /\ -l \in Literals /\ -(-l) = l
         /\ AbsOf(l) \in Packages /\ AbsOf(-l) = AbsOf(l)
         /\ AbsOf(l) = l \/ AbsOf(l) = -l
  BY DEF Literals, LiteralsOf, Packages, AbsOf

\* The literals of a package.
LEMMA SamePackage ==
  ASSUME inst.size \in Nat, NEW l \in Literals, NEW m \in Literals, AbsOf(l) = AbsOf(m)
  PROVE  l = m \/ l = -m
  BY DEF Literals, LiteralsOf, AbsOf

\* A literal is undecided, satisfied or false.
LEMMA StatusFacts ==
  ASSUME StackInv, NEW l \in Literals
  PROVE  /\ Entry(l) \in Int /\ Entry(-l) = Entry(l)
         /\ Undecided(l) \/ Satisfy(l) \/ Conflict(l)
         /\ ~(Undecided(l) /\ Satisfy(l)) /\ ~(Undecided(l) /\ Conflict(l))
         /\ ~(Satisfy(l) /\ Conflict(l))
         /\ Satisfy(-l) <=> Conflict(l)
         /\ Conflict(-l) <=> Satisfy(l)
         /\ DecisionLevel(l) \in Nat /\ DecisionLevel(-l) = DecisionLevel(l)
         /\ Undecided(l) <=> DecisionLevel(l) = 0
<1>1. inst.size \in Nat /\ map \in [1 .. inst.size -> Int]
  BY DEF StackInv, Agree
<1>2. l \in Int /\ l # 0 /\ AbsOf(l) \in 1 .. inst.size /\ AbsOf(-l) = AbsOf(l)
  BY <1>1, LiteralFacts DEF Packages
<1>3. map[AbsOf(l)] \in Int
  BY <1>1, <1>2
<1>4. AbsOf(map[AbsOf(l)]) \in Nat /\ (map[AbsOf(l)] = 0 <=> AbsOf(map[AbsOf(l)]) = 0)
  BY <1>3, AbsOfInteger
<1> QED
  BY <1>2, <1>3, <1>4 DEF Entry, Undecided, Satisfy, Conflict, DecisionLevel

\* The decisions of the stack.
LEMMA QueueFacts ==
  ASSUME StackInv
  PROVE  /\ Len(queue) \in Nat /\ DOMAIN queue = 1 .. Len(queue)
         /\ \A k \in 1 .. Len(queue) :
              /\ queue[k].literal \in Literals /\ Satisfy(queue[k].literal)
              /\ LevelAt(k) \in Nat /\ LevelAt(k) > 0 /\ LevelAt(k) <= level
         /\ \A j, k \in 1 .. Len(queue) :
              /\ j <= k => LevelAt(j) <= LevelAt(k)
              /\ AbsOf(queue[j].literal) = AbsOf(queue[k].literal) => j = k
<1>1. IsSequence(queue)
  BY DEF StackInv, Agree
<1>2. Len(queue) \in Nat /\ DOMAIN queue = 1 .. Len(queue)
  BY <1>1, Appended
<1>3. DecisionsAgree /\ LevelsStacked
  BY StackInvImplies
<1>4. ASSUME NEW k \in 1 .. Len(queue)
      PROVE  /\ queue[k].literal \in Literals /\ Satisfy(queue[k].literal)
             /\ LevelAt(k) \in Nat /\ LevelAt(k) > 0 /\ LevelAt(k) <= level
  <2>1. queue[k].literal \in Literals
    BY <1>2 DEF StackInv, Agree, Literals
  <2>2. Satisfy(queue[k].literal)
    BY <1>2, <1>3 DEF DecisionsAgree
  <2>3. LevelAt(k) \in Nat /\ LevelAt(k) # 0
    BY <2>1, <2>2, StatusFacts DEF LevelAt
  <2> QED
    BY <1>2, <1>3, <2>1, <2>2, <2>3 DEF LevelsStacked
<1>5. ASSUME NEW j \in 1 .. Len(queue), NEW k \in 1 .. Len(queue)
      PROVE  /\ j <= k => LevelAt(j) <= LevelAt(k)
             /\ AbsOf(queue[j].literal) = AbsOf(queue[k].literal) => j = k
  BY <1>2, <1>3 DEF DecisionsAgree, LevelsStacked
<1> QED
  BY <1>2, <1>4, <1>5

\* A satisfied literal is on the stack.
LEMMA SatisfiedIsDecided ==
  ASSUME StackInv, NEW l \in Literals, Satisfy(l)
  PROVE  \E k \in 1 .. Len(queue) : queue[k].literal = l /\ LevelAt(k) = DecisionLevel(l)
<1>1. inst.size \in Nat
  BY DEF StackInv
<1>2. AbsOf(l) \in Packages /\ map[AbsOf(l)] # 0
  BY <1>1, LiteralFacts DEF Satisfy, Entry
<1>3. DecisionsAgree
  BY StackInvImplies
<1>4. PICK k \in DOMAIN queue : AbsOf(queue[k].literal) = AbsOf(l)
  BY <1>2, <1>3 DEF DecisionsAgree
<1>5. k \in 1 .. Len(queue) /\ queue[k].literal \in Literals /\ Satisfy(queue[k].literal)
  BY <1>4, QueueFacts
<1>6. queue[k].literal = l \/ queue[k].literal = -l
  BY <1>1, <1>4, <1>5, SamePackage
<1>7. queue[k].literal = l
  BY <1>5, <1>6, StatusFacts
<1> QED
  BY <1>5, <1>7 DEF LevelAt

\* A false literal is the negation of a decision.
LEMMA FalseIsDecided ==
  ASSUME StackInv, NEW l \in Literals, Conflict(l)
  PROVE  \E k \in 1 .. Len(queue) : queue[k].literal = -l /\ LevelAt(k) = DecisionLevel(l)
<1>1. inst.size \in Nat
  BY DEF StackInv
<1>2. -l \in Literals
  BY <1>1, LiteralFacts
<1>3. Satisfy(-l) /\ DecisionLevel(-l) = DecisionLevel(l)
  BY StatusFacts
<1> QED
  BY <1>2, <1>3, SatisfiedIsDecided

\* The converse.
LEMMA NegatedDecision ==
  ASSUME StackInv, NEW l \in Literals, NEW k \in 1 .. Len(queue), queue[k].literal = -l
  PROVE  Conflict(l) /\ DecisionLevel(l) = LevelAt(k)
  BY QueueFacts, StatusFacts DEF LevelAt

-----------------------------------------------------------------------------
(***************************************************************************)
(* What a step does to the decisions: those above `floor` are popped, down *)
(* to `keep`, and one is pushed; or nothing; or the stack is emptied.      *)
(***************************************************************************)

Becomes(keep, floor, l, lv, reason) ==
  /\ keep \in 0 .. Len(queue)
  /\ Len(queue') = keep + 1
  /\ DOMAIN queue' = 1 .. keep + 1
  /\ \A k \in 1 .. keep : queue'[k] = queue[k] /\ LevelAt(k)' = LevelAt(k) /\ LevelAt(k) <= floor
  /\ \A k \in keep + 1 .. Len(queue) : LevelAt(k) > floor
  /\ queue'[keep + 1] = [literal |-> l, reason |-> reason]
  /\ l \in Literals
  /\ \A k \in {keep + 1} : LevelAt(k)' = lv
  /\ level' = lv
  /\ \A p \in Packages : map[p] # 0 /\ AbsOf(map[p]) <= floor => map'[p] = map[p]

\* decide, on what is left of the stack.
LEMMA DecideBecomes ==
  ASSUME StackInv, StackInv', UNCHANGED inst,
         NEW m, NEW keep \in 0 .. Len(queue), NEW floor \in Nat,
         \A k \in 1 .. keep : LevelAt(k) <= floor,
         \A k \in keep + 1 .. Len(queue) : LevelAt(k) > floor,
         \A p \in Packages : AbsOf(map[p]) <= floor => m[p] = map[p],
         m \in [Packages -> Int],
         NEW l, NEW reason, DecideOn(m, SubSeq(queue, 1, keep), l, level', reason)
  PROVE  Becomes(keep, floor, l, level', reason)
<1>1. Len(queue) \in Nat /\ IsSequence(queue)
  BY QueueFacts DEF StackInv, Agree
<1>2. /\ l \in Literals /\ m[AbsOf(l)] = 0
      /\ map' = [m EXCEPT ![AbsOf(l)] = IF l > 0 THEN level' ELSE -level']
      /\ queue' = Append(SubSeq(queue, 1, keep), [literal |-> l, reason |-> reason])
  BY DEF DecideOn, CanDecide
<1> DEFINE q == SubSeq(queue, 1, keep)
<1>3. IsSequence(q) /\ Len(q) = keep /\ \A k \in 1 .. keep : q[k] = queue[k]
  BY <1>1, Prefix
<1> HIDE DEF q
<1>4. /\ Len(queue') = keep + 1 /\ DOMAIN queue' = 1 .. keep + 1
      /\ \A k \in 1 .. keep : queue'[k] = queue[k]
      /\ queue'[keep + 1] = [literal |-> l, reason |-> reason]
  BY <1>2, <1>3, Appended DEF q
<1>5. inst.size \in Nat /\ level' \in Nat
  BY DEF StackInv
<1>6. l \in Int /\ l # 0 /\ AbsOf(l) \in Packages
  BY <1>2, <1>5, LiteralFacts
<1>7. map'[AbsOf(l)] = IF l > 0 THEN level' ELSE -level'
  BY <1>2, <1>6
<1>8. LevelAt(keep + 1)' = level'
  BY <1>4, <1>5, <1>7 DEF LevelAt, DecisionLevel, Entry, AbsOf
<1>9. ASSUME NEW p \in Packages, map[p] # 0, AbsOf(map[p]) <= floor
      PROVE  map'[p] = map[p]
  BY <1>2, <1>6, <1>9
<1>10. ASSUME NEW k \in 1 .. keep
       PROVE  LevelAt(k)' = LevelAt(k)
  <2>1. k \in 1 .. Len(queue)
    BY <1>1
  <2>2. queue[k].literal \in Literals /\ Satisfy(queue[k].literal)
    BY <2>1, QueueFacts
  <2>3. AbsOf(queue[k].literal) \in Packages /\ map[AbsOf(queue[k].literal)] # 0
    BY <1>5, <2>2, LiteralFacts DEF Satisfy, Entry
  <2>4. AbsOf(map[AbsOf(queue[k].literal)]) <= floor
    BY DEF LevelAt, DecisionLevel, Entry
  <2>5. map'[AbsOf(queue[k].literal)] = map[AbsOf(queue[k].literal)]
    BY <1>9, <2>3, <2>4
  <2> QED
    BY <1>4, <2>5 DEF LevelAt, DecisionLevel, Entry
<1> QED
  BY <1>2, <1>4, <1>8, <1>9, <1>10 DEF Becomes

\* A literal decided at the current level.
LEMMA DecideAtLevel ==
  ASSUME StackInv, StackInv', NEW l, NEW lv, NEW reason,
         DecideOn(map, queue, l, lv, reason), level' = lv, UNCHANGED inst
  PROVE  Becomes(Len(queue), level, l, lv, reason)
<1>1. IsSequence(queue) /\ Len(queue) \in Nat /\ level \in Nat
  BY QueueFacts DEF StackInv, Agree
<1>2. SubSeq(queue, 1, Len(queue)) = queue
  BY <1>1, SubSeqFull DEF IsSequence
<1>3. map \in [Packages -> Int]
  BY DEF StackInv, Agree, Packages
<1>4. \A k \in 1 .. Len(queue) : LevelAt(k) <= level
  BY QueueFacts
<1>5. \A k \in Len(queue) + 1 .. Len(queue) : LevelAt(k) > level
  BY <1>1
<1>6. \A p \in Packages : AbsOf(map[p]) <= level => map[p] = map[p]
  OBVIOUS
<1>7. DecideOn(map, SubSeq(queue, 1, Len(queue)), l, level', reason)
  BY <1>2
<1>8. Len(queue) \in 0 .. Len(queue)
  BY <1>1
<1> QED
  BY <1>1, <1>3, <1>4, <1>5, <1>6, <1>7, <1>8, DecideBecomes

\* A literal decided after a revert.
LEMMA DecideAfterRevert ==
  ASSUME StackInv, StackInv', UNCHANGED inst, NEW floor \in Nat, NEW keep, Keeps(keep, floor),
         NEW l, NEW lv, NEW reason, level' = lv,
         DecideOn(MapKeeping(keep), SubSeq(queue, 1, keep), l, lv, reason)
  PROVE  Becomes(keep, floor, l, lv, reason)
<1>1. /\ keep \in 0 .. Len(queue)
      /\ keep > 0 => LevelAt(keep) <= floor
      /\ \A k \in keep + 1 .. Len(queue) : LevelAt(k) > floor
  BY DEF Keeps, LevelAt
<1>2. ASSUME NEW k \in 1 .. keep
      PROVE  LevelAt(k) <= floor
  <2>1. k \in 1 .. Len(queue) /\ keep \in 1 .. Len(queue) /\ k <= keep /\ keep > 0
    BY <1>1, QueueFacts
  <2> QED
    BY <1>1, <2>1, QueueFacts
<1>3. /\ Agree(inst.size, MapKeeping(keep), SubSeq(queue, 1, keep))
      /\ \A p \in Packages : AbsOf(map[p]) <= floor => MapKeeping(keep)[p] = map[p]
  BY RevertStep DEF Packages
<1>4. MapKeeping(keep) \in [Packages -> Int]
  BY <1>3 DEF Agree, Packages
<1> QED
  BY <1>1, <1>2, <1>3, <1>4, DecideBecomes

-----------------------------------------------------------------------------
(***************************************************************************)
(* The inductive invariant, in parts.  First the shapes: what the indices  *)
(* the solver keeps point to.                                              *)
(***************************************************************************)

RuleOK(r) ==
  /\ r.kind \in RuleKinds /\ r.rule_type \in RuleTypes /\ r.why \in Nat
  /\ r.lits \subseteq Literals
  /\ IsAssertion(r) \/ \E l, m \in r.lits : l # m
  /\ IsMulti(r) => r.rule_type # "request" /\ r.why = 0 /\ \A l \in r.lits : l < 0
  /\ r.rule_type = "learned" => r.why > 0
  /\ r.why > 0 => r.rule_type \in {"learned", "none"}

RulesInv ==
  /\ IsSequence(rules)
  /\ \A id \in RuleIds : RuleOK(rules[id])
  /\ rule_by_id \in Seq({id \in RuleIds : rules[id].rule_type # "none"})
  /\ disabled \subseteq RuleIds

\* A watched literal is one of its rule, in the nodes and in the chains.
WatchedBy(l) == {k \in DOMAIN nodes : l \in rules[nodes[k].rule].lits}

NodeOK(node) ==
  /\ node \in [rule : RuleIds, watch1 : Literals, watch2 : Literals]
  /\ {node.watch1, node.watch2} \subseteq rules[node.rule].lits
  /\ IsMulti(rules[node.rule]) => rules[node.rule].rule_type = "package"

WatchInv ==
  /\ IsSequence(nodes)
  /\ \A k \in DOMAIN nodes : NodeOK(nodes[k])
  /\ chains \in [Literals -> Seq(DOMAIN nodes)]
  /\ \A l \in Literals : chains[l] \in Seq(WatchedBy(l))

RunTyped(r) ==
  /\ DOMAIN r = {"rule_index", "system_level", "caller", "o_level", "position", "i", "n",
                 "rules_count"}
  /\ r.rule_index \in Nat \ {0} /\ r.position \in Nat \ {0} /\ r.i \in Nat \ {0}
  /\ r.system_level \in Nat /\ r.n \in Nat /\ r.rules_count \in Nat

RunInv ==
  /\ cursor \in Nat \ {0}
  /\ RunTyped(run)
  /\ run.rules_count <= Len(rule_by_id) /\ run.i <= run.rules_count + 1
  /\ pc \in Labels

\* A decision that is not propagated yet is at the current level; every
\* level in use has a decision.
QueueInv ==
  /\ queue \in Seq([literal : Literals, reason : RuleIds])
  /\ propagate_index \in 0 .. Len(queue)
  /\ pc = "propagate" => \A k \in propagate_index + 1 .. Len(queue) : LevelAt(k) = level
  /\ pc \in {"requests", "sweep", "branches"} \/ (pc = "run_sat" /\ level > 1)
       => propagate_index = Len(queue)
  /\ \A lv \in 2 .. level : \E k \in DOMAIN queue : LevelAt(k) = lv

(***************************************************************************)
(* The reasons.  Of a MultiConflict rule that forces a decision, the other *)
(* literals were false before it, or become true with it: the first false  *)
(* one that analyze finds is below the decision.                           *)
(***************************************************************************)

\* The visit of rule id is not over, or was cut short by a conflict.
Busy(id) ==
  \/ Visiting /\ Node.rule = id
  \/ pc \in {"conflict", "resolve", "walk", "learn", "done"}

AllAsked(k) ==
  LET id == queue[k].reason
  IN \A m \in rules[id].lits \ {queue[k].literal} :
       \/ FalseBefore(m, k)
       \/ Satisfy(m) /\ DecisionLevel(m) <= LevelAt(k)
       \/ Undecided(m) /\ LevelAt(k) = level /\ Busy(id)

ReasonOK(k) ==
  /\ Forced(k)
  /\ IsMulti(rules[queue[k].reason]) =>
       rules[queue[k].reason].rule_type = "package" /\ AllAsked(k)

ReasonInv == \A k \in DOMAIN queue : IsChoice(k) \/ ReasonOK(k)

\* The rule in conflict is false, at the current level.
Conflicting(r) ==
  /\ \E l \in r.lits : Conflict(l) /\ DecisionLevel(l) = level
  /\ IF IsMulti(r)
     THEN r.rule_type = "package" /\ \E l, m \in r.lits : l # m /\ Conflict(l) /\ Conflict(m)
     ELSE \A l \in r.lits : Conflict(l)

ConflictInv == pc = "conflict" => an.rule \in RuleIds /\ Conflicting(rules[an.rule])

(***************************************************************************)
(* analyze: what its locals count and hold.                                *)
(***************************************************************************)

InAnalysis == pc \in {"resolve", "walk", "learn"}

\* The rules the learned rule comes from, so far.
CurrentPool == learned_pool[Len(learned_pool)]

\* The false literal of a package that is decided.
FalseLiteral(p) == IF map[p] > 0 THEN -p ELSE p

\* A learned rule comes from rules before it.
PoolInv ==
  /\ learned_pool \in Seq(SUBSET RuleIds)
  /\ \A id \in RuleIds : rules[id].why > 0 =>
       /\ rules[id].why <= Len(learned_pool)
       /\ InAnalysis => rules[id].why < Len(learned_pool)
       /\ learned_pool[rules[id].why] \subseteq 1 .. id - 1

AnShape(a) ==
  /\ DOMAIN a = {"rule", "rule_level", "num", "l1num", "seen", "learned", "others",
                 "decision_id"}
  /\ a.rule \in Nat /\ a.num \in Int /\ a.l1num \in Int
  /\ a.seen \subseteq Packages /\ a.others \subseteq Literals

AnTyped == AnShape(an)

PackagesAt(seen, lv) == {p \in seen : AbsOf(map[p]) = lv}
LiteralsAt(lits, lv) == {l \in lits : DecisionLevel(l) = lv}

\* Until the literal to learn is met: the counters count what is seen, and
\* what is neither of level 1 nor of the current level is in `others`.
Collecting(a) ==
  /\ a.num = Cardinality(PackagesAt(a.seen, level))
  /\ a.l1num = Cardinality(PackagesAt(a.seen, 1))
  /\ PackagesOf(a.others) \subseteq a.seen
  /\ \A p \in a.seen : AbsOf(map[p]) \in {1, level} \/ FalseLiteral(p) \in a.others

\* Afterwards only decisions of level 1 are looked for.
Finishing(a) ==
  /\ a.num = 0
  /\ a.l1num = Cardinality(a.seen) + 1
  /\ \A p \in a.seen : AbsOf(map[p]) = 1

\* The packages seen were decided up to decision_id; the literals kept are
\* false, up to rule_level, which is below the current level.
AnBounds(a) ==
  /\ a.decision_id \in 0 .. Len(queue)
  /\ \A p \in a.seen : \E d \in 1 .. a.decision_id : AbsOf(queue[d].literal) = p
  /\ a.rule_level \in 1 .. level - 1
  /\ \A l \in a.others :
       Conflict(l) /\ DecisionLevel(l) > 1 /\ DecisionLevel(l) <= a.rule_level

AnPhase(a, label) ==
  IF a.learned = 0
  THEN label # "learn" /\ Collecting(a) /\ (label = "walk" => a.num > 0)
  ELSE /\ a.learned \in Literals
       /\ Conflict(a.learned) /\ DecisionLevel(a.learned) = level
       /\ label # "learn" => Finishing(a)

AnInv ==
  InAnalysis => level > 1 /\ learned_pool # <<>> /\ AnBounds(an) /\ AnPhase(an, pc)

\* The rule whose literals come next: those that are false were decided
\* before the decision it is the reason of.
Resolvable(a) ==
  LET r == rules[a.rule]
  IN /\ a.rule \in RuleIds
     /\ \A l \in r.lits :
          \/ Satisfy(l)
          \/ Undecided(l) /\ IsMulti(r)
          \/ \E d \in 1 .. a.decision_id : queue[d].literal = -l
     /\ IF a.learned = 0
        THEN a.num > 0 \/ (a.seen = {} /\ Conflicting(r))
        ELSE \A l \in r.lits : Conflict(l) => DecisionLevel(l) = 1

ResolveInv == pc = "resolve" => Resolvable(an)

(***************************************************************************)
(* Soundness: what is collected follows from the rules it comes from.      *)
(***************************************************************************)

\* A set of packages satisfies one of the literals.
SatisfiedBy(S, lits) == \E l \in lits : IF l > 0 THEN l \in S ELSE -l \notin S

Follows(ids, lits) ==
  \A S \in Sets : /\ AllowedByPackages(S)
                  /\ \A q \in ids : Holds(S, rules[q])
                  => SatisfiedBy(S, lits)

FalseLiterals(r) == {l \in r.lits : Conflict(l)}

\* The rule under construction, before the literals of level 1 are resolved.
Collected(a) == {FalseLiteral(p) : p \in a.seen} \cup a.others \cup ({a.learned} \ {0})

SoundInv ==
  /\ pc = "resolve" =>
       Follows(CurrentPool \cup {an.rule}, Collected(an) \cup FalseLiterals(rules[an.rule]))
  /\ pc = "walk" => Follows(CurrentPool, Collected(an))
  /\ pc = "learn" => Follows(CurrentPool, an.others \cup {an.learned})

LearnedInv ==
  \A id \in RuleIds : rules[id].why > 0 => Follows(learned_pool[rules[id].why], rules[id].lits)

(***************************************************************************)
(* The pass over the assertions, and the problems.                         *)
(***************************************************************************)

\* A decision of the pass is made by an assertion that is enabled.
Asserted(k) ==
  LET id == queue[k].reason
  IN /\ rules[id].lits = {queue[k].literal} /\ rules[id].kind = "generic"
     /\ id \in Range(rule_by_id) /\ id \notin disabled

EnabledAssertion(i) == IsAssertion(rules[rule_by_id[i]]) /\ rule_by_id[i] \notin disabled

AssertInv ==
  /\ pc = "assertions" =>
       /\ level = 1 /\ branches = <<>> /\ learned_pool = <<>> /\ propagate_index = 0
       /\ inst \in Instances /\ rules = inst.rules
       /\ \A k \in DOMAIN queue : Asserted(k)
       /\ \A i \in DOMAIN rule_by_id :
            i < run.rule_index /\ EnabledAssertion(i) =>
              \E l \in rules[rule_by_id[i]].lits : Satisfy(l)
       /\ \E i \in DOMAIN rule_by_id : EnabledAssertion(i)
  /\ pc # "assertions" => \E k \in DOMAIN queue : LevelAt(k) = 1

\* No set of packages satisfies the package rules and those, not learned, that
\* the problem names.
Unsatisfiable(problem) ==
  ~\E S \in Sets :
     /\ \A id \in problem.rules : rules[id].rule_type # "learned" => Holds(S, rules[id])
     /\ AllowedByPackages(S)

ProblemsInv ==
  /\ IsSequence(problems)
  /\ \A k \in DOMAIN problems :
       /\ problems[k].rules \subseteq RuleIds
       /\ problems[k].detached \/ Unsatisfiable(problems[k])

SolverInv ==
  /\ StackInv
  /\ RulesInv /\ WatchInv /\ RunInv /\ QueueInv
  /\ ReasonInv /\ ConflictInv
  /\ PoolInv /\ AnTyped /\ AnInv /\ ResolveInv
  /\ SoundInv /\ LearnedInv
  /\ AssertInv /\ ProblemsInv

-----------------------------------------------------------------------------
(***************************************************************************)
(* What most steps leave alone.                                            *)
(***************************************************************************)

\* Which actions change what: the rules only by Learn, the graph only by Learn and
\* a moved watch, disabled rules only by an assertion in conflict.
LEMMA Frames ==
  ASSUME [Next]_vars
  PROVE  /\ UNCHANGED inst
         /\ Learn \/ UNCHANGED <<rules, rule_by_id>>
         /\ Learn \/ VisitMoveWatch \/ UNCHANGED <<nodes, chains>>
         /\ AssertConflict \/ UNCHANGED disabled
         /\ BeginAnalysis \/ Resolve \/ WalkReason \/ UNCHANGED learned_pool
         /\ AssertConflict \/ Unsolvable \/ UNCHANGED problems
<1> USE DEF decisionVars, searchVars, ruleVars, watchVars
<1>1. CASE AssertSkip \/ AssertDecide \/ AssertConflict \/ AssertionsDone \/ RunSat
  BY <1>1 DEF AssertSkip, AssertDecide, AssertConflict, AssertionsDone, RunSat, Asserting
<1>2. CASE VisitSettled \/ VisitMoveWatch \/ VisitImply \/ VisitConflict \/ NextDecision
  BY <1>2, Zenon DEF VisitSettled, VisitMoveWatch, VisitImply, VisitConflict, NextDecision
<1>3. CASE Propagated \/ Unsolvable \/ BeginAnalysis \/ Resolve
  BY <1>3 DEF Propagated, Unsolvable, BeginAnalysis, Resolve
<1>4. CASE WalkEnd \/ WalkLearn \/ WalkReason \/ Learn
  BY <1>4, Zenon DEF WalkEnd, WalkLearn, WalkReason, Learn
<1>5. CASE SkipRequest \/ InstallRequest \/ RequestsDone \/ SkipRule \/ InstallProvider \/ Swept
  BY <1>5 DEF SkipRequest, InstallRequest, RequestsDone, SkipRule, InstallProvider, Swept,
              SelectAndInstall
<1>6. CASE RetryBranch \/ BranchesDone \/ Terminated \/ UNCHANGED vars
  BY <1>6 DEF RetryBranch, BranchesDone, Terminated, vars
<1> QED
  BY <1>1, <1>2, <1>3, <1>4, <1>5, <1>6 DEF Next

-----------------------------------------------------------------------------
(***************************************************************************)
(* The rules.                                                              *)
(***************************************************************************)

\* Sets of literals are finite, so that their elements can be counted.
LEMMA FiniteLiterals ==
  ASSUME inst.size \in Nat, NEW lits \in SUBSET Literals
  PROVE  IsFiniteSet(lits) /\ Cardinality(lits) \in Nat
<1>1. -inst.size \in Int /\ inst.size \in Int
  OBVIOUS
<1>2. IsFiniteSet(-inst.size .. inst.size)
  BY <1>1, FS_Interval
<1>3. lits \subseteq -inst.size .. inst.size
  BY DEF Literals, LiteralsOf
<1> QED
  BY <1>2, <1>3, FS_Subset, FS_CardinalityType

\* An assertion has one literal.
LEMMA AssertionFacts ==
  ASSUME inst.size \in Nat, NEW r, r.lits \subseteq Literals
  PROVE  IsAssertion(r) <=> r.kind = "generic" /\ \E l \in Literals : r.lits = {l}
<1>1. IsFiniteSet(r.lits)
  BY FiniteLiterals
<1>2. Cardinality(r.lits) = 1 <=> \E l : r.lits = {l}
  BY <1>1, FS_Singleton
<1> QED
  BY <1>2 DEF IsAssertion

\* Rules are only added.
Grown ==
  /\ inst' = inst
  /\ Len(rules) \in Nat /\ Len(rules') \in Nat /\ Len(rules) <= Len(rules')
  /\ \A id \in RuleIds : id \in RuleIds' /\ rules'[id] = rules[id]
  /\ Len(rule_by_id) \in Nat /\ Len(rule_by_id') \in Nat
  /\ Len(rule_by_id) <= Len(rule_by_id')
  /\ Literals' = Literals /\ Packages' = Packages

\* The rule that Learn adds.
IsTheLearned(r) ==
  /\ r.kind = "generic" /\ r.lits = {an.learned} \cup an.others
  /\ r.why = Len(learned_pool) /\ r.rule_type \in {"learned", "none"}

\* The rule Learn appends has the shape of a rule: what it holds are literals of
\* the instance, two of them at least unless it is an assertion.
LEMMA LearnedRuleOK ==
  ASSUME SolverInv, Learn, NEW r, IsTheLearned(r)
  PROVE  RuleOK(r)
<1>1. inst.size \in Nat /\ learned_pool \in Seq(SUBSET RuleIds)
  BY DEF SolverInv, StackInv, PoolInv
<1>2. pc = "learn" /\ InAnalysis /\ an.learned # 0
  BY DEF Learn, InAnalysis
<1>3. learned_pool # <<>> /\ an.learned \in Literals
  BY <1>2 DEF SolverInv, AnInv, AnBounds, AnPhase
<1>4. Len(learned_pool) \in Nat /\ Len(learned_pool) > 0
  BY <1>1, <1>3, EmptySeq
<1>5. an.others \subseteq Literals
  BY DEF SolverInv, AnTyped, AnShape
<1>6. r.lits \subseteq Literals /\ r.lits # {}
  BY <1>3, <1>5 DEF IsTheLearned
<1>7. IsAssertion(r) \/ \E l, m \in r.lits : l # m
  <2> SUFFICES ASSUME \A l, m \in r.lits : l = m
               PROVE  IsAssertion(r)
    OBVIOUS
  <2>1. PICK l \in r.lits : TRUE
    BY <1>6
  <2>2. r.lits = {l}
    BY <2>1
  <2> QED
    BY <1>1, <1>6, <2>2, AssertionFacts DEF IsTheLearned
<1>8. r.kind \in RuleKinds /\ r.rule_type \in RuleTypes /\ ~IsMulti(r)
  BY DEF RuleKinds, RuleTypes, IsMulti, IsTheLearned
<1> QED
  BY <1>4, <1>6, <1>7, <1>8 DEF RuleOK, IsTheLearned

\* The fields of a learned rule, before and after rules.add gives it its type.
LEMMA LearnedFields ==
  ASSUME NEW lits, NEW why
  PROVE  LET r == Learned(lits, why)
             typed == [r EXCEPT !.rule_type = "learned"]
         IN /\ r.kind = "generic" /\ r.lits = lits /\ r.why = why /\ r.rule_type = "none"
            /\ typed.kind = "generic" /\ typed.lits = lits /\ typed.why = why
            /\ typed.rule_type = "learned"
  BY DEF Learned, NewRule

\* The storage after Learn.
LEMMA LearnedStored ==
  ASSUME SolverInv, Learn
  PROVE  /\ Grown /\ Len(rules') = Len(rules) + 1
         /\ IsTheLearned(rules'[Len(rules) + 1])
         /\ RulesInv'
<1> DEFINE r == Learned({an.learned} \cup an.others, Len(learned_pool))
           typed == [r EXCEPT !.rule_type = "learned"]
           n == Len(rules)
<1>1. /\ rules' = AddToStorage(rules, r, "learned")
      /\ rule_by_id' = AddToRuleById(rules, rule_by_id, r)
      /\ UNCHANGED <<inst, disabled>>
  BY DEF Learn
<1>2. /\ IsSequence(rules) /\ \A id \in RuleIds : RuleOK(rules[id])
      /\ rule_by_id \in Seq({id \in RuleIds : rules[id].rule_type # "none"})
      /\ disabled \subseteq RuleIds
  BY DEF SolverInv, RulesInv
<1>3. /\ r.kind = "generic" /\ r.lits = {an.learned} \cup an.others
      /\ r.why = Len(learned_pool) /\ r.rule_type = "none"
      /\ typed.kind = "generic" /\ typed.lits = {an.learned} \cup an.others
      /\ typed.why = Len(learned_pool) /\ typed.rule_type = "learned"
  BY LearnedFields
<1> HIDE DEF r, typed
<1>4. PICK new :
        /\ rules' = Append(rules, new) /\ IsTheLearned(new)
        /\ \/ new.rule_type = "none" /\ rule_by_id' = rule_by_id
           \/ new.rule_type = "learned" /\ rule_by_id' = Append(rule_by_id, n + 1)
  <2>1. IsTheLearned(r) /\ IsTheLearned(typed)
    BY <1>3 DEF IsTheLearned
  <2>2. CASE IsDuplicate(rules, r)
    <3>1. rules' = Append(rules, r) /\ rule_by_id' = rule_by_id
      BY <1>1, <2>2 DEF AddToStorage, AddToRuleById
    <3> QED
      BY <3>1, <2>1, <1>3
  <2>3. CASE ~IsDuplicate(rules, r)
    <3>1. rules' = Append(rules, typed) /\ rule_by_id' = Append(rule_by_id, n + 1)
      BY <1>1, <2>3 DEF AddToStorage, AddToRuleById, typed
    <3> QED
      BY <3>1, <2>1, <1>3
  <2> QED
    BY <2>2, <2>3
<1>5. RuleOK(new)
  BY <1>4, LearnedRuleOK
<1>7. /\ IsSequence(rules') /\ n \in Nat /\ Len(rules') = n + 1
      /\ \A id \in 1 .. n : rules'[id] = rules[id]
      /\ rules'[n + 1] = new
  BY <1>2, <1>4, Appended
<1> DEFINE S == {id \in RuleIds : rules[id].rule_type # "none"}
           T == {id \in 1 .. n + 1 : rules'[id].rule_type # "none"}
<1>8. S \subseteq T
  BY <1>7 DEF RuleIds
<1>9. rule_by_id \in Seq(T) /\ Len(rule_by_id) \in Nat
  BY <1>2, <1>8, SeqMonotonic, LenProperties
<1>10. new.rule_type = "learned" => n + 1 \in T
  BY <1>7
<1>11. rule_by_id' \in Seq(T) /\ Len(rule_by_id') \in Nat /\ Len(rule_by_id) <= Len(rule_by_id')
  <2>1. CASE rule_by_id' = rule_by_id
    BY <2>1, <1>9
  <2>2. CASE rule_by_id' = Append(rule_by_id, n + 1) /\ new.rule_type = "learned"
    <3>1. rule_by_id' = Append(rule_by_id, n + 1)
      BY <2>2
    <3>2. n + 1 \in T
      BY <2>2, <1>10
    <3> HIDE DEF T
    <3> QED
      BY <3>1, <3>2, <1>9, AppendProperties
  <2> QED
    BY <2>1, <2>2, <1>4
<1>12. Grown
  BY <1>1, <1>7, <1>9, <1>11 DEF Grown, RuleIds, Literals, Packages
<1>13. RulesInv'
  <2>1. RuleIds' = 1 .. n + 1
    BY <1>7 DEF RuleIds
  <2>2. ASSUME NEW id \in 1 .. n + 1
        PROVE  RuleOK(rules[id])'
    <3>1. RuleOK(rules'[id])
      BY <1>2, <1>5, <1>7 DEF RuleIds
    <3> QED
      BY <3>1, <1>12 DEF RuleOK, Grown
  <2>3. disabled' \subseteq 1 .. n + 1
    BY <1>1, <1>2, <1>7 DEF RuleIds
  <2> QED
    BY <1>7, <1>11, <2>1, <2>2, <2>3 DEF RulesInv
<1>14. /\ Len(rules') = Len(rules) + 1
       /\ IsTheLearned(rules'[Len(rules) + 1])
  BY <1>4, <1>7
<1> QED
  BY <1>12, <1>13, <1>14

\* What RulesInv says of the ids and of the order of iteration.
LEMMA RulesFacts ==
  ASSUME SolverInv
  PROVE  /\ Len(rules) \in Nat /\ RuleIds = 1 .. Len(rules) /\ DOMAIN rules = RuleIds
         /\ Len(rule_by_id) \in Nat /\ DOMAIN rule_by_id = 1 .. Len(rule_by_id)
         /\ \A i \in 1 .. Len(rule_by_id) :
              rule_by_id[i] \in RuleIds /\ rules[rule_by_id[i]].rule_type # "none"
         /\ inst.size \in Nat
<1>1. Len(rules) \in Nat /\ DOMAIN rules = 1 .. Len(rules)
  BY Appended DEF SolverInv, RulesInv
<1>2. /\ Len(rule_by_id) \in Nat /\ DOMAIN rule_by_id = 1 .. Len(rule_by_id)
      /\ \A i \in 1 .. Len(rule_by_id) :
           rule_by_id[i] \in {id \in RuleIds : rules[id].rule_type # "none"}
  BY LenProperties, ElementOfSeq DEF SolverInv, RulesInv
<1> QED
  BY <1>1, <1>2 DEF RuleIds, SolverInv, StackInv

\* Rules are appended and never changed, but for the type of the last one.
LEMMA RulesStep ==
  ASSUME SolverInv, [Next]_vars
  PROVE  Grown /\ RulesInv'
<1>1. CASE Learn
  BY <1>1, LearnedStored
<1>2. CASE ~Learn
  <2>1. UNCHANGED <<inst, rules, rule_by_id>>
    BY <1>2, Frames
  <2>2. Grown
    BY <2>1, RulesFacts DEF Grown, RuleIds, Literals, Packages
  <2>3. disabled' \subseteq RuleIds
    <3>1. CASE AssertConflict
      <4>1. DOMAIN rules = RuleIds /\ disabled \subseteq RuleIds
        BY RulesFacts DEF SolverInv, RulesInv
      <4>2. AssertionId \in RuleIds
        <5>1. run.rule_index \in 1 .. Len(rule_by_id)
          BY <3>1, RulesFacts DEF AssertConflict, Asserting, SolverInv, RunInv, RunTyped
        <5> QED
          BY <5>1, RulesFacts DEF AssertionId
      <4> QED
        BY <3>1, <4>1, <4>2 DEF AssertConflict, RequestsOn
    <3>2. CASE ~AssertConflict
      BY <3>2, Frames DEF SolverInv, RulesInv
    <3> QED
      BY <3>1, <3>2
  <2> QED
    BY <2>1, <2>2, <2>3 DEF RulesInv, RuleOK, RuleIds, SolverInv, Literals
<1> QED
  BY <1>1, <1>2

-----------------------------------------------------------------------------
(***************************************************************************)
(* The deciding steps.                                                     *)
(***************************************************************************)

\* The literal and the rule of the chain that is visited.
LEMMA PropagatedFacts ==
  ASSUME SolverInv, Propagating
  PROVE  /\ propagate_index \in Nat /\ propagate_index + 1 \in 1 .. Len(queue)
         /\ PropagatedLiteral \in Literals
         /\ queue[propagate_index + 1].literal = -PropagatedLiteral
         /\ Conflict(PropagatedLiteral) /\ DecisionLevel(PropagatedLiteral) = level
<1>1. StackInv /\ inst.size \in Nat /\ Len(queue) \in Nat
  BY QueueFacts DEF SolverInv, StackInv
<1>2. propagate_index \in Nat /\ propagate_index + 1 \in 1 .. Len(queue)
  BY <1>1 DEF Propagating, SolverInv, QueueInv
<1> DEFINE d == propagate_index + 1
<1>3. queue[d].literal \in Literals /\ LevelAt(d) = level
  BY <1>1, <1>2, QueueFacts DEF Propagating, SolverInv, QueueInv
<1>4. PropagatedLiteral = -queue[d].literal
  BY DEF PropagatedLiteral
<1>5. PropagatedLiteral \in Literals /\ queue[d].literal = -PropagatedLiteral
  BY <1>1, <1>3, <1>4, LiteralFacts
<1>6. Conflict(PropagatedLiteral) /\ DecisionLevel(PropagatedLiteral) = LevelAt(d)
  BY <1>1, <1>2, <1>5, NegatedDecision
<1> QED
  BY <1>2, <1>3, <1>5, <1>6

\* While a chain is walked, the cursor points to a node that watches the literal
\* being propagated.
LEMMA VisitFacts ==
  ASSUME SolverInv, Visiting
  PROVE  /\ cursor \in 1 .. Len(Chain) /\ Chain \in Seq(WatchedBy(PropagatedLiteral))
         /\ Chain[cursor] \in DOMAIN nodes
         /\ NodeOK(Node) /\ Node.rule \in RuleIds /\ RuleOK(VisitedRule)
         /\ PropagatedLiteral \in VisitedRule.lits /\ OtherWatch \in VisitedRule.lits
<1>1. PropagatedLiteral \in Literals
  BY PropagatedFacts DEF Visiting
<1>2. Chain \in Seq(WatchedBy(PropagatedLiteral))
  BY <1>1 DEF Chain, SolverInv, WatchInv
<1>3. cursor \in 1 .. Len(Chain)
  BY <1>2, LenProperties DEF Visiting, SolverInv, RunInv, RunTyped
<1>4. Chain[cursor] \in WatchedBy(PropagatedLiteral)
  BY <1>2, <1>3, ElementOfSeq
<1>5. Chain[cursor] \in DOMAIN nodes /\ PropagatedLiteral \in VisitedRule.lits
  BY <1>4 DEF WatchedBy, VisitedRule, Node
<1>6. NodeOK(Node)
  BY <1>5 DEF Node, SolverInv, WatchInv
<1>7. Node.rule \in RuleIds /\ OtherWatch \in VisitedRule.lits
  BY <1>6 DEF NodeOK, OtherWatch, VisitedRule
<1>8. RuleOK(VisitedRule)
  BY <1>7 DEF VisitedRule, SolverInv, RulesInv
<1> QED
  BY <1>2, <1>3, <1>5, <1>6, <1>7, <1>8

\* The pass over the assertions stays within the rules.
LEMMA AssertionInRange ==
  ASSUME SolverInv, Asserting
  PROVE  /\ run.rule_index \in 1 .. Len(rule_by_id)
         /\ AssertionId \in RuleIds /\ rules[AssertionId].rule_type # "none"
         /\ RuleOK(rules[AssertionId]) /\ AssertionId \in Range(rule_by_id)
<1>1. run.rule_index \in 1 .. Len(rule_by_id)
  BY RulesFacts DEF Asserting, SolverInv, RunInv, RunTyped
<1>2. AssertionId \in RuleIds /\ rules[AssertionId].rule_type # "none"
  BY <1>1, RulesFacts DEF AssertionId
<1>3. AssertionId \in Range(rule_by_id)
  BY <1>1, RulesFacts DEF AssertionId, Range
<1> QED
  BY <1>1, <1>2, <1>3 DEF SolverInv, RulesInv

\* The literal of an assertion.
LEMMA AssertionIs ==
  ASSUME SolverInv, Asserting, IsOpenAssertion
  PROVE  AssertionLiteral \in Literals /\ rules[AssertionId].lits = {AssertionLiteral}
<1>1. RuleOK(rules[AssertionId]) /\ IsAssertion(rules[AssertionId]) /\ inst.size \in Nat
  BY AssertionInRange, RulesFacts DEF IsOpenAssertion
<1>2. PICK l \in Literals : rules[AssertionId].lits = {l}
  BY <1>1, AssertionFacts DEF RuleOK
<1>3. AssertionLiteral = l
  BY <1>2 DEF AssertionLiteral
<1> QED
  BY <1>2, <1>3

\* make_assertion_rule_decisions decides at the current level.
LEMMA AssertDecideStep ==
  ASSUME SolverInv, StackInv', AssertDecide
  PROVE  Becomes(Len(queue), level, AssertionLiteral, level, AssertionId)
<1>1. level' = level /\ level = 1 /\ UNCHANGED inst
  BY DEF AssertDecide, Asserting, SolverInv, StackInv
<1>2. DecideOn(map, queue, AssertionLiteral, level, AssertionId)
  BY <1>1 DEF AssertDecide, Decide
<1> QED
  BY <1>1, <1>2, DecideAtLevel DEF SolverInv

\* Propagation decides an undecided literal of the rule it visits, no other.
LEMMA VisitImplyStep ==
  ASSUME SolverInv, StackInv', VisitImply
  PROVE  \E l \in VisitedRule.lits :
           /\ Asked(l) /\ Undecided(l)
           /\ Becomes(Len(queue), level, l, level, Node.rule)
           /\ \A p \in Packages : p # AbsOf(l) => map'[p] = map[p]
<1>1. PICK l \in VisitedRule.lits : Asked(l) /\ Decide(l, level, Node.rule)
  BY DEF VisitImply
<1>2. DecideOn(map, queue, l, level, Node.rule)
  BY <1>1 DEF Decide
<1>3. Undecided(l)
  BY <1>2 DEF DecideOn, CanDecide, Undecided, Entry
<1>4. level' = level /\ UNCHANGED inst
  BY DEF VisitImply
<1>5. Becomes(Len(queue), level, l, level, Node.rule)
  BY <1>2, <1>4, DecideAtLevel DEF SolverInv
<1>6. ASSUME NEW p \in Packages, p # AbsOf(l)
      PROVE  map'[p] = map[p]
  <2>1. map \in [Packages -> Int]
    BY DEF SolverInv, StackInv, Agree, Packages
  <2> QED
    BY <2>1, <1>2, <1>6 DEF DecideOn
<1> QED
  BY <1>1, <1>3, <1>5, <1>6

\* The decision that opens a level.
LEMMA SelectStep ==
  ASSUME StackInv, StackInv', NEW candidates, NEW id, SelectAndInstall(candidates, id)
  PROVE  \E l : Becomes(Len(queue), level, l, level + 1, id)
<1> DEFINE l == Head(SelectPreferred(inst, candidates, rules[id].required))
<1>1. SetPropagateLearn(map, queue, level, l, id) /\ UNCHANGED inst
  BY DEF SelectAndInstall
<1>2. DecideOn(map, queue, l, level + 1, id) /\ level' = level + 1
  BY <1>1 DEF SetPropagateLearn
<1> HIDE DEF l
<1>3. Becomes(Len(queue), level, l, level + 1, id)
  BY <1>1, <1>2, DecideAtLevel
<1> QED
  BY <1>3

\* Going back to a branch pops the levels from it on, then decides one above.
LEMMA RetryStep ==
  ASSUME SolverInv, StackInv', RetryBranch
  PROVE  \E keep \in 1 .. Len(queue), floor \in Nat \ {0} : \E l :
           /\ floor < level
           /\ Becomes(keep, floor, l, floor + 1, queue[keep].reason)
           /\ propagate_index' = keep
<1>0. StackInv /\ Len(queue) \in Nat
  BY QueueFacts DEF SolverInv
<1>1. PICK b \in DOMAIN branches : \E k, keep, kept :
        LET lv == branches[b].level
        IN /\ keep \in 1 .. Len(queue)
           /\ Keeps(keep, lv)
           /\ propagate_index' = PropagateIndexAfterRevert(keep)
           /\ SetPropagateLearn(MapKeeping(keep), SubSeq(queue, 1, keep), lv,
                                branches[b].literals[k], queue[keep].reason)
  BY DEF RetryBranch
<1> DEFINE lv == branches[b].level
<1>2. PICK keep \in 1 .. Len(queue) : \E l :
        /\ Keeps(keep, lv)
        /\ propagate_index' = PropagateIndexAfterRevert(keep)
        /\ SetPropagateLearn(MapKeeping(keep), SubSeq(queue, 1, keep), lv, l,
                             queue[keep].reason)
  BY <1>1
<1> HIDE DEF lv
<1> PICK l :
        /\ Keeps(keep, lv)
        /\ propagate_index' = PropagateIndexAfterRevert(keep)
        /\ SetPropagateLearn(MapKeeping(keep), SubSeq(queue, 1, keep), lv, l,
                             queue[keep].reason)
  BY <1>2
<1>3. /\ DecideOn(MapKeeping(keep), SubSeq(queue, 1, keep), l, lv + 1, queue[keep].reason)
      /\ level' = lv + 1 /\ UNCHANGED inst
  BY DEF SetPropagateLearn, RetryBranch
<1>4. lv \in Nat \ {0} /\ lv < level
  BY <1>0 DEF StackInv, Unwinds, lv
<1>5. Becomes(keep, lv, l, lv + 1, queue[keep].reason)
  BY <1>0, <1>3, <1>4, DecideAfterRevert
<1>6. propagate_index = Len(queue)
  BY DEF SolverInv, QueueInv, RetryBranch
<1>7. propagate_index' = keep
  BY <1>0, <1>6 DEF PropagateIndexAfterRevert
<1> QED
  BY <1>4, <1>5, <1>7

\* set_propagate_learn pops to the level it goes back to and decides the literal
\* learned, by the rule just appended.
LEMMA LearnStep ==
  ASSUME SolverInv, StackInv', Learn
  PROVE  \E keep \in 0 .. Len(queue) :
           /\ keep < Len(queue)
           /\ Becomes(keep, an.rule_level, an.learned, an.rule_level, Len(rules) + 1)
           /\ propagate_index' = keep
<1>0. StackInv /\ Len(queue) \in Nat
  BY QueueFacts DEF SolverInv
<1>1. PICK keep \in 0 .. Len(queue) :
        /\ Keeps(keep, an.rule_level)
        /\ DecideOn(MapKeeping(keep), SubSeq(queue, 1, keep), an.learned, an.rule_level,
                    Len(rules) + 1)
        /\ propagate_index' = PropagateIndexAfterRevert(keep)
  BY DEF Learn
<1>2. an.rule_level \in Nat /\ an.rule_level < level /\ level' = an.rule_level /\ UNCHANGED inst
  BY <1>0 DEF Learn, StackInv
<1>3. Becomes(keep, an.rule_level, an.learned, an.rule_level, Len(rules) + 1)
  BY <1>0, <1>1, <1>2, DecideAfterRevert
<1>4. an.learned \in Literals /\ Conflict(an.learned) /\ DecisionLevel(an.learned) = level
  BY DEF Learn, SolverInv, AnInv, AnBounds, AnPhase, InAnalysis
<1>5. PICK k \in 1 .. Len(queue) : LevelAt(k) = level
  BY <1>0, <1>4, FalseIsDecided
<1>6. k \notin 1 .. keep
  <2> SUFFICES ASSUME k \in 1 .. keep PROVE FALSE
    OBVIOUS
  <2>1. LevelAt(k) <= an.rule_level
    BY <1>3 DEF Becomes
  <2> QED
    BY <2>1, <1>0, <1>2, <1>5 DEF StackInv
<1>7. keep < Len(queue)
  BY <1>0, <1>5, <1>6
<1> QED
  BY <1>1, <1>3, <1>7 DEF PropagateIndexAfterRevert

\* The id of the request, or of the rule, that has a candidate.
LEMMA RequestIds ==
  ASSUME SolverInv, Requesting
  PROVE  Requests[run.position] \in RuleIds
<1> DEFINE S == {id \in DOMAIN rules : rules[id].rule_type = "request"}
           A == {id \in RuleIds : rules[id].rule_type # "none"}
<1>1. rule_by_id \in Seq(A)
  BY DEF SolverInv, RulesInv
<1>2. Requests = Selected(rule_by_id, S)
  BY DEF Requests, IdsOfType
<1>3. Requests \in Seq(A \cap S)
  BY <1>1, <1>2, SelectedElements
<1>4. run.position \in 1 .. Len(Requests)
  BY <1>3, LenProperties DEF Requesting, SolverInv, RunInv, RunTyped
<1>5. Requests[run.position] \in A \cap S
  BY <1>3, <1>4, ElementOfSeq
<1> QED
  BY <1>5

\* The sweep stays within the rules it counted when it began.
LEMMA SweptIds ==
  ASSUME SolverInv, Sweeping
  PROVE  SweptId \in RuleIds /\ SweptAt \in 1 .. run.rules_count
<1>1. /\ run.i \in Nat \ {0} /\ run.n \in Nat /\ run.rules_count \in Nat
      /\ run.rules_count <= Len(rule_by_id) /\ run.i <= run.rules_count + 1
      /\ Len(rule_by_id) \in Nat
  BY RulesFacts DEF SolverInv, RunInv, RunTyped
<1>2. run.n < run.rules_count
  BY DEF Sweeping
<1>3. SweptAt \in 1 .. run.rules_count /\ SweptAt \in 1 .. Len(rule_by_id)
  BY <1>1, <1>2 DEF SweptAt
<1> QED
  BY <1>3, RulesFacts DEF SweptId

\* A request or a provider is decided one level up, when all is propagated.
LEMMA InstallStep ==
  ASSUME SolverInv, StackInv', InstallRequest \/ InstallProvider
  PROVE  \E id \in RuleIds : \E l :
           /\ Becomes(Len(queue), level, l, level + 1, id)
           /\ propagate_index' = propagate_index /\ propagate_index = Len(queue)
<1>0. StackInv
  BY DEF SolverInv
<1>1. propagate_index = Len(queue)
  BY DEF InstallRequest, InstallProvider, Requesting, Sweeping, SolverInv, QueueInv
<1>2. CASE InstallRequest
  <2>1. PICK l : Becomes(Len(queue), level, l, level + 1, Requests[run.position])
    BY <1>0, <1>2, SelectStep DEF InstallRequest
  <2>2. Requests[run.position] \in RuleIds
    BY <1>2, RequestIds DEF InstallRequest
  <2> QED
    BY <1>1, <1>2, <2>1, <2>2 DEF InstallRequest, SelectAndInstall
<1>3. CASE InstallProvider
  <2>1. PICK l : Becomes(Len(queue), level, l, level + 1, SweptId)
    BY <1>0, <1>3, SelectStep DEF InstallProvider
  <2>2. SweptId \in RuleIds
    BY <1>3, SweptIds DEF InstallProvider
  <2> QED
    BY <1>1, <1>3, <2>1, <2>2 DEF InstallProvider, SelectAndInstall
<1> QED
  BY <1>2, <1>3

-----------------------------------------------------------------------------
(***************************************************************************)
(* The watch graph, the locals of the loops and the stack.                 *)
(***************************************************************************)

\* What does not touch the graph keeps it.
LEMMA WatchUnchanged ==
  ASSUME SolverInv, Grown, UNCHANGED <<rules, nodes, chains>>
  PROVE  WatchInv'
  BY DEF SolverInv, WatchInv, Grown, NodeOK, RuleIds, WatchedBy

\* A moved watch goes to another literal of the same rule.
LEMMA MoveKeepsWatch ==
  ASSUME SolverInv, Grown, VisitMoveWatch
  PROVE  WatchInv'
<1> DEFINE k == Chain[cursor]
           p == PropagatedLiteral
<1>1. UNCHANGED rules
  BY DEF VisitMoveWatch, ruleVars
<1>2. PICK to \in Alternatives :
       /\ nodes' = [nodes EXCEPT ![k] =
                      IF @.watch1 = p THEN [@ EXCEPT !.watch1 = to]
                      ELSE [@ EXCEPT !.watch2 = to]]
       /\ chains' = [chains EXCEPT ![p] = RemoveAt(@, cursor), ![to] = <<k>> \o @]
  BY DEF VisitMoveWatch
<1>3. /\ cursor \in 1 .. Len(Chain) /\ k \in DOMAIN nodes /\ NodeOK(nodes[k])
      /\ p \in Literals /\ to \in VisitedRule.lits /\ VisitedRule = rules[nodes[k].rule]
      /\ RuleOK(VisitedRule)
  BY VisitFacts, PropagatedFacts
  DEF VisitMoveWatch, Visiting, Alternatives, Node, VisitedRule
<1>4. to \in Literals
  BY <1>3 DEF RuleOK
<1>5. IsSequence(nodes) /\ \A j \in DOMAIN nodes : NodeOK(nodes[j])
  BY DEF SolverInv, WatchInv
<1>6. chains \in [Literals -> Seq(DOMAIN nodes)] /\ \A l \in Literals : chains[l] \in Seq(WatchedBy(l))
  BY DEF SolverInv, WatchInv
<1> DEFINE new == IF nodes[k].watch1 = p THEN [nodes[k] EXCEPT !.watch1 = to]
                  ELSE [nodes[k] EXCEPT !.watch2 = to]
<1>7. nodes' = [nodes EXCEPT ![k] = new]
  BY <1>2
<1>8. new.rule = nodes[k].rule /\ NodeOK(new)
  <2>1. /\ nodes[k] \in [rule : RuleIds, watch1 : Literals, watch2 : Literals]
        /\ {nodes[k].watch1, nodes[k].watch2} \subseteq rules[nodes[k].rule].lits
        /\ IsMulti(rules[nodes[k].rule]) => rules[nodes[k].rule].rule_type = "package"
    BY <1>3 DEF NodeOK
  <2>2. new \in [rule : RuleIds, watch1 : Literals, watch2 : Literals]
    BY <2>1, <1>4
  <2>3. /\ new.rule = nodes[k].rule
        /\ new.watch1 \in {nodes[k].watch1, to} /\ new.watch2 \in {nodes[k].watch2, to}
    BY <2>1
  <2> HIDE DEF new
  <2>4. {new.watch1, new.watch2} \subseteq rules[new.rule].lits
    BY <2>1, <2>3, <1>3
  <2> QED
    BY <2>1, <2>2, <2>3, <2>4 DEF NodeOK
<1> HIDE DEF k, new
<1>9. /\ DOMAIN nodes' = DOMAIN nodes
      /\ \A j \in DOMAIN nodes : nodes'[j].rule = nodes[j].rule /\ NodeOK(nodes'[j])
  BY <1>5, <1>7, <1>8, <1>3
<1>10. IsSequence(nodes')
  <2> DEFINE S == Range(nodes) \cup {new}
  <2>1. nodes \in Seq(S) /\ k \in 1 .. Len(nodes) /\ new \in S
    BY <1>3, <1>5, SeqMonotonic, LenProperties DEF IsSequence
  <2>2. nodes' \in Seq(S)
    BY <2>1, <1>7, ExceptSeq
  <2> QED
    BY <2>2, SeqOfRange DEF IsSequence
<1>11. \A l : WatchedBy(l)' = WatchedBy(l)
  BY <1>1, <1>9 DEF WatchedBy
<1>12. k \in WatchedBy(to) /\ to \in VisitedRule.lits
  BY <1>3 DEF WatchedBy
<1>13. RemoveAt(chains[p], cursor) \in Seq(WatchedBy(p))
  BY <1>3, <1>6, RemovedElements DEF Chain
<1>14. \A s : s \in Seq(WatchedBy(to)) => <<k>> \o s \in Seq(WatchedBy(to))
  <2>1. <<k>> \in Seq(WatchedBy(to))
    BY <1>12
  <2> QED
    BY <2>1, ConcatProperties
<1>15. to # p
  BY <1>2 DEF Alternatives
<1>16. /\ DOMAIN chains' = Literals
       /\ chains'[p] = RemoveAt(chains[p], cursor)
       /\ chains'[to] = <<k>> \o chains[to]
       /\ \A l \in Literals : l # p /\ l # to => chains'[l] = chains[l]
  BY <1>2, <1>3, <1>4, <1>6, <1>15
<1>17. \A l \in Literals : chains'[l] \in Seq(WatchedBy(l))
  BY <1>6, <1>13, <1>14, <1>16, <1>4
<1>18. \A l : WatchedBy(l) \subseteq DOMAIN nodes
  BY DEF WatchedBy
<1>19. \A l \in Literals : chains'[l] \in Seq(DOMAIN nodes)
  BY <1>17, <1>18, SeqMonotonic
<1>20. chains' = [l \in Literals |-> chains'[l]]
  BY <1>2, <1>6
<1>21. chains' \in [Literals -> Seq(DOMAIN nodes)]
  BY <1>19, <1>20
<1>22. \A j \in DOMAIN nodes : NodeOK(nodes[j])'
  <2> SUFFICES ASSUME NEW j \in DOMAIN nodes PROVE NodeOK(nodes[j])'
    OBVIOUS
  <2>1. NodeOK(nodes'[j])
    BY <1>9
  <2> QED
    BY <2>1, <1>1 DEF NodeOK, Grown, RuleIds
<1> QED
  BY <1>9, <1>10, <1>11, <1>17, <1>21, <1>22 DEF WatchInv, Grown

\* The two watches of a node are literals of its rule.
LEMMA WatchNodeFacts ==
  ASSUME inst.size \in Nat, NEW lits \in SUBSET Literals, \E l, m \in lits : l # m, NEW id
  PROVE  WatchNode(id, lits) \in [rule : {id}, watch1 : lits, watch2 : lits]
<1>1. Literals \subseteq -inst.size .. inst.size
  BY DEF Literals, LiteralsOf
<1> DEFINE first == CHOOSE l \in lits : IsFirst(l, lits)
<1>2. \E l \in lits : IsFirst(l, lits)
  BY <1>1, FirstExists
<1>3. first \in lits
  BY <1>2
<1> HIDE DEF first
<1> DEFINE rest == lits \ {first}
           second == CHOOSE l \in rest : IsFirst(l, rest)
<1>4. rest # {}
  OBVIOUS
<1>5. \E l \in rest : IsFirst(l, rest)
  BY <1>1, <1>4, FirstExists
<1>6. second \in rest
  BY <1>5
<1>7. WatchNode(id, lits) = [rule |-> id, watch1 |-> first, watch2 |-> second]
  BY <1>4 DEF WatchNode, first
<1> QED
  BY <1>3, <1>6, <1>7

\* watch2_on_highest chooses among the literals of the rule.
LEMMA HighestFacts ==
  ASSUME inst.size \in Nat, NEW lits \in SUBSET Literals, NEW m, NEW id,
         NEW node \in [rule : {id}, watch1 : lits, watch2 : lits]
  PROVE  Watch2OnHighest(node, lits, m) \in [rule : {id}, watch1 : lits, watch2 : lits]
<1> DEFINE highest == {l \in lits : AbsOf(m[AbsOf(l)]) > 0
                                    /\ \A k \in lits : AbsOf(m[AbsOf(k)]) <= AbsOf(m[AbsOf(l)])}
           second == CHOOSE l \in highest : IsFirst(l, highest)
<1>1. highest \subseteq -inst.size .. inst.size /\ highest \subseteq lits
  BY DEF Literals, LiteralsOf
<1>2. Watch2OnHighest(node, lits, m) = IF Cardinality(lits) < 3 \/ highest = {} THEN node
                                       ELSE [node EXCEPT !.watch2 = second]
  BY DEF Watch2OnHighest
<1> HIDE DEF highest
<1>3. highest # {} => second \in highest
  <2> SUFFICES ASSUME highest # {} PROVE second \in highest
    OBVIOUS
  <2>1. \E l \in highest : IsFirst(l, highest)
    BY <1>1, FirstExists
  <2> QED
    BY <2>1
<1> QED
  BY <1>1, <1>2, <1>3

\* A chain of the first graph holds nodes of the rules the literal is in.
LEMMA EntriesFacts ==
  ASSUME NEW S, NEW k, NEW node, NEW r, NEW l,
         l \in {node.watch1, node.watch2} \/ l \in r.lits => k \in S
  PROVE  ChainEntries(k, node, r, l) \in Seq(S)
<1>1. <<>> \in Seq(S)
  OBVIOUS
<1>2. k \in S => <<k>> \in Seq(S)
  OBVIOUS
<1>3. \A s, t \in Seq(S) : s \o t \in Seq(S)
  BY ConcatProperties
<1> QED
  BY <1>1, <1>2, <1>3 DEF ChainEntries

\* The node of the learned rule.
LEMMA LearnKeepsWatch ==
  ASSUME SolverInv, Learn
  PROVE  WatchInv'
<1> DEFINE id == Len(rules) + 1
           lits == {an.learned} \cup an.others
           r == Learned(lits, Len(learned_pool))
           n == Len(nodes)
<1>1. /\ Grown /\ RulesInv' /\ IsTheLearned(rules'[id]) /\ Len(rules') = id
  BY LearnedStored
<1>2. PICK m : InsertNode(Watch2OnHighest(WatchNode(id, r.lits), r.lits, m), r)
  BY DEF Learn
<1> DEFINE node == Watch2OnHighest(WatchNode(id, lits), lits, m)
<1>3. /\ IsSequence(nodes) /\ \A j \in DOMAIN nodes : NodeOK(nodes[j])
      /\ chains \in [Literals -> Seq(DOMAIN nodes)]
      /\ \A l \in Literals : chains[l] \in Seq(WatchedBy(l))
  BY DEF SolverInv, WatchInv
<1>4. r.kind = "generic" /\ r.lits = lits
  BY LearnedFields
<1>5. rules'[id].lits = lits /\ rules'[id].kind = "generic"
  BY <1>1 DEF IsTheLearned
<1> HIDE DEF r
<1>6. /\ RuleIds' = 1 .. id /\ Len(rules) \in Nat /\ id \in RuleIds'
      /\ Literals' = Literals /\ inst.size \in Nat
      /\ \A i \in RuleIds : i \in RuleIds' /\ rules'[i] = rules[i]
  BY <1>1, RulesFacts DEF Grown, RuleIds
<1>7. lits \subseteq Literals
  BY DEF Learn, InAnalysis, SolverInv, AnInv, AnBounds, AnPhase, AnTyped, AnShape
<1>8. ASSUME NEW j \in DOMAIN nodes, nodes'[j] = nodes[j]
      PROVE  NodeOK(nodes[j])'
  BY <1>3, <1>6, <1>8 DEF NodeOK
<1>9. CASE IsAssertion(r)
  <2>1. UNCHANGED <<nodes, chains>>
    BY <1>2, <1>9 DEF InsertNode, watchVars
  <2>2. \A j \in DOMAIN nodes : NodeOK(nodes[j])'
    BY <1>8, <2>1
  <2>3. \A l : WatchedBy(l)' = WatchedBy(l)
    BY <2>1, <1>3, <1>6 DEF WatchedBy, NodeOK
  <2> QED
    BY <2>1, <2>2, <2>3, <1>3, <1>6 DEF WatchInv
<1>10. CASE ~IsAssertion(r)
  <2>1. /\ nodes' = Append(nodes, node)
        /\ chains' = [l \in DOMAIN chains |-> ChainEntries(n + 1, node, r, l) \o chains[l]]
    BY <1>2, <1>4, <1>10 DEF InsertNode
  <2>2. \E l, k \in lits : l # k
    <3> SUFFICES ASSUME \A l, k \in lits : l = k PROVE FALSE
      OBVIOUS
    <3>1. lits = {an.learned}
      OBVIOUS
    <3> QED
      BY <3>1, <1>4, <1>6, <1>7, <1>10, AssertionFacts
  <2>3. node \in [rule : {id}, watch1 : lits, watch2 : lits]
    BY <2>2, <1>6, <1>7, WatchNodeFacts, HighestFacts
  <2> HIDE DEF node
  <2>4. node.rule = id /\ node.watch1 \in lits /\ node.watch2 \in lits
    BY <2>3
  <2>5. /\ IsSequence(nodes') /\ n \in Nat /\ DOMAIN nodes = 1 .. n
        /\ DOMAIN nodes' = 1 .. n + 1
        /\ \A j \in 1 .. n : nodes'[j] = nodes[j]
        /\ nodes'[n + 1] = node
    BY <1>3, <2>1, Appended
  <2>6. ASSUME NEW j \in DOMAIN nodes', j = n + 1
        PROVE  NodeOK(nodes[j])'
    <3>1. nodes'[j] \in [rule : RuleIds', watch1 : Literals', watch2 : Literals']
      BY <2>3, <2>5, <2>6, <1>6, <1>7
    <3>2. nodes'[j] = node /\ rules'[nodes'[j].rule] = rules'[id]
      BY <2>4, <2>5, <2>6
    <3>3. ~IsMulti(rules'[id])
      BY <1>5 DEF IsMulti
    <3> QED
      BY <3>1, <3>2, <3>3, <2>4, <1>5 DEF NodeOK
  <2>7. \A j \in DOMAIN nodes' : NodeOK(nodes[j])'
    <3> SUFFICES ASSUME NEW j \in DOMAIN nodes' PROVE NodeOK(nodes[j])'
      OBVIOUS
    <3>1. CASE j = n + 1
      BY <3>1, <2>6
    <3>2. CASE j \in 1 .. n
      BY <3>2, <2>5, <1>8
    <3> QED
      BY <3>1, <3>2, <2>5
  <2>8. ASSUME NEW l \in Literals
        PROVE  WatchedBy(l) \subseteq WatchedBy(l)' /\ (l \in lits => n + 1 \in WatchedBy(l)')
    <3>1. ASSUME NEW j \in WatchedBy(l)
          PROVE  j \in WatchedBy(l)'
      <4>1. j \in 1 .. n /\ l \in rules[nodes[j].rule].lits /\ nodes[j].rule \in RuleIds
        BY <3>1, <2>5, <1>3 DEF WatchedBy, NodeOK
      <4>2. l \in rules'[nodes'[j].rule].lits /\ j \in DOMAIN nodes'
        BY <4>1, <2>5, <1>6
      <4> QED
        BY <4>2 DEF WatchedBy
    <3>2. l \in lits => n + 1 \in WatchedBy(l)'
      BY <2>4, <2>5, <1>5 DEF WatchedBy
    <3> QED
      BY <3>1, <3>2
  <2>9. ASSUME NEW l \in Literals
        PROVE  chains'[l] \in Seq(WatchedBy(l)')
    <3>1. chains'[l] = ChainEntries(n + 1, node, r, l) \o chains[l]
      BY <2>1, <1>3
    <3>2. l \in {node.watch1, node.watch2} \/ l \in r.lits => n + 1 \in WatchedBy(l)'
      BY <2>4, <2>8, <1>4
    <3>3. ChainEntries(n + 1, node, r, l) \in Seq(WatchedBy(l)')
      BY <3>2, EntriesFacts
    <3>4. chains[l] \in Seq(WatchedBy(l)')
      BY <2>8, <1>3, SeqMonotonic
    <3> QED
      BY <3>1, <3>3, <3>4, ConcatProperties
  <2>10. \A l : WatchedBy(l)' \subseteq DOMAIN nodes'
    BY DEF WatchedBy
  <2>11. \A l \in Literals : chains'[l] \in Seq(DOMAIN nodes')
    BY <2>9, <2>10, SeqMonotonic
  <2>12. chains' = [l \in Literals |-> chains'[l]]
    BY <2>1, <1>3
  <2>13. chains' \in [Literals -> Seq(DOMAIN nodes')]
    BY <2>11, <2>12
  <2> QED
    BY <2>5, <2>7, <2>9, <2>13, <1>6 DEF WatchInv
<1> QED
  BY <1>9, <1>10

\* Every step keeps the watch graph pointing into its rules.
LEMMA WatchStep ==
  ASSUME SolverInv, [Next]_vars
  PROVE  WatchInv'
<1>1. Grown
  BY RulesStep
<1>2. CASE Learn
  BY <1>2, LearnKeepsWatch
<1>3. CASE VisitMoveWatch
  BY <1>1, <1>3, MoveKeepsWatch
<1>4. CASE ~Learn /\ ~VisitMoveWatch
  BY <1>1, <1>4, Frames, WatchUnchanged
<1> QED
  BY <1>2, <1>3, <1>4

\* The head of a pass over the rules.
LEMMA SweepFromFacts ==
  ASSUME SolverInv, NEW lv \in Nat, NEW sl \in Nat, SweepFrom(lv, sl)
  PROVE  /\ RunTyped(run') /\ pc' = "sweep"
         /\ run'.rules_count = Len(rule_by_id) /\ run'.i = 1
<1>1. RunTyped(run) /\ Len(rule_by_id) \in Nat
  BY RulesFacts DEF SolverInv, RunInv, RunTyped
<1>2. (IF lv < sl THEN lv ELSE sl) \in Nat
  OBVIOUS
<1>3. run' = [run EXCEPT !.system_level = IF lv < sl THEN lv ELSE sl,
                        !.rules_count = Len(rule_by_id), !.i = 1, !.n = 0]
  BY DEF SweepFrom
<1> QED
  BY <1>1, <1>2, <1>3 DEF RunTyped, SweepFrom

\* Continuing run_sat stays within the rules it counted.
LEMMA RequestsOrSweepFacts ==
  ASSUME SolverInv, RequestsOrSweep
  PROVE  /\ RunTyped(run') /\ pc' \in {"requests", "sweep"}
         /\ run'.rules_count <= Len(rule_by_id) /\ run'.i <= run'.rules_count + 1
<1>1. RunTyped(run) /\ Len(rule_by_id) \in Nat /\ level \in Nat
  BY RulesFacts DEF SolverInv, RunInv, RunTyped, StackInv
<1>2. CASE level < run.system_level
  <2>1. pc' = "requests" /\ run' = [run EXCEPT !.position = 1]
    BY <1>2 DEF RequestsOrSweep
  <2> QED
    BY <2>1, <1>1 DEF RunTyped, SolverInv, RunInv
<1>3. CASE ~(level < run.system_level)
  <2>1. SweepFrom(level, run.system_level)
    BY <1>3 DEF RequestsOrSweep
  <2>2. run.system_level \in Nat
    BY <1>1 DEF RunTyped
  <2> QED
    BY <2>1, <2>2, <1>1, SweepFromFacts
<1> QED
  BY <1>2, <1>3

\* Every step keeps the locals of the loops in range.
LEMMA RunStep ==
  ASSUME SolverInv, [Next]_vars
  PROVE  RunInv'
<1>1. /\ RunTyped(run) /\ Len(rule_by_id) \in Nat /\ level \in Nat /\ level + 1 \in Nat
      /\ cursor \in Nat \ {0} /\ pc \in Labels
      /\ run.rules_count <= Len(rule_by_id) /\ run.i <= run.rules_count + 1
  BY RulesFacts DEF SolverInv, RunInv, RunTyped, StackInv
<1>2. Len(rule_by_id) <= Len(rule_by_id') /\ Len(rule_by_id') \in Nat
      /\ run.rules_count \in Nat /\ run.rules_count <= Len(rule_by_id')
  BY <1>1, RulesStep DEF Grown, RunTyped
<1> SUFFICES /\ cursor' \in Nat \ {0} /\ RunTyped(run')
             /\ run'.rules_count <= Len(rule_by_id') /\ run'.i <= run'.rules_count + 1
             /\ pc' \in Labels
  BY DEF RunInv, RunTyped, Labels
<1>3. CASE AssertSkip \/ AssertDecide \/ AssertConflict
  <2>1. /\ UNCHANGED <<cursor, pc>>
        /\ \/ run' = run
           \/ run' = [run EXCEPT !.rule_index = @ + 1]
           \/ run' = [run EXCEPT !.rule_index = 1]
    BY <1>3 DEF AssertSkip, AssertDecide, AssertConflict, NextAssertion
  <2>2. RunTyped(run') /\ run'.rules_count = run.rules_count /\ run'.i = run.i
    <3>1. CASE run' = run
      BY <3>1, <1>1 DEF RunTyped
    <3>2. CASE run' = [run EXCEPT !.rule_index = @ + 1]
      BY <3>2, <1>1 DEF RunTyped
    <3>3. CASE run' = [run EXCEPT !.rule_index = 1]
      BY <3>3, <1>1 DEF RunTyped
    <3> QED
      BY <3>1, <3>2, <3>3, <2>1
  <2> QED
    BY <2>1, <2>2, <1>1, <1>2
<1>4. CASE AssertionsDone \/ Unsolvable \/ BeginAnalysis \/ Resolve \/ WalkEnd \/ WalkLearn
           \/ WalkReason \/ Swept \/ BranchesDone \/ Terminated \/ UNCHANGED vars
  <2>1. UNCHANGED <<run, cursor>>
    BY <1>4, Zenon DEF AssertionsDone, Unsolvable, BeginAnalysis, Resolve, WalkEnd, WalkLearn,
                WalkReason, Swept, BranchesDone, Terminated, vars
  <2>2. pc' \in Labels
    BY <1>1, <1>4, Zenon DEF AssertionsDone, Unsolvable, BeginAnalysis, Resolve, WalkEnd, WalkLearn,
                WalkReason, Swept, BranchesDone, Terminated, vars, Labels
  <2> QED
    BY <2>1, <2>2, <1>1, <1>2
<1>5. CASE RunSat
  <2>1. cursor' = cursor
    BY <1>5 DEF RunSat
  <2>2. CASE level = 1
    <3>1. pc' = "propagate" /\ run' = [run EXCEPT !.caller = "run_sat"]
      BY <1>5, <2>2 DEF RunSat
    <3> QED
      BY <2>1, <3>1, <1>1, <1>2 DEF RunTyped, Labels
  <2>3. CASE level # 1
    <3>1. RequestsOrSweep
      BY <1>5, <2>3 DEF RunSat
    <3> QED
      BY <2>1, <3>1, <1>1, <1>2, RequestsOrSweepFacts DEF Labels, RunTyped
  <2> QED
    BY <2>2, <2>3
<1>6. CASE VisitSettled \/ VisitMoveWatch \/ VisitImply \/ VisitConflict \/ NextDecision
  <2>1. run' = run /\ cursor' \in {cursor, cursor + 1, 1} /\ pc' \in {pc, "conflict"}
    BY <1>6 DEF VisitSettled, VisitMoveWatch, VisitImply, VisitConflict, NextDecision
  <2> QED
    BY <2>1, <1>1, <1>2 DEF Labels
<1>7. CASE Propagated
  <2>1. cursor' = cursor /\ Propagated
    BY <1>7 DEF Propagated
  <2>2. CASE RequestsOrSweep
    BY <2>1, <2>2, <1>1, <1>2, RequestsOrSweepFacts DEF Labels, RunTyped
  <2>3. CASE SweepFrom(level, level + 1)
    BY <2>1, <2>3, <1>1, <1>2, SweepFromFacts DEF Labels, RunTyped
  <2>4. CASE pc' = "requests" /\ run' = [run EXCEPT !.position = @ + 1]
    BY <2>1, <2>4, <1>1, <1>2 DEF Labels, RunTyped
  <2>5. CASE pc' = "run_sat" /\ run' = [run EXCEPT !.system_level = level + 1]
    BY <2>1, <2>5, <1>1, <1>2 DEF Labels, RunTyped
  <2>6. CASE pc' = "sweep" /\ run' = [run EXCEPT !.rules_count = Len(rule_by_id), !.n = 0]
    BY <2>1, <2>6, <1>1, <1>2 DEF Labels, RunTyped
  <2>7. CASE pc' = "run_sat" /\ run' = run
    BY <2>1, <2>7, <1>1, <1>2 DEF Labels
  <2> QED
    BY <2>1, <2>2, <2>3, <2>4, <2>5, <2>6, <2>7 DEF Propagated
<1>8. CASE Learn
  <2>1. UNCHANGED <<run, cursor>> /\ pc' = "propagate"
    BY <1>8 DEF Learn
  <2> QED
    BY <2>1, <1>1, <1>2 DEF Labels
<1>9. CASE SkipRequest \/ InstallRequest
  <2>1. /\ \/ run' = [run EXCEPT !.position = @ + 1]
           \/ run' = [run EXCEPT !.caller = "requests", !.o_level = level]
        /\ cursor' \in {cursor, 1} /\ pc' \in {pc, "propagate"}
    BY <1>9 DEF SkipRequest, InstallRequest, SelectAndInstall, SetPropagateLearn
  <2>2. RunTyped(run') /\ run'.rules_count = run.rules_count /\ run'.i = run.i
    <3>1. CASE run' = [run EXCEPT !.position = @ + 1]
      BY <3>1, <1>1 DEF RunTyped
    <3>2. CASE run' = [run EXCEPT !.caller = "requests", !.o_level = level]
      BY <3>2, <1>1 DEF RunTyped
    <3> QED
      BY <3>1, <3>2, <2>1
  <2> QED
    BY <2>1, <2>2, <1>1, <1>2 DEF Labels
<1>10. CASE RequestsDone
  <2>1. SweepFrom(level, level + 1) /\ cursor' = cursor
    BY <1>10 DEF RequestsDone
  <2> QED
    BY <2>1, <1>1, <1>2, SweepFromFacts DEF Labels, RunTyped
<1>11. CASE SkipRule \/ InstallProvider
  <2>1. /\ \/ run' = NextSwept
           \/ run' = [NextSwept EXCEPT !.caller = "sweep"]
        /\ cursor' \in {cursor, 1} /\ pc' \in {pc, "propagate"}
    BY <1>11 DEF SkipRule, InstallProvider, SelectAndInstall, SetPropagateLearn
  <2>2. SweptAt \in 1 .. run.rules_count
    BY <1>11, SweptIds DEF SkipRule, InstallProvider
  <2>3. /\ RunTyped(NextSwept) /\ NextSwept.rules_count = run.rules_count
        /\ NextSwept.i = SweptAt + 1
    BY <2>2, <1>1 DEF RunTyped, NextSwept
  <2> HIDE DEF NextSwept
  <2>4. /\ RunTyped(run') /\ run'.rules_count = run.rules_count /\ run'.i = SweptAt + 1
    BY <2>1, <2>3 DEF RunTyped
  <2>5. run'.rules_count <= Len(rule_by_id') /\ run'.i <= run'.rules_count + 1
    BY <2>2, <2>4, <1>2
  <2> QED
    BY <2>1, <2>4, <2>5, <1>1 DEF Labels
<1>12. CASE RetryBranch
  <2>1. run' = [run EXCEPT !.caller = "branches"] /\ cursor' = 1 /\ pc' = "propagate"
    BY <1>12 DEF RetryBranch, SetPropagateLearn
  <2> QED
    BY <2>1, <1>1, <1>2 DEF Labels, RunTyped
<1> QED
  BY <1>3, <1>4, <1>5, <1>6, <1>7, <1>8, <1>9, <1>10, <1>11, <1>12 DEF Next

-----------------------------------------------------------------------------

\* A decision leaves every level in use with a decision.
LEMMA LevelsUsed ==
  ASSUME SolverInv, NEW keep, NEW floor \in Nat, NEW l, NEW lv \in Nat, NEW reason,
         Becomes(keep, floor, l, lv, reason), lv <= floor + 1, floor <= level
  PROVE  \A v \in 2 .. lv : \E k \in DOMAIN queue' : LevelAt(k)' = v
<1>1. /\ keep \in 0 .. Len(queue) /\ DOMAIN queue' = 1 .. keep + 1
      /\ \A k \in 1 .. keep : LevelAt(k)' = LevelAt(k)
      /\ \A k \in keep + 1 .. Len(queue) : LevelAt(k) > floor
      /\ LevelAt(keep + 1)' = lv
  BY DEF Becomes
<1>2. Len(queue) \in Nat /\ DOMAIN queue = 1 .. Len(queue)
  BY QueueFacts DEF SolverInv
<1>3. level \in Nat
  BY DEF SolverInv, StackInv
<1> SUFFICES ASSUME NEW v \in 2 .. lv
             PROVE  \E k \in 1 .. keep + 1 : LevelAt(k)' = v
  BY <1>1
<1>4. CASE v = lv
  <2>1. keep + 1 \in 1 .. keep + 1
    BY <1>1, <1>2
  <2> QED
    BY <2>1, <1>1, <1>4
<1>5. CASE v < lv
  <2>1. v \in 2 .. level /\ v <= floor
    BY <1>3, <1>5
  <2>2. PICK k \in 1 .. Len(queue) : LevelAt(k) = v
    BY <2>1, <1>2 DEF SolverInv, QueueInv
  <2>3. k \in 1 .. keep
    <3>1. k \notin keep + 1 .. Len(queue)
      BY <2>1, <2>2, <1>1
    <3> QED
      BY <3>1, <1>1, <1>2
  <2> QED
    BY <2>2, <2>3, <1>1, <1>2
<1> QED
  BY <1>4, <1>5

\* The stack stays a sequence of decisions.
LEMMA DecisionsTyped ==
  ASSUME SolverInv, Grown, StackInv', NEW keep, NEW floor, NEW l, NEW lv, NEW reason,
         Becomes(keep, floor, l, lv, reason), reason \in RuleIds'
  PROVE  queue' \in Seq([literal : Literals', reason : RuleIds'])
<1> DEFINE S == [literal : Literals', reason : RuleIds']
<1>1. /\ keep \in 0 .. Len(queue) /\ DOMAIN queue' = 1 .. keep + 1
      /\ \A k \in 1 .. keep : queue'[k] = queue[k]
      /\ queue'[keep + 1] = [literal |-> l, reason |-> reason] /\ l \in Literals
  BY DEF Becomes
<1>2. Len(queue) \in Nat
  BY QueueFacts DEF SolverInv
<1>3. Literals' = Literals /\ RuleIds \subseteq RuleIds'
  BY DEF Grown
<1>4. \A k \in 1 .. Len(queue) : queue[k] \in S
  <2>1. \A k \in 1 .. Len(queue) : queue[k] \in [literal : Literals, reason : RuleIds]
    BY ElementOfSeq DEF SolverInv, QueueInv
  <2> QED
    BY <2>1, <1>3
<1>5. queue'[keep + 1] \in S
  BY <1>1, <1>3
<1> HIDE DEF S
<1>6. \A k \in 1 .. keep + 1 : queue'[k] \in S
  BY <1>1, <1>2, <1>4, <1>5
<1>7. queue' \in Seq(Range(queue'))
  BY DEF StackInv, Agree, IsSequence
<1>8. Range(queue') \subseteq S
  BY <1>1, <1>6 DEF Range
<1> QED
  BY <1>7, <1>8, SeqMonotonic DEF S

\* The reason of a decision is a rule.
LEMMA ReasonIds ==
  ASSUME SolverInv, NEW k \in 1 .. Len(queue)
  PROVE  queue[k].reason \in RuleIds
<1>1. queue[k] \in [literal : Literals, reason : RuleIds]
  BY ElementOfSeq DEF SolverInv, QueueInv
<1> QED
  BY <1>1

\* A position above another one, in a queue of n.
LEMMA AboveIndex ==
  ASSUME NEW n \in Nat, NEW i \in 0 .. n
  PROVE  \A k \in i + 1 .. n : k \in 1 .. n
  OBVIOUS

\* Of a step that decides nothing.
LEMMA QueueOfQuiet ==
  ASSUME queue \in Seq([literal : Literals', reason : RuleIds']), queue' = queue, level' = level,
         \A k \in 1 .. Len(queue) : LevelAt(k)' = LevelAt(k), Len(queue) \in Nat,
         \A v \in 2 .. level : \E k \in DOMAIN queue : LevelAt(k)' = v,
         NEW pi, pi = propagate_index', pi \in 0 .. Len(queue),
         pc' = "propagate" => \A k \in pi + 1 .. Len(queue) : LevelAt(k) = level,
         pc' \in {"requests", "sweep", "branches"} \/ (pc' = "run_sat" /\ level > 1)
            => pi = Len(queue)
  PROVE  QueueInv'
<1>0. \A k \in pi + 1 .. Len(queue) : k \in 1 .. Len(queue)
  BY AboveIndex
<1>1. ASSUME pc' = "propagate", NEW k \in pi + 1 .. Len(queue)
      PROVE  LevelAt(k)' = level
  <2>1. k \in 1 .. Len(queue)
    BY <1>0
  <2>2. LevelAt(k)' = LevelAt(k)
    BY <2>1
  <2>3. LevelAt(k) = level
    BY <1>1
  <2> QED
    BY <2>2, <2>3
<1> QED
  BY <1>1 DEF QueueInv

\* Of a step that decides, for the parts that only depend on what was popped
\* and pushed.
LEMMA QueueOfDecision ==
  ASSUME SolverInv, Grown, StackInv', NEW keep, NEW floor \in Nat, NEW l, NEW lv \in Nat,
         NEW reason, Becomes(keep, floor, l, lv, reason), reason \in RuleIds',
         lv <= floor + 1, floor <= level,
         propagate_index' \in 0 .. keep + 1,
         pc' = "propagate" => \A k \in propagate_index' + 1 .. keep + 1 : LevelAt(k)' = lv,
         pc' \notin {"requests", "sweep", "branches", "run_sat"}
  PROVE  QueueInv'
<1>1. queue' \in Seq([literal : Literals', reason : RuleIds'])
  BY DecisionsTyped
<1>2. \A v \in 2 .. lv : \E k \in DOMAIN queue' : LevelAt(k)' = v
  BY LevelsUsed
<1>3. Len(queue') = keep + 1 /\ level' = lv
  BY DEF Becomes
<1> QED
  BY <1>1, <1>2, <1>3 DEF QueueInv, LevelAt

\* The steps that decide nothing, and where they lead.
QuietStep ==
  \/ AssertSkip \/ AssertionsDone \/ RunSat \/ VisitSettled \/ VisitMoveWatch
  \/ VisitConflict \/ NextDecision \/ Propagated \/ Unsolvable \/ BeginAnalysis
  \/ Resolve \/ WalkEnd \/ WalkLearn \/ WalkReason \/ SkipRequest \/ RequestsDone
  \/ SkipRule \/ Swept \/ BranchesDone \/ Terminated \/ UNCHANGED vars

\* Where the steps that decide nothing go, and what they have propagated.
LEMMA QuietLabels ==
  ASSUME QuietStep, Len(queue) \in Nat, propagate_index \in 0 .. Len(queue)
  PROVE  \/ pc' = pc /\ propagate_index' = propagate_index
         \/ /\ pc = "propagate" /\ propagate_index' = propagate_index /\ pc' # "propagate"
            /\ propagate_index = Len(queue)
         \/ /\ pc = "propagate" /\ propagate_index' = propagate_index + 1
            /\ propagate_index < Len(queue) /\ pc' \in {"propagate", "conflict"}
         \/ propagate_index' = propagate_index /\ pc' \in {"resolve", "walk", "learn", "done"}
         \/ /\ propagate_index' = propagate_index /\ pc \in {"requests", "sweep"}
            /\ pc' \in {"sweep", "run_sat", "branches"}
         \/ propagate_index' = propagate_index /\ pc = "assertions" /\ pc' = "run_sat"
         \/ /\ propagate_index' = propagate_index /\ pc = "run_sat" /\ level # 1
            /\ pc' \in {"requests", "sweep"}
         \/ propagate_index' = propagate_index /\ pc' = "propagate" /\ level = 1
<1>1. CASE AssertSkip \/ AssertionsDone
  BY <1>1 DEF AssertSkip, AssertionsDone
<1>2. CASE RunSat
  BY <1>2 DEF RunSat, RequestsOrSweep, SweepFrom
<1>3. CASE VisitSettled \/ VisitMoveWatch \/ VisitConflict \/ NextDecision
  BY <1>3 DEF VisitSettled, VisitMoveWatch, VisitConflict, NextDecision, Visiting, Propagating
<1>4. CASE Propagated
  <2>1. propagate_index = Len(queue)
    BY <1>4 DEF Propagated
  <2> QED
    BY <1>4, <2>1 DEF Propagated, RequestsOrSweep, SweepFrom
<1>5. CASE Unsolvable \/ BeginAnalysis \/ Resolve \/ WalkEnd \/ WalkLearn \/ WalkReason
  BY <1>5, Zenon DEF Unsolvable, BeginAnalysis, Resolve, WalkEnd, WalkLearn, WalkReason, searchVars
<1>6. CASE SkipRequest \/ RequestsDone \/ SkipRule \/ Swept \/ BranchesDone
  BY <1>6 DEF SkipRequest, RequestsDone, SkipRule, Swept, BranchesDone, SweepFrom, Requesting,
              Sweeping
<1>7. CASE Terminated \/ UNCHANGED vars
  BY <1>7 DEF Terminated, vars
<1> QED
  BY <1>1, <1>2, <1>3, <1>4, <1>5, <1>6, <1>7 DEF QuietStep

\* Every step keeps what is not propagated at the current level.
LEMMA QueueStep ==
  ASSUME SolverInv, [Next]_vars
  PROVE  QueueInv'
<1>0. /\ Grown /\ StackInv' /\ StackInv /\ level \in Nat /\ level > 0
      /\ Len(queue) \in Nat /\ DOMAIN queue = 1 .. Len(queue)
      /\ propagate_index \in 0 .. Len(queue)
  BY RulesStep, StepKeeps, QueueFacts DEF SolverInv, StackInv, QueueInv
<1>00. /\ level <= level + 1 /\ level <= level /\ level + 1 \in Nat /\ level + 1 <= level + 1
       /\ propagate_index \in 0 .. Len(queue) + 1 /\ Len(queue) \in 0 .. Len(queue) + 1
       /\ \A n \in Nat : n <= n + 1
       /\ \A keep \in 0 .. Len(queue) : keep \in 0 .. keep + 1
  BY <1>0
<1>1. CASE AssertDecide
  <2>1. /\ Becomes(Len(queue), level, AssertionLiteral, level, AssertionId)
        /\ pc' = "assertions" /\ propagate_index' = propagate_index
    BY <1>0, <1>1, AssertDecideStep DEF AssertDecide, Asserting
  <2>2. AssertionId \in RuleIds'
    BY <1>0, <1>1, AssertionInRange DEF AssertDecide, Grown
  <2> QED
    BY <1>0, <1>00, <2>1, <2>2, QueueOfDecision
<1>2. CASE VisitImply
  <2>1. PICK l : Becomes(Len(queue), level, l, level, Node.rule)
    BY <1>0, <1>2, VisitImplyStep
  <2>2. pc = "propagate" /\ pc' = "propagate" /\ propagate_index' = propagate_index
    BY <1>2 DEF VisitImply, Visiting, Propagating
  <2>3. Node.rule \in RuleIds'
    BY <1>0, <1>2, VisitFacts DEF VisitImply, Grown
  <2>4. ASSUME NEW k \in propagate_index + 1 .. Len(queue) + 1
        PROVE  LevelAt(k)' = level
    <3>1. CASE k = Len(queue) + 1
      BY <3>1, <2>1 DEF Becomes
    <3>2. CASE k \in 1 .. Len(queue)
      <4>1. LevelAt(k)' = LevelAt(k)
        BY <3>2, <2>1 DEF Becomes
      <4> QED
        BY <4>1, <3>2, <2>2, <2>4 DEF SolverInv, QueueInv
    <3> QED
      BY <3>1, <3>2, <1>0, <2>4
  <2> QED
    BY <1>0, <1>00, <2>1, <2>2, <2>3, <2>4, QueueOfDecision
<1>3. CASE Learn
  <2>1. PICK keep \in 0 .. Len(queue) :
          /\ Becomes(keep, an.rule_level, an.learned, an.rule_level, Len(rules) + 1)
          /\ propagate_index' = keep
    BY <1>0, <1>3, LearnStep
  <2>2. Len(rules) + 1 \in RuleIds'
    BY <1>3, LearnedStored, RulesFacts DEF RuleIds
  <2>3. an.rule_level \in Nat /\ an.rule_level <= level /\ pc' = "propagate"
    BY <1>0, <1>3 DEF Learn
  <2>4. \A k \in keep + 1 .. keep + 1 : LevelAt(k)' = an.rule_level
    <3>1. LevelAt(keep + 1)' = an.rule_level
      BY <2>1 DEF Becomes
    <3>2. \A k \in keep + 1 .. keep + 1 : k = keep + 1
      BY <1>0
    <3> QED
      BY <3>1, <3>2
  <2> QED
    BY <1>0, <1>00, <2>1, <2>2, <2>3, <2>4, QueueOfDecision
<1>4. CASE InstallRequest \/ InstallProvider
  <2>1. PICK id \in RuleIds : \E l :
           /\ Becomes(Len(queue), level, l, level + 1, id)
           /\ propagate_index' = Len(queue)
    BY <1>0, <1>4, InstallStep
  <2>2. PICK l : /\ Becomes(Len(queue), level, l, level + 1, id)
                 /\ propagate_index' = Len(queue)
    BY <2>1
  <2>3. id \in RuleIds' /\ pc' = "propagate"
    BY <1>0, <1>4 DEF InstallRequest, InstallProvider, SelectAndInstall, SetPropagateLearn, Grown
  <2>4. \A k \in Len(queue) + 1 .. Len(queue) + 1 : LevelAt(k)' = level + 1
    <3>1. \A k \in {Len(queue) + 1} : LevelAt(k)' = level + 1
      BY <2>2 DEF Becomes
    <3>2. \A k \in Len(queue) + 1 .. Len(queue) + 1 : k = Len(queue) + 1
      BY <1>0
    <3> QED
      BY <3>1, <3>2
  <2> QED
    BY <1>0, <1>00, <2>2, <2>3, <2>4, QueueOfDecision
<1>5. CASE RetryBranch
  <2>1. PICK keep \in 1 .. Len(queue), floor \in Nat \ {0} : \E l :
           /\ floor < level
           /\ Becomes(keep, floor, l, floor + 1, queue[keep].reason)
           /\ propagate_index' = keep
    BY <1>0, <1>5, RetryStep
  <2>2. PICK l :
           /\ floor < level
           /\ Becomes(keep, floor, l, floor + 1, queue[keep].reason)
           /\ propagate_index' = keep
    BY <2>1
  <2>3. queue[keep].reason \in RuleIds
    BY ReasonIds
  <2>4. queue[keep].reason \in RuleIds' /\ pc' = "propagate"
    BY <1>0, <1>5, <2>3 DEF RetryBranch, SetPropagateLearn, Grown
  <2>5. \A k \in keep + 1 .. keep + 1 : LevelAt(k)' = floor + 1
    <3>1. LevelAt(keep + 1)' = floor + 1
      BY <2>2 DEF Becomes
    <3>2. \A k \in keep + 1 .. keep + 1 : k = keep + 1
      BY <1>0
    <3> QED
      BY <3>1, <3>2
  <2>6. floor \in Nat /\ floor + 1 \in Nat /\ floor + 1 <= floor + 1 /\ floor <= level
    BY <1>0, <2>2
  <2>7. propagate_index' \in 0 .. keep + 1
    BY <1>0, <2>2
  <2> QED
    BY <1>0, <2>2, <2>4, <2>5, <2>6, <2>7, QueueOfDecision
<1>6. CASE AssertConflict
  <2>1. /\ pc = "assertions" /\ pc' = "assertions" /\ level' = level /\ level = 1
        /\ propagate_index' = propagate_index /\ propagate_index = 0
        /\ UNCHANGED <<map, queue>> \/ queue' = <<>>
    BY <1>6 DEF AssertConflict, Asserting, SolverInv, StackInv, AssertInv, decisionVars
  <2>2. queue' \in Seq([literal : Literals', reason : RuleIds'])
    <3>1. CASE queue' = <<>>
      BY <3>1
    <3>2. CASE queue' = queue
      <4>1. Literals' = Literals /\ RuleIds' = RuleIds
        BY <1>6 DEF AssertConflict, Literals, RuleIds
      <4> QED
        BY <3>2, <4>1 DEF SolverInv, QueueInv
    <3> QED
      BY <3>1, <3>2, <2>1
  <2>3. Len(queue') \in Nat
    BY <1>0, QueueFacts, LenProperties, <2>2
  <2> QED
    BY <2>1, <2>2, <2>3 DEF QueueInv
<1>7. CASE QuietStep
  <2>0. Quiet
    BY <1>7, QuietSteps DEF QuietStep
  <2>1. UNCHANGED <<inst, map, queue, level>>
    BY <2>0 DEF Quiet
  <2>2. queue \in Seq([literal : Literals', reason : RuleIds'])
    <3>1. Literals' = Literals /\ RuleIds \subseteq RuleIds'
      BY <1>0 DEF Grown
    <3>2. [literal : Literals, reason : RuleIds] \subseteq [literal : Literals', reason : RuleIds']
      BY <3>1
    <3> QED
      BY <3>2, SeqMonotonic DEF SolverInv, QueueInv
  <2>3. /\ \A k \in 1 .. Len(queue) : LevelAt(k)' = LevelAt(k)
        /\ queue' = queue /\ level' = level
    BY <2>1 DEF LevelAt, DecisionLevel, Entry
  <2>4. \A v \in 2 .. level : \E k \in DOMAIN queue : LevelAt(k)' = v
    BY <2>3, <1>0 DEF SolverInv, QueueInv
  <2>4a. /\ pc = "propagate" => \A k \in propagate_index + 1 .. Len(queue) : LevelAt(k) = level
         /\ pc \in {"requests", "sweep", "branches"} \/ (pc = "run_sat" /\ level > 1)
              => propagate_index = Len(queue)
    BY DEF SolverInv, QueueInv
  <2>5. CASE pc' = pc /\ propagate_index' = propagate_index
    BY <2>2, <2>3, <2>4, <2>5, <2>4a, <1>0, QueueOfQuiet
  <2>6. CASE pc = "propagate" /\ propagate_index' = propagate_index /\ pc' # "propagate"
             /\ propagate_index = Len(queue)
    BY <2>2, <2>3, <2>4, <2>6, <2>4a, <1>0, QueueOfQuiet
  <2>7. CASE /\ pc = "propagate" /\ propagate_index' = propagate_index + 1
             /\ propagate_index < Len(queue) /\ pc' \in {"propagate", "conflict"}
    <3>1. propagate_index' \in 0 .. Len(queue) /\ pc' \notin {"requests", "sweep", "branches", "run_sat"}
      BY <2>7, <1>0
    <3>2. \A k \in propagate_index' + 1 .. Len(queue) : LevelAt(k) = level
      BY <2>7, <2>4a, <1>0
    <3> QED
      BY <2>2, <2>3, <2>4, <3>1, <3>2, <1>0, QueueOfQuiet
  <2>8. CASE /\ propagate_index' = propagate_index /\ pc' \in {"resolve", "walk", "learn", "done"}
    BY <2>2, <2>3, <2>4, <2>8, <2>4a, <1>0, QueueOfQuiet, Zenon
  <2>9. CASE /\ propagate_index' = propagate_index /\ pc \in {"requests", "sweep"}
             /\ pc' \in {"sweep", "run_sat", "branches"}
    BY <2>2, <2>3, <2>4, <2>9, <2>4a, <1>0, QueueOfQuiet
  <2>10. CASE /\ propagate_index' = propagate_index /\ pc = "assertions" /\ pc' = "run_sat"
    <3>1. level = 1
      BY <2>10 DEF SolverInv, StackInv
    <3> QED
      BY <2>2, <2>3, <2>4, <2>10, <2>4a, <3>1, <1>0, QueueOfQuiet
  <2>11. CASE /\ propagate_index' = propagate_index /\ pc = "run_sat" /\ level # 1
              /\ pc' \in {"requests", "sweep"}
    <3>0. level > 1 /\ pc = "run_sat" /\ pc' # "propagate"
      BY <2>11, <1>0
    <3>1. propagate_index' = Len(queue) /\ pc' # "propagate"
      BY <3>0, <2>11, <2>4a
    <3> QED
      BY <2>2, <2>3, <2>4, <3>1, <1>0, QueueOfQuiet
  <2>12. CASE /\ propagate_index' = propagate_index /\ pc' = "propagate" /\ level = 1
    <3>1. \A k \in 1 .. Len(queue) : LevelAt(k) = 1
      <4>1. \A k \in 1 .. Len(queue) : LevelAt(k) \in Nat /\ LevelAt(k) > 0 /\ LevelAt(k) <= 1
        BY <1>0, <2>12, QueueFacts
      <4> QED
        BY <4>1
    <3> QED
      <4>1. \A k \in propagate_index' + 1 .. Len(queue) : LevelAt(k) = level
        BY <2>12, <3>1, <1>0
      <4> QED
        BY <2>2, <2>3, <2>4, <2>12, <4>1, <1>0, QueueOfQuiet
  <2> QED
    BY <1>0, <1>7, <2>5, <2>6, <2>7, <2>8, <2>9, <2>10, <2>11, <2>12, QuietLabels, Zenon DEF Propagating
<1> QED
  BY <1>1, <1>2, <1>3, <1>4, <1>5, <1>6, <1>7 DEF Next, QuietStep

-----------------------------------------------------------------------------
(***************************************************************************)
(* The reasons.                                                            *)
(***************************************************************************)

\* A literal decided at a level that is not popped stays what it is.
LEMMA KeptStatus ==
  ASSUME SolverInv, UNCHANGED inst, NEW keep, NEW floor, NEW l, NEW lv, NEW reason,
         Becomes(keep, floor, l, lv, reason),
         NEW m \in Literals, ~Undecided(m), DecisionLevel(m) <= floor
  PROVE  /\ Satisfy(m)' <=> Satisfy(m)
         /\ Conflict(m)' <=> Conflict(m)
         /\ DecisionLevel(m)' = DecisionLevel(m)
         /\ ~Undecided(m)'
<1>1. AbsOf(m) \in Packages
  BY LiteralFacts DEF SolverInv, StackInv
<1>2. map'[AbsOf(m)] = map[AbsOf(m)]
  BY <1>1 DEF Becomes, Undecided, DecisionLevel, Entry
<1> QED
  BY <1>2 DEF Satisfy, Conflict, Undecided, DecisionLevel, Entry

\* What is said of a decision that stays, but for the visits under way.
LEMMA ReasonStays ==
  ASSUME SolverInv, Grown, NEW keep \in 0 .. Len(queue), NEW k \in 1 .. keep,
         \A j \in 1 .. keep : queue'[j] = queue[j] /\ LevelAt(j)' = LevelAt(j)
  PROVE  /\ IsChoice(k) => IsChoice(k)'
         /\ Forced(k) => Forced(k)'
         /\ queue[k].reason \in RuleIds
         /\ rules'[queue'[k].reason] = rules[queue[k].reason]
         /\ \A m : FalseBefore(m, k)' <=> FalseBefore(m, k)
<1>0. Len(queue) \in Nat
  BY QueueFacts DEF SolverInv
<1>1. \A j \in 1 .. k - 1 : j \in 1 .. keep
  BY <1>0
<1>2. queue[k].reason \in RuleIds
  BY <1>0, ReasonIds
<1>3. queue'[k] = queue[k] /\ rules'[queue'[k].reason] = rules[queue[k].reason]
  BY <1>2 DEF Grown
<1>4. \A m : FalseBefore(m, k)' <=> FalseBefore(m, k)
  BY <1>1 DEF FalseBefore
<1>5. Forced(k) => Forced(k)'
  BY <1>3, <1>4 DEF Forced
<1>6. IsChoice(k) => IsChoice(k)'
  <2>1. CASE k = 1
    BY <2>1 DEF IsChoice
  <2>2. CASE k # 1
    <3>1. k - 1 \in 1 .. keep
      BY <2>2, <1>0
    <3>2. \A j \in {k - 1} : LevelAt(j)' = LevelAt(j)
      BY <3>1
    <3> QED
      BY <3>2 DEF IsChoice
  <2> QED
    BY <2>1, <2>2
<1> QED
  BY <1>2, <1>3, <1>4, <1>5, <1>6

\* AllAsked when no visit is under way.
LEMMA AllAskedStays ==
  ASSUME SolverInv, Grown, NEW keep, NEW floor \in Nat, NEW l, NEW lv, NEW reason,
         Becomes(keep, floor, l, lv, reason), floor <= level,
         floor < level \/ \A id : ~Busy(id),
         NEW k \in 1 .. keep, AllAsked(k)
  PROVE  AllAsked(k)'
<1>1. /\ keep \in 0 .. Len(queue) /\ LevelAt(k)' = LevelAt(k) /\ LevelAt(k) <= floor
      /\ \A j \in 1 .. keep : queue'[j] = queue[j] /\ LevelAt(j)' = LevelAt(j)
      /\ queue'[k] = queue[k]
  BY DEF Becomes
<1>2. /\ queue[k].reason \in RuleIds
      /\ rules'[queue'[k].reason] = rules[queue[k].reason]
      /\ \A m : FalseBefore(m, k)' <=> FalseBefore(m, k)
  BY <1>1, ReasonStays
<1>3. RuleOK(rules[queue[k].reason]) /\ UNCHANGED inst
  BY <1>2 DEF SolverInv, RulesInv, Grown
<1>4. /\ LevelAt(k) \in Nat /\ level \in Nat
      /\ LevelAt(k) < level \/ \A id : ~Busy(id)
  <2>1. Len(queue) \in Nat /\ k \in 1 .. Len(queue) /\ level \in Nat
    BY <1>1, QueueFacts DEF SolverInv, StackInv
  <2>2. LevelAt(k) \in Nat
    BY <2>1, QueueFacts DEF SolverInv
  <2> QED
    BY <2>1, <2>2, <1>1
<1>5. ASSUME NEW m \in rules[queue[k].reason].lits \ {queue[k].literal}
      PROVE  FalseBefore(m, k)' \/ (Satisfy(m)' /\ DecisionLevel(m)' <= LevelAt(k)')
  <2>1. m \in Literals
    BY <1>3 DEF RuleOK
  <2>2. FalseBefore(m, k) \/ (Satisfy(m) /\ DecisionLevel(m) <= LevelAt(k))
    BY <1>4 DEF AllAsked
  <2>3. CASE FalseBefore(m, k)
    BY <2>3, <1>2
  <2>4. CASE Satisfy(m) /\ DecisionLevel(m) <= LevelAt(k)
    <3>1. ~Undecided(m) /\ DecisionLevel(m) \in Nat
      BY <2>1, <2>4, StatusFacts DEF SolverInv
    <3>2. DecisionLevel(m) <= floor
      <4>1. LevelAt(k) \in Nat
        BY <1>1, QueueFacts DEF SolverInv
      <4>2. floor \in Int
        OBVIOUS
      <4> QED
        BY <4>1, <2>4, <3>1, <1>1
    <3> QED
      BY <2>1, <2>4, <3>1, <3>2, <1>1, <1>3, KeptStatus
  <2> QED
    BY <2>2, <2>3, <2>4
<1> QED
  BY <1>1, <1>2, <1>5 DEF AllAsked

\* Popping some decisions and pushing one keeps the reasons of the others, when
\* the rules are the same or grow.
LEMMA ReasonsStay ==
  ASSUME SolverInv, Grown, NEW keep, NEW floor \in Nat, NEW l, NEW lv, NEW reason,
         Becomes(keep, floor, l, lv, reason), floor <= level,
         floor < level \/ \A id : ~Busy(id),
         \A k \in {keep + 1} : IsChoice(k)' \/ ReasonOK(k)'
  PROVE  ReasonInv'
<1>1. /\ keep \in 0 .. Len(queue) /\ DOMAIN queue' = 1 .. keep + 1
      /\ \A j \in 1 .. keep : queue'[j] = queue[j] /\ LevelAt(j)' = LevelAt(j)
  BY DEF Becomes
<1>2. Len(queue) \in Nat /\ DOMAIN queue = 1 .. Len(queue)
  BY QueueFacts DEF SolverInv
<1>3. ASSUME NEW k \in 1 .. keep
      PROVE  IsChoice(k)' \/ ReasonOK(k)'
  <2>1. IsChoice(k) \/ ReasonOK(k)
    BY <1>1, <1>2 DEF SolverInv, ReasonInv
  <2>2. CASE IsChoice(k)
    BY <2>2, <1>1, ReasonStays
  <2>3. CASE ReasonOK(k)
    <3>1. Forced(k)' /\ rules'[queue'[k].reason] = rules[queue[k].reason]
      BY <2>3, <1>1, ReasonStays DEF ReasonOK
    <3>2. AllAsked(k) => AllAsked(k)'
      BY AllAskedStays
    <3> QED
      BY <2>3, <3>1, <3>2 DEF ReasonOK
  <2> QED
    BY <2>1, <2>2, <2>3
<1>4. \A k \in 1 .. keep + 1 : IsChoice(k)' \/ ReasonOK(k)'
  <2> SUFFICES ASSUME NEW k \in 1 .. keep + 1 PROVE IsChoice(k)' \/ ReasonOK(k)'
    OBVIOUS
  <2>1. k \in 1 .. keep \/ k = keep + 1
    BY <1>1, <1>2
  <2> QED
    BY <2>1, <1>3
<1> QED
  BY <1>1, <1>4 DEF ReasonInv

\* A literal that a step decides above the level is a choice.
LEMMA ChoiceMade ==
  ASSUME SolverInv, NEW keep, NEW floor \in Nat \ {0}, NEW l, NEW reason,
         Becomes(keep, floor, l, floor + 1, reason)
  PROVE  \A k \in {keep + 1} : IsChoice(k)'
<1>1. /\ keep \in 0 .. Len(queue) /\ \A k \in {keep + 1} : LevelAt(k)' = floor + 1
      /\ \A j \in 1 .. keep : LevelAt(j)' = LevelAt(j) /\ LevelAt(j) <= floor
  BY DEF Becomes
<1>2. Len(queue) \in Nat
  BY QueueFacts DEF SolverInv
<1> SUFFICES ASSUME NEW k, k = keep + 1
             PROVE  LevelAt(k)' > 1 /\ (k = 1 \/ LevelAt(k - 1)' < LevelAt(k)')
  BY DEF IsChoice
<1>3. LevelAt(k)' = floor + 1
  BY <1>1
<1>4. CASE keep = 0
  BY <1>3, <1>4
<1>5. CASE keep > 0
  <2>1. keep \in 1 .. keep /\ k - 1 = keep
    BY <1>1, <1>2, <1>5
  <2>2. LevelAt(keep)' = LevelAt(keep) /\ LevelAt(keep) <= floor
    BY <2>1, <1>1
  <2>3. LevelAt(keep) \in Nat
    BY <2>1, <1>1, <1>2, QueueFacts DEF SolverInv
  <2>4. LevelAt(keep)' < LevelAt(k)'
    BY <2>2, <2>3, <1>3
  <2> QED
    BY <2>1, <2>4, <1>3
<1> QED
  BY <1>1, <1>2, <1>4, <1>5

\* What a visited rule asks for is forced, or is in conflict.
LEMMA AskedFacts ==
  ASSUME SolverInv, Visiting, NEW l \in VisitedRule.lits, Asked(l)
  PROVE  /\ l # PropagatedLiteral \/ ~IsMulti(VisitedRule)
         /\ IF IsMulti(VisitedRule) THEN VisitedRule.rule_type = "package"
            ELSE \A m \in VisitedRule.lits \ {l} : Conflict(m)
<1>1. CASE IsMulti(VisitedRule)
  <2>1. l # PropagatedLiteral
    BY <1>1 DEF Asked, Pending, IsFirst
  <2>2. VisitedRule.rule_type = "package"
    BY <1>1, VisitFacts DEF NodeOK, VisitedRule
  <2> QED
    BY <1>1, <2>1, <2>2
<1>2. CASE ~IsMulti(VisitedRule)
  <2>1. Alternatives = {} /\ l = OtherWatch
    BY <1>2 DEF Asked
  <2>2. Conflict(PropagatedLiteral)
    BY PropagatedFacts DEF Visiting
  <2> QED
    BY <1>2, <2>1, <2>2 DEF Alternatives
<1> QED
  BY <1>1, <1>2

\* A false literal was false before the next decision.
LEMMA FalseBeforeNext ==
  ASSUME SolverInv, NEW keep, NEW floor \in Nat, NEW l, NEW lv, NEW reason,
         Becomes(keep, floor, l, lv, reason),
         NEW m \in Literals, Conflict(m), DecisionLevel(m) <= floor
  PROVE  \A k \in {keep + 1} : FalseBefore(m, k)'
<1>1. PICK j \in 1 .. Len(queue) : queue[j].literal = -m /\ LevelAt(j) = DecisionLevel(m)
  BY FalseIsDecided DEF SolverInv
<1>2. Len(queue) \in Nat /\ LevelAt(j) \in Nat
  BY QueueFacts DEF SolverInv
<1>3. /\ keep \in 0 .. Len(queue) /\ \A i \in 1 .. keep : queue'[i] = queue[i]
      /\ \A i \in keep + 1 .. Len(queue) : LevelAt(i) > floor
  BY DEF Becomes
<1>4. j \in 1 .. keep
  <2>1. j \notin keep + 1 .. Len(queue)
    BY <1>1, <1>2, <1>3
  <2> QED
    BY <2>1, <1>2, <1>3
<1>5. queue'[j].literal = -m /\ j \in 1 .. (keep + 1) - 1
  BY <1>1, <1>2, <1>3, <1>4
<1> QED
  BY <1>5 DEF FalseBefore

\* An assertion is the reason of its only literal.
LEMMA AssertDecideReasons ==
  ASSUME SolverInv, AssertDecide, Grown, StackInv'
  PROVE  ReasonInv'
<1>1. Becomes(Len(queue), level, AssertionLiteral, level, AssertionId)
  BY AssertDecideStep
<1>2. pc = "assertions" /\ Asserting /\ IsOpenAssertion
  BY DEF AssertDecide, Asserting
<1>3. \A id : ~Busy(id)
  BY <1>2 DEF Busy, Visiting, Propagating
<1>4. AssertionId \in RuleIds /\ rules'[AssertionId] = rules[AssertionId]
  BY <1>2, AssertionInRange DEF Grown
<1>5. rules[AssertionId].lits = {AssertionLiteral} /\ ~IsMulti(rules[AssertionId])
  BY <1>2, AssertionIs DEF IsOpenAssertion, IsAssertion, IsMulti
<1>6. \A k \in {Len(queue) + 1} : queue'[k].literal = AssertionLiteral /\ queue'[k].reason = AssertionId
  BY <1>1 DEF Becomes
<1> DEFINE lit == AssertionLiteral
           id == AssertionId
<1>7. \A k \in {Len(queue) + 1} : ReasonOK(k)'
  <2> SUFFICES ASSUME NEW k, k = Len(queue) + 1 PROVE ReasonOK(k)'
    OBVIOUS
  <2>1. /\ rules'[queue'[k].reason].lits = {queue'[k].literal}
        /\ ~IsMulti(rules'[queue'[k].reason])
    BY <1>4, <1>5, <1>6
  <2> QED
    BY <2>1 DEF ReasonOK, Forced
<1>8. level \in Nat /\ level <= level
  BY DEF SolverInv, StackInv
<1> QED
  BY <1>1, <1>3, <1>7, <1>8, ReasonsStay

\* The learned rule forces its literal: the others are false below.
LEMMA LearnReasons ==
  ASSUME SolverInv, Learn, Grown, StackInv'
  PROVE  ReasonInv'
<1>1. PICK keep \in 0 .. Len(queue) :
        Becomes(keep, an.rule_level, an.learned, an.rule_level, Len(rules) + 1)
  BY LearnStep
<1>2. an.rule_level \in Nat /\ an.rule_level < level /\ an.rule_level <= level /\ level \in Nat
  BY DEF Learn, SolverInv, StackInv
<1>3. IsTheLearned(rules'[Len(rules) + 1])
  BY LearnedStored
<1>4. \A m \in an.others : m \in Literals /\ Conflict(m) /\ DecisionLevel(m) <= an.rule_level
  BY DEF Learn, SolverInv, AnInv, AnBounds, AnPhase, InAnalysis, AnTyped, AnShape
<1>5. \A k \in {keep + 1} : ReasonOK(k)'
  <2> SUFFICES ASSUME NEW k, k = keep + 1 PROVE ReasonOK(k)'
    OBVIOUS
  <2>1. queue'[k].literal = an.learned /\ queue'[k].reason = Len(rules) + 1
    BY <1>1 DEF Becomes
  <2>2. /\ rules'[queue'[k].reason].lits = {an.learned} \cup an.others
        /\ ~IsMulti(rules'[queue'[k].reason])
    BY <2>1, <1>3 DEF IsTheLearned, IsMulti
  <2>3. ASSUME NEW m \in an.others PROVE FalseBefore(m, k)'
    <3>1. m \in Literals /\ Conflict(m) /\ DecisionLevel(m) <= an.rule_level
      BY <1>4
    <3> QED
      BY <3>1, <1>1, <1>2, FalseBeforeNext
  <2> QED
    BY <2>1, <2>2, <2>3 DEF ReasonOK, Forced
<1> QED
  BY <1>1, <1>2, <1>5, ReasonsStay

\* A choice needs no reason: it is the first decision of its level.
LEMMA ChoiceReasons ==
  ASSUME SolverInv, InstallRequest \/ InstallProvider \/ RetryBranch, Grown, StackInv'
  PROVE  ReasonInv'
<1>1. level \in Nat \ {0} /\ level <= level /\ Len(queue) \in Nat
  BY QueueFacts DEF SolverInv, StackInv
<1>2. pc \in {"requests", "sweep", "branches"}
  BY DEF InstallRequest, InstallProvider, RetryBranch, Requesting, Sweeping
<1>3. \A id : ~Busy(id)
  BY <1>2 DEF Busy, Visiting, Propagating
<1>4. CASE InstallRequest \/ InstallProvider
  <2>1. PICK id \in RuleIds : \E l : Becomes(Len(queue), level, l, level + 1, id)
    BY <1>4, InstallStep
  <2>2. PICK l : Becomes(Len(queue), level, l, level + 1, id)
    BY <2>1
  <2>3. \A k \in {Len(queue) + 1} : IsChoice(k)'
    BY <2>2, <1>1, ChoiceMade
  <2> QED
    BY <2>2, <2>3, <1>1, <1>3, ReasonsStay
<1>5. CASE RetryBranch
  <2>1. PICK keep \in 1 .. Len(queue), floor \in Nat \ {0} : \E l :
           floor < level /\ Becomes(keep, floor, l, floor + 1, queue[keep].reason)
    BY <1>5, RetryStep
  <2>2. PICK l : floor < level /\ Becomes(keep, floor, l, floor + 1, queue[keep].reason)
    BY <2>1
  <2>3. \A k \in {keep + 1} : IsChoice(k)'
    BY <2>2, ChoiceMade
  <2>4. floor \in Nat /\ floor <= level
    BY <2>2, <1>1
  <2> QED
    BY <2>2, <2>3, <2>4, <1>1, <1>3, ReasonsStay
<1> QED
  BY <1>4, <1>5

\* A visit of a MultiConflict rule goes on after a decision.
LEMMA VisitGoesOn ==
  ASSUME SolverInv, VisitImply, IsMulti(VisitedRule), NEW l,
         Becomes(Len(queue), level, l, level, Node.rule)
  PROVE  Busy(Node.rule)' /\ Node.rule' = Node.rule
<1>1. /\ propagate_index \in Nat /\ propagate_index + 1 \in 1 .. Len(queue)
      /\ Len(queue) \in Nat
  BY PropagatedFacts, QueueFacts DEF VisitImply, Visiting, SolverInv
<1>2. /\ UNCHANGED <<chains, nodes, propagate_index, pc, cursor>>
      /\ Visiting
  BY DEF VisitImply, watchVars
<1>3. queue'[propagate_index + 1] = queue[propagate_index + 1] /\ Len(queue') = Len(queue) + 1
  BY <1>1 DEF Becomes
<1>4. PropagatedLiteral' = PropagatedLiteral
  BY <1>2, <1>3 DEF PropagatedLiteral
<1>5. Chain' = Chain
  BY <1>2, <1>4 DEF Chain
<1>6. Node' = Node
  BY <1>2, <1>5 DEF Node
<1>7. Visiting'
  BY <1>1, <1>2, <1>3, <1>5 DEF Visiting, Propagating
<1> QED
  BY <1>6, <1>7 DEF Busy

\* Propagation forces the literal it decides: the others of the rule are false,
\* or for a multi-conflict decided in the same visit.
LEMMA VisitImplyReasons ==
  ASSUME SolverInv, VisitImply, Grown, StackInv'
  PROVE  ReasonInv'
<1>1. PICK l \in VisitedRule.lits :
        /\ Asked(l) /\ Undecided(l)
        /\ Becomes(Len(queue), level, l, level, Node.rule)
        /\ \A p \in Packages : p # AbsOf(l) => map'[p] = map[p]
  BY VisitImplyStep
<1> DEFINE n == Len(queue)
           id == Node.rule
<1>2. /\ Len(queue) \in Nat /\ DOMAIN queue = 1 .. Len(queue)
      /\ level \in Nat /\ level <= level /\ inst.size \in Nat
  BY QueueFacts DEF SolverInv, StackInv
<1>3. /\ DOMAIN queue' = 1 .. Len(queue) + 1 /\ level' = level
      /\ \A j \in 1 .. Len(queue) : queue'[j] = queue[j] /\ LevelAt(j)' = LevelAt(j)
      /\ \A k \in {Len(queue) + 1} : /\ queue'[k].literal = l /\ queue'[k].reason = Node.rule
                                     /\ LevelAt(k)' = level
      /\ l \in Literals
  BY <1>1 DEF Becomes
<1>4. /\ Visiting /\ pc = "propagate" /\ UNCHANGED <<rules, inst>>
      /\ Node.rule \in RuleIds /\ RuleOK(VisitedRule) /\ rules'[Node.rule] = VisitedRule
      /\ propagate_index + 1 \in 1 .. Len(queue)
      /\ queue[propagate_index + 1].literal = -PropagatedLiteral
      /\ PropagatedLiteral \in Literals
      /\ Conflict(PropagatedLiteral) /\ DecisionLevel(PropagatedLiteral) = level
  BY VisitFacts, PropagatedFacts DEF VisitImply, Visiting, Propagating, ruleVars, VisitedRule
<1>5. ASSUME NEW m \in VisitedRule.lits, Conflict(m)
      PROVE  \A k \in {Len(queue) + 1} : FalseBefore(m, k)'
  <2>1. m \in Literals
    BY <1>4 DEF RuleOK
  <2>2. DecisionLevel(m) <= level
    <3>1. PICK j \in 1 .. Len(queue) : LevelAt(j) = DecisionLevel(m)
      BY <2>1, <1>5, FalseIsDecided DEF SolverInv
    <3> QED
      BY <3>1, QueueFacts DEF SolverInv
  <2> QED
    BY <2>1, <2>2, <1>1, <1>2, <1>5, FalseBeforeNext
<1>6. Satisfy(l)' /\ DecisionLevel(l)' = level
  <2>1. \A k \in {Len(queue) + 1} : k \in DOMAIN queue' /\ queue'[k].literal = l
    BY <1>2, <1>3
  <2>2. Satisfy(l)'
    BY <2>1 DEF StackInv, Agree, Satisfy, Entry
  <2>3. \A k \in {Len(queue) + 1} : LevelAt(k)' = DecisionLevel(l)'
    BY <2>1 DEF LevelAt, DecisionLevel, Entry
  <2> QED
    BY <2>2, <2>3, <1>3
\* The literals that are not decided yet.
<1>7. ASSUME IsMulti(VisitedRule), NEW m \in VisitedRule.lits, m # l, Undecided(m)
      PROVE  Undecided(m)' /\ Busy(id)'
  <2>1. m \in Int /\ l \in Int /\ m < 0 /\ l < 0 /\ m \in Literals
    BY <1>4, <1>7, LiteralFacts, <1>2 DEF RuleOK
  <2>2. AbsOf(m) # AbsOf(l)
    BY <2>1, <1>7 DEF AbsOf
  <2>3. AbsOf(m) \in Packages
    BY <2>1, <1>2, LiteralFacts
  <2>4. Undecided(m)'
    BY <2>2, <2>3, <1>1, <1>7 DEF Undecided, Entry
  <2> QED
    BY <2>4, <1>1, <1>7, VisitGoesOn DEF Busy
<1>8. ASSUME NEW k \in 1 .. Len(queue), AllAsked(k), IsMulti(rules[queue[k].reason])
      PROVE  AllAsked(k)'
  <2>1. /\ rules'[queue'[k].reason] = rules[queue[k].reason] /\ queue'[k] = queue[k]
        /\ \A m : FalseBefore(m, k)' <=> FalseBefore(m, k)
        /\ queue[k].reason \in RuleIds
    BY <1>2, <1>3, ReasonStays
  <2>2. LevelAt(k) \in Nat /\ LevelAt(k) <= level
    BY QueueFacts DEF SolverInv
  <2> SUFFICES ASSUME NEW m \in rules[queue[k].reason].lits \ {queue[k].literal}
               PROVE  \/ FalseBefore(m, k)'
                      \/ Satisfy(m)' /\ DecisionLevel(m)' <= LevelAt(k)'
                      \/ Undecided(m)' /\ LevelAt(k)' = level' /\ Busy(queue[k].reason)'
    BY <2>1 DEF AllAsked
  <2>3. m \in Literals
    BY <2>1 DEF SolverInv, RulesInv, RuleOK
  <2>4. CASE FalseBefore(m, k)
    BY <2>4, <2>1
  <2>5. CASE Satisfy(m) /\ DecisionLevel(m) <= LevelAt(k)
    <3>1. ~Undecided(m) /\ DecisionLevel(m) \in Nat
      BY <2>3, <2>5, StatusFacts DEF SolverInv
    <3>2. DecisionLevel(m) <= level
      BY <3>1, <2>5, <2>2, <1>2
    <3>3. Satisfy(m)' /\ DecisionLevel(m)' = DecisionLevel(m)
      BY <2>3, <2>5, <3>1, <3>2, <1>1, <1>4, KeptStatus
    <3> QED
      BY <3>3, <2>5, <1>3
  <2>6. CASE Undecided(m) /\ LevelAt(k) = level /\ Busy(queue[k].reason)
    <3>1. Node.rule = queue[k].reason
      BY <2>6, <1>4 DEF Busy
    <3>2. IsMulti(VisitedRule) /\ m \in VisitedRule.lits
      BY <3>1, <1>8 DEF VisitedRule
    <3>3. CASE m = l
      BY <3>3, <1>6, <1>3, <2>2, <2>6
    <3>4. CASE m # l
      <4>1. Undecided(m)' /\ Busy(id)'
        BY <3>2, <3>4, <2>6, <1>7
      <4> QED
        BY <4>1, <3>1, <3>2, <1>1, <1>3, <2>6, VisitGoesOn DEF Busy
    <3> QED
      BY <3>3, <3>4
  <2> QED
    BY <2>4, <2>5, <2>6, <1>8 DEF AllAsked
<1>9. ASSUME NEW k, k = Len(queue) + 1
      PROVE  ReasonOK(k)'
  <2>1. queue'[k].literal = l /\ rules'[queue'[k].reason] = VisitedRule /\ LevelAt(k)' = level
    BY <1>3, <1>4, <1>9
  <2>2. \A m \in VisitedRule.lits : Conflict(m) => FalseBefore(m, k)'
    BY <1>5, <1>9
  <2>3. CASE ~IsMulti(VisitedRule)
    <3>1. \A m \in VisitedRule.lits \ {l} : Conflict(m)
      BY <2>3, <1>1, <1>4, AskedFacts
    <3>2. Forced(k)'
      BY <2>1, <2>2, <2>3, <3>1, <1>1 DEF Forced
    <3> QED
      BY <3>2, <2>1, <2>3 DEF ReasonOK
  <2>4. CASE IsMulti(VisitedRule)
    <3>1. l # PropagatedLiteral /\ VisitedRule.rule_type = "package"
      BY <2>4, <1>1, <1>4, AskedFacts
    <3>2. PropagatedLiteral \in VisitedRule.lits
      BY <1>4, VisitFacts
    <3>3. Forced(k)'
      BY <2>1, <2>2, <2>4, <3>1, <3>2, <1>1, <1>4 DEF Forced
    <3>4. ASSUME NEW m \in VisitedRule.lits \ {l}
          PROVE  \/ FalseBefore(m, k)'
                 \/ Satisfy(m)' /\ DecisionLevel(m)' <= LevelAt(k)'
                 \/ Undecided(m)' /\ Busy(id)'
      <4>0. m \in Literals /\ (Undecided(m) \/ Satisfy(m) \/ Conflict(m))
        BY <1>4, StatusFacts DEF RuleOK, SolverInv
      <4>1. CASE Conflict(m)
        BY <4>1, <2>2
      <4>2. CASE Satisfy(m)
        <5>1. PICK j \in 1 .. Len(queue) : LevelAt(j) = DecisionLevel(m)
          BY <4>0, <4>2, SatisfiedIsDecided DEF SolverInv
        <5>2. DecisionLevel(m) <= level /\ ~Undecided(m)
          BY <5>1, <4>0, <4>2, QueueFacts, StatusFacts DEF SolverInv
        <5>3. Satisfy(m)' /\ DecisionLevel(m)' = DecisionLevel(m)
          BY <4>0, <4>2, <5>2, <1>1, <1>4, KeptStatus
        <5> QED
          BY <5>2, <5>3, <2>1
      <4>3. CASE Undecided(m)
        BY <4>3, <2>4, <1>7
      <4> QED
        BY <4>0, <4>1, <4>2, <4>3
    <3>5. queue'[k].reason = Node.rule /\ Node.rule' = Node.rule
      BY <1>3, <1>9, <1>1, <2>4, VisitGoesOn
    <3>6. AllAsked(k)'
      BY <3>4, <3>5, <2>1, <1>3 DEF AllAsked, Busy
    <3> QED
      BY <3>1, <3>3, <3>6, <2>1 DEF ReasonOK
  <2> QED
    BY <2>3, <2>4
<1>10. ASSUME NEW k \in 1 .. Len(queue)
       PROVE  IsChoice(k)' \/ ReasonOK(k)'
  <2>1. IsChoice(k) \/ ReasonOK(k)
    BY <1>2 DEF SolverInv, ReasonInv
  <2>2. (IsChoice(k) => IsChoice(k)') /\ (Forced(k) => Forced(k)')
        /\ rules'[queue'[k].reason] = rules[queue[k].reason]
    BY <1>2, <1>3, ReasonStays
  <2> QED
    BY <2>1, <2>2, <1>8 DEF ReasonOK
<1>11. \A k \in 1 .. Len(queue) + 1 : k \in 1 .. Len(queue) \/ k = Len(queue) + 1
  BY <1>2
<1> QED
  BY <1>3, <1>9, <1>10, <1>11 DEF ReasonInv

\* A step that decides nothing leaves the reasons as they are, but for the end
\* of a visit.
LEMMA QuietReasons ==
  ASSUME SolverInv, UNCHANGED <<inst, rules, map, queue, level>>,
         \A id \in RuleIds : IsMulti(rules[id]) /\ Busy(id) =>
            Busy(id)' \/ \A m \in rules[id].lits : ~Undecided(m)
  PROVE  ReasonInv'
<1>1. Len(queue) \in Nat /\ DOMAIN queue = 1 .. Len(queue)
  BY QueueFacts DEF SolverInv
<1>2. ASSUME NEW k \in 1 .. Len(queue)
      PROVE  IsChoice(k)' \/ ReasonOK(k)'
  <2>1. IsChoice(k) \/ ReasonOK(k)
    BY <1>1 DEF SolverInv, ReasonInv
  <2>2. CASE IsChoice(k)
    BY <2>2 DEF IsChoice, LevelAt, DecisionLevel, Entry
  <2>3. CASE ReasonOK(k)
    <3>1. Forced(k)'
      BY <2>3 DEF ReasonOK, Forced, FalseBefore
    <3>2. ASSUME IsMulti(rules[queue[k].reason]), AllAsked(k)
          PROVE  AllAsked(k)'
      <4>1. queue[k].reason \in RuleIds
        BY ReasonIds
      <4>2. Busy(queue[k].reason) => Busy(queue[k].reason)'
                \/ \A m \in rules[queue[k].reason].lits : ~Undecided(m)
        BY <4>1, <3>2
      <4>3. \A m : /\ FalseBefore(m, k)' <=> FalseBefore(m, k)
                   /\ Satisfy(m)' <=> Satisfy(m)
                   /\ Undecided(m)' <=> Undecided(m)
                   /\ DecisionLevel(m)' = DecisionLevel(m)
        BY DEF FalseBefore, Satisfy, Undecided, DecisionLevel, Entry
      <4>4. LevelAt(k)' = LevelAt(k)
        BY DEF LevelAt, DecisionLevel, Entry
      <4> SUFFICES ASSUME NEW m \in rules[queue[k].reason].lits \ {queue[k].literal}
                   PROVE  \/ FalseBefore(m, k)
                          \/ Satisfy(m) /\ DecisionLevel(m) <= LevelAt(k)
                          \/ Undecided(m) /\ LevelAt(k) = level /\ Busy(queue[k].reason)'
        BY <4>3, <4>4 DEF AllAsked
      <4> QED
        BY <3>2, <4>2 DEF AllAsked
    <3> QED
      BY <2>3, <3>1, <3>2 DEF ReasonOK
  <2> QED
    BY <2>1, <2>2, <2>3
<1> QED
  BY <1>1, <1>2 DEF ReasonInv

\* The end of a visit.
LEMMA QuietVisits ==
  ASSUME SolverInv, QuietStep, NEW id \in RuleIds, IsMulti(rules[id]), Busy(id)
  PROVE  Busy(id)' \/ \A m \in rules[id].lits : ~Undecided(m)
<1>1. pc \in {"propagate", "conflict", "resolve", "walk", "learn", "done"}
  BY DEF Busy, Visiting, Propagating
<1>2. CASE pc \in {"conflict", "resolve", "walk", "learn", "done"}
  <2>1. pc' \in {"conflict", "resolve", "walk", "learn", "done"}
    <3>1. \/ Unsolvable \/ BeginAnalysis \/ Resolve \/ WalkEnd \/ WalkLearn \/ WalkReason
          \/ Terminated \/ UNCHANGED vars
      BY <1>2 DEF QuietStep, AssertSkip, AssertionsDone, RunSat, VisitSettled, VisitMoveWatch,
                  VisitConflict, NextDecision, Propagated, SkipRequest, RequestsDone, SkipRule,
                  Swept, BranchesDone, Asserting, Visiting, Propagating, Requesting, Sweeping
    <3> QED
      BY <3>1, <1>2, Zenon DEF Unsolvable, BeginAnalysis, Resolve, WalkEnd, WalkLearn, WalkReason,
                        Terminated, vars
  <2> QED
    BY <2>1 DEF Busy
<1>3. CASE pc = "propagate"
  <2>1. Visiting /\ Node.rule = id /\ VisitedRule = rules[id]
    BY <1>3 DEF Busy, VisitedRule
  <2>1a. /\ ~(cursor > Len(Chain)) /\ ~(propagate_index >= Len(queue))
    <3>1. cursor \in Nat /\ Len(Chain) \in Nat /\ cursor <= Len(Chain)
      BY <2>1, VisitFacts, LenProperties DEF Visiting
    <3>2. propagate_index \in Nat /\ propagate_index + 1 \in 1 .. Len(queue) /\ Len(queue) \in Nat
      BY <2>1, PropagatedFacts, QueueFacts DEF Visiting, SolverInv
    <3> QED
      BY <3>1, <3>2
  <2>2. VisitSettled \/ VisitMoveWatch \/ VisitConflict \/ UNCHANGED vars
    BY <1>3, <2>1, <2>1a DEF QuietStep, AssertSkip, AssertionsDone, RunSat, NextDecision, Propagated,
                      Unsolvable, BeginAnalysis, Resolve, WalkEnd, WalkLearn, WalkReason,
                      SkipRequest, RequestsDone, SkipRule, Swept, BranchesDone, Terminated,
                      Asserting, Visiting, Propagating, Requesting, Sweeping
  <2>3. CASE VisitSettled
    <3>1. Pending = {}
      BY <2>1, <2>3 DEF VisitSettled
    <3>2. Conflict(PropagatedLiteral)
      BY <2>1, PropagatedFacts DEF Visiting
    <3>3. ASSUME NEW m \in rules[id].lits PROVE ~Undecided(m)
      <4>1. m \in Literals
        BY <3>3 DEF SolverInv, RulesInv, RuleOK
      <4>2. m = PropagatedLiteral \/ Satisfy(m)
        BY <3>1, <2>1 DEF Pending
      <4> QED
        BY <4>1, <4>2, <3>2, StatusFacts DEF SolverInv
    <3> QED
      BY <3>3
  <2>4. CASE VisitMoveWatch
    BY <2>1, <2>4 DEF VisitMoveWatch
  <2>5. CASE VisitConflict
    BY <2>5 DEF VisitConflict, Busy
  <2>6. CASE UNCHANGED vars
    <3>1. UNCHANGED <<pc, propagate_index, queue, cursor, chains, nodes>>
      BY <2>6 DEF vars
    <3> QED
      BY <2>1, <3>1 DEF Busy, Visiting, Propagating, Chain, Node, PropagatedLiteral
  <2> QED
    BY <2>2, <2>3, <2>4, <2>5, <2>6
<1> QED
  BY <1>1, <1>2, <1>3

\* Every step keeps the reasons.
LEMMA ReasonStep ==
  ASSUME SolverInv, [Next]_vars
  PROVE  ReasonInv'
<1>1. Grown /\ StackInv' /\ UNCHANGED inst
  BY RulesStep, StepKeeps, Frames DEF SolverInv
<1>2. CASE AssertDecide
  BY <1>1, <1>2, AssertDecideReasons
<1>3. CASE VisitImply
  BY <1>1, <1>3, VisitImplyReasons
<1>4. CASE Learn
  BY <1>1, <1>4, LearnReasons
<1>5. CASE InstallRequest \/ InstallProvider \/ RetryBranch
  BY <1>1, <1>5, ChoiceReasons
<1>6. CASE AssertConflict
  <2>1. CASE queue' = <<>>
    BY <2>1 DEF ReasonInv
  <2>2. CASE queue' # <<>>
    <3>1. UNCHANGED <<inst, rules, map, queue, level>> /\ pc = "assertions"
      BY <1>6, <2>2 DEF AssertConflict, Asserting, decisionVars
    <3>2. \A id : ~Busy(id)
      BY <3>1 DEF Busy, Visiting, Propagating
    <3> QED
      BY <3>1, <3>2, QuietReasons
  <2> QED
    BY <2>1, <2>2
<1>7. CASE QuietStep
  <2>1. UNCHANGED <<inst, map, queue, level>>
    BY <1>7, QuietSteps DEF Quiet, QuietStep
  <2>2. UNCHANGED rules
    <3>1. ~Learn
      BY <2>1 DEF Learn, SolverInv, StackInv
    <3> QED
      BY <3>1, Frames
  <2> QED
    BY <1>7, <2>1, <2>2, QuietVisits, QuietReasons
<1> QED
  BY <1>2, <1>3, <1>4, <1>5, <1>6, <1>7 DEF Next, QuietStep

-----------------------------------------------------------------------------
(***************************************************************************)
(* The conflict.                                                           *)
(***************************************************************************)

\* The rule in conflict is false when propagation stops at it.
LEMMA ConflictStep ==
  ASSUME SolverInv, [Next]_vars
  PROVE  ConflictInv'
<1> SUFFICES ASSUME pc' = "conflict"
             PROVE  an'.rule \in RuleIds' /\ Conflicting(rules[an.rule])'
  BY DEF ConflictInv
<1>1. CASE UNCHANGED vars
  BY <1>1 DEF vars, SolverInv, ConflictInv, Conflicting, RuleIds, Conflict, DecisionLevel, Entry
<1>2. CASE VisitConflict
  <2>1. /\ UNCHANGED <<inst, rules, map, level>> /\ Visiting
        /\ an' = [an EXCEPT !.rule = Node.rule]
    BY <1>2 DEF VisitConflict, ruleVars, decisionVars
  <2>2. PICK l \in VisitedRule.lits : Asked(l) /\ Conflict(l)
    BY <1>2 DEF VisitConflict
  <2>3. an'.rule = Node.rule
    BY <2>1 DEF SolverInv, AnTyped, AnShape
  <2>4. /\ Node.rule \in RuleIds /\ PropagatedLiteral \in VisitedRule.lits
        /\ Conflict(PropagatedLiteral) /\ DecisionLevel(PropagatedLiteral) = level
    BY <2>1, VisitFacts, PropagatedFacts DEF Visiting
  <2>5. IF IsMulti(VisitedRule)
        THEN VisitedRule.rule_type = "package" /\ l # PropagatedLiteral
        ELSE \A m \in VisitedRule.lits : Conflict(m)
    BY <2>1, <2>2, AskedFacts
  <2>6. Conflicting(VisitedRule)
    BY <2>2, <2>4, <2>5 DEF Conflicting
  <2> QED
    BY <2>1, <2>3, <2>4, <2>6
    DEF VisitedRule, Conflicting, RuleIds, Conflict, DecisionLevel, Entry
<1> QED
  BY <1>1, <1>2
  DEF Next, AssertSkip, AssertDecide, AssertConflict, AssertionsDone, RunSat, VisitSettled,
      VisitMoveWatch, VisitImply, NextDecision, Propagated, Unsolvable, BeginAnalysis, Resolve,
      WalkEnd, WalkLearn, WalkReason, Learn, SkipRequest, InstallRequest, RequestsDone, SkipRule,
      InstallProvider, Swept, RetryBranch, BranchesDone, Terminated, Asserting, Visiting,
      Propagating, Requesting, Sweeping, RequestsOrSweep, SweepFrom, SelectAndInstall,
      SetPropagateLearn

-----------------------------------------------------------------------------
(***************************************************************************)
(* analyze: what it counts.                                                *)
(***************************************************************************)

\* The false literal of a package is the one that is false.
LEMMA FalseLiteralIs ==
  ASSUME StackInv, NEW l \in Literals, Conflict(l)
  PROVE  /\ FalseLiteral(AbsOf(l)) = l /\ AbsOf(l) \in Packages
         /\ AbsOf(map[AbsOf(l)]) = DecisionLevel(l)
<1>1. inst.size \in Nat /\ map \in [Packages -> Int]
  BY DEF StackInv, Agree, Packages
<1>2. l \in Int /\ AbsOf(l) \in Packages /\ map[AbsOf(l)] \in Int
  BY <1>1, LiteralFacts
<1> QED
  BY <1>2 DEF FalseLiteral, Conflict, DecisionLevel, Entry, AbsOf

\* Sets of packages are finite.
LEMMA PackagesFinite ==
  ASSUME inst.size \in Nat, NEW seen \in SUBSET Packages
  PROVE  /\ IsFiniteSet(seen) /\ Cardinality(seen) \in Nat
         /\ Cardinality(seen) = 0 <=> seen = {}
<1>1. IsFiniteSet(Packages)
  BY FS_Interval DEF Packages
<1>2. IsFiniteSet(seen)
  BY <1>1, FS_Subset
<1> QED
  BY <1>2, FS_CardinalityType, FS_EmptySet

\* False literals are of different packages.
LEMMA PackagesCount ==
  ASSUME StackInv, NEW lits \in SUBSET Literals, \A l \in lits : Conflict(l)
  PROVE  /\ IsFiniteSet(PackagesOf(lits)) /\ PackagesOf(lits) \subseteq Packages
         /\ Cardinality(PackagesOf(lits)) = Cardinality(lits)
<1>1. inst.size \in Nat
  BY DEF StackInv
<1>2. \A l \in lits : FalseLiteral(AbsOf(l)) = l /\ AbsOf(l) \in Packages
  BY FalseLiteralIs
<1> DEFINE b == [l \in lits |-> AbsOf(l)]
<1>3. b \in Bijection(lits, PackagesOf(lits))
  <2>1. b \in Injection(lits, PackagesOf(lits))
    <3>1. b \in [lits -> PackagesOf(lits)]
      BY DEF PackagesOf
    <3>2. \A l, m \in lits : b[l] = b[m] => l = m
      BY <1>2
    <3> QED
      BY <3>1, <3>2 DEF Injection, IsInjective
  <2>2. b \in Surjection(lits, PackagesOf(lits))
    BY DEF Surjection, PackagesOf
  <2> QED
    BY <2>1, <2>2 DEF Bijection
<1>4. IsFiniteSet(lits)
  BY <1>1, FiniteLiterals
<1> QED
  BY <1>2, <1>3, <1>4, FS_Bijection DEF ExistsBijection, PackagesOf

\* How many packages of a level are seen once some false literals are.
LEMMA SeenCount ==
  ASSUME StackInv, NEW seen \in SUBSET Packages, NEW lits \in SUBSET Literals, NEW lv,
         \A l \in lits : Conflict(l) /\ AbsOf(l) \notin seen
  PROVE  /\ Cardinality(PackagesAt(seen \cup PackagesOf(lits), lv))
               = Cardinality(PackagesAt(seen, lv)) + Cardinality(LiteralsAt(lits, lv))
         /\ Cardinality(PackagesAt(seen, lv)) \in Nat
         /\ Cardinality(LiteralsAt(lits, lv)) \in Nat
         /\ Cardinality(LiteralsAt(lits, lv)) = 0 <=> LiteralsAt(lits, lv) = {}
<1> DEFINE old == PackagesAt(seen, lv)
           new == LiteralsAt(lits, lv)
           all == PackagesAt(seen \cup PackagesOf(lits), lv)
<1>1. inst.size \in Nat
  BY DEF StackInv
<1>2. IsFiniteSet(Packages)
  BY <1>1, FS_Interval DEF Packages
<1>3. IsFiniteSet(old) /\ Cardinality(old) \in Nat
  BY <1>2, FS_Subset, FS_CardinalityType DEF PackagesAt
<1>4. new \in SUBSET lits
  BY DEF LiteralsAt
<1>4a. IsFiniteSet(new) /\ Cardinality(new) \in Nat /\ (Cardinality(new) = 0 <=> new = {})
  BY <1>1, <1>4, FiniteLiterals, FS_EmptySet
<1>5. IsFiniteSet(PackagesOf(new)) /\ Cardinality(PackagesOf(new)) = Cardinality(new)
  BY <1>4, PackagesCount
<1>6. all = old \cup PackagesOf(new)
  BY FalseLiteralIs DEF PackagesOf, PackagesAt, LiteralsAt
<1>7. old \cap PackagesOf(new) = {}
  BY <1>4 DEF PackagesOf, PackagesAt
<1> HIDE DEF old, new, all
<1>8. Cardinality(all) = Cardinality(old) + Cardinality(new) - 0
  BY <1>3, <1>5, <1>6, <1>7, FS_Union, FS_EmptySet
<1> QED
  BY <1>3, <1>4a, <1>8 DEF old, new, all

\* A package is no longer seen.
LEMMA SeenLess ==
  ASSUME StackInv, NEW seen \in SUBSET Packages, NEW p \in seen, NEW lv
  PROVE  /\ Cardinality(PackagesAt(seen \ {p}, lv))
               = IF AbsOf(map[p]) = lv THEN Cardinality(PackagesAt(seen, lv)) - 1
                 ELSE Cardinality(PackagesAt(seen, lv))
         /\ Cardinality(PackagesAt(seen, lv)) \in Nat
         /\ Cardinality(PackagesAt(seen \ {p}, lv)) \in Nat
         /\ Cardinality(PackagesAt(seen, lv)) = 0 <=> PackagesAt(seen, lv) = {}
         /\ Cardinality(PackagesAt(seen \ {p}, lv)) = 0 <=> PackagesAt(seen \ {p}, lv) = {}
         /\ Cardinality(seen \ {p}) = Cardinality(seen) - 1
         /\ Cardinality(seen) \in Nat
<1> DEFINE old == PackagesAt(seen, lv)
           new == PackagesAt(seen \ {p}, lv)
<1>1. inst.size \in Nat
  BY DEF StackInv
<1>2. IsFiniteSet(Packages)
  BY <1>1, FS_Interval DEF Packages
<1>3. IsFiniteSet(old) /\ IsFiniteSet(new) /\ IsFiniteSet(seen)
  BY <1>2, FS_Subset DEF PackagesAt
<1>4. new = old \ {p} /\ (p \in old <=> AbsOf(map[p]) = lv)
  BY DEF PackagesAt
<1>5. Cardinality(old) \in Nat /\ Cardinality(new) \in Nat /\ Cardinality(seen) \in Nat
  BY <1>3, FS_CardinalityType
<1>6. /\ Cardinality(old \ {p}) = IF p \in old THEN Cardinality(old) - 1 ELSE Cardinality(old)
      /\ Cardinality(seen \ {p}) = Cardinality(seen) - 1
  BY <1>3, FS_RemoveElement
<1>7. (Cardinality(old) = 0 <=> old = {}) /\ (Cardinality(new) = 0 <=> new = {})
  BY <1>3, FS_EmptySet
<1> HIDE DEF old, new
<1>8. Cardinality(new) = IF AbsOf(map[p]) = lv THEN Cardinality(old) - 1 ELSE Cardinality(old)
  BY <1>4, <1>6
<1> QED
  BY <1>5, <1>6, <1>7, <1>8 DEF old, new

\* What Count returns.
LEMMA CountFacts ==
  ASSUME SolverInv, NEW a, AnShape(a), a.rule_level \in 1 .. level - 1,
         NEW lits \in SUBSET Literals,
         \A l \in lits : Conflict(l) /\ AbsOf(l) \notin a.seen
  PROVE  LET b == Count(a, lits)
             kept == {l \in lits : DecisionLevel(l) \notin {1, level}}
         IN /\ AnShape(b)
            /\ b.rule = a.rule /\ b.learned = a.learned /\ b.decision_id = a.decision_id
            /\ b.seen = a.seen \cup PackagesOf(lits)
            /\ b.others = a.others \cup kept
            /\ b.num = a.num + Cardinality(LiteralsAt(lits, level))
            /\ b.l1num = a.l1num + Cardinality(LiteralsAt(lits, 1))
            /\ b.rule_level \in a.rule_level .. level - 1
            /\ \A l \in kept : /\ DecisionLevel(l) > 1
                               /\ DecisionLevel(l) <= b.rule_level
<1> DEFINE b == Count(a, lits)
           kept == {l \in lits : DecisionLevel(l) \notin {1, level}}
           levels == {a.rule_level} \cup {DecisionLevel(l) : l \in kept}
           top == CHOOSE v \in levels : \A w \in levels : w <= v
<1>1. /\ level \in Nat /\ inst.size \in Nat
  BY DEF SolverInv, StackInv
<1>2. ASSUME NEW l \in lits
      PROVE  DecisionLevel(l) \in 1 .. level
  <2>1. PICK k \in 1 .. Len(queue) : LevelAt(k) = DecisionLevel(l)
    BY FalseIsDecided DEF SolverInv
  <2> QED
    BY <2>1, <1>1, QueueFacts DEF SolverInv
<1>3. \A l \in kept : DecisionLevel(l) \in 2 .. level - 1
  BY <1>1, <1>2
<1>4. levels \in SUBSET (0 .. level - 1) /\ levels # {} /\ level - 1 \in Nat
  BY <1>1, <1>3
<1>5. \E v \in levels : \A w \in levels : w <= v
  BY <1>4, GreatestNumber
<1>6. top \in levels /\ \A w \in levels : w <= top
  BY <1>5
<1>7. top \in a.rule_level .. level - 1 /\ \A l \in kept : DecisionLevel(l) <= top
  BY <1>1, <1>4, <1>6
<1> DEFINE ones == Cardinality(LiteralsAt(lits, 1))
           heres == Cardinality(LiteralsAt(lits, level))
<1>8. ones \in Nat /\ heres \in Nat /\ PackagesOf(lits) \subseteq Packages
  <2>1. LiteralsAt(lits, 1) \in SUBSET Literals
        /\ LiteralsAt(lits, level) \in SUBSET Literals
    BY DEF LiteralsAt
  <2> QED
    BY <2>1, <1>1, FiniteLiterals, PackagesCount DEF SolverInv
<1>9. b = [a EXCEPT !.seen = @ \cup PackagesOf(lits), !.l1num = @ + ones, !.num = @ + heres,
                    !.others = @ \cup kept, !.rule_level = top]
  BY DEF Count, LiteralsAt
<1> HIDE DEF b, top, ones, heres, kept
<1>10. /\ DOMAIN b = DOMAIN a
       /\ b.rule = a.rule /\ b.learned = a.learned /\ b.decision_id = a.decision_id
       /\ b.seen = a.seen \cup PackagesOf(lits) /\ b.others = a.others \cup kept
       /\ b.num = a.num + heres /\ b.l1num = a.l1num + ones /\ b.rule_level = top
  BY <1>9 DEF AnShape
<1>11. AnShape(b)
  <2>1. b.num \in Int /\ b.l1num \in Int
    BY <1>8, <1>10 DEF AnShape
  <2>2. kept \subseteq Literals
    BY DEF kept
  <2> QED
    BY <1>8, <1>10, <2>1, <2>2 DEF AnShape
<1>12. \A l \in kept : DecisionLevel(l) > 1
  BY <1>3
<1> QED
  BY <1>7, <1>10, <1>11, <1>12 DEF b, kept, ones, heres

\* The literals of a rule that are counted: false, not seen yet, decided
\* before the decision the rule is the reason of.
LEMMA CountKeeps ==
  ASSUME SolverInv, level > 1, NEW a, AnShape(a), AnBounds(a),
         AnPhase(a, "resolve"), NEW lits \in SUBSET Literals,
         \A l \in lits : /\ Conflict(l) /\ AbsOf(l) \notin a.seen
                         /\ \E d \in 1 .. a.decision_id : queue[d].literal = -l
                         /\ a.learned # 0 => DecisionLevel(l) = 1,
         a.learned = 0 => a.num > 0 \/ \E l \in lits : DecisionLevel(l) = level
  PROVE  /\ AnShape(Count(a, lits)) /\ AnBounds(Count(a, lits))
         /\ AnPhase(Count(a, lits), "walk")
<1> DEFINE b == Count(a, lits)
           kept == {l \in lits : DecisionLevel(l) \notin {1, level}}
           ones == LiteralsAt(lits, 1)
           heres == LiteralsAt(lits, level)
<1>1. /\ AnShape(b)
      /\ b.rule = a.rule /\ b.learned = a.learned /\ b.decision_id = a.decision_id
      /\ b.seen = a.seen \cup PackagesOf(lits)
      /\ b.others = a.others \cup kept
      /\ b.num = a.num + Cardinality(heres)
      /\ b.l1num = a.l1num + Cardinality(ones)
      /\ b.rule_level \in a.rule_level .. level - 1
      /\ \A l \in kept : DecisionLevel(l) > 1 /\ DecisionLevel(l) <= b.rule_level
  BY CountFacts DEF AnBounds
<1>2. level \in Nat /\ inst.size \in Nat /\ StackInv /\ a.seen \subseteq Packages /\ level # 1
  BY DEF SolverInv, StackInv, AnShape
<1> HIDE DEF b
<1>3a. a.seen \in SUBSET Packages /\ \A l \in lits : Conflict(l) /\ AbsOf(l) \notin a.seen
  BY <1>2
<1>3b. ASSUME NEW lv
       PROVE  /\ Cardinality(PackagesAt(a.seen \cup PackagesOf(lits), lv))
                   = Cardinality(PackagesAt(a.seen, lv)) + Cardinality(LiteralsAt(lits, lv))
              /\ Cardinality(PackagesAt(a.seen, lv)) \in Nat
              /\ Cardinality(LiteralsAt(lits, lv)) \in Nat
              /\ Cardinality(LiteralsAt(lits, lv)) = 0 <=> LiteralsAt(lits, lv) = {}
  BY <1>2, <1>3a, SeenCount
<1>3. /\ Cardinality(PackagesAt(b.seen, level))
           = Cardinality(PackagesAt(a.seen, level)) + Cardinality(heres)
      /\ Cardinality(PackagesAt(a.seen, level)) \in Nat /\ Cardinality(heres) \in Nat
      /\ Cardinality(heres) = 0 <=> heres = {}
  BY <1>1, <1>3b
<1>4. /\ Cardinality(PackagesAt(b.seen, 1))
           = Cardinality(PackagesAt(a.seen, 1)) + Cardinality(ones)
      /\ Cardinality(PackagesAt(a.seen, 1)) \in Nat /\ Cardinality(ones) \in Nat
  BY <1>1, <1>3b
<1>5. \A l \in lits : /\ FalseLiteral(AbsOf(l)) = l /\ AbsOf(l) \in Packages
                      /\ AbsOf(map[AbsOf(l)]) = DecisionLevel(l)
                      /\ AbsOf(-l) = AbsOf(l)
  BY <1>2, FalseLiteralIs, LiteralFacts
<1>6. AnBounds(b)
  <2>1. b.decision_id \in 0 .. Len(queue)
    BY <1>1 DEF AnBounds
  <2>2. \A p \in b.seen : \E d \in 1 .. b.decision_id : AbsOf(queue[d].literal) = p
    <3> SUFFICES ASSUME NEW p \in b.seen
                 PROVE  \E d \in 1 .. a.decision_id : AbsOf(queue[d].literal) = p
      BY <1>1
    <3>1. CASE p \in a.seen
      BY <3>1 DEF AnBounds
    <3>2. CASE p \in PackagesOf(lits)
      BY <3>2, <1>5 DEF PackagesOf
    <3> QED
      BY <3>1, <3>2, <1>1
  <2>3. b.rule_level \in 1 .. level - 1 /\ a.rule_level \in 1 .. level - 1
        /\ a.rule_level <= b.rule_level
    BY <1>1, <1>2 DEF AnBounds
  <2>4. ASSUME NEW l \in b.others
        PROVE  Conflict(l) /\ DecisionLevel(l) > 1 /\ DecisionLevel(l) <= b.rule_level
    <3>1. CASE l \in a.others
      <4>1. /\ Conflict(l) /\ DecisionLevel(l) > 1 /\ DecisionLevel(l) <= a.rule_level
            /\ l \in Literals
        BY <3>1 DEF AnBounds, AnShape
      <4>2. DecisionLevel(l) \in Nat
        BY <4>1, <1>2, StatusFacts
      <4> QED
        BY <4>1, <4>2, <2>3
    <3>2. CASE l \in kept
      BY <3>2, <1>1
    <3> QED
      BY <3>1, <3>2, <1>1
  <2> QED
    BY <2>1, <2>2, <2>3, <2>4 DEF AnBounds
<1>7. AnPhase(b, "walk")
  <2>1. CASE a.learned = 0
    <3>1. Collecting(a) /\ a.num \in Int
      BY <2>1 DEF AnPhase, AnShape
    <3>2. b.num = Cardinality(PackagesAt(b.seen, level)) /\ b.l1num = Cardinality(PackagesAt(b.seen, 1))
      BY <3>1, <1>1, <1>3, <1>4 DEF Collecting
    <3>3. PackagesOf(b.others) \subseteq b.seen
      BY <3>1, <1>1 DEF Collecting, PackagesOf
    <3>4. \A p \in b.seen : AbsOf(map[p]) \in {1, level} \/ FalseLiteral(p) \in b.others
      BY <3>1, <1>1, <1>5 DEF Collecting, PackagesOf
    <3>5. b.num > 0
      <4>1. CASE a.num > 0
        BY <4>1, <3>1, <1>1, <1>3
      <4>2. CASE \E l \in lits : DecisionLevel(l) = level
        BY <4>2, <3>1, <1>1, <1>3 DEF Collecting, LiteralsAt
      <4> QED
        BY <4>1, <4>2, <2>1
    <3> QED
      BY <2>1, <3>2, <3>3, <3>4, <3>5, <1>1 DEF AnPhase, Collecting
  <2>2. CASE a.learned # 0
    <3>1. Finishing(a) /\ a.learned \in Literals /\ Conflict(a.learned)
          /\ DecisionLevel(a.learned) = level
      BY <2>2 DEF AnPhase
    <3>2. heres = {} /\ kept = {}
      BY <2>2, <1>2 DEF LiteralsAt
    <3>3. b.num = 0
      BY <3>1, <3>2, <1>1, <1>3 DEF Finishing
    <3>4. \A p \in b.seen : AbsOf(map[p]) = 1
      BY <3>1, <2>2, <1>1, <1>5 DEF Finishing, PackagesOf
    <3>5. PackagesAt(a.seen, 1) = a.seen /\ PackagesAt(b.seen, 1) = b.seen
      BY <3>1, <3>4 DEF PackagesAt, Finishing
    <3>6. b.l1num = Cardinality(b.seen) + 1
      <4>1. /\ a.l1num = Cardinality(a.seen) + 1 /\ b.l1num = a.l1num + Cardinality(ones)
            /\ Cardinality(b.seen) = Cardinality(a.seen) + Cardinality(ones)
            /\ Cardinality(a.seen) \in Nat /\ Cardinality(ones) \in Nat
        BY <3>1, <3>5, <1>1, <1>4, Zenon DEF Finishing
      <4> QED
        BY <4>1
    <3> QED
      BY <2>2, <3>1, <3>3, <3>4, <3>6, <1>1 DEF AnPhase, Finishing
  <2> QED
    BY <2>1, <2>2
<1> QED
  BY <1>1, <1>6, <1>7 DEF b

-----------------------------------------------------------------------------
(***************************************************************************)
(* analyze, step by step.                                                  *)
(***************************************************************************)

\* During analyze the decisions and the rules stand still.
LEMMA AnalysisFrames ==
  ASSUME [Next]_vars, InAnalysis'
  PROVE  /\ \/ BeginAnalysis \/ Resolve \/ WalkEnd \/ WalkLearn \/ WalkReason
            \/ UNCHANGED vars
         /\ UNCHANGED <<inst, rules, rule_by_id, map, queue, level, problems>>
<1>1. \/ BeginAnalysis \/ Resolve \/ WalkEnd \/ WalkLearn \/ WalkReason
      \/ UNCHANGED vars
  <2>1. pc' \in {"resolve", "walk", "learn"}
    BY DEF InAnalysis
  <2>2. ~(AssertSkip \/ AssertDecide \/ AssertConflict \/ AssertionsDone \/ RunSat)
    BY <2>1 DEF AssertSkip, AssertDecide, AssertConflict, AssertionsDone, RunSat, Asserting,
                RequestsOrSweep, SweepFrom
  <2>3. ~(VisitSettled \/ VisitMoveWatch \/ VisitImply \/ VisitConflict \/ NextDecision)
    BY <2>1 DEF VisitSettled, VisitMoveWatch, VisitImply, VisitConflict, NextDecision, Visiting,
                Propagating
  <2>4. ~(Propagated \/ Unsolvable \/ Learn)
    BY <2>1 DEF Propagated, Unsolvable, Learn, RequestsOrSweep, SweepFrom
  <2>5. ~(SkipRequest \/ InstallRequest \/ RequestsDone \/ SkipRule \/ InstallProvider \/ Swept)
    BY <2>1 DEF SkipRequest, InstallRequest, RequestsDone, SkipRule, InstallProvider, Swept,
                Requesting, Sweeping, SweepFrom, SelectAndInstall, SetPropagateLearn
  <2>6. ~(RetryBranch \/ BranchesDone)
    BY <2>1 DEF RetryBranch, BranchesDone, SetPropagateLearn
  <2>7. Terminated => UNCHANGED vars
    BY DEF Terminated
  <2> QED
    BY <2>2, <2>3, <2>4, <2>5, <2>6, <2>7 DEF Next
<1> QED
  BY <1>1, Zenon DEF BeginAnalysis, Resolve, WalkEnd, WalkLearn, WalkReason, vars, ruleVars,
              decisionVars, searchVars

\* A step of analyze keeps the facts about its locals when the new locals have
\* them, since it changes no decision and no rule.
LEMMA AnalysisKeeps ==
  ASSUME UNCHANGED <<inst, rules, map, queue, level>>,
         AnShape(an'), AnBounds(an'), AnPhase(an', pc'), level > 1,
         learned_pool' # <<>>, pc' = "resolve" => Resolvable(an')
  PROVE  AnTyped' /\ AnInv' /\ ResolveInv'
<1>1. AnTyped'
  BY DEF AnTyped, AnShape, Packages, Literals
<1>2. AnBounds(an)'
  BY DEF AnBounds, Conflict, DecisionLevel, Entry
<1>3. AnPhase(an, pc)'
  BY DEF AnPhase, Collecting, Finishing, PackagesAt, FalseLiteral, Conflict, DecisionLevel,
         Entry, Literals
<1>4. ResolveInv'
  BY DEF ResolveInv, Resolvable, Conflicting, RuleIds, Conflict, Satisfy, Undecided,
         DecisionLevel, Entry
<1> QED
  BY <1>1, <1>2, <1>3, <1>4 DEF AnInv

\* analyze starts with nothing seen and the rule in conflict.
LEMMA BeginAnalysisKeeps ==
  ASSUME SolverInv, BeginAnalysis
  PROVE  /\ AnShape(an') /\ AnBounds(an') /\ AnPhase(an', pc') /\ Resolvable(an')
         /\ an'.rule = an.rule /\ an'.seen = {} /\ an'.others = {} /\ an'.learned = 0
<1>1. /\ pc = "conflict" /\ level > 1 /\ pc' = "resolve"
      /\ an' = [NoAnalysis EXCEPT !.rule = an.rule, !.decision_id = Len(queue)]
  BY DEF BeginAnalysis
<1>2. /\ DOMAIN an' = {"rule", "rule_level", "num", "l1num", "seen", "learned", "others",
                       "decision_id"}
      /\ an'.rule = an.rule /\ an'.rule_level = 1 /\ an'.num = 0 /\ an'.l1num = 0
      /\ an'.seen = {} /\ an'.learned = 0 /\ an'.others = {} /\ an'.decision_id = Len(queue)
  BY <1>1 DEF NoAnalysis
<1>3. an.rule \in RuleIds /\ Conflicting(rules[an.rule]) /\ RuleOK(rules[an.rule])
  BY <1>1 DEF SolverInv, ConflictInv, RulesInv
<1>4. Len(queue) \in Nat /\ level \in Nat
  BY QueueFacts DEF SolverInv, StackInv
<1>5. AnShape(an') /\ AnBounds(an')
  BY <1>1, <1>2, <1>3, <1>4 DEF AnShape, AnBounds, RuleIds
<1>6. AnPhase(an', pc')
  <2>1. PackagesAt({}, level) = {} /\ PackagesAt({}, 1) = {} /\ PackagesOf({}) = {}
    BY DEF PackagesAt, PackagesOf
  <2> QED
    BY <1>1, <1>2, <2>1, FS_EmptySet DEF AnPhase, Collecting
<1>7. Resolvable(an')
  <2>1. ASSUME NEW l \in rules[an.rule].lits
        PROVE  \/ Satisfy(l)
               \/ Undecided(l) /\ IsMulti(rules[an.rule])
               \/ \E d \in 1 .. Len(queue) : queue[d].literal = -l
    <3>1. l \in Literals
      BY <1>3 DEF RuleOK
    <3>2. Undecided(l) => IsMulti(rules[an.rule])
      BY <3>1, <1>3, StatusFacts DEF Conflicting, SolverInv
    <3>3. Conflict(l) => \E d \in 1 .. Len(queue) : queue[d].literal = -l
      BY <3>1, FalseIsDecided DEF SolverInv
    <3> QED
      BY <3>1, <3>2, <3>3, StatusFacts DEF SolverInv
  <2> QED
    BY <1>2, <1>3, <2>1 DEF Resolvable
<1> QED
  BY <1>2, <1>5, <1>6, <1>7

\* The literals Resolve counts.
LEMMA NewlySeenFacts ==
  ASSUME SolverInv, pc = "resolve"
  PROVE  /\ NewlySeen \in SUBSET Literals /\ NewlySeen \subseteq rules[an.rule].lits
         /\ \A l \in NewlySeen : /\ Conflict(l) /\ AbsOf(l) \notin an.seen
                                 /\ \E d \in 1 .. an.decision_id : queue[d].literal = -l
                                 /\ an.learned # 0 => DecisionLevel(l) = 1
         /\ an.learned = 0 => an.num > 0 \/ \E l \in NewlySeen : DecisionLevel(l) = level
         /\ \A l \in rules[an.rule].lits :
              Conflict(l) => l \in NewlySeen \/ AbsOf(l) \in an.seen
         /\ an.rule \in RuleIds
<1>1. Resolvable(an) /\ an.rule \in RuleIds /\ RuleOK(rules[an.rule]) /\ StackInv
  BY DEF SolverInv, ResolveInv, Resolvable, RulesInv
<1>2. an.decision_id \in 0 .. Len(queue) /\ Len(queue) \in Nat
  BY QueueFacts DEF SolverInv, AnInv, InAnalysis, AnBounds
<1>3. rules[an.rule].lits \subseteq Literals
  BY <1>1 DEF RuleOK
<1>4. ASSUME NEW l \in NewlySeen
      PROVE  /\ Conflict(l) /\ AbsOf(l) \notin an.seen
             /\ \E d \in 1 .. an.decision_id : queue[d].literal = -l
             /\ an.learned # 0 => DecisionLevel(l) = 1
  <2>1. l \in rules[an.rule].lits /\ l \in Literals /\ ~Satisfy(l) /\ AbsOf(l) \notin an.seen
    BY <1>3 DEF NewlySeen
  <2>2. IsMulti(rules[an.rule]) => ~Undecided(l)
    BY DEF NewlySeen, Decided, Undecided
  <2>3. PICK d \in 1 .. an.decision_id : queue[d].literal = -l
    BY <1>1, <2>1, <2>2 DEF Resolvable
  <2>4. Conflict(l)
    <3>1. d \in 1 .. Len(queue)
      BY <1>2
    <3> QED
      BY <3>1, <1>1, <2>1, <2>3, NegatedDecision
  <2> QED
    BY <1>1, <2>1, <2>3, <2>4 DEF Resolvable
<1>5. \A l \in rules[an.rule].lits : Conflict(l) => l \in NewlySeen \/ AbsOf(l) \in an.seen
  <2> SUFFICES ASSUME NEW l \in rules[an.rule].lits, Conflict(l), AbsOf(l) \notin an.seen
               PROVE  l \in NewlySeen
    OBVIOUS
  <2>1. ~Satisfy(l) /\ ~Undecided(l)
    BY <1>1, <1>3, StatusFacts
  <2> QED
    BY <2>1 DEF NewlySeen, Decided, Undecided
<1>6. an.learned = 0 => an.num > 0 \/ \E l \in NewlySeen : DecisionLevel(l) = level
  <2> SUFFICES ASSUME an.learned = 0, ~(an.num > 0)
               PROVE  \E l \in NewlySeen : DecisionLevel(l) = level
    OBVIOUS
  <2>1. an.seen = {} /\ Conflicting(rules[an.rule])
    BY <1>1 DEF Resolvable
  <2> QED
    BY <2>1, <1>5 DEF Conflicting
<1>7. NewlySeen \subseteq rules[an.rule].lits
  BY DEF NewlySeen
<1> QED
  BY <1>1, <1>3, <1>4, <1>5, <1>6, <1>7

\* Taking the literals of a rule keeps the counts: each is counted once.
LEMMA ResolveKeeps ==
  ASSUME SolverInv, Resolve
  PROVE  AnShape(an') /\ AnBounds(an') /\ AnPhase(an', pc')
<1>1. pc = "resolve" /\ an' = Count(an, NewlySeen) /\ pc' = "walk"
  BY DEF Resolve
<1>2. /\ level > 1 /\ AnShape(an) /\ AnBounds(an) /\ AnPhase(an, "resolve")
  BY <1>1 DEF SolverInv, AnTyped, AnInv, InAnalysis
<1>3. /\ NewlySeen \in SUBSET Literals
      /\ \A l \in NewlySeen : /\ Conflict(l) /\ AbsOf(l) \notin an.seen
                              /\ \E d \in 1 .. an.decision_id : queue[d].literal = -l
                              /\ an.learned # 0 => DecisionLevel(l) = 1
      /\ an.learned = 0 => an.num > 0 \/ \E l \in NewlySeen : DecisionLevel(l) = level
  BY <1>1, NewlySeenFacts
<1> QED
  BY <1>1, <1>2, <1>3, CountKeeps

\* The decision that the walk stops at: of the current level until the literal
\* to learn is met, of level 1 afterwards.
LEMMA LastSeenFacts ==
  ASSUME SolverInv, pc = "walk", NEW d \in 1 .. Len(queue), IsLastSeen(d)
  PROVE  LET x == queue[d].literal
         IN /\ x \in Literals /\ Satisfy(x) /\ AbsOf(x) \in an.seen /\ AbsOf(x) \in Packages
            /\ -x \in Literals /\ Conflict(-x) /\ DecisionLevel(-x) = LevelAt(d)
            /\ FalseLiteral(AbsOf(x)) = -x /\ AbsOf(map[AbsOf(x)]) = LevelAt(d)
            /\ d \in 1 .. an.decision_id
            /\ \A q \in an.seen : q # AbsOf(x) =>
                 \E j \in 1 .. d - 1 : AbsOf(queue[j].literal) = q
            /\ LevelAt(d) = IF an.learned = 0 THEN level ELSE 1
<1> DEFINE x == queue[d].literal
<1>1. StackInv /\ inst.size \in Nat /\ Len(queue) \in Nat /\ level \in Nat
  BY QueueFacts DEF SolverInv, StackInv
<1>2. /\ AnShape(an) /\ AnBounds(an) /\ AnPhase(an, "walk")
  BY DEF SolverInv, AnTyped, AnInv, InAnalysis
<1>3. x \in Literals /\ Satisfy(x) /\ -x \in Literals /\ AbsOf(-x) = AbsOf(x)
      /\ AbsOf(x) \in Packages
  BY <1>1, QueueFacts, LiteralFacts
<1>4. Conflict(-x) /\ DecisionLevel(-x) = LevelAt(d)
  BY <1>1, <1>3, StatusFacts DEF LevelAt
<1>5. FalseLiteral(AbsOf(x)) = -x /\ AbsOf(map[AbsOf(x)]) = LevelAt(d)
  BY <1>1, <1>3, <1>4, FalseLiteralIs
<1>6. /\ d \in 1 .. an.decision_id /\ AbsOf(x) \in an.seen
      /\ \A k \in d + 1 .. an.decision_id : AbsOf(queue[k].literal) \notin an.seen
  BY DEF IsLastSeen
<1>7. an.decision_id \in 0 .. Len(queue)
  BY <1>2 DEF AnBounds
<1>8. ASSUME NEW q \in an.seen
      PROVE  \E j \in 1 .. d : AbsOf(queue[j].literal) = q
  <2>1. PICK j \in 1 .. an.decision_id : AbsOf(queue[j].literal) = q
    BY <1>2 DEF AnBounds
  <2>2. j \notin d + 1 .. an.decision_id
    BY <2>1, <1>6
  <2>3. j \in 1 .. d
    BY <2>2, <1>6, <1>7
  <2> QED
    BY <2>1, <2>3
<1>9. ASSUME NEW q \in an.seen, q # AbsOf(x)
      PROVE  \E j \in 1 .. d - 1 : AbsOf(queue[j].literal) = q
  <2>1. PICK j \in 1 .. d : AbsOf(queue[j].literal) = q
    BY <1>8
  <2>2. j # d
    BY <2>1, <1>9
  <2> QED
    BY <2>1, <2>2
<1>10. LevelAt(d) = IF an.learned = 0 THEN level ELSE 1
  <2>1. CASE an.learned = 0
    <3>1. Collecting(an) /\ an.num > 0
      BY <2>1, <1>2 DEF AnPhase
    <3>2. PICK q \in an.seen : AbsOf(map[q]) = level
      <4>1. Cardinality(PackagesAt(an.seen, level)) # 0
        BY <3>1 DEF Collecting
      <4>2. PackagesAt(an.seen, level) # {}
        BY <4>1, FS_EmptySet
      <4> QED
        BY <4>2 DEF PackagesAt
    <3>3. PICK j \in 1 .. d : AbsOf(queue[j].literal) = q
      BY <1>8
    <3>4. j \in 1 .. Len(queue) /\ j <= d
      BY <3>3, <1>1
    <3>5. LevelAt(j) = level
      BY <3>2, <3>3 DEF LevelAt, DecisionLevel, Entry
    <3>6. LevelAt(j) <= LevelAt(d) /\ LevelAt(d) <= level /\ LevelAt(d) \in Nat
      BY <3>4, <1>1, QueueFacts
    <3> QED
      BY <3>5, <3>6, <1>1, <2>1
  <2>2. CASE an.learned # 0
    <3>1. Finishing(an)
      BY <2>2, <1>2 DEF AnPhase
    <3> QED
      BY <3>1, <2>2, <1>5, <1>6 DEF Finishing
  <2> QED
    BY <2>1, <2>2
<1> QED
  BY <1>3, <1>4, <1>5, <1>6, <1>9, <1>10

\* When the counters are at zero nothing seen is left.
LEMMA WalkEndKeeps ==
  ASSUME SolverInv, WalkEnd
  PROVE  /\ AnShape(an') /\ AnBounds(an') /\ AnPhase(an', pc')
         /\ an.seen = {} /\ an'.others = an.others /\ an'.learned = an.learned /\ an.learned # 0
<1>1. /\ pc = "walk" /\ NothingLeft /\ an' = [an EXCEPT !.l1num = L1Num] /\ pc' = "learn"
  BY DEF WalkEnd
<1>2. /\ AnShape(an) /\ AnBounds(an) /\ AnPhase(an, "walk")
  BY <1>1 DEF SolverInv, AnTyped, AnInv, InAnalysis
<1>3. L1Num = an.l1num - 1 /\ L1Num = 0 /\ an.num = 0
  BY <1>1 DEF NothingLeft, L1Num
<1>4. /\ DOMAIN an' = DOMAIN an /\ an'.l1num = 0
      /\ an'.rule = an.rule /\ an'.rule_level = an.rule_level /\ an'.num = an.num
      /\ an'.seen = an.seen /\ an'.learned = an.learned /\ an'.others = an.others
      /\ an'.decision_id = an.decision_id
  BY <1>1, <1>2, <1>3 DEF AnShape
<1>5. an.learned # 0 /\ Finishing(an)
  BY <1>2, <1>3 DEF AnPhase
<1>6. an.seen = {}
  <2>1. an.seen \subseteq Packages /\ inst.size \in Nat
    BY <1>2 DEF AnShape, SolverInv, StackInv
  <2>2. IsFiniteSet(an.seen)
    BY <2>1, PackagesFinite
  <2>3. Cardinality(an.seen) \in Nat /\ an.l1num = Cardinality(an.seen) + 1
    BY <1>5, <2>2, FS_CardinalityType DEF Finishing
  <2>4. Cardinality(an.seen) = 0
    BY <1>3, <2>3
  <2> QED
    BY <2>2, <2>4, FS_EmptySet
<1>7. AnShape(an') /\ AnBounds(an')
  BY <1>2, <1>4 DEF AnShape, AnBounds
<1>8. AnPhase(an', pc')
  BY <1>1, <1>2, <1>4, <1>5 DEF AnPhase
<1> QED
  BY <1>4, <1>5, <1>6, <1>7, <1>8

\* The literal to learn.
LEMMA WalkLearnStep ==
  ASSUME SolverInv, WalkLearn
  PROVE  \E d \in 1 .. Len(queue) :
           LET x == queue[d].literal
               rest == an.seen \ {AbsOf(x)}
           IN /\ IsLastSeen(d) /\ an.learned = 0 /\ pc = "walk"
              /\ DOMAIN an' = DOMAIN an /\ an'.rule = an.rule /\ an'.num = 0
              /\ an'.rule_level = an.rule_level /\ an'.others = an.others
              /\ an'.decision_id = d - 1 /\ an'.learned = -x
              /\ \A q \in rest : \/ AbsOf(map[q]) = 1
                                 \/ FalseLiteral(q) \in an.others /\ AbsOf(map[q]) # 1
              /\ \/ /\ pc' = "learn" /\ an'.seen = rest /\ an'.l1num \in Int
                    /\ \A q \in rest : AbsOf(map[q]) # 1
                 \/ /\ pc' = "walk" /\ an'.seen = PackagesAt(rest, 1)
                    /\ an'.l1num = Cardinality(an'.seen) + 1
<1>1. PICK d \in 1 .. Len(queue) :
       /\ IsLastSeen(d)
       /\ LET seen == an.seen \ {AbsOf(queue[d].literal)}
              here == [an EXCEPT !.decision_id = d - 1, !.num = 0,
                                 !.learned = -queue[d].literal, !.seen = seen]
          IN IF L1Num = 0
             THEN an' = here /\ pc' = "learn"
             ELSE /\ an' = [here EXCEPT !.seen = seen \ PackagesOf(an.others),
                                        !.l1num = L1Num + 1]
                  /\ pc' = "walk"
  BY DEF WalkLearn
<1> DEFINE x == queue[d].literal
           rest == an.seen \ {AbsOf(x)}
<1>2. pc = "walk" /\ an.num = 1
  BY DEF WalkLearn
<1>3. /\ AnShape(an) /\ AnBounds(an) /\ AnPhase(an, "walk")
  BY <1>2 DEF SolverInv, AnTyped, AnInv, InAnalysis
<1>4. an.learned = 0 /\ Collecting(an)
  BY <1>2, <1>3 DEF AnPhase, Finishing
<1>5. L1Num = an.l1num /\ an.l1num \in Int
  BY <1>2, <1>3 DEF L1Num, AnShape
<1>6. AbsOf(x) \in an.seen /\ AbsOf(map[AbsOf(x)]) = level /\ an.seen \subseteq Packages
  BY <1>1, <1>2, <1>3, <1>4, LastSeenFacts DEF AnShape
<1>7. StackInv /\ level \in Nat /\ level > 1 /\ inst.size \in Nat /\ level # 1
  BY <1>2 DEF SolverInv, StackInv, AnInv, InAnalysis
\* The only one of the current level.
<1>8. \A q \in rest : AbsOf(map[q]) # level
  <2>1. an.seen \in SUBSET Packages /\ AbsOf(x) \in an.seen
    BY <1>6
  <2>2. /\ Cardinality(PackagesAt(an.seen \ {AbsOf(x)}, level))
             = IF AbsOf(map[AbsOf(x)]) = level THEN Cardinality(PackagesAt(an.seen, level)) - 1
               ELSE Cardinality(PackagesAt(an.seen, level))
        /\ Cardinality(PackagesAt(an.seen \ {AbsOf(x)}, level)) = 0
             <=> PackagesAt(an.seen \ {AbsOf(x)}, level) = {}
    BY <2>1, <1>7, SeenLess
  <2>3. Cardinality(PackagesAt(an.seen, level)) = 1
    BY <1>2, <1>4 DEF Collecting
  <2>4. PackagesAt(rest, level) = {}
    <3>1. Cardinality(PackagesAt(rest, level)) = 0
      BY <2>2, <2>3, <1>6
    <3> QED
      BY <3>1, <2>2
  <2> QED
    BY <2>4 DEF PackagesAt
<1>9. \A o \in an.others : Conflict(o) /\ o \in Literals /\ AbsOf(map[AbsOf(o)]) # 1
                           /\ FalseLiteral(AbsOf(o)) = o
  <2> SUFFICES ASSUME NEW o \in an.others
               PROVE  Conflict(o) /\ o \in Literals /\ AbsOf(map[AbsOf(o)]) # 1
                      /\ FalseLiteral(AbsOf(o)) = o
    OBVIOUS
  <2>1. Conflict(o) /\ o \in Literals /\ DecisionLevel(o) > 1
    BY <1>3 DEF AnBounds, AnShape
  <2>2. DecisionLevel(o) # 1
    BY <2>1, <1>7, StatusFacts
  <2> QED
    BY <2>1, <2>2, <1>7, FalseLiteralIs
<1>10. \A q \in rest : \/ AbsOf(map[q]) = 1
                       \/ FalseLiteral(q) \in an.others /\ AbsOf(map[q]) # 1
  BY <1>4, <1>8 DEF Collecting
<1>11. rest \ PackagesOf(an.others) = PackagesAt(rest, 1)
  <2>1. ASSUME NEW q \in rest, AbsOf(map[q]) # 1
        PROVE  q \in PackagesOf(an.others)
    <3>1. FalseLiteral(q) \in an.others
      BY <1>10, <2>1
    <3>2. FalseLiteral(q) = q \/ FalseLiteral(q) = -q
      BY DEF FalseLiteral
    <3>3. AbsOf(FalseLiteral(q)) = q
      <4>1. q \in Nat /\ q > 0
        BY <1>6, <1>7, <2>1 DEF Packages
      <4> QED
        BY <4>1, <3>2 DEF AbsOf
    <3> QED
      BY <3>1, <3>3 DEF PackagesOf
  <2>2. ASSUME NEW q \in rest, q \in PackagesOf(an.others)
        PROVE  AbsOf(map[q]) # 1
    BY <2>2, <1>9 DEF PackagesOf
  <2> QED
    BY <2>1, <2>2 DEF PackagesAt
<1>12. PackagesAt(rest, 1) = PackagesAt(an.seen, 1)
  BY <1>6, <1>7 DEF PackagesAt
<1>13. an.l1num = Cardinality(PackagesAt(rest, 1))
  BY <1>4, <1>12 DEF Collecting
<1>14. CASE L1Num = 0
  <2>1. /\ an' = [an EXCEPT !.decision_id = d - 1, !.num = 0, !.learned = -x, !.seen = rest]
        /\ pc' = "learn"
    BY <1>1, <1>14
  <2> HIDE DEF x, rest
  <2>2. /\ DOMAIN an' = DOMAIN an /\ an'.rule = an.rule /\ an'.num = 0
        /\ an'.rule_level = an.rule_level /\ an'.others = an.others
        /\ an'.decision_id = d - 1 /\ an'.learned = -x
        /\ an'.seen = rest /\ an'.l1num = an.l1num
    BY <2>1, <1>3 DEF AnShape
  <2>3. \A q \in rest : AbsOf(map[q]) # 1
    <3>1. PackagesAt(rest, 1) \in SUBSET Packages
      BY <1>6 DEF PackagesAt, rest
    <3>2. PackagesAt(rest, 1) = {}
      BY <3>1, <1>5, <1>7, <1>13, <1>14, PackagesFinite
    <3> QED
      BY <3>2 DEF PackagesAt
  <2> QED
    BY <2>1, <2>2, <2>3, <1>1, <1>2, <1>4, <1>5, <1>10 DEF x, rest
<1>15. CASE L1Num # 0
  <2>1. /\ an' = [[an EXCEPT !.decision_id = d - 1, !.num = 0, !.learned = -x, !.seen = rest]
                   EXCEPT !.seen = rest \ PackagesOf(an.others), !.l1num = L1Num + 1]
        /\ pc' = "walk"
    BY <1>1, <1>15
  <2> HIDE DEF x, rest
  <2>2. /\ DOMAIN an' = DOMAIN an /\ an'.rule = an.rule /\ an'.num = 0
        /\ an'.rule_level = an.rule_level /\ an'.others = an.others
        /\ an'.decision_id = d - 1 /\ an'.learned = -x
        /\ an'.seen = rest \ PackagesOf(an.others) /\ an'.l1num = L1Num + 1
    BY <2>1, <1>3 DEF AnShape
  <2> QED
    BY <2>1, <2>2, <1>1, <1>2, <1>4, <1>5, <1>10, <1>11, <1>13 DEF x, rest
<1> QED
  BY <1>14, <1>15

\* The literal learned is the last one seen of the current level.
LEMMA WalkLearnKeeps ==
  ASSUME SolverInv, WalkLearn
  PROVE  AnShape(an') /\ AnBounds(an') /\ AnPhase(an', pc')
<1>1. PICK d \in 1 .. Len(queue) :
           LET x == queue[d].literal
               rest == an.seen \ {AbsOf(x)}
           IN /\ IsLastSeen(d) /\ an.learned = 0 /\ pc = "walk"
              /\ DOMAIN an' = DOMAIN an /\ an'.rule = an.rule /\ an'.num = 0
              /\ an'.rule_level = an.rule_level /\ an'.others = an.others
              /\ an'.decision_id = d - 1 /\ an'.learned = -x
              /\ \A q \in rest : \/ AbsOf(map[q]) = 1
                                 \/ FalseLiteral(q) \in an.others /\ AbsOf(map[q]) # 1
              /\ \/ /\ pc' = "learn" /\ an'.seen = rest /\ an'.l1num \in Int
                    /\ \A q \in rest : AbsOf(map[q]) # 1
                 \/ /\ pc' = "walk" /\ an'.seen = PackagesAt(rest, 1)
                    /\ an'.l1num = Cardinality(an'.seen) + 1
  BY WalkLearnStep
<1> DEFINE x == queue[d].literal
           rest == an.seen \ {AbsOf(x)}
<1>2. /\ AnShape(an) /\ AnBounds(an) /\ AnPhase(an, "walk") /\ level # 1 /\ level \in Nat
  BY <1>1 DEF SolverInv, StackInv, AnTyped, AnInv, InAnalysis
<1>3. /\ x \in Literals /\ AbsOf(x) \in an.seen
      /\ -x \in Literals /\ Conflict(-x) /\ DecisionLevel(-x) = level
      /\ \A q \in an.seen : q # AbsOf(x) => \E j \in 1 .. d - 1 : AbsOf(queue[j].literal) = q
  BY <1>1, LastSeenFacts
<1>4. x \in Int /\ x # 0 /\ -x # 0 /\ inst.size \in Nat
  BY <1>3, LiteralFacts DEF SolverInv, StackInv
<1>5. an'.seen \subseteq rest
  BY <1>1 DEF PackagesAt
<1>6. an'.l1num \in Int
  <2>1. an'.seen \subseteq Packages
    BY <1>2, <1>5 DEF AnShape
  <2>2. Cardinality(an'.seen) \in Nat
    BY <2>1, <1>4, PackagesFinite
  <2> QED
    BY <1>1, <2>2
<1>7. AnShape(an')
  BY <1>1, <1>2, <1>5, <1>6 DEF AnShape
<1>8. AnBounds(an')
  <2>1. \A q \in an'.seen : q \in an.seen /\ q # AbsOf(x)
    BY <1>5
  <2>2. Len(queue) \in Nat /\ d - 1 \in 0 .. Len(queue)
    BY QueueFacts DEF SolverInv
  <2>3. /\ an'.decision_id = d - 1 /\ an'.rule_level = an.rule_level /\ an'.others = an.others
    BY <1>1
  <2>4. \A p \in an'.seen : \E j \in 1 .. an'.decision_id : AbsOf(queue[j].literal) = p
    BY <1>3, <2>1, <2>3
  <2> QED
    BY <1>2, <2>2, <2>3, <2>4 DEF AnBounds
<1>9. AnPhase(an', pc')
  <2>1. pc' # "learn" => Finishing(an')
    BY <1>1 DEF Finishing, PackagesAt
  <2> QED
    BY <2>1, <1>1, <1>3, <1>4 DEF AnPhase
<1> QED
  BY <1>7, <1>8, <1>9

\* The locals once the walk has passed decision d, which its reason replaces.
Passed(d) ==
  [an EXCEPT !.decision_id = d - 1, !.l1num = L1Num, !.num = IF @ = 0 THEN 0 ELSE @ - 1,
             !.seen = @ \ {AbsOf(queue[d].literal)}]

\* The literal of a MultiConflict reason that is taken.
Taken(d) ==
  LET open == Installed(rules[queue[d].reason], Passed(d).seen)
  IN {l \in open : IsFirst(l, open)}

\* Going back over a decision takes its package out of what is seen; its reason
\* forced it.
LEMMA PassedFacts ==
  ASSUME SolverInv, pc = "walk", ~NothingLeft, an.num # 1,
         NEW d \in 1 .. Len(queue), IsLastSeen(d)
  PROVE  LET x == queue[d].literal
             a == Passed(d)
         IN /\ AnShape(a) /\ AnBounds(a) /\ AnPhase(a, "resolve")
            /\ a.learned = 0 => a.num > 0
            /\ a.seen = an.seen \ {AbsOf(x)} /\ a.others = an.others
            /\ a.learned = an.learned /\ a.decision_id = d - 1
            /\ ReasonOK(d)
<1> DEFINE x == queue[d].literal
           a == Passed(d)
<1>1. /\ AnShape(an) /\ AnBounds(an) /\ AnPhase(an, "walk") /\ level > 1
      /\ level # 1 /\ level \in Nat /\ StackInv /\ inst.size \in Nat /\ Len(queue) \in Nat
  BY QueueFacts DEF SolverInv, StackInv, AnTyped, AnInv, InAnalysis
<1>2. /\ x \in Literals /\ AbsOf(x) \in an.seen /\ AbsOf(x) \in Packages
      /\ AbsOf(map[AbsOf(x)]) = LevelAt(d)
      /\ \A q \in an.seen : q # AbsOf(x) => \E j \in 1 .. d - 1 : AbsOf(queue[j].literal) = q
      /\ LevelAt(d) = IF an.learned = 0 THEN level ELSE 1
  BY LastSeenFacts
<1>3. /\ DOMAIN a = DOMAIN an /\ a.rule = an.rule /\ a.rule_level = an.rule_level
      /\ a.learned = an.learned /\ a.others = an.others /\ a.decision_id = d - 1
      /\ a.seen = an.seen \ {AbsOf(x)} /\ a.l1num = L1Num
      /\ a.num = IF an.num = 0 THEN 0 ELSE an.num - 1
  BY <1>1 DEF Passed, AnShape
<1> HIDE DEF a
<1>4. AnShape(a)
  BY <1>1, <1>3 DEF AnShape, L1Num
<1>5. AnBounds(a)
  <2>1. d - 1 \in 0 .. Len(queue)
    BY <1>1
  <2>2. \A p \in a.seen : \E j \in 1 .. d - 1 : AbsOf(queue[j].literal) = p
    BY <1>2, <1>3
  <2> QED
    BY <1>1, <1>3, <2>1, <2>2 DEF AnBounds
<1>6. /\ Cardinality(PackagesAt(a.seen, level))
           = IF LevelAt(d) = level THEN Cardinality(PackagesAt(an.seen, level)) - 1
             ELSE Cardinality(PackagesAt(an.seen, level))
      /\ Cardinality(PackagesAt(a.seen, level)) = 0 <=> PackagesAt(a.seen, level) = {}
      /\ Cardinality(a.seen) = Cardinality(an.seen) - 1 /\ Cardinality(an.seen) \in Nat
  <2>1. an.seen \in SUBSET Packages
    BY <1>1 DEF AnShape
  <2>2. /\ Cardinality(PackagesAt(an.seen \ {AbsOf(x)}, level))
             = IF AbsOf(map[AbsOf(x)]) = level THEN Cardinality(PackagesAt(an.seen, level)) - 1
               ELSE Cardinality(PackagesAt(an.seen, level))
        /\ Cardinality(PackagesAt(an.seen \ {AbsOf(x)}, level)) = 0
             <=> PackagesAt(an.seen \ {AbsOf(x)}, level) = {}
        /\ Cardinality(an.seen \ {AbsOf(x)}) = Cardinality(an.seen) - 1
        /\ Cardinality(an.seen) \in Nat
    BY <2>1, <1>1, <1>2, SeenLess
  <2> QED
    BY <2>2, <1>2, <1>3
<1>7. CASE an.learned = 0
  <2>1. Collecting(an) /\ an.num > 0 /\ an.num \in Int
    BY <1>1, <1>7 DEF AnPhase, AnShape
  <2>2. a.num = an.num - 1 /\ a.num > 0 /\ a.l1num = an.l1num
    BY <1>1, <1>3, <2>1 DEF L1Num
  <2>3. LevelAt(d) = level
    BY <1>2, <1>7
  <2>4. PackagesAt(a.seen, 1) = PackagesAt(an.seen, 1)
    BY <1>1, <1>2, <1>3, <2>3 DEF PackagesAt
  <2>5. a.num = Cardinality(PackagesAt(a.seen, level))
    BY <1>6, <2>1, <2>2, <2>3 DEF Collecting
  <2>6. PackagesOf(a.others) \subseteq a.seen
    <3>1. ASSUME NEW o \in an.others
          PROVE  AbsOf(o) # AbsOf(x)
      <4>1. Conflict(o) /\ o \in Literals /\ DecisionLevel(o) <= an.rule_level
            /\ an.rule_level \in 1 .. level - 1
        BY <1>1 DEF AnBounds, AnShape
      <4>2. DecisionLevel(o) # level /\ AbsOf(map[AbsOf(o)]) = DecisionLevel(o)
        <5>1. DecisionLevel(o) \in Nat
          BY <4>1, <1>1, StatusFacts
        <5>2. AbsOf(map[AbsOf(o)]) = DecisionLevel(o)
          BY <4>1, <1>1, FalseLiteralIs
        <5> QED
          BY <5>1, <5>2, <4>1, <1>1
      <4> QED
        BY <4>2, <1>2, <2>3
    <3> QED
      BY <3>1, <2>1, <1>3 DEF Collecting, PackagesOf
  <2>7. Collecting(a)
    BY <2>1, <2>2, <2>4, <2>5, <2>6, <1>3 DEF Collecting
  <2>8. PICK q \in a.seen : AbsOf(map[q]) = level
    <3>1. Cardinality(PackagesAt(a.seen, level)) # 0
      BY <2>2, <2>5
    <3>2. PackagesAt(a.seen, level) # {}
      BY <3>1, <1>6
    <3> QED
      BY <3>2 DEF PackagesAt
  <2>9. ~IsChoice(d)
    <3>1. PICK j \in 1 .. d - 1 : AbsOf(queue[j].literal) = q
      BY <2>8, <1>2, <1>3
    <3>2. LevelAt(j) = level
      BY <3>1, <2>8 DEF LevelAt, DecisionLevel, Entry
    <3>3. j \in 1 .. Len(queue) /\ d - 1 \in 1 .. Len(queue) /\ j <= d - 1 /\ d # 1
      BY <3>1, <1>1
    <3>4. LevelAt(j) <= LevelAt(d - 1) /\ LevelAt(d - 1) \in Nat
      BY <3>3, <1>1, QueueFacts
    <3> QED
      BY <3>2, <3>3, <3>4, <2>3, <1>1 DEF IsChoice
  <2>10. ReasonOK(d)
    BY <2>9, QueueFacts DEF SolverInv, ReasonInv
  <2> QED
    BY <1>3, <1>4, <1>5, <1>7, <2>2, <2>7, <2>10 DEF AnPhase, a
<1>8. CASE an.learned # 0
  <2>1. /\ Finishing(an) /\ an.learned \in Literals /\ Conflict(an.learned)
        /\ DecisionLevel(an.learned) = level
    BY <1>1, <1>8 DEF AnPhase
  <2>2. LevelAt(d) = 1
    BY <1>2, <1>8
  <2>3. a.num = 0 /\ a.l1num = an.l1num - 1
    BY <1>3, <2>1 DEF Finishing, L1Num
  <2>4. a.l1num = Cardinality(a.seen) + 1
    BY <1>6, <2>1, <2>3 DEF Finishing
  <2>5. Finishing(a)
    BY <1>3, <2>1, <2>3, <2>4 DEF Finishing
  <2>6. ~IsChoice(d)
    BY <2>2 DEF IsChoice
  <2>7. ReasonOK(d)
    BY <2>6, QueueFacts DEF SolverInv, ReasonInv
  <2> QED
    BY <1>3, <1>4, <1>5, <1>8, <2>1, <2>5, <2>7 DEF AnPhase, a
<1> QED
  BY <1>7, <1>8

\* The literal taken is false, and was before d.
LEMMA TakenFacts ==
  ASSUME SolverInv, NEW d \in 1 .. Len(queue), ReasonOK(d), IsMulti(rules[queue[d].reason])
  PROVE  /\ Taken(d) \in SUBSET Literals
         /\ \A l \in Taken(d) :
              /\ l \in rules[queue[d].reason].lits /\ Conflict(l) /\ AbsOf(l) \notin Passed(d).seen
              /\ \E j \in 1 .. d - 1 : queue[j].literal = -l
         /\ Taken(d) = {} =>
              \A l \in rules[queue[d].reason].lits : Conflict(l) => AbsOf(l) \in Passed(d).seen
<1> DEFINE r == rules[queue[d].reason]
           x == queue[d].literal
           seen == Passed(d).seen
           open == Installed(r, seen)
<1>1. r.lits \in SUBSET Literals /\ StackInv /\ inst.size \in Nat
  BY ReasonIds DEF SolverInv, RulesInv, RuleOK, StackInv
<1>2. open \subseteq r.lits /\ \A l \in r.lits : l \in open <=> AbsOf(l) \notin seen /\ Conflict(l)
  BY <1>1, StatusFacts DEF Installed
<1>3. Taken(d) \subseteq open
  BY DEF Taken
<1>4. ASSUME NEW l \in Taken(d)
      PROVE  \E j \in 1 .. d - 1 : queue[j].literal = -l
  <2>1. l \in r.lits /\ Conflict(l) /\ l \in Literals
    BY <1>1, <1>2, <1>3
  <2>2. ~Satisfy(l) /\ ~Undecided(l)
    BY <2>1, <1>1, StatusFacts
  <2>3. Satisfy(x)
    BY <1>1, QueueFacts
  <2>4. l # x
    BY <2>2, <2>3
  <2>5. FalseBefore(l, d)
    BY <2>1, <2>2, <2>4 DEF ReasonOK, AllAsked
  <2> QED
    BY <2>5 DEF FalseBefore
<1>5. Taken(d) = {} => open = {}
  <2> SUFFICES ASSUME open # {} PROVE Taken(d) # {}
    OBVIOUS
  <2>1. open \in SUBSET (-inst.size .. inst.size)
    BY <1>1, <1>2 DEF Literals, LiteralsOf
  <2>2. \E l \in open : IsFirst(l, open)
    BY <2>1, <1>1, FirstExists
  <2> QED
    BY <2>2 DEF Taken
<1>6. \A l \in Taken(d) : l \in r.lits /\ Conflict(l) /\ AbsOf(l) \notin seen
  BY <1>2, <1>3
<1>7. Taken(d) = {} => \A l \in r.lits : Conflict(l) => AbsOf(l) \in seen
  BY <1>2, <1>5
<1>8. Taken(d) \in SUBSET Literals
  BY <1>1, <1>2, <1>3
<1> QED
  BY <1>4, <1>6, <1>7, <1>8

\* WalkReason, for the decision it passes.
LEMMA WalkReasonStep ==
  ASSUME SolverInv, WalkReason
  PROVE  \E d \in 1 .. Len(queue) :
           /\ pc = "walk" /\ ~NothingLeft /\ an.num # 1 /\ IsLastSeen(d)
           /\ IF IsMulti(rules[queue[d].reason])
              THEN /\ an' = [Count(Passed(d), Taken(d)) EXCEPT !.rule = queue[d].reason]
                   /\ learned_pool' = IF Taken(d) = {} THEN learned_pool
                        ELSE [learned_pool EXCEPT ![Len(learned_pool)] =
                                                      @ \cup {queue[d].reason}]
                   /\ pc' = "walk"
              ELSE /\ an' = [Passed(d) EXCEPT !.rule = queue[d].reason]
                   /\ pc' = "resolve" /\ UNCHANGED learned_pool
  BY Zenon DEF WalkReason, Passed, Taken

\* Only the rule changes.
LEMMA OtherRule ==
  ASSUME NEW a, AnShape(a), NEW label, AnBounds(a), AnPhase(a, label), NEW id \in RuleIds,
         Len(rules) \in Nat
  PROVE  LET b == [a EXCEPT !.rule = id]
         IN /\ AnShape(b) /\ AnBounds(b) /\ AnPhase(b, label) /\ b.rule = id
            /\ b.seen = a.seen /\ b.others = a.others /\ b.learned = a.learned
            /\ b.num = a.num /\ b.decision_id = a.decision_id
<1> DEFINE b == [a EXCEPT !.rule = id]
<1>1. /\ DOMAIN b = DOMAIN a /\ b.rule = id /\ b.rule_level = a.rule_level /\ b.num = a.num
      /\ b.l1num = a.l1num /\ b.seen = a.seen /\ b.learned = a.learned /\ b.others = a.others
      /\ b.decision_id = a.decision_id
  BY DEF AnShape
<1> HIDE DEF b
<1>2. AnShape(b) /\ AnBounds(b)
  BY <1>1 DEF AnShape, AnBounds, RuleIds
<1>3. AnPhase(b, label)
  BY <1>1 DEF AnPhase, Collecting, Finishing
<1> QED
  BY <1>1, <1>2, <1>3 DEF b

\* Passing a decision keeps the counts, also when its reason is a multi-conflict.
LEMMA WalkReasonKeeps ==
  ASSUME SolverInv, WalkReason
  PROVE  /\ AnShape(an') /\ AnBounds(an') /\ AnPhase(an', pc')
         /\ pc' = "resolve" => Resolvable(an')
<1>1. PICK d \in 1 .. Len(queue) :
           /\ pc = "walk" /\ ~NothingLeft /\ an.num # 1 /\ IsLastSeen(d)
           /\ IF IsMulti(rules[queue[d].reason])
              THEN /\ an' = [Count(Passed(d), Taken(d)) EXCEPT !.rule = queue[d].reason]
                   /\ learned_pool' = IF Taken(d) = {} THEN learned_pool
                        ELSE [learned_pool EXCEPT ![Len(learned_pool)] =
                                                      @ \cup {queue[d].reason}]
                   /\ pc' = "walk"
              ELSE /\ an' = [Passed(d) EXCEPT !.rule = queue[d].reason]
                   /\ pc' = "resolve" /\ UNCHANGED learned_pool
  BY WalkReasonStep
<1> DEFINE a == Passed(d)
           id == queue[d].reason
           x == queue[d].literal
<1>2. /\ AnShape(a) /\ AnBounds(a) /\ AnPhase(a, "resolve") /\ (a.learned = 0 => a.num > 0)
      /\ a.learned = an.learned /\ a.decision_id = d - 1
      /\ ReasonOK(d)
  BY <1>1, PassedFacts
<1>3. id \in RuleIds /\ Len(rules) \in Nat /\ level > 1 /\ level # 1
  BY <1>1, ReasonIds, RulesFacts DEF SolverInv, StackInv, AnInv, InAnalysis
<1>4. LevelAt(d) = IF an.learned = 0 THEN level ELSE 1
  BY <1>1, LastSeenFacts
<1>4a. Len(queue) \in Nat /\ StackInv
  BY QueueFacts DEF SolverInv
<1> HIDE DEF a
<1>5. CASE IsMulti(rules[id])
  <2>1. /\ Taken(d) \in SUBSET Literals
        /\ \A l \in Taken(d) : /\ Conflict(l) /\ AbsOf(l) \notin a.seen
                               /\ \E j \in 1 .. d - 1 : queue[j].literal = -l
    BY <1>2, <1>5, TakenFacts DEF a
  <2>2. ASSUME NEW l \in Taken(d), a.learned # 0
        PROVE  DecisionLevel(l) = 1
    <3>1. PICK j \in 1 .. d - 1 : queue[j].literal = -l
      BY <2>1
    <3>2. j \in 1 .. Len(queue) /\ j <= d /\ l \in Literals
      BY <3>1, <1>4a, <2>1
    <3>3. DecisionLevel(l) = LevelAt(j)
      BY <3>1, <3>2, <1>4a, NegatedDecision
    <3>4. LevelAt(j) <= LevelAt(d) /\ LevelAt(j) > 0 /\ LevelAt(j) \in Nat /\ LevelAt(d) = 1
      BY <3>2, <1>4a, <1>2, <1>4, <2>2, QueueFacts
    <3> QED
      BY <3>3, <3>4
  <2>3. /\ \A l \in Taken(d) : /\ Conflict(l) /\ AbsOf(l) \notin a.seen
                               /\ \E j \in 1 .. a.decision_id : queue[j].literal = -l
                               /\ a.learned # 0 => DecisionLevel(l) = 1
        /\ a.learned = 0 => a.num > 0 \/ \E l \in Taken(d) : DecisionLevel(l) = level
    BY <2>1, <2>2, <1>2
  <2>4. /\ AnShape(Count(a, Taken(d))) /\ AnBounds(Count(a, Taken(d)))
        /\ AnPhase(Count(a, Taken(d)), "walk")
    BY <2>1, <2>3, <1>2, <1>3, CountKeeps
  <2>5. an' = [Count(a, Taken(d)) EXCEPT !.rule = id] /\ pc' = "walk"
    BY <1>1, <1>5 DEF a
  <2> QED
    BY <2>4, <2>5, <1>3, OtherRule
<1>6. CASE ~IsMulti(rules[id])
  <2>1. an' = [a EXCEPT !.rule = id] /\ pc' = "resolve"
    BY <1>1, <1>6 DEF a
  <2>2. /\ AnShape(an') /\ AnBounds(an') /\ AnPhase(an', "resolve") /\ an'.rule = id
        /\ an'.learned = an.learned /\ an'.num = a.num /\ an'.decision_id = d - 1
    BY <2>1, <1>2, <1>3, OtherRule
  <2>3. rules[id].lits \subseteq Literals
    BY <1>3 DEF SolverInv, RulesInv, RuleOK
  <2>4. ASSUME NEW l \in rules[id].lits
        PROVE  /\ Satisfy(l) \/ \E j \in 1 .. d - 1 : queue[j].literal = -l
               /\ an.learned # 0 /\ Conflict(l) => DecisionLevel(l) = 1
    <3>1. CASE l = x
      <4>1. Satisfy(l) /\ l \in Literals
        BY <3>1, <1>4a, QueueFacts
      <4>2. ~Conflict(l)
        BY <4>1, <1>4a, StatusFacts
      <4> QED
        BY <4>1, <4>2
    <3>2. CASE l # x
      <4>1. FalseBefore(l, d)
        BY <3>2, <1>2, <1>6 DEF ReasonOK, Forced
      <4>2. PICK j \in 1 .. d - 1 : queue[j].literal = -l
        BY <4>1 DEF FalseBefore
      <4>3. j \in 1 .. Len(queue) /\ j <= d /\ l \in Literals
        BY <4>2, <1>4a, <2>3
      <4>4. DecisionLevel(l) = LevelAt(j)
        BY <4>2, <4>3, <1>4a, NegatedDecision
      <4>5. LevelAt(j) <= LevelAt(d) /\ LevelAt(j) > 0 /\ LevelAt(j) \in Nat
        BY <4>3, <1>4a, QueueFacts
      <4>6. an.learned # 0 => DecisionLevel(l) = 1
        BY <4>4, <4>5, <1>4
      <4> QED
        BY <4>2, <4>6
    <3> QED
      BY <3>1, <3>2
  <2>5. Resolvable(an')
    BY <2>2, <2>4, <1>2, <1>3 DEF Resolvable
  <2> QED
    BY <2>1, <2>2, <2>5
<1> QED
  BY <1>5, <1>6

\* Out of analyze its locals change only when a conflict starts it.
LEMMA AnalysisFields ==
  ASSUME [Next]_vars, ~InAnalysis'
  PROVE  UNCHANGED an \/ an' = NoAnalysis \/ VisitConflict
<1> USE DEF InAnalysis
<1>1. CASE AssertSkip \/ AssertDecide \/ AssertConflict \/ AssertionsDone \/ RunSat
  BY <1>1 DEF AssertSkip, AssertDecide, AssertConflict, AssertionsDone, RunSat, Asserting
<1>2. CASE VisitSettled \/ VisitMoveWatch \/ VisitImply \/ VisitConflict \/ NextDecision
  BY <1>2 DEF VisitSettled, VisitMoveWatch, VisitImply, NextDecision
<1>3. CASE Propagated \/ Unsolvable \/ BeginAnalysis \/ Resolve
  BY <1>3 DEF Propagated, Unsolvable, BeginAnalysis, Resolve
<1>4. CASE WalkEnd \/ WalkLearn \/ WalkReason \/ Learn
  BY <1>4, Zenon DEF WalkEnd, WalkLearn, WalkReason, Learn
<1>5. CASE SkipRequest \/ InstallRequest \/ RequestsDone \/ SkipRule \/ InstallProvider \/ Swept
  BY <1>5 DEF SkipRequest, InstallRequest, RequestsDone, SkipRule, InstallProvider, Swept,
              SelectAndInstall
<1>6. CASE RetryBranch \/ BranchesDone \/ Terminated \/ UNCHANGED vars
  BY <1>6 DEF RetryBranch, BranchesDone, Terminated, vars
<1> QED
  BY <1>1, <1>2, <1>3, <1>4, <1>5, <1>6 DEF Next

\* All positions but the last.
LEMMA BelowLast ==
  ASSUME NEW n \in Nat, NEW k \in 1 .. n - 1
  PROVE  k \in 1 .. n /\ k # n
  OBVIOUS

\* What a step of analyze does to the rules the learned one comes from.
LEMMA PoolOfStep ==
  ASSUME SolverInv, [Next]_vars, InAnalysis', InAnalysis
  PROVE  /\ Len(learned_pool) \in Nat \ {0} /\ Len(learned_pool') = Len(learned_pool)
         /\ learned_pool' \in Seq(SUBSET RuleIds)
         /\ \A k \in 1 .. Len(learned_pool) - 1 : learned_pool'[k] = learned_pool[k]
         /\ CurrentPool \subseteq RuleIds
         /\ UNCHANGED learned_pool => CurrentPool' = CurrentPool
         /\ \A id \in RuleIds :
              learned_pool' = [learned_pool EXCEPT ![Len(learned_pool)] = @ \cup {id}]
                => CurrentPool' = CurrentPool \cup {id}
<1>1. learned_pool \in Seq(SUBSET RuleIds) /\ learned_pool # <<>>
  BY DEF SolverInv, PoolInv, AnInv
<1>2. /\ Len(learned_pool) \in Nat \ {0} /\ DOMAIN learned_pool = 1 .. Len(learned_pool)
      /\ CurrentPool \subseteq RuleIds
  BY <1>1, LenProperties, EmptySeq, ElementOfSeq DEF CurrentPool
<1>3. \/ UNCHANGED learned_pool
      \/ \E id \in RuleIds :
           learned_pool' = [learned_pool EXCEPT ![Len(learned_pool)] = @ \cup {id}]
  <2>1. CASE Resolve
    BY <2>1, NewlySeenFacts DEF Resolve
  <2>2. CASE WalkReason
    BY <2>2, WalkReasonStep, ReasonIds
  <2>3. ~BeginAnalysis
    BY DEF BeginAnalysis, InAnalysis
  <2> QED
    BY <2>1, <2>2, <2>3, Frames
<1>4. UNCHANGED learned_pool => CurrentPool' = CurrentPool
  BY DEF CurrentPool
<1>5. ASSUME NEW id \in RuleIds,
             learned_pool' = [learned_pool EXCEPT ![Len(learned_pool)] = @ \cup {id}]
      PROVE  /\ Len(learned_pool') = Len(learned_pool)
             /\ learned_pool' \in Seq(SUBSET RuleIds)
             /\ \A k \in 1 .. Len(learned_pool) - 1 : learned_pool'[k] = learned_pool[k]
             /\ CurrentPool' = CurrentPool \cup {id}
  <2>1. CurrentPool \cup {id} \in SUBSET RuleIds
    BY <1>2
  <2>2. learned_pool' = [learned_pool EXCEPT ![Len(learned_pool)] = CurrentPool \cup {id}]
    BY <1>5 DEF CurrentPool
  <2>3. Len(learned_pool) \in 1 .. Len(learned_pool)
    BY <1>2
  <2>4. learned_pool' \in Seq(SUBSET RuleIds) /\ Len(learned_pool') = Len(learned_pool)
    BY <1>1, <2>1, <2>2, <2>3, ExceptSeq
  <2>5. learned_pool'[Len(learned_pool)] = CurrentPool \cup {id}
    BY <1>2, <2>2, <2>3
  <2>6. ASSUME NEW k \in 1 .. Len(learned_pool) - 1
        PROVE  learned_pool'[k] = learned_pool[k]
    <3>1. k \in 1 .. Len(learned_pool) /\ k # Len(learned_pool)
      <4>1. Len(learned_pool) \in Nat
        BY <1>2
      <4> QED
        BY <4>1, BelowLast
    <3> QED
      BY <1>2, <2>2, <3>1, Zenon
  <2> QED
    BY <2>4, <2>5, <2>6 DEF CurrentPool
<1> QED
  BY <1>1, <1>2, <1>3, <1>4, <1>5

\* The facts about the locals of analyze.
LEMMA AnalysisStep ==
  ASSUME SolverInv, [Next]_vars
  PROVE  AnTyped' /\ AnInv' /\ ResolveInv'
<1>1. CASE ~InAnalysis'
  <2>1. AnInv' /\ ResolveInv'
    BY <1>1 DEF AnInv, ResolveInv, InAnalysis
  <2>2. AnShape(an')
    <3>1. CASE UNCHANGED an
      BY <3>1 DEF SolverInv, AnTyped
    <3>2. CASE an' = NoAnalysis
      BY <3>2 DEF NoAnalysis, AnShape
    <3>3. CASE VisitConflict
      <4>1. an' = [an EXCEPT !.rule = Node.rule] /\ Node.rule \in RuleIds /\ AnShape(an)
        BY <3>3, VisitFacts DEF VisitConflict, SolverInv, AnTyped
      <4>2. Len(rules) \in Nat
        BY RulesFacts
      <4> QED
        BY <4>1, <4>2 DEF AnShape, RuleIds
    <3> QED
      BY <1>1, <3>1, <3>2, <3>3, AnalysisFields
  <2>3. UNCHANGED inst
    BY Frames
  <2> QED
    BY <2>1, <2>2, <2>3 DEF AnTyped, AnShape, Packages, Literals
<1>2. CASE InAnalysis' /\ ~UNCHANGED vars
  <2>1. /\ BeginAnalysis \/ Resolve \/ WalkEnd \/ WalkLearn \/ WalkReason
        /\ UNCHANGED <<inst, rules, map, queue, level>>
    BY <1>2, AnalysisFrames
  <2>2. /\ AnShape(an') /\ AnBounds(an') /\ AnPhase(an', pc')
        /\ pc' = "resolve" => Resolvable(an')
    <3>1. CASE BeginAnalysis
      BY <3>1, BeginAnalysisKeeps
    <3>2. CASE Resolve
      BY <3>2, ResolveKeeps DEF Resolve
    <3>3. CASE WalkEnd
      BY <3>3, WalkEndKeeps DEF WalkEnd
    <3>4. CASE WalkLearn
      BY <3>4, WalkLearnKeeps, WalkLearnStep
    <3>5. CASE WalkReason
      BY <3>5, WalkReasonKeeps
    <3> QED
      BY <2>1, <3>1, <3>2, <3>3, <3>4, <3>5
  <2>3. level > 1 /\ learned_pool' # <<>>
    <3>1. CASE BeginAnalysis
      <4>1. learned_pool \in Seq(SUBSET RuleIds) /\ learned_pool' = Append(learned_pool, {})
            /\ level > 1 /\ {} \in SUBSET RuleIds
        BY <3>1 DEF BeginAnalysis, SolverInv, PoolInv
      <4>2. Len(learned_pool) \in Nat /\ Len(learned_pool') = Len(learned_pool) + 1
        BY <4>1, LenProperties, AppendProperties
      <4>3. Len(learned_pool') # 0
        BY <4>2
      <4> QED
        BY <4>1, <4>3, EmptySeq
    <3>2. CASE ~BeginAnalysis
      <4>1. InAnalysis
        BY <2>1, <3>2, Zenon DEF Resolve, WalkEnd, WalkLearn, WalkReason, InAnalysis
      <4>2. Len(learned_pool') # 0
        BY <4>1, <1>2, PoolOfStep
      <4> QED
        BY <4>1, <4>2, EmptySeq DEF SolverInv, AnInv
    <3> QED
      BY <3>1, <3>2
  <2> QED
    BY <2>1, <2>2, <2>3, AnalysisKeeps
<1>3. CASE UNCHANGED vars
  <2>1. UNCHANGED <<inst, rules, map, queue, level, an, pc, learned_pool>>
    BY <1>3 DEF vars
  <2>2. AnTyped /\ AnInv /\ ResolveInv
    BY DEF SolverInv
  <2>3. CASE InAnalysis
    <3>1. AnShape(an') /\ AnBounds(an') /\ AnPhase(an', pc') /\ level > 1
          /\ learned_pool' # <<>> /\ (pc' = "resolve" => Resolvable(an'))
      BY <2>1, <2>2, <2>3 DEF AnTyped, AnInv, ResolveInv
    <3> QED
      BY <2>1, <3>1, AnalysisKeeps
  <2>4. CASE ~InAnalysis
    BY <2>1, <2>2, <2>4 DEF AnTyped, AnShape, Packages, Literals, AnInv, ResolveInv, InAnalysis
  <2> QED
    BY <2>3, <2>4
<1> QED
  BY <1>1, <1>2, <1>3

\* A learned rule comes from rules before it.
LEMMA PoolStep ==
  ASSUME SolverInv, [Next]_vars
  PROVE  PoolInv'
<1>1. Grown /\ RulesInv'
  BY RulesStep
<1>2. /\ learned_pool \in Seq(SUBSET RuleIds) /\ RuleIds \subseteq RuleIds'
      /\ RuleIds = 1 .. Len(rules) /\ Len(rules) \in Nat
      /\ \A id \in RuleIds : rules'[id] = rules[id]
  BY <1>1, RulesFacts DEF SolverInv, PoolInv, Grown
<1>3. /\ Len(learned_pool) \in Nat
      /\ \A k \in 1 .. Len(learned_pool) : learned_pool[k] \in SUBSET RuleIds
  BY <1>2, LenProperties, ElementOfSeq
<1>4. \A id \in RuleIds :
        /\ rules[id].why \in Nat
        /\ rules[id].why > 0 =>
             /\ rules[id].why <= Len(learned_pool)
             /\ InAnalysis => rules[id].why < Len(learned_pool)
             /\ learned_pool[rules[id].why] \subseteq 1 .. id - 1
  BY DEF SolverInv, PoolInv, RulesInv, RuleOK
<1>5. CASE InAnalysis' /\ InAnalysis
  <2>1. /\ Len(learned_pool) \in Nat \ {0} /\ Len(learned_pool') = Len(learned_pool)
        /\ learned_pool' \in Seq(SUBSET RuleIds)
        /\ \A k \in 1 .. Len(learned_pool) - 1 : learned_pool'[k] = learned_pool[k]
    BY <1>5, PoolOfStep
  <2>2. UNCHANGED rules
    BY <1>5, AnalysisFrames
  <2>3. ASSUME NEW id \in RuleIds, rules[id].why > 0
        PROVE  /\ rules[id].why < Len(learned_pool')
               /\ learned_pool'[rules[id].why] \subseteq 1 .. id - 1
    <3>1. rules[id].why \in 1 .. Len(learned_pool) - 1
      BY <1>4, <1>5, <2>1, <2>3
    <3> QED
      BY <3>1, <1>4, <2>1, <2>3
  <2>4. \A id \in RuleIds : rules[id].why > 0 => rules[id].why <= Len(learned_pool')
    BY <2>1, <2>3, <1>4
  <2> QED
    BY <2>1, <2>2, <2>3, <2>4, <1>5 DEF PoolInv, RuleIds
<1>6. CASE BeginAnalysis
  <2>1. learned_pool' = Append(learned_pool, {}) /\ UNCHANGED rules /\ pc' = "resolve"
    BY <1>6 DEF BeginAnalysis, ruleVars
  <2>2. {} \in SUBSET RuleIds
    OBVIOUS
  <2>3. /\ learned_pool' \in Seq(SUBSET RuleIds) /\ Len(learned_pool') = Len(learned_pool) + 1
        /\ \A k \in 1 .. Len(learned_pool) : learned_pool'[k] = learned_pool[k]
    BY <1>2, <2>1, <2>2, AppendProperties
  <2>4. ASSUME NEW id \in RuleIds, rules[id].why > 0
        PROVE  /\ rules[id].why <= Len(learned_pool') /\ rules[id].why < Len(learned_pool')
               /\ learned_pool'[rules[id].why] \subseteq 1 .. id - 1
    <3>1. rules[id].why \in 1 .. Len(learned_pool)
      BY <1>3, <1>4, <2>4
    <3> QED
      BY <3>1, <1>3, <1>4, <2>3, <2>4
  <2> QED
    BY <2>1, <2>3, <2>4 DEF PoolInv, RuleIds
<1>7. CASE Learn
  <2>1. /\ Len(rules') = Len(rules) + 1 /\ IsTheLearned(rules'[Len(rules) + 1])
        /\ UNCHANGED learned_pool /\ ~InAnalysis' /\ InAnalysis
    BY <1>7, LearnedStored DEF Learn, InAnalysis
  <2>2. learned_pool' \in Seq(SUBSET RuleIds')
    BY <1>2, <2>1, SeqMonotonic
  <2>3. Len(learned_pool) \in 1 .. Len(learned_pool)
    <3>1. learned_pool # <<>>
      BY <2>1 DEF SolverInv, AnInv
    <3> QED
      BY <3>1, <1>2, <1>3, EmptySeq
  <2>4. ASSUME NEW id \in RuleIds', rules'[id].why > 0
        PROVE  /\ rules'[id].why <= Len(learned_pool')
               /\ learned_pool'[rules'[id].why] \subseteq 1 .. id - 1
    <3>1. CASE id \in RuleIds
      BY <3>1, <1>2, <1>4, <2>1, <2>4
    <3>2. CASE id = Len(rules) + 1
      <4>1. rules'[id].why = Len(learned_pool)
        BY <3>2, <2>1 DEF IsTheLearned
      <4>2. id - 1 = Len(rules) /\ Len(learned_pool) <= Len(learned_pool)
        BY <3>2, <1>2, <1>3
      <4> QED
        BY <4>1, <4>2, <2>1, <2>3, <1>2, <1>3
    <3> QED
      BY <3>1, <3>2, <2>1, <1>2 DEF RuleIds
  <2> QED
    BY <2>1, <2>2, <2>4 DEF PoolInv
<1>8. CASE ~InAnalysis' /\ ~Learn
  <2>1. UNCHANGED <<rules, learned_pool>>
    BY <1>8, Frames, Zenon DEF BeginAnalysis, Resolve, WalkReason, InAnalysis
  <2> QED
    BY <2>1, <1>8 DEF PoolInv, RuleIds, SolverInv
<1>9. CASE InAnalysis' /\ ~InAnalysis
  <2>1. ~UNCHANGED vars
    BY <1>9 DEF vars, InAnalysis
  <2>2. BeginAnalysis
    BY <1>9, <2>1, AnalysisFrames, Zenon DEF Resolve, WalkEnd, WalkLearn, WalkReason, InAnalysis
  <2> QED
    BY <2>2, <1>6
<1> QED
  BY <1>5, <1>7, <1>8, <1>9

-----------------------------------------------------------------------------
(***************************************************************************)
(* What is collected follows from the rules it comes from.                 *)
(***************************************************************************)

\* What follows from some rules follows from more, and a longer disjunction too.
LEMMA FollowsMore ==
  ASSUME NEW ids, NEW lits, Follows(ids, lits),
         NEW more, ids \subseteq more, NEW wider, lits \subseteq wider
  PROVE  Follows(more, wider)
  BY DEF Follows, SatisfiedBy

\* The rules and the decisions do not change in a step of analyze.
LEMMA SoundKeeps ==
  ASSUME UNCHANGED <<inst, rules, map, queue>>,
         pc' = "resolve" =>
           Follows(CurrentPool' \cup {an'.rule},
                   Collected(an') \cup FalseLiterals(rules[an'.rule])),
         pc' = "walk" => Follows(CurrentPool', Collected(an')),
         pc' = "learn" => Follows(CurrentPool', an'.others \cup {an'.learned})
  PROVE  SoundInv'
<1>2. Collected(an)' = Collected(an')
  BY DEF Collected, FalseLiteral
<1>3. \A S : AllowedByPackages(S)' <=> AllowedByPackages(S)
  BY DEF AllowedByPackages, RuleIds
<1>4. Sets' = Sets
  BY DEF Sets, Packages
<1>5. FalseLiterals(rules[an.rule])' = FalseLiterals(rules[an'.rule])
  BY DEF FalseLiterals, Conflict, Entry
<1> QED
  BY <1>2, <1>3, <1>4, <1>5 DEF SoundInv, Follows

\* A conflicting rule follows from itself.
LEMMA ConflictFollows ==
  ASSUME SolverInv, NEW id \in RuleIds, Conflicting(rules[id])
  PROVE  Follows({id}, FalseLiterals(rules[id]))
<1> DEFINE r == rules[id]
<1>1. RuleOK(r)
  BY DEF SolverInv, RulesInv
<1> SUFFICES ASSUME NEW S \in Sets, Holds(S, r)
             PROVE  SatisfiedBy(S, FalseLiterals(r))
  BY DEF Follows
<1>2. CASE ~IsMulti(r)
  <2>1. \A l \in r.lits : l \in FalseLiterals(r)
    BY <1>2 DEF Conflicting, FalseLiterals
  <2> QED
    BY <1>2, <2>1 DEF Holds, SatisfiedBy
<1>3. CASE IsMulti(r)
  <2>1. PICK l, m \in r.lits : l # m /\ Conflict(l) /\ Conflict(m)
    BY <1>3 DEF Conflicting
  <2>2. l \in FalseLiterals(r) /\ m \in FalseLiterals(r)
    BY <2>1 DEF FalseLiterals
  <2>3. /\ l < 0 /\ m < 0 /\ l \in Int /\ m \in Int
    BY <1>1, <1>3, <2>1, RulesFacts, LiteralFacts DEF RuleOK
  <2>4. ~(l > 0) /\ ~(m > 0)
    BY <2>3
  <2>5. ~(-l \in S /\ -m \in S)
    BY <1>3, <2>1 DEF Holds
  <2> QED
    BY <2>2, <2>4, <2>5 DEF SatisfiedBy
<1> QED
  BY <1>2, <1>3

\* The rule in conflict is what the analysis starts from.
LEMMA BeginAnalysisSound ==
  ASSUME SolverInv, BeginAnalysis
  PROVE  Follows(CurrentPool' \cup {an'.rule}, Collected(an') \cup FalseLiterals(rules[an'.rule]))
<1>1. pc = "conflict" /\ an'.rule = an.rule
  BY BeginAnalysisKeeps DEF BeginAnalysis
<1>2. an.rule \in RuleIds /\ Conflicting(rules[an.rule])
  BY <1>1 DEF SolverInv, ConflictInv
<1>3. Follows({an.rule}, FalseLiterals(rules[an.rule]))
  BY <1>2, ConflictFollows
<1>4. /\ {an.rule} \subseteq CurrentPool' \cup {an'.rule}
      /\ FalseLiterals(rules[an.rule]) \subseteq Collected(an') \cup FalseLiterals(rules[an'.rule])
  BY <1>1
<1> QED
  BY <1>3, <1>4, FollowsMore

\* The literals of the rule that are false are collected.
LEMMA ResolveSound ==
  ASSUME SolverInv, [Next]_vars, Resolve
  PROVE  Follows(CurrentPool', Collected(an'))
<1>1. pc = "resolve" /\ pc' = "walk" /\ an' = Count(an, NewlySeen)
      /\ learned_pool' = [learned_pool EXCEPT ![Len(learned_pool)] = @ \cup {an.rule}]
  BY DEF Resolve
<1>2. /\ level > 1 /\ AnShape(an) /\ AnBounds(an)
      /\ Follows(CurrentPool \cup {an.rule}, Collected(an) \cup FalseLiterals(rules[an.rule]))
  BY <1>1 DEF SolverInv, AnTyped, AnInv, InAnalysis, SoundInv
<1>3. /\ NewlySeen \in SUBSET Literals
      /\ \A l \in NewlySeen : Conflict(l) /\ AbsOf(l) \notin an.seen
      /\ \A l \in rules[an.rule].lits : Conflict(l) => l \in NewlySeen \/ AbsOf(l) \in an.seen
      /\ an.rule \in RuleIds
  BY <1>1, NewlySeenFacts
<1>4. /\ an'.seen = an.seen \cup PackagesOf(NewlySeen) /\ an'.learned = an.learned
      /\ an.others \subseteq an'.others
  BY <1>1, <1>2, <1>3, CountFacts DEF AnBounds
<1>5. CurrentPool' = CurrentPool \cup {an.rule}
  <2>1. InAnalysis /\ InAnalysis'
    BY <1>1 DEF InAnalysis
  <2> QED
    BY <1>1, <1>3, <2>1, PoolOfStep
<1>6. Collected(an) \subseteq Collected(an')
  BY <1>4 DEF Collected
<1>7. ASSUME NEW l \in FalseLiterals(rules[an.rule])
      PROVE  l \in Collected(an')
  <2>1. l \in rules[an.rule].lits /\ Conflict(l) /\ l \in Literals
    BY <1>3 DEF FalseLiterals, SolverInv, RulesInv, RuleOK
  <2>2. FalseLiteral(AbsOf(l)) = l
    BY <2>1, FalseLiteralIs DEF SolverInv
  <2>3. AbsOf(l) \in an'.seen
    BY <1>3, <1>4, <2>1 DEF PackagesOf
  <2> QED
    BY <2>2, <2>3 DEF Collected
<1> QED
  BY <1>2, <1>5, <1>6, <1>7, FollowsMore

\* At the end what was collected is what is learned.
LEMMA WalkEndSound ==
  ASSUME SolverInv, [Next]_vars, WalkEnd
  PROVE  Follows(CurrentPool', an'.others \cup {an'.learned})
<1>1. /\ an.seen = {} /\ an'.others = an.others /\ an'.learned = an.learned /\ an.learned # 0
      /\ pc = "walk" /\ UNCHANGED learned_pool
  BY WalkEndKeeps DEF WalkEnd, searchVars
<1>2. Follows(CurrentPool, Collected(an)) /\ CurrentPool' = CurrentPool
  BY <1>1 DEF SolverInv, SoundInv, CurrentPool
<1>3. Collected(an) \subseteq an'.others \cup {an'.learned}
  BY <1>1 DEF Collected
<1> QED
  BY <1>2, <1>3, FollowsMore

\* Meeting the literal to learn keeps what was collected.
LEMMA WalkLearnSound ==
  ASSUME SolverInv, [Next]_vars, WalkLearn
  PROVE  /\ pc' = "learn" => Follows(CurrentPool', an'.others \cup {an'.learned})
         /\ pc' = "walk" => Follows(CurrentPool', Collected(an'))
<1>1. PICK d \in 1 .. Len(queue) :
           LET x == queue[d].literal
               rest == an.seen \ {AbsOf(x)}
           IN /\ IsLastSeen(d) /\ an.learned = 0 /\ pc = "walk"
              /\ an'.others = an.others /\ an'.learned = -x
              /\ \A q \in rest : \/ AbsOf(map[q]) = 1
                                 \/ FalseLiteral(q) \in an.others /\ AbsOf(map[q]) # 1
              /\ \/ /\ pc' = "learn" /\ an'.seen = rest
                    /\ \A q \in rest : AbsOf(map[q]) # 1
                 \/ /\ pc' = "walk" /\ an'.seen = PackagesAt(rest, 1)
  BY WalkLearnStep
<1> DEFINE x == queue[d].literal
           rest == an.seen \ {AbsOf(x)}
<1>2. FalseLiteral(AbsOf(x)) = -x /\ x \in Literals /\ x # 0 /\ -x # 0
  <2>1. FalseLiteral(AbsOf(x)) = -x /\ x \in Literals
    BY <1>1, LastSeenFacts
  <2>2. x \in Int /\ x # 0
    BY <2>1, RulesFacts, LiteralFacts
  <2> QED
    BY <2>1, <2>2
<1>3. Follows(CurrentPool, Collected(an)) /\ CurrentPool' = CurrentPool
  BY <1>1 DEF SolverInv, SoundInv, CurrentPool, WalkLearn, searchVars
<1>4. \A q \in an.seen : q = AbsOf(x) \/ q \in rest
  OBVIOUS
<1>5. CASE pc' = "learn"
  <2>1. Collected(an) \subseteq an'.others \cup {an'.learned}
    BY <1>1, <1>2, <1>4, <1>5 DEF Collected
  <2> QED
    BY <1>3, <1>5, <2>1, FollowsMore
<1>6. CASE pc' = "walk"
  <2>1. an'.seen = PackagesAt(rest, 1) /\ an'.others = an.others /\ an'.learned = -x
        /\ an.learned = 0
    BY <1>1, <1>6
  <2>2. ASSUME NEW q \in an.seen
        PROVE  FalseLiteral(q) \in Collected(an')
    <3>1. CASE q = AbsOf(x)
      BY <3>1, <1>2, <2>1 DEF Collected
    <3>2. CASE q \in rest /\ AbsOf(map[q]) = 1
      BY <3>2, <2>1 DEF Collected, PackagesAt
    <3>3. CASE FalseLiteral(q) \in an.others
      BY <3>3, <2>1 DEF Collected
    <3> QED
      BY <3>1, <3>2, <3>3, <1>1, <1>4
  <2>3. Collected(an) \subseteq Collected(an')
    BY <2>1, <2>2 DEF Collected
  <2> QED
    BY <1>3, <1>6, <2>3, FollowsMore
<1> QED
  BY <1>5, <1>6

\* What is left of the literals once the decision is replaced by its reason.
LEMMA PassedCollected ==
  ASSUME SolverInv, pc = "walk", ~NothingLeft, an.num # 1,
         NEW d \in 1 .. Len(queue), IsLastSeen(d)
  PROVE  \A l \in Collected(an) : l = -queue[d].literal \/ l \in Collected(Passed(d))
<1>1. /\ FalseLiteral(AbsOf(queue[d].literal)) = -queue[d].literal
      /\ Passed(d).seen = an.seen \ {AbsOf(queue[d].literal)}
      /\ Passed(d).others = an.others /\ Passed(d).learned = an.learned
  BY LastSeenFacts, PassedFacts
<1> QED
  BY <1>1 DEF Collected

\* Resolving with the reason of the decision passed: the clause with the literal
\* and the clause with its negation give the two without it.
LEMMA WalkReasonSound ==
  ASSUME SolverInv, [Next]_vars, WalkReason
  PROVE  /\ pc' = "resolve" =>
              Follows(CurrentPool' \cup {an'.rule},
                      Collected(an') \cup FalseLiterals(rules[an'.rule]))
         /\ pc' = "walk" => Follows(CurrentPool', Collected(an'))
<1>1. PICK d \in 1 .. Len(queue) :
           /\ pc = "walk" /\ ~NothingLeft /\ an.num # 1 /\ IsLastSeen(d)
           /\ IF IsMulti(rules[queue[d].reason])
              THEN /\ an' = [Count(Passed(d), Taken(d)) EXCEPT !.rule = queue[d].reason]
                   /\ learned_pool' = IF Taken(d) = {} THEN learned_pool
                        ELSE [learned_pool EXCEPT ![Len(learned_pool)] =
                                                      @ \cup {queue[d].reason}]
                   /\ pc' = "walk"
              ELSE /\ an' = [Passed(d) EXCEPT !.rule = queue[d].reason]
                   /\ pc' = "resolve" /\ UNCHANGED learned_pool
  BY WalkReasonStep
<1> DEFINE a == Passed(d)
           id == queue[d].reason
           x == queue[d].literal
           r == rules[id]
<1>2. /\ AnShape(a) /\ AnBounds(a) /\ ReasonOK(d) /\ x \in Literals /\ -x \in Literals
      /\ Follows(CurrentPool, Collected(an)) /\ InAnalysis /\ StackInv
      /\ Len(queue) \in Nat /\ Len(rules) \in Nat
      /\ Conflict(-x) /\ -(-x) = x /\ x \in Int
  BY <1>1, PassedFacts, LastSeenFacts, QueueFacts, RulesFacts, LiteralFacts
  DEF SolverInv, SoundInv, InAnalysis
<1>3. id \in RuleIds /\ r.lits \subseteq Literals /\ RuleOK(r)
  BY ReasonIds DEF SolverInv, RulesInv, RuleOK
<1>4. \A l \in Collected(an) : l = -x \/ l \in Collected(a)
  BY <1>1, PassedCollected
<1>5. ASSUME NEW l \in r.lits, FalseBefore(l, d)
      PROVE  Conflict(l)
  <2>1. PICK j \in 1 .. d - 1 : queue[j].literal = -l
    BY <1>5 DEF FalseBefore
  <2>2. j \in 1 .. Len(queue) /\ l \in Literals
    BY <2>1, <1>2, <1>3
  <2> QED
    BY <2>1, <2>2, <1>2, NegatedDecision
<1> HIDE DEF a
<1>6. CASE ~IsMulti(r)
  <2>1. an' = [a EXCEPT !.rule = id] /\ pc' = "resolve" /\ UNCHANGED learned_pool
    BY <1>1, <1>6 DEF a
  <2>2. /\ an'.rule = id /\ an'.seen = a.seen /\ an'.others = a.others
        /\ an'.learned = a.learned
    BY <2>1, <1>2 DEF AnShape
  <2>3. Collected(an') = Collected(a) /\ CurrentPool' = CurrentPool
    BY <2>1, <2>2 DEF Collected, CurrentPool
  <2>4. Follows(CurrentPool \cup {id}, Collected(a) \cup FalseLiterals(r))
    <3> SUFFICES ASSUME NEW S \in Sets, AllowedByPackages(S),
                        \A q \in CurrentPool \cup {id} : Holds(S, rules[q])
                 PROVE  SatisfiedBy(S, Collected(a) \cup FalseLiterals(r))
      BY DEF Follows
    <3>1. PICK l \in Collected(an) : IF l > 0 THEN l \in S ELSE -l \notin S
      BY <1>2 DEF Follows, SatisfiedBy
    <3>2. CASE l \in Collected(a)
      BY <3>1, <3>2 DEF SatisfiedBy
    <3>3. CASE l = -x
      <4>1. PICK m \in r.lits : IF m > 0 THEN m \in S ELSE -m \notin S
        BY <1>6 DEF Holds
      <4>2. m # x
        <5> SUFFICES ASSUME m = x PROVE FALSE
          OBVIOUS
        <5>1. x # 0
          BY <1>2, RulesFacts, LiteralFacts
        <5>2. CASE x > 0
          <6>1. ~(-x > 0)
            BY <1>2, <5>2
          <6> QED
            BY <6>1, <5>2, <3>1, <3>3, <4>1, <1>2
        <5>3. CASE x < 0
          <6>1. -x > 0 /\ ~(x > 0)
            BY <1>2, <5>3
          <6> QED
            BY <6>1, <3>1, <3>3, <4>1
        <5> QED
          BY <5>1, <5>2, <5>3, <1>2
      <4>3. FalseBefore(m, d)
        BY <4>2, <1>2, <1>6 DEF ReasonOK, Forced
      <4>4. m \in FalseLiterals(r)
        BY <4>3, <1>5 DEF FalseLiterals
      <4> QED
        BY <4>1, <4>4 DEF SatisfiedBy
    <3> QED
      BY <3>2, <3>3, <1>4
  <2> QED
    BY <2>1, <2>2, <2>3, <2>4
<1>7. CASE IsMulti(r)
  <2>1. /\ an' = [Count(a, Taken(d)) EXCEPT !.rule = id] /\ pc' = "walk"
        /\ learned_pool' = IF Taken(d) = {} THEN learned_pool
                           ELSE [learned_pool EXCEPT ![Len(learned_pool)] = @ \cup {id}]
    BY <1>1, <1>7 DEF a
  <2>2. /\ Taken(d) \in SUBSET Literals
        /\ \A l \in Taken(d) : Conflict(l) /\ AbsOf(l) \notin a.seen /\ l \in r.lits
        /\ Taken(d) = {} => \A l \in r.lits : Conflict(l) => AbsOf(l) \in a.seen
    BY <1>2, <1>7, TakenFacts DEF a
  <2>3. LET b == Count(a, Taken(d))
        IN /\ AnShape(b) /\ b.learned = a.learned
           /\ b.seen = a.seen \cup PackagesOf(Taken(d)) /\ a.others \subseteq b.others
    BY <1>2, <2>2, CountFacts DEF AnBounds
  <2>4. /\ an'.seen = a.seen \cup PackagesOf(Taken(d)) /\ a.others \subseteq an'.others
        /\ an'.learned = a.learned
    BY <2>1, <2>3 DEF AnShape
  <2>5. Collected(a) \subseteq Collected(an')
    BY <2>4 DEF Collected
  <2>6. CurrentPool \subseteq CurrentPool'
    <3>1. InAnalysis'
      BY <2>1 DEF InAnalysis
    <3> QED
      BY <3>1, <2>1, <1>2, <1>3, PoolOfStep
\* Another literal of the rule is false, and collected.
  <2>7. PICK m \in r.lits : m # x /\ Conflict(m) /\ m \in Collected(an')
    <3>1. PICK m \in r.lits \ {x} : FalseBefore(m, d)
      BY <1>2, <1>7 DEF ReasonOK, Forced
    <3>2. Conflict(m) /\ m \in Literals
      BY <3>1, <1>3, <1>5
    <3>3. CASE Taken(d) = {}
      <4>1. AbsOf(m) \in an'.seen
        BY <3>1, <3>2, <3>3, <2>2, <2>4
      <4>2. FalseLiteral(AbsOf(m)) = m
        BY <3>2, <1>2, FalseLiteralIs
      <4>3. m \in Collected(an')
        BY <4>1, <4>2 DEF Collected
      <4> QED
        BY <4>3, <3>1, <3>2
    <3>4. CASE Taken(d) # {}
      <4>1. PICK t \in Taken(d) : TRUE
        BY <3>4
      <4>2. t \in r.lits /\ Conflict(t) /\ t \in Literals
        BY <4>1, <2>2
      <4>3. FalseLiteral(AbsOf(t)) = t /\ AbsOf(t) \in an'.seen
        BY <4>1, <4>2, <2>4, <1>2, FalseLiteralIs DEF PackagesOf
      <4>4. t # x
        BY <4>2, <1>2, QueueFacts, StatusFacts
      <4> QED
        BY <4>2, <4>3, <4>4 DEF Collected
    <3> QED
      BY <3>3, <3>4
  <2>8. /\ x < 0 /\ m < 0 /\ m \in Int /\ r.rule_type = "package" /\ x \in r.lits
        /\ -x > 0 /\ ~(m > 0)
    <3>1. x < 0 /\ m < 0 /\ r.rule_type = "package" /\ x \in r.lits
      BY <1>2, <1>3, <1>7, <2>7 DEF RuleOK, ReasonOK, Forced
    <3>2. m \in Int
      BY <1>3, <2>7, RulesFacts, LiteralFacts
    <3> QED
      BY <3>1, <3>2, <1>2
  <2>9. Follows(CurrentPool, Collected(an'))
    <3> SUFFICES ASSUME NEW S \in Sets, AllowedByPackages(S),
                        \A q \in CurrentPool : Holds(S, rules[q])
                 PROVE  SatisfiedBy(S, Collected(an'))
      BY DEF Follows
    <3>1. PICK l \in Collected(an) : IF l > 0 THEN l \in S ELSE -l \notin S
      BY <1>2 DEF Follows, SatisfiedBy
    <3>2. CASE l \in Collected(a)
      BY <3>1, <3>2, <2>5 DEF SatisfiedBy
    <3>3. CASE l = -x
      <4>1. -x \in S
        BY <3>1, <3>3, <2>8
      <4>2. Holds(S, r)
        BY <1>3, <2>8 DEF AllowedByPackages
      <4>3. -m \notin S
        BY <4>1, <4>2, <1>7, <2>7, <2>8 DEF Holds
      <4> QED
        BY <4>3, <2>7, <2>8 DEF SatisfiedBy
    <3> QED
      BY <3>2, <3>3, <1>4
  <2>10. Follows(CurrentPool', Collected(an'))
    BY <2>6, <2>9, FollowsMore
  <2> QED
    BY <2>1, <2>10
<1> QED
  BY <1>6, <1>7

\* Every step of analyze keeps what is collected a consequence of the rules.
LEMMA SoundStep ==
  ASSUME SolverInv, [Next]_vars
  PROVE  SoundInv'
<1>1. CASE ~InAnalysis'
  BY <1>1 DEF SoundInv, InAnalysis
<1>2. CASE InAnalysis' /\ ~UNCHANGED vars
  <2>1. /\ BeginAnalysis \/ Resolve \/ WalkEnd \/ WalkLearn \/ WalkReason
        /\ UNCHANGED <<inst, rules, map, queue>>
    BY <1>2, AnalysisFrames
  <2>2. CASE BeginAnalysis
    BY <2>1, <2>2, BeginAnalysisSound, SoundKeeps DEF BeginAnalysis
  <2>3. CASE Resolve
    BY <2>1, <2>3, ResolveSound, SoundKeeps DEF Resolve
  <2>4. CASE WalkEnd
    BY <2>1, <2>4, WalkEndSound, SoundKeeps DEF WalkEnd
  <2>5. CASE WalkLearn
    <3>1. pc' # "resolve"
      BY <2>5, WalkLearnStep
    <3> QED
      BY <2>1, <2>5, <3>1, WalkLearnSound, SoundKeeps
  <2>6. CASE WalkReason
    <3>1. pc' # "learn"
      BY <2>6, WalkReasonStep
    <3> QED
      BY <2>1, <2>6, <3>1, WalkReasonSound, SoundKeeps
  <2> QED
    BY <2>1, <2>2, <2>3, <2>4, <2>5, <2>6
<1>3. CASE UNCHANGED vars
  <2>1. UNCHANGED <<inst, rules, map, queue, an, pc, learned_pool>>
    BY <1>3 DEF vars
  <2>2. CurrentPool' = CurrentPool /\ SoundInv
    BY <2>1 DEF CurrentPool, SolverInv
  <2> QED
    BY <2>1, <2>2, SoundKeeps DEF SoundInv
<1> QED
  BY <1>1, <1>2, <1>3

-----------------------------------------------------------------------------
(***************************************************************************)
(* The learned rules.                                                      *)
(***************************************************************************)

\* What follows from some rules still does when a rule that is not a package
\* rule is added.
LEMMA FollowsStays ==
  ASSUME Grown, \A id \in RuleIds' : id \in RuleIds \/ rules'[id].rule_type # "package",
         NEW ids \in SUBSET RuleIds, NEW lits, Follows(ids, lits)
  PROVE  Follows(ids, lits)'
<1>1. /\ Sets' = Sets /\ \A id \in RuleIds : rules'[id] = rules[id] /\ id \in RuleIds'
  BY DEF Grown, Sets
<1>2. \A S : AllowedByPackages(S)' => AllowedByPackages(S)
  BY <1>1 DEF AllowedByPackages
<1> QED
  BY <1>1, <1>2 DEF Follows

\* A step adds no package rule.
LEMMA NoPackageRule ==
  ASSUME SolverInv, [Next]_vars, NEW id \in RuleIds', id \notin RuleIds
  PROVE  Learn /\ id = Len(rules) + 1 /\ IsTheLearned(rules'[id]) /\ rules'[id].rule_type # "package"
<1>1. Learn
  BY Frames DEF RuleIds
<1>2. Len(rules') = Len(rules) + 1 /\ IsTheLearned(rules'[Len(rules) + 1]) /\ Len(rules) \in Nat
  BY <1>1, LearnedStored, RulesFacts
<1>3. id = Len(rules) + 1
  BY <1>2 DEF RuleIds
<1> QED
  BY <1>1, <1>2, <1>3 DEF IsTheLearned

\* Every learned rule follows from the rules of its pool.
LEMMA LearnedStep ==
  ASSUME SolverInv, [Next]_vars
  PROVE  LearnedInv'
<1>1. /\ Grown /\ RulesInv' /\ PoolInv'
      /\ \A id \in RuleIds' : id \in RuleIds \/ rules'[id].rule_type # "package"
  BY RulesStep, PoolStep, NoPackageRule
<1>2. /\ Len(learned_pool) \in Nat /\ RuleIds = 1 .. Len(rules) /\ Len(rules) \in Nat
      /\ \A k \in 1 .. Len(learned_pool) : learned_pool[k] \in SUBSET RuleIds
  BY RulesFacts, LenProperties, ElementOfSeq DEF SolverInv, PoolInv
<1>3. ASSUME NEW id \in RuleIds, rules[id].why > 0
      PROVE  /\ learned_pool'[rules[id].why] = learned_pool[rules[id].why]
             /\ learned_pool[rules[id].why] \in SUBSET RuleIds
  <2>1. /\ rules[id].why \in 1 .. Len(learned_pool)
        /\ InAnalysis => rules[id].why \in 1 .. Len(learned_pool) - 1
    BY <1>2, <1>3 DEF SolverInv, PoolInv, RulesInv, RuleOK
  <2>2. learned_pool[rules[id].why] \in SUBSET RuleIds
    BY <1>2, <2>1
  <2>3. CASE UNCHANGED learned_pool
    BY <2>2, <2>3
  <2>4. CASE BeginAnalysis
    <3>1. learned_pool' = Append(learned_pool, {})
      BY <2>4 DEF BeginAnalysis
    <3>2. learned_pool \in Seq(SUBSET RuleIds) /\ {} \in SUBSET RuleIds
      BY DEF SolverInv, PoolInv
    <3>3. learned_pool'[rules[id].why] = learned_pool[rules[id].why]
      BY <3>1, <3>2, <2>1, AppendProperties
    <3> QED
      BY <3>3, <2>2
  <2>5. CASE Resolve \/ WalkReason
    <3>1. InAnalysis /\ InAnalysis'
      BY <2>5, WalkReasonStep, Zenon DEF Resolve, WalkReason, InAnalysis
    <3> QED
      BY <3>1, <2>1, <2>2, PoolOfStep
  <2> QED
    BY <2>3, <2>4, <2>5, Frames
<1>4. ASSUME NEW id \in RuleIds', rules'[id].why > 0,
             NEW ids, ids = learned_pool'[rules'[id].why], NEW lits, lits = rules'[id].lits
      PROVE  Follows(ids, lits)'
  <2>1. CASE id \in RuleIds
    <3>1. rules'[id] = rules[id]
      BY <2>1, <1>1 DEF Grown
    <3>2. ids = learned_pool[rules[id].why] /\ ids \in SUBSET RuleIds /\ lits = rules[id].lits
      BY <2>1, <3>1, <1>3, <1>4
    <3>3. Follows(ids, lits)
      BY <2>1, <3>1, <3>2, <1>4 DEF SolverInv, LearnedInv
    <3> QED
      BY <3>2, <3>3, <1>1, FollowsStays
  <2>2. CASE id \notin RuleIds
    <3>1. Learn /\ IsTheLearned(rules'[id])
      BY <2>2, NoPackageRule
    <3>2. pc = "learn" /\ UNCHANGED learned_pool
      BY <3>1 DEF Learn
    <3>3. Follows(CurrentPool, an.others \cup {an.learned}) /\ learned_pool # <<>>
      BY <3>2 DEF SolverInv, SoundInv, AnInv, InAnalysis
    <3>4. ids = CurrentPool /\ lits = an.others \cup {an.learned}
      BY <3>1, <3>2, <1>4 DEF IsTheLearned, CurrentPool
    <3>5. CurrentPool \in SUBSET RuleIds
      <4>1. Len(learned_pool) \in 1 .. Len(learned_pool)
        BY <1>2, <3>3, EmptySeq DEF SolverInv, PoolInv
      <4> QED
        BY <4>1, <1>2 DEF CurrentPool
    <3> QED
      BY <3>3, <3>4, <3>5, <1>1, FollowsStays
  <2> QED
    BY <2>1, <2>2
<1> QED
  BY <1>4 DEF LearnedInv, Follows

(***************************************************************************)
(* analyze_unsolvable_rule: the recursion over the learned rules.          *)
(***************************************************************************)

BehindOf(f, id) ==
  CASE rules[id].rule_type = "learned" -> UNION {f[k] : k \in learned_pool[rules[id].why]}
    [] rules[id].rule_type = "package" -> {}
    [] OTHER -> {id}

Behinds(f, n) == f = [id \in 1 .. n |-> BehindOf(f, id)]

\* It only looks at earlier rules.
LEMMA BehindEarlier ==
  ASSUME SolverInv, NEW id \in RuleIds, NEW f, NEW g,
         \A k \in 1 .. id - 1 : f[k] = g[k]
  PROVE  BehindOf(f, id) = BehindOf(g, id)
<1>1. CASE rules[id].rule_type = "learned"
  <2>1. rules[id].why > 0
    BY <1>1 DEF SolverInv, RulesInv, RuleOK
  <2>2. learned_pool[rules[id].why] \subseteq 1 .. id - 1
    BY <2>1 DEF SolverInv, PoolInv
  <2>3. {f[k] : k \in learned_pool[rules[id].why]} = {g[k] : k \in learned_pool[rules[id].why]}
    BY <2>2
  <2> QED
    BY <1>1, <2>3 DEF BehindOf
<1>2. CASE rules[id].rule_type # "learned"
  BY <1>2 DEF BehindOf
<1> QED
  BY <1>1, <1>2

\* The recursion over the learned rules is defined up to any rule.
LEMMA BehindExists ==
  ASSUME SolverInv, NEW n \in 0 .. Len(rules)
  PROVE  \E f : Behinds(f, n)
<1>0. Len(rules) \in Nat /\ RuleIds = 1 .. Len(rules)
  BY RulesFacts
<1> DEFINE T == {k \in 0 .. Len(rules) : ~\E f : Behinds(f, k)}
<1> SUFFICES ASSUME T # {} PROVE FALSE
  OBVIOUS
<1>1. PICK k \in T : \A j \in T : k <= j
  <2>1. T \in SUBSET Nat
    BY <1>0
  <2> QED
    BY <2>1, LeastNumber
<1>2. CASE k = 0
  <2> DEFINE g == [id \in 1 .. 0 |-> {}]
  <2>1. g = [id \in 1 .. 0 |-> BehindOf(g, id)]
    OBVIOUS
  <2>2. Behinds(g, 0)
    BY <2>1 DEF Behinds
  <2> QED
    BY <2>2, <1>2
<1>3. CASE k > 0
  <2>1. k - 1 \in 0 .. Len(rules) /\ k - 1 \notin T /\ k \in RuleIds
    BY <1>0, <1>1, <1>3
  <2>2. PICK f : Behinds(f, k - 1)
    BY <2>1
  <2> DEFINE g == [id \in 1 .. k |-> IF id < k THEN f[id] ELSE BehindOf(f, k)]
  <2>3. \A id \in 1 .. k - 1 : g[id] = f[id]
    BY <1>0, <1>3
  <2>4. ASSUME NEW id \in 1 .. k
        PROVE  g[id] = BehindOf(g, id)
    <3>1. id \in RuleIds /\ \A j \in 1 .. id - 1 : g[j] = f[j]
      BY <1>0, <2>1, <2>3
    <3>2. BehindOf(g, id) = BehindOf(f, id)
      <4> HIDE DEF g
      <4> QED
        BY <3>1, BehindEarlier
    <3>3. CASE id = k
      BY <3>2, <3>3
    <3>4. CASE id < k
      <4>1. id \in 1 .. k - 1
        BY <3>4
      <4>2. f[id] = BehindOf(f, id)
        BY <4>1, <2>2 DEF Behinds
      <4> QED
        BY <3>2, <4>1, <4>2, <2>3
    <3> QED
      BY <3>3, <3>4
  <2>5. g = [id \in 1 .. k |-> BehindOf(g, id)]
    <3> DEFINE h == [id \in 1 .. k |-> BehindOf(g, id)]
    <3>1. \A id \in 1 .. k : g[id] = h[id]
      BY <2>4
    <3>2. DOMAIN g = 1 .. k /\ DOMAIN h = 1 .. k
      OBVIOUS
    <3>3. g = [id \in 1 .. k |-> g[id]] /\ h = [id \in 1 .. k |-> h[id]]
      OBVIOUS
    <3> HIDE DEF g, h
    <3>4. g = h
      BY <3>1, <3>3
    <3> QED
      BY <3>4 DEF h
  <2> HIDE DEF g
  <2>6. Behinds(g, k)
    BY <2>5 DEF Behinds
  <2> QED
    BY <2>6
<1> QED
  BY <1>0, <1>1, <1>2, <1>3

\* RequestsBehind satisfies its recursion.
LEMMA BehindIs ==
  ASSUME SolverInv, NEW id \in RuleIds
  PROVE  RequestsBehind(learned_pool)[id] = BehindOf(RequestsBehind(learned_pool), id)
<1>1. DOMAIN rules = 1 .. Len(rules) /\ RuleIds = 1 .. Len(rules) /\ Len(rules) \in 0 .. Len(rules)
  BY RulesFacts
<1> DEFINE f == CHOOSE g : Behinds(g, Len(rules))
<1>2. Behinds(f, Len(rules))
  BY <1>1, BehindExists
<1>3. RequestsBehind(learned_pool) = f
  BY <1>1 DEF RequestsBehind, Behinds, BehindOf
<1> HIDE DEF f
<1>4. f[id] = BehindOf(f, id)
  BY <1>1, <1>2 DEF Behinds
<1> QED
  BY <1>3, <1>4

\* It finds rules that are neither learned nor package rules, and that the rule
\* follows from.
LEMMA BehindSound ==
  ASSUME SolverInv, NEW id \in RuleIds
  PROVE  /\ \A q \in RequestsBehind(learned_pool)[id] :
              q \in RuleIds /\ rules[q].rule_type \notin {"learned", "package"}
         /\ \A S \in Sets :
              /\ AllowedByPackages(S)
              /\ \A q \in RequestsBehind(learned_pool)[id] : Holds(S, rules[q])
              => Holds(S, rules[id])
<1> DEFINE f == RequestsBehind(learned_pool)
           Good(n) == /\ \A q \in f[n] :
                           q \in RuleIds /\ rules[q].rule_type \notin {"learned", "package"}
                      /\ \A S \in Sets :
                           /\ AllowedByPackages(S)
                           /\ \A q \in f[n] : Holds(S, rules[q])
                           => Holds(S, rules[n])
           T == {n \in RuleIds : ~Good(n)}
<1>0. Len(rules) \in Nat /\ RuleIds = 1 .. Len(rules)
  BY RulesFacts
<1> SUFFICES ASSUME T # {} PROVE FALSE
  OBVIOUS
<1>1. PICK n \in T : \A j \in T : n <= j
  <2>1. T \in SUBSET Nat
    BY <1>0
  <2> HIDE DEF T
  <2> QED
    BY <2>1, LeastNumber
<1>2. f[n] = BehindOf(f, n) /\ n \in RuleIds
  BY <1>1, BehindIs
<1> HIDE DEF f
<1>3. CASE rules[n].rule_type = "package"
  <2>1. f[n] = {} /\ \A S : AllowedByPackages(S) => Holds(S, rules[n])
    BY <1>2, <1>3 DEF BehindOf, AllowedByPackages
  <2> QED
    BY <2>1, <1>1
<1>4. CASE rules[n].rule_type \notin {"learned", "package"}
  <2>1. f[n] = {n}
    BY <1>2, <1>4 DEF BehindOf
  <2> QED
    BY <2>1, <1>1, <1>4
<1>5. CASE rules[n].rule_type = "learned"
  <2> DEFINE pool == learned_pool[rules[n].why]
  <2>1. /\ rules[n].why > 0 /\ ~IsMulti(rules[n])
        /\ pool \subseteq 1 .. n - 1 /\ Follows(pool, rules[n].lits)
    <3>1. rules[n].why > 0 /\ RuleOK(rules[n])
      BY <1>2, <1>5 DEF SolverInv, RulesInv, RuleOK
    <3>2. ~IsMulti(rules[n])
      BY <3>1 DEF RuleOK
    <3> QED
      BY <3>1, <3>2, <1>2 DEF SolverInv, PoolInv, LearnedInv
  <2>2. f[n] = UNION {f[k] : k \in pool}
    BY <1>2, <1>5 DEF BehindOf
  <2> HIDE DEF pool
  <2>3. \A k \in pool : k \in RuleIds /\ Good(k)
    <3> SUFFICES ASSUME NEW k \in pool PROVE k \in RuleIds /\ Good(k)
      OBVIOUS
    <3>1. k \in RuleIds /\ ~(n <= k)
      BY <2>1, <1>0, <1>2
    <3>2. k \notin T
      BY <3>1, <1>1
    <3> QED
      BY <3>1, <3>2
  <2>4. \A q \in f[n] : q \in RuleIds /\ rules[q].rule_type \notin {"learned", "package"}
    BY <2>2, <2>3
  <2>5. ASSUME NEW S \in Sets, AllowedByPackages(S), \A q \in f[n] : Holds(S, rules[q])
        PROVE  Holds(S, rules[n])
    <3>1. \A k \in pool : Holds(S, rules[k])
      BY <2>2, <2>3, <2>5
    <3>2. SatisfiedBy(S, rules[n].lits)
      BY <2>1, <2>5, <3>1 DEF Follows
    <3> QED
      BY <3>2, <2>1 DEF Holds, SatisfiedBy
  <2> QED
    BY <2>4, <2>5, <1>1
<1> QED
  BY <1>3, <1>4, <1>5

-----------------------------------------------------------------------------
(***************************************************************************)
(* The problems: what they name cannot be satisfied.                       *)
(***************************************************************************)

\* What analyze_unsolvable looks for, from decision n on; conflict is the rule
\* it starts from.
Seeks(f, conflict, n) ==
  \A k \in n .. Len(queue) :
    f[k] = IF k = Len(queue) THEN FalseIn(conflict)
           ELSE IF AbsOf(queue[k + 1].literal) \in f[k + 1]
                THEN f[k + 1] \cup FalseIn(queue[k + 1].reason)
                ELSE f[k + 1]

\* The position after one that is not the last.
LEMMA AboveThis ==
  ASSUME NEW n \in Nat, NEW k \in 0 .. n, k # n
  PROVE  k + 1 \in 0 .. n
OBVIOUS

\* The search over the stack is defined at every position.
LEMMA SeeksExists ==
  ASSUME Len(queue) \in Nat, NEW conflict
  PROVE  \E f : Seeks(f, conflict, 0) /\ DOMAIN f = 0 .. Len(queue)
<1> DEFINE len == Len(queue)
           T == {m \in 0 .. len : ~\E f : Seeks(f, conflict, len - m) /\ DOMAIN f = len - m .. len}
<1> SUFFICES T = {}
  <2>1. len \in 0 .. len /\ len - len = 0
    OBVIOUS
  <2> HIDE DEF len
  <2> QED
    BY <2>1 DEF len
<1> SUFFICES ASSUME T # {} PROVE FALSE
  OBVIOUS
<1>1. PICK m \in T : \A j \in T : m <= j
  <2>1. T \in SUBSET Nat
    OBVIOUS
  <2> HIDE DEF T
  <2> QED
    BY <2>1, LeastNumber
<1>2. CASE m = 0
  <2> DEFINE g == [k \in len .. len |-> FalseIn(conflict)]
  <2>1. Seeks(g, conflict, len) /\ DOMAIN g = len .. len
    BY DEF Seeks
  <2>2. len - m = len
    BY <1>2
  <2> HIDE DEF g
  <2> QED
    BY <2>1, <2>2
<1>3. CASE m > 0
  <2> DEFINE n == len - m
  <2>1. /\ m - 1 \in 0 .. len /\ m - 1 \notin T
        /\ n \in Nat /\ len - (m - 1) = n + 1 /\ n < len /\ len \in Nat
    BY <1>1, <1>3
  <2>2. PICK f : Seeks(f, conflict, n + 1) /\ DOMAIN f = n + 1 .. len
    BY <2>1
  <2> HIDE DEF n
  <2> DEFINE top == IF AbsOf(queue[n + 1].literal) \in f[n + 1]
                    THEN f[n + 1] \cup FalseIn(queue[n + 1].reason)
                    ELSE f[n + 1]
             g == [k \in n .. len |-> IF k = n THEN top ELSE f[k]]
  <2>3. /\ \A k \in n + 1 .. len : g[k] = f[k] /\ k \in n .. len
        /\ g[n] = top /\ DOMAIN g = n .. len
    BY <2>1
  <2> HIDE DEF g
  <2>4. ASSUME NEW k \in n .. len
        PROVE  g[k] = IF k = len THEN FalseIn(conflict)
                      ELSE IF AbsOf(queue[k + 1].literal) \in g[k + 1]
                           THEN g[k + 1] \cup FalseIn(queue[k + 1].reason)
                           ELSE g[k + 1]
    <3>1. CASE k = n
      <4>1. n # len /\ g[n + 1] = f[n + 1]
        BY <2>1, <2>3
      <4> QED
        BY <3>1, <4>1, <2>3
    <3>2. CASE k # n
      <4>1. k \in n + 1 .. len /\ (k # len => k + 1 \in n + 1 .. len)
        BY <3>2, <2>1
      <4>2. f[k] = IF k = len THEN FalseIn(conflict)
                   ELSE IF AbsOf(queue[k + 1].literal) \in f[k + 1]
                        THEN f[k + 1] \cup FalseIn(queue[k + 1].reason)
                        ELSE f[k + 1]
        BY <4>1, <2>2 DEF Seeks
      <4> QED
        BY <4>1, <4>2, <2>3
    <3> QED
      BY <3>1, <3>2
  <2>5. Seeks(g, conflict, n) /\ DOMAIN g = n .. len
    BY <2>3, <2>4 DEF Seeks
  <2> QED
    BY <2>5, <1>1 DEF n
<1> QED
  BY <1>1, <1>2, <1>3

\* What is looked for grows on the way down.
LEMMA SeeksGrows ==
  ASSUME Len(queue) \in Nat, NEW conflict, NEW f, Seeks(f, conflict, 0),
         NEW j \in 0 .. Len(queue), NEW i \in 0 .. j
  PROVE  f[j] \subseteq f[i]
<1> DEFINE T == {m \in 0 .. j : ~(f[j] \subseteq f[j - m])}
<1> SUFFICES T = {}
  <2>1. j - i \in 0 .. j /\ j - (j - i) = i
    OBVIOUS
  <2> QED
    BY <2>1
<1> SUFFICES ASSUME T # {} PROVE FALSE
  OBVIOUS
<1>1. PICK m \in T : \A k \in T : m <= k
  <2>1. T \in SUBSET Nat
    OBVIOUS
  <2> HIDE DEF T
  <2> QED
    BY <2>1, LeastNumber
<1>2. m # 0
  <2>1. j - 0 = j
    OBVIOUS
  <2> QED
    BY <2>1, <1>1
<1>3. /\ m - 1 \in 0 .. j /\ m - 1 \notin T
      /\ j - m \in 0 .. Len(queue) /\ j - m # Len(queue) /\ j - (m - 1) = (j - m) + 1
  BY <1>1, <1>2
<1>4. f[j] \subseteq f[(j - m) + 1]
  BY <1>3
<1>5. f[(j - m) + 1] \subseteq f[j - m]
  BY <1>3 DEF Seeks
<1> QED
  BY <1>1, <1>4, <1>5

\* Decision k does not hold in S.
Wrong(S, k) == IF queue[k].literal > 0 THEN queue[k].literal \notin S ELSE -queue[k].literal \in S

\* A false literal that S satisfies is the negation of a decision that is wrong.
LEMMA WrongDecision ==
  ASSUME StackInv, NEW S, NEW l \in Literals, NEW k \in 1 .. Len(queue),
         queue[k].literal = -l
  PROVE  (IF l > 0 THEN l \in S ELSE -l \notin S) => Wrong(S, k)
<1>1. l \in Int /\ l # 0 /\ -(-l) = l
  BY LiteralFacts DEF StackInv
<1>2. CASE l > 0
  <2>1. ~(-l > 0)
    BY <1>1, <1>2
  <2> QED
    BY <1>1, <1>2, <2>1 DEF Wrong
<1>3. CASE l < 0
  <2>1. -l > 0 /\ ~(l > 0)
    BY <1>1, <1>3
  <2> QED
    BY <2>1 DEF Wrong
<1> QED
  BY <1>1, <1>2, <1>3

\* If the reason of a wrong decision holds, an earlier decision that the
\* reason looks at is wrong.
LEMMA EarlierWrong ==
  ASSUME SolverInv, NEW k \in 1 .. Len(queue), ReasonOK(k), NEW S, Wrong(S, k),
         Holds(S, rules[queue[k].reason])
  PROVE  \E j \in 1 .. k - 1 : /\ Wrong(S, j)
                               /\ AbsOf(queue[j].literal) \in FalseIn(queue[k].reason)
<1> DEFINE x == queue[k].literal
           r == rules[queue[k].reason]
<1>1. /\ StackInv /\ inst.size \in Nat /\ Len(queue) \in Nat /\ x \in Literals
      /\ RuleOK(r) /\ r.lits \subseteq Literals
  BY QueueFacts, ReasonIds DEF SolverInv, StackInv, RulesInv, RuleOK
<1>2. x \in Int /\ x # 0
  BY <1>1, LiteralFacts
<1>3. \E m \in r.lits : m # x /\ FalseBefore(m, k) /\ IF m > 0 THEN m \in S ELSE -m \notin S
  <2>1. CASE ~IsMulti(r)
    <3>1. PICK m \in r.lits : IF m > 0 THEN m \in S ELSE -m \notin S
      BY <2>1 DEF Holds
    <3>2. m # x
      BY <3>1 DEF Wrong
    <3> QED
      BY <3>1, <3>2, <2>1 DEF ReasonOK, Forced
  <2>2. CASE IsMulti(r)
    <3>1. PICK m \in r.lits \ {x} : FalseBefore(m, k)
      BY <2>2 DEF ReasonOK, Forced
    <3>2. x \in r.lits /\ x < 0 /\ m < 0 /\ m \in Int
      BY <1>1, <2>2, <3>1, LiteralFacts DEF ReasonOK, Forced, RuleOK
    <3>3. ~(x > 0) /\ ~(m > 0)
      BY <1>2, <3>2
    <3>4. -m \notin S
      BY <2>2, <3>1, <3>2, <3>3 DEF Holds, Wrong
    <3> QED
      BY <3>1, <3>3, <3>4
  <2> QED
    BY <2>1, <2>2
<1>4. PICK m \in r.lits : /\ m # x /\ FalseBefore(m, k)
                          /\ IF m > 0 THEN m \in S ELSE -m \notin S
  BY <1>3
<1>5. PICK j \in 1 .. k - 1 : queue[j].literal = -m
  BY <1>4 DEF FalseBefore
<1>6. j \in 1 .. Len(queue) /\ m \in Literals
  BY <1>1, <1>4, <1>5
<1>7. Wrong(S, j)
  BY <1>1, <1>4, <1>5, <1>6, WrongDecision
<1>8. ~Satisfy(m)
  BY <1>1, <1>5, <1>6, NegatedDecision, StatusFacts
<1>9. AbsOf(queue[j].literal) = AbsOf(m)
  BY <1>1, <1>5, <1>6, LiteralFacts
<1> QED
  BY <1>4, <1>7, <1>8, <1>9 DEF FalseIn, PackagesOf

\* The problem of a conflict at level 1.
LEMMA UnsolvableReal ==
  ASSUME SolverInv, Unsolvable
  PROVE  LET problem == UnsolvableProblem(an.rule)
         IN problem.rules \subseteq RuleIds /\ Unsatisfiable(problem)
<1>1. /\ pc = "conflict" /\ level = 1 /\ an.rule \in RuleIds /\ Conflicting(rules[an.rule])
  BY DEF Unsolvable, SolverInv, ConflictInv
<1>2. /\ StackInv /\ Len(queue) \in Nat /\ DOMAIN queue = 1 .. Len(queue)
  BY QueueFacts DEF SolverInv
<1>3. \A k \in 1 .. Len(queue) : ReasonOK(k) /\ queue[k].reason \in RuleIds
  <2> SUFFICES ASSUME NEW k \in 1 .. Len(queue)
               PROVE  ReasonOK(k) /\ queue[k].reason \in RuleIds
    OBVIOUS
  <2>1. LevelAt(k) = 1
    BY <1>1, <1>2, QueueFacts
  <2>2. ~IsChoice(k)
    BY <2>1 DEF IsChoice
  <2> QED
    BY <2>2, <1>2, ReasonIds DEF SolverInv, ReasonInv
<1> DEFINE Looks(g) == g = [k \in 0 .. Len(queue) |->
                        IF k = Len(queue) THEN FalseIn(an.rule)
                        ELSE IF AbsOf(queue[k + 1].literal) \in g[k + 1]
                             THEN g[k + 1] \cup FalseIn(queue[k + 1].reason)
                             ELSE g[k + 1]]
           seen == CHOOSE g : Looks(g)
           whys == {queue[k].reason : k \in {j \in DOMAIN queue :
                                               AbsOf(queue[j].literal) \in seen[j]}}
           behind == RequestsBehind(learned_pool)
           blamed == {an.rule} \cup whys
           named == blamed \cup UNION {behind[id] : id \in blamed}
<1>4. \E g : Looks(g)
  <2>1. PICK f : Seeks(f, an.rule, 0) /\ DOMAIN f = 0 .. Len(queue)
    BY <1>2, SeeksExists
  <2> DEFINE g == [k \in 0 .. Len(queue) |-> f[k]]
  <2>2. \A k \in 0 .. Len(queue) :
          g[k] = IF k = Len(queue) THEN FalseIn(an.rule)
                 ELSE IF AbsOf(queue[k + 1].literal) \in g[k + 1]
                      THEN g[k + 1] \cup FalseIn(queue[k + 1].reason)
                      ELSE g[k + 1]
    <3>1. \A k \in 0 .. Len(queue) : k # Len(queue) => k + 1 \in 0 .. Len(queue)
      BY <1>2, AboveThis, Zenon
    <3> QED
      BY <2>1, <3>1 DEF Seeks
  <2>3. g = [k \in 0 .. Len(queue) |-> g[k]]
    OBVIOUS
  <2> HIDE DEF g
  <2>4. Looks(g)
    BY <2>2, <2>3
  <2> QED
    BY <2>4
<1>5. Looks(seen)
  BY <1>4, Zenon
<1>6. UnsolvableProblem(an.rule) = ProblemOf(named)
  BY DEF UnsolvableProblem
<1> HIDE DEF seen
<1>7. Seeks(seen, an.rule, 0)
  BY <1>5 DEF Seeks
<1> HIDE DEF Looks, behind
<1>8. blamed \subseteq RuleIds
  BY <1>1, <1>2, <1>3
<1>9. \A id \in RuleIds : /\ \A q \in behind[id] : /\ q \in RuleIds
                                                   /\ rules[q].rule_type \notin {"learned", "package"}
                          /\ \A S \in Sets : /\ AllowedByPackages(S)
                                             /\ \A q \in behind[id] : Holds(S, rules[q])
                                             => Holds(S, rules[id])
  BY BehindSound DEF behind
<1> HIDE DEF blamed, whys
<1>10. named \subseteq RuleIds
  BY <1>8, <1>9
<1>11. ASSUME NEW S \in Sets, AllowedByPackages(S),
              \A id \in named : rules[id].rule_type # "learned" => Holds(S, rules[id])
       PROVE  FALSE
  <2>1. ASSUME NEW id \in blamed
        PROVE  Holds(S, rules[id])
    <3>1. \A q \in behind[id] : q \in named /\ rules[q].rule_type # "learned"
      BY <2>1, <1>8, <1>9
    <3> HIDE DEF named
    <3>2. \A q \in behind[id] : Holds(S, rules[q])
      BY <3>1, <1>11
    <3> QED
      BY <2>1, <3>2, <1>8, <1>9, <1>11
  <2> DEFINE T == {k \in 1 .. Len(queue) : AbsOf(queue[k].literal) \in seen[k] /\ Wrong(S, k)}
  <2>2. T # {}
    <3>1. Holds(S, rules[an.rule]) /\ RuleOK(rules[an.rule])
      BY <2>1, <1>1 DEF blamed, SolverInv, RulesInv
    <3>2. SatisfiedBy(S, FalseLiterals(rules[an.rule]))
      <4>1. Follows({an.rule}, FalseLiterals(rules[an.rule]))
        BY <1>1, ConflictFollows
      <4> QED
        BY <3>1, <4>1, <1>11 DEF Follows
    <3>3. PICK l \in FalseLiterals(rules[an.rule]) : IF l > 0 THEN l \in S ELSE -l \notin S
      BY <3>2 DEF SatisfiedBy
    <3>4. l \in rules[an.rule].lits /\ Conflict(l) /\ l \in Literals
      BY <3>1, <3>3 DEF FalseLiterals, RuleOK
    <3>5. PICK k \in 1 .. Len(queue) : queue[k].literal = -l
      BY <3>4, <1>2, FalseIsDecided
    <3>6. Wrong(S, k)
      BY <3>3, <3>4, <3>5, <1>2, WrongDecision
    <3>7. AbsOf(queue[k].literal) \in FalseIn(an.rule)
      <4>1. ~Satisfy(l) /\ AbsOf(queue[k].literal) = AbsOf(l)
        BY <3>4, <3>5, <1>2, StatusFacts, LiteralFacts DEF StackInv
      <4> QED
        BY <3>4, <4>1 DEF FalseIn, PackagesOf
    <3>8. seen[Len(queue)] = FalseIn(an.rule) /\ seen[Len(queue)] \subseteq seen[k]
      <4>1. Len(queue) \in 0 .. Len(queue) /\ k \in 0 .. Len(queue)
        BY <1>2
      <4>2. seen[Len(queue)] \subseteq seen[k]
        BY <4>1, <1>2, <1>7, SeeksGrows
      <4> QED
        BY <4>1, <4>2, <1>7 DEF Seeks
    <3> QED
      BY <3>6, <3>7, <3>8
  <2>3. PICK k \in T : \A j \in T : k <= j
    <3>1. T \in SUBSET Nat
      BY <1>2
    <3> HIDE DEF T
    <3> QED
      BY <2>2, <3>1, LeastNumber
  <2>4. k \in 1 .. Len(queue) /\ AbsOf(queue[k].literal) \in seen[k] /\ Wrong(S, k)
    BY <2>3
  <2>5. Holds(S, rules[queue[k].reason])
    <3>1. queue[k].reason \in blamed
      BY <2>4, <1>2 DEF blamed, whys
    <3> QED
      BY <3>1, <2>1
  <2>6. PICK j \in 1 .. k - 1 : /\ Wrong(S, j)
                                /\ AbsOf(queue[j].literal) \in FalseIn(queue[k].reason)
    BY <2>4, <2>5, <1>3, EarlierWrong
  <2>7. seen[k - 1] = seen[k] \cup FalseIn(queue[k].reason)
    <3>1. k - 1 \in 0 .. Len(queue) /\ k - 1 # Len(queue) /\ (k - 1) + 1 = k
      BY <2>4, <1>2
    <3>2. seen[k - 1] = IF AbsOf(queue[(k - 1) + 1].literal) \in seen[(k - 1) + 1]
                        THEN seen[(k - 1) + 1] \cup FalseIn(queue[(k - 1) + 1].reason)
                        ELSE seen[(k - 1) + 1]
      BY <3>1, <1>7 DEF Seeks
    <3> QED
      BY <3>1, <3>2, <2>4
  <2>8. seen[k - 1] \subseteq seen[j]
    <3>1. k - 1 \in 0 .. Len(queue) /\ j \in 0 .. k - 1
      BY <2>4, <2>6, <1>2
    <3> QED
      BY <3>1, <1>2, <1>7, SeeksGrows
  <2>9. j \in T /\ ~(k <= j)
    BY <2>4, <2>6, <2>7, <2>8, <1>2
  <2> QED
    BY <2>3, <2>9
<1>12. ProblemOf(named).rules = named
  BY DEF ProblemOf
<1> HIDE DEF named
<1> QED
  BY <1>6, <1>10, <1>11, <1>12 DEF Unsatisfiable

-----------------------------------------------------------------------------
(***************************************************************************)
(* The pass over the assertions.                                           *)
(***************************************************************************)

\* Only the steps of the pass are taken during the pass, and it is not begun again.
LEMMA PassSteps ==
  ASSUME [Next]_vars
  PROVE  /\ pc = "assertions" =>
              AssertSkip \/ AssertDecide \/ AssertConflict \/ AssertionsDone \/ UNCHANGED vars
         /\ pc' = "assertions" =>
              AssertSkip \/ AssertDecide \/ AssertConflict \/ (pc = "assertions" /\ UNCHANGED vars)
<1> USE DEF Asserting, Visiting, Propagating, Requesting, Sweeping, RequestsOrSweep, SweepFrom,
            SelectAndInstall, SetPropagateLearn
<1>1. CASE AssertSkip \/ AssertDecide \/ AssertConflict
  BY <1>1 DEF AssertSkip, AssertDecide, AssertConflict
<1>2. CASE AssertionsDone \/ RunSat
  BY <1>2 DEF AssertionsDone, RunSat
<1>3. CASE VisitSettled \/ VisitMoveWatch \/ VisitImply \/ VisitConflict \/ NextDecision
  BY <1>3 DEF VisitSettled, VisitMoveWatch, VisitImply, VisitConflict, NextDecision
<1>4. CASE Propagated \/ Unsolvable \/ BeginAnalysis \/ Resolve
  BY <1>4 DEF Propagated, Unsolvable, BeginAnalysis, Resolve
<1>5. CASE WalkEnd \/ WalkLearn \/ WalkReason \/ Learn
  BY <1>5, Zenon DEF WalkEnd, WalkLearn, WalkReason, Learn
<1>6. CASE SkipRequest \/ InstallRequest \/ RequestsDone \/ SkipRule \/ InstallProvider \/ Swept
  BY <1>6 DEF SkipRequest, InstallRequest, RequestsDone, SkipRule, InstallProvider, Swept
<1>7. CASE BranchesDone \/ Terminated
  BY <1>7 DEF BranchesDone, Terminated, vars
<1>9. CASE RetryBranch
  <2>1. pc = "branches" /\ pc' = "propagate"
    BY <1>9 DEF RetryBranch
  <2> QED
    BY <2>1
<1>8. CASE UNCHANGED vars
  BY <1>8 DEF vars
<1> QED
  BY <1>1, <1>2, <1>3, <1>4, <1>5, <1>6, <1>7, <1>8, <1>9 DEF Next

\* The rules of the pass are those that were generated.
LEMMA GeneratedRules ==
  ASSUME SolverInv, pc = "assertions", NEW id \in RuleIds
  PROVE  Generated(rules[id], inst.size)
<1>1. inst \in Instances /\ rules = inst.rules /\ id \in DOMAIN rules
  BY RulesFacts DEF SolverInv, AssertInv
<1> QED
  BY <1>1, InstancesAssumption

\* The rule that an assertion contradicts is the opposite assertion; when it is
\* a request the assertion itself is not.
LEMMA Contradicted ==
  ASSUME SolverInv, Asserting, IsOpenAssertion, Conflict(AssertionLiteral)
  PROVE  LET conflict == DecisionRule(AssertionLiteral)
         IN /\ conflict \in RuleIds /\ conflict # AssertionId /\ conflict \notin disabled
            /\ conflict \in Range(rule_by_id)
            /\ rules[conflict].lits = {-AssertionLiteral} /\ rules[conflict].kind = "generic"
            /\ rules[conflict].rule_type = "package"
               \/ rules[AssertionId].rule_type # "request"
<1> DEFINE l == AssertionLiteral
           conflict == DecisionRule(l)
<1>1. /\ StackInv /\ pc = "assertions" /\ l \in Literals /\ rules[AssertionId].lits = {l}
      /\ inst.size \in Nat /\ Len(queue) \in Nat /\ DOMAIN queue = 1 .. Len(queue)
      /\ AssertionId \in RuleIds
  BY AssertionIs, AssertionInRange, QueueFacts DEF SolverInv, StackInv, Asserting
<1> HIDE DEF l
<1>2. PICK k \in 1 .. Len(queue) : queue[k].literal = -l
  BY <1>1, FalseIsDecided DEF l
<1>3. l \in Int /\ l # 0 /\ AbsOf(queue[k].literal) = AbsOf(l)
  BY <1>1, <1>2, LiteralFacts
<1>4. conflict = queue[k].reason
  <2> DEFINE IsTheFirst(f) == /\ f \in DOMAIN queue /\ AbsOf(queue[f].literal) = AbsOf(l)
                           /\ \A j \in 1 .. f - 1 : AbsOf(queue[j].literal) # AbsOf(l)
  <2>1. \A f \in 1 .. Len(queue) : AbsOf(queue[f].literal) = AbsOf(l) => f = k
    BY <1>1, <1>3, QueueFacts
  <2>2. \A j \in 1 .. k - 1 : j \in 1 .. Len(queue) /\ j # k
    BY <1>1
  <2>3. IsTheFirst(k)
    BY <1>1, <1>3, <2>1, <2>2
  <2>4. (CHOOSE f : IsTheFirst(f)) = k
    BY <2>1, <2>3, <1>1
  <2> QED
    BY <2>4 DEF DecisionRule
<1>5. Asserted(k) /\ queue[k].reason \in RuleIds
  BY <1>1, ReasonIds DEF SolverInv, AssertInv
<1>6. rules[conflict].lits = {-l} /\ -l # l
  BY <1>2, <1>3, <1>4, <1>5 DEF Asserted
<1>7. rules[conflict].rule_type = "package" \/ rules[AssertionId].rule_type # "request"
  <2> SUFFICES ASSUME rules[conflict].rule_type # "package",
                      rules[AssertionId].rule_type = "request"
               PROVE  FALSE
    OBVIOUS
  <2>1. Generated(rules[conflict], inst.size) /\ Generated(rules[AssertionId], inst.size)
    BY <1>1, <1>4, <1>5, GeneratedRules
  <2>2. rules[conflict].rule_type # "none"
    BY <1>4, <1>5, RulesFacts DEF Asserted, Range
  <2>3. rules[conflict].rule_type = "request"
    BY <2>1, <2>2 DEF Generated
  <2>4. -l > 0 /\ l > 0
    BY <2>1, <2>3, <1>1, <1>6 DEF Generated
  <2> QED
    BY <2>4, <1>3
<1> QED
  BY <1>1, <1>4, <1>5, <1>6, <1>7 DEF Asserted, l

\* What AssertInv says of the pass, from what it says of the lists.
LEMMA PassGoesOn ==
  ASSUME SolverInv, pc = "assertions", Grown,
         UNCHANGED <<rules, rule_by_id, level, branches, learned_pool, propagate_index, pc>>,
         \A k \in DOMAIN queue' : Asserted(k)',
         \A i \in DOMAIN rule_by_id : i < run'.rule_index /\ EnabledAssertion(i)' =>
            \E l \in rules[rule_by_id[i]].lits : Satisfy(l)',
         \E i \in DOMAIN rule_by_id : EnabledAssertion(i)'
  PROVE  AssertInv'
BY DEF AssertInv, SolverInv, Grown

\* Skipping a rule leaves the assertions before it satisfied or disabled.
LEMMA AssertSkipKeeps ==
  ASSUME SolverInv, Grown, AssertSkip
  PROVE  AssertInv'
<1>1. /\ UNCHANGED <<rules, rule_by_id, disabled, map, queue, level, branches, learned_pool,
                     propagate_index, pc>>
      /\ pc = "assertions" /\ Asserting /\ AssertInv
      /\ run' = [run EXCEPT !.rule_index = @ + 1]
  BY DEF AssertSkip, Asserting, NextAssertion, ruleVars, decisionVars, searchVars, SolverInv
<1>2. run'.rule_index = run.rule_index + 1 /\ run.rule_index \in Nat
  BY <1>1 DEF SolverInv, RunInv, RunTyped
<1>3. \A i : EnabledAssertion(i)' <=> EnabledAssertion(i)
  BY <1>1 DEF EnabledAssertion
<1>4. \A l : Satisfy(l)' <=> Satisfy(l)
  BY <1>1 DEF Satisfy, Entry
<1>5. ASSUME NEW i \in DOMAIN rule_by_id, i < run'.rule_index, EnabledAssertion(i)
      PROVE  \E l \in rules[rule_by_id[i]].lits : Satisfy(l)
  <2>1. CASE i < run.rule_index
    BY <2>1, <1>1, <1>5 DEF AssertInv
  <2>2. CASE i = run.rule_index
    <3>1. IsOpenAssertion /\ rule_by_id[i] = AssertionId
      BY <2>2, <1>5 DEF EnabledAssertion, IsOpenAssertion, AssertionId
    <3>2. Satisfy(AssertionLiteral) /\ AssertionLiteral \in rules[AssertionId].lits
      BY <3>1, <1>1, AssertionIs DEF AssertSkip
    <3> QED
      BY <3>1, <3>2
  <2> QED
    BY <2>1, <2>2, <1>2, <1>5, RulesFacts
<1>6. \A k \in DOMAIN queue' : Asserted(k)'
  BY <1>1 DEF AssertInv, Asserted
<1>7. \E i \in DOMAIN rule_by_id : EnabledAssertion(i)'
  BY <1>1, <1>3 DEF AssertInv
<1> QED
  BY <1>1, <1>3, <1>4, <1>5, <1>6, <1>7, PassGoesOn

\* An assertion decided is satisfied.
LEMMA AssertDecideKeeps ==
  ASSUME SolverInv, StackInv', Grown, AssertDecide
  PROVE  AssertInv'
<1>1. /\ UNCHANGED <<rules, rule_by_id, disabled, level, branches, learned_pool,
                     propagate_index, pc>>
      /\ pc = "assertions" /\ Asserting /\ AssertInv /\ IsOpenAssertion
      /\ run' = [run EXCEPT !.rule_index = @ + 1]
      /\ UNCHANGED inst
  BY DEF AssertDecide, Asserting, NextAssertion, ruleVars, searchVars, SolverInv
<1>2. run'.rule_index = run.rule_index + 1 /\ run.rule_index \in Nat
  BY <1>1 DEF SolverInv, RunInv, RunTyped
<1>3. \A i : EnabledAssertion(i)' <=> EnabledAssertion(i)
  BY <1>1 DEF EnabledAssertion
<1>4. PICK l \in Literals, id \in RuleIds :
        /\ Becomes(Len(queue), level, l, level, id)
        /\ id = AssertionId /\ rules[id].lits = {l} /\ rules[id].kind = "generic"
        /\ id \in Range(rule_by_id) /\ id \notin disabled
  BY <1>1, AssertDecideStep, AssertionIs, AssertionInRange DEF IsOpenAssertion, IsAssertion
<1>5. StackInv /\ Len(queue) \in Nat /\ DOMAIN queue = 1 .. Len(queue)
  BY QueueFacts DEF SolverInv
<1>6. /\ DOMAIN queue' = 1 .. Len(queue) + 1
      /\ \A k \in 1 .. Len(queue) : queue'[k] = queue[k]
      /\ queue'[Len(queue) + 1] = [literal |-> l, reason |-> id]
  BY <1>4 DEF Becomes
<1>7. ASSUME NEW k \in DOMAIN queue'
      PROVE  Asserted(k)'
  <2>1. CASE k \in 1 .. Len(queue)
    BY <2>1, <1>1, <1>5, <1>6 DEF AssertInv, Asserted
  <2>2. CASE k = Len(queue) + 1
    BY <2>2, <1>1, <1>4, <1>6 DEF Asserted
  <2> QED
    BY <2>1, <2>2, <1>5, <1>6
<1>8. Satisfy(l)'
  <2>1. Len(queue) + 1 \in DOMAIN queue'
    BY <1>5, <1>6
  <2>2. DecisionsAgree'
    BY DEF StackInv, Agree, DecisionsAgree, Satisfy, Entry, Packages
  <2>3. \A k \in DOMAIN queue' : Satisfy(queue[k].literal)'
    BY <2>2 DEF DecisionsAgree
  <2>4. (queue'[Len(queue) + 1]).literal = l
    BY <1>6
  <2> QED
    BY <2>1, <2>3, <2>4 DEF Satisfy, Entry
<1>9. ASSUME NEW i \in DOMAIN rule_by_id, i < run'.rule_index, EnabledAssertion(i)
      PROVE  \E m \in rules[rule_by_id[i]].lits : Satisfy(m)'
  <2>1. CASE i < run.rule_index
    <3>1. PICK m \in rules[rule_by_id[i]].lits : Satisfy(m)
      BY <2>1, <1>1, <1>9 DEF AssertInv
    <3>2. rule_by_id[i] \in RuleIds
      BY RulesFacts
    <3>3. m \in Literals
      BY <3>1, <3>2 DEF SolverInv, RulesInv, RuleOK
    <3>4. ~Undecided(m) /\ DecisionLevel(m) <= level
      <4>1. PICK k \in 1 .. Len(queue) : LevelAt(k) = DecisionLevel(m)
        BY <3>1, <3>3, <1>5, SatisfiedIsDecided
      <4> QED
        BY <3>1, <3>3, <4>1, <1>5, StatusFacts, QueueFacts
    <3>5. Satisfy(m)'
      BY <3>1, <3>3, <3>4, <1>1, <1>4, KeptStatus
    <3> QED
      BY <3>1, <3>5
  <2>2. CASE i = run.rule_index
    <3>1. rule_by_id[i] = id
      BY <2>2, <1>4 DEF AssertionId
    <3> QED
      BY <3>1, <1>4, <1>8
  <2> QED
    BY <2>1, <2>2, <1>2, <1>9, RulesFacts
<1>10. \E i \in DOMAIN rule_by_id : EnabledAssertion(i)'
  BY <1>1, <1>3 DEF AssertInv
<1> QED
  BY <1>1, <1>3, <1>7, <1>9, <1>10, PassGoesOn

\* A conflict disables the rules it blames; of requests it empties the stack and starts
\* the pass again; the assertion of the root package is left.
LEMMA AssertConflictAsserts ==
  ASSUME SolverInv, StackInv', Grown, AssertConflict
  PROVE  AssertInv'
<1> DEFINE l == AssertionLiteral
           conflict == DecisionRule(l)
           byPackage == rules[conflict].rule_type = "package"
           withdrawn == IF byPackage THEN {AssertionId} ELSE RequestsOn(l)
<1>1. /\ UNCHANGED <<rules, rule_by_id, level, branches, learned_pool, propagate_index, pc>>
      /\ pc = "assertions" /\ Asserting /\ AssertInv /\ IsOpenAssertion /\ Conflict(l)
      /\ disabled' = disabled \cup withdrawn
      /\ IF byPackage
         THEN /\ UNCHANGED <<map, queue>> /\ run' = [run EXCEPT !.rule_index = @ + 1]
         ELSE queue' = <<>> /\ run' = [run EXCEPT !.rule_index = 1]
  BY DEF AssertConflict, Asserting, NextAssertion, decisionVars, SolverInv
<1>2. /\ conflict \in RuleIds /\ conflict # AssertionId /\ conflict \notin disabled
      /\ conflict \in Range(rule_by_id)
      /\ rules[conflict].lits = {-l} /\ rules[conflict].kind = "generic"
      /\ byPackage \/ rules[AssertionId].rule_type # "request"
  BY <1>1, Contradicted
<1>3. /\ l \in Literals /\ rules[AssertionId].lits = {l} /\ AssertionId \in RuleIds
      /\ AssertionId \in Range(rule_by_id) /\ AssertionId \notin disabled
  BY <1>1, AssertionIs, AssertionInRange DEF IsOpenAssertion
<1>4. l \in Int /\ l # 0 /\ inst.size \in Nat /\ -l \in Literals /\ -l # l
  BY <1>3, RulesFacts, LiteralFacts
<1>5. DOMAIN rule_by_id = 1 .. Len(rule_by_id) /\ run.rule_index \in Nat
  BY RulesFacts DEF SolverInv, RunInv, RunTyped
<1>6. CASE byPackage
  <2>1. /\ disabled' = disabled \cup {AssertionId}
        /\ UNCHANGED <<map, queue>> /\ run' = [run EXCEPT !.rule_index = @ + 1]
    BY <1>1, <1>6
  <2>2. run'.rule_index = run.rule_index + 1
    BY <2>1 DEF SolverInv, RunInv, RunTyped
  <2>3. ASSUME NEW k \in DOMAIN queue'
        PROVE  Asserted(k)'
    <3>1. Asserted(k) /\ k \in DOMAIN queue
      BY <1>1, <2>1, <2>3 DEF AssertInv
    <3>2. queue[k].reason # AssertionId
      <4>1. Satisfy(queue[k].literal)
        BY <3>1, QueueFacts DEF SolverInv
      <4>2. ~Satisfy(l)
        BY <1>1, <1>3, StatusFacts DEF SolverInv
      <4> QED
        BY <3>1, <4>1, <4>2, <1>3 DEF Asserted
    <3> QED
      BY <3>1, <3>2, <2>1, <1>1 DEF Asserted
  <2>4. ASSUME NEW i \in DOMAIN rule_by_id, i < run'.rule_index, EnabledAssertion(i)'
        PROVE  \E m \in rules[rule_by_id[i]].lits : Satisfy(m)'
    <3>1. EnabledAssertion(i) /\ rule_by_id[i] # AssertionId
      BY <2>4, <2>1, <1>1 DEF EnabledAssertion
    <3>2. i < run.rule_index
      <4>1. i # run.rule_index
        BY <3>1 DEF AssertionId
      <4> QED
        BY <4>1, <2>2, <2>4, <1>5
    <3> QED
      BY <3>1, <3>2, <2>1, <1>1 DEF AssertInv, Satisfy, Entry
  <2>5. \E i \in DOMAIN rule_by_id : EnabledAssertion(i)'
    <3>1. PICK i \in DOMAIN rule_by_id : rule_by_id[i] = conflict
      BY <1>2 DEF Range
    <3>2. IsAssertion(rules[conflict])
      BY <1>2, <1>4, RulesFacts, AssertionFacts
    <3> QED
      BY <3>1, <3>2, <2>1, <1>1, <1>2 DEF EnabledAssertion
  <2> QED
    BY <1>1, <2>3, <2>4, <2>5, PassGoesOn
<1>7. CASE ~byPackage
  <2>1. /\ disabled' = disabled \cup RequestsOn(l)
        /\ queue' = <<>> /\ run' = [run EXCEPT !.rule_index = 1]
    BY <1>1, <1>7
  <2>2. run'.rule_index = 1
    BY <2>1 DEF SolverInv, RunInv, RunTyped
  <2>3. \A k \in DOMAIN queue' : Asserted(k)'
    BY <2>1
  <2>4. \A i \in DOMAIN rule_by_id : ~(i < run'.rule_index)
    BY <2>2, <1>5, RulesFacts
  <2>5. AssertionId \notin disabled'
    BY <2>1, <1>2, <1>3, <1>7 DEF RequestsOn
  <2>6. \E i \in DOMAIN rule_by_id : EnabledAssertion(i)'
    <3>1. PICK i \in DOMAIN rule_by_id : rule_by_id[i] = AssertionId
      BY <1>3 DEF Range
    <3> QED
      BY <3>1, <2>5, <1>1 DEF EnabledAssertion, IsOpenAssertion
  <2> QED
    BY <1>1, <2>3, <2>4, <2>6, PassGoesOn
<1> QED
  BY <1>6, <1>7

\* The pass over, a decision of level 1 stays.
LEMMA AssertStep ==
  ASSUME SolverInv, [Next]_vars, StackInv', Grown, pc # "assertions" => LevelOneKept
  PROVE  AssertInv'
<1>0. StackInv /\ DOMAIN queue = 1 .. Len(queue) /\ AssertInv
  BY QueueFacts DEF SolverInv
<1>1. CASE pc' = "assertions"
  <2>1. CASE pc = "assertions" /\ UNCHANGED vars
    BY <2>1, <1>0 DEF vars, AssertInv, Asserted, EnabledAssertion, Satisfy, Entry
  <2> QED
    BY <2>1, <1>1, PassSteps, AssertSkipKeeps, AssertDecideKeeps, AssertConflictAsserts
<1>2. CASE pc' # "assertions" /\ pc = "assertions"
  <2>1. AssertionsDone
    BY <1>2, PassSteps DEF AssertSkip, AssertDecide, AssertConflict, vars
  <2>2. /\ UNCHANGED <<map, queue>> /\ run.rule_index > Len(rule_by_id) /\ level = 1
    BY <2>1, <1>0 DEF AssertionsDone, decisionVars, StackInv
  <2>3. PICK i \in DOMAIN rule_by_id : EnabledAssertion(i)
    BY <1>0, <1>2 DEF AssertInv
  <2>4. /\ i \in 1 .. Len(rule_by_id) /\ Len(rule_by_id) \in Nat /\ run.rule_index \in Nat
        /\ rule_by_id[i] \in RuleIds
    BY RulesFacts DEF SolverInv, RunInv, RunTyped
  <2>5. i < run.rule_index
    BY <2>2, <2>4
  <2>6. PICK l \in rules[rule_by_id[i]].lits : Satisfy(l)
    BY <2>3, <2>5, <1>0, <1>2 DEF AssertInv
  <2>7. l \in Literals
    BY <2>4, <2>6 DEF SolverInv, RulesInv, RuleOK
  <2>8. PICK k \in 1 .. Len(queue) : queue[k].literal = l
    BY <2>6, <2>7, <1>0, SatisfiedIsDecided
  <2>9. LevelAt(k) = 1
    BY <2>2, <2>8, <1>0, QueueFacts
  <2> QED
    BY <2>2, <2>8, <2>9, <1>0, <1>2 DEF AssertInv, LevelAt, DecisionLevel, Entry
<1>3. CASE pc' # "assertions" /\ pc # "assertions"
  <2>1. PICK k \in 1 .. Len(queue) : LevelAt(k) = 1
    BY <1>0, <1>3 DEF AssertInv
  <2> DEFINE p == AbsOf(queue[k].literal)
  <2>2. p \in Packages /\ AbsOf(map[p]) = 1 /\ 0 \in Int
    BY <2>1, <1>0, QueueFacts, LiteralFacts DEF LevelAt, DecisionLevel, Entry, StackInv
  <2> HIDE DEF p
  <2>3. map'[p] = map[p]
    BY <2>2, <1>3 DEF LevelOneKept
  <2>4. map[p] # 0
    BY <2>2 DEF AbsOf
  <2>5. PICK j \in DOMAIN queue' : AbsOf((queue'[j]).literal) = p
    <3>1. DecisionsAgree'
      BY DEF StackInv, Agree, DecisionsAgree, Satisfy, Entry, Packages
    <3> QED
      BY <3>1, <2>2, <2>3, <2>4 DEF DecisionsAgree, Grown
  <2>6. LevelAt(j)' = 1
    BY <2>2, <2>3, <2>5 DEF LevelAt, DecisionLevel, Entry
  <2> QED
    BY <2>5, <2>6, <1>3 DEF AssertInv
<1> QED
  BY <1>1, <1>2, <1>3

-----------------------------------------------------------------------------
(***************************************************************************)
(* The problems.                                                           *)
(***************************************************************************)

\* An assertion and its opposite cannot both hold.
LEMMA OppositesReal ==
  ASSUME SolverInv, AssertConflict
  PROVE  \E problem : /\ problems' = Append(problems, problem)
                      /\ problem.rules \subseteq RuleIds /\ Unsatisfiable(problem)
<1> DEFINE l == AssertionLiteral
           conflict == DecisionRule(l)
           withdrawn == IF rules[conflict].rule_type = "package" THEN {AssertionId}
                        ELSE RequestsOn(l)
           named == {AssertionId, conflict} \cup withdrawn
<1>1. /\ pc = "assertions" /\ Asserting /\ IsOpenAssertion /\ Conflict(l)
      /\ problems' = Append(problems, ProblemOf(named))
  BY DEF AssertConflict, Asserting
<1>2. conflict \in RuleIds /\ rules[conflict].lits = {-l} /\ rules[conflict].kind = "generic"
  BY <1>1, Contradicted
<1>3. /\ l \in Literals /\ rules[AssertionId].lits = {l} /\ AssertionId \in RuleIds
      /\ rules[AssertionId].kind = "generic"
  BY <1>1, AssertionIs, AssertionInRange DEF IsOpenAssertion, IsAssertion
<1>4. named \subseteq RuleIds
  BY <1>2, <1>3, RulesFacts DEF RequestsOn
<1>5. l \in Int /\ l # 0 /\ -(-l) = l /\ (l > 0 <=> ~(-l > 0))
  BY <1>3, RulesFacts, LiteralFacts
<1>6. ProblemOf(named).rules = named
  BY DEF ProblemOf
<1>7. \A id \in {AssertionId, conflict} : rules[id].rule_type # "learned" /\ id \in named
  BY <1>1, <1>2, <1>3, GeneratedRules DEF Generated
<1> HIDE DEF named, l, conflict
<1>8. Unsatisfiable(ProblemOf(named))
  <2> SUFFICES ASSUME NEW S \in Sets,
                      \A id \in named : rules[id].rule_type # "learned" => Holds(S, rules[id])
               PROVE  FALSE
    BY <1>6 DEF Unsatisfiable
  <2>1. Holds(S, rules[AssertionId]) /\ Holds(S, rules[conflict])
    BY <1>7
  <2>2. IF l > 0 THEN l \in S ELSE -l \notin S
    BY <2>1, <1>3 DEF Holds, IsMulti
  <2>3. IF -l > 0 THEN -l \in S ELSE -(-l) \notin S
    BY <2>1, <1>2 DEF Holds, IsMulti
  <2> QED
    BY <2>2, <2>3, <1>5
<1> QED
  BY <1>1, <1>4, <1>6, <1>8

\* A problem stays one: the rules it names stay, and so do the package rules.
LEMMA ProblemStays ==
  ASSUME SolverInv, [Next]_vars, Grown, NEW problem, problem.rules \subseteq RuleIds,
         Unsatisfiable(problem)
  PROVE  problem.rules \subseteq RuleIds' /\ Unsatisfiable(problem)'
<1>1. \A id \in RuleIds : id \in RuleIds' /\ rules'[id] = rules[id]
  BY DEF Grown
<1>2. Sets' = Sets
  BY DEF Grown, Sets
<1>3. ASSUME NEW S \in Sets, AllowedByPackages(S)'
      PROVE  AllowedByPackages(S)
  BY <1>1, <1>3 DEF AllowedByPackages
<1> QED
  BY <1>1, <1>2, <1>3 DEF Unsatisfiable

\* Every problem stays unsatisfiable: rules are only added.
LEMMA ProblemsStep ==
  ASSUME SolverInv, [Next]_vars, Grown
  PROVE  ProblemsInv'
<1>1. /\ IsSequence(problems)
      /\ \A k \in DOMAIN problems :
           /\ problems[k].rules \subseteq RuleIds
           /\ problems[k].detached \/ Unsatisfiable(problems[k])
  BY DEF SolverInv, ProblemsInv
<1> DEFINE Real(problem) == /\ problem.rules \subseteq RuleIds'
                            /\ problem.detached \/ Unsatisfiable(problem)'
<1>2. ASSUME NEW k \in DOMAIN problems, NEW problem, problem = problems[k]
      PROVE  Real(problem)
  <2>1. problem.rules \subseteq RuleIds /\ (problem.detached \/ Unsatisfiable(problem))
    BY <1>1, <1>2
  <2> QED
    BY <2>1, ProblemStays DEF Grown
<1>3. \/ UNCHANGED problems
      \/ \E problem : problems' = Append(problems, problem) /\ Real(problem)
  <2>1. CASE AssertConflict
    BY <2>1, OppositesReal, ProblemStays
  <2>2. CASE Unsolvable
    <3>1. problems' = Append(problems, UnsolvableProblem(an.rule))
      BY <2>2 DEF Unsolvable
    <3> QED
      BY <2>2, <3>1, UnsolvableReal, ProblemStays
  <2> QED
    BY <2>1, <2>2, Frames
<1>4. /\ IsSequence(problems')
      /\ \A k \in DOMAIN problems' : \E problem : problem = problems'[k] /\ Real(problem)
  <2>1. CASE UNCHANGED problems
    BY <2>1, <1>1, <1>2
  <2>2. CASE \E problem : problems' = Append(problems, problem) /\ Real(problem)
    <3>1. PICK problem : problems' = Append(problems, problem) /\ Real(problem)
      BY <2>2
    <3> HIDE DEF Real
    <3>2. /\ IsSequence(problems') /\ Len(problems) \in Nat
          /\ DOMAIN problems = 1 .. Len(problems) /\ DOMAIN problems' = 1 .. Len(problems) + 1
          /\ \A k \in 1 .. Len(problems) : problems'[k] = problems[k]
          /\ problems'[Len(problems) + 1] = problem
      BY <3>1, <1>1, Appended
    <3> QED
      BY <3>1, <3>2, <1>2
  <2> QED
    BY <2>1, <2>2, <1>3
<1> QED
  BY <1>4 DEF ProblemsInv, Unsatisfiable

-----------------------------------------------------------------------------
(***************************************************************************)
(* The invariant is inductive.                                             *)
(***************************************************************************)

\* Two literals, when there is one and not only one.
LEMMA TwoLiteralsOf ==
  ASSUME inst.size \in Nat, NEW lits \in SUBSET Literals, lits # {}, Cardinality(lits) # 1
  PROVE  \E l, m \in lits : l # m
<1>1. PICK l \in lits : TRUE
  OBVIOUS
<1>2. lits # {l}
  BY FS_Singleton
<1> QED
  BY <1>1, <1>2

\* A generated rule has the shape of a rule.
LEMMA GeneratedOK ==
  ASSUME inst.size \in Nat, NEW r, Generated(r, inst.size)
  PROVE  RuleOK(r) /\ r.why = 0 /\ (IsMulti(r) => r.rule_type \in {"package", "none"})
<1>1. /\ r.kind \in RuleKinds /\ r.lits \in SUBSET Literals /\ r.why = 0
      /\ r.rule_type \in {"package", "request", "none"}
      /\ IF r.kind = "generic" THEN r.lits # {} ELSE Cardinality(r.lits) > 1
      /\ IsMulti(r) => r.rule_type # "request" /\ \A l \in r.lits : l < 0
  BY DEF Generated, Literals
<1>2. IsAssertion(r) \/ \E l, m \in r.lits : l # m
  <2>1. CASE r.kind = "generic"
    BY <2>1, <1>1, TwoLiteralsOf DEF IsAssertion
  <2>2. CASE r.kind # "generic"
    <3>1. r.lits # {} /\ Cardinality(r.lits) # 1
      BY <2>2, <1>1, FS_EmptySet
    <3> QED
      BY <3>1, <1>1, TwoLiteralsOf
  <2> QED
    BY <2>1, <2>2
<1> QED
  BY <1>1, <1>2 DEF RuleOK, RuleTypes

\* The rules of an instance have the shape of a rule.
LEMMA RulesInit ==
  ASSUME Init
  PROVE  /\ inst.size \in Nat /\ RulesInv /\ \A id \in RuleIds : rules[id].why = 0
         /\ \A id \in RuleIds : IsMulti(rules[id]) => rules[id].rule_type \in {"package", "none"}
         /\ RuleIds = DOMAIN rules
<1>1. /\ inst \in Instances /\ rules = inst.rules /\ rule_by_id = inst.rule_by_id
      /\ disabled = {}
  BY DEF Init
<1>2. /\ inst.size \in Nat /\ rules \in Seq(Range(rules))
      /\ \A k \in DOMAIN rules : Generated(rules[k], inst.size)
      /\ rule_by_id \in Seq({k \in DOMAIN rules : rules[k].rule_type # "none"})
  BY <1>1, InstancesAssumption
<1>3. DOMAIN rules = RuleIds
  BY <1>2, LenProperties DEF RuleIds
<1>4. \A id \in RuleIds :
        /\ RuleOK(rules[id]) /\ rules[id].why = 0
        /\ IsMulti(rules[id]) => rules[id].rule_type \in {"package", "none"}
  BY <1>2, <1>3, GeneratedOK
<1> QED
  BY <1>1, <1>2, <1>3, <1>4 DEF RulesInv, IsSequence

\* The first watch graph.
LEMMA WatchInit ==
  ASSUME Init
  PROVE  WatchInv
<1>1. /\ inst.size \in Nat /\ RulesInv /\ RuleIds = DOMAIN rules
      /\ \A id \in RuleIds : IsMulti(rules[id]) => rules[id].rule_type \in {"package", "none"}
  BY RulesInit
<1> DEFINE A == {id \in RuleIds : rules[id].rule_type # "none"}
           U == {id \in DOMAIN inst.rules : ~IsAssertion(inst.rules[id])}
           packages == IdsOfType(rules, rule_by_id, "package")
           requests == IdsOfType(rules, rule_by_id, "request")
           watched == Selected(packages \o requests, U)
<1>2. /\ nodes = InitialNodes(inst) /\ chains = InitialChains(inst, nodes)
      /\ rules = inst.rules /\ rule_by_id = inst.rule_by_id
  BY DEF Init
<1>3. nodes = [k \in DOMAIN watched |-> WatchNode(watched[k], rules[watched[k]].lits)]
  BY <1>2 DEF InitialNodes
<1>4. watched \in Seq(A \cap U)
  <2>1. \A type : IdsOfType(rules, rule_by_id, type) \in Seq(A)
    <3> SUFFICES ASSUME NEW type PROVE IdsOfType(rules, rule_by_id, type) \in Seq(A)
      OBVIOUS
    <3> DEFINE V == {id \in DOMAIN rules : rules[id].rule_type = type}
    <3>1. Selected(rule_by_id, V) \in Seq(A \cap V)
      BY <1>1, SelectedElements DEF RulesInv
    <3>2. A \cap V \subseteq A
      OBVIOUS
    <3> HIDE DEF V, A
    <3>3. Selected(rule_by_id, V) \in Seq(A)
      BY <3>1, <3>2, SeqWider
    <3> QED
      BY <3>3 DEF IdsOfType, V
  <2> HIDE DEF A, U
  <2>2. packages \o requests \in Seq(A)
    BY <2>1, ConcatProperties
  <2> QED
    BY <2>2, SelectedElements
<1> HIDE DEF watched
<1>5. \A k \in DOMAIN watched : watched[k] \in A \cap U
  BY <1>4, ElementOfSeq, LenProperties
<1>6. ASSUME NEW k \in DOMAIN nodes
      PROVE  NodeOK(nodes[k])
  <2>1. /\ watched[k] \in RuleIds /\ rules[watched[k]].rule_type # "none"
        /\ ~IsAssertion(rules[watched[k]])
        /\ nodes[k] = WatchNode(watched[k], rules[watched[k]].lits)
    BY <1>2, <1>3, <1>5, <1>6
  <2>2. RuleOK(rules[watched[k]])
    BY <2>1, <1>1 DEF RulesInv
  <2>3. /\ rules[watched[k]].lits \in SUBSET Literals
        /\ \E l, m \in rules[watched[k]].lits : l # m
    BY <2>1, <2>2 DEF RuleOK
  <2>4. nodes[k] \in [rule : {watched[k]}, watch1 : rules[watched[k]].lits,
                      watch2 : rules[watched[k]].lits]
    BY <2>1, <2>3, <1>1, WatchNodeFacts
  <2>5. nodes[k].rule = watched[k]
    BY <2>4
  <2>6. nodes[k] \in [rule : RuleIds, watch1 : Literals, watch2 : Literals]
    BY <2>1, <2>3, <2>4
  <2>7. {nodes[k].watch1, nodes[k].watch2} \subseteq rules[nodes[k].rule].lits
    BY <2>4, <2>5
  <2> QED
    BY <2>1, <2>5, <2>6, <2>7, <1>1 DEF NodeOK
<1>7. IsSequence(nodes)
  <2>1. DOMAIN nodes = 1 .. Len(watched) /\ Len(watched) \in Nat
    BY <1>3, <1>4, LenProperties
  <2>2. nodes = [k \in 1 .. Len(watched) |-> nodes[k]]
    BY <1>3, <2>1
  <2>3. \A k \in 1 .. Len(watched) : nodes[k] \in Range(nodes)
    BY <2>1 DEF Range
  <2> HIDE DEF watched
  <2> QED
    BY <2>2, <2>3, <2>1, IsASeq DEF IsSequence
<1>8. DOMAIN nodes = 1 .. Len(nodes) /\ Len(nodes) \in Nat
  BY <1>7, LenProperties DEF IsSequence
<1>9. ASSUME NEW l \in Literals
      PROVE  chains[l] \in Seq(WatchedBy(l)) /\ chains[l] \in Seq(DOMAIN nodes)
  <2> DEFINE V == {k \in DOMAIN nodes :
                     ChainEntries(k, nodes[k], rules[nodes[k].rule], l) # <<>>}
             order == [k \in DOMAIN nodes |-> k]
  <2>1. chains[l] = Reverse(Selected(order, V))
    BY <1>2, <1>9 DEF InitialChains, Literals
  <2>2. order \in Seq(DOMAIN nodes)
    BY <1>8, IsASeq
  <2>3. V \subseteq WatchedBy(l)
    <3> SUFFICES ASSUME NEW k \in V PROVE k \in WatchedBy(l)
      OBVIOUS
    <3>1. l \in {nodes[k].watch1, nodes[k].watch2} \/ l \in rules[nodes[k].rule].lits
      <4> SUFFICES ASSUME l # nodes[k].watch1, l # nodes[k].watch2,
                          l \notin rules[nodes[k].rule].lits
                   PROVE  FALSE
        OBVIOUS
      <4>1. <<>> \o <<>> = <<>>
        OBVIOUS
      <4> QED
        BY <4>1 DEF ChainEntries
    <3> QED
      BY <3>1, <1>6 DEF WatchedBy, NodeOK
  <2> HIDE DEF V, order
  <2>4. Selected(order, V) \in Seq(DOMAIN nodes \cap V)
    BY <2>2, SelectedElements
  <2>5. DOMAIN nodes \cap V \subseteq WatchedBy(l) /\ WatchedBy(l) \subseteq DOMAIN nodes
    BY <2>3 DEF WatchedBy
  <2>6. Selected(order, V) \in Seq(WatchedBy(l))
    BY <2>4, <2>5, SeqWider
  <2>7. chains[l] \in Seq(WatchedBy(l))
    BY <2>1, <2>6, ReversedElements
  <2> QED
    BY <2>5, <2>7, SeqWider
<1>10. chains \in [Literals -> Seq(DOMAIN nodes)]
  <2>1. chains = [l \in Literals |-> chains[l]]
    BY <1>2 DEF InitialChains, Literals
  <2> QED
    BY <2>1, <1>9
<1> QED
  BY <1>6, <1>7, <1>9, <1>10 DEF WatchInv

\* The invariant holds when solve begins.
LEMMA SolverInit ==
  ASSUME Init
  PROVE  SolverInv
<1>1. /\ inst.size \in Nat /\ RulesInv /\ \A id \in RuleIds : rules[id].why = 0
      /\ RuleIds = DOMAIN rules
  BY RulesInit
<1>2. /\ inst \in Instances /\ rules = inst.rules /\ rule_by_id = inst.rule_by_id
      /\ disabled = {} /\ queue = <<>> /\ propagate_index = 0 /\ cursor = 1
      /\ branches = <<>> /\ learned_pool = <<>> /\ level = 1
      /\ run = NoRun /\ an = NoAnalysis /\ pc = "assertions"
      /\ problems = [k \in 1 .. inst.detached |-> DetachedProblem]
  BY DEF Init
<1>3. Len(queue) = 0 /\ DOMAIN queue = {} /\ DOMAIN rule_by_id = 1 .. Len(rule_by_id)
  BY <1>1, <1>2, LenProperties DEF RulesInv
<1>4. RunInv
  <2>1. Len(rule_by_id) \in Nat
    BY <1>1, LenProperties DEF RulesInv
  <2> QED
    BY <1>2, <2>1 DEF RunInv, RunTyped, NoRun, Labels
<1>5. QueueInv
  BY <1>2, <1>3 DEF QueueInv
<1>6. ReasonInv /\ ConflictInv /\ ResolveInv /\ SoundInv
  BY <1>2, <1>3 DEF ReasonInv, ConflictInv, ResolveInv, SoundInv
<1>7. PoolInv /\ LearnedInv
  <2>1. \A id \in RuleIds : ~(rules[id].why > 0)
    BY <1>1
  <2> QED
    BY <1>2, <2>1 DEF PoolInv, LearnedInv
<1>8. AnTyped /\ AnInv
  BY <1>2 DEF AnTyped, AnShape, NoAnalysis, AnInv, InAnalysis
<1>9. AssertInv
  <2>1. \E i \in DOMAIN rule_by_id : EnabledAssertion(i)
    BY <1>2, InstancesAssumption DEF EnabledAssertion
  <2>2. \A i \in DOMAIN rule_by_id : ~(i < run.rule_index)
    BY <1>2, <1>3 DEF NoRun
  <2> QED
    BY <1>2, <1>3, <2>1, <2>2 DEF AssertInv
<1>10. ProblemsInv
  <2>1. inst.detached \in Nat
    BY <1>2, InstancesAssumption
  <2>2. \A k \in 1 .. inst.detached : problems[k] \in Range(problems)
    BY <1>2 DEF Range
  <2>3. problems = [k \in 1 .. inst.detached |-> problems[k]]
    BY <1>2
  <2>4. IsSequence(problems)
    BY <2>1, <2>2, <2>3, IsASeq DEF IsSequence
  <2>5. \A k \in DOMAIN problems : problems[k].rules = {} /\ problems[k].detached
    BY <1>2 DEF DetachedProblem
  <2> QED
    BY <2>4, <2>5 DEF ProblemsInv
<1> QED
  BY <1>1, <1>4, <1>5, <1>6, <1>7, <1>8, <1>9, <1>10, StackInvInit, WatchInit DEF SolverInv

\* Every step keeps the invariant.
LEMMA SolverStep ==
  ASSUME SolverInv, [Next]_vars
  PROVE  SolverInv'
<1>1. StackInv' /\ (pc # "assertions" => LevelOneKept)
  BY StepKeeps DEF SolverInv
<1>2. Grown /\ RulesInv'
  BY RulesStep
<1>3. WatchInv' /\ RunInv' /\ QueueInv'
  BY WatchStep, RunStep, QueueStep
<1>4. ReasonInv' /\ ConflictInv'
  BY ReasonStep, ConflictStep
<1>5. PoolInv' /\ AnTyped' /\ AnInv' /\ ResolveInv'
  BY PoolStep, AnalysisStep
<1>6. SoundInv' /\ LearnedInv'
  BY SoundStep, LearnedStep
<1>7. AssertInv' /\ ProblemsInv'
  BY <1>1, <1>2, AssertStep, ProblemsStep
<1> QED
  BY <1>1, <1>2, <1>3, <1>4, <1>5, <1>6, <1>7 DEF SolverInv

\* The inductive invariant of the solver holds of every reachable state.
THEOREM SolverInvariant == Spec => []SolverInv
<1>1. Init => SolverInv
  BY SolverInit
<1>2. SolverInv /\ [Next]_vars => SolverInv'
  BY SolverStep
<1> QED
  BY <1>1, <1>2, PTL DEF Spec

-----------------------------------------------------------------------------
(***************************************************************************)
(* What the invariant says.                                                *)
(***************************************************************************)

\* The reasons of the decisions force them: analyze may resolve on them.
LEMMA ReasonsForced ==
  SolverInv => ReasonsForce
BY DEF SolverInv, ReasonInv, ReasonOK, ReasonsForce

\* The learned rule follows from the package rules and the requests behind it.
LEMMA LearnedFollows ==
  SolverInv => LearnedFollow
<1> SUFFICES ASSUME SolverInv, JustLearned,
                    NEW S \in Sets, ~Holds(S, rules[Len(rules)]),
                    \A r \in {rules[q] : q \in RequestsBehind(learned_pool)[Len(rules)]} : Holds(S, r),
                    AllowedByPackages(S)
             PROVE  FALSE
  BY DEF LearnedFollow
<1>1. Len(rules) \in RuleIds
  <2>1. queue # <<>> /\ queue[Len(queue)].reason = Len(rules)
    BY DEF JustLearned
  <2>2. Len(queue) \in 1 .. Len(queue)
    BY <2>1, EmptySeq DEF SolverInv, QueueInv
  <2> QED
    BY <2>1, <2>2, ReasonIds
<1>2. \A q \in RequestsBehind(learned_pool)[Len(rules)] : Holds(S, rules[q])
  OBVIOUS
<1> QED
  BY <1>1, <1>2, BehindSound

\* A problem names enough rules: all those it names, the learned ones
\* included, are not satisfied either.
LEMMA ProblemsAreReal ==
  SolverInv => ProblemsReal
<1> SUFFICES ASSUME SolverInv, NEW k \in DOMAIN problems
             PROVE  problems[k].detached \/
                      ~\E S \in Sets : /\ \A id \in problems[k].rules : Holds(S, rules[id])
                                       /\ AllowedByPackages(S)
  BY DEF ProblemsReal
<1>1. problems[k].detached \/ Unsatisfiable(problems[k])
  BY DEF SolverInv, ProblemsInv
<1>2. ASSUME Unsatisfiable(problems[k]), NEW S \in Sets,
             \A id \in problems[k].rules : Holds(S, rules[id]), AllowedByPackages(S)
      PROVE  FALSE
  <2>1. \A id \in problems[k].rules : rules[id].rule_type # "learned" => Holds(S, rules[id])
    BY <1>2
  <2> QED
    BY <2>1, <1>2 DEF Unsatisfiable
<1>3. Unsatisfiable(problems[k]) =>
        ~\E S \in Sets : /\ \A id \in problems[k].rules : Holds(S, rules[id])
                         /\ AllowedByPackages(S)
  BY <1>2
<1> QED
  BY <1>1, <1>3, Zenon

\* analyze finds a decision to look at as long as something is left.
LEMMA LastSeenExists ==
  ASSUME SolverInv, pc = "walk", ~NothingLeft
  PROVE  \E d \in DOMAIN queue : IsLastSeen(d)
<1>1. /\ AnShape(an) /\ AnBounds(an) /\ AnPhase(an, "walk") /\ inst.size \in Nat
      /\ DOMAIN queue = 1 .. Len(queue) /\ Len(queue) \in Nat
  BY QueueFacts DEF SolverInv, StackInv, AnTyped, AnInv, InAnalysis
<1>2. an.seen # {}
  <2>1. CASE an.learned = 0
    <3>1. an.num > 0 /\ an.num = Cardinality(PackagesAt(an.seen, level))
      BY <1>1, <2>1 DEF AnPhase, Collecting
    <3>2. PackagesAt(an.seen, level) # {}
      BY <3>1, FS_EmptySet
    <3> QED
      BY <3>2 DEF PackagesAt
  <2>2. CASE an.learned # 0
    <3>1. an.num = 0 /\ an.l1num = Cardinality(an.seen) + 1
      BY <1>1, <2>2 DEF AnPhase, Finishing
    <3>2. an.seen = {} => Cardinality(an.seen) = 0
      BY FS_EmptySet
    <3> QED
      BY <3>1, <3>2 DEF NothingLeft, L1Num
  <2> QED
    BY <2>1, <2>2
<1> DEFINE T == {d \in 1 .. an.decision_id : AbsOf(queue[d].literal) \in an.seen}
<1>3. an.decision_id \in Nat /\ an.decision_id <= Len(queue)
  BY <1>1 DEF AnBounds
<1>4. T # {} /\ T \in SUBSET (0 .. an.decision_id)
  BY <1>1, <1>2, <1>3 DEF AnBounds
<1>5. PICK d \in T : \A k \in T : k <= d
  <2> HIDE DEF T
  <2> QED
    BY <1>3, <1>4, GreatestNumber
<1>6. ASSUME NEW k \in d + 1 .. an.decision_id
      PROVE  AbsOf(queue[k].literal) \notin an.seen
  <2>1. k \in 1 .. an.decision_id /\ ~(k <= d)
    BY <1>3, <1>5, <1>6
  <2> QED
    BY <2>1, <1>5
<1>7. d \in 1 .. an.decision_id /\ d \in 1 .. Len(queue) /\ AbsOf(queue[d].literal) \in an.seen
  BY <1>3, <1>5
<1> QED
  BY <1>1, <1>6, <1>7 DEF IsLastSeen

\* The errors of the code are out of reach.
LEMMA NoBug ==
  SolverInv => NoSolverBug
<1> SUFFICES ASSUME SolverInv PROVE NoSolverBug
  OBVIOUS
<1>1. pc = "walk" => NothingLeft \/ \E d \in DOMAIN queue : IsLastSeen(d)
  BY LastSeenExists
<1>2. pc = "learn" => /\ an.learned # 0
                      /\ an.rule_level \in 1 .. level - 1
                      /\ DecisionLevel(an.learned) > an.rule_level
  <2> SUFFICES ASSUME pc = "learn"
               PROVE  /\ an.learned # 0
                      /\ an.rule_level \in 1 .. level - 1
                      /\ DecisionLevel(an.learned) > an.rule_level
    OBVIOUS
  <2>1. AnBounds(an) /\ AnPhase(an, "learn") /\ level \in Nat
    BY DEF SolverInv, StackInv, AnInv, InAnalysis
  <2> QED
    BY <2>1 DEF AnBounds, AnPhase
<1>3. pc = "branches" =>
        \A b \in DOMAIN branches : \A k \in DOMAIN branches[b].literals :
          IsOpenAlternative(b, k) => \E d \in DOMAIN queue : LevelAt(d) <= branches[b].level
  <2> SUFFICES ASSUME pc = "branches", NEW b \in DOMAIN branches
               PROVE  \E d \in DOMAIN queue : LevelAt(d) <= branches[b].level
    OBVIOUS
  <2>1. branches[b].level \in Nat \ {0}
    BY DEF SolverInv, StackInv, Unwinds
  <2>2. PICK d \in DOMAIN queue : LevelAt(d) = 1
    BY DEF SolverInv, AssertInv
  <2> QED
    BY <2>1, <2>2
<1> QED
  BY <1>1, <1>2, <1>3 DEF NoSolverBug

\* A literal kept for the learned rule is not met again.
LEMMA Once ==
  SolverInv => CollectedOnce
<1> SUFFICES ASSUME SolverInv, pc = "resolve", NEW l \in NewlySeen, l \in an.others
             PROVE  DecisionLevel(l) = level
  BY DEF CollectedOnce
<1>1. /\ AnPhase(an, "resolve") /\ AnBounds(an) /\ Resolvable(an)
      /\ an.others \subseteq Literals
  BY DEF SolverInv, AnInv, InAnalysis, ResolveInv, AnTyped, AnShape
<1>2. l \in rules[an.rule].lits /\ AbsOf(l) \notin an.seen
  BY DEF NewlySeen
<1>3. an.learned # 0
  BY <1>1, <1>2 DEF AnPhase, Collecting, PackagesOf
<1>4. Conflict(l) /\ DecisionLevel(l) > 1
  BY <1>1 DEF AnBounds
<1>5. DecisionLevel(l) = 1
  BY <1>1, <1>2, <1>3, <1>4 DEF Resolvable
<1> QED
  BY <1>4, <1>5

\* The reasons force their literals, and what was learned follows from the
\* package rules and the requests behind it (SolverProperties).
THEOREM ReasonsAlwaysHold == Spec => []ReasonsHold
<1>1. SolverInv => ReasonsHold
  BY ReasonsForced, LearnedFollows DEF ReasonsHold
<1> QED
  BY <1>1, SolverInvariant, PTL

\* A reported problem is real: no set of packages satisfies the package rules
\* and the rules that it names.
THEOREM ProblemsAlwaysReal == Spec => []ProblemsReal
<1> QED
  BY ProblemsAreReal, SolverInvariant, PTL

\* The solver meets none of the errors its code provides for, whatever the
\* policy prefers: the analysis of a conflict finds each decision it looks
\* for and a literal to learn, and it goes back to a lower level.
THEOREM NoErrorMet == Spec => []NoSolverBug
<1> QED
  BY NoBug, SolverInvariant, PTL

\* The analysis collects no literal twice.
THEOREM EachLiteralOnce == Spec => []CollectedOnce
<1> QED
  BY Once, SolverInvariant, PTL

-----------------------------------------------------------------------------
(***************************************************************************)
(* The types, given the policy.                                            *)
(***************************************************************************)

\* select_preferred_packages returns some of the packages it is given, at
\* least one.
PolicySelects ==
  \A x \in Instances : \A candidates \in SUBSET (1 .. x.size) : \A required :
    candidates # {} => /\ SelectPreferred(x, candidates, required) \in Seq(candidates)
                       /\ SelectPreferred(x, candidates, required) # <<>>

BranchesInv ==
  /\ inst \in Instances
  /\ \A b \in DOMAIN branches : branches[b].literals \in Seq(Packages)

\* There is no branch at first.
LEMMA BranchesInit ==
  ASSUME Init
  PROVE  BranchesInv
BY DEF Init, BranchesInv

\* What is pushed by select_and_install.
LEMMA SelectBranches ==
  ASSUME PolicySelects, SolverInv, BranchesInv, NEW candidates \in SUBSET Packages,
         candidates # {}, NEW id \in RuleIds, SelectAndInstall(candidates, id)
  PROVE  \A b \in DOMAIN branches' : branches'[b].literals \in Seq(Packages)
<1> DEFINE chosen == SelectPreferred(inst, candidates, rules[id].required)
<1>1. inst \in Instances /\ candidates \in SUBSET (1 .. inst.size)
  BY DEF BranchesInv, Packages
<1>2. chosen \in Seq(candidates) /\ chosen # <<>>
  BY <1>1 DEF PolicySelects
<1>3. branches' = branches \/ branches' = Append(branches, [literals |-> Tail(chosen), level |-> level])
  BY DEF SelectAndInstall
<1> HIDE DEF chosen
<1>4. Tail(chosen) \in Seq(Packages)
  <2>1. Tail(chosen) \in Seq(candidates)
    BY <1>2, HeadTailProperties
  <2> QED
    BY <2>1, SeqMonotonic
<1>5. CASE branches' = branches
  BY <1>5 DEF BranchesInv
<1>6. CASE branches' = Append(branches, [literals |-> Tail(chosen), level |-> level])
  <2> DEFINE new == [literals |-> Tail(chosen), level |-> level]
  <2>1. new.literals = Tail(chosen) /\ branches' = Append(branches, new) /\ IsSequence(branches)
    BY <1>6 DEF SolverInv, StackInv, Unwinds
  <2> HIDE DEF new
  <2>2. /\ Len(branches) \in Nat /\ DOMAIN branches = 1 .. Len(branches)
        /\ DOMAIN branches' = 1 .. Len(branches) + 1
        /\ \A b \in 1 .. Len(branches) : branches'[b] = branches[b]
        /\ branches'[Len(branches) + 1] = new
    BY <2>1, Appended
  <2> SUFFICES ASSUME NEW b \in 1 .. Len(branches) + 1
               PROVE  branches'[b].literals \in Seq(Packages)
    BY <2>2
  <2>3. CASE b = Len(branches) + 1
    BY <2>1, <2>2, <2>3, <1>4
  <2>4. CASE b \in 1 .. Len(branches)
    BY <2>2, <2>4 DEF BranchesInv
  <2> QED
    BY <2>2, <2>3, <2>4
<1> QED
  BY <1>3, <1>5, <1>6

\* What a revert leaves.
LEMMA PrefixBranches ==
  ASSUME NEW bs, IsSequence(bs), NEW kept \in 0 .. Len(bs),
         \A b \in DOMAIN bs : bs[b].literals \in Seq(Packages)
  PROVE  \A b \in DOMAIN SubSeq(bs, 1, kept) : SubSeq(bs, 1, kept)[b].literals \in Seq(Packages)
<1>1. /\ DOMAIN bs = 1 .. Len(bs) /\ Len(bs) \in Nat
      /\ DOMAIN SubSeq(bs, 1, kept) = 1 .. kept
      /\ \A b \in 1 .. kept : SubSeq(bs, 1, kept)[b] = bs[b]
  BY Prefix
<1>2. \A b \in 1 .. kept : b \in 1 .. Len(bs)
  BY <1>1
<1> QED
  BY <1>1, <1>2

\* Going back to a branch leaves packages in the branches.
LEMMA RetryBranches ==
  ASSUME SolverInv, BranchesInv, RetryBranch
  PROVE  \A b \in DOMAIN branches' : branches'[b].literals \in Seq(Packages)
<1>1. PICK b \in DOMAIN branches : \E k \in DOMAIN branches[b].literals :
        \E kept \in 0 .. Len(branches) :
          branches' = SubSeq([branches EXCEPT ![b] =
                               [literals |-> RemoveAt(branches[b].literals, k),
                                level |-> branches[b].level]], 1, kept)
  BY DEF RetryBranch
<1>2. PICK k \in DOMAIN branches[b].literals : \E kept \in 0 .. Len(branches) :
        branches' = SubSeq([branches EXCEPT ![b] =
                             [literals |-> RemoveAt(branches[b].literals, k),
                              level |-> branches[b].level]], 1, kept)
  BY <1>1
<1> DEFINE new == [literals |-> RemoveAt(branches[b].literals, k), level |-> branches[b].level]
           remaining == [branches EXCEPT ![b] = new]
<1>3. PICK kept \in 0 .. Len(branches) : branches' = SubSeq(remaining, 1, kept)
  BY <1>2
<1>4. new.literals \in Seq(Packages)
  <2>1. branches[b].literals \in Seq(Packages)
    BY DEF BranchesInv
  <2>2. k \in 1 .. Len(branches[b].literals)
    BY <2>1, LenProperties
  <2>3. RemoveAt(branches[b].literals, k) \in Seq(Packages)
    BY <2>1, <2>2, RemovedElements
  <2> QED
    BY <2>3
<1> HIDE DEF new
<1>5. IsSequence(remaining) /\ Len(remaining) = Len(branches)
  <2> DEFINE A == Range(branches) \cup {new}
  <2>1. branches \in Seq(A) /\ b \in 1 .. Len(branches) /\ new \in A
    BY SeqMonotonic, LenProperties DEF IsSequence, SolverInv, StackInv, Unwinds
  <2>2. remaining \in Seq(A) /\ Len(remaining) = Len(branches)
    BY <2>1, ExceptSeq
  <2> QED
    BY <2>2, SeqOfRange DEF IsSequence
<1>6. \A c \in DOMAIN remaining : remaining[c].literals \in Seq(Packages)
  BY <1>4 DEF BranchesInv
<1> HIDE DEF remaining
<1> QED
  BY <1>3, <1>5, <1>6, PrefixBranches

\* With a policy that selects among the candidates, branches hold packages.
LEMMA BranchesStep ==
  ASSUME PolicySelects, SolverInv, BranchesInv, [Next]_vars
  PROVE  BranchesInv'
<1>1. /\ Grown /\ UNCHANGED inst /\ Packages' = Packages /\ inst.size \in Nat
  BY RulesStep, Frames DEF Grown, SolverInv, StackInv
<1>3. \A b \in DOMAIN branches' : branches'[b].literals \in Seq(Packages)
  <2>1. CASE UNCHANGED branches
    BY <2>1 DEF BranchesInv
  <2>2. CASE Learn
    <3>1. PICK kept \in 0 .. Len(branches) : branches' = SubSeq(branches, 1, kept)
      BY <2>2 DEF Learn
    <3>2. IsSequence(branches)
      BY DEF SolverInv, StackInv, Unwinds
    <3> QED
      BY <3>1, <3>2, PrefixBranches DEF BranchesInv
  <2>3. CASE RetryBranch
    BY <2>3, RetryBranches
  <2>4. CASE InstallRequest
    <3>1. /\ SelectAndInstall(RequestCandidates, Requests[run.position])
          /\ Requests[run.position] \in RuleIds /\ RequestCandidates # {}
      BY <2>4, RequestIds DEF InstallRequest, RequestIsOpen
    <3>2. RequestRule.lits \subseteq Literals
      BY <3>1 DEF RequestRule, SolverInv, RulesInv, RuleOK
    <3>3. RequestCandidates \in SUBSET Packages
      BY <3>2, <1>1 DEF RequestCandidates, Literals, LiteralsOf, Packages
    <3> QED
      BY <3>1, <3>3, SelectBranches
  <2>5. CASE InstallProvider
    <3>1. /\ SelectAndInstall(SweepCandidates, SweptId) /\ SweptId \in RuleIds
          /\ Cardinality(SweepCandidates) >= 2
      BY <2>5, SweptIds DEF InstallProvider, SweepIsOpen
    <3>2. SweptRule.lits \subseteq Literals
      BY <3>1 DEF SweptRule, SolverInv, RulesInv, RuleOK
    <3>3. SweepCandidates \in SUBSET Packages
      BY <3>2, <1>1 DEF SweepCandidates, Literals, LiteralsOf, Packages
    <3>4. SweepCandidates # {}
      BY <3>1, FS_EmptySet
    <3> QED
      BY <3>1, <3>3, <3>4, SelectBranches
  <2> QED
    BY <2>1, <2>2, <2>3, <2>4, <2>5, Zenon
    DEF Next, vars, searchVars, AssertSkip, AssertDecide, AssertConflict, AssertionsDone, RunSat,
        VisitSettled, VisitMoveWatch, VisitImply, VisitConflict, NextDecision, Propagated,
        Unsolvable, BeginAnalysis, Resolve, WalkEnd, WalkLearn, WalkReason, SkipRequest,
        RequestsDone, SkipRule, Swept, BranchesDone, Terminated
<1> QED
  BY <1>1, <1>3 DEF BranchesInv

\* The invariant gives the types.
LEMMA Typed ==
  SolverInv /\ BranchesInv => TypeOK
<1> SUFFICES ASSUME SolverInv, BranchesInv PROVE TypeOK
  OBVIOUS
<1>1. inst.size \in Nat /\ map \in [Packages -> Int] /\ level \in Nat \ {0}
  BY DEF SolverInv, StackInv, Agree, Packages
<1>2. /\ \A k \in DOMAIN rules : RuleOK(rules[k])
      /\ rule_by_id \in Seq(RuleIds) /\ disabled \subseteq RuleIds
  <2>1. {id \in RuleIds : rules[id].rule_type # "none"} \subseteq RuleIds
    OBVIOUS
  <2>2. rule_by_id \in Seq(RuleIds)
    BY <2>1, SeqMonotonic DEF SolverInv, RulesInv
  <2> QED
    BY <2>2, RulesFacts DEF SolverInv, RulesInv
<1>3. /\ \A k \in DOMAIN nodes : nodes[k].rule \in RuleIds
                                 /\ {nodes[k].watch1, nodes[k].watch2} \subseteq Literals
      /\ chains \in [Literals -> Seq(1 .. Len(nodes))]
  <2>1. DOMAIN nodes = 1 .. Len(nodes)
    BY LenProperties DEF SolverInv, WatchInv, IsSequence
  <2> QED
    BY <2>1 DEF SolverInv, WatchInv, NodeOK
<1>4. /\ queue \in Seq([literal : Literals, reason : RuleIds])
      /\ propagate_index \in 0 .. Len(queue)
      /\ cursor \in Nat \ {0} /\ pc \in Labels
  BY DEF SolverInv, QueueInv, RunInv
<1>5. \A b \in DOMAIN branches : /\ branches[b].literals \in Seq(Packages)
                                 /\ branches[b].level \in Nat \ {0}
  BY DEF SolverInv, StackInv, Unwinds, BranchesInv
<1>6. /\ \A k \in DOMAIN problems : problems[k].rules \subseteq RuleIds
      /\ learned_pool \in Seq(SUBSET RuleIds)
  BY DEF SolverInv, ProblemsInv, PoolInv
<1> QED
  BY <1>1, <1>2, <1>3, <1>4, <1>5, <1>6 DEF TypeOK, RuleOK

\* With a policy that selects some of the packages it is given, no step takes
\* the solver out of its types, into an error of its own, or makes it account
\* for a literal twice.
THEOREM AlwaysWellFormed ==
  ASSUME PolicySelects
  PROVE  Spec => []WellFormed
<1>1. Init => SolverInv /\ BranchesInv
  BY SolverInit, BranchesInit
<1>2. SolverInv /\ BranchesInv /\ [Next]_vars => SolverInv' /\ BranchesInv'
  BY SolverStep, BranchesStep
<1>3. SolverInv /\ BranchesInv => WellFormed
  BY Typed, NoBug, Once DEF WellFormed
<1> QED
  BY <1>1, <1>2, <1>3, PTL DEF Spec

=============================================================================
