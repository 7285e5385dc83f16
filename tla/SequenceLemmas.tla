---------------------------- MODULE SequenceLemmas ----------------------------
(***************************************************************************)
(* Lemmas on numbers and sequences that the proofs of several modules cite.*)
(***************************************************************************)
EXTENDS Selection, SequencesExt, SequenceTheorems, WellFoundedInduction, TLAPS

(***************************************************************************)
(* Numbers.  Induction is the choice of a least counterexample.            *)
(***************************************************************************)

\* A set of natural numbers has a least element.
LEMMA LeastNumber ==
  ASSUME NEW T \in SUBSET Nat, T # {}
  PROVE  \E n \in T : \A m \in T : n <= m
<1>1. IsWellFoundedOn(OpToRel(<, Nat), Nat)
  BY NatLessThanWellFounded
<1>2. PICK n \in T : \A m \in T : ~(<<m, n>> \in OpToRel(<, Nat))
  BY <1>1, WFMin
<1>3. ASSUME NEW m \in T, ~(n <= m)
      PROVE  FALSE
  <2>1. m < n /\ m \in Nat /\ n \in Nat
    BY <1>3
  <2>2. <<m, n>> \in OpToRel(<, Nat)
    BY <2>1 DEF OpToRel
  <2> QED
    BY <1>2, <2>2
<1> QED
  BY <1>3

\* A bounded one has a greatest.
LEMMA GreatestNumber ==
  ASSUME NEW top \in Nat, NEW T \in SUBSET (0 .. top), T # {}
  PROVE  \E n \in T : \A m \in T : m <= n
<1> DEFINE U == {top - n : n \in T}
<1>0. \A n \in T : n \in Int /\ top - n \in Nat
  OBVIOUS
<1>1. U \in SUBSET Nat /\ U # {}
  BY <1>0
<1>2. PICK u \in U : \A v \in U : u <= v
  BY <1>1, LeastNumber
<1>3. PICK n \in T : u = top - n
  OBVIOUS
<1>4. ASSUME NEW m \in T
      PROVE  m <= n
  <2>1. top - m \in U
    OBVIOUS
  <2> QED
    BY <2>1, <1>2, <1>3
<1> QED
  BY <1>4

-----------------------------------------------------------------------------
(***************************************************************************)
(* Sequences.                                                              *)
(***************************************************************************)

\* What the recursive function of Selected computes, up to n.
Selects(f, s, S, n) ==
  f = [i \in 0 .. n |->
        IF i = 0 THEN <<>>
        ELSE IF s[i] \in S THEN Append(f[i - 1], s[i]) ELSE f[i - 1]]

\* It exists.
LEMMA SelectsExists ==
  ASSUME NEW s, NEW S, NEW n \in Nat
  PROVE  \E f : Selects(f, s, S, n)
<1> DEFINE T == {k \in Nat : ~\E f : Selects(f, s, S, k)}
<1> SUFFICES ASSUME T # {} PROVE FALSE
  OBVIOUS
<1>1. PICK k \in T : \A j \in T : k <= j
  BY LeastNumber
<1>2. CASE k = 0
  <2>1. Selects([i \in 0 .. 0 |-> <<>>], s, S, 0)
    BY DEF Selects
  <2> QED
    BY <2>1, <1>2
<1>3. CASE k > 0
  <2>1. k - 1 \in Nat /\ k - 1 \notin T
    BY <1>1, <1>3
  <2>2. PICK f : Selects(f, s, S, k - 1)
    BY <2>1
  <2> DEFINE g == [i \in 0 .. k |->
                     IF i < k THEN f[i]
                     ELSE IF s[k] \in S THEN Append(f[k - 1], s[k]) ELSE f[k - 1]]
  <2>3. \A i \in 0 .. k - 1 : g[i] = f[i]
    BY <1>3
  <2>4. ASSUME NEW i \in 0 .. k
        PROVE  g[i] = IF i = 0 THEN <<>>
                      ELSE IF s[i] \in S THEN Append(g[i - 1], s[i]) ELSE g[i - 1]
    <3>1. CASE i = k
      BY <3>1, <1>3, <2>3
    <3>2. CASE i < k
      <4>1. i \in 0 .. k - 1 /\ (i # 0 => i - 1 \in 0 .. k - 1)
        BY <3>2
      <4>2. f[i] = IF i = 0 THEN <<>>
                   ELSE IF s[i] \in S THEN Append(f[i - 1], s[i]) ELSE f[i - 1]
        BY <4>1, <2>2 DEF Selects
      <4> QED
        BY <4>1, <4>2, <2>3
    <3> QED
      BY <3>1, <3>2
  <2>5. g = [i \in 0 .. k |->
               IF i = 0 THEN <<>>
               ELSE IF s[i] \in S THEN Append(g[i - 1], s[i]) ELSE g[i - 1]]
    <3> DEFINE h == [i \in 0 .. k |->
               IF i = 0 THEN <<>>
               ELSE IF s[i] \in S THEN Append(g[i - 1], s[i]) ELSE g[i - 1]]
    <3>1. \A i \in 0 .. k : g[i] = h[i]
      BY <2>4
    <3>2. DOMAIN g = 0 .. k /\ DOMAIN h = 0 .. k
      OBVIOUS
    <3> QED
      BY <3>1, <3>2
  <2> HIDE DEF g
  <2>6. Selects(g, s, S, k)
    BY <2>5 DEF Selects
  <2> QED
    BY <2>6
<1> QED
  BY <1>1, <1>2, <1>3

\* Selected keeps only elements of s that are in S.
LEMMA SelectedElements ==
  ASSUME NEW A, NEW s \in Seq(A), NEW S
  PROVE  Selected(s, S) \in Seq(A \cap S)
<1>1. Len(s) \in Nat /\ \A i \in 1 .. Len(s) : s[i] \in A
  BY ElementOfSeq
<1> DEFINE f == CHOOSE g : Selects(g, s, S, Len(s))
<1>2. Selects(f, s, S, Len(s))
  BY <1>1, SelectsExists
<1>3. Selected(s, S) = f[Len(s)]
  BY DEF Selected, Selects
<1> HIDE DEF f
<1> DEFINE T == {k \in 0 .. Len(s) : f[k] \notin Seq(A \cap S)}
<1>4. T = {}
  <2> SUFFICES ASSUME T # {} PROVE FALSE
    OBVIOUS
  <2>1. T \in SUBSET Nat
    BY <1>1
  <2>2. PICK k \in T : \A j \in T : k <= j
    BY <2>1, LeastNumber
  <2>3. f[k] = IF k = 0 THEN <<>>
               ELSE IF s[k] \in S THEN Append(f[k - 1], s[k]) ELSE f[k - 1]
    BY <1>2 DEF Selects
  <2>4. CASE k = 0
    BY <2>3, <2>4, EmptySeq
  <2>5. CASE k # 0
    <3>1. k \in 1 .. Len(s) /\ k - 1 \in 0 .. Len(s)
      BY <1>1, <2>5
    <3>2. f[k - 1] \in Seq(A \cap S)
      BY <2>2, <3>1
    <3>3. s[k] \in S => Append(f[k - 1], s[k]) \in Seq(A \cap S)
      BY <1>1, <3>1, <3>2, AppendProperties
    <3> QED
      BY <2>3, <2>5, <3>2, <3>3
  <2> QED
    BY <2>4, <2>5
<1> QED
  BY <1>1, <1>3, <1>4

\* Reverse too.
LEMMA ReversedElements ==
  ASSUME NEW S, NEW s \in Seq(S)
  PROVE  Reverse(s) \in Seq(S)
<1>1. Len(s) \in Nat /\ \A k \in 1 .. Len(s) : s[k] \in S
  BY ElementOfSeq
<1>2. \A i \in 1 .. Len(s) : (Len(s) - i) + 1 \in 1 .. Len(s)
  BY <1>1
<1>3. Reverse(s) = [i \in 1 .. Len(s) |-> s[(Len(s) - i) + 1]]
  BY DEF Reverse
<1>4. \A i \in 1 .. Len(s) : s[(Len(s) - i) + 1] \in S
  BY <1>1, <1>2
<1> QED
  BY <1>1, <1>3, <1>4, IsASeq

\* The elements of two sequences, one after the other.
LEMMA JoinedElements ==
  ASSUME NEW S, NEW s \in Seq(S), NEW t \in Seq(S)
  PROVE  /\ Len(s) \in Nat /\ Len(t) \in Nat /\ s \o t \in Seq(S)
         /\ Len(s \o t) = Len(s) + Len(t)
         /\ \A i \in 1 .. Len(s) : (s \o t)[i] = s[i]
         /\ \A i \in 1 .. Len(t) : (s \o t)[Len(s) + i] = t[i]
<1>1. /\ Len(s) \in Nat /\ Len(t) \in Nat /\ s \o t \in Seq(S)
      /\ Len(s \o t) = Len(s) + Len(t)
      /\ \A i \in 1 .. Len(s) + Len(t) :
           (s \o t)[i] = IF i <= Len(s) THEN s[i] ELSE t[i - Len(s)]
  BY ConcatProperties, LenProperties
<1>2. ASSUME NEW i \in 1 .. Len(t)
      PROVE  (s \o t)[Len(s) + i] = t[i]
  <2>1. /\ Len(s) + i \in 1 .. Len(s) + Len(t) /\ ~(Len(s) + i <= Len(s))
        /\ (Len(s) + i) - Len(s) = i
    BY <1>1
  <2> QED
    BY <1>1, <2>1
<1>3. ASSUME NEW i \in 1 .. Len(s)
      PROVE  (s \o t)[i] = s[i]
  <2>1. i \in 1 .. Len(s) + Len(t) /\ i <= Len(s)
    BY <1>1
  <2> QED
    BY <1>1, <2>1
<1> QED
  BY <1>1, <1>2, <1>3

-----------------------------------------------------------------------------
(***************************************************************************)
(* The order of a sequence.                                                *)
(***************************************************************************)

Distinct(s) == \A i, j \in 1 .. Len(s) : s[i] = s[j] => i = j

\* Wherever both are, a is before b.
Ahead(s, a, b) == \A i, j \in 1 .. Len(s) : s[i] = a /\ s[j] = b => i < j

\* The elements of t come in the order they have in s.
InOrder(s, t) ==
  \A i, j \in 1 .. Len(t) : \A p, q \in 1 .. Len(s) :
    i < j /\ t[i] = s[p] /\ t[j] = s[q] => p < q

\* The range of a sequence, by position.
LEMMA RangeOf ==
  ASSUME NEW S, NEW s \in Seq(S)
  PROVE  /\ Range(s) \in SUBSET S
         /\ \A x : x \in Range(s) <=> \E i \in 1 .. Len(s) : s[i] = x
         /\ \A i \in 1 .. Len(s) : s[i] \in Range(s)
BY LenProperties, ElementOfSeq DEF Range

\* A sequence in the order of another keeps the order of any two elements.
LEMMA InOrderAhead ==
  ASSUME NEW S, NEW s \in Seq(S), NEW t \in Seq(S), InOrder(s, t), Range(t) \subseteq Range(s),
         NEW a, NEW b, Ahead(s, a, b)
  PROVE  Ahead(t, a, b)
<1>1. Len(s) \in Nat /\ Len(t) \in Nat
  BY LenProperties
<1> SUFFICES ASSUME NEW i \in 1 .. Len(t), NEW j \in 1 .. Len(t), t[i] = a, t[j] = b, ~(i < j)
             PROVE  FALSE
  BY DEF Ahead
<1>2. PICK p \in 1 .. Len(s) : s[p] = a
  BY RangeOf
<1>3. PICK q \in 1 .. Len(s) : s[q] = b
  BY RangeOf
<1>4. p < q
  BY <1>2, <1>3 DEF Ahead
<1>5. CASE i = j
  BY <1>2, <1>3, <1>4, <1>5, <1>1 DEF Ahead
<1>6. CASE j < i
  <2>1. q < p
    BY <1>2, <1>3, <1>6 DEF InOrder
  <2> QED
    BY <2>1, <1>4, <1>1
<1> QED
  BY <1>1, <1>5, <1>6

\* And has each of its elements once, when the other has.
LEMMA InOrderDistinct ==
  ASSUME NEW S, NEW s \in Seq(S), NEW t \in Seq(S), InOrder(s, t), Range(t) \subseteq Range(s)
  PROVE  Distinct(t)
<1>1. Len(s) \in Nat /\ Len(t) \in Nat
  BY LenProperties
<1> SUFFICES ASSUME NEW i \in 1 .. Len(t), NEW j \in 1 .. Len(t), t[i] = t[j], i < j
             PROVE  FALSE
  <2>1. ASSUME NEW i \in 1 .. Len(t), NEW j \in 1 .. Len(t), t[i] = t[j], i # j
        PROVE  FALSE
    <3>1. i < j \/ j < i
      BY <2>1, <1>1
    <3> QED
      BY <3>1, <2>1
  <2> QED
    BY <2>1 DEF Distinct
<1>2. PICK p \in 1 .. Len(s) : s[p] = t[i]
  BY RangeOf
<1>3. p < p
  BY <1>2 DEF InOrder
<1> QED
  BY <1>3, <1>1

\* A sequence after another: what it has, and in which order.
LEMMA JoinedRange ==
  ASSUME NEW S, NEW s \in Seq(S), NEW t \in Seq(S)
  PROVE  Range(s \o t) = Range(s) \cup Range(t)
BY RangeConcatenation

LEMMA JoinedAhead ==
  ASSUME NEW S, NEW s \in Seq(S), NEW t \in Seq(S), NEW a, NEW b,
         Ahead(s, a, b), Ahead(t, a, b), ~(b \in Range(s) /\ a \in Range(t))
  PROVE  Ahead(s \o t, a, b)
<1>1. /\ Len(s) \in Nat /\ Len(t) \in Nat
      /\ Len(s \o t) = Len(s) + Len(t)
      /\ \A i \in 1 .. Len(s) : (s \o t)[i] = s[i]
      /\ \A i \in 1 .. Len(t) : (s \o t)[Len(s) + i] = t[i]
  BY JoinedElements
<1> DEFINE u == s \o t
<1> HIDE DEF u
<1>2. \A i \in 1 .. Len(u) : \/ i \in 1 .. Len(s) /\ u[i] = s[i]
                             \/ i - Len(s) \in 1 .. Len(t) /\ u[i] = t[i - Len(s)]
  <2>1. ASSUME NEW i \in 1 .. Len(u)
        PROVE  \/ i \in 1 .. Len(s)
               \/ i - Len(s) \in 1 .. Len(t) /\ Len(s) + (i - Len(s)) = i
    BY <1>1 DEF u
  <2> QED
    BY <2>1, <1>1 DEF u
<1> SUFFICES ASSUME NEW i \in 1 .. Len(u), NEW j \in 1 .. Len(u), u[i] = a, u[j] = b
             PROVE  i < j
  BY DEF Ahead, u
<1>3. Len(u) \in Nat
  BY <1>1 DEF u
<1>4. CASE i \in 1 .. Len(s) /\ u[i] = s[i]
  <2>1. CASE j \in 1 .. Len(s) /\ u[j] = s[j]
    BY <1>4, <2>1 DEF Ahead
  <2>2. CASE j - Len(s) \in 1 .. Len(t)
    BY <1>1, <1>3, <1>4, <2>2
  <2> QED
    BY <2>1, <2>2, <1>2
<1>5. CASE i - Len(s) \in 1 .. Len(t) /\ u[i] = t[i - Len(s)]
  <2>1. CASE j \in 1 .. Len(s) /\ u[j] = s[j]
    BY <1>5, <2>1, RangeOf
  <2>2. CASE j - Len(s) \in 1 .. Len(t) /\ u[j] = t[j - Len(s)]
    <3>1. i - Len(s) < j - Len(s)
      BY <1>5, <2>2 DEF Ahead
    <3> QED
      BY <3>1, <1>1, <1>3
  <2> QED
    BY <2>1, <2>2, <1>2
<1> QED
  BY <1>2, <1>4, <1>5

LEMMA JoinedDistinct ==
  ASSUME NEW S, NEW s \in Seq(S), NEW t \in Seq(S), Distinct(s), Distinct(t),
         Range(s) \cap Range(t) = {}
  PROVE  Distinct(s \o t)
<1>1. /\ Len(s) \in Nat /\ Len(t) \in Nat
      /\ Len(s \o t) = Len(s) + Len(t)
      /\ \A i \in 1 .. Len(s) : (s \o t)[i] = s[i]
      /\ \A i \in 1 .. Len(t) : (s \o t)[Len(s) + i] = t[i]
  BY JoinedElements
<1> DEFINE u == s \o t
<1> HIDE DEF u
<1>2. \A i \in 1 .. Len(u) : \/ i \in 1 .. Len(s) /\ u[i] = s[i]
                             \/ i - Len(s) \in 1 .. Len(t) /\ u[i] = t[i - Len(s)]
  <2>1. ASSUME NEW i \in 1 .. Len(u)
        PROVE  \/ i \in 1 .. Len(s)
               \/ i - Len(s) \in 1 .. Len(t) /\ Len(s) + (i - Len(s)) = i
    BY <1>1 DEF u
  <2> QED
    BY <2>1, <1>1 DEF u
<1> SUFFICES ASSUME NEW i \in 1 .. Len(u), NEW j \in 1 .. Len(u), u[i] = u[j]
             PROVE  i = j
  BY DEF Distinct, u
<1>3. CASE i \in 1 .. Len(s) /\ u[i] = s[i] /\ j \in 1 .. Len(s) /\ u[j] = s[j]
  BY <1>3 DEF Distinct
<1>4. CASE i - Len(s) \in 1 .. Len(t) /\ u[i] = t[i - Len(s)]
           /\ j - Len(s) \in 1 .. Len(t) /\ u[j] = t[j - Len(s)]
  <2>1. i - Len(s) = j - Len(s)
    BY <1>4 DEF Distinct
  <2> QED
    BY <2>1, <1>1
<1>5. CASE i \in 1 .. Len(s) /\ u[i] = s[i] /\ j - Len(s) \in 1 .. Len(t) /\ u[j] = t[j - Len(s)]
  BY <1>5, RangeOf
<1>6. CASE j \in 1 .. Len(s) /\ u[j] = s[j] /\ i - Len(s) \in 1 .. Len(t) /\ u[i] = t[i - Len(s)]
  BY <1>6, RangeOf
<1> QED
  BY <1>2, <1>3, <1>4, <1>5, <1>6

\* An element more at the end.
LEMMA AppendedAhead ==
  ASSUME NEW S, NEW s \in Seq(S), NEW x \in S
  PROVE  /\ Append(s, x) \in Seq(S)
         /\ Len(Append(s, x)) = Len(s) + 1
         /\ Range(Append(s, x)) = Range(s) \cup {x}
         /\ Distinct(s) /\ x \notin Range(s) => Distinct(Append(s, x))
         /\ \A a, b : Ahead(s, a, b) /\ (a = x => b \notin Range(s) \cup {x}) => Ahead(Append(s, x), a, b)
<1> DEFINE n == Len(s)
           u == Append(s, x)
<1>1. /\ n \in Nat /\ u \in Seq(S) /\ Len(u) = n + 1
      /\ \A i \in 1 .. n : u[i] = s[i]
      /\ u[n + 1] = x
  BY AppendProperties, LenProperties
<1> HIDE DEF u
<1>2. \A i \in 1 .. n + 1 : i \in 1 .. n \/ i = n + 1
  BY <1>1
<1>3. n + 1 \in 1 .. n + 1 /\ \A i \in 1 .. n : i \in 1 .. n + 1 /\ i < n + 1
  BY <1>1
<1>4. Range(u) = Range(s) \cup {x}
  <2>1. ASSUME NEW y \in Range(u) PROVE y \in Range(s) \cup {x}
    BY <2>1, <1>1, <1>2, RangeOf
  <2>2. ASSUME NEW y \in Range(s) \cup {x} PROVE y \in Range(u)
    BY <2>2, <1>1, <1>3, RangeOf
  <2> QED
    BY <2>1, <2>2
<1>5. ASSUME Distinct(s), x \notin Range(s)
      PROVE  Distinct(u)
  <2> SUFFICES ASSUME NEW i \in 1 .. n + 1, NEW j \in 1 .. n + 1, u[i] = u[j]
               PROVE  i = j
    BY <1>1 DEF Distinct
  <2> QED
    BY <1>1, <1>2, <1>5, RangeOf DEF Distinct
<1>6. ASSUME NEW a, NEW b, Ahead(s, a, b), a = x => b \notin Range(s) \cup {x}
      PROVE  Ahead(u, a, b)
  <2> SUFFICES ASSUME NEW i \in 1 .. n + 1, NEW j \in 1 .. n + 1, u[i] = a, u[j] = b
               PROVE  i < j
    BY <1>1 DEF Ahead
  <2> QED
    BY <1>1, <1>2, <1>3, <1>6, RangeOf DEF Ahead
<1> QED
  BY <1>1, <1>4, <1>5, <1>6 DEF u
-----------------------------------------------------------------------------
(***************************************************************************)
(* What Selected keeps comes from increasing positions.                    *)
(***************************************************************************)

\* The first k elements of t come from positions of s up to n, by e.
Embeds(e, t, s, n) ==
  /\ e \in [1 .. Len(t) -> 1 .. n]
  /\ \A i \in 1 .. Len(t) : t[i] = s[e[i]]
  /\ \A i, j \in 1 .. Len(t) : i < j => e[i] < e[j]

LEMMA SelectedEmbeds ==
  ASSUME NEW A, NEW s \in Seq(A), NEW S
  PROVE  /\ \E e : Embeds(e, Selected(s, S), s, Len(s))
         /\ Range(Selected(s, S)) = Range(s) \cap S
<1>1. Len(s) \in Nat /\ \A i \in 1 .. Len(s) : s[i] \in A
  BY ElementOfSeq, LenProperties
<1> DEFINE f == CHOOSE g : Selects(g, s, S, Len(s))
           Good(n) ==
             /\ f[n] \in Seq(A)
             /\ \E e : Embeds(e, f[n], s, n)
             /\ \A i \in 1 .. n : s[i] \in S => \E j \in 1 .. Len(f[n]) : f[n][j] = s[i]
             /\ \A j \in 1 .. Len(f[n]) : f[n][j] \in S
<1>2. Selects(f, s, S, Len(s))
  BY <1>1, SelectsExists
<1>3. Selected(s, S) = f[Len(s)]
  BY DEF Selected, Selects
<1> HIDE DEF f
<1> DEFINE T == {n \in 0 .. Len(s) : ~Good(n)}
<1>4. T = {}
  <2> SUFFICES ASSUME T # {} PROVE FALSE
    OBVIOUS
  <2>1. T \in SUBSET Nat
    BY <1>1
  <2>2. PICK n \in T : \A m \in T : n <= m
    BY <2>1, LeastNumber
  <2>3. f[n] = IF n = 0 THEN <<>>
               ELSE IF s[n] \in S THEN Append(f[n - 1], s[n]) ELSE f[n - 1]
    BY <1>2 DEF Selects
  <2>4. CASE n = 0
    <3>1. f[n] = <<>> /\ Len(f[n]) = 0 /\ f[n] \in Seq(A)
      BY <2>3, <2>4, EmptySeq
    <3>2. \A i \in 1 .. 0 : FALSE
      OBVIOUS
    <3> DEFINE e == [i \in 1 .. 0 |-> 0]
    <3>3. Embeds(e, f[n], s, 0)
      BY <3>1, <3>2 DEF Embeds
    <3> QED
      BY <3>1, <3>2, <3>3, <2>4
  <2>5. CASE n # 0
    <3> DEFINE t == f[n - 1]
    <3>1. n \in 1 .. Len(s) /\ n - 1 \in 0 .. Len(s) /\ n - 1 \in Nat
      BY <1>1, <2>5
    <3>2. Good(n - 1)
      <4>1. n - 1 \notin T
        BY <2>2, <3>1
      <4> QED
        BY <4>1, <3>1
    <3>3. PICK e : Embeds(e, t, s, n - 1)
      BY <3>2
    <3>4. t \in Seq(A) /\ Len(t) \in Nat
      BY <3>2, LenProperties
    <3>5. \A i \in 1 .. n : i \in 1 .. n - 1 \/ i = n
      BY <3>1
    <3>6. n \in 1 .. n /\ \A i \in 1 .. n - 1 : i \in 1 .. n /\ i < n
      BY <3>1
    <3>7. CASE s[n] \notin S
      <4>1. f[n] = t
        BY <2>3, <2>5, <3>7
      <4>2. Embeds(e, f[n], s, n)
        BY <3>3, <3>6, <4>1 DEF Embeds
      <4> QED
        BY <4>1, <4>2, <3>2, <3>5, <3>7
    <3>8. CASE s[n] \in S
      <4> DEFINE k == Len(t)
                 u == Append(t, s[n])
                 d == [i \in 1 .. k + 1 |-> IF i <= k THEN e[i] ELSE n]
      <4>1. f[n] = u
        BY <2>3, <2>5, <3>8
      <4>2. s[n] \in A
        BY <1>1, <3>1
      <4>3. /\ u \in Seq(A) /\ Len(u) = k + 1 /\ u[k + 1] = s[n]
            /\ \A i \in 1 .. k : u[i] = t[i]
        BY <3>4, <4>2, AppendProperties
      <4>4. /\ \A i \in 1 .. k + 1 : i \in 1 .. k \/ i = k + 1
            /\ \A i \in 1 .. k : i \in 1 .. k + 1 /\ i <= k
            /\ k + 1 \in 1 .. k + 1 /\ ~(k + 1 <= k) /\ \A i \in 1 .. k + 1 : ~(k + 1 < i)
        BY <3>4
      <4> HIDE DEF u
      <4>5. /\ \A i \in 1 .. k : d[i] = e[i] /\ d[i] \in 1 .. n /\ d[i] < n
            /\ d[k + 1] = n
        BY <4>4, <3>3, <3>6 DEF Embeds
      <4>6. d \in [1 .. k + 1 -> 1 .. n]
        BY <4>4, <4>5, <3>6
      <4> HIDE DEF d
      <4>7. Embeds(d, u, s, n)
        <5>1. \A i \in 1 .. k + 1 : u[i] = s[d[i]]
          BY <4>3, <4>4, <4>5, <3>3 DEF Embeds
        <5>2. \A i, j \in 1 .. k + 1 : i < j => d[i] < d[j]
          BY <4>4, <4>5, <3>3 DEF Embeds
        <5> QED
          BY <5>1, <5>2, <4>3, <4>6 DEF Embeds
      <4>8. \A i \in 1 .. n : s[i] \in S => \E j \in 1 .. k + 1 : u[j] = s[i]
        BY <3>2, <3>5, <4>3, <4>4
      <4>9. \A j \in 1 .. k + 1 : u[j] \in S
        BY <3>2, <3>8, <4>3, <4>4
      <4> QED
        BY <4>1, <4>3, <4>7, <4>8, <4>9
    <3> QED
      BY <3>7, <3>8
  <2> QED
    BY <2>4, <2>5
<1>5. Good(Len(s))
  BY <1>1, <1>4
<1> DEFINE t == Selected(s, S)
<1>6. /\ t \in Seq(A)
      /\ \E e : Embeds(e, t, s, Len(s))
      /\ \A i \in 1 .. Len(s) : s[i] \in S => \E j \in 1 .. Len(t) : t[j] = s[i]
      /\ \A j \in 1 .. Len(t) : t[j] \in S
  BY <1>3, <1>5
<1> HIDE DEF t
<1>7. ASSUME NEW x \in Range(t) PROVE x \in Range(s) \cap S
  <2>1. PICK e : Embeds(e, t, s, Len(s))
    BY <1>6
  <2>2. PICK j \in 1 .. Len(t) : t[j] = x
    BY <1>6, <1>7, RangeOf
  <2>3. x = s[e[j]] /\ e[j] \in 1 .. Len(s)
    BY <2>1, <2>2 DEF Embeds
  <2> QED
    BY <2>2, <2>3, <1>6, RangeOf
<1>8. ASSUME NEW x \in Range(s) \cap S PROVE x \in Range(t)
  BY <1>6, <1>8, RangeOf
<1> QED
  BY <1>6, <1>7, <1>8 DEF t

\* Selected keeps the order, and no element twice.
LEMMA SelectedKeeps ==
  ASSUME NEW A, NEW s \in Seq(A), NEW S
  PROVE  /\ Selected(s, S) \in Seq(A)
         /\ Range(Selected(s, S)) = Range(s) \cap S
         /\ Distinct(s) => Distinct(Selected(s, S))
         /\ \A a, b : Ahead(s, a, b) => Ahead(Selected(s, S), a, b)
<1> DEFINE t == Selected(s, S)
<1>1. t \in Seq(A)
  <2>1. t \in Seq(A \cap S)
    BY SelectedElements
  <2> QED
    BY <2>1, SeqMonotonic
<1>2. Range(t) = Range(s) \cap S
  BY SelectedEmbeds
<1>3. PICK e : Embeds(e, t, s, Len(s))
  BY SelectedEmbeds
<1>4. Len(t) \in Nat /\ Len(s) \in Nat
  BY <1>1, LenProperties
<1> HIDE DEF t
<1>5. \A i, j \in 1 .. Len(t) : e[i] \in 1 .. Len(s) /\ e[j] \in 1 .. Len(s)
                                /\ (i < j => e[i] < e[j]) /\ (j < i => e[j] < e[i])
                                /\ (i < j \/ j < i \/ i = j)
                                /\ t[i] = s[e[i]] /\ t[j] = s[e[j]]
  BY <1>3, <1>4 DEF Embeds
<1>6. ASSUME Distinct(s) PROVE Distinct(t)
  <2> SUFFICES ASSUME NEW i \in 1 .. Len(t), NEW j \in 1 .. Len(t), t[i] = t[j]
               PROVE  i = j
    BY DEF Distinct
  <2>1. e[i] = e[j]
    BY <1>5, <1>6 DEF Distinct
  <2> QED
    BY <2>1, <1>4, <1>5
<1>7. ASSUME NEW a, NEW b, Ahead(s, a, b) PROVE Ahead(t, a, b)
  <2> SUFFICES ASSUME NEW i \in 1 .. Len(t), NEW j \in 1 .. Len(t), t[i] = a, t[j] = b
               PROVE  i < j
    BY DEF Ahead
  <2>1. e[i] < e[j]
    BY <1>5, <1>7 DEF Ahead
  <2>2. e[i] \in Int /\ e[j] \in Int
    BY <1>4, <1>5
  <2> QED
    BY <2>1, <2>2, <1>4, <1>5
<1> QED
  BY <1>1, <1>2, <1>6, <1>7 DEF t
-----------------------------------------------------------------------------
(***************************************************************************)
(* The ends of a sequence.                                                 *)
(***************************************************************************)

\* Without its last element.
LEMMA FrontFacts ==
  ASSUME NEW S, NEW s \in Seq(S), s # <<>>
  PROVE  /\ Len(s) \in Nat \ {0}
         /\ Last(s) = s[Len(s)]
         /\ Front(s) \in Seq(S)
         /\ Len(Front(s)) = Len(s) - 1
         /\ \A i \in 1 .. Len(s) - 1 : Front(s)[i] = s[i]
         /\ Range(s) = Range(Front(s)) \cup {Last(s)}
<1>1. Len(s) \in Nat \ {0}
  BY EmptySeq
<1> DEFINE n == Len(s)
           t == Front(s)
<1>2. 1 \in 1 .. n + 1 /\ n - 1 \in 0 .. n /\ \A i \in 1 .. n - 1 : i \in 1 .. n /\ 1 + i - 1 = i
  BY <1>1
<1>3. t = SubSeq(s, 1, n - 1)
  BY DEF Front
<1>4. /\ \A i \in 1 .. n - 1 : s[i] \in S
      /\ t = [i \in 1 .. n - 1 |-> s[i]]
  BY <1>1, <1>2, <1>3, ElementOfSeq
<1>5. t \in Seq(S) /\ Len(t) = n - 1
  BY <1>1, <1>4
<1>6. \A i \in 1 .. n - 1 : t[i] = s[i]
  BY <1>4
<1>7. Last(s) = s[n]
  BY DEF Last
<1> HIDE DEF t
<1>8. \A i \in 1 .. n : i \in 1 .. n - 1 \/ i = n
  BY <1>1
<1>9. Range(s) = Range(t) \cup {Last(s)}
  <2>1. ASSUME NEW x \in Range(s) PROVE x \in Range(t) \cup {Last(s)}
    BY <1>5, <1>6, <1>7, <1>8, RangeOf
  <2>2. ASSUME NEW x \in Range(t) \cup {Last(s)} PROVE x \in Range(s)
    <3>1. CASE x = s[n]
      <4>1. n \in 1 .. n
        BY <1>1
      <4> QED
        BY <3>1, <4>1, RangeOf
    <3>2. CASE x \in Range(t)
      <4>1. PICK i \in 1 .. n - 1 : t[i] = x
        BY <3>2, <1>5, RangeOf
      <4> QED
        BY <4>1, <1>2, <1>6, RangeOf
    <3> QED
      BY <2>2, <3>1, <3>2, <1>7
  <2> QED
    BY <2>1, <2>2
<1> QED
  BY <1>1, <1>5, <1>6, <1>7, <1>9 DEF t
=============================================================================
