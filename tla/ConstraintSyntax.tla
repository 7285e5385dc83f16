--------------------------- MODULE ConstraintSyntax ---------------------------
(***************************************************************************)
(* VersionParser::parseConstraint: the ranges that ~, ^, x and - stand     *)
(* for.  What is written is [form, digits, stability]: one to four         *)
(* numbers, and a stability or Unsaid; the forms are                       *)
(*   "tilde" ~1.2    "caret" ^1.2    "x" 1.2.*                             *)
(*   "hyphen" 1.2 - 1.3, with `to` and `to_stability` for the second       *)
(*   "basic" >=1.2, with `op` and with `flag` for an @beta                 *)
(* Branches, aliases (as) and references (#) are left out, and a version   *)
(* is written with digits below Base, so that the number of a normalized   *)
(* version is that of its four digits and its stability.                   *)
(***************************************************************************)
EXTENDS Constraints

CONSTANT Base

\* dev, alpha, beta, RC, stable
Stabilities == 0 .. 4
Unsaid == 5
Dev == 0
Stable == 4

Number(d, stability) ==
  (((d[1] * Base + d[2]) * Base + d[3]) * Base + d[4]) * 5 + stability

\* normalize: four digits, and stable unless something else is written.
Digits(written) == [k \in 1 .. 4 |-> IF k <= Len(written) THEN written[k] ELSE 0]
Normalize(written, stability) ==
  Number(Digits(written), IF stability = Unsaid THEN Stable ELSE stability)

\* manipulate_version_string: what follows the position is zeroed.
ManipulateVersionString(written, position, increment) ==
  [k \in 1 .. 4 |-> CASE k > position -> 0
                      [] k = position -> Digits(written)[k] + increment
                      [] k < position -> Digits(written)[k]]

\* The first version of the next line: `-dev` is below all its others.
NextAfter(written, position) ==
  Number(ManipulateVersionString(written, position, 1), Dev)

\* Without a stability, a range begins with the dev versions.
FirstOf(written, stability) ==
  Number(Digits(written), IF stability = Unsaid THEN Dev ELSE stability)

Between(low, high) == <<Single(">=", low), Single("<", high)>>

Larger(m, n) == IF m > n THEN m ELSE n

Tilde(w) ==
  Between(FirstOf(w.digits, w.stability),
        NextAfter(w.digits, Larger(1, Len(w.digits) - 1)))

\* (mutant: a zero is a digit like another)
FirstDigit(digits) == 1

\* The leftmost digit that is not 0, or the last that is written.
CaretPosition(digits) ==
  CASE digits[1] # 0 \/ Len(digits) < 2 -> 1
    [] digits[1] = 0 /\ Len(digits) >= 2 /\ (digits[2] # 0 \/ Len(digits) < 3) -> 2
    [] OTHER -> 3

Caret(w) ==
  Between(FirstOf(w.digits, w.stability), NextAfter(w.digits, CaretPosition(w.digits)))

XRange(w) ==
  LET position == Len(w.digits)
      low == Number(ManipulateVersionString(w.digits, position, 0), Dev)
      high == NextAfter(w.digits, position)
  IN IF low = 0 THEN <<Single("<", high)>> ELSE Between(low, high)

\* With fewer than three digits the whole line of the second version is in.
UpTo(w) ==
  IF Len(w.to) >= 3 \/ w.to_stability # Unsaid
  THEN Single("<=", Normalize(w.to, w.to_stability))
  ELSE Single("<", NextAfter(w.to, Len(w.to)))

Hyphen(w) == <<Single(">=", FirstOf(w.digits, w.stability)), UpTo(w)>>

\* A stability flag, or the dev versions of a `<` or `>=` without modifier.
Basic(w) ==
  LET normalized == Normalize(w.digits, w.stability)
      flagged == w.op # "==" /\ w.flag \notin {Unsaid, Stable} /\ w.stability = Unsaid
  IN <<Single(w.op,
              CASE flagged -> Number(Digits(w.digits), w.flag)
                [] ~flagged /\ w.op \in {"<", ">="} -> FirstOf(w.digits, w.stability)
                [] OTHER -> normalized)>>

ParseConstraint(w) ==
  CASE w.form = "tilde"  -> Tilde(w)
    [] w.form = "caret"  -> Caret(w)
    [] w.form = "x"      -> XRange(w)
    [] w.form = "hyphen" -> Hyphen(w)
    [] w.form = "basic"  -> Basic(w)

\* parse_constraints for the alternatives of a text, each of one constraint.
Parse(alternatives) ==
  LET group(w) == LET parts == ParseConstraint(w) IN
                    IF Len(parts) = 1 THEN parts[1] ELSE Multi(parts, TRUE)
  IN Create([k \in DOMAIN alternatives |-> group(alternatives[k])], FALSE)

-----------------------------------------------------------------------------
\* What the documentation of each operator says, for a version of four digits d
\* and a stability s.
SamePrefix(d, written, n) == \A k \in 1 .. n : d[k] = Digits(written)[k]

Upwards(d, s, w) == Number(d, s) >= FirstOf(w.digits, w.stability)

SaysOf(w, d, s) ==
  CASE w.form = "tilde" -> Upwards(d, s, w) /\ SamePrefix(d, w.digits, Larger(1, Len(w.digits) - 1))
    [] w.form = "caret" ->
         /\ Upwards(d, s, w)
         /\ \E n \in 1 .. 3 :
              /\ SamePrefix(d, w.digits, n)
              /\ \A k \in 1 .. n - 1 : w.digits[k] = 0
              /\ n <= Len(w.digits)
              /\ w.digits[n] # 0 \/ n = 3 \/ n = Len(w.digits)
    [] w.form = "x" -> SamePrefix(d, w.digits, Len(w.digits))
    [] w.form = "hyphen" ->
         /\ Upwards(d, s, w)
         /\ \/ Number(d, s) <= Normalize(w.to, w.to_stability)
            \/ Len(w.to) < 3 /\ w.to_stability = Unsaid /\ SamePrefix(d, w.to, Len(w.to))
    [] w.form = "basic" ->
         LET flag == IF w.op = "==" \/ w.flag = Stable THEN Unsaid ELSE w.flag
             said == IF w.stability = Unsaid THEN flag ELSE w.stability
             first == IF said = Unsaid /\ w.op \in {"<", ">="} THEN Dev
                      ELSE IF said = Unsaid THEN Stable ELSE said
         IN Compare(Number(d, s), w.op, Number(Digits(w.digits), first))

\* A constraint with alternatives, as Parse and its fusion of adjacent ranges
\* make it, admits the versions that the documentation gives one of them: the
\* line of the first digit that is not zero for ^, of all but the last for ~,
\* of all for x, both ends for a hyphen (parse_constraints, constraint.rs:423).
RangesByPrefix(alternatives, Sample) ==
  LET parsed == Parse(alternatives) IN
  \A d \in Sample, s \in Stabilities :
    MatchesVersion(parsed, Number(d, s))
      <=> \E k \in DOMAIN alternatives : SaysOf(alternatives[k], d, s)
===============================================================================
