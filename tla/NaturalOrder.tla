----------------------------- MODULE NaturalOrder -----------------------------
(***************************************************************************)
(* strnatcmp, by which sort-packages orders the names of a section: runs   *)
(* of digits are compared as numbers, or as fractions when one of them     *)
(* starts with 0.  A name is a sequence of numbers: 0 to 9 are digits,     *)
(* what is above or below another character, as the bytes are.  Names have *)
(* no spaces, and none is empty.                                           *)
(***************************************************************************)
EXTENDS Integers, Sequences

Digits == 0 .. 9

\* What is read past the end is 0, which is no digit.
DigitAt(s, i) == i \in DOMAIN s /\ s[i] \in Digits

Compared(x, y) == IF x < y THEN -1 ELSE IF x > y THEN 1 ELSE 0

\* The first position from i on that holds no digit.
RECURSIVE PastDigits(_, _)
PastDigits(s, i) == IF DigitAt(s, i) THEN PastDigits(s, i + 1) ELSE i

\* The first two digits that differ, in two runs; the shorter is less.
RECURSIVE CompareLeft(_, _, _, _)
CompareLeft(a, i, b, j) ==
  IF ~DigitAt(a, i) \/ ~DigitAt(b, j)
  THEN IF DigitAt(a, i) THEN 1 ELSE IF DigitAt(b, j) THEN -1 ELSE 0
  ELSE IF a[i] # b[j] THEN Compared(a[i], b[j]) ELSE CompareLeft(a, i + 1, b, j + 1)

\* The longer run is greater; of one length, the first difference decides.
CompareRight(a, i, b, j) ==
  LET length(s, k) == PastDigits(s, k) - k
  IN IF length(a, i) # length(b, j) THEN Compared(length(a, i), length(b, j))
     ELSE CompareLeft(a, i, b, j)

Fractional(x, y) == x = 0 \/ y = 0

RECURSIVE StrnatcmpFrom(_, _, _, _)
StrnatcmpFrom(a, i, b, j) ==
  LET ended(x, y) == IF x > Len(a) \/ y > Len(b)
                     THEN IF x > Len(a) /\ y > Len(b) THEN 0 ELSE IF x > Len(a) THEN -1 ELSE 1
                     ELSE 2
      \* One character of each, and the rest.
      onwards(x, y) ==
        CASE Compared(a[x], b[y]) # 0 -> Compared(a[x], b[y])
          [] ended(x + 1, y + 1) # 2 -> ended(x + 1, y + 1)
          [] OTHER -> StrnatcmpFrom(a, x + 1, b, y + 1)
      numbers == IF Fractional(a[i], b[j]) THEN CompareLeft(a, i, b, j)
                 ELSE CompareRight(a, i, b, j)
      x == PastDigits(a, i)
      y == PastDigits(b, j)
  IN IF ~DigitAt(a, i) \/ ~DigitAt(b, j) THEN onwards(i, j)
     ELSE CASE numbers # 0 -> numbers
            [] ended(x, y) # 2 -> ended(x, y)
            [] OTHER -> onwards(x, y)

\* Zeros before a digit, at the start, do not count.
RECURSIVE PastZeros(_, _)
PastZeros(s, i) == IF s[i] = 0 /\ DigitAt(s, i + 1) THEN PastZeros(s, i + 1) ELSE i

Strnatcmp(a, b) == StrnatcmpFrom(a, PastZeros(a, 1), b, PastZeros(b, 1))

\* php, hhvm, ext-*, lib-*, the rest of the platform, packages: 0 to 5, and a dash
\* before the name.
SortPrefix(group, name) == <<group, -1>> \o name

-----------------------------------------------------------------------------
\* A sort by comparisons that are not those of an order gives whatever it
\* gives, or panics (sort_packages): names are put in one order, in which no
\* two are equal, and in which numbers of packages come as numbers.
TotalOrder(a, names) ==
  /\ \A b \in names :
       /\ Strnatcmp(a, b) = -Strnatcmp(b, a)
       /\ Strnatcmp(a, b) = 0 => a = b
  /\ \A b \in {n \in names : Strnatcmp(a, n) < 0} :
       \A c \in {n \in names : Strnatcmp(b, n) < 0} : Strnatcmp(a, c) < 0

NumbersAscend(prefix) ==
  \A i, j \in 1 .. 22 : LET run(n) == IF n < 10 THEN <<n>> ELSE <<n \div 10, n % 10>>
                         IN i < j => Strnatcmp(prefix \o run(i), prefix \o run(j)) < 0
===============================================================================
