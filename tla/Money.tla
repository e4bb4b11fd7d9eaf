-------------------------------- MODULE Money --------------------------------
(***************************************************************************)
(* Amounts of money as text: the reading of a decimal string as an integer *)
(* number of minor units, of a given width, and the writing of it.         *)
(*                                                                         *)
(* A string is what is left of it without "$" and outer spaces: a sign,    *)
(* the groups of digits between commas, a point and its decimals, and      *)
(* whether there is anything else in it (junk).                            *)
(*                                                                         *)
(* Source: internal/money/money.go.                                        *)
(***************************************************************************)
EXTENDS Integers, SequencesExt

CONSTANT MaxInt       \* the largest int64

ASSUME WidthAssumption == MaxInt \in Nat /\ MaxInt > 9

Digits == 0..9
Amounts == [minus : BOOLEAN, groups : Seq(Seq(Digits)), frac : Seq(Digits), junk : BOOLEAN]

\* Integers wrap at their width.
Wrap(n) == ((n + MaxInt + 1) % (2 * (MaxInt + 1))) - (MaxInt + 1)

Currencies == {"MXN", "JPY"}
Exponent(currency) == IF currency = "JPY" THEN 0 ELSE 2
Milli == 3

Read(n) == [error |-> FALSE, n |-> n]
Unread == [error |-> TRUE, n |-> 0]

\* "1,300.50", the only layout with commas that is read.
ThousandsForm(groups) ==
  /\ Len(groups[1]) \in 1..3
  /\ \A g \in 2..Len(groups) : Len(groups[g]) = 3

\* Mutant: the guard forgets the digit.
TooLargeByOne(n, digit) == n > MaxInt \div 10

\* The guard of the loop over the digits.
TooLarge(n, digit) == n > (MaxInt - digit) \div 10

NextDigit(read, digit) ==
  IF read.error \/ TooLarge(read.n, digit) THEN Unread ELSE Read(Wrap(read.n * 10 + digit))

\* The loop over the digits.
ReadDigits(digits) ==
  LET read[i \in 0..Len(digits)] ==
        IF i = 0 THEN Read(0) ELSE NextDigit(read[i - 1], digits[i])
  IN  read[Len(digits)]

Padded(frac, decimals) == frac \o [i \in 1..decimals - Len(frac) |-> 0]

ParseFixedPoint(text, decimals) ==
  LET int == FlattenSeq(text.groups)
      read == ReadDigits(int \o Padded(text.frac, decimals))
  IN  IF \/ text.junk
         \/ Len(text.groups) > 1 /\ ~ThousandsForm(text.groups)
         \/ int = << >> /\ text.frac = << >>
         \/ Len(text.frac) > decimals
         \/ read.error
      THEN Unread
      ELSE Read(IF text.minus THEN Wrap(-read.n) ELSE read.n)

Pow[n \in Nat] == IF n = 0 THEN 1 ELSE 10 * Pow[n - 1]

\* The digits of a natural number, at least one, and those of a fixed width.
Tens(n) == CHOOSE k \in 1..n + 1 : n < Pow[k] /\ \A j \in 1..k - 1 : n >= Pow[j]
Fixed(n, width) == [i \in 1..width |-> (n \div Pow[width - i]) % 10]
Written(n) == Fixed(n, Tens(n))

Format(minor, exponent) ==
  LET size == IF minor < 0 THEN Wrap(-minor) ELSE minor
      pow == Pow[exponent]
  IN  [minus |-> minor < 0, groups |-> <<Written(size \div pow)>>,
       frac |-> Fixed(size % pow, exponent), junk |-> FALSE]

-----------------------------------------------------------------------------
(* The reference: the number that a string stands for, of any size, in       *)
(* units of 1 / 10^decimals.                                                 *)

Number(digits) ==
  LET number[i \in 0..Len(digits)] == IF i = 0 THEN 0 ELSE number[i - 1] * 10 + digits[i]
  IN  number[Len(digits)]

\* A string that is read stands for that amount exactly; one without a comma
\* that is a number of at most these decimals, and no larger than the width
\* holds, is read; a decimal comma ("300,50") never is.
ReadExactly(text, decimals) ==
  LET read == ParseFixedPoint(text, decimals)
      size == Number(FlattenSeq(text.groups) \o text.frac)
      scaled == size * Pow[decimals]
      unit == Pow[Len(text.frac)]
      decimalComma == Len(text.groups) = 2 /\ Len(text.groups[2]) \in {1, 2} /\ text.frac = << >>
  IN  /\ ~read.error => read.n * unit = (IF text.minus THEN -scaled ELSE scaled)
      /\ (/\ ~text.junk /\ Len(text.groups) = 1 /\ Len(text.frac) <= decimals
          /\ text.groups[1] \o text.frac # << >>
          /\ scaled <= MaxInt * unit) => ~read.error
      /\ decimalComma => read.error

\* What is written reads back, for every amount but the smallest integer.
ReadsBack(minor, exponent) == ParseFixedPoint(Format(minor, exponent), exponent) = Read(minor)
=============================================================================
