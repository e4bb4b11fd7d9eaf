----------------------------- MODULE TextProofs -----------------------------
(***************************************************************************)
(* What the loop over the digits, the fusion of two lists, the tokens of   *)
(* days and months and the reply parser promise: for every width and rrfK, *)
(* for lists of every length that rrfK allows, for every day, every text.  *)
(***************************************************************************)
EXTENDS Texts, FiniteSetTheorems, SequenceTheorems, NaturalsInduction,
        WellFoundedInduction, TLAPS

(***************************************************************************)
(* Induction. The theorems of the library take an operator, which the      *)
(* provers cannot instantiate: here a property is the set of the numbers   *)
(* that have it.                                                           *)
(***************************************************************************)

\* A set of naturals has a least element, and a bounded one a greatest.
LEMMA Least ==
  ASSUME NEW T \in SUBSET Nat, T # {}
  PROVE  \E x \in T : \A y \in T : x <= y
<1>1. \E x \in T : \A y \in T : ~ (<<y, x>> \in OpToRel(<, Nat))
  BY NatLessThanWellFounded, WFMin
<1>2. \A x, y \in Nat : <<y, x>> \in OpToRel(<, Nat) <=> y < x
  BY DEF OpToRel
<1>3. \A x \in T : x \in Nat
  OBVIOUS
<1>4. \E x \in T : \A y \in T : ~(y < x)
  BY <1>1, <1>2, <1>3, Zenon
<1> QED
  BY <1>3, <1>4

LEMMA Greatest ==
  ASSUME NEW T \in SUBSET Nat, T # {}, NEW n \in Nat, \A x \in T : x <= n
  PROVE  \E x \in T : \A y \in T : y <= x
<1> DEFINE U == {n - x : x \in T}
<1>1. U \in SUBSET Nat /\ U # {}
  <2>1. \A x \in T : x \in Nat /\ n - x \in Nat
    OBVIOUS
  <2>2. PICK x \in T : TRUE
    OBVIOUS
  <2>3. n - x \in U
    OBVIOUS
  <2> QED
    BY <2>1, <2>3
<1>2. PICK u \in U : \A v \in U : u <= v
  BY <1>1, Least
<1>3. PICK x \in T : u = n - x
  OBVIOUS
<1>4. \A y \in T : u <= n - y
  BY <1>2
<1> QED
  BY <1>3, <1>4

\* Induction, over the set of the numbers that have a property.
LEMMA Upward ==
  ASSUME NEW P, 0 \in P, \A i \in Nat : i \in P => i + 1 \in P
  PROVE  \A i \in Nat : i \in P
<1> DEFINE T == {i \in Nat : i \notin P}
<1>1. ASSUME T # {} PROVE FALSE
  <2>1. PICK x \in T : \A y \in T : x <= y
    BY <1>1, Least
  <2>2. x # 0 /\ x - 1 \in Nat /\ x - 1 \notin T /\ (x - 1) + 1 = x
    BY <2>1
  <2> QED
    BY <2>1, <2>2
<1> QED
  BY <1>1

LEMMA UpTo ==
  ASSUME NEW n \in Nat, NEW P, 0 \in P, \A i \in 0..n - 1 : i \in P => i + 1 \in P
  PROVE  \A i \in 0..n : i \in P
<1> DEFINE Q == {i \in Nat : i <= n => i \in P}
<1>1. 0 \in Q
  OBVIOUS
<1>2. \A i \in Nat : i \in Q => i + 1 \in Q
  OBVIOUS
<1> HIDE DEF Q
<1>3. \A i \in Nat : i \in Q
  BY <1>1, <1>2, Upward
<1> QED
  BY <1>3 DEF Q

\* A loop over a sequence has a value after each element.
IsRun(f, S, step, a, s, n) ==
  /\ f \in [0..n -> S] /\ f[0] = a
  /\ \A i \in 1..n : f[i] = step[<<f[i - 1], s[i]>>]

LEMMA Loop ==
  ASSUME NEW S, NEW D, NEW step \in [S \X D -> S], NEW a \in S, NEW n \in Nat, NEW s \in [1..n -> D]
  PROVE  \E f : IsRun(f, S, step, a, s, n)
<1> DEFINE P == {k \in 0..n : \E f \in [0..k -> S] : f[0] = a /\ \A i \in 1..k : f[i] = step[<<f[i - 1], s[i]>>]}
<1>1. 0 \in P
  <2> DEFINE f == [i \in 0..0 |-> a]
  <2>1. f \in [0..0 -> S] /\ f[0] = a /\ \A i \in 1..0 : FALSE
    OBVIOUS
  <2> HIDE DEF f
  <2> QED
    BY <2>1
<1>2. ASSUME NEW k \in 0..n - 1, k \in P PROVE k + 1 \in P
  <2>1. PICK f \in [0..k -> S] : f[0] = a /\ \A i \in 1..k : f[i] = step[<<f[i - 1], s[i]>>]
    BY <1>2
  <2> DEFINE g == [i \in 0..k + 1 |-> IF i <= k THEN f[i] ELSE step[<<f[k], s[k + 1]>>]]
  <2>2. s[k + 1] \in D /\ f[k] \in S
    BY <1>2
  <2>3. g \in [0..k + 1 -> S] /\ \A i \in 0..k : g[i] = f[i]
    BY <2>2
  <2>4. g[k + 1] = step[<<f[k], s[k + 1]>>]
    BY <1>2
  <2>5. \A i \in 1..k + 1 : g[i] = step[<<g[i - 1], s[i]>>]
    <3> SUFFICES ASSUME NEW i \in 1..k + 1 PROVE g[i] = step[<<g[i - 1], s[i]>>]
      OBVIOUS
    <3>1. CASE i = k + 1
      <4>1. i - 1 = k /\ k \in 0..k
        BY <3>1
      <4> HIDE DEF g
      <4>2. g[i - 1] = f[k] /\ s[i] = s[k + 1]
        BY <2>3, <3>1, <4>1
      <4> QED
        BY <2>4, <3>1, <4>2
    <3>2. CASE i <= k
      BY <1>2, <2>1, <2>3, <3>2
    <3> QED
      BY <3>1, <3>2
  <2> HIDE DEF g
  <2>6. g[0] = a
    BY <1>2, <2>1, <2>3
  <2> QED
    BY <1>2, <2>3, <2>5, <2>6
<1>3. n \in P
  <2> HIDE DEF P
  <2>1. \A i \in 0..n : i \in P
    BY <1>1, <1>2, UpTo
  <2> QED
    BY <2>1
<1> QED
  BY <1>3 DEF IsRun

-----------------------------------------------------------------------------
(***************************************************************************)
(* Amounts.                                                                *)
(***************************************************************************)

\* The overflow guard of parseFixedPoint refuses a digit exactly when the number
\* with it would not fit, the last digit of the largest integer included.
THEOREM GuardIsExact ==
  ASSUME NEW n \in 0..MaxInt, NEW digit \in Digits
  PROVE  TooLarge(n, digit) <=> n * 10 + digit > MaxInt
BY WidthAssumption DEF TooLarge, Digits

\* So a step of the loop never wraps: it is exact, or the amount is not read.
THEOREM DigitIsExact ==
  ASSUME NEW n \in 0..MaxInt, NEW digit \in Digits
  PROVE  NextDigit(Read(n), digit) =
           IF n * 10 + digit <= MaxInt THEN Read(n * 10 + digit) ELSE Unread
<1> DEFINE sum == n * 10 + digit
<1>1. sum \in Nat /\ MaxInt \in Nat
  BY WidthAssumption DEF Digits
<1>2. ~Read(n).error /\ Read(n).n = n
  BY DEF Read
<1>3. CASE sum <= MaxInt
  <2>1. (sum + MaxInt + 1) % (2 * (MaxInt + 1)) = sum + MaxInt + 1
    <3>1. \A k, m \in Nat : m > 0 /\ k < m => k % m = k
      OBVIOUS
    <3> QED
      BY <1>1, <1>3, <3>1
  <2>2. Wrap(sum) = sum
    BY <1>1, <2>1 DEF Wrap
  <2>3. ~TooLarge(n, digit)
    BY <1>1, <1>3, GuardIsExact
  <2> QED
    BY <1>2, <1>3, <2>2, <2>3 DEF NextDigit
<1>4. CASE sum > MaxInt
  BY <1>1, <1>2, <1>4, GuardIsExact DEF NextDigit
<1> QED
  BY <1>1, <1>3, <1>4

\* The powers of ten.
LEMMA PowIs == Pow[0] = 1 /\ \A n \in Nat : Pow[n] \in Nat /\ Pow[n + 1] = 10 * Pow[n]
<1> DEFINE Run(g, n) == g \in [0..n -> Nat] /\ g[0] = 1 /\ \A i \in 1..n : g[i] = 10 * g[i - 1]
           P == {n \in Nat : \E g : Run(g, n)}
<1>1. \A n \in Nat : \E g : Run(g, n)
  <2>1. 0 \in P
    <3>1. Run([i \in 0..0 |-> 1], 0)
      OBVIOUS
    <3> QED
      BY <3>1
  <2>2. ASSUME NEW n \in Nat, n \in P PROVE n + 1 \in P
    <3>1. PICK g : Run(g, n)
      BY <2>2
    <3> DEFINE h == [i \in 0..n + 1 |-> IF i <= n THEN g[i] ELSE 10 * g[n]]
    <3>2. h \in [0..n + 1 -> Nat] /\ h[0] = 1
      BY <3>1
    <3>3. \A i \in 1..n + 1 : h[i] = 10 * h[i - 1]
      <4>1. h[n + 1] = 10 * g[n] /\ (n + 1) - 1 = n /\ \A i \in 0..n : h[i] = g[i]
        OBVIOUS
      <4>2. \A i \in 1..n : i - 1 \in 0..n /\ i \in 0..n
        OBVIOUS
      <4> HIDE DEF h
      <4>3. ASSUME NEW i \in 1..n + 1 PROVE h[i] = 10 * h[i - 1]
        <5>1. CASE i = n + 1
          BY <4>1, <5>1
        <5>2. CASE i \in 1..n
          BY <3>1, <4>1, <4>2, <5>2
        <5> QED
          BY <5>1, <5>2
      <4> QED
        BY <4>3
    <3> HIDE DEF h
    <3>4. Run(h, n + 1)
      BY <3>2, <3>3
    <3>5. n + 1 \in Nat
      OBVIOUS
    <3> HIDE DEF Run
    <3> QED
      BY <3>4, <3>5
  <2> HIDE DEF P
  <2>3. \A n \in Nat : n \in P
    BY <2>1, <2>2, Upward
  <2> QED
    BY <2>3 DEF P
<1>2. ASSUME NEW n \in Nat, NEW m \in Nat, NEW g, NEW h, Run(g, n), Run(h, m), n <= m
      PROVE  g[n] = h[n]
  <2> DEFINE Q == {i \in 0..n : g[i] = h[i]}
  <2>1. 0 \in Q
    BY <1>2
  <2>2. ASSUME NEW i \in 0..n - 1, i \in Q PROVE i + 1 \in Q
    <3>1. i + 1 \in 1..n /\ i + 1 \in 1..m /\ (i + 1) - 1 = i
      BY <1>2
    <3>2. g[i + 1] = 10 * g[i] /\ h[i + 1] = 10 * h[i]
      BY <1>2, <3>1
    <3> QED
      BY <2>2, <3>1, <3>2
  <2> HIDE DEF Q
  <2>3. \A i \in 0..n : i \in Q
    BY <2>1, <2>2, UpTo
  <2> QED
    BY <2>3 DEF Q
<1> DEFINE run(n) == CHOOSE g : Run(g, n)
           f == [n \in Nat |-> run(n)[n]]
<1>3. \A n \in Nat : Run(run(n), n)
  BY <1>1
<1>4. f[0] = 1
  BY <1>3
<1>5. ASSUME NEW n \in Nat PROVE f[n] \in Nat /\ f[n + 1] = 10 * f[n]
  <2>1. Run(run(n), n) /\ Run(run(n + 1), n + 1)
    <3>1. n + 1 \in Nat
      OBVIOUS
    <3> HIDE DEF Run, run
    <3> QED
      BY <1>3, <3>1
  <2> HIDE DEF run
  <2>2. run(n)[n] = run(n + 1)[n]
    <3>1. n + 1 \in Nat /\ n <= n + 1
      OBVIOUS
    <3> HIDE DEF Run
    <3> QED
      BY <1>2, <2>1, <3>1
  <2>3. run(n + 1)[n + 1] = 10 * run(n + 1)[(n + 1) - 1] /\ (n + 1) - 1 = n
    BY <2>1
  <2>4. run(n)[n] \in Nat
    BY <2>1
  <2> QED
    BY <2>2, <2>3, <2>4
<1>6. DOMAIN f = Nat
  OBVIOUS
<1> HIDE DEF f
<1>7. f = [n \in Nat |-> IF n = 0 THEN 1 ELSE 10 * f[n - 1]]
  <2>1. ASSUME NEW n \in Nat PROVE f[n] = IF n = 0 THEN 1 ELSE 10 * f[n - 1]
    <3>1. n # 0 => n - 1 \in Nat /\ (n - 1) + 1 = n
      OBVIOUS
    <3> QED
      BY <1>4, <1>5, <3>1
  <2>2. f = [n \in Nat |-> f[n]]
    <3> QED BY <1>6 DEF f
  <2> QED
    BY <2>1, <2>2
<1>8. Pow = [n \in Nat |-> IF n = 0 THEN 1 ELSE 10 * Pow[n - 1]]
  <2>1. Pow = CHOOSE g : g = [n \in Nat |-> IF n = 0 THEN 1 ELSE 10 * g[n - 1]]
    BY DEF Pow
  <2> QED
    BY <1>7, <2>1
<1>9. Pow[0] = 1 /\ \A n \in Nat : Pow[n + 1] = 10 * Pow[n]
  <2>1. Pow[0] = 1
    BY <1>8
  <2>2. ASSUME NEW n \in Nat PROVE Pow[n + 1] = 10 * Pow[n]
    <3>1. n + 1 \in Nat /\ n + 1 # 0 /\ (n + 1) - 1 = n
      OBVIOUS
    <3> QED
      BY <1>8, <3>1
  <2> QED
    BY <2>1, <2>2
<1>10. \A n \in Nat : Pow[n] \in Nat
  <2> DEFINE Q == {n \in Nat : Pow[n] \in Nat}
  <2>1. 0 \in Q /\ \A n \in Nat : n \in Q => n + 1 \in Q
    BY <1>9
  <2> HIDE DEF Q
  <2>2. \A n \in Nat : n \in Q
    BY <2>1, Upward
  <2> QED
    BY <2>2 DEF Q
<1> QED
  BY <1>9, <1>10

\* They add up, and exceed their exponents.
LEMMA PowAdd == \A m \in Nat : \A n \in Nat : Pow[m + n] = Pow[m] * Pow[n] /\ Pow[n] > 0 /\ Pow[n] > n
<1> DEFINE Q == {n \in Nat : \A m \in Nat : Pow[m + n] = Pow[m] * Pow[n] /\ Pow[n] > 0 /\ Pow[n] > n}
<1>1. 0 \in Q
  BY PowIs
<1>2. ASSUME NEW n \in Nat, n \in Q PROVE n + 1 \in Q
  <2>1. ASSUME NEW m \in Nat PROVE Pow[m + (n + 1)] = Pow[m] * Pow[n + 1] /\ Pow[n + 1] > 0 /\ Pow[n + 1] > n + 1
    <3>1. Pow[(m + n) + 1] = 10 * Pow[m + n] /\ Pow[n + 1] = 10 * Pow[n] /\ m + (n + 1) = (m + n) + 1
      BY PowIs
    <3>2. Pow[m + n] = Pow[m] * Pow[n] /\ Pow[n] > 0 /\ Pow[n] > n
      BY <1>2
    <3>3. Pow[m] \in Nat /\ Pow[n] \in Nat
      BY PowIs
    <3>4. 10 * (Pow[m] * Pow[n]) = Pow[m] * (10 * Pow[n])
      BY <3>3
    <3> QED
      BY <3>1, <3>2, <3>3, <3>4
  <2> QED
    BY <2>1
<1> HIDE DEF Q
<1>3. \A n \in Nat : n \in Q
  BY <1>1, <1>2, Upward
<1> QED
  BY <1>3 DEF Q

\* What Number computes, digit by digit.
LEMMA NumberIs ==
  ASSUME NEW s \in Seq(Digits)
  PROVE  \E f \in [0..Len(s) -> Nat] :
           /\ f[0] = 0 /\ \A i \in 1..Len(s) : f[i] = f[i - 1] * 10 + s[i]
           /\ Number(s) = f[Len(s)]
<1> DEFINE n == Len(s)
           step == [p \in Nat \X Digits |-> p[1] * 10 + p[2]]
<1>1. n \in Nat /\ s \in [1..n -> Digits] /\ 0 \in Nat
  OBVIOUS
<1>2. step \in [Nat \X Digits -> Nat]
  BY DEF Digits
<1>3. \A k \in Nat, d \in Digits : step[<<k, d>>] = k * 10 + d
  OBVIOUS
<1> HIDE DEF step, n
<1>4. PICK f \in [0..n -> Nat] : f[0] = 0 /\ \A i \in 1..n : f[i] = step[<<f[i - 1], s[i]>>]
  <2>1. \E f : IsRun(f, Nat, step, 0, s, n)
    BY <1>1, <1>2, Loop
  <2>2. PICK f : IsRun(f, Nat, step, 0, s, n)
    BY <2>1
  <2> QED
    BY <2>2 DEF IsRun
<1>5. f = [i \in 0..n |-> IF i = 0 THEN 0 ELSE f[i - 1] * 10 + s[i]]
  <2>1. ASSUME NEW i \in 0..n PROVE f[i] = IF i = 0 THEN 0 ELSE f[i - 1] * 10 + s[i]
    <3>1. CASE i = 0
      BY <1>4, <3>1
    <3>2. CASE i # 0
      <4>1. i \in 1..n /\ i - 1 \in 0..n
        BY <1>1, <3>2
      <4> QED
        BY <1>1, <1>3, <1>4, <3>2, <4>1
    <3> QED
      BY <3>1, <3>2
  <2> QED
    BY <2>1
<1> DEFINE number == CHOOSE g : g = [i \in 0..n |-> IF i = 0 THEN 0 ELSE g[i - 1] * 10 + s[i]]
<1>6. Number(s) = number[n]
  BY DEF Number, n
<1>7. number = [i \in 0..n |-> IF i = 0 THEN 0 ELSE number[i - 1] * 10 + s[i]]
  BY <1>5
<1> HIDE DEF number
<1>8. number[0] = 0 /\ \A i \in 1..n : number[i] = number[i - 1] * 10 + s[i]
  BY <1>1, <1>7
<1>9. number \in [0..n -> Nat]
  <2> DEFINE P == {i \in 0..n : number[i] \in Nat}
  <2>1. 0 \in P
    BY <1>1, <1>8
  <2>2. ASSUME NEW i \in 0..n - 1, i \in P PROVE i + 1 \in P
    <3>1. i + 1 \in 1..n /\ (i + 1) - 1 = i
      BY <1>1
    <3>2. s[i + 1] \in Digits /\ Digits \subseteq Nat
      BY <1>1, <3>1 DEF Digits
    <3>3. number[i + 1] = number[i] * 10 + s[i + 1] /\ number[i] \in Nat
      BY <1>8, <2>2, <3>1
    <3>4. i + 1 \in 0..n
      BY <1>1, <3>1
    <3>5. number[i + 1] \in Nat
      <4>1. \A k, d \in Nat : k * 10 + d \in Nat
        OBVIOUS
      <4> QED
        BY <3>2, <3>3, <4>1
    <3> QED
      BY <3>4, <3>5
  <2> HIDE DEF P
  <2>3. \A i \in 0..n : i \in P
    BY <1>1, <2>1, <2>2, UpTo
  <2> QED
    BY <1>7, <2>3 DEF P
<1> QED
  BY <1>6, <1>8, <1>9 DEF n

\* So the loop over the digits reads the number, if it fits.
LEMMA ReadDigitsIs ==
  ASSUME NEW s \in Seq(Digits)
  PROVE  ReadDigits(s) = IF Number(s) <= MaxInt THEN Read(Number(s)) ELSE Unread
<1> DEFINE n == Len(s)
           read == CHOOSE g : g = [i \in 0..n |-> IF i = 0 THEN Read(0) ELSE NextDigit(g[i - 1], s[i])]
<1>1. n \in Nat /\ \A i \in 1..n : s[i] \in Digits
  OBVIOUS
<1>2. PICK f \in [0..n -> Nat] :
        /\ f[0] = 0 /\ \A i \in 1..n : f[i] = f[i - 1] * 10 + s[i]
        /\ Number(s) = f[n]
  BY NumberIs
<1>3. ReadDigits(s) = read[n]
  BY DEF ReadDigits
<1> HIDE DEF n
<1> DEFINE exact == [i \in 0..n |-> IF f[i] <= MaxInt THEN Read(f[i]) ELSE Unread]
<1>4. ASSUME NEW i \in 1..n PROVE exact[i] = NextDigit(exact[i - 1], s[i])
  <2>1. /\ i \in 0..n /\ i - 1 \in 0..n /\ s[i] \in Digits
        /\ f[i] = f[i - 1] * 10 + s[i] /\ f[i] \in Nat /\ f[i - 1] \in Nat
    BY <1>1, <1>2
  <2>2. CASE f[i - 1] <= MaxInt
    <3>1. f[i - 1] \in 0..MaxInt /\ exact[i - 1] = Read(f[i - 1])
      BY <2>1, <2>2, WidthAssumption
    <3>2. NextDigit(Read(f[i - 1]), s[i]) = IF f[i] <= MaxInt THEN Read(f[i]) ELSE Unread
      BY <2>1, <3>1, DigitIsExact
    <3> QED
      BY <2>1, <3>1, <3>2
  <2>3. CASE ~(f[i - 1] <= MaxInt)
    <3>1. ~(f[i] <= MaxInt)
      <4>1. \A a, b \in Nat : ~(a <= MaxInt) => ~(a * 10 + b <= MaxInt)
        BY WidthAssumption
      <4>2. s[i] \in Nat
        BY <2>1 DEF Digits
      <4> QED
        BY <2>1, <2>3, <4>1, <4>2
    <3>2. exact[i - 1] = Unread /\ exact[i] = Unread
      BY <2>1, <2>3, <3>1
    <3> QED
      BY <3>2 DEF NextDigit, Unread
  <2> QED
    BY <2>2, <2>3
<1>5. exact[0] = Read(0)
  BY <1>1, <1>2, WidthAssumption
<1>6. exact[n] = IF Number(s) <= MaxInt THEN Read(Number(s)) ELSE Unread
  BY <1>1, <1>2
<1>7. exact = [i \in 0..n |-> exact[i]]
  OBVIOUS
<1> HIDE DEF exact
<1>8. exact = [i \in 0..n |-> IF i = 0 THEN Read(0) ELSE NextDigit(exact[i - 1], s[i])]
  <2>1. ASSUME NEW i \in 0..n PROVE exact[i] = IF i = 0 THEN Read(0) ELSE NextDigit(exact[i - 1], s[i])
    <3>1. i # 0 => i \in 1..n
      BY <1>1
    <3> QED
      BY <1>4, <1>5, <3>1
  <2> QED
    BY <1>7, <2>1
<1>9. read = [i \in 0..n |-> IF i = 0 THEN Read(0) ELSE NextDigit(read[i - 1], s[i])]
  BY <1>8
<1> HIDE DEF read
<1>10. \A i \in 0..n : read[i] = exact[i]
  <2> DEFINE P == {i \in 0..n : read[i] = exact[i]}
  <2>1. 0 \in P
    BY <1>1, <1>5, <1>9
  <2>2. ASSUME NEW i \in 0..n - 1, i \in P PROVE i + 1 \in P
    <3>1. i + 1 \in 1..n /\ i + 1 \in 0..n /\ i + 1 # 0 /\ (i + 1) - 1 = i
      BY <1>1
    <3>2. read[i + 1] = NextDigit(read[i], s[i + 1])
      BY <1>9, <3>1
    <3>3. exact[i + 1] = NextDigit(exact[i], s[i + 1])
      BY <1>4, <3>1
    <3> QED
      BY <2>2, <3>1, <3>2, <3>3
  <2> HIDE DEF P
  <2>3. \A i \in 0..n : i \in P
    BY <1>1, <2>1, <2>2, UpTo
  <2> QED
    BY <2>3 DEF P
<1> QED
  BY <1>1, <1>3, <1>6, <1>10

\* The number of two parts.
LEMMA NumberConcat ==
  ASSUME NEW s \in Seq(Digits), NEW t \in Seq(Digits)
  PROVE  s \o t \in Seq(Digits) /\ Number(s \o t) = Number(s) * Pow[Len(t)] + Number(t)
<1> DEFINE m == Len(s)
           n == Len(t)
           c == s \o t
<1>1. m \in Nat /\ n \in Nat
  OBVIOUS
<1>2. /\ c \in Seq(Digits) /\ Len(c) = m + n
      /\ \A i \in 1..m + n : c[i] = IF i <= m THEN s[i] ELSE t[i - m]
  <2>1. s \in Seq(Digits) /\ t \in Seq(Digits)
    OBVIOUS
  <2> QED
    BY <2>1, ConcatProperties
<1> HIDE DEF c
<1>3. PICK f \in [0..m -> Nat] :
        /\ f[0] = 0 /\ \A i \in 1..m : f[i] = f[i - 1] * 10 + s[i]
        /\ Number(s) = f[m]
  BY NumberIs
<1>4. PICK g \in [0..n -> Nat] :
        /\ g[0] = 0 /\ \A i \in 1..n : g[i] = g[i - 1] * 10 + t[i]
        /\ Number(t) = g[n]
  BY NumberIs
<1>5. PICK h \in [0..Len(c) -> Nat] :
        /\ h[0] = 0 /\ \A i \in 1..Len(c) : h[i] = h[i - 1] * 10 + c[i]
        /\ Number(c) = h[Len(c)]
  BY <1>2, NumberIs
<1> HIDE DEF m, n
<1>6. \A i \in 0..m : h[i] = f[i]
  <2> DEFINE P == {i \in 0..m : h[i] = f[i]}
  <2>1. 0 \in P
    BY <1>1, <1>3, <1>5
  <2>2. ASSUME NEW i \in 0..m - 1, i \in P PROVE i + 1 \in P
    <3>1. i + 1 \in 1..m /\ i + 1 \in 0..m /\ i + 1 \in 1..m + n /\ (i + 1) - 1 = i
      BY <1>1
    <3>2. h[i + 1] = h[i] * 10 + s[i + 1]
      BY <1>2, <1>5, <3>1
    <3>3. f[i + 1] = f[i] * 10 + s[i + 1]
      BY <1>3, <3>1
    <3> QED
      BY <2>2, <3>1, <3>2, <3>3
  <2> HIDE DEF P
  <2>3. \A i \in 0..m : i \in P
    BY <1>1, <2>1, <2>2, UpTo
  <2> QED
    BY <2>3 DEF P
<1>7. \A j \in 0..n : h[m + j] = f[m] * Pow[j] + g[j]
  <2> DEFINE P == {j \in 0..n : h[m + j] = f[m] * Pow[j] + g[j]}
  <2>1. 0 \in P
    <3>1. \A a \in Nat : a * 1 + 0 = a
      OBVIOUS
    <3>2. f[m] \in Nat /\ h[m] = f[m] /\ m + 0 = m /\ 0 \in 0..n
      BY <1>1, <1>3, <1>6
    <3>3. h[m + 0] = f[m] * Pow[0] + g[0]
      BY <1>4, <3>1, <3>2, PowIs
    <3> QED
      BY <3>2, <3>3
  <2>2. ASSUME NEW j \in 0..n - 1, j \in P PROVE j + 1 \in P
    <3>1. /\ j \in Nat /\ j + 1 \in 1..n /\ j + 1 \in 0..n /\ (j + 1) - 1 = j
          /\ m + (j + 1) \in 1..m + n /\ (m + (j + 1)) - 1 = m + j
          /\ ~(m + (j + 1) <= m) /\ (m + (j + 1)) - m = j + 1
      BY <1>1
    <3>2. h[m + (j + 1)] = h[m + j] * 10 + t[j + 1]
      BY <1>2, <1>5, <3>1
    <3>3. g[j + 1] = g[j] * 10 + t[j + 1] /\ Pow[j + 1] = 10 * Pow[j]
      BY <1>4, <3>1, PowIs
    <3>4. f[m] \in Nat /\ Pow[j] \in Nat /\ g[j] \in Nat
      <4>1. m \in 0..m /\ j \in 0..n
        BY <1>1
      <4> QED
        BY <1>3, <1>4, <3>1, <4>1, PowIs
    <3>5. t[j + 1] \in Nat
      <4>1. t[j + 1] \in Digits
        BY <3>1 DEF n
      <4> QED
        BY <4>1 DEF Digits
    <3>6. \A a, p, b, d \in Nat : (a * p + b) * 10 + d = a * (10 * p) + (b * 10 + d)
      OBVIOUS
    <3>7. (f[m] * Pow[j] + g[j]) * 10 + t[j + 1] = f[m] * (10 * Pow[j]) + (g[j] * 10 + t[j + 1])
      <4> DEFINE a == f[m]
                 p == Pow[j]
                 b == g[j]
                 d == t[j + 1]
      <4>1. a \in Nat /\ p \in Nat /\ b \in Nat /\ d \in Nat
        BY <3>4, <3>5
      <4> HIDE DEF a, p, b, d
      <4>2. (a * p + b) * 10 + d = a * (10 * p) + (b * 10 + d)
        BY <3>6, <4>1
      <4> QED
        BY <4>2 DEF a, p, b, d
    <3>8. h[m + (j + 1)] = f[m] * Pow[j + 1] + g[j + 1]
      BY <2>2, <3>2, <3>3, <3>7
    <3> QED
      BY <3>1, <3>8
  <2> HIDE DEF P
  <2>3. \A j \in 0..n : j \in P
    BY <1>1, <2>1, <2>2, UpTo
  <2> QED
    BY <2>3 DEF P
<1> QED
  BY <1>1, <1>2, <1>3, <1>4, <1>5, <1>7 DEF c, m, n

\* Zeros that fill a fraction up.
LEMMA NumberOfZeros ==
  ASSUME NEW n \in Nat
  PROVE  [i \in 1..n |-> 0] \in Seq(Digits) /\ Len([i \in 1..n |-> 0]) = n /\ Number([i \in 1..n |-> 0]) = 0
<1> DEFINE s == [i \in 1..n |-> 0]
<1>1. s \in Seq(Digits) /\ Len(s) = n /\ \A i \in 1..n : s[i] = 0
  <2>1. 0 \in Digits
    BY DEF Digits
  <2> QED
    BY <2>1
<1> HIDE DEF s
<1>2. PICK f \in [0..Len(s) -> Nat] :
        /\ f[0] = 0 /\ \A i \in 1..Len(s) : f[i] = f[i - 1] * 10 + s[i]
        /\ Number(s) = f[Len(s)]
  BY <1>1, NumberIs
<1> DEFINE P == {i \in 0..n : f[i] = 0}
<1>3. 0 \in P
  BY <1>2
<1>4. ASSUME NEW i \in 0..n - 1, i \in P PROVE i + 1 \in P
  <2>1. i + 1 \in 1..n /\ i + 1 \in 0..n /\ (i + 1) - 1 = i
    OBVIOUS
  <2>2. f[i + 1] = 0 * 10 + 0
    BY <1>1, <1>2, <1>4, <2>1
  <2> QED
    BY <2>1, <2>2
<1> HIDE DEF P
<1>5. \A i \in 0..n : i \in P
  BY <1>3, <1>4, UpTo
<1>6. f[n] = 0
  BY <1>5 DEF P
<1> QED
  BY <1>1, <1>2, <1>6 DEF s

\* Division by a power of ten, digit by digit.
LEMMA DivisionStep ==
  ASSUME NEW a \in Nat, NEW p \in Nat, p > 0
  PROVE  /\ a \div p \in Nat /\ a \div (10 * p) \in Nat
         /\ a \div p = (a \div (10 * p)) * 10 + ((a \div p) % 10)
         /\ (a \div p) % 10 \in Digits
<1> DEFINE q == a \div p
           d == q \div 10
           e == q % 10
<1>1. q \in Nat /\ q * p <= a /\ a < q * p + p
  OBVIOUS
<1> HIDE DEF q
<1>2. d \in Nat /\ q = d * 10 + e /\ e \in 0..9
  BY <1>1
<1> HIDE DEF d, e
<1>3. d * (10 * p) <= a /\ a < d * (10 * p) + 10 * p
  <2>1. q * p = d * (10 * p) + e * p
    BY <1>1, <1>2
  <2>2. e * p >= 0 /\ e * p <= 9 * p
    BY <1>2
  <2> QED
    BY <1>1, <1>2, <2>1, <2>2
<1>4. a \div (10 * p) = d
  <2> DEFINE b == 10 * p
  <2>1. b \in Nat /\ b > 0 /\ d * b <= a /\ a < d * b + b
    BY <1>3
  <2> HIDE DEF b
  <2>2. a \div b = d
    BY <1>2, <2>1
  <2> QED
    BY <2>2 DEF b
<1> QED
  BY <1>1, <1>2, <1>4 DEF q, d, e, Digits

\* The digits of a number, at a width that holds it, are its digits.
LEMMA FixedIs ==
  ASSUME NEW n \in Nat, NEW w \in Nat, n < Pow[w]
  PROVE  Fixed(n, w) \in Seq(Digits) /\ Len(Fixed(n, w)) = w /\ Number(Fixed(n, w)) = n
<1> DEFINE s == Fixed(n, w)
           q(i) == n \div Pow[w - i]
<1>1. ASSUME NEW i \in 0..w PROVE w - i \in Nat /\ Pow[w - i] \in Nat /\ Pow[w - i] > 0
  <2>1. w - i \in Nat /\ 0 \in Nat
    OBVIOUS
  <2> QED
    BY <2>1, PowIs, PowAdd
<1>2. s \in Seq(Digits) /\ Len(s) = w /\ \A i \in 1..w : s[i] = q(i) % 10
  <2>1. \A i \in 1..w : q(i) % 10 \in Digits
    BY <1>1, DivisionStep
  <2>2. s = [i \in 1..w |-> q(i) % 10]
    BY DEF Fixed
  <2> HIDE DEF s, q
  <2> QED
    BY <2>1, <2>2
<1> HIDE DEF s
<1>3. PICK f \in [0..Len(s) -> Nat] :
        /\ f[0] = 0 /\ \A i \in 1..Len(s) : f[i] = f[i - 1] * 10 + s[i]
        /\ Number(s) = f[Len(s)]
  BY <1>2, NumberIs
<1>4. q(0) = 0 /\ q(w) = n
  <2>1. \A p \in Nat : n < p => n \div p = 0
    OBVIOUS
  <2>2. w - 0 = w /\ w - w = 0 /\ n \div 1 = n
    OBVIOUS
  <2> QED
    BY <1>1, <2>1, <2>2, PowIs
<1>5. ASSUME NEW i \in 0..w - 1 PROVE q(i + 1) = q(i) * 10 + (q(i + 1) % 10)
  <2>1. i + 1 \in 0..w /\ (w - (i + 1)) + 1 = w - i
    OBVIOUS
  <2>2. Pow[w - i] = 10 * Pow[w - (i + 1)]
    BY <1>1, <2>1, PowIs
  <2> QED
    BY <1>1, <2>1, <2>2, DivisionStep
<1> HIDE DEF q
<1> DEFINE P == {i \in 0..w : f[i] = q(i)}
<1>6. 0 \in P
  BY <1>3, <1>4
<1>7. ASSUME NEW i \in 0..w - 1, i \in P PROVE i + 1 \in P
  <2>1. i + 1 \in 1..w /\ i + 1 \in 0..w /\ (i + 1) - 1 = i
    OBVIOUS
  <2>2. f[i + 1] = f[i] * 10 + s[i + 1] /\ s[i + 1] = q(i + 1) % 10
    BY <1>2, <1>3, <2>1
  <2> QED
    BY <1>5, <1>7, <2>1, <2>2
<1> HIDE DEF P
<1>8. \A i \in 0..w : i \in P
  BY <1>6, <1>7, UpTo
<1>9. f[w] = n
  BY <1>4, <1>8 DEF P
<1> QED
  BY <1>2, <1>3, <1>9 DEF s

\* A number is written with digits enough, and at least one.
LEMMA TensIs ==
  ASSUME NEW n \in Nat
  PROVE  Tens(n) \in Nat /\ Tens(n) >= 1 /\ n < Pow[Tens(n)]
<1> DEFINE T == {k \in 1..n + 1 : n < Pow[k]}
<1>1. n + 1 \in T
  <2>1. n + 1 \in Nat /\ 0 \in Nat
    OBVIOUS
  <2>2. Pow[n + 1] \in Nat /\ Pow[n + 1] > n + 1
    BY <2>1, PowAdd, PowIs
  <2> QED
    BY <2>1, <2>2
<1>2. PICK k \in T : \A j \in T : k <= j
  <2>1. T \in SUBSET Nat /\ T # {}
    BY <1>1
  <2> HIDE DEF T
  <2> QED
    BY <2>1, Least
<1>3. \A j \in 1..k - 1 : n >= Pow[j]
  <2> SUFFICES ASSUME NEW j \in 1..k - 1 PROVE n >= Pow[j]
    OBVIOUS
  <2>1. j \in Nat /\ j \in 1..n + 1 /\ j \notin T
    BY <1>2
  <2>2. Pow[j] \in Nat
    BY <2>1, PowIs
  <2> QED
    BY <2>1, <2>2
<1>4. \E i \in 1..n + 1 : n < Pow[i] /\ \A j \in 1..i - 1 : n >= Pow[j]
  BY <1>2, <1>3
<1> QED
  BY <1>4 DEF Tens

\* The groups of an amount, one after the other.
LEMMA FlattenIs ==
  ASSUME NEW s \in Seq(Seq(Digits))
  PROVE  FlattenSeq(s) \in Seq(Digits) /\ (Len(s) = 1 => FlattenSeq(s) = s[1])
<1> DEFINE n == Len(s)
           D == Seq(Digits)
           flatten == CHOOSE g : g = [i \in 1..n |-> IF i = 1 THEN s[i] ELSE g[i - 1] \o s[i]]
           step == [p \in D \X D |-> p[1] \o p[2]]
<1>1. n \in Nat /\ s \in [1..n -> D] /\ << >> \in D
  OBVIOUS
<1>2. step \in [D \X D -> D]
  OBVIOUS
<1>3. \A a, b \in D : step[<<a, b>>] = a \o b
  OBVIOUS
<1>4. CASE n = 0
  BY <1>1, <1>4 DEF FlattenSeq
<1>5. CASE n # 0
  <2>1. FlattenSeq(s) = flatten[n]
    BY <1>5 DEF FlattenSeq
  <2>2. \A a \in D : << >> \o a = a
    BY ConcatEmptySeq
  <2> HIDE DEF n, step, D
  <2>3. PICK f : IsRun(f, D, step, << >>, s, n)
    <3>1. \E f : IsRun(f, D, step, << >>, s, n)
      BY <1>1, <1>2, Loop
    <3> QED
      BY <3>1
  <2>4. f \in [0..n -> D] /\ f[0] = << >> /\ \A i \in 1..n : f[i] = step[<<f[i - 1], s[i]>>]
    BY <2>3 DEF IsRun
  <2> DEFINE h == [i \in 1..n |-> f[i]]
  <2>5. \A i \in 1..n : f[i - 1] \in D /\ s[i] \in D /\ f[i] = f[i - 1] \o s[i]
    <3> SUFFICES ASSUME NEW i \in 1..n PROVE f[i - 1] \in D /\ s[i] \in D /\ f[i] = f[i - 1] \o s[i]
      OBVIOUS
    <3>1. i - 1 \in 0..n
      BY <1>1
    <3>2. f[i - 1] \in D /\ s[i] \in D
      BY <1>1, <2>4, <3>1
    <3> QED
      BY <1>3, <2>4, <3>2
  <2>6. ASSUME NEW i \in 1..n PROVE h[i] = IF i = 1 THEN s[i] ELSE h[i - 1] \o s[i]
    <3>1. CASE i = 1
      <4>1. f[1] = << >> \o s[1] /\ s[1] \in D
        <5>1. 1 \in 1..n /\ 1 - 1 = 0
          BY <3>1
        <5> QED
          BY <2>4, <2>5, <5>1
      <4> QED
        BY <2>2, <3>1, <4>1
    <3>2. CASE i # 1
      <4>1. i - 1 \in 1..n
        BY <1>1, <3>2
      <4> QED
        BY <2>5, <3>2, <4>1
    <3> QED
      BY <3>1, <3>2
  <2>7. h = [i \in 1..n |-> h[i]]
    OBVIOUS
  <2>8. h[n] = f[n] /\ f[n] \in D
    BY <1>1, <1>5, <2>4
  <2> HIDE DEF h
  <2>9. h = [i \in 1..n |-> IF i = 1 THEN s[i] ELSE h[i - 1] \o s[i]]
    BY <2>6, <2>7
  <2>10. flatten = [i \in 1..n |-> IF i = 1 THEN s[i] ELSE flatten[i - 1] \o s[i]]
    BY <2>9
  <2> HIDE DEF flatten
  <2>11. \A i \in 1..n : flatten[i] = h[i]
    <3> DEFINE P == {i \in 0..n : i # 0 => flatten[i] = h[i]}
    <3>1. 0 \in P
      BY <1>1
    <3>2. ASSUME NEW i \in 0..n - 1, i \in P PROVE i + 1 \in P
      <4>1. i + 1 \in 1..n /\ i + 1 \in 0..n /\ (i + 1) - 1 = i /\ (i = 0 <=> i + 1 = 1)
        BY <1>1
      <4>2. flatten[i + 1] = IF i + 1 = 1 THEN s[i + 1] ELSE flatten[i] \o s[i + 1]
        BY <2>10, <4>1
      <4>3. h[i + 1] = IF i + 1 = 1 THEN s[i + 1] ELSE h[i] \o s[i + 1]
        BY <2>9, <4>1
      <4>4. flatten[i + 1] = h[i + 1]
        BY <3>2, <4>1, <4>2, <4>3
      <4> QED
        BY <4>1, <4>4
    <3> HIDE DEF P
    <3>3. \A i \in 0..n : i \in P
      BY <1>1, <3>1, <3>2, UpTo
    <3> QED
      BY <1>1, <3>3 DEF P
  <2>12. flatten[n] \in D
    BY <1>1, <1>5, <2>8, <2>11
  <2>13. n = 1 => flatten[n] = s[1]
    BY <2>10
  <2> QED
    BY <2>1, <2>12, <2>13 DEF n, D
<1> QED
  BY <1>4, <1>5

\* The digits that parseFixedPoint reads, and the number that they are.
LEMMA ReadIs ==
  ASSUME NEW int \in Seq(Digits), NEW frac \in Seq(Digits), NEW decimals \in Nat, Len(frac) <= decimals
  PROVE  /\ int \o Padded(frac, decimals) \in Seq(Digits)
         /\ Number(int \o Padded(frac, decimals)) = Number(int \o frac) * Pow[decimals - Len(frac)]
         /\ Number(int \o frac) \in Nat
<1> DEFINE k == decimals - Len(frac)
           zeros == [i \in 1..k |-> 0]
<1>1. k \in Nat
  OBVIOUS
<1> HIDE DEF k
<1>2. zeros \in Seq(Digits) /\ Len(zeros) = k /\ Number(zeros) = 0
  BY <1>1, NumberOfZeros
<1>3. Padded(frac, decimals) = frac \o zeros
  BY DEF Padded, k
<1> HIDE DEF zeros
<1>4. int \o frac \in Seq(Digits)
  OBVIOUS
<1>5. int \o (frac \o zeros) = (int \o frac) \o zeros
  BY <1>2, ConcatAssociative
<1>6. /\ (int \o frac) \o zeros \in Seq(Digits)
      /\ Number((int \o frac) \o zeros) = Number(int \o frac) * Pow[k] + 0
  BY <1>2, <1>4, NumberConcat
<1>7. Number(int \o frac) \in Nat
  <2> DEFINE s == int \o frac
  <2>1. s \in Seq(Digits)
    BY <1>4
  <2> HIDE DEF s
  <2>2. PICK f \in [0..Len(s) -> Nat] : Number(s) = f[Len(s)]
    BY <2>1, NumberIs
  <2>3. Len(s) \in Nat
    BY <2>1
  <2>4. Number(s) \in Nat
    BY <2>2, <2>3
  <2> QED
    BY <2>4 DEF s
<1>8. Number(int \o frac) * Pow[k] + 0 = Number(int \o frac) * Pow[k]
  <2>1. \A a, b \in Nat : a * b + 0 = a * b
    OBVIOUS
  <2>2. Pow[k] \in Nat
    BY <1>1, PowIs
  <2> QED
    BY <1>7, <2>1, <2>2
<1> QED
  BY <1>3, <1>5, <1>6, <1>7, <1>8 DEF k

\* Negation never wraps: the smallest integer is not read.
LEMMA NegationIs == \A n \in -MaxInt..MaxInt : Wrap(-n) = -n
<1> SUFFICES ASSUME NEW n \in -MaxInt..MaxInt PROVE Wrap(-n) = -n
  OBVIOUS
<1> DEFINE m == MaxInt
           k == m + 1 - n
           w == 2 * (m + 1)
<1>1. m \in Nat /\ k \in Nat /\ w \in Nat /\ k < w /\ -n + m + 1 = k /\ k - (m + 1) = -n
  BY WidthAssumption
<1>2. \A a, b \in Nat : a < b => (a % b) = a
  OBVIOUS
<1>3. (k % w) = k
  <2> HIDE DEF k, w
  <2> QED
    BY <1>1, <1>2
<1>4. Wrap(-n) = ((-n + m + 1) % w) - (m + 1)
  BY DEF Wrap
<1> HIDE DEF k, w, m
<1> QED
  BY <1>1, <1>3, <1>4

\* money.go:43, "guarded against int64 overflow": for amounts of any length, at
\* any number of decimals, what is read is the amount.
THEOREM AmountTheorem ==
  ASSUME NEW text \in Amounts, NEW decimals \in Nat
  PROVE  ReadExactly(text, decimals)
<1> DEFINE int == FlattenSeq(text.groups)
           frac == text.frac
           read == ParseFixedPoint(text, decimals)
           digits == ReadDigits(int \o Padded(frac, decimals))
           size == Number(int \o frac)
           refused == \/ text.junk
                      \/ Len(text.groups) > 1 /\ ~ThousandsForm(text.groups)
                      \/ int = << >> /\ frac = << >>
                      \/ Len(frac) > decimals
<1>1. /\ text.groups \in Seq(Seq(Digits)) /\ frac \in Seq(Digits) /\ Len(frac) \in Nat
      /\ text.minus \in BOOLEAN /\ text.junk \in BOOLEAN
  BY DEF Amounts
<1>2. int \in Seq(Digits) /\ (Len(text.groups) = 1 => int = text.groups[1])
  BY <1>1, FlattenIs
<1>3. read = IF refused \/ digits.error THEN Unread
             ELSE Read(IF text.minus THEN Wrap(-digits.n) ELSE digits.n)
  BY DEF ParseFixedPoint
<1>4. Unread.error = TRUE /\ \A n : Read(n).error = FALSE /\ Read(n).n = n
  BY DEF Unread, Read
<1> HIDE DEF int, digits, size
<1>5. ASSUME Len(frac) <= decimals
      PROVE  \E k, unit, scaled, n \in Nat :
               /\ unit = Pow[Len(frac)] /\ unit > 0 /\ scaled = size * Pow[decimals]
               /\ n * unit = scaled
               /\ digits = IF n <= MaxInt THEN Read(n) ELSE Unread
  <2> DEFINE k == decimals - Len(frac)
             n == size * Pow[k]
             unit == Pow[Len(frac)]
             scaled == size * Pow[decimals]
  <2>1. k \in Nat /\ k + Len(frac) = decimals
    BY <1>1, <1>5
  <2> HIDE DEF k
  <2>2. Pow[decimals] = Pow[k] * Pow[Len(frac)] /\ Pow[Len(frac)] > 0
    BY <1>1, <2>1, PowAdd
  <2>3. Pow[k] \in Nat /\ Pow[Len(frac)] \in Nat
    BY <1>1, <2>1, PowIs
  <2>4. int \o Padded(frac, decimals) \in Seq(Digits) /\ Number(int \o Padded(frac, decimals)) = n /\ size \in Nat
    BY <1>1, <1>2, <1>5, ReadIs DEF k, size
  <2>5. digits = IF n <= MaxInt THEN Read(n) ELSE Unread
    BY <2>4, ReadDigitsIs DEF digits
  <2>6. n \in Nat /\ n * unit = scaled
    <3>1. \A a, b, c \in Nat : a * b \in Nat /\ (a * b) * c = a * (b * c)
      OBVIOUS
    <3> QED
      BY <2>2, <2>3, <2>4, <3>1
  <2>7. scaled \in Nat
    <3>1. \A a, b \in Nat : a * b \in Nat
      OBVIOUS
    <3> QED
      BY <2>3, <2>6, <3>1
  <2>8. unit \in Nat /\ unit > 0
    BY <2>2, <2>3
  <2> HIDE DEF n, scaled, unit
  <2>9. unit = Pow[Len(frac)] /\ scaled = size * Pow[decimals]
    BY DEF unit, scaled
  <2> QED
    BY <2>1, <2>5, <2>6, <2>7, <2>8, <2>9
<1> HIDE DEF refused
<1>6. ASSUME ~read.error PROVE read.n * Pow[Len(frac)] = (IF text.minus THEN -(size * Pow[decimals]) ELSE size * Pow[decimals])
  <2>1. ~refused /\ ~digits.error
    BY <1>3, <1>4, <1>6
  <2>2. Len(frac) <= decimals
    BY <1>1, <2>1 DEF refused
  <2>3. PICK unit, scaled, n \in Nat :
          /\ unit = Pow[Len(frac)] /\ scaled = size * Pow[decimals]
          /\ n * unit = scaled /\ digits = IF n <= MaxInt THEN Read(n) ELSE Unread
    BY <1>5, <2>2
  <2>4. n <= MaxInt /\ digits.n = n
    BY <1>4, <2>1, <2>3
  <2>5. Wrap(-n) = -n
    <3>1. n \in -MaxInt..MaxInt
      BY <2>4, WidthAssumption
    <3> QED
      BY <3>1, NegationIs
  <2>6. read.n = IF text.minus THEN -n ELSE n
    BY <1>3, <1>4, <2>1, <2>4, <2>5
  <2>7. \A a, b, c \in Nat : a * b = c => (-a) * b = -c
    OBVIOUS
  <2>8. (-n) * unit = -scaled
    BY <2>3, <2>7
  <2> QED
    BY <2>3, <2>6, <2>8
<1>7. ASSUME ~text.junk, Len(text.groups) = 1, Len(frac) <= decimals,
             text.groups[1] \o frac # << >>, size * Pow[decimals] <= MaxInt * Pow[Len(frac)]
      PROVE  ~read.error
  <2>1. ~refused
    <3>1. int = << >> /\ frac = << >> => int \o frac = << >>
      BY ConcatEmptySeq
    <3> QED
      BY <1>1, <1>2, <1>7, <3>1 DEF refused
  <2>2. PICK unit, scaled, n \in Nat :
          /\ unit = Pow[Len(frac)] /\ unit > 0 /\ scaled = size * Pow[decimals]
          /\ n * unit = scaled /\ digits = IF n <= MaxInt THEN Read(n) ELSE Unread
    BY <1>5, <1>7
  <2>3. n <= MaxInt
    <3>1. \A a, b, c \in Nat : b > 0 /\ a * b <= c * b => a <= c
      OBVIOUS
    <3> QED
      BY <1>7, <2>2, <3>1, WidthAssumption
  <2>4. ~digits.error
    BY <1>4, <2>2, <2>3
  <2> QED
    BY <1>3, <1>4, <2>1, <2>4
<1>8. ASSUME Len(text.groups) = 2, Len(text.groups[2]) \in {1, 2} PROVE read.error
  <2>1. ~ThousandsForm(text.groups)
    BY <1>8 DEF ThousandsForm
  <2>2. refused
    BY <1>8, <2>1 DEF refused
  <2> QED
    BY <1>3, <1>4, <2>2
<1> HIDE DEF read
<1> QED
  BY <1>6, <1>7, <1>8 DEF ReadExactly, read, int, size

\* What is written reads back, for every amount but the smallest integer, at any
\* number of decimals.
THEOREM WrittenTheorem ==
  ASSUME NEW minor \in -MaxInt..MaxInt, NEW exponent \in Nat
  PROVE  ReadsBack(minor, exponent)
<1> DEFINE size == IF minor < 0 THEN -minor ELSE minor
           pow == Pow[exponent]
           high == size \div pow
           low == (size % pow)
           int == Written(high)
           frac == Fixed(low, exponent)
           text == [minus |-> minor < 0, groups |-> <<int>>, frac |-> frac, junk |-> FALSE]
<1>1. size \in 0..MaxInt /\ minor = (IF minor < 0 THEN -size ELSE size) /\ Wrap(-minor) = -minor
  BY WidthAssumption, NegationIs
<1>2. text = Format(minor, exponent)
  BY <1>1 DEF Format
<1>3. pow \in Nat /\ pow > 0
  <2>1. exponent \in Nat /\ 0 \in Nat
    OBVIOUS
  <2> QED
    BY <2>1, PowIs, PowAdd
<1> HIDE DEF pow, size
<1>4. high \in Nat /\ low \in Nat /\ low < pow /\ high * pow + low = size
  <2>1. \A a, b \in Nat : b > 0 => /\ a \div b \in Nat /\ (a % b) \in Nat /\ (a % b) < b
                                   /\ (a \div b) * b + (a % b) = a
    OBVIOUS
  <2> QED
    BY <1>1, <1>3, <2>1
<1> HIDE DEF high, low
<1>5. int \in Seq(Digits) /\ int # << >> /\ Number(int) = high
  <2>1. Tens(high) \in Nat /\ Tens(high) >= 1 /\ high < Pow[Tens(high)]
    BY <1>4, TensIs
  <2>2. int \in Seq(Digits) /\ Len(int) = Tens(high) /\ Number(int) = high
    BY <1>4, <2>1, FixedIs DEF Written
  <2> QED
    BY <2>1, <2>2
<1>6. frac \in Seq(Digits) /\ Len(frac) = exponent /\ Number(frac) = low
  BY <1>4, FixedIs DEF pow
<1> HIDE DEF int, frac
<1>7. FlattenSeq(<<int>>) = int
  <2>1. <<int>> \in Seq(Seq(Digits)) /\ Len(<<int>>) = 1 /\ <<int>>[1] = int
    BY <1>5
  <2> QED
    BY <2>1, FlattenIs
<1>8. int \o Padded(frac, exponent) \in Seq(Digits) /\ Number(int \o Padded(frac, exponent)) = size
  <2>1. Pow[exponent - Len(frac)] = 1
    BY <1>6, PowIs
  <2>2. Number(int \o frac) = size
    BY <1>4, <1>5, <1>6, NumberConcat DEF pow
  <2>3. size * 1 = size
    BY <1>1
  <2> QED
    BY <1>5, <1>6, <2>1, <2>2, <2>3, ReadIs
<1>9. ReadDigits(int \o Padded(frac, exponent)) = Read(size)
  <2> DEFINE s == int \o Padded(frac, exponent)
  <2>1. s \in Seq(Digits) /\ Number(s) = size /\ size <= MaxInt
    BY <1>1, <1>8, WidthAssumption
  <2> HIDE DEF s
  <2>2. ReadDigits(s) = Read(size)
    BY <2>1, ReadDigitsIs
  <2> QED
    BY <2>2 DEF s
<1>10. Read(size).error = FALSE /\ Read(size).n = size /\ Wrap(-size) = -size
  <2>1. size \in -MaxInt..MaxInt
    BY <1>1, WidthAssumption
  <2> QED
    BY <2>1, NegationIs DEF Read
<1>11. /\ text.groups = <<int>> /\ text.frac = frac /\ text.junk = FALSE
       /\ text.minus = (minor < 0) /\ Len(<<int>>) = 1
  OBVIOUS
<1> HIDE DEF text
<1>12. ParseFixedPoint(text, exponent) = Read(IF minor < 0 THEN Wrap(-size) ELSE size)
  <2>1. ~(Len(text.groups) > 1) /\ ~(int = << >> /\ frac = << >>) /\ ~(Len(text.frac) > exponent)
    BY <1>5, <1>6, <1>11
  <2> QED
    BY <1>7, <1>9, <1>10, <1>11, <2>1 DEF ParseFixedPoint
<1> QED
  BY <1>1, <1>2, <1>10, <1>12 DEF ReadsBack

-----------------------------------------------------------------------------
(***************************************************************************)
(* Hybrid search: what one list and two lists give a hit.                  *)
(***************************************************************************)

\* A hit of a list has a place in it, and no other.
LEMMA RankInList ==
  ASSUME NEW list, IsList(list), NEW id \in ToIds(list)
  PROVE  Rank(list, id) \in 1..Limit /\ list[Rank(list, id)] = id
<1>1. \E i \in DOMAIN list : list[i] = id
  BY DEF ToIds
<1>2. Rank(list, id) \in DOMAIN list /\ list[Rank(list, id)] = id
  BY <1>1 DEF Rank
<1> QED
  BY <1>2, FusionAssumption DEF IsList

\* Two places anywhere weigh more than one, the first: the weights fall slowly
\* enough for lists of this length.
LEMMA TwoWeighMore ==
  ASSUME NEW r \in 1..Limit, NEW s \in 1..Limit, NEW t \in 1..Limit
  PROVE  Above(Both(r, s), One(t)) /\ ~Above(One(t), Both(r, s))
<1> DEFINE a == RrfK + r
           b == RrfK + s
           c == RrfK + t
<1>1. /\ a \in Nat /\ b \in Nat /\ c \in Nat /\ a > 0 /\ b > 0 /\ c > 0
      /\ a < 2 * c /\ b < 2 * c
  BY FusionAssumption
<1>2. a * b < (2 * c) * b /\ b * a < (2 * c) * a
  <2>1. \A x, y, z \in Nat : x < y /\ z > 0 => x * z < y * z
    BY Z3
  <2>2. 2 * c \in Nat
    BY <1>1
  <2> HIDE DEF a, b, c
  <2> QED
    BY <1>1, <2>1, <2>2
<1>3. a * b < (a + b) * c
  <2> HIDE DEF a, b, c
  <2>1. a * b = b * a /\ (2 * c) * b = 2 * (c * b) /\ (2 * c) * a = 2 * (c * a)
        /\ (a + b) * c = c * a + c * b
    BY <1>1, Z3
  <2>2. a * b \in Nat /\ c * a \in Nat /\ c * b \in Nat
    BY <1>1
  <2> QED
    BY <1>2, <2>1, <2>2
<1>4. 2 * RrfK + r + s = a + b
  BY FusionAssumption
<1> QED
  BY <1>1, <1>3, <1>4, FusionAssumption DEF Above, Both, One

LEMMA OnesByRank ==
  ASSUME NEW r \in 1..Limit, NEW s \in 1..Limit
  PROVE  Above(One(r), One(s)) <=> r < s
BY FusionAssumption DEF Above, One

\* Whatever is ahead of a hit of both lists is in both lists.
LEMMA AheadOfBoth ==
  ASSUME NEW trgm, NEW vec, IsList(trgm), IsList(vec),
         NEW b \in ToIds(trgm) \cap ToIds(vec),
         NEW s \in (ToIds(trgm) \cup ToIds(vec)) \ (ToIds(trgm) \cap ToIds(vec))
  PROVE  Ahead(trgm, vec, b, s) /\ ~Ahead(trgm, vec, s, b)
<1>1. Score(trgm, vec, b) = Both(Rank(trgm, b), Rank(vec, b))
      /\ Rank(trgm, b) \in 1..Limit /\ Rank(vec, b) \in 1..Limit
  BY RankInList DEF Score
<1>2. \E t \in 1..Limit : Score(trgm, vec, s) = One(t)
  <2>1. CASE s \in ToIds(trgm)
    BY <2>1, RankInList DEF Score
  <2>2. CASE s \in ToIds(vec) /\ s \notin ToIds(trgm)
    BY <2>2, RankInList DEF Score
  <2> QED
    BY <2>1, <2>2
<1> QED
  BY <1>1, <1>2, TwoWeighMore DEF Ahead

\* Of two hits of one list each, the one of the trigram list is ahead when it is
\* not ranked lower, and what is ahead of it is ahead of the other.
LEMMA TrigramAhead ==
  ASSUME NEW trgm, NEW vec, IsList(trgm), IsList(vec),
         NEW t \in ToIds(trgm) \ ToIds(vec), NEW v \in ToIds(vec) \ ToIds(trgm),
         Rank(trgm, t) <= Rank(vec, v)
  PROVE  /\ Ahead(trgm, vec, t, v) /\ ~Ahead(trgm, vec, t, t)
         /\ \A x \in ToIds(trgm) \cup ToIds(vec) : Ahead(trgm, vec, x, t) => Ahead(trgm, vec, x, v)
<1> DEFINE rt == Rank(trgm, t)
           rv == Rank(vec, v)
<1>1. rt \in 1..Limit /\ rv \in 1..Limit /\ Limit \in Nat
  BY RankInList, FusionAssumption
<1>2. Score(trgm, vec, t) = One(rt) /\ Score(trgm, vec, v) = One(rv)
  BY DEF Score
<1>3. Met(trgm, vec, t) = rt /\ Met(trgm, vec, v) = Len(trgm) + rv /\ rt <= Len(trgm) /\ Len(trgm) \in Nat
  <2>1. rt \in DOMAIN trgm
    BY DEF ToIds, Rank
  <2> QED
    BY <2>1 DEF Met, IsList
<1>4. Ahead(trgm, vec, t, v)
  <2>1. ~Above(One(rv), One(rt))
    BY <1>1, OnesByRank
  <2> QED
    BY <1>1, <1>2, <1>3, <2>1 DEF Ahead
<1>5. ~Ahead(trgm, vec, t, t)
  BY <1>1, <1>2, <1>3, OnesByRank DEF Ahead
<1>6. ASSUME NEW x \in ToIds(trgm) \cup ToIds(vec), Ahead(trgm, vec, x, t)
      PROVE  Ahead(trgm, vec, x, v)
  <2>1. CASE x \in ToIds(trgm) \cap ToIds(vec)
    BY <2>1, AheadOfBoth
  <2>2. CASE x \in ToIds(trgm) /\ x \notin ToIds(vec)
    <3> DEFINE rx == Rank(trgm, x)
    <3>1. rx \in 1..Limit /\ Score(trgm, vec, x) = One(rx) /\ Met(trgm, vec, x) = rx
      BY <2>2, RankInList DEF Score, Met
    <3>2. rx < rt
      BY <1>1, <1>2, <1>3, <1>6, <3>1, OnesByRank DEF Ahead
    <3>3. rx < rv
      BY <1>1, <3>1, <3>2
    <3> QED
      BY <1>1, <1>2, <3>1, <3>3, OnesByRank DEF Ahead
  <2>3. CASE x \in ToIds(vec) /\ x \notin ToIds(trgm)
    <3> DEFINE rx == Rank(vec, x)
    <3>1. rx \in 1..Limit /\ Score(trgm, vec, x) = One(rx) /\ Met(trgm, vec, x) = Len(trgm) + rx
      BY <2>3, RankInList DEF Score, Met
    <3>2. ~(Met(trgm, vec, x) < Met(trgm, vec, t))
      BY <1>1, <1>3, <3>1
    <3>3. Above(One(rx), One(rt))
      BY <1>2, <1>6, <3>1, <3>2 DEF Ahead
    <3>4. rx < rv
      BY <1>1, <3>1, <3>3, OnesByRank
    <3> QED
      BY <1>1, <1>2, <3>1, <3>4, OnesByRank DEF Ahead
  <2> QED
    BY <2>1, <2>2, <2>3
<1> QED
  BY <1>4, <1>5, <1>6

LEMMA ListIsFinite ==
  ASSUME NEW list, IsList(list)
  PROVE  IsFiniteSet(ToIds(list))
<1>1. DOMAIN list = 1..Len(list) /\ Len(list) \in Nat
  BY DEF IsList
<1>2. list \in [1..Len(list) -> ToIds(list)]
  BY <1>1 DEF ToIds, IsList
<1>3. list \in Surjection(1..Len(list), ToIds(list))
  BY <1>1, <1>2 DEF Surjection, ToIds
<1>4. IsFiniteSet(1..Len(list))
  BY <1>1, FS_Interval
<1> QED
  BY <1>3, <1>4, FS_Surjection

\* A hit that is ahead of another, with all that is ahead of it, has the better
\* place.
LEMMA BetterPlace ==
  ASSUME NEW trgm, NEW vec, NEW near,
         IsFiniteSet(Kept(trgm, vec, near)),
         NEW a \in Kept(trgm, vec, near), NEW b \in Kept(trgm, vec, near),
         Ahead(trgm, vec, a, b), ~Ahead(trgm, vec, a, a),
         \A x \in Kept(trgm, vec, near) : Ahead(trgm, vec, x, a) => Ahead(trgm, vec, x, b)
  PROVE  /\ Place(trgm, vec, near, a) \in Nat /\ Place(trgm, vec, near, b) \in Nat
         /\ Place(trgm, vec, near, a) < Place(trgm, vec, near, b)
<1> DEFINE kept == Kept(trgm, vec, near)
           A == {x \in kept : Ahead(trgm, vec, x, a)}
           B == {x \in kept : Ahead(trgm, vec, x, b)}
<1>1. A \subseteq B /\ a \in B /\ a \notin A /\ B \subseteq kept
  OBVIOUS
<1>2. IsFiniteSet(B) /\ IsFiniteSet(A)
  <2> HIDE DEF A, B, kept
  <2>1. IsFiniteSet(kept)
    BY DEF kept
  <2>2. IsFiniteSet(B)
    BY <1>1, <2>1, FS_Subset
  <2> QED
    BY <1>1, <2>2, FS_Subset
<1>3. Cardinality(A) < Cardinality(B) /\ Cardinality(A) \in Nat /\ Cardinality(B) \in Nat
  <2> HIDE DEF A, B
  <2>1. Cardinality(A) \in Nat /\ Cardinality(B) \in Nat
    BY <1>2, FS_CardinalityType
  <2>2. Cardinality(A) <= Cardinality(B) /\ (Cardinality(B) = Cardinality(A) => B = A)
    BY <1>1, <1>2, FS_Subset
  <2>3. A # B
    BY <1>1
  <2> QED
    BY <2>1, <2>2, <2>3
<1>4. Place(trgm, vec, near, a) = 1 + Cardinality(A) /\ Place(trgm, vec, near, b) = 1 + Cardinality(B)
  BY DEF Place
<1> QED
  BY <1>3, <1>4

\* The promise of fuse, of any two lists within the limit: hits of both lists
\* come before all others, and a trigram hit before a vector hit that is not
\* ranked higher; neither is cut off by the limit while the other is shown.
THEOREM LiteralFirstTheorem ==
  ASSUME NEW trgm, NEW vec, IsList(trgm), IsList(vec), NEW near \in 0..Len(vec)
  PROVE  LiteralFirst(trgm, vec, near)
<1> DEFINE shown == Fuse(trgm, vec, near)
           both == ToIds(trgm) \cap ToIds(vec)
           kept == Kept(trgm, vec, near)
<1>1. kept \subseteq ToIds(trgm) \cup ToIds(vec) /\ ToIds(trgm) \subseteq kept
  <2>1. \A i \in 1..near : i \in DOMAIN vec
    BY DEF IsList
  <2> QED
    BY <2>1 DEF Kept, ToIds
<1>2. IsFiniteSet(kept)
  <2>1. IsFiniteSet(ToIds(trgm) \cup ToIds(vec))
    BY ListIsFinite, FS_Union
  <2> HIDE DEF kept
  <2> QED
    BY <1>1, <2>1, FS_Subset
<1>3. ASSUME NEW a \in kept, NEW b \in kept,
             Ahead(trgm, vec, a, b), ~Ahead(trgm, vec, a, a),
             \A x \in kept : Ahead(trgm, vec, x, a) => Ahead(trgm, vec, x, b),
             b \in DOMAIN shown
      PROVE  a \in DOMAIN shown /\ shown[a] < shown[b]
  <2>1. /\ Place(trgm, vec, near, a) \in Nat /\ Place(trgm, vec, near, b) \in Nat
        /\ Place(trgm, vec, near, a) < Place(trgm, vec, near, b)
    BY <1>2, <1>3, BetterPlace
  <2>2. /\ DOMAIN shown = {h \in kept : Place(trgm, vec, near, h) <= Limit}
        /\ \A h \in DOMAIN shown : shown[h] = Place(trgm, vec, near, h)
    BY DEF Fuse
  <2> HIDE DEF shown, kept
  <2> QED
    BY <1>3, <2>1, <2>2, FusionAssumption
<1>4. ASSUME NEW b \in both, NEW s \in kept \ both, s \in DOMAIN shown
      PROVE  b \in DOMAIN shown /\ shown[b] < shown[s]
  <2>1. b \in kept /\ s \in (ToIds(trgm) \cup ToIds(vec)) \ both
    BY <1>1
  <2>2. Ahead(trgm, vec, b, s)
    BY <2>1, AheadOfBoth
  <2>3. ~Ahead(trgm, vec, b, b)
    <3>1. Rank(trgm, b) \in 1..Limit /\ Met(trgm, vec, b) = Rank(trgm, b)
      BY RankInList DEF Met
    <3>2. ~Above(Score(trgm, vec, b), Score(trgm, vec, b))
      <4>1. Rank(vec, b) \in 1..Limit /\ Score(trgm, vec, b) = Both(Rank(trgm, b), Rank(vec, b))
        BY RankInList DEF Score
      <4>2. \A r, q \in 1..Limit : Both(r, q).num * Both(r, q).den \in Int
        BY FusionAssumption DEF Both
      <4> QED
        BY <3>1, <4>1, <4>2 DEF Above
    <3> QED
      BY <3>1, <3>2, FusionAssumption DEF Ahead
  <2>4. ASSUME NEW x \in kept, Ahead(trgm, vec, x, b) PROVE Ahead(trgm, vec, x, s)
    <3>1. x \in both
      BY <1>1, <2>4, AheadOfBoth
    <3> QED
      BY <2>1, <3>1, AheadOfBoth
  <2> QED
    BY <1>3, <1>4, <2>1, <2>2, <2>3, <2>4
<1>5. ASSUME NEW t \in ToIds(trgm) \ both, NEW v \in kept \ ToIds(trgm),
             Rank(trgm, t) <= Rank(vec, v), v \in DOMAIN shown
      PROVE  t \in DOMAIN shown /\ shown[t] < shown[v]
  <2>1. t \in kept /\ t \in ToIds(trgm) \ ToIds(vec) /\ v \in ToIds(vec) \ ToIds(trgm)
    BY <1>1
  <2>2. /\ Ahead(trgm, vec, t, v) /\ ~Ahead(trgm, vec, t, t)
        /\ \A x \in kept : Ahead(trgm, vec, x, t) => Ahead(trgm, vec, x, v)
    BY <1>1, <1>5, <2>1, TrigramAhead
  <2> QED
    BY <1>3, <1>5, <2>1, <2>2
<1> QED
  BY <1>4, <1>5 DEF LiteralFirst

-----------------------------------------------------------------------------
\* Ahead is a strict total order of the hits: scores are compared as fractions
\* with positive denominators, and no two hits are met at the same time.
Fraction == [num : Nat, den : Nat \ {0}]
AtLeast(a, b) == a.num * b.den >= b.num * a.den

LEMMA AtLeastChains ==
  ASSUME NEW a \in Fraction, NEW b \in Fraction, NEW c \in Fraction, AtLeast(a, b), AtLeast(b, c)
  PROVE  AtLeast(a, c) /\ (Above(a, b) \/ Above(b, c) => Above(a, c))
<1> DEFINE p == a.num
           q == a.den
           r == b.num
           s == b.den
           t == c.num
           u == c.den
<1>1. /\ p \in Nat /\ q \in Nat /\ r \in Nat /\ s \in Nat /\ t \in Nat /\ u \in Nat
      /\ q > 0 /\ s > 0 /\ u > 0
  BY DEF Fraction
<1>2. p * s >= r * q /\ r * u >= t * s
  BY DEF AtLeast
<1>3. /\ Above(a, b) <=> p * s > r * q
      /\ Above(b, c) <=> r * u > t * s
      /\ Above(a, c) <=> p * u > t * q
      /\ AtLeast(a, c) <=> p * u >= t * q
  BY DEF Above, AtLeast
<1> HIDE DEF p, q, r, s, t, u
<1>4. \A x, y, z \in Nat : z > 0 => (x >= y <=> x * z >= y * z) /\ (x > y <=> x * z > y * z)
  BY Z3
<1>5. /\ p * s \in Nat /\ r * q \in Nat /\ r * u \in Nat /\ t * s \in Nat /\ p * u \in Nat /\ t * q \in Nat
  BY <1>1
<1>6. /\ (p * s) * u = (p * u) * s /\ (r * q) * u = (r * u) * q /\ (t * s) * q = (t * q) * s
  BY <1>1, Z3
<1>7. /\ (p * u) * s >= (r * u) * q /\ (r * u) * q >= (t * q) * s
      /\ p * s > r * q => (p * u) * s > (r * u) * q
      /\ r * u > t * s => (r * u) * q > (t * q) * s
  BY <1>1, <1>2, <1>4, <1>5, <1>6
<1>8. (p * u) * s \in Nat /\ (r * u) * q \in Nat /\ (t * q) * s \in Nat
  BY <1>1
<1>9. /\ (p * u) * s >= (t * q) * s
      /\ p * s > r * q \/ r * u > t * s => (p * u) * s > (t * q) * s
  BY <1>7, <1>8
<1>10. p * u >= t * q /\ (p * s > r * q \/ r * u > t * s => p * u > t * q)
  BY <1>1, <1>4, <1>5, <1>9
<1> QED
  BY <1>3, <1>10

\* One of two fractions is above the other, or they are the same.
LEMMA AboveOrNot ==
  ASSUME NEW a \in Fraction, NEW b \in Fraction
  PROVE  (Above(a, b) <=> ~AtLeast(b, a)) /\ (Above(a, b) => AtLeast(a, b)) /\ ~Above(a, a)
<1>1. a.num * b.den \in Nat /\ b.num * a.den \in Nat /\ a.num * a.den \in Nat
  BY DEF Fraction
<1> QED
  BY <1>1 DEF Above, AtLeast

LEMMA ScoreIsFraction ==
  ASSUME NEW trgm, NEW vec, IsList(trgm), IsList(vec), NEW a \in ToIds(trgm) \cup ToIds(vec)
  PROVE  Score(trgm, vec, a) \in Fraction
<1>1. \A r \in 1..Limit : One(r) \in Fraction
  BY FusionAssumption DEF One, Fraction
<1>2. \A r, s \in 1..Limit : Both(r, s) \in Fraction
  <2> TAKE r, s \in 1..Limit
  <2>1. RrfK + r \in Nat \ {0} /\ RrfK + s \in Nat \ {0} /\ 2 * RrfK + r + s \in Nat
    BY FusionAssumption
  <2>2. \A x, y \in Nat \ {0} : x * y \in Nat \ {0}
    BY Z3
  <2> QED
    BY <2>1, <2>2 DEF Both, Fraction
<1> QED
  BY <1>1, <1>2, RankInList DEF Score

LEMMA MetOnce ==
  ASSUME NEW trgm, NEW vec, IsList(trgm), IsList(vec),
         NEW a \in ToIds(trgm) \cup ToIds(vec), NEW b \in ToIds(trgm) \cup ToIds(vec)
  PROVE  /\ Met(trgm, vec, a) \in Nat
         /\ Met(trgm, vec, a) = Met(trgm, vec, b) => a = b
<1>1. ASSUME NEW x \in ToIds(trgm)
      PROVE  Met(trgm, vec, x) \in 1..Len(trgm) /\ trgm[Met(trgm, vec, x)] = x
  <2>1. \E i \in DOMAIN trgm : trgm[i] = x
    BY DEF ToIds
  <2> QED
    BY <2>1, <1>1 DEF Met, Rank, IsList
<1>2. ASSUME NEW x \in ToIds(vec), x \notin ToIds(trgm)
      PROVE  Met(trgm, vec, x) = Len(trgm) + Rank(vec, x) /\ Rank(vec, x) \in 1..Limit
             /\ vec[Rank(vec, x)] = x
  BY <1>2, RankInList DEF Met
<1>3. Len(trgm) \in Nat /\ Limit \in Nat
  BY FusionAssumption DEF IsList
<1>4. CASE a \in ToIds(trgm) /\ b \in ToIds(trgm)
  BY <1>1, <1>3, <1>4
<1>5. CASE a \in ToIds(trgm) /\ b \notin ToIds(trgm)
  BY <1>1, <1>2, <1>3, <1>5
<1>6. CASE a \notin ToIds(trgm) /\ b \in ToIds(trgm)
  BY <1>1, <1>2, <1>3, <1>6
<1>7. CASE a \notin ToIds(trgm) /\ b \notin ToIds(trgm)
  BY <1>2, <1>3, <1>7
<1> QED
  BY <1>4, <1>5, <1>6, <1>7

LEMMA AheadIsOrder ==
  ASSUME NEW trgm, NEW vec, IsList(trgm), IsList(vec),
         NEW a \in ToIds(trgm) \cup ToIds(vec), NEW b \in ToIds(trgm) \cup ToIds(vec)
  PROVE  /\ ~Ahead(trgm, vec, a, a)
         /\ a # b => Ahead(trgm, vec, a, b) \/ Ahead(trgm, vec, b, a)
         /\ \A x \in ToIds(trgm) \cup ToIds(vec) :
              Ahead(trgm, vec, x, a) /\ Ahead(trgm, vec, a, b) => Ahead(trgm, vec, x, b)
<1> DEFINE ids == ToIds(trgm) \cup ToIds(vec)
           score(x) == Score(trgm, vec, x)
           met(x) == Met(trgm, vec, x)
<1>1. \A x \in ids : score(x) \in Fraction /\ met(x) \in Nat
  BY ScoreIsFraction, MetOnce
<1>2. \A x, y \in ids : Ahead(trgm, vec, x, y) <=>
        \/ Above(score(x), score(y))
        \/ AtLeast(score(x), score(y)) /\ met(x) < met(y)
  BY <1>1, AboveOrNot DEF Ahead
<1>3. ~Ahead(trgm, vec, a, a)
  BY <1>1, <1>2, AboveOrNot
<1>4. a # b => met(a) < met(b) \/ met(b) < met(a)
  BY <1>1, MetOnce
<1>5. a # b => Ahead(trgm, vec, a, b) \/ Ahead(trgm, vec, b, a)
  BY <1>1, <1>2, <1>4, AboveOrNot
<1>6. ASSUME NEW x \in ids, Ahead(trgm, vec, x, a), Ahead(trgm, vec, a, b)
      PROVE  Ahead(trgm, vec, x, b)
  <2> HIDE DEF score, met
  <2>1. AtLeast(score(x), score(a)) /\ AtLeast(score(a), score(b))
    BY <1>1, <1>2, <1>6, AboveOrNot
  <2>2. /\ AtLeast(score(x), score(b))
        /\ Above(score(x), score(a)) \/ Above(score(a), score(b)) => Above(score(x), score(b))
    BY <1>1, <2>1, AtLeastChains
  <2>3. met(x) \in Nat /\ met(a) \in Nat /\ met(b) \in Nat
    BY <1>1
  <2> QED
    BY <1>2, <1>6, <2>2, <2>3
<1> QED
  BY <1>3, <1>5, <1>6

\* So the places are the numbers from 1 up: no two hits have the same, and none
\* is left out.
LEMMA PlacesAreOneList ==
  ASSUME NEW trgm, NEW vec, IsList(trgm), IsList(vec), NEW near \in 0..Len(vec)
  PROVE  LET kept == Kept(trgm, vec, near) IN
           /\ IsFiniteSet(kept) /\ Cardinality(kept) \in Nat
           /\ [h \in kept |-> Place(trgm, vec, near, h)] \in Bijection(kept, 1..Cardinality(kept))
<1> DEFINE ids == ToIds(trgm) \cup ToIds(vec)
           kept == Kept(trgm, vec, near)
           N == Cardinality(kept)
           ahead(h) == {x \in kept : Ahead(trgm, vec, x, h)}
           place == [h \in kept |-> Place(trgm, vec, near, h)]
<1>1. kept \subseteq ids
  <2>1. \A i \in 1..near : i \in DOMAIN vec
    BY DEF IsList
  <2> QED
    BY <2>1 DEF Kept, ToIds
<1>2. IsFiniteSet(kept) /\ N \in Nat
  <2>1. IsFiniteSet(ids)
    BY ListIsFinite, FS_Union
  <2> HIDE DEF kept, ids
  <2>2. IsFiniteSet(kept)
    BY <1>1, <2>1, FS_Subset
  <2> QED
    BY <2>2, FS_CardinalityType DEF N
<1>3. \A h \in kept : place[h] = 1 + Cardinality(ahead(h))
  BY DEF Place
<1>4. ASSUME NEW h \in kept PROVE place[h] \in 1..N
  <2>1. ahead(h) \subseteq kept /\ h \notin ahead(h)
    BY <1>1, AheadIsOrder
  <2> HIDE DEF kept, ahead, place
  <2>2. /\ IsFiniteSet(ahead(h)) /\ Cardinality(ahead(h)) \in Nat
        /\ Cardinality(ahead(h)) <= N /\ Cardinality(ahead(h)) # N
    BY <1>2, <1>4, <2>1, FS_Subset, FS_CardinalityType DEF N
  <2> QED
    BY <1>2, <1>3, <1>4, <2>2
<1>5. ASSUME NEW g \in kept, NEW h \in kept, g # h PROVE place[g] # place[h]
  <2>1. ASSUME NEW a \in kept, NEW b \in kept, Ahead(trgm, vec, a, b) PROVE place[a] < place[b]
    <3>1. ~Ahead(trgm, vec, a, a) /\ \A x \in kept : Ahead(trgm, vec, x, a) => Ahead(trgm, vec, x, b)
      BY <1>1, <2>1, AheadIsOrder
    <3> QED
      BY <1>2, <2>1, <3>1, BetterPlace
  <2>2. Ahead(trgm, vec, g, h) \/ Ahead(trgm, vec, h, g)
    BY <1>1, <1>5, AheadIsOrder
  <2>3. place[g] \in 1..N /\ place[h] \in 1..N
    BY <1>4
  <2> HIDE DEF place, kept
  <2> QED
    BY <1>2, <2>1, <2>2, <2>3
<1>6. place \in Injection(kept, 1..N)
  BY <1>4, <1>5 DEF Injection, IsInjective
<1>7. IsFiniteSet(1..N) /\ Cardinality(1..N) = N
  BY <1>2, FS_Interval
<1>8. place \in Surjection(kept, 1..N)
  <2> HIDE DEF place, kept
  <2> QED
    BY <1>2, <1>6, <1>7, FS_Injection DEF N
<1> QED
  BY <1>2, <1>6, <1>8 DEF Bijection

\* The answer of fuse is one list without gaps or ties, of all hits that count,
\* up to its limit.
THEOREM OneListTheorem ==
  ASSUME NEW trgm, NEW vec, IsList(trgm), IsList(vec), NEW near \in 0..Len(vec)
  PROVE  OneList(trgm, vec, near)
<1> DEFINE kept == Kept(trgm, vec, near)
           N == Cardinality(kept)
           place == [h \in kept |-> Place(trgm, vec, near, h)]
           shown == Fuse(trgm, vec, near)
           D == DOMAIN shown
           top == IF N > Limit THEN Limit ELSE N
<1>1. IsFiniteSet(kept) /\ N \in Nat /\ place \in Bijection(kept, 1..N)
  BY PlacesAreOneList
<1>2. D = {h \in kept : place[h] <= Limit} /\ \A h \in D : shown[h] = place[h]
  BY DEF Fuse
<1> HIDE DEF kept, N, place, shown, D
<1>3. top \in Nat /\ top <= N /\ top <= Limit /\ (top < N => top = Limit)
  BY <1>1, FusionAssumption
<1>4. /\ \A h \in kept : place[h] \in 1..N
      /\ \A i \in 1..N : \E h \in kept : place[h] = i
      /\ \A g, h \in kept : place[g] = place[h] => g = h
  BY <1>1 DEF Bijection, Injection, Surjection, IsInjective
<1>5. \A h \in kept : h \in D <=> place[h] \in 1..top
  BY <1>1, <1>2, <1>3, <1>4, FusionAssumption
<1>6. {shown[h] : h \in D} = 1..top
  <2>1. \A h \in D : shown[h] \in 1..top
    BY <1>2, <1>5
  <2>2. ASSUME NEW i \in 1..top PROVE \E h \in D : shown[h] = i
    <3>1. i \in 1..N
      BY <1>1, <1>3
    <3>2. PICK h \in kept : place[h] = i
      BY <1>4, <3>1
    <3> QED
      BY <1>2, <1>5, <3>2
  <2> QED
    BY <2>1, <2>2
<1>7. IsFiniteSet(D) /\ Cardinality(D) = top
  <2> DEFINE f == [h \in D |-> place[h]]
  <2>1. \A h \in D : h \in kept
    BY <1>2
  <2>2. f \in Injection(D, 1..top)
    BY <1>4, <1>5, <2>1 DEF Injection, IsInjective
  <2>3. f \in Surjection(D, 1..top)
    <3>1. f \in [D -> 1..top]
      BY <1>5, <2>1
    <3>2. \A i \in 1..top : \E h \in D : f[h] = i
      <4>1. \A h \in D : f[h] = shown[h]
        BY <1>2
      <4> QED
        BY <1>6, <4>1
    <3> QED
      BY <3>1, <3>2 DEF Surjection
  <2> HIDE DEF f, top
  <2>4. IsFiniteSet(1..top) /\ Cardinality(1..top) = top
    BY <1>3, FS_Interval
  <2> QED
    BY <2>2, <2>3, <2>4, FS_Injection
<1> QED
  BY <1>6, <1>7 DEF OneList, D, N, kept, shown

-----------------------------------------------------------------------------
(***************************************************************************)
(* Days and months.                                                        *)
(***************************************************************************)

Dates == [y : Int, m : 1..12, d : Nat]

\* A year later or earlier a month has as many days, but for February.
LEMMA SameDays ==
  ASSUME NEW y \in Int, NEW z \in Int, NEW m \in 1..12, NEW d \in Nat, ~(m = 2 /\ d = 29)
  PROVE  IsDate(y, m, d) <=> IsDate(z, m, d)
<1>1. DaysIn(y, m) \in 28..31 /\ DaysIn(z, m) \in 28..31
  BY DEF DaysIn
<1>2. m # 2 => DaysIn(y, m) = DaysIn(z, m)
  BY DEF DaysIn
<1>3. m = 2 => DaysIn(y, m) \in {28, 29} /\ DaysIn(z, m) \in {28, 29}
  BY DEF DaysIn
<1> QED
  BY <1>1, <1>2, <1>3 DEF IsDate

\* DD/MM is the last such day up to today, in every year, but for 29/02.
THEOREM DayTheorem ==
  ASSUME NEW today \in Dates, NEW m \in 1..12, NEW d \in Nat, ~(m = 2 /\ d = 29)
  PROVE  DayIsMostRecent(m, d, today)
<1> DEFINE date == DayMonth(m, d, today)
<1>1. today.y \in Int /\ today.m \in 1..12 /\ today.d \in Nat
  BY DEF Dates
<1>2. CASE ~IsDate(today.y, m, d)
  BY <1>2 DEF DayIsMostRecent, DayMonth
<1>3. CASE IsDate(today.y, m, d) /\ Before(today, Date(today.y, m, d))
  <2>1. IsDate(today.y - 1, m, d)
    BY <1>1, <1>3, SameDays
  <2>2. d >= 1 /\ d <= DaysIn(today.y - 1, m)
    BY <2>1 DEF IsDate, DaysIn
  <2>3. date = Date(today.y - 1, m, d)
    BY <1>1, <1>3, <2>2 DEF DayMonth, Normal, DaysIn
  <2>4. date.y = today.y - 1 /\ date.m = m /\ date.d = d
    BY <2>3 DEF Date
  <2>5. ~Before(today, date)
    BY <1>1, <2>4 DEF Before
  <2>6. \A y \in date.y + 1..today.y : Before(today, Date(y, m, d))
    BY <1>1, <1>3, <2>4
  <2>7. IsDate(date.y, m, d)
    BY <2>1, <2>4
  <2> HIDE DEF date
  <2>8. LastDay(m, d, today, date)
    BY <2>4, <2>5, <2>6, <2>7 DEF LastDay
  <2> QED
    BY <1>3, <2>8 DEF DayIsMostRecent, date
<1>4. CASE IsDate(today.y, m, d) /\ ~Before(today, Date(today.y, m, d))
  <2>1. date = Date(today.y, m, d)
    BY <1>4 DEF DayMonth
  <2>2. date.y = today.y /\ date.m = m /\ date.d = d
    BY <2>1 DEF Date
  <2>3. LastDay(m, d, today, date)
    <3>1. \A y \in date.y + 1..today.y : FALSE
      BY <1>1, <2>2
    <3>2. ~Before(today, date)
      BY <1>4, <2>1
    <3> HIDE DEF date
    <3> QED
      BY <1>4, <2>2, <3>1, <3>2 DEF LastDay
  <2> QED
    BY <1>4, <2>3 DEF DayIsMostRecent
<1> QED
  BY <1>2, <1>3, <1>4

\* A month by its name is the last one of that name that has begun.
THEOREM MonthTheorem ==
  ASSUME NEW today \in Dates, today.d >= 1, NEW m \in 1..12
  PROVE  MonthIsMostRecent(m, today)
<1> DEFINE y == IF m > today.m THEN today.y - 1 ELSE today.y
           first == Date(y, m, 1)
<1>1. today.y \in Int /\ today.m \in 1..12 /\ today.d \in Nat
  BY DEF Dates
<1>2. first.y = y /\ first.m = m /\ first.d = 1 /\ y \in Int
  BY <1>1 DEF Date
<1>3. IsDate(y, m, 1)
  BY DEF IsDate, DaysIn
<1>4. ~Before(today, first)
  BY <1>1, <1>2 DEF Before
<1>5. \A z \in y + 1..today.y : Before(today, Date(z, m, 1))
  BY <1>1 DEF Before, Date
<1>6. LastDay(m, 1, today, first)
  <2> HIDE DEF first, y
  <2> QED
    BY <1>2, <1>3, <1>4, <1>5 DEF LastDay
<1> QED
  BY <1>2, <1>6 DEF MonthIsMostRecent, MonthName

\* The days of a year before a month, and before the month that precedes it.
LEMMA StartStep ==
  ASSUME NEW y \in Int, NEW m \in 2..12
  PROVE  (367 * m - 362) \div 12 + (IF m <= 2 THEN 0 ELSE IF Leap(y) THEN -1 ELSE -2)
           = (367 * (m - 1) - 362) \div 12
             + (IF m - 1 <= 2 THEN 0 ELSE IF Leap(y) THEN -1 ELSE -2) + DaysIn(y, m - 1)
BY SMTT(60) DEF DaysIn

\* A year has a day more when it is a leap year.
LEMMA YearStep ==
  ASSUME NEW y \in Int
  PROVE  (y \div 4) - (y \div 100) + (y \div 400)
           = ((y - 1) \div 4) - ((y - 1) \div 100) + ((y - 1) \div 400) + (IF Leap(y) THEN 1 ELSE 0)
BY SMTT(60) DEF Leap

\* A day that the month does not have is the day of another month with the same
\* number: what time.Date and AddDate make of it.
LEMMA NormalIsExact ==
  ASSUME NEW y \in Int, NEW m \in 1..12, NEW d \in -27..31, d <= DaysIn(y, m)
  PROVE  LET date == Normal(y, m, d) IN
           /\ IsDate(date.y, date.m, date.d)
           /\ DayNumber(date) = DayNumber(Date(y, m, 1)) + d - 1
<1> DEFINE date == Normal(y, m, d)
<1>1. CASE d >= 1
  <2>1. date = Date(y, m, d)
    <3>1. DaysIn(y, m) \in 28..31
      BY DEF DaysIn
    <3> QED
      BY <1>1, <3>1 DEF Normal
  <2>2. date.y = y /\ date.m = m /\ date.d = d
    BY <2>1 DEF Date
  <2>3. Date(y, m, 1).y = y /\ Date(y, m, 1).m = m /\ Date(y, m, 1).d = 1
    BY DEF Date
  <2> HIDE DEF date
  <2>4. IsDate(date.y, date.m, date.d)
    BY <1>1, <2>2 DEF IsDate
  <2>5. DayNumber(date) = DayNumber(Date(y, m, 1)) + d - 1
    BY <2>2, <2>3 DEF DayNumber
  <2> QED
    BY <2>4, <2>5 DEF date
<1>2. CASE d < 1 /\ m > 1
  <2> DEFINE last == DaysIn(y, m - 1) + d
  <2>1. date = Date(y, m - 1, last)
    BY <1>2 DEF Normal
  <2>2. date.y = y /\ date.m = m - 1 /\ date.d = last
    BY <2>1 DEF Date
  <2>3. Date(y, m, 1).y = y /\ Date(y, m, 1).m = m /\ Date(y, m, 1).d = 1
    BY DEF Date
  <2>4. DaysIn(y, m - 1) \in 28..31
    BY DEF DaysIn
  <2> HIDE DEF date
  <2>5. IsDate(date.y, date.m, date.d)
    BY <1>2, <2>2, <2>4 DEF IsDate
  <2>6. (367 * m - 362) \div 12 + (IF m <= 2 THEN 0 ELSE IF Leap(y) THEN -1 ELSE -2)
          = (367 * (m - 1) - 362) \div 12
            + (IF m - 1 <= 2 THEN 0 ELSE IF Leap(y) THEN -1 ELSE -2) + DaysIn(y, m - 1)
    BY <1>2, StartStep
  <2>7. DayNumber(date) = DayNumber(Date(y, m, 1)) + d - 1
    <3> DEFINE years == 365 * (y - 1) + ((y - 1) \div 4) - ((y - 1) \div 100) + ((y - 1) \div 400)
               before(k) == (367 * k - 362) \div 12
               short(k) == IF k <= 2 THEN 0 ELSE IF Leap(y) THEN -1 ELSE -2
    <3>1. /\ DayNumber(date) = years + before(m - 1) + short(m - 1) + last
          /\ DayNumber(Date(y, m, 1)) = years + before(m) + short(m) + 1
      BY <2>2, <2>3 DEF DayNumber
    <3>2. /\ years \in Int /\ before(m - 1) \in Int /\ before(m) \in Int
          /\ short(m - 1) \in Int /\ short(m) \in Int
      OBVIOUS
    <3>3. before(m) + short(m) = before(m - 1) + short(m - 1) + DaysIn(y, m - 1)
      BY <2>6
    <3> HIDE DEF years, before, short
    <3> QED
      BY <2>4, <3>1, <3>2, <3>3
  <2> QED
    BY <2>5, <2>7 DEF date
<1>3. CASE d < 1 /\ m = 1
  <2>1. date = Date(y - 1, 12, 31 + d)
    BY <1>3 DEF Normal
  <2>2. date.y = y - 1 /\ date.m = 12 /\ date.d = 31 + d
    BY <2>1 DEF Date
  <2>3. Date(y, m, 1).y = y /\ Date(y, m, 1).m = 1 /\ Date(y, m, 1).d = 1
    BY <1>3 DEF Date
  <2> HIDE DEF date
  <2>4. IsDate(date.y, date.m, date.d)
    BY <1>3, <2>2 DEF IsDate, DaysIn
  <2>5. (y - 1) \in Int /\ (y - 1) - 1 \in Int
    OBVIOUS
  <2>6. ((y - 1) \div 4) - ((y - 1) \div 100) + ((y - 1) \div 400)
          = (((y - 1) - 1) \div 4) - (((y - 1) - 1) \div 100) + (((y - 1) - 1) \div 400)
            + (IF Leap(y - 1) THEN 1 ELSE 0)
    BY <2>5, YearStep
  <2>7. DayNumber(date) = DayNumber(Date(y, m, 1)) + d - 1
    BY <1>3, <2>2, <2>3, <2>6 DEF DayNumber
  <2> QED
    BY <2>4, <2>7 DEF date
<1> QED
  BY <1>1, <1>2, <1>3

\* ayer and antier are one and two days before today, across the end of every
\* month and of every year.
THEOREM RelativeTheorem ==
  ASSUME NEW today \in Dates, IsDate(today.y, today.m, today.d), NEW back \in 0..2
  PROVE  RelativeIsExact(back, today)
<1>1. today.y \in Int /\ today.m \in 1..12 /\ DaysIn(today.y, today.m) \in 28..31
  BY DEF Dates, DaysIn
<1>2. today.d \in 1..DaysIn(today.y, today.m)
  BY DEF IsDate
<1>3. today.d - back \in -27..31 /\ today.d - back <= DaysIn(today.y, today.m)
  BY <1>1, <1>2
<1>4. DayNumber(today) = DayNumber(Date(today.y, today.m, 1)) + today.d - 1
  BY <1>1, <1>2 DEF DayNumber, Date
<1>5. LET date == Normal(today.y, today.m, today.d - back) IN
        /\ IsDate(date.y, date.m, date.d)
        /\ DayNumber(date) = DayNumber(Date(today.y, today.m, 1)) + (today.d - back) - 1
  BY <1>1, <1>3, NormalIsExact
<1>6. DayNumber(Date(today.y, today.m, 1)) \in Int
  BY <1>1 DEF DayNumber, Date
<1> QED
  BY <1>1, <1>2, <1>4, <1>5, <1>6 DEF RelativeIsExact, Relative

-----------------------------------------------------------------------------
(***************************************************************************)
(* Replies. The keyword that a word belongs to is the greatest before it.  *)
(***************************************************************************)

\* A keyword is no other token, and what the tables hold.
LEMMA KindsAre ==
  /\ \A t \in Kinds : t \in Keywords \/ t \in DOMAIN Shape
  /\ \A t \in DOMAIN Shape : t \notin Keywords /\ t \in Kinds
  /\ \A t \in DOMAIN Shape : Shape[t] \in {"total", "date", "currency", "mixed", "word"}
  /\ \A t \in Keywords : FieldOf[t] \in FieldNames
BY DEF Kinds, Keywords, Shape, FieldOf, FieldNames

\* Where the first keyword is, and where the values of a keyword end.
LEMMA FirstKeyIs ==
  ASSUME NEW text \in Seq(Kinds)
  PROVE  /\ FirstKey(text) \in 1..Len(text) + 1
         /\ FirstKey(text) = Len(text) + 1 \/ text[FirstKey(text)] \in Keywords
         /\ \A j \in 1..FirstKey(text) - 1 : text[j] \notin Keywords
<1> DEFINE n == Len(text)
           T == {i \in 1..n + 1 : i = n + 1 \/ text[i] \in Keywords}
<1>1. n \in Nat
  OBVIOUS
<1> HIDE DEF n
<1>2. T \in SUBSET Nat /\ T # {}
  BY <1>1
<1>3. PICK x \in T : \A y \in T : x <= y
  BY <1>2, Least
<1>4. \A j \in 1..x - 1 : text[j] \notin Keywords
  BY <1>1, <1>3
<1>5. \E i \in 1..n + 1 :
        /\ i = n + 1 \/ text[i] \in Keywords
        /\ \A j \in 1..i - 1 : text[j] \notin Keywords
  BY <1>3, <1>4
<1> QED
  BY <1>5 DEF FirstKey, n

LEMMA EndIs ==
  ASSUME NEW text \in Seq(Kinds), NEW i \in 1..Len(text)
  PROVE  /\ EndOf(text, i) \in i..Len(text)
         /\ EndOf(text, i) = Len(text) \/ text[EndOf(text, i) + 1] \in Keywords
         /\ \A k \in i + 1..EndOf(text, i) : text[k] \notin Keywords
<1> DEFINE n == Len(text)
           T == {j \in i..n : j = n \/ text[j + 1] \in Keywords}
<1>1. n \in Nat /\ i \in 1..n
  OBVIOUS
<1> HIDE DEF n
<1>2. T \in SUBSET Nat /\ T # {}
  BY <1>1
<1>3. PICK x \in T : \A y \in T : x <= y
  BY <1>2, Least
<1>4. ASSUME NEW k \in i + 1..x PROVE text[k] \notin Keywords
  <2>1. k - 1 \in i..n /\ k - 1 < x /\ (k - 1) + 1 = k
    BY <1>1, <1>3
  <2>2. k - 1 \notin T
    BY <1>1, <1>3, <2>1
  <2> QED
    BY <2>1, <2>2
<1>5. \E j \in i..n :
        /\ j = n \/ text[j + 1] \in Keywords
        /\ \A k \in i + 1..j : text[k] \notin Keywords
  BY <1>3, <1>4
<1> QED
  BY <1>5 DEF EndOf, n

\* The words before the first keyword.
LEMMA BareIs ==
  ASSUME NEW text \in Seq(Kinds)
  PROVE  /\ Bare(text) \in Seq(DOMAIN Shape) /\ Len(Bare(text)) = FirstKey(text) - 1
         /\ \A i \in 1..FirstKey(text) - 1 : Bare(text)[i] = text[i]
<1> DEFINE n == Len(text)
           k == FirstKey(text) - 1
<1>1. n \in Nat /\ k \in 0..n /\ \A j \in 1..k : text[j] \notin Keywords
  BY FirstKeyIs
<1>2. Bare(text) \in Seq(Kinds) /\ Len(Bare(text)) = k /\ \A i \in 1..k : Bare(text)[i] = text[i]
  <2>1. Bare(text) = SubSeq(text, 1, k)
    BY DEF Bare
  <2> HIDE DEF k
  <2> QED
    BY <1>1, <2>1, SubSeqProperties
<1> HIDE DEF n, k
<1>3. \A i \in 1..k : text[i] \in DOMAIN Shape
  <2>1. \A i \in 1..n : text[i] \in Kinds
    BY DEF n
  <2> QED
    BY <1>1, <2>1, KindsAre
<1>4. \A i \in 1..k : Bare(text)[i] \in DOMAIN Shape
  BY <1>2, <1>3
<1>5. Bare(text) \in Seq(DOMAIN Shape)
  BY <1>1, <1>2, <1>4
<1> QED
  BY <1>2, <1>5 DEF k

\* The values of a text, and the position that the k-th token of one is from.
Values(text) == BareWords(Bare(text)) \cup BareValues(Bare(text)) \cup KeyValues(text)
Spot(text, v, k) == IF v.at \in 1..FirstKey(text) - 1 THEN v.at ELSE v.at + k

\* A value is all the words before the first keyword, another token before it,
\* or what a keyword owns.
IsWords(text, v) ==
  /\ v = Value("merchant", Bare(text), 0)
  /\ \E i \in 1..FirstKey(text) - 1 : Shape[text[i]] = "word"
IsBare(text, v) ==
  \E i \in 1..FirstKey(text) - 1 : Shape[text[i]] # "word" /\ v = Value(Shape[text[i]], <<text[i]>>, i)
IsOwned(text, v) ==
  \E i \in FirstKey(text)..Len(text) :
    /\ text[i] \in Keywords
    /\ v.field = FieldOf[text[i]] /\ v.at = i
    /\ v.tokens \in Seq(Kinds) /\ Len(v.tokens) = EndOf(text, i) - i
    /\ \A k \in 1..EndOf(text, i) - i : v.tokens[k] = text[i + k]

\* What a keyword owns.
Owned(text, i) == Value(FieldOf[text[i]], SubSeq(text, i + 1, EndOf(text, i)), i)
LEMMA OwnedIs ==
  ASSUME NEW text \in Seq(Kinds), NEW i \in 1..Len(text), text[i] \in Keywords
  PROVE  /\ i \in FirstKey(text)..Len(text)
         /\ Owned(text, i).field = FieldOf[text[i]] /\ Owned(text, i).at = i
         /\ Owned(text, i).tokens \in Seq(Kinds) /\ Len(Owned(text, i).tokens) = EndOf(text, i) - i
         /\ \A k \in 1..EndOf(text, i) - i : Owned(text, i).tokens[k] = text[i + k]
<1> DEFINE n == Len(text)
           e == EndOf(text, i)
           f == FirstKey(text)
           s == SubSeq(text, i + 1, e)
           v == Owned(text, i)
<1>1. n \in Nat /\ i \in 1..n /\ \A k \in 1..n : text[k] \in Kinds
  OBVIOUS
<1>2. e \in i..n
  BY EndIs
<1>3. f \in 1..n + 1 /\ \A j \in 1..f - 1 : text[j] \notin Keywords
  BY FirstKeyIs
<1>4. v.field = FieldOf[text[i]] /\ v.at = i /\ v.tokens = s
  BY DEF Owned, Value
<1>5. /\ s \in Seq(Kinds)
      /\ Len(s) = (IF i + 1 <= e THEN e - (i + 1) + 1 ELSE 0)
      /\ \A k \in 1..e - (i + 1) + 1 : s[k] = text[(i + 1) + k - 1]
  <2> HIDE DEF n, e
  <2>1. \A k \in i + 1..e : text[k] \in Kinds
    BY <1>1, <1>2
  <2>2. i + 1 \in Int /\ e \in Int
    BY <1>1, <1>2
  <2> QED
    BY <2>1, <2>2, SubSeqProperties
<1> HIDE DEF n, e, f, s, v
<1>6. i \in f..n
  BY <1>1, <1>3
<1>7. Len(s) = e - i /\ \A k \in 1..e - i : s[k] = text[i + k]
  BY <1>1, <1>2, <1>5
<1> QED
  BY <1>4, <1>5, <1>6, <1>7 DEF n, e, f, v

\* There is no other value.
LEMMA ValueIs ==
  ASSUME NEW text \in Seq(Kinds), NEW v \in Values(text)
  PROVE  IsWords(text, v) \/ IsBare(text, v) \/ IsOwned(text, v)
<1> DEFINE bare == Bare(text)
           f == FirstKey(text)
<1>1. /\ DOMAIN bare = 1..f - 1 /\ \A i \in 1..f - 1 : bare[i] = text[i]
  BY BareIs
<1>2. CASE v \in BareWords(bare)
  <2>1. v = Value("merchant", bare, 0) /\ \E i \in DOMAIN bare : Shape[bare[i]] = "word"
    BY <1>2 DEF BareWords
  <2> QED
    BY <1>1, <2>1 DEF IsWords
<1>3. CASE v \in BareValues(bare)
  <2>1. PICK i \in DOMAIN bare : Shape[bare[i]] # "word" /\ v = Value(Shape[bare[i]], <<bare[i]>>, i)
    BY <1>3 DEF BareValues
  <2> QED
    BY <1>1, <2>1 DEF IsBare
<1>4. CASE v \in KeyValues(text)
  <2>1. PICK i \in DOMAIN text : /\ text[i] \in Keywords
                                 /\ v = Owned(text, i)
    BY <1>4 DEF KeyValues, Owned
  <2>2. i \in 1..Len(text)
    OBVIOUS
  <2> QED
    BY <2>1, <2>2, OwnedIs DEF IsOwned
<1> QED
  BY <1>2, <1>3, <1>4 DEF Values

\* What Parse asks of a text that it accepts.
Accepted(text) ==
  /\ BareOK(Bare(text))
  /\ \A v \in Values(text) : v.tokens # << >> /\ (v.field # "merchant" => Len(v.tokens) = 1)
  /\ \A v, w \in Values(text) : v.field = w.field => v = w

\* Among accepted words there is no other bare value, and no token of two shapes.
LEMMA BareIsOneKind ==
  ASSUME NEW text \in Seq(Kinds), Accepted(text)
  PROVE  /\ \A i \in 1..FirstKey(text) - 1 : Shape[text[i]] # "mixed"
         /\ \A i, j \in 1..FirstKey(text) - 1 : Shape[text[i]] = "word" => Shape[text[j]] = "word"
<1> DEFINE bare == Bare(text)
           f == FirstKey(text)
           words == {i \in DOMAIN bare : Shape[bare[i]] = "word"}
<1>1. DOMAIN bare = 1..f - 1 /\ \A i \in 1..f - 1 : bare[i] = text[i]
  BY BareIs
<1>2. /\ \A i \in DOMAIN bare : Shape[bare[i]] # "mixed"
      /\ words # {} => words = DOMAIN bare
  BY DEF Accepted, BareOK
<1> HIDE DEF f, bare
<1> QED
  BY <1>1, <1>2 DEF f

\* The tokens of a value are the words at its positions.
LEMMA SpotIs ==
  ASSUME NEW text \in Seq(Kinds), Accepted(text), NEW v \in Values(text), NEW k \in DOMAIN v.tokens
  PROVE  /\ Spot(text, v, k) \in Words(text) /\ v.tokens[k] = text[Spot(text, v, k)]
         /\ v.tokens \in Seq(Kinds) /\ v.field \in FieldNames
<1> DEFINE n == Len(text)
           f == FirstKey(text)
<1>1. /\ n \in Nat /\ f \in 1..n + 1 /\ DOMAIN text = 1..n
      /\ \A j \in 1..f - 1 : text[j] \notin Keywords /\ text[j] \in DOMAIN Shape
  <2>1. \A i \in 1..n : text[i] \in Kinds
    OBVIOUS
  <2> QED
    BY <2>1, FirstKeyIs, KindsAre
<1> HIDE DEF n
<1>2. CASE IsWords(text, v)
  <2>1. v.field = "merchant" /\ v.tokens = Bare(text) /\ v.at = 0
    BY <1>2 DEF IsWords, Value
  <2>2. /\ Bare(text) \in Seq(Kinds) /\ Len(Bare(text)) = f - 1
        /\ \A i \in 1..f - 1 : Bare(text)[i] = text[i]
    <3>1. Bare(text) \in Seq(DOMAIN Shape)
      BY BareIs
    <3>2. DOMAIN Shape \subseteq Kinds
      BY KindsAre
    <3> QED
      BY <3>1, <3>2, BareIs
  <2>3. k \in 1..f - 1 /\ Spot(text, v, k) = k
    BY <1>1, <2>1, <2>2 DEF Spot
  <2> QED
    BY <1>1, <2>1, <2>2, <2>3 DEF Words, FieldNames
<1>3. CASE IsBare(text, v)
  <2>1. PICK i \in 1..f - 1 : Shape[text[i]] # "word" /\ v = Value(Shape[text[i]], <<text[i]>>, i)
    BY <1>3 DEF IsBare
  <2>2. v.field = Shape[text[i]] /\ v.tokens = <<text[i]>> /\ v.at = i
    BY <2>1 DEF Value
  <2>3. k = 1 /\ Spot(text, v, k) = i
    BY <2>1, <2>2 DEF Spot
  <2>4. Shape[text[i]] \in FieldNames
    <3>1. Shape[text[i]] # "mixed"
      BY <2>1, BareIsOneKind
    <3> QED
      BY <1>1, <2>1, <3>1, KindsAre DEF FieldNames
  <2>5. text[i] \in Kinds
    BY <1>1, KindsAre
  <2> QED
    BY <1>1, <2>2, <2>3, <2>4, <2>5 DEF Words
<1>4. CASE IsOwned(text, v)
  <2>1. PICK i \in f..n :
          /\ text[i] \in Keywords
          /\ v.field = FieldOf[text[i]] /\ v.at = i
          /\ v.tokens \in Seq(Kinds) /\ Len(v.tokens) = EndOf(text, i) - i
          /\ \A j \in 1..EndOf(text, i) - i : v.tokens[j] = text[i + j]
    BY <1>4 DEF IsOwned, n
  <2>2. EndOf(text, i) \in i..n /\ \A j \in i + 1..EndOf(text, i) : text[j] \notin Keywords
    BY <1>1, <2>1, EndIs DEF n
  <2>3. k \in 1..EndOf(text, i) - i /\ Spot(text, v, k) = i + k
    BY <1>1, <2>1, <2>2 DEF Spot
  <2>4. i + k \in i + 1..EndOf(text, i) /\ i + k \in 1..n
    BY <1>1, <2>1, <2>2, <2>3
  <2> QED
    BY <1>1, <2>1, <2>2, <2>3, <2>4, KindsAre DEF Words
<1> QED
  BY <1>2, <1>3, <1>4, ValueIs

\* No position gives a token to two values, or two to one.
LEMMA SpotOnce ==
  ASSUME NEW text \in Seq(Kinds), Accepted(text),
         NEW v \in Values(text), NEW k \in DOMAIN v.tokens,
         NEW w \in Values(text), NEW l \in DOMAIN w.tokens,
         Spot(text, v, k) = Spot(text, w, l)
  PROVE  v = w /\ k = l
<1> DEFINE n == Len(text)
           f == FirstKey(text)
<1>1. n \in Nat /\ f \in 1..n + 1
  BY FirstKeyIs
<1> HIDE DEF n
<1>2. ASSUME NEW x \in Values(text), NEW j \in DOMAIN x.tokens, IsWords(text, x)
      PROVE  x = Value("merchant", Bare(text), 0) /\ j \in 1..f - 1 /\ Spot(text, x, j) = j
             /\ \A i \in 1..f - 1 : Shape[text[i]] = "word"
  <2>1. x.tokens = Bare(text) /\ x.at = 0
    BY <1>2 DEF IsWords, Value
  <2>2. j \in 1..f - 1 /\ Spot(text, x, j) = j
    BY <1>1, <1>2, <2>1, BareIs DEF Spot
  <2> QED
    BY <1>2, <2>2, BareIsOneKind DEF IsWords
<1>3. ASSUME NEW x \in Values(text), NEW j \in DOMAIN x.tokens, IsBare(text, x)
      PROVE  \E i \in 1..f - 1 : /\ Shape[text[i]] # "word" /\ x = Value(Shape[text[i]], <<text[i]>>, i)
                                 /\ j = 1 /\ Spot(text, x, j) = i
  BY <1>3 DEF IsBare, Value, Spot
<1>4. ASSUME NEW x \in Values(text), NEW j \in DOMAIN x.tokens, IsOwned(text, x)
      PROVE  \E i \in f..n : /\ text[i] \in Keywords /\ x.at = i /\ j \in 1..EndOf(text, i) - i
                             /\ EndOf(text, i) \in i..n
                             /\ \A m \in i + 1..EndOf(text, i) : text[m] \notin Keywords
                             /\ Spot(text, x, j) = i + j
  <2>1. PICK i \in f..n : /\ text[i] \in Keywords /\ x.at = i
                          /\ x.tokens \in Seq(Kinds) /\ Len(x.tokens) = EndOf(text, i) - i
    BY <1>4 DEF IsOwned, n
  <2>2. EndOf(text, i) \in i..n /\ \A m \in i + 1..EndOf(text, i) : text[m] \notin Keywords
    BY <1>1, <2>1, EndIs DEF n
  <2>3. j \in 1..EndOf(text, i) - i /\ Spot(text, x, j) = i + j
    BY <1>1, <1>4, <2>1, <2>2 DEF Spot
  <2> QED
    BY <2>1, <2>2, <2>3
<1>5. ASSUME IsOwned(text, v), IsOwned(text, w) PROVE v = w /\ k = l
  <2>1. PICK i \in f..n : /\ text[i] \in Keywords /\ v.at = i /\ k \in 1..EndOf(text, i) - i
                          /\ EndOf(text, i) \in i..n
                          /\ \A m \in i + 1..EndOf(text, i) : text[m] \notin Keywords
                          /\ Spot(text, v, k) = i + k
    BY <1>4, <1>5
  <2>2. PICK j \in f..n : /\ text[j] \in Keywords /\ w.at = j /\ l \in 1..EndOf(text, j) - j
                          /\ EndOf(text, j) \in j..n
                          /\ \A m \in j + 1..EndOf(text, j) : text[m] \notin Keywords
                          /\ Spot(text, w, l) = j + l
    BY <1>4, <1>5
  <2>3. i = j /\ k = l
    <3> DEFINE d == EndOf(text, i)
               e == EndOf(text, j)
    <3>1. i + k = j + l /\ d \in i..n /\ k \in 1..d - i /\ e \in j..n /\ l \in 1..e - j
      BY <2>1, <2>2
    <3>2. i \in Nat /\ j \in Nat
      BY <1>1
    <3> HIDE DEF d, e
    <3>3. i < j => j \in i + 1..d
      BY <1>1, <3>1, <3>2
    <3>4. j < i => i \in j + 1..e
      BY <1>1, <3>1, <3>2
    <3>5. ~(i < j) /\ ~(j < i)
      BY <2>1, <2>2, <3>3, <3>4 DEF d, e
    <3> QED
      BY <1>1, <3>1, <3>2, <3>5
  <2>4. v.field = w.field
    <3>1. v.field = FieldOf[text[i]] /\ w.field = FieldOf[text[i]]
      BY <1>5, <2>1, <2>2, <2>3 DEF IsOwned
    <3> QED
      BY <3>1
  <2> QED
    BY <2>3, <2>4 DEF Accepted
<1>6. ASSUME NEW x \in Values(text), NEW j \in DOMAIN x.tokens
      PROVE  Spot(text, x, j) \in Nat /\ (IsOwned(text, x) <=> Spot(text, x, j) > f)
  <2>1. IsOwned(text, x) => Spot(text, x, j) \in Nat /\ Spot(text, x, j) > f
    <3> SUFFICES ASSUME IsOwned(text, x) PROVE Spot(text, x, j) \in Nat /\ Spot(text, x, j) > f
      OBVIOUS
    <3>1. PICK i \in f..n : EndOf(text, i) \in i..n /\ j \in 1..EndOf(text, i) - i /\ Spot(text, x, j) = i + j
      BY <1>4
    <3> QED
      BY <1>1, <3>1
  <2>2. IsWords(text, x) => Spot(text, x, j) \in Nat /\ ~(Spot(text, x, j) > f)
    BY <1>1, <1>2
  <2>3. IsBare(text, x) => Spot(text, x, j) \in Nat /\ ~(Spot(text, x, j) > f)
    <3> SUFFICES ASSUME IsBare(text, x) PROVE Spot(text, x, j) \in Nat /\ ~(Spot(text, x, j) > f)
      OBVIOUS
    <3>1. PICK i \in 1..f - 1 : Spot(text, x, j) = i
      BY <1>3
    <3> QED
      BY <1>1, <3>1
  <2> QED
    BY <2>1, <2>2, <2>3, ValueIs
<1>7. IsOwned(text, v) <=> IsOwned(text, w)
  BY <1>6
<1>8. ASSUME ~IsOwned(text, v), ~IsOwned(text, w) PROVE v = w /\ k = l
  <2>1. CASE IsWords(text, v) /\ IsWords(text, w)
    BY <1>2, <2>1
  <2>2. CASE IsBare(text, v) /\ IsBare(text, w)
    BY <1>3, <2>2
  <2>3. CASE IsWords(text, v) /\ IsBare(text, w)
    BY <1>2, <1>3, <2>3
  <2>4. CASE IsBare(text, v) /\ IsWords(text, w)
    BY <1>2, <1>3, <2>4
  <2> QED
    BY <1>8, <2>1, <2>2, <2>3, <2>4, ValueIs
<1> QED
  BY <1>5, <1>6, <1>7, <1>8

\* Every word of the text is a token of some value.
LEMMA EveryWordHasSpot ==
  ASSUME NEW text \in Seq(Kinds), Accepted(text), NEW i \in Words(text)
  PROVE  \E v \in Values(text) : \E k \in DOMAIN v.tokens : Spot(text, v, k) = i
<1> DEFINE n == Len(text)
           f == FirstKey(text)
<1>1. /\ n \in Nat /\ f \in 1..n + 1 /\ i \in 1..n /\ text[i] \notin Keywords
      /\ f = n + 1 \/ text[f] \in Keywords
  BY FirstKeyIs DEF Words
<1> HIDE DEF n
<1>2. ASSUME i < f, Shape[text[i]] = "word"
      PROVE  \E v \in Values(text) : \E k \in DOMAIN v.tokens : Spot(text, v, k) = i
  <2> DEFINE v == Value("merchant", Bare(text), 0)
  <2>1. DOMAIN Bare(text) = 1..f - 1 /\ i \in 1..f - 1 /\ Bare(text)[i] = text[i]
    BY <1>1, <1>2, BareIs
  <2>2. v \in Values(text)
    BY <1>2, <2>1 DEF Values, BareWords
  <2>3. v.tokens = Bare(text) /\ v.at = 0
    BY DEF Value
  <2> HIDE DEF v
  <2>4. Spot(text, v, i) = i
    BY <1>1, <2>3 DEF Spot
  <2> QED
    BY <2>1, <2>2, <2>3, <2>4
<1>3. ASSUME i < f, Shape[text[i]] # "word"
      PROVE  \E v \in Values(text) : \E k \in DOMAIN v.tokens : Spot(text, v, k) = i
  <2> DEFINE v == Value(Shape[text[i]], <<text[i]>>, i)
  <2>1. DOMAIN Bare(text) = 1..f - 1 /\ i \in 1..f - 1 /\ Bare(text)[i] = text[i]
    BY <1>1, <1>3, BareIs
  <2>2. v \in Values(text)
    BY <1>3, <2>1 DEF Values, BareValues
  <2>3. v.tokens = <<text[i]>> /\ v.at = i
    BY DEF Value
  <2> HIDE DEF v
  <2>4. Spot(text, v, 1) = i /\ 1 \in DOMAIN v.tokens
    BY <1>1, <2>1, <2>3 DEF Spot
  <2> QED
    BY <2>2, <2>4
<1>4. ASSUME i >= f
      PROVE  \E v \in Values(text) : \E k \in DOMAIN v.tokens : Spot(text, v, k) = i
  <2> DEFINE T == {j \in 1..i : text[j] \in Keywords}
  <2>1. f \in T
    BY <1>1, <1>4
  <2>2. PICK p \in T : \A j \in T : j <= p
    <3>1. T \in SUBSET Nat /\ i \in Nat /\ \A x \in T : x <= i
      BY <1>1
    <3> HIDE DEF T
    <3> QED
      BY <2>1, <3>1, Greatest
  <2>3. p \in 1..n /\ p < i /\ p >= f /\ text[p] \in Keywords
    BY <1>1, <2>1, <2>2
  <2>4. \A j \in p + 1..i : text[j] \notin Keywords
    BY <1>1, <2>2
  <2> DEFINE e == EndOf(text, p)
             v == Owned(text, p)
  <2>5. e \in p..n /\ (e = n \/ text[e + 1] \in Keywords)
    BY <2>3, EndIs DEF n
  <2>6. /\ v.at = p /\ v.tokens \in Seq(Kinds) /\ Len(v.tokens) = e - p
    BY <2>3, OwnedIs DEF n
  <2>7. v \in Values(text)
    BY <2>3 DEF Values, KeyValues, Owned, n
  <2> HIDE DEF e, v, T
  <2>8. e >= i
    <3>1. e < i => e + 1 \in p + 1..i
      BY <1>1, <2>3, <2>5
    <3> QED
      BY <1>1, <2>3, <2>4, <2>5, <3>1
  <2>9. i - p \in DOMAIN v.tokens /\ Spot(text, v, i - p) = i
    BY <1>1, <2>3, <2>5, <2>6, <2>8 DEF Spot
  <2> QED
    BY <2>7, <2>9
<1> QED
  BY <1>1, <1>2, <1>3, <1>4

\* What Parse has read: every word, each once, and nothing but words.
Said(text, fields) ==
  /\ Uses(text, fields)
  /\ \A f \in FieldNames : /\ fields[f] \in Seq(Kinds) /\ \A k \in DOMAIN fields[f] : fields[f][k] \notin Keywords
                           /\ f # "merchant" => Len(fields[f]) <= 1

\* Whatever is read is a sequence of tokens.
LEMMA TokensAre ==
  ASSUME NEW text \in Seq(Kinds), NEW v \in Values(text)
  PROVE  v.tokens \in Seq(Kinds)
<1>1. CASE IsWords(text, v)
  <2>1. Bare(text) \in Seq(DOMAIN Shape) /\ DOMAIN Shape \subseteq Kinds
    BY BareIs, KindsAre
  <2>2. v.tokens = Bare(text)
    BY <1>1 DEF IsWords, Value
  <2> QED
    BY <2>1, <2>2
<1>2. CASE IsBare(text, v)
  <2>1. PICK i \in 1..FirstKey(text) - 1 : v.tokens = <<text[i]>>
    BY <1>2 DEF IsBare, Value
  <2>2. text[i] \in Kinds
    BY <2>1, FirstKeyIs
  <2> QED
    BY <2>1, <2>2
<1>3. CASE IsOwned(text, v)
  BY <1>3 DEF IsOwned
<1> QED
  BY <1>1, <1>2, <1>3, ValueIs

\* Spot is a bijection from the tokens that were read to the words of the text.
LEMMA ParseSaysAll ==
  ASSUME NEW text \in Seq(Kinds), NEW currency, ~Parse(text, currency).error
  PROVE  Said(text, Parse(text, currency).fields)
<1> DEFINE values == Values(text)
           fields == [f \in FieldNames |->
                        IF \E v \in values : v.field = f
                        THEN (CHOOSE v \in values : v.field = f).tokens ELSE << >>]
<1>1. /\ Accepted(text) /\ Parse(text, currency).fields = fields
  <2>1. Unparseable.error /\ Parsed(fields).fields = fields
    BY DEF Unparseable, Parsed
  <2> QED
    BY <2>1 DEF Parse, Accepted, Values
<1>2. \A v \in values : v.field \in FieldNames /\ fields[v.field] = v.tokens
  <2> SUFFICES ASSUME NEW v \in values PROVE v.field \in FieldNames /\ fields[v.field] = v.tokens
    OBVIOUS
  <2>1. v.field \in FieldNames
    <3>1. v.tokens # << >> /\ v.tokens \in Seq(Kinds)
      BY <1>1, TokensAre DEF Accepted
    <3>2. 1 \in DOMAIN v.tokens
      BY <3>1
    <3> QED
      BY <1>1, <3>2, SpotIs
  <2>2. \A w \in values : w.field = v.field => w = v
    BY <1>1 DEF Accepted
  <2>3. (CHOOSE w \in values : w.field = v.field) = v
    BY <2>2
  <2> QED
    BY <2>1, <2>3
<1>3. \A f \in FieldNames : (\E v \in values : v.field = f) \/ fields[f] = << >>
  OBVIOUS
<1> HIDE DEF fields
<1>4. ASSUME NEW i \in Words(text)
      PROVE  \E v \in values : \E k \in DOMAIN v.tokens : Spot(text, v, k) = i /\ text[i] = v.tokens[k]
  BY <1>1, EveryWordHasSpot, SpotIs
<1>5. \A i \in Words(text) : \E f \in FieldNames : text[i] \in ToSet(fields[f])
  <2> SUFFICES ASSUME NEW i \in Words(text) PROVE \E f \in FieldNames : text[i] \in ToSet(fields[f])
    OBVIOUS
  <2>1. PICK v \in values : \E k \in DOMAIN v.tokens : text[i] = v.tokens[k]
    BY <1>4
  <2>2. text[i] \in ToSet(v.tokens)
    BY <2>1 DEF ToSet
  <2> QED
    BY <1>2, <2>2
<1>6. ASSUME NEW f \in FieldNames
      PROVE  /\ fields[f] \in Seq(Kinds) /\ \A k \in DOMAIN fields[f] : fields[f][k] \notin Keywords
             /\ f # "merchant" => Len(fields[f]) <= 1
  <2>1. CASE fields[f] = << >>
    BY <2>1
  <2>2. CASE \E v \in values : v.field = f
    <3>1. PICK v \in values : v.field = f
      BY <2>2
    <3>2. fields[f] = v.tokens /\ v.tokens \in Seq(Kinds) /\ (f # "merchant" => Len(v.tokens) = 1)
      BY <1>1, <1>2, <3>1, TokensAre DEF Accepted
    <3>3. \A k \in DOMAIN v.tokens : v.tokens[k] \notin Keywords
      BY <1>1, SpotIs DEF Words
    <3> QED
      BY <3>2, <3>3
  <2> QED
    BY <1>3, <2>1, <2>2
<1>7. ASSUME NEW i \in DOMAIN text, text[i] \in Keywords
      PROVE  /\ fields[FieldOf[text[i]]] # << >>
             /\ fields[FieldOf[text[i]]][1] = text[i + 1]
  <2> DEFINE v == Owned(text, i)
  <2>1. v \in values
    BY <1>7 DEF Values, KeyValues, Owned
  <2>2. v.tokens # << >>
    BY <1>1, <2>1 DEF Accepted
  <2>3. /\ v.field = FieldOf[text[i]]
        /\ v.tokens \in Seq(Kinds) /\ Len(v.tokens) = EndOf(text, i) - i
        /\ \A k \in 1..EndOf(text, i) - i : v.tokens[k] = text[i + k]
    <3>1. i \in 1..Len(text) /\ text[i] \in Keywords
      BY <1>7
    <3> QED
      BY <3>1, OwnedIs
  <2> HIDE DEF v
  <2>4. 1 \in 1..EndOf(text, i) - i
    BY <2>2, <2>3
  <2>5. v.tokens[1] = text[i + 1]
    BY <2>3, <2>4
  <2> QED
    BY <1>2, <2>1, <2>2, <2>3, <2>5
<1>8. Cardinality(Words(text)) = Cardinality(UNION {{f} \X DOMAIN fields[f] : f \in FieldNames})
  <2> DEFINE Pairs == UNION {{f} \X DOMAIN fields[f] : f \in FieldNames}
             owner(f) == CHOOSE v \in values : v.field = f
             spot == [p \in Pairs |-> Spot(text, owner(p[1]), p[2])]
  <2>1. \A p \in Pairs : p = <<p[1], p[2]>> /\ p[1] \in FieldNames /\ p[2] \in DOMAIN fields[p[1]]
    OBVIOUS
  <2>2. \A f \in FieldNames : \A k \in DOMAIN fields[f] : <<f, k>> \in Pairs
    OBVIOUS
  <2>3. \A v \in values : owner(v.field) = v
    BY <1>1 DEF Accepted
  <2>4. \A f \in FieldNames : \A k \in DOMAIN fields[f] :
          owner(f) \in values /\ owner(f).field = f /\ k \in DOMAIN owner(f).tokens
    <3> SUFFICES ASSUME NEW f \in FieldNames, NEW k \in DOMAIN fields[f]
                 PROVE  owner(f) \in values /\ owner(f).field = f /\ k \in DOMAIN owner(f).tokens
      OBVIOUS
    <3>1. fields[f] # << >>
      OBVIOUS
    <3>2. owner(f) \in values /\ owner(f).field = f
      BY <1>3, <3>1
    <3> QED
      BY <1>2, <3>2
  <2> HIDE DEF owner, Pairs
  <2>5. spot \in Injection(Pairs, Words(text))
    <3>1. \A p \in Pairs : spot[p] \in Words(text)
      BY <1>1, <2>1, <2>4, SpotIs
    <3>2. ASSUME NEW p \in Pairs, NEW q \in Pairs, spot[p] = spot[q] PROVE p = q
      <4>1. /\ owner(p[1]) \in values /\ owner(p[1]).field = p[1] /\ p[2] \in DOMAIN owner(p[1]).tokens
            /\ owner(q[1]) \in values /\ owner(q[1]).field = q[1] /\ q[2] \in DOMAIN owner(q[1]).tokens
        BY <2>1, <2>4
      <4>2. Spot(text, owner(p[1]), p[2]) = Spot(text, owner(q[1]), q[2])
        BY <3>2
      <4>3. owner(p[1]) = owner(q[1]) /\ p[2] = q[2]
        BY <1>1, <4>1, <4>2, SpotOnce
      <4>4. p[1] = q[1]
        BY <4>1, <4>3
      <4> QED
        BY <2>1, <4>3, <4>4
    <3> QED
      BY <3>1, <3>2 DEF Injection, IsInjective
  <2>6. spot \in Surjection(Pairs, Words(text))
    <3>1. ASSUME NEW i \in Words(text) PROVE \E p \in Pairs : spot[p] = i
      <4>1. PICK v \in values : \E k \in DOMAIN v.tokens : Spot(text, v, k) = i
        BY <1>4
      <4>2. PICK k \in DOMAIN v.tokens : Spot(text, v, k) = i
        BY <4>1
      <4>3. <<v.field, k>> \in Pairs
        BY <1>2, <2>2, <4>2
      <4>4. spot[<<v.field, k>>] = Spot(text, owner(v.field), k)
        BY <4>3
      <4> QED
        BY <2>3, <4>2, <4>3, <4>4
    <3> QED
      BY <2>5, <3>1 DEF Injection, Surjection
  <2>7. IsFiniteSet(Words(text))
    <3>1. IsFiniteSet(1..Len(text))
      BY FS_Interval
    <3>2. Words(text) \subseteq 1..Len(text)
      BY DEF Words
    <3> QED
      BY <3>1, <3>2, FS_Subset
  <2> HIDE DEF spot
  <2>8. Cardinality(Pairs) = Cardinality(Words(text))
    BY <2>5, <2>6, <2>7, FS_Injection
  <2> QED
    BY <2>8 DEF Pairs
<1> QED
  BY <1>1, <1>5, <1>6, <1>7, <1>8 DEF Said, Uses

\* A reply that is accepted leaves no word out and uses none twice, for texts of
\* any length.
THEOREM ReplyTheorem ==
  ASSUME NEW text \in Seq(Kinds), NEW currency
  PROVE  ReplyUsesAll(text, currency)
BY ParseSaysAll DEF ReplyUsesAll, Said

\* /add reads its amount last, as the value of "total": nothing else is moved.
LEMMA AddSaysAll ==
  ASSUME NEW text \in Seq(Kinds), text # << >>, IsNumber(text[1]), NEW fields,
         Said(Tail(text) \o <<"total", text[1]>>, fields)
  PROVE  Uses(text, fields) /\ fields.total = <<text[1]>>
<1> DEFINE n == Len(text)
           moved == Tail(text) \o <<"total", text[1]>>
<1>1. /\ n \in Nat /\ n >= 1 /\ \A i \in 1..n : text[i] \in Kinds
      /\ DOMAIN text = 1..n /\ text[1] \notin Keywords
  BY KindsAre DEF IsNumber
<1>2. Tail(text) \in Seq(Kinds) /\ Len(Tail(text)) = n - 1 /\ \A i \in 1..n - 1 : Tail(text)[i] = text[i + 1]
  OBVIOUS
<1>3. /\ Len(moved) = n + 1 /\ DOMAIN moved = 1..n + 1
      /\ \A i \in 1..n - 1 : moved[i] = text[i + 1]
      /\ moved[n] = "total" /\ moved[n + 1] = text[1]
  <2> DEFINE tail == Tail(text)
             last == <<"total", text[1]>>
  <2>1. "total" \in Kinds /\ text[1] \in Kinds
    BY <1>1 DEF Kinds, Keywords, FieldOf
  <2>2. last \in Seq(Kinds) /\ Len(last) = 2 /\ last[1] = "total" /\ last[2] = text[1]
    BY <2>1
  <2> HIDE DEF tail, last, n
  <2>3. /\ tail \o last \in Seq(Kinds) /\ Len(tail \o last) = Len(tail) + Len(last)
        /\ \A i \in 1..Len(tail) + Len(last) :
             (tail \o last)[i] = IF i <= Len(tail) THEN tail[i] ELSE last[i - Len(tail)]
    BY <1>2, <2>2, ConcatProperties DEF tail
  <2>4. Len(tail) = n - 1 /\ moved = tail \o last
    BY <1>2 DEF tail, last
  <2> HIDE DEF moved
  <2> QED
    BY <1>1, <1>2, <2>2, <2>3, <2>4 DEF tail
<1> HIDE DEF n, moved
<1>4. Uses(moved, fields)
  BY DEF Said, moved
<1>5. /\ \A f \in FieldNames : fields[f] \in Seq(Kinds) /\ \A k \in DOMAIN fields[f] : fields[f][k] \notin Keywords
      /\ Len(fields["total"]) <= 1
  BY DEF Said, FieldNames
<1>6. "total" \in Keywords /\ FieldOf["total"] = "total" /\ \A t \in Keywords : FieldOf[t] \in FieldNames
  BY DEF Keywords, FieldOf, FieldNames
<1>7. /\ \A i \in 1..n : text[i] \notin Keywords => i = 1 \/ i - 1 \in Words(moved)
      /\ n + 1 \in Words(moved) /\ n \notin Words(moved)
      /\ \A i \in Words(moved) : i = n + 1 \/ i + 1 \in Words(text)
  BY <1>1, <1>3, <1>6 DEF Words
<1>8. \A i \in Words(text) : \E f \in FieldNames : text[i] \in ToSet(fields[f])
  <2> SUFFICES ASSUME NEW i \in Words(text) PROVE \E f \in FieldNames : text[i] \in ToSet(fields[f])
    OBVIOUS
  <2>1. \E j \in Words(moved) : moved[j] = text[i]
    <3>1. i \in 1..n /\ text[i] \notin Keywords
      BY <1>1 DEF Words
    <3>2. CASE i = 1
      BY <1>3, <1>7, <3>2
    <3>3. CASE i # 1
      <4>1. i - 1 \in Words(moved) /\ i - 1 \in 1..n - 1 /\ (i - 1) + 1 = i
        BY <1>1, <1>7, <3>1, <3>3
      <4> QED
        BY <1>3, <4>1
    <3> QED
      BY <3>2, <3>3
  <2> QED
    BY <1>4, <2>1 DEF Uses
<1>9. Cardinality(Words(text)) = Cardinality(Words(moved))
  <2> DEFINE move == [i \in Words(text) |-> IF i = 1 THEN n + 1 ELSE i - 1]
  <2>1. \A i \in Words(text) : i \in 1..n
    BY <1>1 DEF Words
  <2>2. move \in [Words(text) -> Words(moved)]
    BY <1>7, <2>1 DEF Words
  <2>3. \A i, j \in Words(text) : move[i] = move[j] => i = j
    BY <1>1, <2>1
  <2>4. \A j \in Words(moved) : \E i \in Words(text) : move[i] = j
    <3> SUFFICES ASSUME NEW j \in Words(moved) PROVE \E i \in Words(text) : move[i] = j
      OBVIOUS
    <3>1. j \in 1..n + 1
      BY <1>3 DEF Words
    <3>2. CASE j = n + 1
      <4>1. 1 \in Words(text) /\ move[1] = n + 1
        BY <1>1 DEF Words
      <4> QED
        BY <3>2, <4>1
    <3>3. CASE j # n + 1
      <4>1. j + 1 \in Words(text) /\ j + 1 # 1 /\ (j + 1) - 1 = j
        BY <1>7, <3>1, <3>3
      <4>2. move[j + 1] = j
        BY <4>1
      <4> QED
        BY <4>1, <4>2
    <3> QED
      BY <3>2, <3>3
  <2> HIDE DEF move
  <2>5. move \in Injection(Words(text), Words(moved)) /\ move \in Surjection(Words(text), Words(moved))
    BY <2>2, <2>3, <2>4 DEF Injection, IsInjective, Surjection
  <2>6. IsFiniteSet(Words(moved))
    <3>1. IsFiniteSet(1..n + 1) /\ Words(moved) \subseteq 1..n + 1
      BY <1>1, <1>3, FS_Interval DEF Words
    <3> QED
      BY <3>1, FS_Subset
  <2> QED
    BY <2>5, <2>6, FS_Injection
<1>10. ASSUME NEW i \in DOMAIN text, text[i] \in Keywords
       PROVE  /\ fields[FieldOf[text[i]]] # << >>
              /\ fields[FieldOf[text[i]]][1] = text[i + 1]
  <2>1. i \in 2..n /\ i - 1 \in 1..n - 1 /\ moved[i - 1] = text[i] /\ i - 1 \in DOMAIN moved
    BY <1>1, <1>3, <1>10
  <2>2. fields[FieldOf[text[i]]] # << >> /\ fields[FieldOf[text[i]]][1] = moved[(i - 1) + 1]
    BY <1>4, <1>10, <2>1 DEF Uses
  <2>3. (i - 1) + 1 = i /\ (i # n => moved[i] = text[i + 1])
    BY <1>1, <1>3, <2>1
  <2>4. i # n
    <3>1. 1 \in DOMAIN fields[FieldOf[text[i]]]
      BY <1>5, <1>6, <1>10, <2>2
    <3> QED
      BY <1>3, <1>5, <1>6, <1>10, <2>2, <2>3, <3>1
  <2> QED
    BY <2>2, <2>3, <2>4
<1>11. fields.total = <<text[1]>>
  <2>1. n \in DOMAIN moved /\ moved[n] = "total" /\ moved[n + 1] = text[1]
    BY <1>1, <1>3
  <2>2. fields["total"] # << >> /\ fields["total"][1] = text[1]
    BY <1>4, <1>6, <2>1 DEF Uses
  <2>3. fields["total"] \in Seq(Kinds) /\ Len(fields["total"]) <= 1
    BY <1>5 DEF FieldNames
  <2> QED
    BY <2>2, <2>3
<1> QED
  BY <1>4, <1>8, <1>9, <1>10, <1>11 DEF Uses

\* The same of /add, whose amount is read whatever it says after it.
THEOREM AddTheorem ==
  ASSUME NEW text \in Seq(Kinds)
  PROVE  AddIsAReply(text)
<1> DEFINE moved == Tail(text) \o <<"total", text[1]>>
           answer == Parse(moved, "MXN")
<1> SUFFICES ASSUME ~ParseAdd(text).error
             PROVE  /\ Uses(text, ParseAdd(text).fields)
                    /\ ParseAdd(text).fields.total = <<text[1]>>
                    /\ ParseAdd(text).fields.merchant # << >>
  BY DEF AddIsAReply
<1>1. /\ text # << >> /\ IsNumber(text[1])
      /\ ParseAdd(text) = answer /\ answer.fields.merchant # << >>
  <2>1. Unparseable.error
    BY DEF Unparseable
  <2> HIDE DEF answer
  <2> QED
    BY <2>1 DEF ParseAdd, answer, moved
<1>2. moved \in Seq(Kinds)
  <2>1. text[1] \in Kinds /\ "total" \in Kinds /\ Tail(text) \in Seq(Kinds)
    BY <1>1 DEF Kinds, Keywords, FieldOf
  <2>2. <<"total", text[1]>> \in Seq(Kinds)
    BY <2>1
  <2> QED
    BY <2>1, <2>2
<1>3. Said(moved, answer.fields)
  BY <1>1, <1>2, ParseSaysAll
<1> HIDE DEF answer
<1> QED
  BY <1>1, <1>3, AddSaysAll

-----------------------------------------------------------------------------
(***************************************************************************)
(* The properties of the runs, for whatever is asked.                      *)
(***************************************************************************)

\* money.go:43, "guarded against int64 overflow": amounts of any length are read
\* exactly or not at all, and every amount but the smallest reads back.
THEOREM AmountsTheorem == Spec => []AmountsAreExact
<1>1. ASSUME Init PROVE AmountsAreExact
  BY <1>1 DEF Init, AmountsAreExact
<1>2. ASSUME AmountsAreExact, [Next]_asked PROVE AmountsAreExact'
  <2>1. \A c \in Currencies : Exponent(c) \in Nat
    BY DEF Exponent
  <2>2. CASE Amount
    <3>1. PICK text \in AmountTexts, decimals \in {Exponent(c) : c \in Currencies} \cup {Milli} :
            asked' = [about |-> "amount", text |-> text, decimals |-> decimals]
      BY <2>2 DEF Amount
    <3>2. text \in Amounts /\ decimals \in Nat
      BY <2>1, AmountAssumption DEF Milli
    <3>3. ReadExactly(text, decimals)
      BY <3>2, AmountTheorem
    <3> QED
      BY <3>1, <3>3 DEF AmountsAreExact
  <2>3. CASE Write
    <3>1. PICK minor \in Minors, currency \in Currencies :
            asked' = [about |-> "write", minor |-> minor, exponent |-> Exponent(currency)]
      BY <2>3 DEF Write
    <3>2. ReadsBack(minor, Exponent(currency))
      BY <2>1, AmountAssumption, WrittenTheorem
    <3> QED
      BY <3>1, <3>2 DEF AmountsAreExact
  <2>4. CASE asked'.about \notin {"amount", "write"}
    BY <2>4 DEF AmountsAreExact
  <2>5. CASE Day \/ Since \/ Month \/ Reply \/ Add \/ Search \/ Answer
    BY <2>4, <2>5 DEF Day, Since, Month, Reply, Add, Search, Answer
  <2>6. CASE UNCHANGED asked
    BY <1>2, <2>6 DEF AmountsAreExact
  <2> QED
    BY <1>2, <2>2, <2>3, <2>5, <2>6 DEF Next, Ask
<1> QED
  BY <1>1, <1>2, PTL DEF Spec

\* The tokens of days and months, on every day of every year and for every
\* DD/MM: daytok.go:31 and monthtok.go:30.
THEOREM TokensTheorem == Spec => []TokensAreMostRecent
<1>1. ASSUME Init PROVE TokensAreMostRecent
  BY <1>1 DEF Init, TokensAreMostRecent
<1>2. ASSUME TokensAreMostRecent, [Next]_asked PROVE TokensAreMostRecent'
  <2>1. \A today \in Todays : today \in Dates /\ IsDate(today.y, today.m, today.d) /\ today.d >= 1
    BY DayAssumption DEF Dates
  <2>2. CASE Day
    <3>1. PICK today \in Todays, token \in DayTokens :
            asked' = [about |-> "day", today |-> today, m |-> token[1], d |-> token[2]]
      BY <2>2 DEF Day
    <3>2. token[1] \in Nat /\ token[2] \in Nat
      BY DayAssumption
    <3>3. token[1] \notin 1..12 => DayIsMostRecent(token[1], token[2], today)
      BY DEF DayIsMostRecent, DayMonth, IsDate
    <3>4. ~(token[1] = 2 /\ token[2] = 29) => DayIsMostRecent(token[1], token[2], today)
      BY <2>1, <3>2, <3>3, DayTheorem
    <3> QED
      BY <3>1, <3>4 DEF TokensAreMostRecent
  <2>3. CASE Since
    <3>1. PICK today \in Todays, back \in 0..2 :
            asked' = [about |-> "since", today |-> today, back |-> back]
      BY <2>3 DEF Since
    <3>2. RelativeIsExact(back, today)
      BY <2>1, RelativeTheorem
    <3> QED
      BY <3>1, <3>2 DEF TokensAreMostRecent
  <2>4. CASE Month
    <3>1. PICK today \in Todays, m \in 1..12 :
            asked' = [about |-> "month", today |-> today, m |-> m]
      BY <2>4 DEF Month
    <3>2. MonthIsMostRecent(m, today)
      BY <2>1, MonthTheorem
    <3> QED
      BY <3>1, <3>2 DEF TokensAreMostRecent
  <2>5. CASE asked'.about \notin {"day", "since", "month"}
    BY <2>5 DEF TokensAreMostRecent
  <2>6. CASE Amount \/ Write \/ Reply \/ Add \/ Search \/ Answer
    BY <2>5, <2>6 DEF Amount, Write, Reply, Add, Search, Answer
  <2>7. CASE UNCHANGED asked
    BY <1>2, <2>7 DEF TokensAreMostRecent
  <2> QED
    BY <1>2, <2>2, <2>3, <2>4, <2>6, <2>7 DEF Next, Ask
<1> QED
  BY <1>1, <1>2, PTL DEF Spec

\* command.go:305, the promise of fuse, for all lists within the limit of the
\* queries and every rrfK that exceeds it.
THEOREM HitsTheorem == Spec => []HitsAreInOrder
<1>1. ASSUME Init PROVE HitsAreInOrder
  BY <1>1 DEF Init, HitsAreInOrder
<1>2. ASSUME HitsAreInOrder, [Next]_asked PROVE HitsAreInOrder'
  <2>1. CASE Search
    <3>1. PICK trgm \in TrgmLists, vec \in VecLists : \E near \in 0..Len(vec) :
            asked' = [about |-> "search", trgm |-> trgm, vec |-> vec, near |-> near]
      BY <2>1 DEF Search
    <3>2. PICK near \in 0..Len(vec) :
            asked' = [about |-> "search", trgm |-> trgm, vec |-> vec, near |-> near]
      BY <3>1
    <3>3. LiteralFirst(trgm, vec, near) /\ OneList(trgm, vec, near)
      BY ListAssumption, LiteralFirstTheorem, OneListTheorem
    <3> QED
      BY <3>2, <3>3 DEF HitsAreInOrder
  <2>2. CASE asked'.about # "search"
    BY <2>2 DEF HitsAreInOrder
  <2>3. CASE Amount \/ Write \/ Day \/ Since \/ Month \/ Reply \/ Add \/ Answer
    BY <2>2, <2>3 DEF Amount, Write, Day, Since, Month, Reply, Add, Answer
  <2>4. CASE UNCHANGED asked
    BY <1>2, <2>4 DEF HitsAreInOrder
  <2> QED
    BY <1>2, <2>1, <2>3, <2>4 DEF Next, Ask
<1> QED
  BY <1>1, <1>2, PTL DEF Spec

\* correct.go:26, "Nothing else is inferred from it", for texts of any length.
THEOREM RepliesTheorem == Spec => []RepliesUseAll
<1>1. ASSUME Init PROVE RepliesUseAll
  BY <1>1 DEF Init, RepliesUseAll
<1>2. ASSUME RepliesUseAll, [Next]_asked PROVE RepliesUseAll'
  <2>1. CASE Reply
    <3>1. PICK text \in ReplyTexts, currency \in Currencies :
            asked' = [about |-> "reply", text |-> text, currency |-> currency]
      BY <2>1 DEF Reply
    <3>2. ReplyUsesAll(text, currency)
      BY ReplyAssumption, ReplyTheorem
    <3> QED
      BY <3>1, <3>2 DEF RepliesUseAll
  <2>2. CASE Add
    <3>1. PICK text \in ReplyTexts : asked' = [about |-> "add", text |-> text]
      BY <2>2 DEF Add
    <3>2. AddIsAReply(text)
      BY ReplyAssumption, AddTheorem
    <3> QED
      BY <3>1, <3>2 DEF RepliesUseAll
  <2>3. CASE asked'.about \notin {"reply", "add"}
    BY <2>3 DEF RepliesUseAll
  <2>4. CASE Amount \/ Write \/ Day \/ Since \/ Month \/ Search \/ Answer
    BY <2>3, <2>4 DEF Amount, Write, Day, Since, Month, Search, Answer
  <2>5. CASE UNCHANGED asked
    BY <1>2, <2>5 DEF RepliesUseAll
  <2> QED
    BY <1>2, <2>1, <2>2, <2>4, <2>5 DEF Next, Ask
<1> QED
  BY <1>1, <1>2, PTL DEF Spec
=============================================================================
