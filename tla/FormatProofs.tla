---------------------------- MODULE FormatProofs -----------------------------
(***************************************************************************)
(* What the numerals of Format are, for every number and base: the powers  *)
(* obey the equations of powers, each number has exactly one length, and   *)
(* reading a numeral back gives the number.                                *)
(*                                                                         *)
(* Format and the modules above it are written with recursive functions.   *)
(* That such a function exists, and what it computes, is proved by         *)
(* induction over sets: the least element of a set of natural numbers      *)
(* stands for the least counterexample.                                    *)
(***************************************************************************)
EXTENDS Format, Integers, TLAPS, WellFoundedInduction

Less == {p \in Nat \X Nat : p[1] < p[2]}

LEMMA Least ==
  ASSUME NEW S, S \subseteq Nat, S # {}
  PROVE  \E x \in S : \A y \in S : x <= y
<1>1. IsWellFoundedOn(Less, Nat)
  BY NatLessThanWellFounded DEF OpToRel, Less
<1>2. PICK x \in S : \A y \in S : ~ (<<y, x>> \in Less)
  BY <1>1, WFMin
<1>3. \A y \in S : x <= y
  <2> TAKE y \in S
  <2>1. x \in Nat /\ y \in Nat
    BY <1>2
  <2>2. y < x => <<y, x>> \in Less
    BY <2>1 DEF Less
  <2> QED BY <1>2, <2>1, <2>2
<1> QED BY <1>2, <1>3

LEMMA SetInduction ==
  ASSUME NEW S, 0 \in S, \A n \in Nat : n \in S => n + 1 \in S
  PROVE  Nat \subseteq S
<1> SUFFICES ASSUME Nat \ S # {} PROVE FALSE
  OBVIOUS
<1>1. PICK x \in Nat \ S : \A y \in Nat \ S : x <= y
  BY Least
<1>2. x # 0 /\ x - 1 \in Nat /\ x - 1 + 1 = x
  BY <1>1
<1>3. x - 1 \in S
  BY <1>1, <1>2
<1> QED BY <1>1, <1>2, <1>3

(***************************************************************************)
(* A function may be defined by recursion on the natural numbers: there is *)
(* one that starts with a value and goes on with a step.                   *)
(***************************************************************************)
Runs(start, step, n, f) ==
  /\ f[0] = start
  /\ \A k \in 1..n : f[k] = step[k][f[k - 1]]

Recursive(D, start, step) ==
  \E f \in [Nat -> D] :
    f[0] = start /\ \A k \in Nat : f[k + 1] = step[k + 1][f[k]]

LEMMA Recursion ==
  ASSUME NEW D, NEW start \in D, NEW step \in [Nat -> [D -> D]]
  PROVE  Recursive(D, start, step)
<1> DEFINE S == {n \in Nat : \E f \in [0..n -> D] : Runs(start, step, n, f)}
<1>1. Nat \subseteq S
  <2>1. 0 \in S
    <3>1. [k \in 0..0 |-> start] \in [0..0 -> D] /\ Runs(start, step, 0, [k \in 0..0 |-> start])
      BY DEF Runs
    <3> QED BY <3>1
  <2>2. ASSUME NEW n \in Nat, n \in S
        PROVE  n + 1 \in S
    <3>1. PICK f \in [0..n -> D] : Runs(start, step, n, f)
      BY <2>2
    <3> DEFINE g == [k \in 0..(n + 1) |-> IF k = n + 1 THEN step[k][f[n]] ELSE f[k]]
    <3>2. g \in [0..(n + 1) -> D]
      <4>1. f[n] \in D /\ step[n + 1][f[n]] \in D
        BY <3>1
      <4>2. \A k \in 0..(n + 1) : k # n + 1 => f[k] \in D
        BY <3>1
      <4> QED BY <4>1, <4>2
    <3>3. g[0] = start
      BY <3>1 DEF Runs
    <3>4. ASSUME NEW k \in 1..(n + 1)
          PROVE  g[k] = step[k][g[k - 1]]
      <4>1. k - 1 \in 0..n /\ k - 1 # n + 1 /\ k \in 0..(n + 1) /\ k - 1 \in 0..(n + 1)
        OBVIOUS
      <4>2. g[k - 1] = f[k - 1]
        BY <4>1
      <4>3. CASE k = n + 1
        <5>1. k - 1 = n
          BY <4>3
        <5> QED BY <4>1, <4>2, <4>3, <5>1
      <4>4. CASE k # n + 1
        <5>1. k \in 1..n
          BY <4>4
        <5> QED BY <3>1, <4>1, <4>2, <4>4, <5>1 DEF Runs
      <4> QED BY <4>3, <4>4
    <3> HIDE DEF g
    <3>5. Runs(start, step, n + 1, g)
      BY <3>3, <3>4 DEF Runs
    <3> QED BY <3>2, <3>5
  <2> HIDE DEF S
  <2> QED BY <2>1, <2>2, SetInduction
<1>2. \A n \in Nat : \E f \in [0..n -> D] : Runs(start, step, n, f)
  BY <1>1
<1> HIDE DEF S
<1> DEFINE h == [n \in Nat |-> CHOOSE f \in [0..n -> D] : Runs(start, step, n, f)]
<1>3. \A n \in Nat : h[n] \in [0..n -> D] /\ Runs(start, step, n, h[n])
  BY <1>2
<1> HIDE DEF h
<1>4. ASSUME NEW n \in Nat
      PROVE  h[n + 1][n] = h[n][n]
  <2> DEFINE T == {k \in Nat : k <= n => h[n + 1][k] = h[n][k]}
  <2>1. 0 \in T
    BY <1>3 DEF Runs
  <2>2. ASSUME NEW k \in Nat, k \in T
        PROVE  k + 1 \in T
    <3> SUFFICES ASSUME k + 1 <= n PROVE h[n + 1][k + 1] = h[n][k + 1]
      OBVIOUS
    <3>1. k + 1 \in 1..n /\ k + 1 \in 1..(n + 1) /\ k + 1 - 1 = k /\ n + 1 \in Nat /\ k <= n
      OBVIOUS
    <3>2. h[n + 1][k] = h[n][k]
      BY <2>2, <3>1
    <3>3. h[n][k + 1] = step[k + 1][h[n][k + 1 - 1]]
      BY <1>3, <3>1 DEF Runs
    <3>4. h[n + 1][k + 1] = step[k + 1][h[n + 1][k + 1 - 1]]
      BY <1>3, <3>1 DEF Runs
    <3> QED BY <3>1, <3>2, <3>3, <3>4
  <2> HIDE DEF T
  <2>3. n \in T
    BY <2>1, <2>2, SetInduction
  <2> QED BY <2>3 DEF T
<1> DEFINE f == [n \in Nat |-> h[n][n]]
<1>5. f \in [Nat -> D]
  <2>1. \A n \in Nat : h[n][n] \in D
    BY <1>3
  <2> QED BY <2>1
<1>6. f[0] = start
  BY <1>3 DEF Runs
<1>7. ASSUME NEW k \in Nat
      PROVE  f[k + 1] = step[k + 1][f[k]]
  <2>1. k + 1 \in Nat /\ k + 1 \in 1..(k + 1) /\ k + 1 - 1 = k
    OBVIOUS
  <2>2. h[k + 1][k + 1] = step[k + 1][h[k + 1][k + 1 - 1]]
    BY <1>3, <2>1 DEF Runs
  <2> QED BY <1>4, <2>1, <2>2
<1> HIDE DEF f
<1> QED BY <1>5, <1>6, <1>7 DEF Recursive
-----------------------------------------------------------------------------
(***************************************************************************)
(* Division with remainder, and what it determines.                        *)
(***************************************************************************)
LEMMA Division ==
  ASSUME NEW a \in Nat, NEW b \in Nat, b >= 1
  PROVE  /\ a \div b \in Nat
         /\ a % b \in Nat
         /\ a % b < b
         /\ a = b * (a \div b) + (a % b)
  OBVIOUS

LEMMA QuotientUnique ==
  ASSUME NEW a \in Nat, NEW b \in Nat, b >= 1,
         NEW c \in Nat, NEW d \in Nat, a = b * c + d, d < b
  PROVE  a \div b = c /\ a % b = d
  OBVIOUS

LEMMA QuotientOfQuotient ==
  ASSUME NEW a \in Nat, NEW b \in Nat, b >= 1, NEW c \in Nat, c >= 1
  PROVE  (a \div b) \div c = a \div (c * b)
<1> DEFINE q == a \div b
           r == a % b
           s == q \div c
           t == q % c
<1>1. q \in Nat /\ r \in Nat /\ r < b /\ a = b * q + r
  BY Division
<1>2. s \in Nat /\ t \in Nat /\ t < c /\ q = c * s + t
  BY <1>1, Division
<1> HIDE DEF q, r, s, t
<1>3. a = (c * b) * s + (b * t + r)
  BY <1>1, <1>2
<1>4. b * t + r < c * b
  <2>1. t + 1 <= c
    BY <1>2
  <2>2. b * (t + 1) <= b * c
    BY <1>2, <2>1
  <2> QED BY <1>1, <1>2, <2>2
<1>5. c * b \in Nat /\ c * b >= 1 /\ b * t + r \in Nat
  BY <1>1, <1>2
<1>6. a \div (c * b) = s
  BY <1>2, <1>3, <1>4, <1>5, QuotientUnique
<1> QED BY <1>6 DEF s, q

LEMMA QuotientZero ==
  ASSUME NEW a \in Nat, NEW b \in Nat, b >= 1
  PROVE  a \div b = 0 <=> a < b
<1>1. CASE a < b
  BY <1>1
<1>2. CASE a >= b
  <2>1. a \div b # 0
    BY <1>2, Division
  <2> QED BY <1>2, <2>1
<1> QED BY <1>1, <1>2

LEMMA SmallQuotient ==
  ASSUME NEW a \in Nat, NEW b \in Nat, b >= 1, a < b * b
  PROVE  a \div b < b
<1> DEFINE q == a \div b
<1>1. q \in Nat /\ b * q <= a
  BY Division
<1> HIDE DEF q
<1>2. CASE q >= b
  <2>1. b * q >= b * b
    BY <1>1, <1>2
  <2> QED BY <1>1, <2>1
<1>3. CASE q < b
  BY <1>3 DEF q
<1> QED BY <1>1, <1>2, <1>3
-----------------------------------------------------------------------------
(***************************************************************************)
(* The equations of powers.                                                *)
(***************************************************************************)
LEMMA PowerEquations ==
  ASSUME NEW b \in Nat
  PROVE  /\ Power(b, 0) = 1
         /\ \A k \in Nat : Power(b, k) \in Nat /\ Power(b, k + 1) = b * Power(b, k)
<1> DEFINE Is(p) == p = [k \in Nat |-> IF k = 0 THEN 1 ELSE b * p[k - 1]]
           power == CHOOSE p : Is(p)
           step == [k \in Nat |-> [v \in Nat |-> b * v]]
<1>1. step \in [Nat -> [Nat -> Nat]]
  OBVIOUS
<1>2. \A k, v \in Nat : step[k][v] = b * v
  OBVIOUS
<1> HIDE DEF step
<1>3. PICK f \in [Nat -> Nat] :
        f[0] = 1 /\ \A k \in Nat : f[k + 1] = step[k + 1][f[k]]
  <2> HIDE DEF Is, power
  <2>1. 1 \in Nat
    OBVIOUS
  <2>2. Recursive(Nat, 1, step)
    BY <1>1, <2>1, Recursion
  <2> QED BY <2>2 DEF Recursive
<1>4. ASSUME NEW k \in Nat
      PROVE  f[k] = IF k = 0 THEN 1 ELSE b * f[k - 1]
  <2>1. CASE k = 0
    BY <1>3, <2>1
  <2>2. CASE k # 0
    <3>1. k - 1 \in Nat /\ k - 1 + 1 = k
      BY <2>2
    <3>2. f[k] = step[k][f[k - 1]]
      BY <1>3, <3>1
    <3> QED BY <1>2, <1>3, <2>2, <3>1, <3>2
  <2> QED BY <2>1, <2>2
<1>5. Is(f)
  BY <1>3, <1>4
<1>6. Is(power)
  BY <1>5
<1>7. \A k : Power(b, k) = power[k]
  BY DEF Power
<1> HIDE DEF power
<1>8. power[0] = 1 /\ \A k \in Nat : power[k + 1] = b * power[k]
  BY <1>6
<1> DEFINE S == {k \in Nat : power[k] \in Nat}
<1>9. 0 \in S /\ \A k \in Nat : k \in S => k + 1 \in S
  BY <1>8
<1> HIDE DEF S
<1>10. Nat \subseteq S
  BY <1>9, SetInduction
<1>11. \A k \in Nat : power[k] \in Nat
  BY <1>10 DEF S
<1> QED BY <1>7, <1>8, <1>11

LEMMA PowerStep ==
  ASSUME NEW b \in Nat, NEW k \in Nat, k >= 1
  PROVE  Power(b, k) = b * Power(b, k - 1) /\ Power(b, k - 1) \in Nat
<1>1. k - 1 \in Nat /\ k - 1 + 1 = k
  OBVIOUS
<1> QED BY <1>1, PowerEquations

LEMMA PowerPositive ==
  ASSUME NEW b \in Nat, b >= 1, NEW k \in Nat
  PROVE  Power(b, k) \in Nat /\ Power(b, k) >= 1
<1> DEFINE S == {n \in Nat : Power(b, n) >= 1}
<1>1. 0 \in S
  BY PowerEquations
<1>2. ASSUME NEW n \in Nat, n \in S
      PROVE  n + 1 \in S
  <2>1. Power(b, n) \in Nat /\ Power(b, n) >= 1 /\ Power(b, n + 1) = b * Power(b, n)
    BY <1>2, PowerEquations
  <2> QED BY <2>1
<1> HIDE DEF S
<1>3. k \in S
  BY <1>1, <1>2, SetInduction
<1> QED BY <1>3, PowerEquations DEF S

LEMMA PowerMonotone ==
  ASSUME NEW b \in Nat, b >= 1, NEW j \in Nat, NEW k \in Nat, j <= k
  PROVE  Power(b, j) <= Power(b, k)
<1> DEFINE S == {n \in Nat : j <= n => Power(b, j) <= Power(b, n)}
<1>1. 0 \in S
  BY PowerEquations
<1>2. ASSUME NEW n \in Nat, n \in S
      PROVE  n + 1 \in S
  <2>1. Power(b, j) \in Nat /\ Power(b, n) \in Nat /\ Power(b, n + 1) = b * Power(b, n)
    BY PowerEquations
  <2>2. Power(b, n) <= b * Power(b, n)
    BY <2>1
  <2>3. CASE j = n + 1
    BY <2>1, <2>3
  <2>4. CASE j <= n
    <3>1. Power(b, j) <= Power(b, n)
      BY <1>2, <2>4
    <3>2. b * Power(b, n) \in Nat
      BY <2>1
    <3>3. Power(b, j) <= Power(b, n + 1)
      BY <2>1, <2>2, <3>1, <3>2
    <3> QED BY <3>3
  <2>5. CASE j > n + 1
    BY <2>5
  <2> QED BY <2>3, <2>4, <2>5
<1> HIDE DEF S
<1>3. k \in S
  BY <1>1, <1>2, SetInduction
<1> QED BY <1>3 DEF S

LEMMA PowerAbove ==
  ASSUME NEW b \in Nat, b >= 2, NEW k \in Nat
  PROVE  k < Power(b, k)
<1> DEFINE S == {n \in Nat : n < Power(b, n)}
<1>1. 0 \in S
  BY PowerEquations
<1>2. ASSUME NEW n \in Nat, n \in S
      PROVE  n + 1 \in S
  <2> DEFINE p == Power(b, n)
  <2>1. p \in Nat /\ n < p /\ Power(b, n + 1) = b * p
    BY <1>2, PowerEquations
  <2> HIDE DEF p
  <2>2. b * p >= 2 * p
    BY <2>1
  <2>3. n + 1 < b * p
    BY <2>1, <2>2
  <2> QED BY <2>1, <2>3
<1> HIDE DEF S
<1>3. k \in S
  BY <1>1, <1>2, SetInduction
<1> QED BY <1>3 DEF S

(***************************************************************************)
(* A power of a square has twice the exponent.                             *)
(***************************************************************************)
LEMMA PowerOfSquare ==
  ASSUME NEW b \in Nat, NEW k \in Nat
  PROVE  Power(b * b, k) = Power(b, 2 * k)
<1> DEFINE S == {n \in Nat : Power(b * b, n) = Power(b, 2 * n)}
<1>0. b * b \in Nat
  OBVIOUS
<1>1. 0 \in S
  <2>1. 2 * 0 = 0
    OBVIOUS
  <2> QED BY <1>0, <2>1, PowerEquations
<1>2. ASSUME NEW n \in Nat, n \in S
      PROVE  n + 1 \in S
  <2>1. 2 * n \in Nat /\ 2 * n + 1 \in Nat /\ 2 * (n + 1) = 2 * n + 1 + 1
    OBVIOUS
  <2> DEFINE p == Power(b, 2 * n)
  <2>2. p \in Nat /\ Power(b, 2 * n + 1) = b * p /\ Power(b, 2 * n + 1 + 1) = b * Power(b, 2 * n + 1)
    BY <2>1, PowerEquations
  <2>3. Power(b * b, n + 1) = (b * b) * Power(b * b, n) /\ Power(b * b, n) = p
    BY <1>0, <1>2, PowerEquations
  <2> HIDE DEF p
  <2>4. (b * b) * p = b * (b * p)
    BY <2>2
  <2>5. Power(b * b, n + 1) = Power(b, 2 * (n + 1))
    BY <2>1, <2>2, <2>3, <2>4
  <2> QED BY <2>5
<1> HIDE DEF S
<1>3. k \in S
  BY <1>1, <1>2, SetInduction
<1> QED BY <1>3 DEF S
-----------------------------------------------------------------------------
(***************************************************************************)
(* Each number has one length in a base.                                   *)
(***************************************************************************)
LEMMA LengthIs ==
  ASSUME NEW n \in Nat, NEW b \in Nat, b >= 2
  PROVE  /\ LengthOf(n, b) \in 1..(n + 1)
         /\ n < Power(b, LengthOf(n, b))
         /\ LengthOf(n, b) = 1 \/ n >= Power(b, LengthOf(n, b) - 1)
<1> DEFINE S == {k \in Nat : k >= 1 /\ n < Power(b, k)}
<1>1. n + 1 \in S
  <2>1. n + 1 \in Nat /\ n + 1 < Power(b, n + 1) /\ Power(b, n + 1) \in Nat
    BY PowerAbove, PowerEquations
  <2> QED BY <2>1
<1>2. PICK x \in S : \A y \in S : x <= y
  BY <1>1, Least
<1>3. x \in 1..(n + 1) /\ n < Power(b, x)
  BY <1>1, <1>2
<1>4. x = 1 \/ n >= Power(b, x - 1)
  <2> SUFFICES ASSUME x # 1 PROVE n >= Power(b, x - 1)
    OBVIOUS
  <2>1. x - 1 \in Nat /\ x - 1 >= 1 /\ ~ (x <= x - 1)
    BY <1>3
  <2>2. x - 1 \notin S
    BY <1>2, <2>1
  <2>3. Power(b, x - 1) \in Nat
    BY <2>1, PowerEquations
  <2> QED BY <2>1, <2>2, <2>3
<1> HIDE DEF S
<1> QED BY <1>3, <1>4 DEF LengthOf

LEMMA LengthUnique ==
  ASSUME NEW n \in Nat, NEW b \in Nat, b >= 2, NEW length \in Nat, length >= 1,
         n < Power(b, length), length = 1 \/ n >= Power(b, length - 1)
  PROVE  LengthOf(n, b) = length
<1> DEFINE l == LengthOf(n, b)
<1>1. l \in Nat /\ l >= 1 /\ n < Power(b, l) /\ (l = 1 \/ n >= Power(b, l - 1))
  BY LengthIs
<1> HIDE DEF l
<1>2. CASE l < length
  <2>1. length - 1 \in Nat /\ l <= length - 1 /\ length # 1
    BY <1>1, <1>2
  <2>2. Power(b, l) <= Power(b, length - 1) /\ Power(b, l) \in Nat /\ Power(b, length - 1) \in Nat
    BY <1>1, <2>1, PowerMonotone, PowerEquations
  <2> QED BY <1>1, <2>1, <2>2
<1>3. CASE length < l
  <2>1. l - 1 \in Nat /\ length <= l - 1 /\ l # 1
    BY <1>1, <1>3
  <2>2. Power(b, length) <= Power(b, l - 1) /\ Power(b, length) \in Nat /\ Power(b, l - 1) \in Nat
    BY <1>1, <2>1, PowerMonotone, PowerEquations
  <2> QED BY <1>1, <2>1, <2>2
<1>4. CASE l = length
  BY <1>4 DEF l
<1> QED BY <1>1, <1>2, <1>3, <1>4

(***************************************************************************)
(* A number has fewer digits than places exactly when it is below a power. *)
(***************************************************************************)
LEMMA LengthBelow ==
  ASSUME NEW n \in Nat, NEW b \in Nat, b >= 2, NEW places \in Nat, places >= 2
  PROVE  LengthOf(n, b) < places <=> n < Power(b, places - 1)
<1> DEFINE l == LengthOf(n, b)
           before == l - 1
           last == places - 1
<1>1. l \in Nat /\ l >= 1 /\ n < Power(b, l) /\ (l = 1 \/ n >= Power(b, before))
  BY LengthIs
<1> HIDE DEF l
<1>2. last \in Nat /\ last >= 1 /\ before \in Nat /\ b >= 1
  BY <1>1
<1>3. Power(b, l) \in Nat /\ Power(b, last) \in Nat /\ Power(b, before) \in Nat
  BY <1>1, <1>2, PowerEquations
<1>4. CASE l < places
  <2>1. l <= last
    BY <1>1, <1>4
  <2> HIDE DEF last
  <2>2. Power(b, l) <= Power(b, last)
    BY <1>1, <1>2, <2>1, PowerMonotone
  <2>3. n < Power(b, last)
    BY <1>1, <1>3, <2>2
  <2> QED BY <1>4, <2>3 DEF l, last
<1>5. CASE l >= places
  <2>1. last <= before /\ l # 1
    BY <1>1, <1>5
  <2> HIDE DEF last, before
  <2>2. Power(b, last) <= Power(b, before)
    BY <1>2, <2>1, PowerMonotone
  <2>3. ~ (n < Power(b, last)) /\ ~ (l < places)
    BY <1>1, <1>3, <1>5, <2>1, <2>2
  <2> QED BY <2>3 DEF l, last
<1> QED BY <1>1, <1>4, <1>5
-----------------------------------------------------------------------------
(***************************************************************************)
(* The digits of a number.                                                 *)
(***************************************************************************)
LEMMA PaddedDigits ==
  ASSUME NEW n \in Nat, NEW b \in Nat, b >= 1, NEW length \in Nat
  PROVE  /\ Padded(n, b, length) \in Seq(0..(b - 1))
         /\ Padded(n, b, length) \in Seq(Nat)
         /\ Len(Padded(n, b, length)) = length
         /\ \A k \in 1..length :
              Padded(n, b, length)[k] = (n \div Power(b, length - k)) % b
<1> DEFINE d(k) == (n \div Power(b, length - k)) % b
<1>1. ASSUME NEW k \in 1..length
      PROVE  d(k) \in 0..(b - 1)
  <2>1. length - k \in Nat
    OBVIOUS
  <2>2. Power(b, length - k) \in Nat /\ Power(b, length - k) >= 1
    BY <2>1, PowerPositive
  <2>3. n \div Power(b, length - k) \in Nat
    BY <2>2, Division
  <2> DEFINE q == n \div Power(b, length - k)
  <2> HIDE DEF q
  <2>4. q \in Nat
    BY <2>3 DEF q
  <2>5. q % b \in Nat /\ q % b < b
    BY <2>4, Division
  <2> QED BY <2>5 DEF q
<1> HIDE DEF d
<1>2. Padded(n, b, length) = [k \in 1..length |-> d(k)]
  BY DEF Padded, d
<1>3. [k \in 1..length |-> d(k)] \in [1..length -> 0..(b - 1)]
  BY <1>1
<1> DEFINE p == Padded(n, b, length)
<1>4. p \in [1..length -> 0..(b - 1)]
  BY <1>2, <1>3
<1>5. \A k \in 1..length : p[k] = d(k)
  BY <1>2
<1> HIDE DEF p
<1>6. p \in Seq(0..(b - 1)) /\ Len(p) = length
  BY <1>4
<1>7. p \in [1..length -> Nat]
  BY <1>4
<1>8. p \in Seq(Nat)
  BY <1>7
<1> QED BY <1>5, <1>6, <1>8 DEF p, d

(***************************************************************************)
(* Reading goes from digit to digit.                                       *)
(***************************************************************************)
LEMMA Reading ==
  ASSUME NEW b \in Nat, NEW digits \in Seq(Nat)
  PROVE  \E f \in [0..Len(digits) -> Nat] :
           /\ f[0] = 0
           /\ \A k \in 1..Len(digits) : f[k] = b * f[k - 1] + digits[k]
           /\ NumberOf(digits, b) = f[Len(digits)]
<1> DEFINE length == Len(digits)
           Is(p) == p = [k \in 0..length |-> IF k = 0 THEN 0 ELSE b * p[k - 1] + digits[k]]
           number == CHOOSE p : Is(p)
           step == [k \in Nat |-> [v \in Nat |-> IF k \in 1..length THEN b * v + digits[k] ELSE 0]]
<1>1. length \in Nat /\ \A k \in 1..length : digits[k] \in Nat
  OBVIOUS
<1>2. step \in [Nat -> [Nat -> Nat]]
  BY <1>1
<1>3. \A k \in 1..length : \A v \in Nat : step[k][v] = b * v + digits[k]
  BY <1>1
<1>4. NumberOf(digits, b) = number[length]
  BY DEF NumberOf
<1> HIDE DEF step, length, number, Is
<1>5. Recursive(Nat, 0, step)
  <2>1. 0 \in Nat
    OBVIOUS
  <2> QED BY <1>2, <2>1, Recursion
<1>6. PICK f \in [Nat -> Nat] :
        f[0] = 0 /\ \A k \in Nat : f[k + 1] = step[k + 1][f[k]]
  BY <1>5 DEF Recursive
<1> DEFINE g == [k \in 0..length |-> f[k]]
<1>7. g \in [0..length -> Nat]
  <2>1. \A k \in 0..length : f[k] \in Nat
    BY <1>1
  <2> QED BY <2>1
<1>8. g[0] = 0
  BY <1>1, <1>6
<1>9. ASSUME NEW k \in 1..length
      PROVE  g[k] = b * g[k - 1] + digits[k]
  <2>1. k - 1 \in Nat /\ k - 1 + 1 = k /\ k \in 0..length /\ k - 1 \in 0..length
    BY <1>1
  <2>2. f[k] = step[k][f[k - 1]]
    BY <1>6, <2>1
  <2>3. f[k] = b * f[k - 1] + digits[k]
    BY <1>3, <1>6, <2>1, <2>2
  <2> QED BY <2>1, <2>3
<1>10. Is(g)
  <2>1. ASSUME NEW k \in 0..length
        PROVE  g[k] = IF k = 0 THEN 0 ELSE b * g[k - 1] + digits[k]
    <3>1. CASE k = 0
      BY <1>8, <3>1
    <3>2. CASE k # 0
      <4>1. k \in 1..length
        BY <1>1, <3>2
      <4> QED BY <1>9, <3>2, <4>1
    <3> QED BY <3>1, <3>2
  <2>2. g = [k \in 0..length |-> g[k]]
    BY DEF g
  <2> HIDE DEF g
  <2> QED BY <2>1, <2>2 DEF Is
<1> HIDE DEF g
<1>11. Is(number)
  BY <1>10 DEF number
<1>12. number[0] = 0 /\ \A k \in 1..length : number[k] = b * number[k - 1] + digits[k]
  <2>1. \A k \in 0..length : number[k] = IF k = 0 THEN 0 ELSE b * number[k - 1] + digits[k]
    BY <1>11 DEF Is
  <2>2. 0 \in 0..length /\ \A k \in 1..length : k \in 0..length /\ k # 0
    BY <1>1
  <2> QED BY <2>1, <2>2
<1> DEFINE S == {k \in Nat : k <= length => number[k] = g[k]}
<1>13. 0 \in S
  BY <1>1, <1>8, <1>12
<1>14. ASSUME NEW k \in Nat, k \in S
       PROVE  k + 1 \in S
  <2> DEFINE m == k + 1
  <2>1. m \in Nat /\ m - 1 = k
    OBVIOUS
  <2>2. m <= length => m \in 1..length /\ number[k] = g[k]
    <3>1. length \in Nat
      BY <1>1
    <3> HIDE DEF length
    <3>2. m <= length => m \in 1..length /\ k <= length
      BY <3>1
    <3>3. k <= length => number[k] = g[k]
      BY <1>14
    <3> QED BY <3>2, <3>3
  <2> HIDE DEF m
  <2>3. m <= length => number[m] = g[m]
    BY <1>9, <1>12, <2>1, <2>2
  <2>4. m \in S
    BY <2>1, <2>3
  <2> QED BY <2>4 DEF m
<1> HIDE DEF S
<1>15. length \in S
  BY <1>1, <1>14, <1>13, SetInduction
<1>16. number[length] = g[length]
  BY <1>1, <1>15 DEF S
<1> QED BY <1>4, <1>7, <1>8, <1>9, <1>16 DEF length

(***************************************************************************)
(* Digits read back are the number they were made of.                      *)
(***************************************************************************)
LEMMA PaddedReadsBack ==
  ASSUME NEW n \in Nat, NEW b \in Nat, b >= 1, NEW length \in Nat, n < Power(b, length)
  PROVE  NumberOf(Padded(n, b, length), b) = n
<1> DEFINE digits == Padded(n, b, length)
<1>1. /\ digits \in Seq(Nat) /\ Len(digits) = length
      /\ \A k \in 1..length : digits[k] = (n \div Power(b, length - k)) % b
  BY PaddedDigits
<1> HIDE DEF digits
<1>2. PICK f \in [0..length -> Nat] :
        /\ f[0] = 0
        /\ \A k \in 1..length : f[k] = b * f[k - 1] + digits[k]
        /\ NumberOf(digits, b) = f[length]
  BY <1>1, Reading
<1> DEFINE S == {k \in Nat : k <= length => f[k] = n \div Power(b, length - k)}
<1>3. 0 \in S
  <2>1. length - 0 = length /\ Power(b, length) \in Nat /\ Power(b, length) >= 1
    BY PowerPositive
  <2>2. n \div Power(b, length) = 0
    BY <2>1, QuotientZero
  <2> QED BY <1>2, <2>1, <2>2
<1>4. ASSUME NEW k \in Nat, k \in S
      PROVE  k + 1 \in S
  <2> SUFFICES ASSUME k + 1 <= length PROVE f[k + 1] = n \div Power(b, length - (k + 1))
    OBVIOUS
  <2> DEFINE e == length - (k + 1)
             p == Power(b, e)
             q == n \div p
  <2>1. e \in Nat /\ length - k = e + 1 /\ k + 1 \in 1..length /\ k + 1 - 1 = k /\ k <= length
    OBVIOUS
  <2>2. p \in Nat /\ p >= 1 /\ Power(b, length - k) = b * p
    BY <2>1, PowerPositive, PowerEquations
  <2>3. q \in Nat
    BY <2>2, Division
  <2>4. f[k] = n \div (b * p)
    BY <1>4, <2>1, <2>2
  <2>5. digits[k + 1] = q % b
    BY <1>1, <2>1
  <2> HIDE DEF e, p
  <2>6. n \div (b * p) = q \div b
    BY <2>2, QuotientOfQuotient
  <2> HIDE DEF q
  <2>7. q = b * (q \div b) + (q % b)
    BY <2>3, Division
  <2>8. f[k + 1] = b * f[k + 1 - 1] + digits[k + 1]
    BY <1>2, <2>1
  <2>9. f[k + 1] = q
    BY <2>1, <2>4, <2>5, <2>6, <2>7, <2>8
  <2> QED BY <2>9 DEF q, p, e
<1> HIDE DEF S
<1>5. length \in S
  BY <1>3, <1>4, SetInduction
<1>6. f[length] = n \div Power(b, length - length)
  BY <1>5 DEF S
<1>7. length - length = 0 /\ Power(b, 0) = 1 /\ n \div 1 = n
  BY PowerEquations, QuotientUnique
<1> QED BY <1>2, <1>6, <1>7 DEF digits

LEMMA NumeralReadsBack ==
  ASSUME NEW n \in Nat, NEW b \in Nat, b >= 2
  PROVE  /\ Numeral(n, b) \in Seq(Nat)
         /\ Len(Numeral(n, b)) = LengthOf(n, b)
         /\ NumberOf(Numeral(n, b), b) = n
<1>1. LengthOf(n, b) \in Nat /\ n < Power(b, LengthOf(n, b))
  BY LengthIs
<1> QED BY <1>1, PaddedDigits, PaddedReadsBack DEF Numeral

LEMMA HexReadsBack ==
  ASSUME NEW n \in Nat, NEW radix \in Nat, radix >= 2
  PROVE  /\ TruncatedHex(n, radix) \in Seq(Nat)
         /\ NumberOf(TruncatedHex(n, radix), radix) = n
<1>1. CASE n = 0
  <2>1. TruncatedHex(n, radix) = << >> /\ << >> \in Seq(Nat) /\ Len(<< >>) = 0
    BY <1>1 DEF TruncatedHex
  <2>2. ASSUME NEW digits \in Seq(Nat), Len(digits) = 0
        PROVE  NumberOf(digits, radix) = 0
    <3>1. PICK f \in [0..Len(digits) -> Nat] : f[0] = 0 /\ NumberOf(digits, radix) = f[Len(digits)]
      BY Reading, Zenon
    <3> QED BY <2>2, <3>1
  <2> QED BY <1>1, <2>1, <2>2
<1>2. CASE n # 0
  <2> DEFINE square == radix * radix
             l == LengthOf(n, square)
  <2>1. square \in Nat /\ square >= 2
    <3>1. radix * radix >= 2 * radix
      OBVIOUS
    <3> QED BY <3>1
  <2> HIDE DEF square
  <2>2. l \in Nat /\ n < Power(square, l)
    BY <2>1, LengthIs
  <2> HIDE DEF l
  <2>3. 2 * l \in Nat /\ n < Power(radix, 2 * l)
    BY <2>2, PowerOfSquare DEF square
  <2>4. TruncatedHex(n, radix) = Padded(n, radix, 2 * l)
    BY <1>2 DEF TruncatedHex, l, square
  <2> QED BY <2>3, <2>4, PaddedDigits, PaddedReadsBack
<1> QED BY <1>1, <1>2
=============================================================================
