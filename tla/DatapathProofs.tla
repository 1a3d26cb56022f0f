--------------------------- MODULE DatapathProofs ---------------------------
(***************************************************************************)
(* Facts about words of every size: what a word is made of bits, the       *)
(* operations of the ALU, and the byte lanes of the data port.             *)
(***************************************************************************)
EXTENDS Alu, Lsu, WellFoundedInduction, TLAPS

(* Induction over the naturals, for a set in place of a predicate: the      *)
(* least number outside the set would have its predecessor inside.          *)
LEMMA LessThan == \A x, y \in Nat : <<x, y>> \in OpToRel(<, Nat) <=> x < y
BY DEF OpToRel

LEMMA Induction ==
    ASSUME NEW S, 0 \in S, \A n \in Nat : n \in S => n + 1 \in S
    PROVE  Nat \subseteq S
<1> DEFINE T == Nat \ S
           R == OpToRel(<, Nat)
<1>1. SUFFICES ASSUME T # {} PROVE FALSE
  OBVIOUS
<1>2. IsWellFoundedOn(R, Nat) /\ T \subseteq Nat
  BY NatLessThanWellFounded
<1>3. \A x, y \in Nat : <<x, y>> \in R <=> x < y
  BY LessThan
<1> HIDE DEF T, R
<1>4. PICK x \in T : \A y \in T : ~ (<<y, x>> \in R)
  BY <1>1, <1>2, WFMin
<1>5. x \in Nat /\ x # 0
  BY <1>2, <1>4 DEF T
<1>6. x - 1 \in Nat /\ x - 1 < x /\ (x - 1) + 1 = x
  BY <1>5
<1>7. x - 1 \notin T
  BY <1>2, <1>3, <1>4, <1>5, <1>6
<1>8. QED
  BY <1>4, <1>5, <1>6, <1>7 DEF T

-----------------------------------------------------------------------------
(* Sums.  A running sum exists, is unique, and grows by one term a step.    *)
Summing(f, g, n) == /\ f[0] = 0
                    /\ \A k \in 1 .. n : f[k] = f[k - 1] + g[k - 1]

LEMMA RunningSumExists ==
    ASSUME NEW n \in Nat, NEW g, \A i \in 0 .. n - 1 : g[i] \in Int
    PROVE  \E f \in [0 .. n -> Int] : Summing(f, g, n)
<1> DEFINE S == {m \in Nat : m <= n => \E f \in [0 .. m -> Int] : Summing(f, g, m)}
<1>1. 0 \in S
  <2>1. [k \in 0 .. 0 |-> 0] \in [0 .. 0 -> Int] /\ Summing([k \in 0 .. 0 |-> 0], g, 0)
    BY DEF Summing
  <2>2. QED
    BY <2>1
<1>2. ASSUME NEW m \in Nat, m \in S, m + 1 <= n PROVE m + 1 \in S
  <2>1. PICK f \in [0 .. m -> Int] : Summing(f, g, m)
    BY <1>2
  <2> DEFINE h == [k \in 0 .. m + 1 |-> IF k <= m THEN f[k] ELSE f[m] + g[m]]
  <2>2. h \in [0 .. m + 1 -> Int]
    BY <1>2
  <2>3. \A k \in 0 .. m : h[k] = f[k]
    OBVIOUS
  <2>4. h[m + 1] = f[m] + g[m]
    OBVIOUS
  <2> HIDE DEF h
  <2>5. ASSUME NEW k \in 1 .. m + 1 PROVE h[k] = h[k - 1] + g[k - 1]
    <3>1. CASE k <= m
      BY <3>1, <2>1, <2>3 DEF Summing
    <3>2. CASE k = m + 1
      BY <3>2, <2>3, <2>4
    <3>3. QED
      BY <3>1, <3>2
  <2>6. Summing(h, g, m + 1)
    BY <2>1, <2>3, <2>5 DEF Summing
  <2>7. QED
    BY <2>2, <2>6
<1>3. \A m \in Nat : m \in S => m + 1 \in S
  BY <1>2
<1> HIDE DEF S
<1>4. n \in S
  BY <1>1, <1>3, Induction
<1>5. QED
  BY <1>4 DEF S

LEMMA RunningSumUnique ==
    ASSUME NEW n \in Nat, NEW g, NEW f, NEW h, Summing(f, g, n), Summing(h, g, n)
    PROVE  f[n] = h[n]
<1> DEFINE S == {m \in Nat : m <= n => f[m] = h[m]}
<1>1. 0 \in S
  BY DEF Summing
<1>2. ASSUME NEW m \in Nat, m \in S, m + 1 <= n PROVE f[m + 1] = h[m + 1]
  <2>1. m + 1 \in 1 .. n /\ (m + 1) - 1 = m /\ m <= n
    BY <1>2
  <2>2. QED
    BY <2>1, <1>2 DEF Summing
<1>3. \A m \in Nat : m \in S => m + 1 \in S
  BY <1>2
<1> HIDE DEF S
<1>4. n \in S
  BY <1>1, <1>3, Induction
<1>5. QED
  BY <1>4 DEF S

LEMMA SumIsRunning ==
    ASSUME NEW n \in Nat, NEW g, \A i \in 0 .. n - 1 : g[i] \in Int
    PROVE  \E f \in [0 .. n -> Int] : Summing(f, g, n) /\ SumBelow(g, n) = f[n]
<1> DEFINE Def(f) == f = [k \in 0 .. n |-> IF k = 0 THEN 0 ELSE f[k - 1] + g[k - 1]]
           sum    == CHOOSE f : Def(f)
<1>1. PICK f \in [0 .. n -> Int] : Summing(f, g, n)
  BY RunningSumExists
<1>2. Def(f)
  BY <1>1 DEF Summing
<1>3. Def(sum)
  BY <1>2
<1>4. SumBelow(g, n) = sum[n]
  BY DEF SumBelow
<1> HIDE DEF sum
<1>5. Summing(sum, g, n)
  BY <1>3 DEF Summing
<1>6. sum[n] = f[n]
  BY <1>1, <1>5, RunningSumUnique
<1>7. QED
  BY <1>1, <1>4, <1>6

LEMMA SumZero == ASSUME NEW g PROVE SumBelow(g, 0) = 0
<1>1. \A i \in 0 .. 0 - 1 : g[i] \in Int
  OBVIOUS
<1>2. QED
  BY <1>1, SumIsRunning DEF Summing

LEMMA SumStep ==
    ASSUME NEW n \in Nat, NEW g, \A i \in 0 .. n : g[i] \in Int
    PROVE  SumBelow(g, n) \in Int /\ SumBelow(g, n + 1) = SumBelow(g, n) + g[n]
<1>1. PICK f \in [0 .. n -> Int] : Summing(f, g, n) /\ SumBelow(g, n) = f[n]
  BY SumIsRunning
<1>0. n + 1 \in Nat /\ \A i \in 0 .. (n + 1) - 1 : g[i] \in Int
  OBVIOUS
<1>2. PICK h \in [0 .. n + 1 -> Int] : Summing(h, g, n + 1) /\ SumBelow(g, n + 1) = h[n + 1]
  BY <1>0, SumIsRunning
<1>3. Summing(h, g, n)
  BY <1>2 DEF Summing
<1>4. f[n] = h[n]
  BY <1>1, <1>3, RunningSumUnique
<1>5. h[n + 1] = h[n] + g[n]
  BY <1>2 DEF Summing
<1>6. QED
  BY <1>1, <1>2, <1>4, <1>5

-----------------------------------------------------------------------------
(* Powers of two, quotients and remainders.                                 *)
LEMMA PowerPositive ==
    ASSUME NEW i \in 0 .. XLEN
    PROVE  i \in Nat /\ XLEN \in Nat /\ 2^i \in Nat /\ 2^i > 0
BY XLENAssumption

LEMMA WordIsBelowBase == /\ Base \in Nat /\ Base > 0
                         /\ \A w \in Word : w \in Nat /\ w < Base
BY XLENAssumption DEF Base, Word

LEMMA QuotientOf ==
    ASSUME NEW m \in Nat, NEW d \in Nat, NEW q \in Nat, NEW r \in Nat,
           m = d * q + r, r < d
    PROVE  m \div d = q /\ m % d = r
OBVIOUS

LEMMA Division ==
    ASSUME NEW m \in Nat, NEW d \in Nat, d > 0
    PROVE  /\ m \div d \in Nat /\ m % d \in Nat /\ m % d < d
           /\ m = (d * (m \div d)) + (m % d)
OBVIOUS

LEMMA DoubleDivisor ==
    ASSUME NEW m \in Nat, NEW d \in Nat, d > 0
    PROVE  /\ m % (2 * d) = (m % d) + d * ((m \div d) % 2)
           /\ m \div (2 * d) = (m \div d) \div 2
<1> DEFINE q == m \div d
           r == m % d
           h == q \div 2
           b == q % 2
<1>1. q \in Nat /\ r \in Nat /\ r < d /\ m = d * q + r
  BY Division
<1> HIDE DEF q, r
<1>2. h \in Nat /\ b \in {0, 1} /\ q = 2 * h + b
  BY <1>1
<1> HIDE DEF h, b
<1>3. d * b + r \in Nat /\ d * b + r < 2 * d
  BY <1>1, <1>2
<1>4. d * q = (2 * d) * h + d * b
  BY <1>2
<1>5. m = (2 * d) * h + (d * b + r)
  BY <1>1, <1>2, <1>3, <1>4
<1>6. m \div (2 * d) = h /\ m % (2 * d) = d * b + r
  <2> DEFINE e == 2 * d
  <2>1. e \in Nat /\ d * b + r < e /\ m = e * h + (d * b + r)
    BY <1>3, <1>5
  <2> HIDE DEF e
  <2>2. m \div e = h /\ m % e = d * b + r
    BY <2>1, <1>2, <1>3, QuotientOf
  <2>3. QED
    BY <2>2 DEF e
<1>7. QED
  BY <1>1, <1>2, <1>6 DEF q, r, h, b

-----------------------------------------------------------------------------
(* Words and their bits.                                                    *)
Weights(S) == [i \in 0 .. XLEN - 1 |-> IF i \in S THEN 2^i ELSE 0]

LEMMA WeightStep ==
    ASSUME NEW S, NEW n \in 0 .. XLEN - 1
    PROVE  /\ SumBelow(Weights(S), n) \in Int
           /\ SumBelow(Weights(S), n + 1) = SumBelow(Weights(S), n) + (IF n \in S THEN 2^n ELSE 0)
<1>1. n \in Nat /\ XLEN \in Nat
  BY XLENAssumption
<1>2. \A i \in 0 .. n : Weights(S)[i] \in Int
  BY <1>1, PowerPositive DEF Weights
<1>3. Weights(S)[n] = IF n \in S THEN 2^n ELSE 0
  BY DEF Weights
<1>4. QED
  BY <1>1, <1>2, <1>3, SumStep

(* A set of bits below n makes a number below 2^n.                          *)
LEMMA WeightBelowPower ==
    ASSUME NEW S, NEW n \in 0 .. XLEN
    PROVE  SumBelow(Weights(S), n) \in 0 .. 2^n - 1
<1> DEFINE T == {k \in Nat : k <= XLEN => SumBelow(Weights(S), k) \in 0 .. 2^k - 1}
<1>1. 0 \in T
  BY SumZero, XLENAssumption
<1>2. ASSUME NEW k \in Nat, k \in T, k + 1 <= XLEN
      PROVE  SumBelow(Weights(S), k + 1) \in 0 .. 2^(k + 1) - 1
  <2>1. k \in 0 .. XLEN - 1 /\ k \in 0 .. XLEN
    BY <1>2, XLENAssumption
  <2>2. SumBelow(Weights(S), k) \in 0 .. 2^k - 1
    BY <1>2, <2>1, XLENAssumption
  <2>3. 2^(k + 1) = 2 * 2^k /\ 2^k \in Nat /\ 2^k > 0
    BY <2>1, XLENAssumption
  <2>4. QED
    BY <2>1, <2>2, <2>3, WeightStep
<1>3. \A k \in Nat : k \in T => k + 1 \in T
  BY <1>2
<1> HIDE DEF T
<1>4. n \in T
  BY <1>1, <1>3, Induction, XLENAssumption
<1>5. QED
  BY <1>4, XLENAssumption DEF T

LEMMA FromBitsInWord == ASSUME NEW S PROVE FromBits(S) \in Word
<1>1. FromBits(S) = SumBelow(Weights(S), XLEN)
  BY DEF FromBits, Weights
<1>2. XLEN \in 0 .. XLEN
  BY XLENAssumption
<1>3. QED
  BY <1>1, <1>2, WeightBelowPower DEF Word, Base

(* The bits of a number below n make its remainder by 2^n: Bits and FromBits *)
(* are each other's inverse on words.                                       *)
LEMMA BitsBelow ==
    ASSUME NEW a \in Nat, NEW n \in 0 .. XLEN
    PROVE  SumBelow(Weights(Bits(a)), n) = a % 2^n
<1> DEFINE T == {k \in Nat : k <= XLEN => SumBelow(Weights(Bits(a)), k) = a % 2^k}
<1>1. 0 \in T
  BY SumZero, XLENAssumption
<1>2. ASSUME NEW k \in Nat, k \in T, k + 1 <= XLEN
      PROVE  SumBelow(Weights(Bits(a)), k + 1) = a % 2^(k + 1)
  <2>1. k \in 0 .. XLEN - 1 /\ k \in 0 .. XLEN
    BY <1>2, XLENAssumption
  <2>2. SumBelow(Weights(Bits(a)), k) = a % 2^k
    BY <1>2, <2>1, XLENAssumption
  <2>3. 2^(k + 1) = 2 * 2^k /\ 2^k \in Nat /\ 2^k > 0
    BY <2>1, XLENAssumption
  <2>4. a % 2^(k + 1) = (a % 2^k) + 2^k * ((a \div 2^k) % 2)
    BY <2>3, DoubleDivisor
  <2>5. (a \div 2^k) % 2 \in {0, 1}
    BY <2>3, Division
  <2>6. k \in Bits(a) <=> (a \div 2^k) % 2 = 1
    BY <2>1 DEF Bits, Bit
  <2>7. 2^k * ((a \div 2^k) % 2) = IF k \in Bits(a) THEN 2^k ELSE 0
    BY <2>3, <2>5, <2>6
  <2>8. QED
    BY <2>1, <2>2, <2>4, <2>7, WeightStep
<1>3. \A k \in Nat : k \in T => k + 1 \in T
  BY <1>2
<1> HIDE DEF T
<1>4. n \in T
  BY <1>1, <1>3, Induction, XLENAssumption
<1>5. QED
  BY <1>4, XLENAssumption DEF T

LEMMA WordOfItsBits == ASSUME NEW a \in Word PROVE FromBits(Bits(a)) = a
<1>1. FromBits(Bits(a)) = SumBelow(Weights(Bits(a)), XLEN)
  BY DEF FromBits, Weights
<1>2. XLEN \in 0 .. XLEN /\ a \in Nat /\ a < 2^XLEN /\ 2^XLEN \in Nat
  BY XLENAssumption DEF Word, Base
<1>3. a % 2^XLEN = a
  BY <1>2
<1>4. QED
  BY <1>1, <1>2, <1>3, BitsBelow

-----------------------------------------------------------------------------
(* Shifting a word moves its bits.                                          *)
LEMMA PowerSum ==
    ASSUME NEW i \in Nat, NEW j \in Nat, i + j <= XLEN
    PROVE  2^(i + j) = 2^i * 2^j
<1> DEFINE T == {k \in Nat : i + k <= XLEN => 2^(i + k) = 2^i * 2^k}
<1>0. XLEN \in Nat
  BY XLENAssumption
<1>1. 0 \in T
  <2>1. i + 0 = i /\ i \in 0 .. XLEN
    BY <1>0
  <2>2. 2^i * 1 = 2^i
    BY <2>1, PowerPositive
  <2>3. QED
    BY <2>1, <2>2, XLENAssumption
<1>2. ASSUME NEW k \in Nat, k \in T, i + (k + 1) <= XLEN
      PROVE  2^(i + (k + 1)) = 2^i * 2^(k + 1)
  <2>1. /\ i + (k + 1) = (i + k) + 1 /\ i + k \in 0 .. XLEN - 1 /\ k \in 0 .. XLEN - 1
        /\ i + k <= XLEN /\ i \in 0 .. XLEN /\ k \in 0 .. XLEN
    BY <1>0, <1>2
  <2>2. 2^((i + k) + 1) = 2 * 2^(i + k) /\ 2^(k + 1) = 2 * 2^k
    BY <2>1, XLENAssumption
  <2>3. 2^(i + k) = 2^i * 2^k
    BY <1>2, <2>1
  <2>4. 2^i \in Nat /\ 2^k \in Nat
    BY <2>1, PowerPositive
  <2> HIDE DEF T
  <2>5. 2 * (2^i * 2^k) = 2^i * (2 * 2^k)
    BY <2>4
  <2>6. QED
    BY <2>1, <2>2, <2>3, <2>5
<1>3. \A k \in Nat : k \in T => k + 1 \in T
  BY <1>2
<1> HIDE DEF T
<1>4. j \in T
  BY <1>1, <1>3, Induction
<1>5. QED
  BY <1>4 DEF T

LEMMA QuotientOfSum ==
    ASSUME NEW d \in Nat, d > 0, NEW k \in Nat, NEW r \in Nat
    PROVE  (d * k + r) \div d = k + (r \div d)
<1> DEFINE q == r \div d
           p == r % d
<1>1. q \in Nat /\ p \in Nat /\ p < d /\ r = d * q + p
  BY Division
<1> HIDE DEF q, p
<1>2. d * k + r = d * (k + q) + p /\ k + q \in Nat /\ d * k + r \in Nat
  BY <1>1
<1>3. (d * k + r) \div d = k + q
  BY <1>1, <1>2, QuotientOf
<1>4. QED
  BY <1>3 DEF q

LEMMA QuotientOfProducts ==
    ASSUME NEW a \in Nat, NEW c \in Nat, c > 0, NEW d \in Nat, d > 0
    PROVE  /\ (a * c) \div (d * c) = a \div d
           /\ (a \div c) \div d = a \div (c * d)
<1>0. c * d \in Nat /\ d * c = c * d
  OBVIOUS
<1>1. (a * c) \div (d * c) = a \div d
  <2> DEFINE q == a \div d
             r == a % d
             e == d * c
  <2>1. q \in Nat /\ r \in Nat /\ r < d /\ a = d * q + r
    BY Division
  <2> HIDE DEF q, r
  <2>2. a * c = e * q + r * c /\ a * c \in Nat /\ r * c \in Nat /\ e \in Nat
    BY <2>1
  <2>3. r * c < e
    BY <2>1
  <2> HIDE DEF e
  <2>4. (a * c) \div e = q
    BY <2>1, <2>2, <2>3, QuotientOf
  <2>5. QED
    BY <2>4 DEF q, e
<1>2. (a \div c) \div d = a \div (c * d)
  <2> DEFINE q == a \div c
             r == a % c
             h == q \div d
             p == q % d
             e == c * d
  <2>1. q \in Nat /\ r \in Nat /\ r < c /\ a = c * q + r
    BY Division
  <2> HIDE DEF q, r
  <2>2. h \in Nat /\ p \in Nat /\ p < d /\ q = d * h + p
    BY <2>1, Division
  <2> HIDE DEF h, p
  <2>3. c * q = c * (d * h) + c * p
    BY <2>1, <2>2
  <2>3a. c * (d * h) = e * h /\ c * p \in Nat
    BY <2>2
  <2>3b. a = e * h + (c * p + r)
    BY <2>1, <2>2, <2>3, <2>3a
  <2>4. c * p + r \in Nat /\ c * p + r < e
    <3>1. c * (p + 1) <= c * d
      BY <2>2
    <3>2. c * (p + 1) = c * p + c
      BY <2>2
    <3>3. QED
      BY <3>1, <3>2, <2>1, <2>2, <2>3a
  <2>5. e \in Nat
    OBVIOUS
  <2> HIDE DEF e
  <2>6. a \div e = h
    BY <2>2, <2>3b, <2>4, <2>5, QuotientOf
  <2>7. QED
    BY <2>6 DEF h, q, e
<1>3. QED
  BY <1>1, <1>2

LEMMA Complement ==
    ASSUME NEW i \in 0 .. XLEN
    PROVE  /\ XLEN - i \in 0 .. XLEN /\ Base = 2^i * 2^(XLEN - i)
           /\ i < XLEN => /\ 2^(XLEN - i) = 2 * 2^(XLEN - i - 1)
                          /\ 2^(XLEN - i - 1) \in Nat /\ 2^(XLEN - i - 1) > 0
<1>1. XLEN \in Nat /\ i \in Nat /\ XLEN - i \in Nat /\ i + (XLEN - i) = XLEN
  BY XLENAssumption
<1>2. Base = 2^i * 2^(XLEN - i)
  BY <1>1, PowerSum DEF Base
<1>3. ASSUME i < XLEN
      PROVE  XLEN - i - 1 \in 0 .. XLEN - 1 /\ (XLEN - i - 1) + 1 = XLEN - i /\ XLEN - i - 1 \in 0 .. XLEN
  BY <1>1, <1>3
<1>4. QED
  BY <1>1, <1>2, <1>3, XLENAssumption

\* The low XLEN bits of a number are those of its remainder.
LEMMA BitsOfTrunc ==
    ASSUME NEW x \in Nat PROVE Bits(Trunc(x)) = Bits(x) /\ Trunc(x) \in Word
<1> DEFINE q == x \div Base
           r == x % Base
<1>1. q \in Nat /\ r \in Nat /\ r < Base /\ x = Base * q + r
  BY Division, WordIsBelowBase
<1>2. Trunc(x) = r
  BY DEF Trunc
<1> HIDE DEF q, r
<1>3. ASSUME NEW i \in 0 .. XLEN - 1 PROVE Bit(r, i) <=> Bit(x, i)
  <2> DEFINE d == 2^i
             p == 2^(XLEN - i - 1)
  <2>1. i \in 0 .. XLEN /\ i < XLEN
    BY XLENAssumption
  <2>2. d \in Nat /\ d > 0 /\ p \in Nat /\ Base = d * (2 * p)
    BY <2>1, PowerPositive, Complement
  <2> HIDE DEF d, p
  <2>3. x = d * (2 * (p * q)) + r /\ p * q \in Nat
    BY <1>1, <2>2
  <2>4. x \div d = 2 * (p * q) + (r \div d)
    BY <1>1, <2>2, <2>3, QuotientOfSum
  <2>5. r \div d \in Nat
    BY <1>1, <2>2, Division
  <2>6. (x \div d) % 2 = (r \div d) % 2
    BY <2>3, <2>4, <2>5
  <2>7. QED
    BY <2>6 DEF Bit, d
<1>4. Bits(r) = Bits(x)
  BY <1>3 DEF Bits
<1>5. QED
  BY <1>1, <1>2, <1>4, WordIsBelowBase DEF Word

LEMMA ShiftedLeft ==
    ASSUME NEW a \in Nat, NEW s \in 0 .. XLEN - 1
    PROVE  Bits(a * 2^s) = {i \in 0 .. XLEN - 1 : \E j \in Bits(a) : i = j + s}
<1>0. XLEN \in Nat /\ s \in Nat /\ s \in 0 .. XLEN /\ 2^s \in Nat /\ 2^s > 0
  BY XLENAssumption, PowerPositive
<1>1. ASSUME NEW i \in 0 .. XLEN - 1, s <= i
      PROVE  Bit(a * 2^s, i) <=> \E j \in Bits(a) : i = j + s
  <2>1. /\ i - s \in Nat /\ (i - s) + s = i /\ i \in Nat
        /\ i - s \in 0 .. XLEN /\ i - s \in 0 .. XLEN - 1
    BY <1>0, <1>1
  <2>2. 2^i = 2^(i - s) * 2^s
    <3>1. 2^((i - s) + s) = 2^(i - s) * 2^s
      BY <1>0, <2>1, PowerSum
    <3>2. QED
      BY <3>1, <2>1
  <2>3. 2^(i - s) \in Nat /\ 2^(i - s) > 0
    BY <2>1, PowerPositive
  <2> DEFINE c == 2^s
             d == 2^(i - s)
  <2>4. (a * c) \div (d * c) = a \div d
    <3> HIDE DEF c, d
    <3>1. c \in Nat /\ c > 0 /\ d \in Nat /\ d > 0
      BY <1>0, <2>3 DEF c, d
    <3>2. QED
      BY <3>1, QuotientOfProducts
  <2>5. Bit(a * 2^s, i) <=> i - s \in Bits(a)
    BY <2>1, <2>2, <2>4 DEF Bit, Bits
  <2>6. \A j \in Bits(a) : i = j + s <=> j = i - s
    BY <1>0, <2>1 DEF Bits
  <2>7. QED
    BY <2>1, <2>5, <2>6
<1>2. ASSUME NEW i \in 0 .. XLEN - 1, i < s
      PROVE  ~Bit(a * 2^s, i) /\ ~ \E j \in Bits(a) : i = j + s
  <2>1. /\ i \in Nat /\ i \in 0 .. XLEN /\ s - i - 1 \in Nat /\ s - i \in 0 .. XLEN
        /\ s - i - 1 \in 0 .. XLEN /\ s - i - 1 \in 0 .. XLEN - 1
        /\ i + (s - i) = s /\ (s - i - 1) + 1 = s - i /\ s - i \in Nat /\ s <= XLEN
    BY <1>0, <1>2
  <2> DEFINE d == 2^i
             p == 2^(s - i - 1)
  <2>2. 2^s = 2^i * 2^(s - i)
    <3>1. 2^(i + (s - i)) = 2^i * 2^(s - i)
      BY <2>1, PowerSum
    <3>2. QED
      BY <3>1, <2>1
  <2>3. 2^(s - i) = 2 * p /\ p \in Nat /\ d \in Nat /\ d > 0
    BY <2>1, XLENAssumption, PowerPositive
  <2>4. 2^s = d * (2 * p)
    BY <2>2, <2>3
  <2> HIDE DEF d, p
  <2>5. a * 2^s = d * (2 * (a * p)) + 0 /\ a * p \in Nat /\ 2 * (a * p) \in Nat
    BY <2>3, <2>4
  <2>6. (a * 2^s) \div d = 2 * (a * p) + (0 \div d)
    BY <2>3, <2>5, QuotientOfSum
  <2>7. 0 \div d = 0
    BY <2>3
  <2>8. ((a * 2^s) \div d) % 2 = 0
    BY <2>5, <2>6, <2>7
  <2>9. \A j \in Bits(a) : i # j + s
    BY <1>0, <1>2, <2>1 DEF Bits
  <2>10. QED
    BY <2>8, <2>9 DEF Bit, d
<1>3. QED
  BY <1>0, <1>1, <1>2 DEF Bits

LEMMA ShiftedRight ==
    ASSUME NEW a \in Word, NEW s \in 0 .. XLEN - 1
    PROVE  /\ Bits(a \div 2^s) = {i \in 0 .. XLEN - 1 : i + s \in Bits(a)}
           /\ a \div 2^s \in Word /\ a \div 2^s < 2^(XLEN - s)
<1>0. /\ XLEN \in Nat /\ s \in Nat /\ s \in 0 .. XLEN /\ 2^s \in Nat /\ 2^s > 0
      /\ a \in Nat /\ a < Base /\ Base = 2^s * 2^(XLEN - s) /\ 2^(XLEN - s) \in Nat
  BY XLENAssumption, PowerPositive, WordIsBelowBase, Complement
<1> DEFINE q == a \div 2^s
           r == a % 2^s
<1>1. q \in Nat /\ r \in Nat /\ a = 2^s * q + r
  BY <1>0, Division
<1> HIDE DEF q, r
<1>2. q < 2^(XLEN - s)
  BY <1>0, <1>1
<1>3. q <= a
  BY <1>0, <1>1
<1>4. ASSUME NEW i \in 0 .. XLEN - 1
      PROVE  Bit(q, i) <=> i + s \in Bits(a)
  <2>1. i \in Nat /\ i \in 0 .. XLEN /\ 2^i \in Nat /\ 2^i > 0 /\ i + s \in Nat
    BY <1>0, PowerPositive
  <2>2. CASE i + s < XLEN
    <3>1. 2^(i + s) = 2^i * 2^s /\ 2^i * 2^s = 2^s * 2^i
      BY <1>0, <2>1, <2>2, PowerSum
    <3> DEFINE c == 2^s
               d == 2^i
    <3>2. q \div 2^i = a \div 2^(i + s)
      <4>1. (a \div c) \div d = a \div (c * d)
        <5> HIDE DEF c, d
        <5>1. c \in Nat /\ c > 0 /\ d \in Nat /\ d > 0
          BY <1>0, <2>1 DEF c, d
        <5>2. a \in Nat
          BY <1>0
        <5>3. QED
          BY <5>1, <5>2, QuotientOfProducts
      <4>2. QED
        BY <4>1, <3>1 DEF q
    <3>3. i + s \in 0 .. XLEN - 1
      BY <1>0, <2>1, <2>2
    <3>4. QED
      BY <3>2, <3>3 DEF Bit, Bits
  <2>3. CASE i + s >= XLEN
    <3>1. /\ XLEN - s \in Nat /\ i - (XLEN - s) \in Nat /\ i - (XLEN - s) \in 0 .. XLEN
          /\ (XLEN - s) + (i - (XLEN - s)) = i /\ i <= XLEN
      BY <1>0, <2>1, <2>3
    <3>2. 2^((XLEN - s) + (i - (XLEN - s))) = 2^(XLEN - s) * 2^(i - (XLEN - s))
      BY <1>0, <3>1, PowerSum
    <3>3. 2^(i - (XLEN - s)) \in Nat /\ 2^(i - (XLEN - s)) > 0
      BY <3>1, PowerPositive
    <3>4. 2^(XLEN - s) <= 2^i
      BY <1>0, <3>1, <3>2, <3>3
    <3>5. q \div 2^i = 0
      BY <1>0, <1>1, <1>2, <2>1, <3>4
    <3>6. i + s \notin 0 .. XLEN - 1
      BY <1>0, <2>1, <2>3
    <3>7. QED
      BY <3>5, <3>6 DEF Bit, Bits
  <2>4. QED
    BY <2>1, <2>2, <2>3, <1>0
<1>5. Bits(q) = {i \in 0 .. XLEN - 1 : i + s \in Bits(a)}
  BY <1>4 DEF Bits
<1>6. q \in Word
  BY <1>0, <1>1, <1>3 DEF Word
<1>7. QED
  BY <1>2, <1>5, <1>6 DEF q

\* x - 2^n, with n <= XLEN: the bits of x below n, and every bit above.
LEMMA OnesAbove ==
    ASSUME NEW n \in 1 .. XLEN, NEW x \in Nat, x < 2^n
    PROVE  /\ Bits(x + (Base - 2^n)) = {i \in 0 .. XLEN - 1 : i \in Bits(x) \/ i >= n}
           /\ x + (Base - 2^n) \in Word
<1>0. /\ XLEN \in Nat /\ n \in Nat /\ n \in 0 .. XLEN /\ 2^n \in Nat /\ 2^n > 0
      /\ Base = 2^n * 2^(XLEN - n) /\ 2^(XLEN - n) \in Nat /\ 2^(XLEN - n) > 0 /\ Base \in Nat
  BY XLENAssumption, PowerPositive, WordIsBelowBase, Complement
<1>1. 2^n <= Base
  BY <1>0
<1> DEFINE y == x + (Base - 2^n)
<1>2. y \in Nat /\ y < Base
  BY <1>0, <1>1
<1>3. ASSUME NEW i \in 0 .. XLEN - 1, i < n PROVE Bit(y, i) <=> Bit(x, i)
  <2>1. /\ i \in 0 .. XLEN /\ i \in Nat /\ n - i - 1 \in Nat /\ n - i - 1 \in 0 .. XLEN
        /\ n - i \in Nat /\ i + (n - i) = n /\ (n - i - 1) + 1 = n - i /\ n - i - 1 \in 0 .. XLEN - 1
        /\ n <= XLEN
    BY <1>0, <1>3
  <2> DEFINE d == 2^i
             p == 2^(n - i - 1)
             m == 2^(XLEN - n) - 1
  <2>2. 2^n = 2^i * 2^(n - i)
    <3>1. 2^(i + (n - i)) = 2^i * 2^(n - i)
      BY <2>1, PowerSum
    <3>2. QED
      BY <3>1, <2>1
  <2>3. 2^(n - i) = 2 * p /\ p \in Nat /\ d \in Nat /\ d > 0 /\ m \in Nat
    BY <1>0, <2>1, XLENAssumption, PowerPositive
  <2>4. 2^n = d * (2 * p)
    BY <2>2, <2>3
  <2>5. Base - 2^n = 2^n * m
    BY <1>0
  <2> HIDE DEF d, p, m
  <2>6. y = d * (2 * (p * m)) + x /\ p * m \in Nat
    BY <1>0, <2>3, <2>4, <2>5
  <2> HIDE DEF y
  <2>7. y \div d = 2 * (p * m) + (x \div d)
    BY <2>3, <2>6, QuotientOfSum
  <2>8. x \div d \in Nat
    BY <2>3, Division
  <2>9. (y \div d) % 2 = (x \div d) % 2
    BY <2>6, <2>7, <2>8
  <2>10. QED
    BY <2>9 DEF Bit, d
<1>4. ASSUME NEW i \in 0 .. XLEN - 1, i >= n PROVE Bit(y, i)
  <2>1. /\ i \in 0 .. XLEN /\ i \in Nat /\ i - n \in Nat /\ n + (i - n) = i
        /\ i - n \in 0 .. XLEN /\ i < XLEN /\ i <= XLEN
    BY <1>0, <1>4
  <2> DEFINE d == 2^i
             p == 2^(XLEN - i - 1)
  <2>2. 2^i = 2^n * 2^(i - n)
    <3>1. 2^(n + (i - n)) = 2^n * 2^(i - n)
      BY <1>0, <2>1, PowerSum
    <3>2. QED
      BY <3>1, <2>1
  <2>3. 2^(i - n) \in Nat /\ 2^(i - n) > 0
    BY <2>1, PowerPositive
  <2>4. 2^n <= d
    BY <1>0, <2>2, <2>3
  <2>5. d \in Nat /\ d > 0 /\ Base = d * (2 * p) /\ p \in Nat /\ p > 0
    BY <2>1, PowerPositive, Complement
  <2>5a. 2 * p - 1 \in Nat
    <3> HIDE DEF p
    <3>1. QED
      BY <2>5
  <2> HIDE DEF d, p
  <2>6. y = d * (2 * p - 1) + ((x + d) - 2^n)
    BY <1>0, <2>5
  <2>7. (x + d) - 2^n \in Nat /\ (x + d) - 2^n < d
    BY <1>0, <2>4, <2>5
  <2>8. y \div d = 2 * p - 1
    BY <1>2, <2>5, <2>5a, <2>6, <2>7, QuotientOf
  <2>9. (y \div d) % 2 = 1
    BY <2>5, <2>8
  <2>10. QED
    BY <2>9 DEF Bit, d
<1> HIDE DEF y
<1>5. Bits(y) = {i \in 0 .. XLEN - 1 : i \in Bits(x) \/ i >= n}
  BY <1>0, <1>3, <1>4 DEF Bits
<1>6. y \in Word
  BY <1>2, <1>0 DEF Word
<1>7. QED
  BY <1>5, <1>6 DEF y

(* Union and intersection of sets of bits, as sums.                         *)
LEMMA FromBitsUnion ==
    ASSUME NEW S, NEW T
    PROVE  /\ FromBits(S \cup T) = (FromBits(S) + FromBits(T)) - FromBits(S \cap T)
           /\ FromBits(S \cap T) = FromBits(S) - FromBits(S \ T)
<1> DEFINE W(X, k) == SumBelow(Weights(X), k)
           Good(k) == /\ W(S \cup T, k) = (W(S, k) + W(T, k)) - W(S \cap T, k)
                      /\ W(S \cap T, k) = W(S, k) - W(S \ T, k)
           K == {k \in Nat : k <= XLEN => Good(k)}
<1>1. 0 \in K
  BY SumZero
<1>2. ASSUME NEW k \in Nat, k \in K, k + 1 <= XLEN PROVE Good(k + 1)
  <2>1. k \in 0 .. XLEN - 1 /\ k \in 0 .. XLEN /\ 2^k \in Nat
    BY <1>2, XLENAssumption
  <2> DEFINE w(X) == IF k \in X THEN 2^k ELSE 0
  <2>2. Good(k)
    BY <1>2, <2>1, XLENAssumption
  <2>3. \A X : W(X, k) \in Int /\ W(X, k + 1) = W(X, k) + w(X)
    BY <2>1, WeightStep
  <2> HIDE DEF W
  <2>4. \A X : w(X) \in Int
    BY <2>1
  <2>5. w(S \cup T) = (w(S) + w(T)) - w(S \cap T) /\ w(S \cap T) = w(S) - w(S \ T)
    BY <2>1
  <2> HIDE DEF w
  <2>6. QED
    BY <2>2, <2>3, <2>4, <2>5
<1>3. \A k \in Nat : k \in K => k + 1 \in K
  BY <1>2
<1> HIDE DEF K
<1>4. XLEN \in K
  BY <1>1, <1>3, Induction, XLENAssumption
<1>5. Good(XLEN)
  BY <1>4, XLENAssumption DEF K
<1>6. \A X : FromBits(X) = W(X, XLEN)
  BY DEF FromBits, Weights
<1>7. QED
  BY <1>5, <1>6

-----------------------------------------------------------------------------
(* The one adder: its XLEN-bit result, its carry and its sign.              *)
LEMMA Remainders ==
    ASSUME NEW m \in Nat, m > 0, NEW x \in Int
    PROVE  /\ 0 <= x /\ x < m => x % m = x
           /\ m <= x /\ x < 2 * m => x % m = x - m
           /\ x < 0 /\ x + m >= 0 => x % m = x + m
OBVIOUS

LEMMA EvenBase == \E h \in Nat : h > 0 /\ Base = 2 * h
<1>1. /\ XLEN - 1 \in 0 .. XLEN - 1 /\ XLEN - 1 \in 0 .. XLEN /\ (XLEN - 1) + 1 = XLEN
  BY XLENAssumption
<1>2. 2^(XLEN - 1) \in Nat /\ 2^(XLEN - 1) > 0
  BY <1>1, PowerPositive
<1>3. 2^XLEN = 2 * 2^(XLEN - 1)
  BY <1>1, XLENAssumption
<1>4. QED
  BY <1>2, <1>3 DEF Base

LEMMA Adder ==
    ASSUME NEW a \in Word, NEW b \in Word
    PROVE  /\ AddRes("add", a, b) = Trunc(a + b)
           /\ \A op \in {"sub", "slt", "sltu"} :
                 /\ AddRes(op, a, b) = IF a >= b THEN a - b ELSE (a - b) + Base
                 /\ AddRes(op, a, b) = Trunc(a - b)
                 /\ Carry(op, a, b) <=> a >= b
<1>1. a \in Nat /\ b \in Nat /\ a < Base /\ b < Base /\ Base \in Nat /\ Base > 0
  BY WordIsBelowBase
<1>2. ASSUME NEW op \in {"sub", "slt", "sltu"}
      PROVE  AddExt(op, a, b) = (a - b) + Base
  BY <1>1 DEF AddExt, Sub, Not
<1>3. AddExt("add", a, b) = a + b
  BY DEF AddExt, Sub
<1>4. Trunc((a - b) + Base) = IF a >= b THEN a - b ELSE (a - b) + Base
  BY <1>1, Remainders DEF Trunc
<1>5. Trunc(a - b) = IF a >= b THEN a - b ELSE (a - b) + Base
  BY <1>1, Remainders DEF Trunc
<1>6. QED
  BY <1>1, <1>2, <1>3, <1>4, <1>5 DEF AddRes, Carry

LEMMA Comparisons ==
    ASSUME NEW a \in Word, NEW b \in Word
    PROVE  /\ Slt(a, b) <=> Signed(a) < Signed(b)
           /\ Sltu(a, b) <=> a < b
<1>1. a \in Nat /\ b \in Nat /\ a < Base /\ b < Base /\ Base \in Nat /\ Base > 0
  BY WordIsBelowBase
<1>2. AddRes("slt", a, b) = IF a >= b THEN a - b ELSE (a - b) + Base
  BY Adder
<1>3. Slt(a, b) <=> Signed(a) < Signed(b)
  BY <1>1, <1>2 DEF Slt, Msb, Signed
<1>4. Sltu(a, b) <=> a < b
  BY <1>1, Adder DEF Sltu
<1>5. QED
  BY <1>3, <1>4

-----------------------------------------------------------------------------
(* The shifters.                                                            *)
LEMMA ShamtRange == ASSUME NEW b \in Word PROVE Shamt(b) \in 0 .. XLEN - 1
BY WordIsBelowBase, XLENAssumption DEF Shamt

LEMMA SllIsReference ==
    ASSUME NEW a \in Word, NEW b \in Word PROVE Alu("sll", a, b) = AluRef("sll", a, b)
<1> DEFINE s == Shamt(b)
           x == a * 2^s
<1>1. s \in 0 .. XLEN - 1 /\ s \in 0 .. XLEN /\ a \in Nat
  BY ShamtRange, WordIsBelowBase, XLENAssumption
<1>2. x \in Nat
  BY <1>1, PowerPositive
<1>3. Bits(x) = {i \in 0 .. XLEN - 1 : \E j \in Bits(a) : i = j + s}
  BY <1>1, ShiftedLeft
<1>4. AluRef("sll", a, b) = FromBits(Bits(x))
  BY <1>3 DEF AluRef
<1>5. Alu("sll", a, b) = Trunc(x)
  BY DEF Alu
<1> HIDE DEF x
<1>6. Bits(Trunc(x)) = Bits(x) /\ Trunc(x) \in Word
  BY <1>2, BitsOfTrunc
<1>7. QED
  BY <1>4, <1>5, <1>6, WordOfItsBits

LEMMA SrlIsReference ==
    ASSUME NEW a \in Word, NEW b \in Word
    PROVE  Alu("srl", a, b) = AluRef("srl", a, b) /\ Alu("srl", a, b) \in Word
<1> DEFINE s == Shamt(b)
           x == a \div 2^s
<1>1. s \in 0 .. XLEN - 1
  BY ShamtRange
<1>2. Bits(x) = {i \in 0 .. XLEN - 1 : i + s \in Bits(a)} /\ x \in Word
  BY <1>1, ShiftedRight
<1>3. AluRef("srl", a, b) = FromBits(Bits(x))
  BY <1>2 DEF AluRef
<1>4. Alu("srl", a, b) = x
  BY DEF Alu
<1>5. QED
  BY <1>2, <1>3, <1>4, WordOfItsBits

LEMMA SraIsReference ==
    ASSUME NEW a \in Word, NEW b \in Word
    PROVE  Alu("sra", a, b) = AluRef("sra", a, b) /\ Alu("sra", a, b) \in Word
<1> DEFINE s == Shamt(b)
           x == a \div 2^s
           n == XLEN - s
<1>1. /\ s \in 0 .. XLEN - 1 /\ s \in 0 .. XLEN /\ a \in Nat /\ a < Base
      /\ n \in 1 .. XLEN /\ XLEN \in Nat /\ s \in Nat
  BY ShamtRange, WordIsBelowBase, XLENAssumption
<1>2. /\ Bits(x) = {i \in 0 .. XLEN - 1 : i + s \in Bits(a)} /\ x \in Word
      /\ x < 2^n
  BY <1>1, ShiftedRight
<1>3. AluRef("sra", a, b) = FromBits({i \in 0 .. XLEN - 1 :
                               i + s \in Bits(a) \/ (i + s >= XLEN /\ Msb(a))})
  BY DEF AluRef, Msb
<1>4. Alu("sra", a, b) = Trunc(Signed(a) \div 2^s)
  BY DEF Alu, Sra
<1>5. CASE ~Msb(a)
  <2>1. Alu("sra", a, b) = Trunc(x)
    BY <1>4, <1>5 DEF Signed
  <2>2. Trunc(x) = x
    BY <1>2, WordIsBelowBase, Remainders DEF Trunc
  <2>3. AluRef("sra", a, b) = FromBits(Bits(x))
    <3>1. {i \in 0 .. XLEN - 1 : i + s \in Bits(a) \/ (i + s >= XLEN /\ Msb(a))} = Bits(x)
      BY <1>2, <1>5
    <3>2. QED
      BY <1>3, <3>1
  <2>4. QED
    BY <1>2, <2>1, <2>2, <2>3, WordOfItsBits
<1>6. CASE Msb(a)
  <2> DEFINE d == 2^s
             r == a % d
             y == x + (Base - 2^n)
  <2>1. d \in Nat /\ d > 0 /\ Base = d * 2^n /\ 2^n \in Nat /\ 2^n > 0 /\ Base \in Nat
    BY <1>1, PowerPositive, Complement, WordIsBelowBase
  <2>2. r \in Nat /\ r < d /\ a = d * x + r /\ x \in Nat
    BY <1>1, <2>1, Division
  <2>3. Signed(a) = a - Base
    BY <1>6 DEF Signed
  <2> HIDE DEF r, d
  <2>4. a - Base = d * (x - 2^n) + r /\ x - 2^n \in Int
    <3> HIDE DEF x
    <3>1. QED
      BY <2>1, <2>2
  <2>5. (a - Base) \div d = x - 2^n
    <3> DEFINE z == x - 2^n
               u == a - Base
    <3>1. z \in Int /\ u \in Int /\ u = d * z + r
      BY <1>1, <2>1, <2>4
    <3> HIDE DEF z, u
    <3>2. u \div d = z
      BY <3>1, <2>1, <2>2
    <3>3. QED
      BY <3>2 DEF z, u
  <2>6. Trunc(x - 2^n) = y
    <3>1. 2^n <= Base
      BY <2>1
    <3> HIDE DEF x, n
    <3>2. x - 2^n < 0 /\ (x - 2^n) + Base >= 0 /\ x - 2^n \in Int
      BY <1>2, <2>1, <2>2, <3>1
    <3>3. (x - 2^n) % Base = (x - 2^n) + Base
      BY <2>1, <3>2, WordIsBelowBase, Remainders
    <3>4. QED
      BY <2>1, <2>2, <3>3 DEF Trunc
  <2>7. Alu("sra", a, b) = y
    BY <1>4, <2>3, <2>5, <2>6 DEF d
  <2>8. /\ Bits(y) = {i \in 0 .. XLEN - 1 : i \in Bits(x) \/ i >= n} /\ y \in Word
    BY <1>1, <1>2, <2>2, OnesAbove
  <2>9. Bits(y) = {i \in 0 .. XLEN - 1 : i + s \in Bits(a) \/ (i + s >= XLEN /\ Msb(a))}
    <3>1. \A i \in 0 .. XLEN - 1 : i >= n <=> i + s >= XLEN
      BY <1>1
    <3>2. QED
      BY <1>2, <1>6, <2>8, <3>1
  <2>10. QED
    BY <1>3, <2>7, <2>8, <2>9, WordOfItsBits
<1>7. QED
  BY <1>5, <1>6

-----------------------------------------------------------------------------
(* The ALU.                                                                 *)
LEMMA AluIsReference ==
    ASSUME NEW op \in AluOp, NEW a \in Word, NEW b \in Word
    PROVE  Alu(op, a, b) = AluRef(op, a, b)
<1>1. CASE op \in {"add", "sub"}
  BY <1>1, Adder DEF Alu, AluRef
<1>2. CASE op \in {"sll", "srl", "sra", "xor"}
  <2>1. Alu("xor", a, b) = AluRef("xor", a, b)
    BY DEF Alu, AluRef
  <2>2. QED
    BY <1>2, <2>1, SllIsReference, SrlIsReference, SraIsReference
<1>3. CASE op \in {"or", "and"}
  <2>1. FromBits(Bits(a)) = a /\ FromBits(Bits(b)) = b
    BY WordOfItsBits
  <2>2. Or(a, b) = (a + b) - And(a, b)
    BY <2>1, FromBitsUnion DEF Or, And
  <2>3. And(a, b) = a - AndNot(a, b)
    BY <2>1, FromBitsUnion DEF AndNot, And
  <2>4. Alu("or", a, b) = Or(a, b) /\ Alu("and", a, b) = And(a, b)
    BY DEF Alu
  <2>5. AluRef("or", a, b) = (a + b) - And(a, b)
    <3>1. AluRef("or", a, b) = a + (b - And(a, b))
      BY DEF AluRef
    <3>2. And(a, b) \in Word
      BY FromBitsInWord DEF And
    <3>3. QED
      BY <3>1, <3>2, WordIsBelowBase
  <2>6. AluRef("and", a, b) = a - AndNot(a, b)
    BY DEF AluRef
  <2>7. QED
    BY <1>3, <2>2, <2>3, <2>4, <2>5, <2>6
<1>4. CASE op \in {"slt", "sltu"}
  BY <1>4, Comparisons DEF Alu, AluRef, Flag
<1>5. QED
  BY <1>1, <1>2, <1>3, <1>4 DEF AluOp

LEMMA AluInWord ==
    ASSUME NEW op \in AluOp, NEW a \in Word, NEW b \in Word
    PROVE  Alu(op, a, b) \in Word
<1>1. Base \in Nat /\ Base > 0 /\ a \in Nat /\ b \in Nat /\ \E h \in Nat : h > 0 /\ Base = 2 * h
  BY WordIsBelowBase, EvenBase
<1>2. CASE op \in {"add", "sub"}
  <2>1. \A x \in Int : Trunc(x) \in Word
    BY <1>1 DEF Trunc, Word
  <2>2. AddRes(op, a, b) = Trunc(a + b) \/ AddRes(op, a, b) = Trunc(a - b)
    BY <1>2, Adder
  <2>3. QED
    BY <1>1, <1>2, <2>1, <2>2 DEF Alu
<1>3. CASE op = "sll"
  <2>1. 2^Shamt(b) \in Nat
    BY ShamtRange, PowerPositive, XLENAssumption
  <2>2. a * 2^Shamt(b) \in Nat
    BY <1>1, <2>1
  <2>3. QED
    BY <1>3, <2>2, BitsOfTrunc DEF Alu
<1>4. CASE op \in {"srl", "sra"}
  BY <1>4, SrlIsReference, SraIsReference
<1>5. CASE op \in {"xor", "or", "and"}
  BY <1>5, FromBitsInWord DEF Alu, Xor, Or, And
<1>6. CASE op \in {"slt", "sltu"}
  <2>1. Alu("slt", a, b) = Flag(Slt(a, b)) /\ Alu("sltu", a, b) = Flag(Sltu(a, b))
    BY DEF Alu
  <2>2. Flag(Slt(a, b)) \in {0, 1} /\ Flag(Sltu(a, b)) \in {0, 1}
    BY DEF Flag
  <2>3. 0 \in Word /\ 1 \in Word
    BY <1>1 DEF Word
  <2>4. QED
    BY <1>6, <2>1, <2>2, <2>3
<1>7. QED
  BY <1>2, <1>3, <1>4, <1>5, <1>6 DEF AluOp

LEMMA BranchIsReference ==
    ASSUME NEW op \in BranchOp, NEW a \in Word, NEW b \in Word
    PROVE  BrTakenRaw(op, Alu(BranchAluOp(op), a, b)) = BranchRef(op, a, b)
<1>1. a \in Nat /\ b \in Nat /\ a < Base /\ b < Base /\ Base \in Nat
  BY WordIsBelowBase
<1>2. CASE op \in {"beq", "bne"}
  <2>1. Alu(BranchAluOp(op), a, b) = IF a >= b THEN a - b ELSE (a - b) + Base
    BY <1>2, Adder DEF Alu, BranchAluOp
  <2>2. QED
    BY <1>1, <1>2, <2>1 DEF BrTakenRaw, BranchRef
<1>3. CASE op \in {"blt", "bge"}
  <2>1. Alu(BranchAluOp(op), a, b) = Flag(Signed(a) < Signed(b))
    BY <1>3, Comparisons DEF Alu, BranchAluOp, Flag
  <2>2. Signed(a) \in Int /\ Signed(b) \in Int
    BY <1>1 DEF Signed
  <2>3. QED
    BY <1>3, <2>1, <2>2 DEF BrTakenRaw, BranchRef, Flag
<1>4. CASE op \in {"bltu", "bgeu"}
  <2>1. Alu(BranchAluOp(op), a, b) = Flag(a < b)
    BY <1>4, Comparisons DEF Alu, BranchAluOp, Flag
  <2>2. QED
    BY <1>1, <1>4, <2>1 DEF BrTakenRaw, BranchRef, Flag
<1>5. QED
  BY <1>2, <1>3, <1>4 DEF BranchOp

-----------------------------------------------------------------------------
(* The byte lanes: the address arithmetic of an access.                     *)
Size == {"word", "half", "byte"}

LEMMA LaneFacts ==
    /\ BPW \in {2, 4} /\ DBYTES \in Nat /\ DBYTES > 0 /\ BPW <= DBYTES
    /\ \A size \in Size : NBytes(size) \in 1 .. BPW
    /\ NBytes("byte") = 1 /\ NBytes("half") = BPW \div 2 /\ NBytes("word") = BPW
    /\ \A addr \in Word : /\ addr \in Nat /\ addr < Base /\ Bsel(addr) \in 0 .. BPW - 1
                          /\ Word0(addr) \in Nat /\ addr = Word0(addr) + Bsel(addr)
<1>1. BPW \in {2, 4} /\ DBYTES \in Nat /\ DBYTES > 0 /\ DBYTES % BPW = 0
  BY LsuAssumption
<1>2. BPW <= DBYTES
  BY <1>1
<1>3. NBytes("byte") = 1 /\ NBytes("half") = BPW \div 2 /\ NBytes("word") = BPW
  BY DEF NBytes
<1>4. \A size \in Size : NBytes(size) \in 1 .. BPW
  BY <1>1, <1>3 DEF Size
<1>5. ASSUME NEW addr \in Word
      PROVE  /\ addr \in Nat /\ addr < Base /\ Bsel(addr) \in 0 .. BPW - 1
             /\ Word0(addr) \in Nat /\ addr = Word0(addr) + Bsel(addr)
  BY <1>1, WordIsBelowBase DEF Bsel, Word0, AlignDown
<1>6. QED
  BY <1>1, <1>2, <1>3, <1>4, <1>5

\* Addresses less than a memory apart are different places in it.
LEMMA DistinctPlaces ==
    ASSUME NEW x \in Nat, NEW j \in 0 .. BPW - 1, NEW k \in 0 .. BPW - 1,
           (x + j) % DBYTES = (x + k) % DBYTES
    PROVE  j = k
<1>1. DBYTES \in Nat /\ DBYTES > 0 /\ BPW \in Nat /\ BPW <= DBYTES
  BY LaneFacts
<1> DEFINE p == (x + j) \div DBYTES
           q == (x + k) \div DBYTES
           r == (x + j) % DBYTES
<1>2. /\ x + j = (DBYTES * p) + r /\ p \in Nat /\ r \in Nat
      /\ x + k = (DBYTES * q) + r /\ q \in Nat
  BY <1>1, Division
<1> HIDE DEF p, q, r
<1>3. j - k = DBYTES * (p - q)
  BY <1>1, <1>2
<1>4. j - k < DBYTES /\ k - j < DBYTES
  BY <1>1
<1>5. p = q
  <2>1. p - q >= 1 => DBYTES * (p - q) >= DBYTES
    BY <1>1, <1>2
  <2>2. q - p >= 1 => DBYTES * (q - p) >= DBYTES
    BY <1>1, <1>2
  <2>3. DBYTES * (q - p) = k - j
    BY <1>1, <1>2
  <2>4. QED
    BY <1>1, <1>2, <1>3, <1>4, <2>1, <2>2, <2>3
<1>6. QED
  BY <1>2, <1>5

\* The second beat's address wraps at the end of the address space, the
\* memory's address at a divisor of it.
LEMMA SecondBeat ==
    ASSUME NEW addr \in Word, NEW j \in Nat
    PROVE  /\ BeatAddr(addr, TRUE) \in Nat
           /\ (BeatAddr(addr, TRUE) + j) % DBYTES = (Word0(addr) + BPW + j) % DBYTES
<1> DEFINE x == Word0(addr) + BPW
<1>1. x \in Nat /\ x < Base + BPW /\ BeatAddr(addr, TRUE) = x % Base
  <2>1. /\ Word0(addr) \in Nat /\ addr = Word0(addr) + Bsel(addr) /\ addr \in Nat /\ addr < Base
        /\ Bsel(addr) \in 0 .. BPW - 1 /\ BPW \in {2, 4}
    BY LaneFacts
  <2>2. BeatAddr(addr, TRUE) = x % Base
    BY DEF BeatAddr, Trunc
  <2>3. x \in Nat /\ x < Base + BPW
    BY <2>1, WordIsBelowBase
  <2>4. QED
    BY <2>2, <2>3
<1>2. DBYTES \in Nat /\ DBYTES > 0 /\ Base \in Nat /\ Base > 0 /\ Base % DBYTES = 0
  BY LsuAssumption, WordIsBelowBase
<1> DEFINE p == x \div Base
           q == Base \div DBYTES
           r == x % Base
<1>3. x = (Base * p) + r /\ p \in Nat /\ r \in Nat
  BY <1>1, <1>2, Division
<1>4. Base = DBYTES * q /\ q \in Nat
  BY <1>2, Division
<1> HIDE DEF x, p, q, r
<1>5. x + j = DBYTES * (q * p) + (r + j) /\ q * p \in Nat /\ r + j \in Nat
  BY <1>2, <1>3, <1>4
<1> DEFINE u == (r + j) \div DBYTES
           v == (r + j) % DBYTES
<1>6. r + j = (DBYTES * u) + v /\ u \in Nat /\ v \in Nat /\ v < DBYTES
  BY <1>2, <1>5, Division
<1> HIDE DEF u, v
<1>7. x + j = DBYTES * ((q * p) + u) + v /\ (q * p) + u \in Nat /\ x + j \in Nat
  BY <1>1, <1>2, <1>5, <1>6
<1>8. (x + j) % DBYTES = v
  BY <1>2, <1>6, <1>7, QuotientOf
<1>9. BeatAddr(addr, TRUE) = r
  BY <1>1 DEF r
<1>10. QED
  BY <1>3, <1>8, <1>9, LaneFacts DEF v, x

-----------------------------------------------------------------------------
(* A store, byte by byte.                                                   *)
Spans(m) == DOMAIN m = 0 .. DBYTES - 1

LEMMA StoreRefAt ==
    ASSUME NEW m, Spans(m), NEW size \in Size, NEW addr \in Word, NEW data
    PROVE  /\ Spans(StoreRef(m, size, addr, data))
           /\ \A k \in 0 .. NBytes(size) - 1 :
                 StoreRef(m, size, addr, data)[(addr + k) % DBYTES] = ByteOf(data, k)
           /\ \A x \in 0 .. DBYTES - 1 :
                 (\A k \in 0 .. NBytes(size) - 1 : x # (addr + k) % DBYTES)
                     => StoreRef(m, size, addr, data)[x] = m[x]
<1>1. addr \in Nat /\ NBytes(size) \in 1 .. BPW /\ BPW \in Nat /\ DBYTES \in Nat /\ DBYTES > 0
  BY LaneFacts
<1>2. ASSUME NEW k \in 0 .. NBytes(size) - 1
      PROVE  StoreRef(m, size, addr, data)[(addr + k) % DBYTES] = ByteOf(data, k)
  <2> DEFINE x == (addr + k) % DBYTES
             c == CHOOSE i \in 0 .. NBytes(size) - 1 : x = (addr + i) % DBYTES
  <2>1. x \in 0 .. DBYTES - 1
    BY <1>1
  <2>2. c \in 0 .. NBytes(size) - 1 /\ x = (addr + c) % DBYTES
    OBVIOUS
  <2>3. StoreRef(m, size, addr, data)[x] = ByteOf(data, c)
    BY <2>1, <2>2 DEF StoreRef, Spans
  <2> HIDE DEF c
  <2>4. c = k
    <3>1. c \in 0 .. BPW - 1 /\ k \in 0 .. BPW - 1 /\ (addr + c) % DBYTES = (addr + k) % DBYTES
      BY <1>1, <2>2
    <3>2. QED
      BY <1>1, <3>1, DistinctPlaces
  <2>5. QED
    BY <2>3, <2>4
<1>3. ASSUME NEW x \in 0 .. DBYTES - 1,
             \A k \in 0 .. NBytes(size) - 1 : x # (addr + k) % DBYTES
      PROVE  StoreRef(m, size, addr, data)[x] = m[x]
  BY <1>3 DEF StoreRef, Spans
<1>4. QED
  BY <1>2, <1>3 DEF StoreRef, Spans

\* n is m after the lanes of the word at w were written from wdata.
Written(n, m, w, lanes, wdata) ==
    /\ Spans(n)
    /\ \A j \in lanes : n[(w + j) % DBYTES] = wdata[j]
    /\ \A x \in 0 .. DBYTES - 1 : (\A j \in lanes : x # (w + j) % DBYTES) => n[x] = m[x]

LEMMA WriteBeatAt ==
    ASSUME NEW m, Spans(m), NEW w \in Nat,
           NEW lanes, \A j \in lanes : j \in Lane, NEW wdata
    PROVE  Written(WriteBeat(m, w, lanes, wdata), m, w, lanes, wdata)
<1>1. BPW \in Nat /\ DBYTES \in Nat /\ DBYTES > 0 /\ \A j \in lanes : j \in 0 .. BPW - 1
  BY LaneFacts DEF Lane
<1>2. ASSUME NEW j \in lanes
      PROVE  WriteBeat(m, w, lanes, wdata)[(w + j) % DBYTES] = wdata[j]
  <2> DEFINE x == (w + j) % DBYTES
             c == CHOOSE i \in lanes : x = (w + i) % DBYTES
  <2>1. x \in 0 .. DBYTES - 1
    BY <1>1
  <2>2. c \in lanes /\ x = (w + c) % DBYTES
    OBVIOUS
  <2>3. WriteBeat(m, w, lanes, wdata)[x] = wdata[c]
    BY <2>1, <2>2 DEF WriteBeat, Spans
  <2> HIDE DEF c
  <2>4. c = j
    <3>1. c \in 0 .. BPW - 1 /\ j \in 0 .. BPW - 1 /\ (w + c) % DBYTES = (w + j) % DBYTES
      BY <1>1, <2>2
    <3>2. QED
      BY <1>1, <3>1, DistinctPlaces
  <2>5. QED
    BY <2>3, <2>4
<1>3. ASSUME NEW x \in 0 .. DBYTES - 1, \A j \in lanes : x # (w + j) % DBYTES
      PROVE  WriteBeat(m, w, lanes, wdata)[x] = m[x]
  BY <1>3 DEF WriteBeat, Spans
<1>4. Spans(WriteBeat(m, w, lanes, wdata))
  BY DEF WriteBeat, Spans
<1>5. QED
  BY <1>2, <1>3, <1>4 DEF Written

StoreA(m, size, addr, data) ==
    WriteBeat(m, BeatAddr(addr, FALSE), Strobe(size, addr, FALSE), WData(data, addr, FALSE))
StoreB(m, size, addr, data) ==
    WriteBeat(m, BeatAddr(addr, TRUE), Strobe(size, addr, TRUE), WData(data, addr, TRUE))

\* The first beat writes the bytes of the access that lie in its word.
LEMMA StoreAAt ==
    ASSUME NEW m, Spans(m), NEW size \in Size, NEW addr \in Word, NEW data
    PROVE  /\ Spans(StoreA(m, size, addr, data))
           /\ \A k \in 0 .. NBytes(size) - 1 : Bsel(addr) + k < BPW =>
                 StoreA(m, size, addr, data)[(addr + k) % DBYTES] = ByteOf(data, k)
           /\ \A x \in 0 .. DBYTES - 1 :
                 (\A k \in 0 .. NBytes(size) - 1 : Bsel(addr) + k < BPW => x # (addr + k) % DBYTES)
                     => StoreA(m, size, addr, data)[x] = m[x]
<1> DEFINE b == Bsel(addr)
           w == Word0(addr)
           lanes == Strobe(size, addr, FALSE)
           d == WData(data, addr, FALSE)
<1>1. /\ w \in Nat /\ b \in 0 .. BPW - 1 /\ addr = w + b /\ addr \in Nat /\ BPW \in Nat
      /\ NBytes(size) \in 1 .. BPW /\ DBYTES \in Nat /\ DBYTES > 0
  BY LaneFacts
<1>2. lanes = {j \in Lane : b <= j /\ j < b + NBytes(size)} /\ BeatAddr(addr, FALSE) = w
  BY DEF Strobe, MemEnd, BeatAddr
<1>3. \A j \in Lane : j >= b => d[j] = ByteOf(data, j - b)
  BY DEF WData
<1>4. StoreA(m, size, addr, data) = WriteBeat(m, w, lanes, d)
  BY <1>2 DEF StoreA
<1> HIDE DEF b, w, lanes, d
<1>5. \A j \in lanes : j \in Lane
  BY <1>2
<1> DEFINE n == WriteBeat(m, w, lanes, d)
<1>6. /\ Spans(n)
      /\ \A j \in lanes : n[(w + j) % DBYTES] = d[j]
      /\ \A x \in 0 .. DBYTES - 1 : (\A j \in lanes : x # (w + j) % DBYTES) => n[x] = m[x]
  <2>1. w \in Nat
    BY <1>1
  <2>2. Written(n, m, w, lanes, d)
    BY <2>1, <1>5, WriteBeatAt
  <2>3. QED
    BY <2>2 DEF Written
<1>7. ASSUME NEW k \in 0 .. NBytes(size) - 1, b + k < BPW
      PROVE  StoreA(m, size, addr, data)[(addr + k) % DBYTES] = ByteOf(data, k)
  <2>1. b + k \in lanes /\ b + k \in Lane /\ w + (b + k) = addr + k /\ (b + k) - b = k /\ b + k >= b
    BY <1>1, <1>2, <1>7 DEF Lane
  <2>2. QED
    BY <1>3, <1>4, <1>6, <2>1
<1>8. ASSUME NEW x \in 0 .. DBYTES - 1,
             \A k \in 0 .. NBytes(size) - 1 : b + k < BPW => x # (addr + k) % DBYTES
      PROVE  StoreA(m, size, addr, data)[x] = m[x]
  <2>1. ASSUME NEW j \in lanes PROVE x # (w + j) % DBYTES
    <3>1. j - b \in 0 .. NBytes(size) - 1 /\ b + (j - b) < BPW /\ addr + (j - b) = w + j
      BY <1>1, <1>2 DEF Lane
    <3>2. QED
      BY <1>8, <3>1
  <2>2. QED
    BY <1>4, <1>6, <2>1
<1>9. QED
  BY <1>4, <1>6, <1>7, <1>8 DEF b

LEMMA StoreBAt ==
    ASSUME NEW m, Spans(m), NEW size \in Size, NEW addr \in Word, NEW data
    PROVE  /\ Spans(StoreB(m, size, addr, data))
           /\ \A k \in 0 .. NBytes(size) - 1 : Bsel(addr) + k >= BPW =>
                 StoreB(m, size, addr, data)[(addr + k) % DBYTES] = ByteOf(data, k)
           /\ \A x \in 0 .. DBYTES - 1 :
                 (\A k \in 0 .. NBytes(size) - 1 : Bsel(addr) + k >= BPW => x # (addr + k) % DBYTES)
                     => StoreB(m, size, addr, data)[x] = m[x]
<1> DEFINE b == Bsel(addr)
           w == BeatAddr(addr, TRUE)
           lanes == Strobe(size, addr, TRUE)
           d == WData(data, addr, TRUE)
<1>1. /\ Word0(addr) \in Nat /\ b \in 0 .. BPW - 1 /\ addr = Word0(addr) + b /\ addr \in Nat
      /\ BPW \in Nat /\ NBytes(size) \in 1 .. BPW /\ DBYTES \in Nat /\ DBYTES > 0
  BY LaneFacts
<1>2. lanes = {j \in Lane : j < (b + NBytes(size)) - BPW}
  BY DEF Strobe, MemEnd
<1>3. \A j \in Lane : d[j] = ByteOf(data, j + (BPW - b))
  BY DEF WData
<1>3a. \A j \in Nat : w \in Nat /\ (w + j) % DBYTES = (Word0(addr) + BPW + j) % DBYTES
  BY SecondBeat
<1>4. StoreB(m, size, addr, data) = WriteBeat(m, w, lanes, d)
  BY DEF StoreB
<1> HIDE DEF b, w, lanes, d
<1>5. \A j \in lanes : j \in Lane
  BY <1>2
<1> DEFINE n == WriteBeat(m, w, lanes, d)
<1>6. /\ Spans(n)
      /\ \A j \in lanes : n[(w + j) % DBYTES] = d[j]
      /\ \A x \in 0 .. DBYTES - 1 : (\A j \in lanes : x # (w + j) % DBYTES) => n[x] = m[x]
  <2>1. w \in Nat
    BY <1>3a
  <2>2. Written(n, m, w, lanes, d)
    BY <2>1, <1>5, WriteBeatAt
  <2>3. QED
    BY <2>2 DEF Written
<1>7. ASSUME NEW k \in 0 .. NBytes(size) - 1, b + k >= BPW
      PROVE  StoreB(m, size, addr, data)[(addr + k) % DBYTES] = ByteOf(data, k)
  <2> DEFINE j == (b + k) - BPW
  <2>1. /\ j \in lanes /\ j \in Lane /\ j \in Nat /\ Word0(addr) + BPW + j = addr + k
        /\ j + (BPW - b) = k
    BY <1>1, <1>2, <1>7 DEF Lane
  <2>2. (w + j) % DBYTES = (addr + k) % DBYTES
    BY <1>3a, <2>1
  <2>3. d[j] = ByteOf(data, k)
    BY <1>3, <2>1
  <2> HIDE DEF j
  <2>4. QED
    BY <1>4, <1>6, <2>1, <2>2, <2>3
<1>8. ASSUME NEW x \in 0 .. DBYTES - 1,
             \A k \in 0 .. NBytes(size) - 1 : b + k >= BPW => x # (addr + k) % DBYTES
      PROVE  StoreB(m, size, addr, data)[x] = m[x]
  <2>1. ASSUME NEW j \in lanes PROVE x # (w + j) % DBYTES
    <3> DEFINE k == j + (BPW - b)
    <3>1. /\ k \in 0 .. NBytes(size) - 1 /\ b + k >= BPW /\ addr + k = Word0(addr) + BPW + j
          /\ j \in Nat
      BY <1>1, <1>2 DEF Lane
    <3>2. (w + j) % DBYTES = (addr + k) % DBYTES
      BY <1>3a, <3>1
    <3> HIDE DEF k
    <3>3. QED
      BY <1>8, <3>1, <3>2
  <2>2. QED
    BY <1>4, <1>6, <2>1
<1>9. QED
  BY <1>4, <1>6, <1>7, <1>8 DEF b

\* An access that needs no second word lies in the first.
LEMMA OneWord ==
    ASSUME NEW size \in Size, NEW addr \in Word, ~NeedXword(size, addr)
    PROVE  Bsel(addr) + NBytes(size) <= BPW
BY LaneFacts DEF NeedXword, Size

LEMMA SameFunction ==
    ASSUME NEW m, NEW n, Spans(m), Spans(n),
           m = [x \in DOMAIN m |-> m[x]], n = [x \in DOMAIN n |-> n[x]],
           \A x \in 0 .. DBYTES - 1 : m[x] = n[x]
    PROVE  m = n
<1>1. [x \in DOMAIN m |-> m[x]] = [x \in DOMAIN n |-> n[x]]
  BY DEF Spans
<1>2. QED
  BY <1>1

LEMMA StoreInOneBeat ==
    ASSUME NEW m, Spans(m), NEW size \in Size, NEW addr \in Word, NEW data,
           ~NeedXword(size, addr)
    PROVE  StoreA(m, size, addr, data) = StoreRef(m, size, addr, data)
<1> DEFINE A == StoreA(m, size, addr, data)
           R == StoreRef(m, size, addr, data)
<1>1. Bsel(addr) + NBytes(size) <= BPW
  BY OneWord
<1>2. \A k \in 0 .. NBytes(size) - 1 : Bsel(addr) + k < BPW
  BY <1>1, LaneFacts
<1>3. /\ Spans(A) /\ Spans(R)
      /\ A = [x \in DOMAIN A |-> A[x]] /\ R = [x \in DOMAIN R |-> R[x]]
  <2>1. Spans(A) /\ Spans(R)
    BY StoreAAt, StoreRefAt
  <2>2. A = [x \in DOMAIN A |-> A[x]] /\ R = [x \in DOMAIN R |-> R[x]]
    BY DEF StoreA, WriteBeat, StoreRef
  <2>3. QED
    BY <2>1, <2>2
<1>4. ASSUME NEW x \in 0 .. DBYTES - 1 PROVE A[x] = R[x]
  <2>1. CASE \E k \in 0 .. NBytes(size) - 1 : x = (addr + k) % DBYTES
    BY <1>2, <2>1, StoreAAt, StoreRefAt
  <2>2. CASE \A k \in 0 .. NBytes(size) - 1 : x # (addr + k) % DBYTES
    BY <2>2, StoreAAt, StoreRefAt
  <2>3. QED
    BY <2>1, <2>2
<1> HIDE DEF A, R
<1>5. QED
  BY <1>3, <1>4, SameFunction DEF A, R

LEMMA StoreInTwoBeats ==
    ASSUME NEW m, Spans(m), NEW size \in Size, NEW addr \in Word, NEW data
    PROVE  /\ StoreB(StoreA(m, size, addr, data), size, addr, data)
                  = StoreRef(m, size, addr, data)
           /\ StoreRef(StoreA(m, size, addr, data), size, addr, data)
                  = StoreRef(m, size, addr, data)
<1> DEFINE A == StoreA(m, size, addr, data)
           B == StoreB(A, size, addr, data)
           R == StoreRef(m, size, addr, data)
           Q == StoreRef(A, size, addr, data)
           At(x, k) == x = (addr + k) % DBYTES
<1>0. Bsel(addr) \in Int /\ BPW \in Int /\ \A k \in 0 .. NBytes(size) - 1 : k \in Int
  BY LaneFacts
<1>1. /\ Spans(A)
      /\ \A k \in 0 .. NBytes(size) - 1 : Bsel(addr) + k < BPW =>
            A[(addr + k) % DBYTES] = ByteOf(data, k)
      /\ \A x \in 0 .. DBYTES - 1 :
            (\A k \in 0 .. NBytes(size) - 1 : Bsel(addr) + k < BPW => ~At(x, k)) => A[x] = m[x]
  BY StoreAAt
<1> HIDE DEF A
<1>2. /\ Spans(B)
      /\ \A k \in 0 .. NBytes(size) - 1 : Bsel(addr) + k >= BPW =>
            B[(addr + k) % DBYTES] = ByteOf(data, k)
      /\ \A x \in 0 .. DBYTES - 1 :
            (\A k \in 0 .. NBytes(size) - 1 : Bsel(addr) + k >= BPW => ~At(x, k)) => B[x] = A[x]
  BY <1>1, StoreBAt
<1>3. /\ Spans(R)
      /\ \A k \in 0 .. NBytes(size) - 1 : R[(addr + k) % DBYTES] = ByteOf(data, k)
      /\ \A x \in 0 .. DBYTES - 1 :
            (\A k \in 0 .. NBytes(size) - 1 : ~At(x, k)) => R[x] = m[x]
  BY StoreRefAt
<1>4. /\ Spans(Q)
      /\ \A k \in 0 .. NBytes(size) - 1 : Q[(addr + k) % DBYTES] = ByteOf(data, k)
      /\ \A x \in 0 .. DBYTES - 1 :
            (\A k \in 0 .. NBytes(size) - 1 : ~At(x, k)) => Q[x] = A[x]
  BY <1>1, StoreRefAt
<1>5. /\ B = [x \in DOMAIN B |-> B[x]] /\ R = [x \in DOMAIN R |-> R[x]]
      /\ Q = [x \in DOMAIN Q |-> Q[x]]
  BY <1>2, <1>3, <1>4, <1>1 DEF StoreB, WriteBeat, StoreRef
<1> HIDE DEF B, R, Q
<1>6. ASSUME NEW x \in 0 .. DBYTES - 1 PROVE B[x] = R[x] /\ Q[x] = R[x]
  <2>1. ASSUME NEW k \in 0 .. NBytes(size) - 1, At(x, k) PROVE B[x] = R[x] /\ Q[x] = R[x]
    <3>1. R[x] = ByteOf(data, k) /\ Q[x] = ByteOf(data, k)
      BY <2>1, <1>3, <1>4
    <3>2. CASE Bsel(addr) + k >= BPW
      BY <2>1, <3>1, <3>2, <1>2
    <3>3. CASE Bsel(addr) + k < BPW
      <4>1. A[x] = ByteOf(data, k)
        BY <2>1, <3>3, <1>1
      <4>2. CASE \E i \in 0 .. NBytes(size) - 1 : Bsel(addr) + i >= BPW /\ At(x, i)
        <5>1. PICK i \in 0 .. NBytes(size) - 1 : Bsel(addr) + i >= BPW /\ At(x, i)
          BY <4>2
        <5>2. B[x] = ByteOf(data, i) /\ R[x] = ByteOf(data, i)
          BY <5>1, <1>2, <1>3
        <5>3. QED
          BY <3>1, <5>2
      <4>3. CASE \A i \in 0 .. NBytes(size) - 1 : Bsel(addr) + i >= BPW => ~At(x, i)
        <5>1. B[x] = A[x]
          BY <4>3, <1>2
        <5>2. QED
          BY <3>1, <4>1, <5>1
      <4>4. QED
        BY <4>2, <4>3
    <3>4. QED
      BY <1>0, <3>2, <3>3
  <2>2. CASE \A k \in 0 .. NBytes(size) - 1 : ~At(x, k)
    BY <2>2, <1>1, <1>2, <1>3, <1>4
  <2>3. QED
    BY <2>1, <2>2
<1>7. B = R
  BY <1>2, <1>3, <1>5, <1>6, SameFunction
<1>8. Q = R
  BY <1>3, <1>4, <1>5, <1>6, SameFunction
<1>9. QED
  BY <1>7, <1>8 DEF B, R, Q, A

(* A load, in one beat or in two. *)
LEMMA LoadInOneBeat ==
    ASSUME NEW m, NEW size \in Size, NEW uns, NEW addr \in Word, NEW first,
           ~NeedXword(size, addr)
    PROVE  LoadData(size, uns, addr, FALSE, first, ReadBeat(m, BeatAddr(addr, FALSE)))
               = LoadRef(m, size, uns, addr)
<1> DEFINE b == Bsel(addr)
           w == Word0(addr)
           r == ReadBeat(m, w)
           N == NBytes(size)
           r64 == [j \in 0 .. 2 * BPW - 1 |-> IF j < BPW THEN r[j] ELSE 0]
           bytes == [k \in 0 .. N - 1 |-> r64[b + k]]
           ref == [k \in 0 .. N - 1 |-> m[(addr + k) % DBYTES]]
<1>1. /\ w \in Nat /\ b \in 0 .. BPW - 1 /\ addr = w + b /\ BPW \in Nat
      /\ N \in 1 .. BPW /\ b + N <= BPW
  BY LaneFacts, OneWord
<1>2. BeatAddr(addr, FALSE) = w
  BY DEF BeatAddr
<1>3. \A j \in Lane : r[j] = m[(w + j) % DBYTES]
  BY DEF ReadBeat
<1> HIDE DEF b, w, r, N
<1>4. ASSUME NEW k \in 0 .. N - 1 PROVE r64[b + k] = m[(addr + k) % DBYTES]
  <2>1. b + k \in 0 .. 2 * BPW - 1 /\ b + k < BPW /\ b + k \in Lane /\ w + (b + k) = addr + k
    BY <1>1 DEF Lane
  <2>2. QED
    BY <1>3, <2>1
<1>5. bytes = ref
  BY <1>4
<1>6. LoadData(size, uns, addr, FALSE, first, r)
          = LET raw == FromBytes(bytes, N)
            IN  IF size # "word" /\ ~uns /\ 2 * raw >= BYTE^N THEN Trunc(raw - BYTE^N) ELSE raw
  BY DEF LoadData, b, N
<1>7. LoadRef(m, size, uns, addr)
          = LET raw == FromBytes(ref, N)
            IN  IF size # "word" /\ ~uns /\ 2 * raw >= BYTE^N THEN Trunc(raw - BYTE^N) ELSE raw
  BY DEF LoadRef, N
<1> HIDE DEF bytes, ref
<1>8. QED
  BY <1>2, <1>5, <1>6, <1>7 DEF r

LEMMA LoadInTwoBeats ==
    ASSUME NEW m, NEW size \in Size, NEW uns, NEW addr \in Word
    PROVE  LoadData(size, uns, addr, TRUE, ReadBeat(m, BeatAddr(addr, FALSE)),
                                           ReadBeat(m, BeatAddr(addr, TRUE)))
               = LoadRef(m, size, uns, addr)
<1> DEFINE b == Bsel(addr)
           w == Word0(addr)
           v == BeatAddr(addr, TRUE)
           r == ReadBeat(m, w)
           s == ReadBeat(m, v)
           N == NBytes(size)
           r64 == [j \in 0 .. 2 * BPW - 1 |-> IF j < BPW THEN r[j] ELSE s[j - BPW]]
           bytes == [k \in 0 .. N - 1 |-> r64[b + k]]
           ref == [k \in 0 .. N - 1 |-> m[(addr + k) % DBYTES]]
<1>1. /\ w \in Nat /\ b \in 0 .. BPW - 1 /\ addr = w + b /\ BPW \in Nat /\ N \in 1 .. BPW
  BY LaneFacts
<1>2. BeatAddr(addr, FALSE) = w
  BY DEF BeatAddr
<1>3. /\ \A j \in Lane : r[j] = m[(w + j) % DBYTES]
      /\ \A j \in Lane : s[j] = m[(v + j) % DBYTES]
      /\ \A j \in Nat : (v + j) % DBYTES = (w + BPW + j) % DBYTES
  BY SecondBeat DEF ReadBeat
<1> HIDE DEF b, w, v, r, s, N
<1>4. ASSUME NEW k \in 0 .. N - 1 PROVE r64[b + k] = m[(addr + k) % DBYTES]
  <2>1. CASE b + k < BPW
    <3>1. b + k \in 0 .. 2 * BPW - 1 /\ b + k \in Lane /\ w + (b + k) = addr + k
      BY <1>1, <2>1 DEF Lane
    <3>2. QED
      BY <1>3, <2>1, <3>1
  <2>2. CASE b + k >= BPW
    <3> DEFINE j == (b + k) - BPW
    <3>1. /\ b + k \in 0 .. 2 * BPW - 1 /\ ~(b + k < BPW) /\ j \in Lane /\ j \in Nat
          /\ w + BPW + j = addr + k
      BY <1>1, <2>2 DEF Lane
    <3>2. (v + j) % DBYTES = (addr + k) % DBYTES
      BY <1>3, <3>1
    <3>3. r64[b + k] = s[j]
      BY <3>1
    <3> HIDE DEF j, r64
    <3>4. QED
      BY <1>3, <3>1, <3>2, <3>3
  <2>3. QED
    BY <1>1, <2>1, <2>2
<1>5. bytes = ref
  BY <1>4
<1>6. LoadData(size, uns, addr, TRUE, r, s)
          = LET raw == FromBytes(bytes, N)
            IN  IF size # "word" /\ ~uns /\ 2 * raw >= BYTE^N THEN Trunc(raw - BYTE^N) ELSE raw
  BY DEF LoadData, b, N
<1>7. LoadRef(m, size, uns, addr)
          = LET raw == FromBytes(ref, N)
            IN  IF size # "word" /\ ~uns /\ 2 * raw >= BYTE^N THEN Trunc(raw - BYTE^N) ELSE raw
  BY DEF LoadRef, N
<1> HIDE DEF bytes, ref
<1>8. QED
  BY <1>2, <1>5, <1>6, <1>7 DEF r, s, v
=============================================================================
