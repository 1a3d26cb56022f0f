---- MODULE CoreMarkProofs ----
(***************************************************************************)
(* What CoreMark leaves as it found it, for every set of inputs: the       *)
(* blocks of its memory stay apart, no node of the list is ever lost, and  *)
(* the list, the matrices and the text end as they were before they were   *)
(* timed.                                                                  *)
(*                                                                         *)
(* The inductive invariant is about the heap of list nodes.  At every turn *)
(* of every loop of core_list_join.c the nodes form the chains the loop    *)
(* holds in its pointers (list and removed node; the reversed and the      *)
(* unreversed part; the merged part, the two runs and the rest of the      *)
(* sort), written down as one order of all the nodes in which each chain   *)
(* is a stretch.  When a sort returns, the values it compared stand in     *)
(* order along that stretch; the sort by idx so gives back the order of    *)
(* the start, whatever the finds and the sort by data did before.          *)
(*                                                                         *)
(* The invariant also carries the items that the current reversal or sort  *)
(* started with, and so every loop that ends is a step of ListSpec.tla.    *)
(*                                                                         *)
(* Where a result needs something of the seeds, it is a named hypothesis   *)
(* about Inputs in CoreMarkProperties, and TLC evaluates it on the inputs  *)
(* of its run (MCInputsSuffice); those core_main.c knows satisfy all.      *)
(***************************************************************************)
EXTENDS CoreMarkProperties, FiniteSetTheorems, WellFoundedInduction, TLAPS
\* Bit i of a number, of which the byte operations are made.
Place(x, i) == Field(x, i, 1)

LEMMA PlaceIsBit == ASSUME NEW x \in Int, NEW i \in 0 .. 7 PROVE Place(x, i) \in {0, 1}
BY DEF Place, Field

LEMMA ByteOfPlaces ==
    ASSUME NEW b \in 0 .. 255
    PROVE  b = Place(b, 0) + 2 * Place(b, 1) + 4 * Place(b, 2) + 8 * Place(b, 3)
               + 16 * Place(b, 4) + 32 * Place(b, 5) + 64 * Place(b, 6) + 128 * Place(b, 7)
BY DEF Place, Field

LEMMA XorByteIs ==
    ASSUME NEW x \in Int, NEW y \in Int
    PROVE  LET d(i) == (Place(x, i) + Place(y, i)) % 2
           IN  XorByte(x, y) = d(0) + 2 * d(1) + 4 * d(2) + 8 * d(3)
                               + 16 * d(4) + 32 * d(5) + 64 * d(6) + 128 * d(7)
<1> DEFINE d(i) == (Place(x, i) + Place(y, i)) % 2
           Def(f) == f = [i \in 0 .. 8 |->
                             IF i = 0 THEN 0 ELSE f[i - 1] + 2^(i - 1) * d(i - 1)]
           sum == CHOOSE f : Def(f)
           s1 == 0 + 2^0 * d(0)
           s2 == s1 + 2^1 * d(1)
           s3 == s2 + 2^2 * d(2)
           s4 == s3 + 2^3 * d(3)
           s5 == s4 + 2^4 * d(4)
           s6 == s5 + 2^5 * d(5)
           s7 == s6 + 2^6 * d(6)
           s8 == s7 + 2^7 * d(7)
           g == [i \in 0 .. 8 |-> CASE i = 0 -> 0 [] i = 1 -> s1 [] i = 2 -> s2 [] i = 3 -> s3
                                    [] i = 4 -> s4 [] i = 5 -> s5 [] i = 6 -> s6 [] i = 7 -> s7
                                    [] i = 8 -> s8]
<1>1. XorByte(x, y) = sum[8]
  BY DEF XorByte, PerBit, Place
<1>2. \A i \in 0 .. 7 : d(i) \in {0, 1}
  BY PlaceIsBit
<1> HIDE DEF d
<1>3. Def(g)
  OBVIOUS
<1>4. Def(sum)
  BY <1>3
<1> HIDE DEF sum
<1>5. sum[8] = s8
  BY <1>4
<1>6. s8 = d(0) + 2 * d(1) + 4 * d(2) + 8 * d(3) + 16 * d(4) + 32 * d(5) + 64 * d(6) + 128 * d(7)
  BY <1>2
<1>7. QED
  BY <1>1, <1>5, <1>6 DEF d

LEMMA PlacesOfSum ==
    ASSUME NEW b0 \in {0, 1}, NEW b1 \in {0, 1}, NEW b2 \in {0, 1}, NEW b3 \in {0, 1},
           NEW b4 \in {0, 1}, NEW b5 \in {0, 1}, NEW b6 \in {0, 1}, NEW b7 \in {0, 1},
           NEW x, x = b0 + 2 * b1 + 4 * b2 + 8 * b3 + 16 * b4 + 32 * b5 + 64 * b6 + 128 * b7
    PROVE  /\ x \in 0 .. 255
           /\ Place(x, 0) = b0 /\ Place(x, 1) = b1 /\ Place(x, 2) = b2 /\ Place(x, 3) = b3
           /\ Place(x, 4) = b4 /\ Place(x, 5) = b5 /\ Place(x, 6) = b6 /\ Place(x, 7) = b7
BY DEF Place, Field

LEMMA XorPlaces ==
    ASSUME NEW x \in Int, NEW y \in Int
    PROVE  /\ XorByte(x, y) \in 0 .. 255
           /\ \A i \in 0 .. 7 : Place(XorByte(x, y), i) = (Place(x, i) + Place(y, i)) % 2
<1> DEFINE d(i) == (Place(x, i) + Place(y, i)) % 2
<1>1. \A i \in 0 .. 7 : d(i) \in {0, 1}
  BY PlaceIsBit
<1>2. XorByte(x, y) = d(0) + 2 * d(1) + 4 * d(2) + 8 * d(3)
                      + 16 * d(4) + 32 * d(5) + 64 * d(6) + 128 * d(7)
  BY XorByteIs
<1> HIDE DEF d
<1>3. /\ XorByte(x, y) \in 0 .. 255
      /\ LET e == XorByte(x, y)
         IN /\ Place(e, 0) = d(0) /\ Place(e, 1) = d(1) /\ Place(e, 2) = d(2) /\ Place(e, 3) = d(3)
            /\ Place(e, 4) = d(4) /\ Place(e, 5) = d(5) /\ Place(e, 6) = d(6) /\ Place(e, 7) = d(7)
  BY <1>1, <1>2, PlacesOfSum
<1>4. \A i \in 0 .. 7 : Place(XorByte(x, y), i) = d(i)
  BY <1>3
<1>5. QED
  BY <1>3, <1>4 DEF d

\* What is flipped twice is what it was.
LEMMA XorTwice ==
    ASSUME NEW x \in 0 .. 255, NEW y \in Int
    PROVE  XorByte(XorByte(x, y), y) = x
<1> DEFINE e == XorByte(x, y)
           f == XorByte(e, y)
<1>1. e \in 0 .. 255 /\ \A i \in 0 .. 7 : Place(e, i) = (Place(x, i) + Place(y, i)) % 2
  BY XorPlaces
<1> HIDE DEF e
<1>2. f \in 0 .. 255 /\ \A i \in 0 .. 7 : Place(f, i) = (Place(e, i) + Place(y, i)) % 2
  BY <1>1, XorPlaces
<1> HIDE DEF f
<1>3. ASSUME NEW i \in 0 .. 7 PROVE Place(f, i) = Place(x, i)
  <2>1. Place(x, i) \in {0, 1} /\ Place(y, i) \in {0, 1}
    BY PlaceIsBit
  <2>2. \A a, b \in {0, 1} : (((a + b) % 2) + b) % 2 = a
    OBVIOUS
  <2>3. QED
    BY <1>1, <1>2, <2>1, <2>2
<1>4. /\ Place(f, 0) = Place(x, 0) /\ Place(f, 1) = Place(x, 1) /\ Place(f, 2) = Place(x, 2)
      /\ Place(f, 3) = Place(x, 3) /\ Place(f, 4) = Place(x, 4) /\ Place(f, 5) = Place(x, 5)
      /\ Place(f, 6) = Place(x, 6) /\ Place(f, 7) = Place(x, 7)
  BY <1>3
<1>5. f = Place(f, 0) + 2 * Place(f, 1) + 4 * Place(f, 2) + 8 * Place(f, 3)
          + 16 * Place(f, 4) + 32 * Place(f, 5) + 64 * Place(f, 6) + 128 * Place(f, 7)
  BY <1>2, ByteOfPlaces
<1>6. x = Place(x, 0) + 2 * Place(x, 1) + 4 * Place(x, 2) + 8 * Place(x, 3)
          + 16 * Place(x, 4) + 32 * Place(x, 5) + 64 * Place(x, 6) + 128 * Place(x, 7)
  BY ByteOfPlaces
<1>7. f = x
  BY <1>4, <1>5, <1>6
<1>8. QED
  BY <1>7 DEF e, f

\* A byte is changed by a byte that is not zero, and only into what changes back.
LEMMA XorZero ==
    ASSUME NEW y \in 0 .. 255 PROVE XorByte(0, y) = y
<1>1. XorByte(0, y) \in 0 .. 255 /\ \A i \in 0 .. 7 : Place(XorByte(0, y), i) = (Place(0, i) + Place(y, i)) % 2
  BY XorPlaces
<1>2. ASSUME NEW i \in 0 .. 7 PROVE Place(XorByte(0, y), i) = Place(y, i)
  <2>1. Place(0, i) = 0
    <3>1. \/ i = 0 \/ i = 1 \/ i = 2 \/ i = 3 \/ i = 4 \/ i = 5 \/ i = 6 \/ i = 7
      OBVIOUS
    <3>2. /\ Place(0, 0) = 0 /\ Place(0, 1) = 0 /\ Place(0, 2) = 0 /\ Place(0, 3) = 0
          /\ Place(0, 4) = 0 /\ Place(0, 5) = 0 /\ Place(0, 6) = 0 /\ Place(0, 7) = 0
      BY DEF Place, Field
    <3>3. QED
      BY <3>1, <3>2
  <2>2. Place(y, i) \in {0, 1}
    BY PlaceIsBit
  <2>3. QED
    BY <1>1, <2>1, <2>2
<1> DEFINE f == XorByte(0, y)
<1>4. /\ Place(f, 0) = Place(y, 0) /\ Place(f, 1) = Place(y, 1) /\ Place(f, 2) = Place(y, 2)
      /\ Place(f, 3) = Place(y, 3) /\ Place(f, 4) = Place(y, 4) /\ Place(f, 5) = Place(y, 5)
      /\ Place(f, 6) = Place(y, 6) /\ Place(f, 7) = Place(y, 7)
  BY <1>2
<1> HIDE DEF f
<1>5. f = Place(f, 0) + 2 * Place(f, 1) + 4 * Place(f, 2) + 8 * Place(f, 3)
          + 16 * Place(f, 4) + 32 * Place(f, 5) + 64 * Place(f, 6) + 128 * Place(f, 7)
  BY <1>1, ByteOfPlaces DEF f
<1>6. y = Place(y, 0) + 2 * Place(y, 1) + 4 * Place(y, 2) + 8 * Place(y, 3)
          + 16 * Place(y, 4) + 32 * Place(y, 5) + 64 * Place(y, 6) + 128 * Place(y, 7)
  BY ByteOfPlaces
<1>7. QED
  BY <1>4, <1>5, <1>6 DEF f

LEMMA OrByteType == ASSUME NEW x \in Int, NEW y \in Int PROVE OrByte(x, y) \in Nat
<1> DEFINE d(i) == IF Field(x, i, 1) + Field(y, i, 1) > 0 THEN 1 ELSE 0
           Def(f) == f = [i \in 0 .. 8 |->
                             IF i = 0 THEN 0 ELSE f[i - 1] + 2^(i - 1) * d(i - 1)]
           sum == CHOOSE f : Def(f)
           s1 == 0 + 2^0 * d(0)
           s2 == s1 + 2^1 * d(1)
           s3 == s2 + 2^2 * d(2)
           s4 == s3 + 2^3 * d(3)
           s5 == s4 + 2^4 * d(4)
           s6 == s5 + 2^5 * d(5)
           s7 == s6 + 2^6 * d(6)
           s8 == s7 + 2^7 * d(7)
           g == [i \in 0 .. 8 |-> CASE i = 0 -> 0 [] i = 1 -> s1 [] i = 2 -> s2 [] i = 3 -> s3
                                    [] i = 4 -> s4 [] i = 5 -> s5 [] i = 6 -> s6 [] i = 7 -> s7
                                    [] i = 8 -> s8]
<1>1. OrByte(x, y) = sum[8]
  BY DEF OrByte, PerBit
<1>2. \A i \in 0 .. 7 : d(i) \in {0, 1}
  OBVIOUS
<1> HIDE DEF d
<1>3. Def(g)
  OBVIOUS
<1>4. Def(sum)
  BY <1>3
<1> HIDE DEF sum
<1>5. sum[8] = s8
  BY <1>4
<1>6. QED
  BY <1>1, <1>2, <1>5

-----------------------------------------------------------------------------
(* Induction over the naturals, for a set in place of a predicate.          *)
LEMMA LessThan == \A x, y \in Nat : <<x, y>> \in OpToRel(<, Nat) <=> x < y
BY DEF OpToRel

LEMMA StrongInduction ==
    ASSUME NEW S, \A n \in Nat : (\A m \in Nat : m < n => m \in S) => n \in S
    PROVE  Nat \subseteq S
<1> DEFINE T == Nat \ S
           R == OpToRel(<, Nat)
<1>1. SUFFICES ASSUME T # {} PROVE FALSE
  OBVIOUS
<1>2. IsWellFoundedOn(R, Nat) /\ T \subseteq Nat
  BY NatLessThanWellFounded
<1>3. \A x, y \in Nat : <<x, y>> \in R <=> x < y
  BY LessThan
<1> HIDE DEF T, R
<1>4. PICK x \in T : \A y \in T : ~ (<<y, x>> \in R)
  BY <1>1, <1>2, WFMin
<1>5. \A m \in Nat : m < x => m \in S
  BY <1>2, <1>3, <1>4 DEF T
<1>6. QED
  BY <1>2, <1>4, <1>5 DEF T

LEMMA Induction ==
    ASSUME NEW S, 0 \in S, \A n \in Nat : n \in S => n + 1 \in S
    PROVE  Nat \subseteq S
<1>1. ASSUME NEW n \in Nat, \A m \in Nat : m < n => m \in S PROVE n \in S
  <2>1. CASE n = 0
    BY <2>1
  <2>2. CASE n > 0
    <3>1. n - 1 \in Nat /\ n - 1 < n /\ (n - 1) + 1 = n
      BY <2>2
    <3>2. QED
      BY <1>1, <3>1
  <2>3. QED
    BY <2>1, <2>2
<1>2. QED
  BY <1>1, StrongInduction

LEMMA Least ==
    ASSUME NEW S, S \subseteq Nat, S # {}
    PROVE  \E x \in S : \A y \in S : x <= y
<1> DEFINE R == OpToRel(<, Nat)
<1>1. \A x, y \in Nat : <<x, y>> \in R <=> x < y
  BY LessThan
<1>2. IsWellFoundedOn(R, Nat)
  BY NatLessThanWellFounded
<1> HIDE DEF R
<1>3. PICK x \in S : \A y \in S : ~ (<<y, x>> \in R)
  BY <1>2, WFMin
<1>4. ASSUME NEW y \in S PROVE x <= y
  <2>1. x \in Nat /\ y \in Nat /\ ~ (<<y, x>> \in R)
    BY <1>3
  <2>2. ~ (y < x)
    BY <1>1, <2>1
  <2>3. QED
    BY <2>1, <2>2
<1>5. QED
  BY <1>4

-----------------------------------------------------------------------------
(* The CRC is a 16-bit number, whatever goes into it.                       *)

LEMMA Word16Is == ASSUME NEW x \in Word16 PROVE x \in Int /\ 0 <= x /\ x <= 65535
BY DEF Word16
LEMMA InRange == ASSUME NEW a \in Int, NEW b \in Int, NEW x \in Int, a <= x, x <= b PROVE x \in a .. b
OBVIOUS
LEMMA InWord16 == ASSUME NEW x \in Int, 0 <= x, x <= 65535 PROVE x \in Word16
<1> DEFINE top == 65535
<1>1. Word16 = 0 .. top
  BY DEF Word16
<1>2. top \in Int /\ x <= top
  OBVIOUS
<1> HIDE DEF top
<1>3. x \in 0 .. top
  BY <1>2, InRange
<1>4. QED
  BY <1>1, <1>3

LEMMA FlipBitType ==
    ASSUME NEW c \in Word16, NEW i \in {1, 14} PROVE FlipBit(c, i) \in Word16
<1>1. 2^1 = 2 /\ 2^14 = 16384
  OBVIOUS
<1>2. CASE i = 1
  <2>1. FlipBit(c, i) = IF (c \div 2) % 2 = 1 THEN c - 2 ELSE c + 2
    BY <1>1, <1>2 DEF FlipBit, Field
  <2>2. c \in Int /\ 0 <= c /\ c <= 65535
    BY Word16Is
  <2>3. PICK q : q = c \div 2
    OBVIOUS
  <2>4. q \in Int /\ 2 * q <= c /\ c < 2 * q + 2
    BY <2>2, <2>3
  <2>5. CASE q % 2 = 1
    <3>1. q >= 1
      BY <2>2, <2>4, <2>5
    <3>2. c - 2 \in Int /\ 0 <= c - 2 /\ c - 2 <= 65535
      BY <2>2, <2>4, <3>1
    <3>3. QED
      BY <2>1, <2>3, <2>5, <3>2, InWord16
  <2>6. CASE q % 2 # 1
    <3>1. q <= 32766
      BY <2>2, <2>4, <2>6
    <3>2. c + 2 \in Int /\ 0 <= c + 2 /\ c + 2 <= 65535
      BY <2>2, <2>4, <3>1
    <3>3. QED
      BY <2>1, <2>3, <2>6, <3>2, InWord16
  <2>7. QED
    BY <2>3, <2>5, <2>6
<1>3. CASE i = 14
  <2>1. FlipBit(c, i) = IF (c \div 16384) % 2 = 1 THEN c - 16384 ELSE c + 16384
    BY <1>1, <1>3 DEF FlipBit, Field
  <2>2. c \in Int /\ 0 <= c /\ c <= 65535
    BY Word16Is
  <2>3. PICK q : q = c \div 16384
    OBVIOUS
  <2>4. q \in Int /\ 16384 * q <= c /\ c < 16384 * q + 16384
    BY <2>2, <2>3
  <2>5. CASE q % 2 = 1
    <3>1. q >= 1
      BY <2>2, <2>4, <2>5
    <3>2. c - 16384 \in Int /\ 0 <= c - 16384 /\ c - 16384 <= 65535
      BY <2>2, <2>4, <3>1
    <3>3. QED
      BY <2>1, <2>3, <2>5, <3>2, InWord16
  <2>6. CASE q % 2 # 1
    <3>1. q <= 2
      BY <2>2, <2>4, <2>6
    <3>2. c + 16384 \in Int /\ 0 <= c + 16384 /\ c + 16384 <= 65535
      BY <2>2, <2>4, <3>1
    <3>3. QED
      BY <2>1, <2>3, <2>6, <3>2, InWord16
  <2>7. QED
    BY <2>3, <2>5, <2>6
<1>4. QED
  BY <1>2, <1>3

LEMMA CrcBitType ==
    ASSUME NEW b, NEW c \in Word16 PROVE CrcBit(b, c) \in Word16
<1>1. FlipBit(FlipBit(c, 1), 14) \in Word16
  BY FlipBitType
<1>2. ASSUME NEW d \in Word16 PROVE Shr(d, 1) \in Word16 /\ Shr(d, 1) + 32768 \in Word16
  <2>1. Shr(d, 1) = d \div 2
    BY DEF Shr
  <2>2. PICK q : q = d \div 2
    OBVIOUS
  <2>3. q \in Int /\ 0 <= q /\ q <= 32767
    BY <2>2, Word16Is
  <2>4. q \in Word16 /\ q + 32768 \in Word16
    BY <2>3, InWord16
  <2>5. QED
    BY <2>1, <2>2, <2>4
<1>3. Shr(FlipBit(FlipBit(c, 1), 14), 1) + 32768 \in Word16 /\ Shr(c, 1) \in Word16
  BY <1>1, <1>2
<1>4. QED
  BY <1>3 DEF CrcBit

LEMMA Crc8Type ==
    ASSUME NEW data \in Byte, NEW crc \in Word16 PROVE crcu8(data, crc) \in Word16
<1> DEFINE A(k) == (8 - k .. 8) \X Byte \X Word16
           next(x) == <<x[1] + 1, Shr(x[2], 1), CrcBit(x[2] % 2, x[3])>>
           step(f, x) == IF x[1] = 8 THEN x[3] ELSE f[next(x)]
           Def(f) == f = [x \in (0 .. 8) \X Byte \X Word16 |-> step(f, x)]
           turn == CHOOSE f : Def(f)
           S == {k \in Nat : k <= 8 => \E f \in [A(k) -> Word16] :
                                         \A x \in A(k) : f[x] = step(f, x)}
<1>0. ASSUME NEW k \in Nat, k < 8, NEW x \in A(k + 1)
      PROVE  /\ x[3] \in Word16
             /\ x[1] # 8 => next(x) \in A(k)
             /\ x \notin A(k) => x[1] # 8
  <2>1. x = <<x[1], x[2], x[3]>> /\ x[1] \in 8 - (k + 1) .. 8 /\ x[2] \in Byte /\ x[3] \in Word16
    OBVIOUS
  <2>2. Shr(x[2], 1) \in Byte /\ CrcBit(x[2] % 2, x[3]) \in Word16
    <3>1. x[2] % 2 \in {0, 1} /\ Shr(x[2], 1) \in Byte
      BY <2>1 DEF Shr, Byte
    <3>2. QED
      BY <2>1, <3>1, CrcBitType
  <2>3. x[1] # 8 => x[1] + 1 \in 8 - k .. 8
    BY <1>0, <2>1
  <2>4. x \notin A(k) => x[1] # 8
    <3>1. CASE x[1] = 8
      BY <1>0, <2>1, <3>1
    <3>2. QED
      BY <3>1
  <2>5. QED
    BY <2>1, <2>2, <2>3, <2>4
<1>1. 0 \in S
  <2>1. \A x \in A(0) : x[1] = 8 /\ x[3] \in Word16
    OBVIOUS
  <2> DEFINE g == [x \in A(0) |-> x[3]]
  <2>2. g \in [A(0) -> Word16] /\ \A x \in A(0) : g[x] = step(g, x)
    BY <2>1
  <2>3. QED
    BY <2>2
<1>2. ASSUME NEW k \in Nat, k \in S PROVE k + 1 \in S
  <2> DEFINE Has(m) == \E f \in [A(m) -> Word16] : \A x \in A(m) : f[x] = step(f, x)
  <2>a. (k <= 8 => Has(k)) /\ ((k + 1 <= 8 => Has(k + 1)) => k + 1 \in S)
    <3>1. \A m \in Nat : m \in S <=> (m <= 8 => Has(m))
      <4> HIDE DEF A, step
      <4>1. QED
        OBVIOUS
    <3> HIDE DEF S, Has
    <3>2. QED
      BY <1>2, <3>1
  <2>0. (k + 1 <= 8 => Has(k + 1)) => k + 1 \in S
    BY <2>a
  <2> HIDE DEF S
  <2>1. SUFFICES ASSUME k + 1 <= 8 PROVE Has(k + 1)
    BY <2>0
  <2>b. Has(k)
    <3> HIDE DEF Has
    <3>1. QED
      BY <2>a, <2>1
  <2>2. PICK f \in [A(k) -> Word16] : \A x \in A(k) : f[x] = step(f, x)
    <3> HIDE DEF A, step
    <3>1. QED
      BY <2>b
  <2>3. \A x \in A(k + 1) : /\ x[1] # 8 => next(x) \in A(k)
                            /\ x \notin A(k) => x[1] # 8
    BY <1>0, <2>1
  <2>4. A(k) \subseteq A(k + 1)
    BY <2>1
  <2> HIDE DEF A, next
  <2> DEFINE g == [x \in A(k + 1) |-> IF x \in A(k) THEN f[x] ELSE f[next(x)]]
  <2>5. g \in [A(k + 1) -> Word16]
    BY <2>3
  <2>6. \A x \in A(k + 1) : g[x] = IF x \in A(k) THEN f[x] ELSE f[next(x)]
    OBVIOUS
  <2> HIDE DEF g
  <2>7. ASSUME NEW x \in A(k + 1) PROVE g[x] = step(g, x)
    <3>1. x[1] # 8 => g[next(x)] = f[next(x)]
      BY <2>3, <2>4, <2>6
    <3>2. QED
      BY <2>2, <2>3, <2>6, <3>1
  <2>8. QED
    BY <2>5, <2>7
<1>3. 8 \in S
  BY <1>1, <1>2, Induction
<1>4. PICK f \in [A(8) -> Word16] : \A x \in A(8) : f[x] = step(f, x)
  BY <1>3
<1>5. A(8) = (0 .. 8) \X Byte \X Word16
  OBVIOUS
<1>6. f = [x \in A(8) |-> step(f, x)]
  <2> HIDE DEF A, next
  <2>1. QED
    BY <1>4
<1>7. Def(f)
  BY <1>5, <1>6
<1>8. Def(turn)
  BY <1>7
<1>9. \A x \in (0 .. 8) \X Byte \X Word16 : turn[x] = step(turn, x)
  <2> HIDE DEF turn, next
  <2>1. QED
    BY <1>8
<1>10. crcu8(data, crc) = turn[<<0, data, crc>>]
  BY DEF crcu8
<1> HIDE DEF turn, S
<1> DEFINE T == {k \in Nat : k <= 8 => \A x \in A(k) : turn[x] \in Word16}
<1>11. 0 \in T
  <2>1. ASSUME NEW x \in A(0) PROVE turn[x] \in Word16
    <3>1. x[1] = 8 /\ x[3] \in Word16 /\ x \in (0 .. 8) \X Byte \X Word16
      OBVIOUS
    <3>2. QED
      BY <1>9, <3>1
  <2>2. QED
    BY <2>1
<1>12. ASSUME NEW k \in Nat, k \in T PROVE k + 1 \in T
  <2>1. SUFFICES ASSUME k + 1 <= 8, NEW x \in A(k + 1) PROVE turn[x] \in Word16
    OBVIOUS
  <2>2. x \in (0 .. 8) \X Byte \X Word16
    BY <2>1
  <2>3. x[1] # 8 => next(x) \in A(k)
    BY <1>0, <2>1
  <2>4. x[3] \in Word16
    BY <1>0, <2>1
  <2> HIDE DEF A, next
  <2>5. \A y \in A(k) : turn[y] \in Word16
    BY <1>12, <2>1
  <2>6. turn[x] = step(turn, x)
    BY <1>9, <2>2
  <2>7. QED
    BY <2>3, <2>4, <2>5, <2>6
<1>13. 8 \in T
  BY <1>11, <1>12, Induction
<1>14. <<0, data, crc>> \in A(8)
  OBVIOUS
<1>15. turn[<<0, data, crc>>] \in Word16
  <2> HIDE DEF A
  <2>1. QED
    BY <1>13, <1>14
<1>16. QED
  BY <1>10, <1>15

LEMMA Crc16Type ==
    ASSUME NEW x \in Int, NEW crc \in Word16
    PROVE  crcu16(x, crc) \in Word16 /\ crc16(x, crc) \in Word16
<1>1. HighByte(x) \in Byte /\ LowByte(x) \in Byte
  BY DEF HighByte, LowByte, Byte
<1>2. QED
  BY <1>1, Crc8Type DEF crcu16, crc16

LEMMA Crc32Type ==
    ASSUME NEW x \in Int, NEW crc \in Word16 PROVE crcu32(x, crc) \in Word16
<1>1. Shr(x, 16) \in Int /\ U16(x) \in Int
  <2>1. 2^16 = 65536
    OBVIOUS
  <2>2. QED
    BY <2>1 DEF Shr, U16
<1>2. QED
  BY <1>1, Crc16Type DEF crcu32

(* The list: nodes 0 .. z - 1, of which the last one is never linked.       *)
Pointers(h, z) == h.next \in [Addr(z) -> Addr(z) \cup {NULL}]

Walk(W, h, x) == IF x[1] = NULL \/ x[2] = 0 THEN <<>>
                 ELSE <<x[1]>> \o W[<<h.next[x[1]], x[2] - 1>>]
Place2(W, m, i) == W[<<m, i>>]
Cons(m, s) == <<m>> \o s
Nil == <<>>
IsWalk(W, h, z, k) == W = [x \in (Addr(z) \cup {NULL}) \X (0 .. k) |-> Walk(W, h, x)]
Walks(W, h, z, k) ==
    \A m \in Addr(z) \cup {NULL}, i \in 0 .. k :
        /\ m = NULL \/ i = 0 => Place2(W, m, i) = Nil
        /\ m # NULL /\ i # 0 => Place2(W, m, i) = Cons(m, Place2(W, h.next[m], i - 1))

LEMMA WalkExists ==
    ASSUME NEW z \in Nat, NEW h, Pointers(h, z), NEW k \in Nat
    PROVE  \E W : IsWalk(W, h, z, k)
<1> DEFINE A == Addr(z) \cup {NULL}
           Has(j) == \E W : W = [x \in A \X (0 .. j) |-> Walk(W, h, x)]
           S == {j \in Nat : Has(j)}
<1>0. NULL \in A /\ \A m \in A : m # NULL => h.next[m] \in A
  BY DEF Pointers, NULL
<1> HIDE DEF A
<1>1. 0 \in S
  <2> DEFINE g == [x \in A \X (0 .. 0) |-> <<>>]
  <2>1. ASSUME NEW x \in A \X (0 .. 0) PROVE Walk(g, h, x) = <<>>
    BY DEF Walk
  <2>2. g = [x \in A \X (0 .. 0) |-> Walk(g, h, x)]
    <3> HIDE DEF g
    <3>1. g = [x \in A \X (0 .. 0) |-> <<>>]
      BY DEF g
    <3>2. QED
      BY <2>1, <3>1
  <2>3. QED
    BY <2>2
<1>2. ASSUME NEW j \in Nat, j \in S PROVE j + 1 \in S
  <2>1. PICK W : W = [x \in A \X (0 .. j) |-> Walk(W, h, x)]
    BY <1>2
  <2>2. \A x \in A \X (0 .. j) : W[x] = Walk(W, h, x)
    BY <2>1
  <2>3. (0 .. j) \subseteq (0 .. j + 1) /\ \A i \in 0 .. j + 1 : i # 0 => i - 1 \in 0 .. j
    OBVIOUS
  <2> DEFINE B == A \X (0 .. j + 1)
             g == [x \in B |-> Walk(W, h, x)]
  <2>4. \A x \in A \X (0 .. j) : x \in B /\ g[x] = W[x]
    BY <2>2, <2>3
  <2>5. \A x \in B : g[x] = Walk(W, h, x)
    OBVIOUS
  <2>6. ASSUME NEW x \in B, x[1] # NULL, x[2] # 0
        PROVE  <<h.next[x[1]], x[2] - 1>> \in A \X (0 .. j)
    BY <1>0, <2>3, <2>6
  <2>7. g = [x \in B |-> g[x]]
    OBVIOUS
  <2> HIDE DEF g, B
  <2>8. ASSUME NEW x \in B PROVE g[x] = Walk(g, h, x)
    <3>1. CASE x[1] = NULL \/ x[2] = 0
      BY <2>5, <3>1 DEF Walk
    <3>2. CASE x[1] # NULL /\ x[2] # 0
      <4>1. g[<<h.next[x[1]], x[2] - 1>>] = W[<<h.next[x[1]], x[2] - 1>>]
        BY <2>4, <2>6, <3>2
      <4>2. QED
        BY <2>5, <4>1 DEF Walk
    <3>3. QED
      BY <3>1, <3>2
  <2>9. g = [x \in B |-> Walk(g, h, x)]
    BY <2>7, <2>8
  <2>10. Has(j + 1)
    BY <2>9 DEF B
  <2>11. QED
    BY <2>10
<1>3. k \in S
  BY <1>1, <1>2, Induction
<1>4. QED
  BY <1>3 DEF A, IsWalk

LEMMA ChainWalk ==
    ASSUME NEW z \in Nat, NEW h, Pointers(h, z), NEW k \in Nat
    PROVE  \E W : Walks(W, h, z, k) /\ \A n : ChainOf(h, n, k) = Place2(W, n, k)
<1> DEFINE Dom == (DOMAIN h.next \cup {NULL}) \X (0 .. k)
           Def(W) == W = [x \in Dom |-> IF x[1] = NULL \/ x[2] = 0 THEN <<>>
                                        ELSE <<x[1]>> \o W[<<h.next[x[1]], x[2] - 1>>]]
           walk == CHOOSE W : Def(W)
<1>1. DOMAIN h.next = Addr(z)
  BY DEF Pointers
<1>2. \E W : Def(W)
  <2>1. PICK W : IsWalk(W, h, z, k)
    BY WalkExists
  <2>2. W = [x \in Dom |-> Walk(W, h, x)]
    BY <1>1, <2>1 DEF IsWalk
  <2>3. Def(W)
    BY <2>2 DEF Walk
  <2>4. QED
    BY <2>3
<1>3. Def(walk)
  BY <1>2
<1>4. \A n : ChainOf(h, n, k) = walk[<<n, k>>]
  BY DEF ChainOf
<1> HIDE DEF walk
<1>5. ASSUME NEW m \in Addr(z) \cup {NULL}, NEW i \in 0 .. k
      PROVE  /\ m = NULL \/ i = 0 => walk[<<m, i>>] = <<>>
             /\ m # NULL /\ i # 0 => walk[<<m, i>>] = <<m>> \o walk[<<h.next[m], i - 1>>]
  <2>1. <<m, i>> \in Dom
    BY <1>1
  <2> DEFINE x == <<m, i>>
  <2>2. x[1] = m /\ x[2] = i /\ x \in Dom
    BY <2>1
  <2> HIDE DEF Dom, x
  <2>3. walk[x] = IF m = NULL \/ i = 0 THEN <<>> ELSE <<m>> \o walk[<<h.next[m], i - 1>>]
    BY <1>3, <2>2
  <2>4. QED
    BY <2>3 DEF x
<1>6. Walks(walk, h, z, k)
  BY <1>5 DEF Walks, Place2, Cons, Nil
<1>7. QED
  BY <1>4, <1>6 DEF Place2

Prepended(t, m, s) == /\ Len(t) = Len(s) + 1 /\ t[1] = m
                      /\ \A x \in 1 .. Len(s) : t[x + 1] = s[x]
LEMMA Prepend ==
    ASSUME NEW S, NEW m \in S, NEW s \in Seq(S), NEW t, t = Cons(m, s)
    PROVE  t \in Seq(S) /\ Len(s) \in Nat /\ Prepended(t, m, s)
BY DEF Cons, Prepended

LEMMA NoneIsSeq == ASSUME NEW S PROVE Nil \in Seq(S) /\ Len(Nil) = 0
BY DEF Nil

LEMMA WalkType ==
    ASSUME NEW z \in Nat, NEW h, Pointers(h, z), NEW k \in Nat, NEW W, Walks(W, h, z, k)
    PROVE  \A m \in Addr(z) \cup {NULL}, i \in 0 .. k :
               Place2(W, m, i) \in Seq(Addr(z)) /\ Len(Place2(W, m, i)) <= i
<1> DEFINE Good(i) == \A m \in Addr(z) \cup {NULL} :
                          Place2(W, m, i) \in Seq(Addr(z)) /\ Len(Place2(W, m, i)) <= i
           S == {i \in Nat : i <= k => Good(i)}
<1>1. 0 \in S
  <2>1. ASSUME NEW m \in Addr(z) \cup {NULL} PROVE Place2(W, m, 0) = Nil
    BY DEF Walks
  <2>2. QED
    BY <2>1, NoneIsSeq
<1>2. ASSUME NEW i \in Nat, i \in S PROVE i + 1 \in S
  <2>1. SUFFICES ASSUME i + 1 <= k PROVE Good(i + 1)
    OBVIOUS
  <2>2. Good(i)
    BY <1>2, <2>1
  <2>3. ASSUME NEW m \in Addr(z) \cup {NULL}
        PROVE  Place2(W, m, i + 1) \in Seq(Addr(z)) /\ Len(Place2(W, m, i + 1)) <= i + 1
    <3>0. i + 1 \in 0 .. k /\ i + 1 # 0 /\ (i + 1) - 1 = i
      BY <2>1
    <3>2. CASE m = NULL
      <4>1. Place2(W, m, i + 1) = Nil
        BY <3>0, <3>2 DEF Walks
      <4>2. QED
        BY <4>1, NoneIsSeq
    <3>3. CASE m # NULL
      <4>1. m \in Addr(z) /\ h.next[m] \in Addr(z) \cup {NULL}
        BY <3>3 DEF Pointers
      <4>2. Place2(W, m, i + 1) = Cons(m, Place2(W, h.next[m], i))
        BY <3>0, <3>3 DEF Walks
      <4>3. Place2(W, h.next[m], i) \in Seq(Addr(z)) /\ Len(Place2(W, h.next[m], i)) <= i
        BY <2>2, <4>1
      <4> DEFINE t == Place2(W, h.next[m], i)
                 s == Place2(W, m, i + 1)
      <4> HIDE DEF Good, t, s
      <4>4. s \in Seq(Addr(z)) /\ Len(s) = Len(t) + 1
        BY <4>1, <4>2, <4>3, Prepend DEF s, t, Prepended
      <4>5. QED
        BY <4>3, <4>4 DEF s, t
    <3>4. QED
      BY <3>2, <3>3
  <2>4. QED
    BY <2>3
<1>3. Nat \subseteq S
  BY <1>1, <1>2, Induction
<1>4. QED
  BY <1>3

LEMMA ChainType ==
    ASSUME NEW z \in Nat, NEW h, Pointers(h, z), NEW k \in Nat, NEW m \in Addr(z) \cup {NULL}
    PROVE  ChainOf(h, m, k) \in Seq(Addr(z)) /\ Len(ChainOf(h, m, k)) <= k
<1>1. PICK W : Walks(W, h, z, k) /\ \A n : ChainOf(h, n, k) = Place2(W, n, k)
  BY ChainWalk
<1>2. k \in 0 .. k
  OBVIOUS
<1>3. Place2(W, m, k) \in Seq(Addr(z)) /\ Len(Place2(W, m, k)) <= k
  BY <1>1, <1>2, WalkType
<1>4. QED
  BY <1>1, <1>3

LEMMA ChainNull ==
    ASSUME NEW z \in Nat, NEW h, Pointers(h, z), NEW k \in Nat
    PROVE  ChainOf(h, NULL, k) = Nil
<1>1. PICK W : Walks(W, h, z, k) /\ \A n : ChainOf(h, n, k) = Place2(W, n, k)
  BY ChainWalk
<1>2. Place2(W, NULL, k) = Nil
  BY <1>1 DEF Walks
<1>3. QED
  BY <1>1, <1>2

LEMMA ChainZero ==
    ASSUME NEW z \in Nat, NEW h, Pointers(h, z), NEW m \in Addr(z) \cup {NULL}
    PROVE  ChainOf(h, m, 0) = Nil
<1>1. PICK W : Walks(W, h, z, 0) /\ \A n : ChainOf(h, n, 0) = Place2(W, n, 0)
  BY ChainWalk
<1>2. Place2(W, m, 0) = Nil
  BY <1>1 DEF Walks
<1>3. QED
  BY <1>1, <1>2

-----------------------------------------------------------------------------
(* Along an arrangement w of nodes the chain is w itself.                    *)
Chained(h, w, lo, hi) == \A x \in lo .. hi - 1 : h.next[w[x]] = w[x + 1]
\* s begins with w[j], w[j + 1] ... c times
Begins(s, w, j, c) == Len(s) >= c /\ \A x \in 1 .. c : s[x] = w[j + x - 1]

LEMMA WalkAlong ==
    ASSUME NEW z \in Nat, NEW h, Pointers(h, z), NEW k \in Nat, NEW W, Walks(W, h, z, k),
           NEW lo \in Int, NEW hi \in Int, NEW w, \A x \in lo .. hi : w[x] \in Addr(z),
           Chained(h, w, lo, hi)
    PROVE  \A i \in 0 .. k : \A j \in lo .. hi :
               LET s == Place2(W, w[j], i)
                   c == Min2(hi - j + 1, i)
               IN  /\ Begins(s, w, j, c)
                   /\ h.next[w[hi]] = NULL => Len(s) = c
<1> DEFINE Good(i) == \A j \in lo .. hi :
                          LET s == Place2(W, w[j], i)
                              c == Min2(hi - j + 1, i)
                          IN  /\ Begins(s, w, j, c)
                              /\ h.next[w[hi]] = NULL => Len(s) = c
           S == {i \in Nat : i <= k => Good(i)}
<1>0. NULL \notin Addr(z)
  BY DEF NULL, Addr
<1>1. 0 \in S
  <2>1. ASSUME NEW j \in lo .. hi
        PROVE  Place2(W, w[j], 0) = Nil /\ Min2(hi - j + 1, 0) = 0
    BY DEF Walks, Min2
  <2>2. Good(0)
    BY <2>1, NoneIsSeq DEF Begins
  <2>3. QED
    BY <2>2
<1>2. ASSUME NEW i \in Nat, i \in S PROVE i + 1 \in S
  <2>1. SUFFICES ASSUME i + 1 <= k PROVE Good(i + 1)
    OBVIOUS
  <2>2. Good(i)
    BY <1>2, <2>1
  <2>3. ASSUME NEW j \in lo .. hi, NEW s, s = Place2(W, w[j], i + 1),
               NEW c, c = Min2(hi - j + 1, i + 1)
        PROVE  Begins(s, w, j, c) /\ (h.next[w[hi]] = NULL => Len(s) = c)
    <3>0. i + 1 \in 0 .. k /\ i \in 0 .. k /\ i + 1 # 0 /\ (i + 1) - 1 = i
      BY <2>1
    <3>1. w[j] \in Addr(z) /\ w[j] # NULL /\ h.next[w[j]] \in Addr(z) \cup {NULL}
      BY <1>0 DEF Pointers
    <3> DEFINE t == Place2(W, h.next[w[j]], i)
    <3>2. s = Cons(w[j], t)
      BY <2>3, <3>0, <3>1 DEF Walks
    <3>3. t \in Seq(Addr(z)) /\ Len(t) <= i
      BY <3>0, <3>1, WalkType
    <3>6. /\ Len(s) = Len(t) + 1 /\ s[1] = w[j] /\ Len(t) \in Nat
          /\ \A x \in 1 .. Len(t) : s[x + 1] = t[x]
      <4>1. PICK m : m = w[j]
        OBVIOUS
      <4> HIDE DEF t
      <4>2. m \in Addr(z) /\ t \in Seq(Addr(z)) /\ s = Cons(m, t)
        BY <3>1, <3>2, <3>3, <4>1
      <4>3. Prepended(s, m, t) /\ Len(t) \in Nat
        BY <4>2, Prepend
      <4>4. QED
        BY <4>1, <4>3 DEF Prepended
    <3>4. CASE j = hi
      <4>1. c = 1
        BY <2>3, <3>4 DEF Min2
      <4>2. h.next[w[hi]] = NULL => t = Nil
        BY <3>0, <3>4 DEF Walks
      <4>3. Len(s) = Len(t) + 1 /\ s[1] = w[j] /\ Len(t) \in Nat
        BY <3>6
      <4>4. Begins(s, w, j, c)
        BY <4>1, <4>3 DEF Begins
      <4>5. h.next[w[hi]] = NULL => Len(s) = c
        BY <4>1, <4>2, <4>3, NoneIsSeq
      <4>6. QED
        BY <4>4, <4>5
    <3>5. CASE j # hi
      <4>1. h.next[w[j]] = w[j + 1] /\ j + 1 \in lo .. hi
        BY <3>5 DEF Chained
      <4> DEFINE d == Min2(hi - (j + 1) + 1, i)
      <4>2. Begins(t, w, j + 1, d) /\ (h.next[w[hi]] = NULL => Len(t) = d)
        BY <2>2, <4>1
      <4>3. c = d + 1 /\ d \in Nat
        BY <2>3, <3>5 DEF Min2
      <4> HIDE DEF t, d, Good, S
      <4>4. /\ Len(s) = Len(t) + 1 /\ s[1] = w[j] /\ Len(t) \in Nat
            /\ \A x \in 1 .. Len(t) : s[x + 1] = t[x]
        BY <3>6
      <4>5. Len(t) >= d /\ \A x \in 1 .. d : t[x] = w[(j + 1) + x - 1]
        BY <4>2 DEF Begins
      <4>6. ASSUME NEW x \in 1 .. c PROVE s[x] = w[j + x - 1]
        <5>1. CASE x = 1
          BY <4>4, <5>1
        <5>2. CASE x # 1
          <6>1. x - 1 \in 1 .. d /\ (x - 1) + 1 = x /\ (j + 1) + (x - 1) - 1 = j + x - 1
            BY <4>3, <5>2
          <6>2. x - 1 \in 1 .. Len(t)
            BY <4>3, <4>4, <4>5, <6>1
          <6>3. s[x] = t[x - 1]
            BY <4>4, <6>1, <6>2
          <6>4. QED
            BY <4>5, <6>1, <6>3
        <5>3. QED
          BY <5>1, <5>2
      <4>7. Begins(s, w, j, c)
        BY <4>3, <4>4, <4>5, <4>6 DEF Begins
      <4>8. QED
        BY <4>2, <4>3, <4>4, <4>7
    <3>7. QED
      BY <3>4, <3>5
  <2>4. QED
    BY <2>3
<1>3. Nat \subseteq S
  BY <1>1, <1>2, Induction
<1>4. QED
  BY <1>3

\* s is w[j], w[j + 1], ... c of them
Is(s, w, j, c) == Len(s) = c /\ \A x \in 1 .. c : s[x] = w[j + x - 1]

LEMMA ChainBegins ==
    ASSUME NEW z \in Nat, NEW h, Pointers(h, z), NEW k \in Nat,
           NEW lo \in Int, NEW hi \in Int, NEW w, \A x \in lo .. hi : w[x] \in Addr(z),
           Chained(h, w, lo, hi), NEW j \in lo .. hi
    PROVE  Begins(ChainOf(h, w[j], k), w, j, Min2(hi - j + 1, k))
<1>1. PICK W : Walks(W, h, z, k) /\ \A n : ChainOf(h, n, k) = Place2(W, n, k)
  BY ChainWalk
<1>2. k \in 0 .. k
  OBVIOUS
<1>3. Begins(Place2(W, w[j], k), w, j, Min2(hi - j + 1, k))
  BY <1>1, <1>2, WalkAlong
<1>4. QED
  BY <1>1, <1>3

LEMMA ChainAlong ==
    ASSUME NEW z \in Nat, NEW h, Pointers(h, z), NEW k \in Nat,
           NEW lo \in Int, NEW hi \in Int, NEW w, \A x \in lo .. hi : w[x] \in Addr(z),
           Chained(h, w, lo, hi), h.next[w[hi]] = NULL, NEW j \in lo .. hi
    PROVE  Is(ChainOf(h, w[j], k), w, j, Min2(hi - j + 1, k))
<1>1. PICK W : Walks(W, h, z, k) /\ \A n : ChainOf(h, n, k) = Place2(W, n, k)
  BY ChainWalk
<1>2. k \in 0 .. k
  OBVIOUS
<1>3. LET s == Place2(W, w[j], k)
          c == Min2(hi - j + 1, k)
      IN  Begins(s, w, j, c) /\ Len(s) = c
  BY <1>1, <1>2, WalkAlong
<1>4. QED
  BY <1>1, <1>3 DEF Begins, Is

-----------------------------------------------------------------------------
(* core_list_find ends where the list ends or at a node of it.              *)

Descends(h, z, g) ==
    g \in [Addr(z) -> Nat] /\ \A m \in Addr(z) : h.next[m] # NULL => g[h.next[m]] < g[m]

Seek(f, h, want, m) == IF m = NULL \/ Matches(h, m, want) THEN m ELSE f[h.next[m]]
IsSeek(f, h, want, z) == f = [m \in Addr(z) \cup {NULL} |-> Seek(f, h, want, m)]

LEMMA SeekExists ==
    ASSUME NEW z \in Nat, NEW h, Pointers(h, z), NEW g, Descends(h, z, g), NEW want
    PROVE  \E f : IsSeek(f, h, want, z)
<1> DEFINE D(j) == {m \in Addr(z) : g[m] < j} \cup {NULL}
           Has(j) == \E f : f = [m \in D(j) |-> Seek(f, h, want, m)]
           S == {j \in Nat : Has(j)}
<1>0. NULL \notin Addr(z)
  BY DEF NULL, Addr
<1>1. 0 \in S
  <2> DEFINE f == [m \in {NULL} |-> NULL]
  <2>1. D(0) = {NULL}
    BY DEF Descends
  <2>2. f = [m \in D(0) |-> Seek(f, h, want, m)]
    <3>1. \A m \in D(0) : Seek(f, h, want, m) = NULL
      BY <2>1 DEF Seek
    <3> HIDE DEF f
    <3>2. f = [m \in D(0) |-> NULL]
      BY <2>1 DEF f
    <3> HIDE DEF D
    <3>3. QED
      BY <3>1, <3>2
  <2>3. QED
    BY <2>2
<1>2. ASSUME NEW j \in Nat, j \in S PROVE j + 1 \in S
  <2>1. PICK f : f = [m \in D(j) |-> Seek(f, h, want, m)]
    BY <1>2
  <2> DEFINE e == [m \in D(j + 1) |-> Seek(f, h, want, m)]
  <2>2. \A m \in D(j) : f[m] = Seek(f, h, want, m) /\ m \in D(j + 1)
    <3>1. D(j) \subseteq D(j + 1)
      BY DEF Descends
    <3> HIDE DEF D
    <3>2. QED
      BY <2>1, <3>1
  <2>3. \A m \in D(j + 1) : m # NULL => h.next[m] \in D(j)
    BY <1>0 DEF Descends, Pointers
  <2>4. \A m \in D(j + 1) : e[m] = Seek(f, h, want, m)
    OBVIOUS
  <2>5. e = [m \in D(j + 1) |-> e[m]]
    OBVIOUS
  <2> HIDE DEF D, e
  <2>6. \A m \in D(j) : e[m] = f[m]
    BY <2>2, <2>4
  <2>7. ASSUME NEW m \in D(j + 1) PROVE e[m] = Seek(e, h, want, m)
    BY <2>3, <2>4, <2>6 DEF Seek
  <2>8. e = [m \in D(j + 1) |-> Seek(e, h, want, m)]
    BY <2>5, <2>7
  <2>9. Has(j + 1)
    BY <2>8
  <2>10. QED
    BY <2>9
<1>3. Nat \subseteq S
  BY <1>1, <1>2, Induction
<1>4. \E j \in Nat : D(j) = Addr(z) \cup {NULL}
  <2> DEFINE B(i) == \E j \in Nat : \A m \in Addr(z) : m < i => g[m] < j
             T == {i \in Nat : i <= z => B(i)}
  <2>1. 0 \in T
    BY DEF Addr
  <2>2. ASSUME NEW i \in Nat, i \in T PROVE i + 1 \in T
    <3>1. SUFFICES ASSUME i + 1 <= z PROVE B(i + 1)
      OBVIOUS
    <3>2. PICK j \in Nat : \A m \in Addr(z) : m < i => g[m] < j
      BY <2>2, <3>1
    <3>3. i \in Addr(z) /\ g[i] \in Nat
      BY <3>1 DEF Addr, Descends
    <3> DEFINE t == j + g[i] + 1
    <3>4. t \in Nat /\ \A m \in Addr(z) : m < i + 1 => g[m] < t
      <4>1. ASSUME NEW m \in Addr(z), m < i + 1 PROVE g[m] < t
        <5>1. m = i \/ m < i
          BY <4>1 DEF Addr
        <5>2. g[m] \in Nat
          BY DEF Descends
        <5>3. QED
          BY <3>2, <3>3, <5>1, <5>2
      <4>2. QED
        BY <3>3, <4>1
    <3>5. QED
      BY <3>4
  <2>3. z \in T
    BY <2>1, <2>2, Induction
  <2>4. PICK j \in Nat : \A m \in Addr(z) : m < z => g[m] < j
    BY <2>3
  <2>5. \A m \in Addr(z) : m < z
    BY DEF Addr
  <2>6. D(j) = Addr(z) \cup {NULL}
    BY <2>4, <2>5
  <2>7. QED
    BY <2>6
<1>5. QED
  <2>1. PICK j \in Nat : D(j) = Addr(z) \cup {NULL}
    BY <1>4
  <2> HIDE DEF D
  <2>2. Has(j)
    BY <1>3
  <2>3. QED
    BY <2>1, <2>2 DEF IsSeek

LEMMA FindType ==
    ASSUME NEW z \in Nat, NEW h, Pointers(h, z), NEW g, Descends(h, z, g), NEW want,
           NEW V, V \subseteq Addr(z), \A m \in V : h.next[m] \in V \cup {NULL},
           NEW list \in V \cup {NULL}
    PROVE  core_list_find(h, list, want) \in V \cup {NULL}
<1> DEFINE Def(f) == f = [m \in DOMAIN h.next \cup {NULL} |->
                             IF m = NULL \/ Matches(h, m, want) THEN m ELSE f[h.next[m]]]
           seek == CHOOSE f : Def(f)
<1>1. DOMAIN h.next = Addr(z)
  BY DEF Pointers
<1>2. PICK f : IsSeek(f, h, want, z)
  BY SeekExists
<1>3. Def(f)
  BY <1>1, <1>2 DEF IsSeek, Seek
<1>4. Def(seek)
  BY <1>3
<1>5. core_list_find(h, list, want) = seek[list]
  BY DEF core_list_find
<1> HIDE DEF seek
<1>6. \A m \in Addr(z) \cup {NULL} : seek[m] = Seek(seek, h, want, m)
  BY <1>1, <1>4 DEF Seek
<1> DEFINE S == {j \in Nat : \A m \in V : g[m] = j => seek[m] \in V \cup {NULL}}
<1>7. ASSUME NEW j \in Nat, \A i \in Nat : i < j => i \in S PROVE j \in S
  <2>1. SUFFICES ASSUME NEW m \in V, g[m] = j PROVE seek[m] \in V \cup {NULL}
    OBVIOUS
  <2>2. h.next[m] \in V \cup {NULL} /\ (h.next[m] # NULL => g[h.next[m]] < j /\ g[h.next[m]] \in Nat)
    BY <2>1 DEF Descends
  <2>3. seek[h.next[m]] \in V \cup {NULL}
    <3>1. CASE h.next[m] = NULL
      BY <1>6, <3>1 DEF Seek
    <3>2. CASE h.next[m] # NULL
      BY <1>7, <2>2, <3>2
    <3>3. QED
      BY <3>1, <3>2
  <2>4. QED
    BY <1>6, <2>3 DEF Seek
<1>8. Nat \subseteq S
  BY <1>7, StrongInduction
<1>9. CASE list = NULL
  BY <1>5, <1>6, <1>9 DEF Seek
<1>10. CASE list \in V
  <2>1. g[list] \in Nat
    BY <1>10 DEF Descends
  <2>2. QED
    BY <1>5, <1>8, <1>10, <2>1
<1>11. QED
  BY <1>9, <1>10

-----------------------------------------------------------------------------
(* What the assignments of the list code change.                            *)

Datum == [idx : Int, data16 : Int]
HeapOf(z) == [next : [Addr(z) -> Addr(z) \cup {NULL}], info : [Addr(z) -> Addr(z)],
              data : [Addr(z) -> Datum]]

LEMMA HeapPointers ==
    ASSUME NEW z, NEW h \in HeapOf(z)
    PROVE  /\ Pointers(h, z) /\ h.info \in [Addr(z) -> Addr(z)]
           /\ h.data \in [Addr(z) -> Datum]
BY DEF HeapOf, Pointers

LEMMA SetNextIs ==
    ASSUME NEW z, NEW h \in HeapOf(z), NEW m \in Addr(z), NEW x \in Addr(z) \cup {NULL},
           NEW g, g = SetNext(h, m, x)
    PROVE  /\ g \in HeapOf(z) /\ g.next = [h.next EXCEPT ![m] = x]
           /\ g.info = h.info /\ g.data = h.data
BY DEF HeapOf, SetNext

PutData(h, x, v) == [h EXCEPT !.data[x].data16 = v]
LEMMA PutDataIs ==
    ASSUME NEW z, NEW h \in HeapOf(z), NEW x \in Addr(z), NEW v \in Int,
           NEW g, g = PutData(h, x, v)
    PROVE  /\ g \in HeapOf(z) /\ g.next = h.next /\ g.info = h.info
           /\ g.data = [h.data EXCEPT ![x] = [idx |-> h.data[x].idx, data16 |-> v]]
<1>1. g = [h EXCEPT !.data = [h.data EXCEPT ![x] = [h.data[x] EXCEPT !.data16 = v]]]
  BY DEF PutData
<1>2. h.data \in [Addr(z) -> Datum] /\ h.data[x] \in Datum
  BY DEF HeapOf
<1>3. [h.data[x] EXCEPT !.data16 = v] = [idx |-> h.data[x].idx, data16 |-> v]
  BY <1>2 DEF Datum
<1> DEFINE e == [idx |-> h.data[x].idx, data16 |-> v]
<1>4. e \in Datum
  BY <1>2 DEF Datum
<1> HIDE DEF e
<1>5. g = [h EXCEPT !.data = [h.data EXCEPT ![x] = e]]
  BY <1>1, <1>3 DEF e
<1>6. [h.data EXCEPT ![x] = e] \in [Addr(z) -> Datum]
  BY <1>2, <1>4
<1>7. g \in HeapOf(z) /\ g.next = h.next /\ g.info = h.info /\ g.data = [h.data EXCEPT ![x] = e]
  BY <1>5, <1>6 DEF HeapOf
<1>8. QED
  BY <1>7 DEF e

InfoSwapped(g, h, m, x, z) ==
    /\ g \in HeapOf(z) /\ g.next = h.next /\ g.data = h.data
    /\ g.info = [h.info EXCEPT ![m] = h.info[x], ![x] = h.info[m]]
LEMMA SwapInfoIs ==
    ASSUME NEW z, NEW h \in HeapOf(z), NEW m \in Addr(z), NEW x \in Addr(z),
           NEW g, g = SwapInfo(h, m, x)
    PROVE  InfoSwapped(g, h, m, x, z)
BY DEF HeapOf, SwapInfo, InfoSwapped

-----------------------------------------------------------------------------
(* The n nodes of the list in the order w.                                  *)

Arranged(w, n) ==
    /\ w \in [1 .. n -> Addr(n)]
    /\ \A i, j \in 1 .. n : w[i] = w[j] => i = j
    /\ \A m \in Addr(n) : \E i \in 1 .. n : w[i] = m

\* the node at position j moves to position i, which is not behind it
Moved(w, n, j, i) ==
    [x \in 1 .. n |-> IF x = i THEN w[j] ELSE IF i < x /\ x <= j THEN w[x - 1] ELSE w[x]]
Reversed(w, n) == [x \in 1 .. n |-> w[n + 1 - x]]

LEMMA MovedArranged ==
    ASSUME NEW n \in Nat, NEW w, Arranged(w, n), NEW i \in 1 .. n, NEW j \in 1 .. n, i <= j
    PROVE  Arranged(Moved(w, n, j, i), n)
<1> DEFINE v == Moved(w, n, j, i)
<1>1. v \in [1 .. n -> Addr(n)]
  BY DEF Moved, Arranged
<1>2. \A x \in 1 .. n : v[x] = IF x = i THEN w[j] ELSE IF i < x /\ x <= j THEN w[x - 1] ELSE w[x]
  BY DEF Moved
<1> HIDE DEF v
<1>3. ASSUME NEW x \in 1 .. n, NEW y \in 1 .. n, v[x] = v[y] PROVE x = y
  BY <1>2, <1>3 DEF Arranged
<1>4. ASSUME NEW m \in Addr(n) PROVE \E x \in 1 .. n : v[x] = m
  <2>1. PICK y \in 1 .. n : w[y] = m
    BY DEF Arranged
  <2>2. CASE y = j
    BY <1>2, <2>1, <2>2
  <2>3. CASE i <= y /\ y < j
    <3>1. y + 1 \in 1 .. n /\ (y + 1) - 1 = y
      BY <2>3
    <3>2. v[y + 1] = m
      BY <1>2, <2>1, <2>3, <3>1
    <3>3. QED
      BY <3>1, <3>2
  <2>4. CASE y < i \/ y > j
    BY <1>2, <2>1, <2>4
  <2>5. QED
    BY <2>2, <2>3, <2>4
<1>5. QED
  BY <1>1, <1>3, <1>4 DEF Arranged, v

LEMMA ReversedArranged ==
    ASSUME NEW n \in Nat, NEW w, Arranged(w, n)
    PROVE  Arranged(Reversed(w, n), n)
<1> DEFINE v == Reversed(w, n)
<1>1. v \in [1 .. n -> Addr(n)] /\ \A x \in 1 .. n : v[x] = w[n + 1 - x]
  BY DEF Reversed, Arranged
<1> HIDE DEF v
<1>2. ASSUME NEW x \in 1 .. n, NEW y \in 1 .. n, v[x] = v[y] PROVE x = y
  <2>1. n + 1 - x \in 1 .. n /\ n + 1 - y \in 1 .. n
    OBVIOUS
  <2>2. n + 1 - x = n + 1 - y
    BY <1>1, <1>2, <2>1 DEF Arranged
  <2>3. QED
    BY <2>2
<1>3. ASSUME NEW m \in Addr(n) PROVE \E x \in 1 .. n : v[x] = m
  <2>1. PICK y \in 1 .. n : w[y] = m
    BY DEF Arranged
  <2>2. n + 1 - y \in 1 .. n /\ n + 1 - (n + 1 - y) = y
    OBVIOUS
  <2>3. v[n + 1 - y] = m
    BY <1>1, <2>1, <2>2
  <2>4. QED
    BY <2>2, <2>3
<1>4. QED
  BY <1>1, <1>2, <1>3 DEF Arranged, v

\* The whole list hangs together in the order w, and ends.
ListAt(h, w, n, first) ==
    Arranged(w, n) /\ w[1] = first /\ Chained(h, w, 1, n) /\ h.next[w[n]] = NULL

LEMMA ArrangedIs ==
    ASSUME NEW n \in Nat, NEW w, Arranged(w, n)
    PROVE  /\ \A i \in 1 .. n : w[i] \in Addr(n) /\ w[i] \in Addr(n + 1) /\ w[i] # NULL /\ w[i] # n
           /\ \A i, j \in 1 .. n : w[i] = w[j] => i = j
BY DEF Arranged, Addr, NULL

\* Another order of the same nodes, of which the links of one node are set.
LEMMA ListContents ==
    ASSUME NEW n \in Nat, n >= 1, NEW h, Pointers(h, n + 1), NEW w, NEW first, ListAt(h, w, n, first)
    PROVE  Is(ChainOf(h, first, n + 1), w, 1, n)
<1>1. \A x \in 1 .. n : w[x] \in Addr(n + 1)
  BY ArrangedIs DEF ListAt
<1>2. Is(ChainOf(h, w[1], n + 1), w, 1, Min2(n - 1 + 1, n + 1))
  BY <1>1, ChainAlong DEF ListAt
<1>3. Min2(n - 1 + 1, n + 1) = n
  BY DEF Min2
<1>4. QED
  BY <1>2, <1>3 DEF ListAt

\* How far a node is from the end of the list.
LEMMA ListDescends ==
    ASSUME NEW n \in Nat, n >= 1, NEW h, Pointers(h, n + 1), NEW w, NEW first, ListAt(h, w, n, first),
           h.next[n] = NULL
    PROVE  /\ \E g : Descends(h, n + 1, g)
           /\ \A m \in Addr(n) : h.next[m] \in Addr(n) \cup {NULL}
<1> DEFINE at(m) == CHOOSE i \in 1 .. n : w[i] = m
           g == [m \in Addr(n + 1) |-> IF m \in Addr(n) THEN n - at(m) ELSE 0]
<1>1. \A m \in Addr(n) : at(m) \in 1 .. n /\ w[at(m)] = m
  BY DEF ListAt, Arranged
<1>2. \A i \in 1 .. n : w[i] \in Addr(n) /\ at(w[i]) = i
  BY DEF ListAt, Arranged
<1>3. Addr(n) \subseteq Addr(n + 1) /\ n \notin Addr(n)
  BY DEF Addr
<1>4. \A m \in Addr(n + 1) : m \in Addr(n) \/ m = n
  BY DEF Addr
<1> HIDE DEF at
<1>5. g \in [Addr(n + 1) -> Nat] /\ \A m \in Addr(n) : g[m] = n - at(m)
  BY <1>1, <1>3
<1> HIDE DEF g
<1>6. ASSUME NEW m \in Addr(n)
      PROVE  h.next[m] = NULL \/ (h.next[m] \in Addr(n) /\ g[h.next[m]] < g[m])
  <2>1. CASE at(m) = n
    BY <1>1, <2>1 DEF ListAt
  <2>2. CASE at(m) # n
    <3>1. at(m) \in 1 .. n - 1 /\ at(m) + 1 \in 1 .. n
      BY <1>1, <2>2
    <3>2. h.next[m] = w[at(m) + 1]
      BY <1>1, <3>1 DEF ListAt, Chained
    <3>3. h.next[m] \in Addr(n) /\ at(h.next[m]) = at(m) + 1
      BY <1>2, <3>1, <3>2
    <3>4. g[h.next[m]] = n - (at(m) + 1) /\ g[m] = n - at(m)
      BY <1>5, <3>3
    <3>5. QED
      BY <3>1, <3>3, <3>4
  <2>3. QED
    BY <2>1, <2>2
<1>7. Descends(h, n + 1, g)
  BY <1>4, <1>5, <1>6 DEF Descends
<1>8. QED
  BY <1>6, <1>7

-----------------------------------------------------------------------------
(* The links during a merge pass over the order w: the a nodes merged so    *)
(* far, then what is left.                                                  *)

HeadOf(w, a) == IF a = 0 THEN NULL ELSE w[1]
TailOf(w, a) == IF a = 0 THEN NULL ELSE w[a]
From(w, n, a) == IF a < n THEN w[a + 1] ELSE NULL

PassAt(h, m, w, n, a) ==
    /\ Arranged(w, n) /\ a \in 0 .. n
    /\ m.list = HeadOf(w, a) /\ m.tail = TailOf(w, a) /\ m.p = From(w, n, a)
    /\ Chained(h, w, 1, a) /\ Chained(h, w, a + 1, n)
    /\ a < n => h.next[w[n]] = NULL

\* a merged, then m.psize nodes of the first run, then the second
MergeAt(h, m, w, n, a) ==
    /\ Arranged(w, n) /\ a \in 0 .. n /\ m.psize \in Nat /\ m.qsize \in Nat /\ a + m.psize <= n
    /\ m.list = HeadOf(w, a) /\ m.tail = TailOf(w, a)
    /\ m.p \in Addr(n + 1) \cup {NULL} /\ (m.psize > 0 => m.p = w[a + 1])
    /\ m.q = From(w, n, a + m.psize)
    /\ Chained(h, w, 1, a) /\ Chained(h, w, a + 1, a + m.psize) /\ Chained(h, w, a + m.psize + 1, n)
    /\ a + m.psize < n => h.next[w[n]] = NULL

SortState == [list : Int, tail : Int, p : Int, q : Int, psize : Nat, qsize : Nat,
              insize : Nat, nmerges : Nat, cmp : {"idx", "data"},
              after : {"cells", "remove", "check", "done"}]

\* The next element joins the merged list: its last node points to it.
Joined(h, m, x) == IF m.tail = NULL THEN h ELSE SetNext(h, m.tail, x)
TookP(h, m) == [m EXCEPT !.p = h.next[m.p], !.psize = @ - 1, !.tail = m.p,
                         !.list = IF m.tail = NULL THEN m.p ELSE @]
TookQ(h, m) == [m EXCEPT !.q = h.next[m.q], !.qsize = @ - 1, !.tail = m.q,
                         !.list = IF m.tail = NULL THEN m.q ELSE @]

LEMMA TookPState ==
    ASSUME NEW m \in SortState, NEW x \in Int, NEW k \in Nat, NEW y \in Int, NEW l \in Int,
           NEW e, e = [m EXCEPT !.p = x, !.psize = k, !.tail = y, !.list = l]
    PROVE  e \in SortState
BY DEF SortState

LEMMA TookQState ==
    ASSUME NEW m \in SortState, NEW x \in Int, NEW k \in Nat, NEW y \in Int, NEW l \in Int,
           NEW e, e = [m EXCEPT !.q = x, !.qsize = k, !.tail = y, !.list = l]
    PROVE  e \in SortState
BY DEF SortState

LEMMA TookPIs ==
    ASSUME NEW h, NEW m \in SortState, NEW e, e = TookP(h, m)
    PROVE  /\ e.p = h.next[m.p] /\ e.psize = m.psize - 1 /\ e.tail = m.p
           /\ e.list = IF m.tail = NULL THEN m.p ELSE m.list
           /\ e.q = m.q /\ e.qsize = m.qsize /\ e.insize = m.insize /\ e.nmerges = m.nmerges
           /\ e.cmp = m.cmp /\ e.after = m.after
BY DEF TookP, SortState

LEMMA TookQIs ==
    ASSUME NEW h, NEW m \in SortState, NEW e, e = TookQ(h, m)
    PROVE  /\ e.q = h.next[m.q] /\ e.qsize = m.qsize - 1 /\ e.tail = m.q
           /\ e.list = IF m.tail = NULL THEN m.q ELSE m.list
           /\ e.p = m.p /\ e.psize = m.psize /\ e.insize = m.insize /\ e.nmerges = m.nmerges
           /\ e.cmp = m.cmp /\ e.after = m.after
BY DEF TookQ, SortState

LEMMA JoinedIs ==
    ASSUME NEW n \in Nat, NEW h \in HeapOf(n + 1), NEW m, NEW w, Arranged(w, n), NEW a \in 0 .. n,
           m.tail = TailOf(w, a), NEW x \in Addr(n + 1), NEW g, g = Joined(h, m, x)
    PROVE  /\ g \in HeapOf(n + 1) /\ g.info = h.info /\ g.data = h.data
           /\ \A y \in Addr(n + 1) : (a = 0 \/ y # w[a]) => g.next[y] = h.next[y]
           /\ a > 0 => g.next[w[a]] = x
<1>1. CASE a = 0
  BY <1>1 DEF Joined, TailOf
<1>2. CASE a > 0
  <2>1. m.tail = w[a] /\ w[a] \in Addr(n + 1) /\ w[a] # NULL
    BY <1>2, ArrangedIs DEF TailOf
  <2>2. g = SetNext(h, w[a], x)
    BY <2>1 DEF Joined
  <2>3. g \in HeapOf(n + 1) /\ g.next = [h.next EXCEPT ![w[a]] = x] /\ g.info = h.info /\ g.data = h.data
    <3>1. PICK y : y = w[a]
      OBVIOUS
    <3>2. QED
      BY <2>1, <2>2, <3>1, SetNextIs
  <2>4. h.next \in [Addr(n + 1) -> Addr(n + 1) \cup {NULL}]
    BY DEF HeapOf
  <2>5. QED
    BY <1>2, <2>1, <2>3, <2>4
<1>3. QED
  BY <1>1, <1>2

LEMMA TakePKeepsLinks ==
    ASSUME NEW n \in Nat, NEW h \in HeapOf(n + 1), NEW m \in SortState, NEW w, NEW a,
           MergeAt(h, m, w, n, a), m.psize > 0,
           NEW g, g = Joined(h, m, m.p), NEW e, e = TookP(h, m)
    PROVE  /\ g \in HeapOf(n + 1) /\ g.info = h.info /\ g.data = h.data /\ e \in SortState
           /\ MergeAt(g, e, w, n, a + 1)
<1>0. /\ Arranged(w, n) /\ a \in 0 .. n /\ m.psize \in Nat /\ a + m.psize <= n /\ a + 1 \in 1 .. n
      /\ m.tail = TailOf(w, a)
  BY DEF MergeAt
<1>1. /\ m.p = w[a + 1] /\ m.p \in Addr(n + 1) /\ m.p # NULL
  BY <1>0, ArrangedIs DEF MergeAt
<1>2. /\ e.p = h.next[m.p] /\ e.psize = m.psize - 1 /\ e.tail = m.p
      /\ e.list = IF m.tail = NULL THEN m.p ELSE m.list
      /\ e.q = m.q /\ e.qsize = m.qsize /\ e.insize = m.insize /\ e.nmerges = m.nmerges
      /\ e.cmp = m.cmp /\ e.after = m.after
  BY TookPIs
<1>3. /\ g \in HeapOf(n + 1) /\ g.info = h.info /\ g.data = h.data
      /\ \A y \in Addr(n + 1) : (a = 0 \/ y # w[a]) => g.next[y] = h.next[y]
      /\ a > 0 => g.next[w[a]] = m.p
  BY <1>0, <1>1, JoinedIs
<1>4. \A i \in 1 .. n : i # a => g.next[w[i]] = h.next[w[i]]
  BY <1>0, <1>3, ArrangedIs
<1>5. h.next[m.p] \in Addr(n + 1) \cup {NULL}
  BY <1>1 DEF HeapOf
<1>6. e \in SortState
  <2>1. h.next[m.p] \in Int /\ m.p \in Int
    BY <1>1, <1>5 DEF Addr, NULL
  <2>2. m.psize - 1 \in Nat /\ m.list \in Int
    BY DEF SortState
  <2>3. PICK l \in Int : l = IF m.tail = NULL THEN m.p ELSE m.list
    BY <2>1, <2>2
  <2>4. PICK x \in Int, k \in Nat, y \in Int : x = h.next[m.p] /\ k = m.psize - 1 /\ y = m.p
    BY <2>1, <2>2
  <2>5. e = [m EXCEPT !.p = x, !.psize = k, !.tail = y, !.list = l]
    BY <2>3, <2>4 DEF TookP
  <2>6. QED
    BY <2>5, TookPState
<1>7. e.list = HeadOf(w, a + 1) /\ e.tail = TailOf(w, a + 1)
  <2>1. CASE a = 0
    BY <1>1, <1>2, <2>1 DEF HeadOf, TailOf, MergeAt
  <2>2. CASE a > 0
    <3>1. m.tail # NULL /\ m.list = w[1]
      BY <1>0, <2>2, ArrangedIs DEF TailOf, HeadOf, MergeAt
    <3>2. QED
      BY <1>0, <1>1, <1>2, <2>2, <3>1 DEF HeadOf, TailOf
  <2>3. QED
    BY <1>0, <2>1, <2>2
<1>8. Chained(g, w, 1, a + 1)
  <2>1. ASSUME NEW x \in 1 .. (a + 1) - 1 PROVE g.next[w[x]] = w[x + 1]
    <3>1. CASE x = a
      BY <1>1, <1>3, <3>1
    <3>2. CASE x # a
      BY <1>0, <1>4, <3>2 DEF MergeAt, Chained
    <3>3. QED
      BY <3>1, <3>2
  <2>2. QED
    BY <2>1 DEF Chained
<1>9. Chained(g, w, (a + 1) + 1, (a + 1) + e.psize)
  BY <1>0, <1>2, <1>4 DEF MergeAt, Chained
<1>10. Chained(g, w, (a + 1) + e.psize + 1, n)
  BY <1>0, <1>2, <1>4 DEF MergeAt, Chained
<1>11. (a + 1) + e.psize < n => g.next[w[n]] = NULL
  BY <1>0, <1>2, <1>4 DEF MergeAt
<1>12. e.psize > 0 => e.p = w[(a + 1) + 1]
  BY <1>0, <1>1, <1>2 DEF MergeAt, Chained
<1>13. e.q = From(w, n, (a + 1) + e.psize)
  <2>1. (a + 1) + e.psize = a + m.psize
    BY <1>0, <1>2
  <2>2. QED
    BY <1>2, <2>1 DEF MergeAt
<1>14. e.psize \in Nat /\ e.qsize \in Nat /\ (a + 1) + e.psize <= n /\ a + 1 \in 0 .. n
  BY <1>0, <1>2 DEF SortState
<1>15. MergeAt(g, e, w, n, a + 1)
  BY <1>0, <1>2, <1>5, <1>7, <1>8, <1>9, <1>10, <1>11, <1>12, <1>13, <1>14 DEF MergeAt
<1>16. QED
  BY <1>3, <1>6, <1>15

LEMMA TakeQKeepsLinks ==
    ASSUME NEW n \in Nat, NEW h \in HeapOf(n + 1), NEW m \in SortState, NEW w, NEW a,
           MergeAt(h, m, w, n, a), m.q # NULL, m.qsize > 0,
           NEW g, g = Joined(h, m, m.q), NEW e, e = TookQ(h, m),
           NEW v, v = Moved(w, n, a + m.psize + 1, a + 1)
    PROVE  /\ g \in HeapOf(n + 1) /\ g.info = h.info /\ g.data = h.data /\ e \in SortState
           /\ MergeAt(g, e, v, n, a + 1)
<1>0. /\ Arranged(w, n) /\ a \in 0 .. n /\ m.psize \in Nat /\ a + m.psize < n /\ a + 1 \in 1 .. n
      /\ m.tail = TailOf(w, a) /\ m.q = w[a + m.psize + 1] /\ a + m.psize + 1 \in 1 .. n
  BY DEF MergeAt, From
<1> DEFINE q == a + m.psize + 1
<1>a. q \in 1 .. n /\ a + 1 <= q /\ q = a + m.psize + 1
  BY <1>0
<1>b. /\ \A i, j \in 1 .. n : w[i] = w[j] => i = j
      /\ \A i \in 1 .. n : w[i] \in Addr(n + 1) /\ w[i] # NULL
  BY <1>0, ArrangedIs
<1>1. m.q = w[q] /\ m.q \in Addr(n + 1) /\ m.q # NULL
  BY <1>0, <1>b
<1> HIDE DEF q
<1>2. /\ e.q = h.next[m.q] /\ e.qsize = m.qsize - 1 /\ e.tail = m.q
      /\ e.list = IF m.tail = NULL THEN m.q ELSE m.list
      /\ e.p = m.p /\ e.psize = m.psize /\ e.insize = m.insize /\ e.nmerges = m.nmerges
      /\ e.cmp = m.cmp /\ e.after = m.after
  BY TookQIs
<1>3. /\ g \in HeapOf(n + 1) /\ g.info = h.info /\ g.data = h.data
      /\ \A y \in Addr(n + 1) : (a = 0 \/ y # w[a]) => g.next[y] = h.next[y]
      /\ a > 0 => g.next[w[a]] = m.q
  BY <1>0, <1>1, JoinedIs
<1>4. \A i \in 1 .. n : i # a => g.next[w[i]] = h.next[w[i]]
  BY <1>0, <1>3, <1>b
<1>5. h.next[m.q] \in Addr(n + 1) \cup {NULL}
  BY <1>1 DEF HeapOf
<1>6. e \in SortState
  <2>1. h.next[m.q] \in Int /\ m.q \in Int
    BY <1>1, <1>5 DEF Addr, NULL
  <2>2. m.qsize - 1 \in Nat /\ m.list \in Int
    BY DEF SortState
  <2>3. PICK l \in Int : l = IF m.tail = NULL THEN m.q ELSE m.list
    BY <2>1, <2>2
  <2>4. PICK x \in Int, k \in Nat, y \in Int : x = h.next[m.q] /\ k = m.qsize - 1 /\ y = m.q
    BY <2>1, <2>2
  <2>5. e = [m EXCEPT !.q = x, !.qsize = k, !.tail = y, !.list = l]
    BY <2>3, <2>4 DEF TookQ
  <2>6. QED
    BY <2>5, TookQState
<1>c. Arranged(v, n)
  <2>1. v = Moved(w, n, q, a + 1)
    BY DEF q
  <2>2. QED
    BY <1>0, <1>a, <2>1, MovedArranged
<1>d. \A x \in 1 .. n : v[x] = IF x = a + 1 THEN w[q] ELSE IF a + 1 < x /\ x <= q THEN w[x - 1] ELSE w[x]
  BY <1>a DEF Moved
<1>e. \A x \in 1 .. a : v[x] = w[x]
  BY <1>0, <1>d
<1>f. v[a + 1] = w[q]
  BY <1>0, <1>d
<1>g. \A x \in q + 1 .. n : v[x] = w[x]
  BY <1>0, <1>a, <1>d
<1>h. \A x \in a + 2 .. q : v[x] = w[x - 1]
  BY <1>0, <1>a, <1>d
<1>7. e.list = HeadOf(v, a + 1) /\ e.tail = TailOf(v, a + 1)
  <2>1. CASE a = 0
    BY <1>0, <1>1, <1>2, <1>f, <2>1 DEF HeadOf, TailOf
  <2>2. CASE a > 0
    <3>1. m.tail # NULL /\ m.list = w[1]
      BY <1>0, <1>b, <2>2 DEF TailOf, HeadOf, MergeAt
    <3>2. v[1] = w[1]
      BY <1>0, <1>e, <2>2
    <3>3. QED
      BY <1>0, <1>1, <1>2, <1>f, <2>2, <3>1, <3>2 DEF HeadOf, TailOf
  <2>3. QED
    BY <1>0, <2>1, <2>2
<1>8. Chained(g, v, 1, a + 1)
  <2>1. ASSUME NEW x \in 1 .. (a + 1) - 1 PROVE g.next[v[x]] = v[x + 1]
    <3>0. x \in 1 .. a /\ x \in 1 .. n
      BY <1>0
    <3>1. CASE x = a
      BY <1>1, <1>3, <1>e, <1>f, <3>0, <3>1
    <3>2. CASE x # a
      <4>1. x + 1 \in 1 .. a /\ x \in 1 .. a - 1
        BY <1>0, <3>0, <3>2
      <4>2. h.next[w[x]] = w[x + 1]
        BY <4>1 DEF MergeAt, Chained
      <4>3. QED
        BY <1>4, <1>e, <3>0, <3>2, <4>1, <4>2
    <3>3. QED
      BY <3>1, <3>2
  <2>2. QED
    BY <2>1 DEF Chained
<1>9. Chained(g, v, (a + 1) + 1, (a + 1) + e.psize)
  <2>1. ASSUME NEW x \in (a + 1) + 1 .. (a + 1) + e.psize - 1 PROVE g.next[v[x]] = v[x + 1]
    <3>1. x \in a + 2 .. q /\ x + 1 \in a + 2 .. q /\ x - 1 \in a + 1 .. a + m.psize - 1 /\ x - 1 \in 1 .. n
          /\ x - 1 # a /\ (x + 1) - 1 = x /\ (x - 1) + 1 = x
      BY <1>0, <1>2, <1>a
    <3>2. v[x] = w[x - 1] /\ v[x + 1] = w[x]
      BY <1>h, <3>1
    <3>3. h.next[w[x - 1]] = w[x]
      BY <3>1 DEF MergeAt, Chained
    <3>4. QED
      BY <1>4, <3>1, <3>2, <3>3
  <2>2. QED
    BY <1>0, <1>2, <2>1 DEF Chained
<1>10. Chained(g, v, (a + 1) + e.psize + 1, n)
  <2>1. ASSUME NEW x \in (a + 1) + e.psize + 1 .. n - 1 PROVE g.next[v[x]] = v[x + 1]
    <3>1. x \in q + 1 .. n /\ x + 1 \in q + 1 .. n /\ x \in a + m.psize + 1 .. n - 1 /\ x # a /\ x \in 1 .. n
      BY <1>0, <1>2, <1>a
    <3>2. h.next[w[x]] = w[x + 1]
      BY <3>1 DEF MergeAt, Chained
    <3>3. QED
      BY <1>4, <1>g, <3>1, <3>2
  <2>2. QED
    BY <2>1 DEF Chained
<1>11. (a + 1) + e.psize < n => g.next[v[n]] = NULL
  <2>1. SUFFICES ASSUME (a + 1) + e.psize < n PROVE g.next[v[n]] = NULL
    OBVIOUS
  <2>2. n \in q + 1 .. n /\ n # a /\ n \in 1 .. n
    BY <1>0, <1>2, <1>a, <2>1
  <2>3. h.next[w[n]] = NULL
    BY <1>0 DEF MergeAt
  <2>4. QED
    BY <1>4, <1>g, <2>2, <2>3
<1>12. e.p \in Addr(n + 1) \cup {NULL} /\ (e.psize > 0 => e.p = v[(a + 1) + 1])
  <2>1. ASSUME e.psize > 0 PROVE e.p = v[(a + 1) + 1]
    <3>1. a + 2 \in a + 2 .. q /\ (a + 2) - 1 = a + 1 /\ (a + 1) + 1 = a + 2
      BY <1>0, <1>2, <1>a, <2>1
    <3>2. v[a + 2] = w[a + 1]
      BY <1>h, <3>1
    <3>3. QED
      BY <1>2, <2>1, <3>1, <3>2 DEF MergeAt
  <2>2. QED
    BY <1>2, <2>1 DEF MergeAt
<1>13. e.q = From(v, n, (a + 1) + e.psize)
  <2>1. (a + 1) + e.psize = q
    BY <1>0, <1>2, <1>a
  <2>2. CASE q < n
    <3>1. q \in a + m.psize + 1 .. n - 1 /\ q + 1 \in q + 1 .. n
      BY <1>0, <1>a, <2>2
    <3>2. h.next[w[q]] = w[q + 1]
      BY <3>1 DEF MergeAt, Chained
    <3>3. QED
      BY <1>1, <1>2, <1>g, <2>1, <2>2, <3>1, <3>2 DEF From
  <2>3. CASE q = n
    <3>1. h.next[w[n]] = NULL
      BY <1>0 DEF MergeAt
    <3>2. QED
      BY <1>1, <1>2, <2>1, <2>3, <3>1 DEF From
  <2>4. QED
    BY <1>a, <2>2, <2>3
<1>14. e.psize \in Nat /\ e.qsize \in Nat /\ (a + 1) + e.psize <= n /\ a + 1 \in 0 .. n
  BY <1>0, <1>2 DEF SortState
<1>15. MergeAt(g, e, v, n, a + 1)
  BY <1>7, <1>8, <1>9, <1>10, <1>11, <1>12, <1>13, <1>14, <1>c DEF MergeAt
<1>16. QED
  BY <1>3, <1>6, <1>15

-----------------------------------------------------------------------------
(* What is sorted, after which merges.                                      *)

Mult(c, k) == c * k
LEMMA MultIs ==
    ASSUME NEW c \in Nat, NEW k \in Nat
    PROVE  /\ Mult(c, k) \in Nat /\ Mult(0, k) = 0 /\ Mult(1, k) = k
           /\ Mult(c + 1, k) = Mult(c, k) + k
           /\ Mult(2 * c, k) = Mult(c, 2 * k) /\ Mult(2 * c + 1, k) = Mult(c, 2 * k) + k
BY DEF Mult
LEMMA MultLess ==
    ASSUME NEW c \in Nat, NEW d \in Nat, NEW k \in Nat, c < d
    PROVE  Mult(c + 1, k) <= Mult(d, k)
<1>1. PICK e \in Nat : d = c + 1 + e
  <2>1. d - c - 1 \in Nat /\ d = c + 1 + (d - c - 1)
    OBVIOUS
  <2>2. QED
    BY <2>1
<1>2. e * k \in Nat
  OBVIOUS
<1>3. d * k = (c + 1) * k + e * k
  BY <1>1
<1>4. (c + 1) * k \in Nat
  OBVIOUS
<1>5. QED
  BY <1>2, <1>3, <1>4 DEF Mult

\* Places i and j belong to one run of k.
SameRun(i, j, k) == \E c \in Nat : Mult(c, k) < i /\ j <= Mult(c + 1, k)

LEMMA RunOfOne == ASSUME NEW i \in Int, NEW j \in Int, i < j PROVE ~ SameRun(i, j, 1)
BY MultIs DEF SameRun, Mult

LEMMA RunsEndAt ==
    ASSUME NEW i \in Int, NEW j \in Int, NEW k \in Nat, NEW c \in Nat,
           i <= Mult(c, k), Mult(c, k) < j
    PROVE  ~ SameRun(i, j, k)
<1>1. SUFFICES ASSUME NEW d \in Nat, Mult(d, k) < i, j <= Mult(d + 1, k) PROVE FALSE
  BY DEF SameRun
<1>2. Mult(c, k) \in Nat /\ Mult(d, k) \in Nat /\ Mult(d + 1, k) = Mult(d, k) + k
  BY MultIs
<1>3. CASE d < c
  <2>1. Mult(d + 1, k) <= Mult(c, k)
    BY <1>3, MultLess
  <2>2. QED
    BY <1>1, <1>2, <2>1
<1>4. CASE d = c
  BY <1>1, <1>2, <1>4
<1>5. CASE c < d
  <2>1. Mult(c + 1, k) <= Mult(d, k) /\ Mult(c + 1, k) = Mult(c, k) + k
    BY <1>5, MultLess, MultIs
  <2>2. QED
    BY <1>1, <1>2, <2>1
<1>6. QED
  BY <1>3, <1>4, <1>5

LEMMA InRun ==
    ASSUME NEW i \in Int, NEW j \in Int, NEW k \in Nat, NEW c \in Nat,
           Mult(c, k) < i, j <= Mult(c, k) + k
    PROVE  SameRun(i, j, k)
BY MultIs DEF SameRun

\* Comparing by cmp has settled the data of an item, and its key.
Settled(x, cmp) == IF cmp = "idx" THEN x.data16 = 257 * HighByte(x.data16)
                                  ELSE Field(x.data16, 7, 1) = 1
KeyOf(x, cmp)   == IF cmp = "idx" THEN x.idx ELSE x.data16 % 128
\* x comes before y, and of one key before it if it did when the sort began.
Ord(d, cmp, r, x, y) ==
    /\ Settled(d[x], cmp) /\ Settled(d[y], cmp)
    /\ \/ KeyOf(d[x], cmp) < KeyOf(d[y], cmp)
       \/ KeyOf(d[x], cmp) = KeyOf(d[y], cmp) /\ r[x] < r[y]
Ranks(r, n) == r \in [Addr(n) -> 1 .. n]

LEMMA KeyType == ASSUME NEW x \in Datum, NEW cmp PROVE KeyOf(x, cmp) \in Int
BY DEF Datum, KeyOf

LEMMA OrdTransitive ==
    ASSUME NEW n \in Nat, NEW d \in [Addr(n + 1) -> Datum], NEW cmp, NEW r, Ranks(r, n),
           NEW x \in Addr(n), NEW y \in Addr(n), NEW v \in Addr(n),
           Ord(d, cmp, r, x, y), Ord(d, cmp, r, y, v)
    PROVE  Ord(d, cmp, r, x, v)
<1>1. x \in Addr(n + 1) /\ y \in Addr(n + 1) /\ v \in Addr(n + 1)
  BY DEF Addr
<1>2. KeyOf(d[x], cmp) \in Int /\ KeyOf(d[y], cmp) \in Int /\ KeyOf(d[v], cmp) \in Int
  BY <1>1, KeyType
<1>3. r[x] \in Int /\ r[y] \in Int /\ r[v] \in Int
  BY DEF Ranks
<1>4. QED
  BY <1>2, <1>3 DEF Ord

Before(r, x, y) == r[x] < r[y]

\* Between passes: a places hold runs of 2 * k, the others runs of k.
OneRun(i, j, k, a) == (j <= a /\ SameRun(i, j, 2 * k)) \/ (a < i /\ SameRun(i, j, k))
TwoRuns(i, j, k, a) ==
    (j <= a /\ ~SameRun(i, j, 2 * k)) \/ (i <= a /\ a < j) \/ (a < i /\ ~SameRun(i, j, k))
SortedRuns(d, cmp, r, w, n, k, nm, a) ==
    /\ a = Min2(Mult(nm, 2 * k), n)
    /\ \A i, j \in 1 .. n : i < j =>
          /\ OneRun(i, j, k, a) => Ord(d, cmp, r, w[i], w[j])
          /\ TwoRuns(i, j, k, a) => Before(r, w[i], w[j])

\* During a merge: what b and e bound is being merged, of which the places to
\* a are, and the next t are the rest of the first run.
Together(i, j, k, b, a, t, e) ==
    \/ j <= b /\ SameRun(i, j, 2 * k)
    \/ b < i /\ j <= e /\ (i <= a \/ j <= a + t \/ a + t < i)
    \/ e < i /\ SameRun(i, j, k)
Separate(i, j, k, b, a, t, e) ==
    \/ j <= b /\ ~SameRun(i, j, 2 * k)
    \/ i <= b /\ b < j
    \/ a < i /\ i <= a + t /\ a + t < j /\ j <= e
    \/ i <= e /\ e < j
    \/ e < i /\ ~SameRun(i, j, k)
MergedRuns(d, cmp, r, w, n, k, nm, b, a, t, e) ==
    /\ b \in Nat /\ b <= a /\ a + t <= e /\ e = Min2(b + 2 * k, n)
    /\ nm >= 1 /\ b = Mult(nm - 1, 2 * k)
    /\ \A i, j \in 1 .. n : i < j =>
          /\ Together(i, j, k, b, a, t, e) => Ord(d, cmp, r, w[i], w[j])
          /\ Separate(i, j, k, b, a, t, e) => Before(r, w[i], w[j])

LEMMA StartSorted ==
    ASSUME NEW d, NEW cmp, NEW n \in Nat, NEW w, Arranged(w, n), NEW r,
           \A i \in 1 .. n : r[w[i]] = i
    PROVE  SortedRuns(d, cmp, r, w, n, 1, 0, 0)
<1>1. Mult(0, 2 * 1) = 0 /\ Min2(0, n) = 0
  BY MultIs DEF Min2
<1>2. \A i, j \in 1 .. n : i < j => ~SameRun(i, j, 1) /\ Before(r, w[i], w[j])
  BY RunOfOne DEF Before
<1>3. QED
  BY <1>1, <1>2 DEF SortedRuns, OneRun, TwoRuns

LEMMA StartMergeSorted ==
    ASSUME NEW d, NEW cmp, NEW r, NEW w, NEW n \in Nat, NEW k \in Nat, k >= 1, NEW nm \in Nat,
           NEW a \in Nat, a < n, SortedRuns(d, cmp, r, w, n, k, nm, a),
           NEW t, t = Min2(k, n - a), NEW e, e = Min2(a + 2 * k, n)
    PROVE  MergedRuns(d, cmp, r, w, n, k, nm + 1, a, a, t, e)
<1>1. /\ a = Mult(nm, 2 * k) /\ a = Mult(2 * nm, k) /\ Mult(2 * nm + 1, k) = a + k
      /\ Mult(2 * nm + 2, k) = a + 2 * k /\ Mult(nm + 1, 2 * k) = a + 2 * k
  <2>1. a = Mult(nm, 2 * k)
    <3>1. Mult(nm, 2 * k) \in Nat
      BY MultIs
    <3>2. QED
      BY <3>1 DEF SortedRuns, Min2
  <2>2. Mult(2 * nm, k) = Mult(nm, 2 * k) /\ Mult(2 * nm + 1, k) = Mult(nm, 2 * k) + k
    BY MultIs
  <2>3. Mult((2 * nm + 1) + 1, k) = Mult(2 * nm + 1, k) + k /\ Mult(nm + 1, 2 * k) = Mult(nm, 2 * k) + 2 * k
    BY MultIs
  <2>4. (2 * nm + 1) + 1 = 2 * nm + 2
    OBVIOUS
  <2>5. QED
    BY <2>1, <2>2, <2>3, <2>4
<1>2. t \in Nat /\ e \in Nat /\ a + t <= e /\ e <= n /\ e <= a + 2 * k /\ (t < k => a + t = n) /\ t <= k
      /\ (e < n => e = a + 2 * k)
  BY DEF Min2
<1>3. (nm + 1) - 1 = nm /\ nm + 1 >= 1
  OBVIOUS
<1>4. ASSUME NEW i \in 1 .. n, NEW j \in 1 .. n, i < j
      PROVE  /\ a < i /\ j <= a + t => SameRun(i, j, k)
             /\ a + t < i /\ j <= e => SameRun(i, j, k)
             /\ a < i /\ i <= a + t /\ a + t < j => ~SameRun(i, j, k)
             /\ a < i /\ i <= e /\ e < j => ~SameRun(i, j, k)
  <2>1. a < i /\ j <= a + t => SameRun(i, j, k)
    <3>1. a < i /\ j <= a + t => Mult(2 * nm, k) < i /\ j <= Mult(2 * nm, k) + k
      BY <1>1, <1>2
    <3>2. 2 * nm \in Nat
      OBVIOUS
    <3>3. QED
      BY <3>1, <3>2, InRun
  <2>2. a + t < i /\ j <= e => SameRun(i, j, k)
    <3>1. a + t < i /\ j <= e => Mult(2 * nm + 1, k) < i /\ j <= Mult(2 * nm + 1, k) + k
      BY <1>1, <1>2
    <3>2. 2 * nm + 1 \in Nat
      OBVIOUS
    <3>3. QED
      BY <3>1, <3>2, InRun
  <2>3. a < i /\ i <= a + t /\ a + t < j => ~SameRun(i, j, k)
    <3>1. a < i /\ i <= a + t /\ a + t < j => i <= Mult(2 * nm + 1, k) /\ Mult(2 * nm + 1, k) < j
      BY <1>1, <1>2
    <3>2. 2 * nm + 1 \in Nat
      OBVIOUS
    <3>3. QED
      BY <3>1, <3>2, RunsEndAt
  <2>4. a < i /\ i <= e /\ e < j => ~SameRun(i, j, k)
    <3>1. a < i /\ i <= e /\ e < j => i <= Mult(2 * nm + 2, k) /\ Mult(2 * nm + 2, k) < j
      BY <1>1, <1>2
    <3>2. 2 * nm + 2 \in Nat
      OBVIOUS
    <3>3. QED
      BY <3>1, <3>2, RunsEndAt
  <2>5. QED
    BY <2>1, <2>2, <2>3, <2>4
<1>5. ASSUME NEW i \in 1 .. n, NEW j \in 1 .. n, i < j
      PROVE  /\ Together(i, j, k, a, a, t, e) => Ord(d, cmp, r, w[i], w[j])
             /\ Separate(i, j, k, a, a, t, e) => Before(r, w[i], w[j])
  <2>1. /\ OneRun(i, j, k, a) => Ord(d, cmp, r, w[i], w[j])
        /\ TwoRuns(i, j, k, a) => Before(r, w[i], w[j])
    BY <1>5 DEF SortedRuns
  <2>2. /\ Together(i, j, k, a, a, t, e) => OneRun(i, j, k, a)
        /\ Separate(i, j, k, a, a, t, e) => TwoRuns(i, j, k, a)
    BY <1>2, <1>4, <1>5 DEF OneRun, TwoRuns, Together, Separate
  <2>3. QED
    BY <2>1, <2>2
<1>6. QED
  BY <1>1, <1>2, <1>3, <1>5 DEF MergedRuns

LEMMA NextRunSorted ==
    ASSUME NEW d, NEW cmp, NEW r, NEW w, NEW n \in Nat, NEW k \in Nat, k >= 1, NEW nm \in Nat,
           NEW b, NEW a, NEW e, MergedRuns(d, cmp, r, w, n, k, nm, b, a, 0, e), a \in Nat, a = e
    PROVE  SortedRuns(d, cmp, r, w, n, k, nm, a)
<1>1. /\ b \in Nat /\ b <= a /\ a = Min2(b + 2 * k, n) /\ b = Mult(nm - 1, 2 * k) /\ nm >= 1
  BY DEF MergedRuns
<1>2. Mult(nm, 2 * k) = b + 2 * k
  <2>1. nm - 1 \in Nat /\ (nm - 1) + 1 = nm
    BY <1>1
  <2>2. QED
    BY <1>1, <2>1, MultIs
<1>3. ASSUME NEW i \in 1 .. n, NEW j \in 1 .. n, i < j
      PROVE  /\ b < i /\ j <= a => SameRun(i, j, 2 * k)
             /\ i <= b /\ b < j => ~SameRun(i, j, 2 * k)
  <2>1. nm - 1 \in Nat /\ 2 * k \in Nat
    BY <1>1
  <2>2. b < i /\ j <= a => Mult(nm - 1, 2 * k) < i /\ j <= Mult(nm - 1, 2 * k) + 2 * k
    BY <1>1 DEF Min2
  <2>3. b < i /\ j <= a => SameRun(i, j, 2 * k)
    BY <2>1, <2>2, InRun
  <2>4. i <= b /\ b < j => ~SameRun(i, j, 2 * k)
    BY <1>1, <2>1, RunsEndAt
  <2>5. QED
    BY <2>3, <2>4
<1>4. ASSUME NEW i \in 1 .. n, NEW j \in 1 .. n, i < j
      PROVE  /\ OneRun(i, j, k, a) => Ord(d, cmp, r, w[i], w[j])
             /\ TwoRuns(i, j, k, a) => Before(r, w[i], w[j])
  <2>1. /\ Together(i, j, k, b, a, 0, e) => Ord(d, cmp, r, w[i], w[j])
        /\ Separate(i, j, k, b, a, 0, e) => Before(r, w[i], w[j])
    BY <1>4 DEF MergedRuns
  <2>2. /\ OneRun(i, j, k, a) => Together(i, j, k, b, a, 0, e)
        /\ TwoRuns(i, j, k, a) => Separate(i, j, k, b, a, 0, e)
    BY <1>1, <1>3, <1>4 DEF OneRun, TwoRuns, Together, Separate
  <2>3. QED
    BY <2>1, <2>2
<1>5. QED
  BY <1>1, <1>2, <1>4 DEF SortedRuns

LEMMA NextPassSorted ==
    ASSUME NEW d, NEW cmp, NEW r, NEW w, NEW n \in Nat, NEW k \in Nat, NEW nm \in Nat,
           SortedRuns(d, cmp, r, w, n, k, nm, n)
    PROVE  SortedRuns(d, cmp, r, w, n, 2 * k, 0, 0)
<1>1. Mult(0, 2 * (2 * k)) = 0 /\ Min2(0, n) = 0
  BY MultIs DEF Min2
<1>2. QED
  BY <1>1 DEF SortedRuns, OneRun, TwoRuns

LEMMA LastPassSorted ==
    ASSUME NEW d, NEW cmp, NEW r, NEW w, NEW n \in Nat, n >= 1, NEW k \in Nat, NEW nm \in Nat, nm <= 1,
           SortedRuns(d, cmp, r, w, n, k, nm, n)
    PROVE  \A i, j \in 1 .. n : i < j => Ord(d, cmp, r, w[i], w[j])
<1>1. Mult(0, 2 * k) = 0 /\ Mult(1, 2 * k) = 2 * k
  BY MultIs
<1>2. nm = 1 /\ n <= 2 * k
  BY <1>1 DEF SortedRuns, Min2
<1>3. \A i, j \in 1 .. n : i < j => SameRun(i, j, 2 * k)
  BY <1>1, <1>2, InRun
<1>4. QED
  BY <1>3 DEF SortedRuns, OneRun

LEMMA RunsBounds ==
    ASSUME NEW d, NEW cmp, NEW r, NEW w, NEW n \in Nat, NEW k \in Nat, NEW nm \in Nat,
           NEW b, NEW a \in Nat, NEW t \in Nat, NEW e, MergedRuns(d, cmp, r, w, n, k, nm, b, a, t, e)
    PROVE  b \in Nat /\ b <= a /\ a + t <= e /\ e <= n /\ e \in Nat
BY DEF MergedRuns, Min2

LEMMA TakePSorted ==
    ASSUME NEW n \in Nat, NEW d \in [Addr(n + 1) -> Datum], NEW cmp, NEW r, Ranks(r, n), NEW w,
           Arranged(w, n), NEW k \in Nat, NEW nm \in Nat, NEW b, NEW a \in Nat, NEW t \in Nat, NEW e,
           MergedRuns(d, cmp, r, w, n, k, nm, b, a, t, e), t > 0,
           a + t < e => Ord(d, cmp, r, w[a + 1], w[a + t + 1])
    PROVE  MergedRuns(d, cmp, r, w, n, k, nm, b, a + 1, t - 1, e)
<1>1. b \in Nat /\ b <= a /\ a + t <= e /\ e <= n /\ e \in Nat
  BY RunsBounds
<1>2. \A i \in 1 .. n : w[i] \in Addr(n)
  BY ArrangedIs
<1>3. ASSUME NEW i \in 1 .. n, NEW j \in 1 .. n, i < j, Together(i, j, k, b, a + 1, t - 1, e)
      PROVE  Ord(d, cmp, r, w[i], w[j])
  <2>1. CASE Together(i, j, k, b, a, t, e)
    BY <1>3, <2>1 DEF MergedRuns
  <2>2. CASE ~Together(i, j, k, b, a, t, e)
    <3>1. i = a + 1 /\ a + t < j /\ j <= e
      BY <1>1, <1>3, <2>2 DEF Together
    <3>2. Ord(d, cmp, r, w[a + 1], w[a + t + 1])
      BY <1>1, <3>1
    <3>3. CASE j = a + t + 1
      BY <3>1, <3>2, <3>3
    <3>4. CASE j # a + t + 1
      <4>1. a + t + 1 \in 1 .. n /\ a + t + 1 < j /\ Together(a + t + 1, j, k, b, a, t, e)
        BY <1>1, <3>1, <3>4 DEF Together
      <4>2. Ord(d, cmp, r, w[a + t + 1], w[j])
        BY <4>1 DEF MergedRuns
      <4>3. w[i] \in Addr(n) /\ w[j] \in Addr(n) /\ w[a + t + 1] \in Addr(n)
        BY <1>2, <4>1
      <4>4. PICK x \in Addr(n), y \in Addr(n), v \in Addr(n) : x = w[i] /\ y = w[a + t + 1] /\ v = w[j]
        BY <4>3
      <4>5. Ord(d, cmp, r, x, y) /\ Ord(d, cmp, r, y, v)
        BY <3>1, <3>2, <4>2, <4>4
      <4>6. Ord(d, cmp, r, x, v)
        BY <4>5, OrdTransitive
      <4>7. QED
        BY <4>4, <4>6
    <3>5. QED
      BY <3>3, <3>4
  <2>3. QED
    BY <2>1, <2>2
<1>4. ASSUME NEW i \in 1 .. n, NEW j \in 1 .. n, i < j, Separate(i, j, k, b, a + 1, t - 1, e)
      PROVE  Before(r, w[i], w[j])
  <2>1. Separate(i, j, k, b, a, t, e)
    BY <1>1, <1>4 DEF Separate
  <2>2. QED
    BY <1>4, <2>1 DEF MergedRuns
<1>5. /\ b \in Nat /\ b <= a + 1 /\ (a + 1) + (t - 1) <= e /\ e = Min2(b + 2 * k, n)
      /\ nm >= 1 /\ b = Mult(nm - 1, 2 * k)
  BY <1>1 DEF MergedRuns
<1>6. QED
  BY <1>3, <1>4, <1>5 DEF MergedRuns

LEMMA TakeQSorted ==
    ASSUME NEW n \in Nat, NEW d \in [Addr(n + 1) -> Datum], NEW cmp, NEW r, Ranks(r, n), NEW w,
           Arranged(w, n), NEW k \in Nat, NEW nm \in Nat, NEW b, NEW a \in Nat, NEW t \in Nat, NEW e,
           MergedRuns(d, cmp, r, w, n, k, nm, b, a, t, e), a + t < e,
           t > 0 => Ord(d, cmp, r, w[a + t + 1], w[a + 1]),
           NEW v, v = Moved(w, n, a + t + 1, a + 1)
    PROVE  MergedRuns(d, cmp, r, v, n, k, nm, b, a + 1, t, e)
<1>1. b \in Nat /\ b <= a /\ a + t <= e /\ e <= n /\ e \in Nat
  BY RunsBounds
<1>2. \A i \in 1 .. n : w[i] \in Addr(n)
  BY ArrangedIs
\* where the node at place i of v comes from
<1> DEFINE q == a + t + 1
           s(i) == IF i = a + 1 THEN q ELSE IF a + 1 < i /\ i <= q THEN i - 1 ELSE i
<1>3. ASSUME NEW i \in 1 .. n PROVE s(i) \in 1 .. n /\ v[i] = w[s(i)]
  <2>1. s(i) \in 1 .. n
    BY <1>1
  <2>2. v[i] = w[s(i)]
    BY <2>1 DEF Moved
  <2>3. QED
    BY <2>1, <2>2
<1>4. q \in 1 .. n /\ q \in Nat /\ q = a + t + 1
  BY <1>1
<1>5. \A i \in 1 .. n : /\ i = a + 1 => s(i) = q
                        /\ a + 1 < i /\ i <= q => s(i) = i - 1
                        /\ i < a + 1 \/ q < i => s(i) = i
  BY <1>4
<1> HIDE DEF s, q
<1>6. ASSUME NEW i \in 1 .. n, NEW j \in 1 .. n, i < j, Together(i, j, k, b, a + 1, t, e)
      PROVE  Ord(d, cmp, r, v[i], v[j])
  <2>0. s(i) \in 1 .. n /\ s(j) \in 1 .. n /\ v[i] = w[s(i)] /\ v[j] = w[s(j)]
    BY <1>3
  <2>1. CASE s(i) < s(j) /\ Together(s(i), s(j), k, b, a, t, e)
    BY <2>0, <2>1 DEF MergedRuns
  <2>2. CASE ~ (s(i) < s(j) /\ Together(s(i), s(j), k, b, a, t, e))
    <3>1. i = a + 1 /\ s(i) = q /\ j <= q /\ s(j) = j - 1 /\ t > 0
      <4>1. CASE i = a + 1
        <5>1. CASE j <= q
          BY <1>1, <1>4, <1>5, <1>6, <4>1, <5>1
        <5>2. CASE j > q
          <6>1. s(i) = q /\ s(j) = j /\ j <= e /\ b < i
            BY <1>1, <1>4, <1>5, <1>6, <4>1, <5>2 DEF Together
          <6>2. Together(q, j, k, b, a, t, e)
            BY <1>1, <1>4, <6>1, <4>1 DEF Together
          <6>3. QED
            BY <2>2, <5>2, <6>1, <6>2, <1>4
        <5>3. QED
          BY <1>4, <5>1, <5>2
      <4>2. CASE i < a + 1
        <5>1. s(i) = i
          BY <1>5, <4>2
        <5>2. s(j) > i
          BY <1>1, <1>4, <1>5, <1>6, <4>2
        <5>3. CASE b < i
          <6>1. j <= e
            BY <1>1, <1>6, <4>2, <5>3 DEF Together
          <6>2. s(j) <= e
            BY <1>1, <1>4, <1>5, <6>1
          <6>3. Together(i, s(j), k, b, a, t, e)
            BY <1>1, <2>0, <4>2, <5>3, <6>2 DEF Together
          <6>4. QED
            BY <2>2, <5>1, <5>2, <6>3, <2>0
        <5>4. CASE i <= b
          <6>1. j <= b /\ SameRun(i, j, 2 * k)
            BY <1>1, <1>6, <5>4 DEF Together
          <6>2. s(j) = j
            BY <1>1, <1>5, <6>1
          <6>3. Together(i, j, k, b, a, t, e)
            BY <6>1 DEF Together
          <6>4. QED
            BY <1>6, <2>2, <5>1, <6>2, <6>3
        <5>5. QED
          BY <1>1, <5>3, <5>4
      <4>3. CASE i > a + 1
        <5>1. CASE j <= e
          <6>1. b < i /\ (j <= q \/ q < i)
            BY <1>1, <1>4, <1>6, <4>3, <5>1 DEF Together
          <6>2. CASE j <= q
            <7>1. s(i) = i - 1 /\ s(j) = j - 1
              BY <1>4, <1>5, <1>6, <4>3, <6>2
            <7>2. Together(i - 1, j - 1, k, b, a, t, e)
              BY <1>1, <1>4, <4>3, <5>1, <6>2 DEF Together
            <7>3. QED
              BY <1>6, <2>2, <7>1, <7>2
          <6>3. CASE q < i
            <7>1. s(i) = i /\ s(j) = j
              BY <1>4, <1>5, <1>6, <6>3
            <7>2. Together(i, j, k, b, a, t, e)
              BY <1>1, <1>4, <6>1, <6>3, <5>1 DEF Together
            <7>3. QED
              BY <1>6, <2>2, <7>1, <7>2
          <6>4. QED
            BY <6>1, <6>2, <6>3
        <5>2. CASE j > e
          <6>1. e < i /\ SameRun(i, j, k)
            BY <1>1, <1>6, <4>3, <5>2 DEF Together
          <6>2. s(i) = i /\ s(j) = j
            BY <1>1, <1>4, <1>5, <1>6, <6>1
          <6>3. Together(i, j, k, b, a, t, e)
            BY <6>1 DEF Together
          <6>4. QED
            BY <1>6, <2>2, <6>2, <6>3
        <5>3. QED
          BY <1>1, <5>1, <5>2
      <4>4. QED
        BY <4>1, <4>2, <4>3
    <3>2. Ord(d, cmp, r, w[q], w[a + 1])
      BY <1>4, <3>1
    <3>3. CASE j = a + 2
      <4>1. s(j) = a + 1
        BY <3>1, <3>3
      <4>2. QED
        BY <2>0, <3>1, <3>2, <4>1
    <3>4. CASE j # a + 2
      <4>1. a + 1 \in 1 .. n /\ a + 1 < s(j) /\ Together(a + 1, s(j), k, b, a, t, e)
        BY <1>1, <1>4, <1>6, <3>1, <3>4 DEF Together
      <4>2. Ord(d, cmp, r, w[a + 1], w[s(j)])
        BY <2>0, <4>1 DEF MergedRuns
      <4>3. w[q] \in Addr(n) /\ w[s(j)] \in Addr(n) /\ w[a + 1] \in Addr(n)
        BY <1>2, <1>4, <2>0, <4>1
      <4>4. PICK x \in Addr(n), y \in Addr(n), u \in Addr(n) : x = w[q] /\ y = w[a + 1] /\ u = w[s(j)]
        BY <4>3
      <4>5. Ord(d, cmp, r, x, y) /\ Ord(d, cmp, r, y, u)
        BY <3>2, <4>2, <4>4
      <4>6. Ord(d, cmp, r, x, u)
        BY <4>5, OrdTransitive
      <4>7. QED
        BY <2>0, <3>1, <4>4, <4>6
    <3>5. QED
      BY <3>3, <3>4
  <2>3. QED
    BY <2>1, <2>2
<1>7. ASSUME NEW i \in 1 .. n, NEW j \in 1 .. n, i < j, Separate(i, j, k, b, a + 1, t, e)
      PROVE  Before(r, v[i], v[j])
  <2>0. s(i) \in 1 .. n /\ s(j) \in 1 .. n /\ v[i] = w[s(i)] /\ v[j] = w[s(j)]
    BY <1>3
  <2>a. \A x \in 1 .. n : /\ x <= b => s(x) = x
                          /\ e < x => s(x) = x
                          /\ b < x /\ x <= e => b < s(x) /\ s(x) <= e
    BY <1>1, <1>4, <1>5
  <2>1. s(i) < s(j) /\ Separate(s(i), s(j), k, b, a, t, e)
    <3>1. CASE j <= b
      <4>1. ~SameRun(i, j, 2 * k)
        BY <1>1, <1>7, <3>1 DEF Separate
      <4>2. s(i) = i /\ s(j) = j
        BY <1>1, <1>7, <2>a, <3>1
      <4>3. QED
        BY <1>7, <3>1, <4>1, <4>2 DEF Separate
    <3>2. CASE i <= b /\ b < j
      BY <1>1, <1>7, <2>0, <2>a, <3>2 DEF Separate
    <3>3. CASE b < i /\ j <= e
      <4>1. a + 1 < i /\ i <= q /\ q < j
        BY <1>1, <1>4, <1>7, <3>3 DEF Separate
      <4>2. s(i) = i - 1 /\ s(j) = j
        BY <1>5, <4>1
      <4>3. QED
        BY <1>1, <1>4, <3>3, <4>1, <4>2 DEF Separate
    <3>4. CASE b < i /\ i <= e /\ e < j
      BY <1>1, <1>7, <2>0, <2>a, <3>4 DEF Separate
    <3>5. CASE e < i
      <4>1. ~SameRun(i, j, k)
        BY <1>1, <1>4, <1>7, <3>5 DEF Separate
      <4>2. s(i) = i /\ s(j) = j
        BY <1>1, <1>7, <2>a, <3>5
      <4>3. QED
        BY <1>7, <3>5, <4>1, <4>2 DEF Separate
    <3>6. QED
      BY <1>1, <1>7, <3>1, <3>2, <3>3, <3>4, <3>5
  <2>2. QED
    BY <2>0, <2>1 DEF MergedRuns
<1>8. /\ b \in Nat /\ b <= a + 1 /\ (a + 1) + t <= e /\ e = Min2(b + 2 * k, n)
      /\ nm >= 1 /\ b = Mult(nm - 1, 2 * k)
  BY <1>1 DEF MergedRuns
<1>9. QED
  BY <1>6, <1>7, <1>8 DEF MergedRuns

\* Settling the data of an item leaves the settled ones as they are.
Settles(d, g, n, cmp) ==
    \A x \in Addr(n) : Settled(d[x], cmp) => g[x] = d[x]

LEMMA OrdKept ==
    ASSUME NEW n \in Nat, NEW d, NEW g, NEW cmp, Settles(d, g, n, cmp), NEW r,
           NEW x \in Addr(n), NEW y \in Addr(n), Ord(d, cmp, r, x, y)
    PROVE  Ord(g, cmp, r, x, y)
BY DEF Settles, Ord

LEMMA MergedRunsKept ==
    ASSUME NEW n \in Nat, NEW d, NEW g, NEW cmp, Settles(d, g, n, cmp), NEW r, NEW w, Arranged(w, n),
           NEW k, NEW nm, NEW b, NEW a, NEW t, NEW e, MergedRuns(d, cmp, r, w, n, k, nm, b, a, t, e)
    PROVE  MergedRuns(g, cmp, r, w, n, k, nm, b, a, t, e)
<1>1. ASSUME NEW i \in 1 .. n, NEW j \in 1 .. n, i < j, Together(i, j, k, b, a, t, e)
      PROVE  Ord(g, cmp, r, w[i], w[j])
  <2>1. Ord(d, cmp, r, w[i], w[j])
    BY <1>1 DEF MergedRuns
  <2>2. w[i] \in Addr(n) /\ w[j] \in Addr(n)
    BY ArrangedIs
  <2>3. PICK x \in Addr(n), y \in Addr(n) : x = w[i] /\ y = w[j]
    BY <2>2
  <2>4. Ord(g, cmp, r, x, y)
    BY <2>1, <2>3, OrdKept
  <2>5. QED
    BY <2>3, <2>4
<1>2. QED
  BY <1>1 DEF MergedRuns

-----------------------------------------------------------------------------
(* What the kernels return.                                                 *)

LEMMA ZeroInWord16 == 0 \in Word16
BY InWord16

SumStep(t, cur, clipval) ==
    IF t.tmp + cur > clipval
    THEN [ret |-> t.ret + 10, tmp |-> 0, prev |-> cur]
    ELSE [ret |-> t.ret + (IF cur > t.prev THEN 1 ELSE 0), tmp |-> t.tmp + cur, prev |-> cur]
SumStart == [ret |-> 0, tmp |-> 0, prev |-> 0]

LEMMA MatrixSumType ==
    ASSUME NEW C, NEW n \in Nat, NEW clipval PROVE matrix_sum(C, n, clipval) \in Int
<1> DEFINE step(f, k) == IF k = 0 THEN SumStart ELSE SumStep(f[k - 1], C[k - 1], clipval)
           Def(f, j) == f = [k \in 0 .. j |-> step(f, k)]
           S == {j \in Nat : \E f : Def(f, j)}
           s == CHOOSE f : Def(f, n)
<1>1. 0 \in S
  <2> DEFINE f == [k \in 0 .. 0 |-> SumStart]
  <2>1. \A k \in 0 .. 0 : step(f, k) = SumStart
    OBVIOUS
  <2> HIDE DEF step
  <2>2. Def(f, 0)
    BY <2>1
  <2>3. QED
    BY <2>2
<1>2. ASSUME NEW j \in Nat, j \in S PROVE j + 1 \in S
  <2>1. PICK f : Def(f, j)
    BY <1>2
  <2> DEFINE g == [k \in 0 .. j + 1 |-> IF k <= j THEN f[k] ELSE step(f, k)]
  <2>2. \A k \in 0 .. j : f[k] = step(f, k)
    <3> HIDE DEF step
    <3>1. QED
      BY <2>1
  <2>3. \A k \in 0 .. j + 1 : k # 0 => g[k - 1] = f[k - 1]
    OBVIOUS
  <2>4. \A k \in 0 .. j + 1 : g[k] = step(f, k)
    <3> HIDE DEF step
    <3>1. ASSUME NEW k \in 0 .. j + 1 PROVE g[k] = step(f, k)
      <4>1. CASE k \in 0 .. j
        BY <2>2, <4>1
      <4>2. CASE k \notin 0 .. j
        BY <4>2
      <4>3. QED
        BY <4>1, <4>2
    <3>2. QED
      BY <3>1
  <2>5. g = [k \in 0 .. j + 1 |-> g[k]]
    OBVIOUS
  <2> HIDE DEF g
  <2>6. \A k \in 0 .. j + 1 : step(g, k) = step(f, k)
    BY <2>3
  <2> HIDE DEF step
  <2>7. Def(g, j + 1)
    BY <2>4, <2>5, <2>6
  <2>8. QED
    BY <2>7
<1>3. n \in S
  <2> HIDE DEF S
  <2>1. QED
    BY <1>1, <1>2, Induction
<1>4. Def(s, n)
  BY <1>3
<1>5. matrix_sum(C, n, clipval) = U16(s[n].ret)
  BY DEF matrix_sum, SumStep, SumStart
<1> HIDE DEF s
<1>6. \A k \in 0 .. n : s[k] = step(s, k)
  <2> HIDE DEF step
  <2>1. QED
    BY <1>4
<1> DEFINE T == {k \in Nat : k <= n => s[k].ret \in Int}
<1>7. 0 \in T
  BY <1>6 DEF SumStart
<1>8. ASSUME NEW k \in Nat, k \in T PROVE k + 1 \in T
  <2>1. SUFFICES ASSUME k + 1 <= n PROVE s[k + 1].ret \in Int
    OBVIOUS
  <2>2. s[k + 1] = SumStep(s[k], C[k], clipval) /\ s[k].ret \in Int
    BY <1>6, <1>8, <2>1
  <2>3. SumStep(s[k], C[k], clipval).ret \in Int
    BY <2>2 DEF SumStep
  <2>4. QED
    BY <2>2, <2>3
<1>9. n \in T
  <2> HIDE DEF T
  <2>1. QED
    BY <1>7, <1>8, Induction
<1>10. QED
  BY <1>5, <1>9 DEF U16

LEMMA TestCrcType ==
    ASSUME NEW N \in Nat, NEW A, NEW B, NEW val PROVE TestCrc(N, A, B, val) \in Word16
<1>1. N * N \in Nat
  OBVIOUS
<1>2. \A C : matrix_sum(C, N * N, matrix_big(val)) \in Int
  BY <1>1, MatrixSumType
<1>3. QED
  BY <1>2, ZeroInWord16, Crc16Type DEF TestCrc

LEMMA BenchMatrixIs ==
    ASSUME NEW m, m.N \in Nat, NEW seed, NEW crc \in Word16
    PROVE  /\ core_bench_matrix(m, seed, crc).crc \in Word16
           /\ core_bench_matrix(m, seed, crc).A
                  = matrix_add_const(matrix_add_const(m.A, seed), -seed)
<1>1. \A A : TestCrc(m.N, A, m.B, seed) \in Word16
  BY TestCrcType
<1>2. \A x \in Word16 : x \in Int
  BY Word16Is
<1>3. QED
  BY <1>1, <1>2, Crc16Type DEF core_bench_matrix, matrix_test

Counts == [CORE_STATE -> Nat]
LEMMA NoCountsType == NoCounts \in Counts
BY DEF NoCounts, Counts

LEMMA StateOrderIs == Len(StateOrder) = 8 /\ \A i \in 1 .. 8 : StateOrder[i] \in CORE_STATE
BY DEF StateOrder, CORE_STATE

LEMMA CountsCrcType ==
    ASSUME NEW final \in Counts, NEW track \in Counts, NEW crc \in Word16
    PROVE  CountsCrc(final, track, crc) \in Word16
<1> DEFINE put(i, x) == crcu32(track[StateOrder[i]], crcu32(final[StateOrder[i]], x))
           step(f, i) == IF i = 0 THEN crc ELSE put(i, f[i - 1])
           Def(f, j) == f = [i \in 0 .. j |-> step(f, i)]
           S == {j \in Nat : \E f : Def(f, j)}
           c == CHOOSE f : Def(f, 8)
<1>0. ASSUME NEW i \in 1 .. 8, NEW x \in Word16 PROVE put(i, x) \in Word16
  <2>1. StateOrder[i] \in CORE_STATE
    BY StateOrderIs
  <2>2. track[StateOrder[i]] \in Int /\ final[StateOrder[i]] \in Int
    BY <2>1 DEF Counts
  <2>3. QED
    BY <2>2, Crc32Type
<1>a. CountsCrc(final, track, crc) = c[8]
  BY StateOrderIs DEF CountsCrc
<1> HIDE DEF put
<1>1. 0 \in S
  <2> DEFINE f == [k \in 0 .. 0 |-> crc]
  <2>1. \A k \in 0 .. 0 : step(f, k) = crc
    OBVIOUS
  <2> HIDE DEF step
  <2>2. Def(f, 0)
    BY <2>1
  <2>3. QED
    BY <2>2
<1>2. ASSUME NEW j \in Nat, j \in S PROVE j + 1 \in S
  <2>1. PICK f : Def(f, j)
    BY <1>2
  <2> DEFINE g == [k \in 0 .. j + 1 |-> IF k <= j THEN f[k] ELSE step(f, k)]
  <2>2. \A k \in 0 .. j : f[k] = step(f, k)
    <3> HIDE DEF step
    <3>1. QED
      BY <2>1
  <2>3. \A k \in 0 .. j + 1 : k # 0 => g[k - 1] = f[k - 1]
    OBVIOUS
  <2>4. \A k \in 0 .. j + 1 : g[k] = step(f, k)
    <3> HIDE DEF step
    <3>1. ASSUME NEW k \in 0 .. j + 1 PROVE g[k] = step(f, k)
      <4>1. CASE k \in 0 .. j
        BY <2>2, <4>1
      <4>2. CASE k \notin 0 .. j
        BY <4>2
      <4>3. QED
        BY <4>1, <4>2
    <3>2. QED
      BY <3>1
  <2>5. g = [k \in 0 .. j + 1 |-> g[k]]
    OBVIOUS
  <2> HIDE DEF g
  <2>6. \A k \in 0 .. j + 1 : step(g, k) = step(f, k)
    BY <2>3
  <2> HIDE DEF step
  <2>7. Def(g, j + 1)
    BY <2>4, <2>5, <2>6
  <2>8. QED
    BY <2>7
<1>3. 8 \in S
  <2> HIDE DEF S
  <2>1. QED
    BY <1>1, <1>2, Induction
<1>4. Def(c, 8)
  BY <1>3
<1> HIDE DEF c
<1>6. \A k \in 0 .. 8 : c[k] = step(c, k)
  <2> HIDE DEF step
  <2>1. QED
    BY <1>4
<1> DEFINE T == {k \in Nat : k <= 8 => c[k] \in Word16}
<1>7. 0 \in T
  BY <1>6
<1>8. ASSUME NEW k \in Nat, k \in T PROVE k + 1 \in T
  <2>1. SUFFICES ASSUME k + 1 <= 8 PROVE c[k + 1] \in Word16
    OBVIOUS
  <2>2. k + 1 \in 0 .. 8 /\ k + 1 \in 1 .. 8 /\ c[k] \in Word16
    BY <1>8, <2>1
  <2>3. c[k + 1] = put(k + 1, c[k])
    BY <1>6, <2>2
  <2>4. QED
    BY <1>0, <2>2, <2>3
<1>9. 8 \in T
  <2> HIDE DEF T
  <2>1. QED
    BY <1>7, <1>8, Induction
<1>10. QED
  BY <1>9, <1>a

-----------------------------------------------------------------------------
(* core_state_transition stays on this side of the next zero.               *)

ScanState == [p : Nat, state : CORE_STATE, track : Counts]
Counting(bytes, c) ==
    LET t == NextState(c.state, ByteAt(bytes, c.p))
    IN  [p |-> c.p + 1, state |-> t,
         track |-> [s \in CORE_STATE |-> IF s \in Counted(c.state, t) THEN c.track[s] + 1
                                                                     ELSE c.track[s]]]
PastComma(c) == [c EXCEPT !.p = @ + 1]
ScanEnds(bytes, c) == ByteAt(bytes, c.p) = NUL \/ c.state = "INVALID"
ScanStep(f, bytes, c) ==
    IF ScanEnds(bytes, c) THEN c
    ELSE IF ByteAt(bytes, c.p) = Comma THEN PastComma(c) ELSE f[Counting(bytes, c)]
ScanOf(bytes, S) == CHOOSE f : f = [c \in S |-> ScanStep(f, bytes, c)]

LEMMA NextStateType == ASSUME NEW s \in CORE_STATE, NEW c PROVE NextState(s, c) \in CORE_STATE
BY DEF NextState, CORE_STATE

LEMMA CountingType ==
    ASSUME NEW bytes, NEW c \in ScanState
    PROVE  /\ Counting(bytes, c) \in ScanState /\ Counting(bytes, c).p = c.p + 1
           /\ PastComma(c) \in ScanState /\ PastComma(c).p = c.p + 1
           /\ PastComma(c).state = c.state /\ PastComma(c).track = c.track
<1>1. c.p \in Nat /\ c.state \in CORE_STATE /\ c.track \in Counts
  BY DEF ScanState
<1>2. NextState(c.state, ByteAt(bytes, c.p)) \in CORE_STATE
  BY <1>1, NextStateType
<1> DEFINE t == NextState(c.state, ByteAt(bytes, c.p))
           tr == [s \in CORE_STATE |-> IF s \in Counted(c.state, t) THEN c.track[s] + 1 ELSE c.track[s]]
<1> HIDE DEF t
<1>3. \A s \in CORE_STATE : c.track[s] \in Nat
  BY <1>1 DEF Counts
<1>4. tr \in Counts
  BY <1>3 DEF Counts
<1> HIDE DEF tr
<1>5. [p |-> c.p + 1, state |-> t, track |-> tr] \in ScanState
  BY <1>1, <1>2, <1>4 DEF ScanState, t
<1>6. Counting(bytes, c) = [p |-> c.p + 1, state |-> t, track |-> tr]
  BY DEF Counting, t, tr
<1>7. PastComma(c) \in ScanState /\ PastComma(c).p = c.p + 1
      /\ PastComma(c).state = c.state /\ PastComma(c).track = c.track
  BY DEF PastComma, ScanState
<1>8. QED
  BY <1>5, <1>6, <1>7

LEMMA ScanExists ==
    ASSUME NEW T \in Nat, NEW bytes, DOMAIN bytes = 0 .. T - 1
    PROVE  \A c \in ScanState :
               ScanOf(bytes, ScanState)[c] = ScanStep(ScanOf(bytes, ScanState), bytes, c)
<1> DEFINE D(j) == {c \in ScanState : T - c.p <= j}
           Has(j) == \E f : f = [c \in D(j) |-> ScanStep(f, bytes, c)]
           S == {j \in Nat : Has(j)}
<1>1. 0 \in S
  <2> DEFINE f == [c \in D(0) |-> c]
  <2>1. ASSUME NEW c \in D(0) PROVE ScanStep(f, bytes, c) = c
    <3>1. c.p \in Nat /\ c.p >= T
      BY DEF ScanState
    <3>2. ByteAt(bytes, c.p) = NUL
      BY <3>1 DEF ByteAt
    <3>3. QED
      BY <3>2 DEF ScanStep, ScanEnds
  <2>2. f = [c \in D(0) |-> ScanStep(f, bytes, c)]
    <3> HIDE DEF f
    <3>1. f = [c \in D(0) |-> c]
      BY DEF f
    <3> HIDE DEF D
    <3>2. QED
      BY <2>1, <3>1
  <2>3. QED
    BY <2>2
<1>2. ASSUME NEW j \in Nat, j \in S PROVE j + 1 \in S
  <2>1. PICK f : f = [c \in D(j) |-> ScanStep(f, bytes, c)]
    BY <1>2
  <2> DEFINE e == [c \in D(j + 1) |-> ScanStep(f, bytes, c)]
  <2>2. D(j) \subseteq D(j + 1)
    <3>1. ASSUME NEW c \in D(j) PROVE c \in D(j + 1)
      <4>1. c \in ScanState /\ c.p \in Nat /\ T - c.p <= j
        BY DEF ScanState
      <4>2. QED
        BY <4>1
    <3> HIDE DEF D
    <3>2. QED
      BY <3>1
  <2>3. ASSUME NEW c \in D(j + 1) PROVE Counting(bytes, c) \in D(j)
    <3>1. c \in ScanState /\ c.p \in Nat /\ T - c.p <= j + 1
      BY DEF ScanState
    <3>2. Counting(bytes, c) \in ScanState /\ Counting(bytes, c).p = c.p + 1
      BY <3>1, CountingType
    <3>3. QED
      BY <3>1, <3>2
  <2>4. \A c \in D(j + 1) : e[c] = ScanStep(f, bytes, c)
    OBVIOUS
  <2>5. e = [c \in D(j + 1) |-> e[c]]
    OBVIOUS
  <2> HIDE DEF D, e
  <2>6. \A c \in D(j) : f[c] = ScanStep(f, bytes, c)
    BY <2>1
  <2>7. \A c \in D(j) : e[c] = f[c]
    BY <2>2, <2>4, <2>6
  <2>8. ASSUME NEW c \in D(j + 1) PROVE e[c] = ScanStep(e, bytes, c)
    <3>1. e[Counting(bytes, c)] = f[Counting(bytes, c)]
      BY <2>3, <2>7
    <3>2. ScanStep(e, bytes, c) = ScanStep(f, bytes, c)
      BY <3>1 DEF ScanStep
    <3>3. QED
      BY <2>4, <3>2
  <2>9. e = [c \in D(j + 1) |-> ScanStep(e, bytes, c)]
    BY <2>5, <2>8
  <2>10. Has(j + 1)
    BY <2>9
  <2>11. QED
    BY <2>10
<1>3. T \in S
  <2> HIDE DEF S
  <2>1. QED
    BY <1>1, <1>2, Induction
<1>4. D(T) = ScanState
  <2>1. ASSUME NEW c \in ScanState PROVE c \in D(T)
    <3>1. c.p \in Nat
      BY DEF ScanState
    <3>2. QED
      BY <3>1
  <2>2. QED
    BY <2>1
<1>5. \E f : f = [c \in ScanState |-> ScanStep(f, bytes, c)]
  <2>1. Has(T)
    BY <1>3
  <2> HIDE DEF D
  <2>2. QED
    BY <1>4, <2>1
<1> DEFINE g == ScanOf(bytes, ScanState)
<1>6. g = [c \in ScanState |-> ScanStep(g, bytes, c)]
  BY <1>5 DEF ScanOf
<1> HIDE DEF g
<1>7. \A c \in ScanState : g[c] = ScanStep(g, bytes, c)
  BY <1>6
<1>8. QED
  BY <1>7 DEF g

\* The kernel stays behind any zero from there on.
Stays(bytes, c, e) ==
    e \in ScanState /\ \A z \in Nat : c.p <= z /\ ByteAt(bytes, z) = NUL => e.p <= z

LEMMA ScanType ==
    ASSUME NEW T \in Nat, NEW bytes, DOMAIN bytes = 0 .. T - 1, NEW c \in ScanState
    PROVE  Stays(bytes, c, ScanOf(bytes, ScanState)[c])
<1> DEFINE f == ScanOf(bytes, ScanState)
           S == {j \in Nat : \A e \in ScanState : T - e.p <= j => Stays(bytes, e, f[e])}
<1>1. \A e \in ScanState : f[e] = ScanStep(f, bytes, e)
  BY ScanExists
<1> HIDE DEF f
<1>2. ASSUME NEW e \in ScanState, ScanEnds(bytes, e) PROVE Stays(bytes, e, f[e])
  <2>1. f[e] = e
    BY <1>1, <1>2 DEF ScanStep
  <2>2. QED
    BY <2>1 DEF Stays
<1>3. ASSUME NEW e \in ScanState, ~ScanEnds(bytes, e) PROVE
          /\ e.p \in Nat /\ e.p < T
          /\ \A z \in Nat : e.p <= z /\ ByteAt(bytes, z) = NUL => e.p + 1 <= z
  <2>1. e.p \in Nat /\ ByteAt(bytes, e.p) # NUL
    BY <1>3 DEF ScanState, ScanEnds
  <2>2. e.p < T
    BY <2>1 DEF ByteAt
  <2>3. ASSUME NEW z \in Nat, e.p <= z, ByteAt(bytes, z) = NUL PROVE e.p + 1 <= z
    <3>1. z # e.p
      BY <2>1, <2>3
    <3>2. QED
      BY <2>1, <2>3, <3>1
  <2>4. QED
    BY <2>1, <2>2, <2>3
<1>4. ASSUME NEW e \in ScanState, ~ScanEnds(bytes, e), ByteAt(bytes, e.p) = Comma
      PROVE  Stays(bytes, e, f[e])
  <2>1. f[e] = PastComma(e)
    BY <1>1, <1>4 DEF ScanStep
  <2>2. PastComma(e) \in ScanState /\ PastComma(e).p = e.p + 1
    BY CountingType
  <2>3. QED
    BY <1>3, <1>4, <2>1, <2>2 DEF Stays
<1>5. ASSUME NEW e \in ScanState, ~ScanEnds(bytes, e), ByteAt(bytes, e.p) # Comma,
             Stays(bytes, Counting(bytes, e), f[Counting(bytes, e)])
      PROVE  Stays(bytes, e, f[e])
  <2>1. f[e] = f[Counting(bytes, e)]
    BY <1>1, <1>5 DEF ScanStep
  <2>2. Counting(bytes, e).p = e.p + 1
    BY CountingType
  <2>3. QED
    BY <1>3, <1>5, <2>1, <2>2 DEF Stays
<1>6. 0 \in S
  <2>1. ASSUME NEW e \in ScanState, T - e.p <= 0 PROVE ScanEnds(bytes, e)
    BY <1>3, <2>1
  <2>2. QED
    BY <1>2, <2>1
<1>7. ASSUME NEW j \in Nat, j \in S PROVE j + 1 \in S
  <2>1. SUFFICES ASSUME NEW e \in ScanState, T - e.p <= j + 1 PROVE Stays(bytes, e, f[e])
    OBVIOUS
  <2>2. Counting(bytes, e) \in ScanState /\ Counting(bytes, e).p = e.p + 1 /\ e.p \in Nat
    BY CountingType DEF ScanState
  <2>3. T - Counting(bytes, e).p <= j
    BY <2>1, <2>2
  <2>4. Stays(bytes, Counting(bytes, e), f[Counting(bytes, e)])
    BY <1>7, <2>2, <2>3
  <2>5. QED
    BY <1>2, <1>4, <1>5, <2>4
<1>8. T \in S
  <2> HIDE DEF S
  <2>1. QED
    BY <1>6, <1>7, Induction
<1>9. c.p \in Nat /\ T - c.p <= T
  BY DEF ScanState
<1>10. QED
  BY <1>8, <1>9 DEF f

LEMMA TransitionType ==
    ASSUME NEW T \in Nat, NEW bytes, DOMAIN bytes = 0 .. T - 1, NEW p \in Nat, NEW track \in Counts
    PROVE  LET t == core_state_transition(bytes, p, track)
           IN  /\ t.p \in Nat /\ t.state \in CORE_STATE /\ t.track \in Counts
               /\ \A z \in Nat : p <= z /\ ByteAt(bytes, z) = NUL => t.p <= z
<1> DEFINE c == [p |-> p, state |-> "START", track |-> track]
<1>1. c \in ScanState /\ c.p = p
  BY DEF ScanState, CORE_STATE
<1> HIDE DEF c
<1>2. core_state_transition(bytes, p, track) = ScanOf(bytes, ScanState)[c]
  BY DEF core_state_transition, ScanOf, ScanState, Counts, ScanStep, ScanEnds, PastComma, Counting, c
<1>3. Stays(bytes, c, ScanOf(bytes, ScanState)[c])
  BY <1>1, ScanType
<1>4. QED
  BY <1>1, <1>2, <1>3 DEF Stays, ScanState

-----------------------------------------------------------------------------
(* The items of the list, and the list as core_list_init builds it.         *)

LEMMA HighByteType == ASSUME NEW x \in Int PROVE HighByte(x) \in 0 .. 255 /\ HighByte(x) \in Int
BY DEF HighByte
LEMMA HighByteTwice ==
    ASSUME NEW b \in Int, 0 <= b, b <= 255 PROVE 257 * b \in Int /\ HighByte(257 * b) = b
<1>1. PICK q : q = (257 * b) \div 256
  OBVIOUS
<1>2. q = b
  BY <1>1
<1>3. HighByte(257 * b) = q % 256
  BY <1>1 DEF HighByte
<1>4. QED
  BY <1>2, <1>3

LEMMA PatternIs ==
    ASSUME NEW seed \in Int, NEW i \in Int
    PROVE  /\ DataPattern(seed, i) \in Int
           /\ DataPattern(seed, i) = 257 * HighByte(DataPattern(seed, i))
<1> DEFINE x == XorByte(LowByte(seed), LowByte(i))
           dat == 8 * (x % 16) + (i % 8)
<1>1. x \in Int
  <2>1. LowByte(seed) \in Int /\ LowByte(i) \in Int
    BY DEF LowByte
  <2>2. x \in 0 .. 255
    BY <2>1, XorPlaces
  <2>3. QED
    BY <2>2
<1> HIDE DEF x
<1>2. dat \in Int /\ 0 <= dat /\ dat <= 255
  <2>1. x % 16 \in 0 .. 15 /\ i % 8 \in 0 .. 7
    BY <1>1
  <2>2. QED
    BY <2>1
<1>3. DataPattern(seed, i) = 256 * dat + dat
  BY DEF DataPattern, x
<1> HIDE DEF dat
<1>4. DataPattern(seed, i) = 257 * dat
  BY <1>2, <1>3
<1>5. QED
  BY <1>2, <1>4, HighByteTwice

LEMMA ItemIdxType ==
    ASSUME NEW size \in Nat, NEW seed \in Int, NEW i \in Nat
    PROVE  /\ ItemIdx(size, seed, i) \in Nat
           /\ size <= 16384 => ItemIdx(size, seed, i) < 16384
<1>1. CASE i < size \div 5
  BY <1>1 DEF ItemIdx
<1>2. CASE ~ (i < size \div 5)
  <2> DEFINE pat == XorWord(i, seed)
             num == 256 * OrByte((i + 1) % 8, HighByte(pat)) + LowByte(pat)
  <2>1. pat \in Int
    <3>1. HighByte(i) \in Int /\ HighByte(seed) \in Int /\ LowByte(i) \in Int /\ LowByte(seed) \in Int
      BY DEF HighByte, LowByte
    <3>2. \A x, y \in Int : XorByte(x, y) \in Int
      <4>1. ASSUME NEW x \in Int, NEW y \in Int PROVE XorByte(x, y) \in Int
        <5>1. XorByte(x, y) \in 0 .. 255
          BY XorPlaces
        <5>2. QED
          BY <5>1
      <4>2. QED
        BY <4>1
    <3>3. XorByte(HighByte(i), HighByte(seed)) \in Int /\ XorByte(LowByte(i), LowByte(seed)) \in Int
      BY <3>1, <3>2
    <3>4. PICK x \in Int, y \in Int : /\ x = XorByte(HighByte(i), HighByte(seed))
                                     /\ y = XorByte(LowByte(i), LowByte(seed))
      BY <3>3
    <3>5. pat = 256 * x + y
      BY <3>4 DEF XorWord
    <3>6. QED
      BY <3>5
  <2> HIDE DEF pat
  <2>2. num \in Int
    <3>1. (i + 1) % 8 \in Int /\ HighByte(pat) \in Int /\ LowByte(pat) \in Int
      BY <2>1 DEF HighByte, LowByte
    <3>2. OrByte((i + 1) % 8, HighByte(pat)) \in Nat
      BY <3>1, OrByteType
    <3>3. QED
      BY <3>1, <3>2
  <2> HIDE DEF num
  <2>3. ItemIdx(size, seed, i) = num % 16384
    BY <1>2 DEF ItemIdx, pat, num
  <2>4. num % 16384 \in Int /\ 0 <= num % 16384 /\ num % 16384 < 16384
    BY <2>2
  <2>5. QED
    BY <2>3, <2>4
<1>3. QED
  BY <1>1, <1>2

LEMMA BaseIs ==
    ASSUME NEW n \in Nat, n >= 3, NEW seed \in Int, NEW x \in Addr(n)
    PROVE  /\ Base(n, seed, x) \in Datum /\ Settled(Base(n, seed, x), "idx")
           /\ Base(n, seed, x).idx >= 0
<1>1. CASE x = 0
  <2>1. HighByte(32896) = 128 /\ 32896 = 257 * 128
    BY DEF HighByte
  <2>2. QED
    BY <1>1, <2>1 DEF Base, Datum, Settled
<1>2. CASE x = 1
  <2>1. HighByte(65535) = 255 /\ 65535 = 257 * 255
    BY DEF HighByte
  <2>2. QED
    BY <1>2, <2>1 DEF Base, Datum, Settled, LastItem
<1>3. CASE x # 0 /\ x # 1
  <2>1. x - 2 \in Int /\ n - x \in Nat /\ n + 1 \in Nat
    BY <1>3 DEF Addr
  <2>2. PICK z \in Nat, y \in Nat, v \in Int : z = n + 1 /\ y = n - x /\ v = x - 2
    BY <2>1
  <2>3. ItemIdx(z, seed, y) \in Nat
    BY ItemIdxType
  <2>4. DataPattern(seed, v) \in Int /\ DataPattern(seed, v) = 257 * HighByte(DataPattern(seed, v))
    BY PatternIs
  <2>5. Base(n, seed, x) = [idx |-> ItemIdx(z, seed, y), data16 |-> DataPattern(seed, v)]
    BY <1>3, <2>2 DEF Base
  <2>6. QED
    BY <2>3, <2>4, <2>5 DEF Datum, Settled
<1>4. QED
  BY <1>1, <1>2, <1>3

\* m nodes are linked: 0, then the others from the one made last down to 1.
Built(h, n, seed, m) ==
    /\ h \in HeapOf(n + 1) /\ m \in 2 .. n
    /\ \A x \in Addr(n + 1) : h.info[x] = x
    /\ h.next[0] = m - 1 /\ h.next[1] = NULL
    /\ \A x \in 2 .. m - 1 : h.next[x] = x - 1
    /\ \A x \in m .. n : h.next[x] = NULL
    /\ h.data[0] = [idx |-> 0, data16 |-> 32896] /\ h.data[1] = LastItem
    /\ \A x \in 2 .. m - 1 : h.data[x] = Item(seed, x - 2)

PutItem(h, k, item) == [h EXCEPT !.data[k] = item, !.info[k] = k]
LEMMA PutItemIs ==
    ASSUME NEW z, NEW h \in HeapOf(z), NEW k \in Addr(z), NEW item \in Datum,
           NEW g, g = PutItem(h, k, item)
    PROVE  /\ g \in HeapOf(z) /\ g.next = h.next
           /\ g.info = [h.info EXCEPT ![k] = k] /\ g.data = [h.data EXCEPT ![k] = item]
BY DEF HeapOf, PutItem

Inserted(g, h, k, item) ==
    /\ g.next = [h.next EXCEPT ![k] = h.next[0], ![0] = k]
    /\ g.info = [h.info EXCEPT ![k] = k] /\ g.data = [h.data EXCEPT ![k] = item]

LEMMA InsertIs ==
    ASSUME NEW n \in Nat, n >= 3, NEW h \in HeapOf(n + 1), NEW k \in Nat, 1 <= k, k < n,
           NEW item \in Datum, NEW g, g = core_list_insert_new(h, k, 0, item, n + 1)
    PROVE  g \in HeapOf(n + 1) /\ Inserted(g, h, k, item)
<1>1. k \in Addr(n + 1) /\ 0 \in Addr(n + 1)
  BY DEF Addr
<1>2. PICK f : f = PutItem(h, k, item)
  OBVIOUS
<1>3. /\ f \in HeapOf(n + 1) /\ f.next = h.next
      /\ f.info = [h.info EXCEPT ![k] = k] /\ f.data = [h.data EXCEPT ![k] = item]
  BY <1>1, <1>2, PutItemIs
<1>4. PICK x : x = h.next[0]
  OBVIOUS
<1>5. x \in Addr(n + 1) \cup {NULL} /\ k \in Addr(n + 1) \cup {NULL}
  BY <1>1, <1>4 DEF HeapOf
<1>6. PICK e : e = SetNext(f, k, x)
  OBVIOUS
<1>7. e \in HeapOf(n + 1) /\ e.next = [h.next EXCEPT ![k] = x] /\ e.info = f.info /\ e.data = f.data
  <2>1. PICK z : z = n + 1
    OBVIOUS
  <2>2. e \in HeapOf(z) /\ e.next = [f.next EXCEPT ![k] = x] /\ e.info = f.info /\ e.data = f.data
    BY <1>1, <1>3, <1>5, <1>6, <2>1, SetNextIs
  <2>3. QED
    BY <1>3, <2>1, <2>2
<1>8. g = SetNext(e, 0, k)
  <2>1. ~ (k + 1 >= n + 1)
    OBVIOUS
  <2>2. QED
    BY <1>2, <1>4, <1>6, <2>1 DEF core_list_insert_new, PutItem
<1>9. g \in HeapOf(n + 1) /\ g.next = [e.next EXCEPT ![0] = k] /\ g.info = f.info /\ g.data = f.data
  BY <1>1, <1>5, <1>7, <1>8, SetNextIs
<1>10. g.next = [h.next EXCEPT ![k] = h.next[0], ![0] = k]
  <2>1. [[h.next EXCEPT ![k] = x] EXCEPT ![0] = k] = [h.next EXCEPT ![k] = x, ![0] = k]
    OBVIOUS
  <2>2. QED
    BY <1>4, <1>7, <1>9, <2>1
<1>11. QED
  BY <1>3, <1>9, <1>10 DEF Inserted

LEMMA EmptyListIs ==
    ASSUME NEW n \in Nat, n >= 3, NEW h, h = EmptyList(n + 1)
    PROVE  /\ h \in HeapOf(n + 1)
           /\ \A x \in Addr(n + 1) : h.next[x] = NULL /\ h.info[x] = x
           /\ h.data[0] = [idx |-> 0, data16 |-> 32896]
<1>1. 0 .. (n + 1) - 1 = Addr(n + 1) /\ 0 \in Addr(n + 1)
  BY DEF Addr
<1> DEFINE nx == [x \in Addr(n + 1) |-> NULL]
           fo == [x \in Addr(n + 1) |-> x]
           d == [x \in Addr(n + 1) |-> [idx |-> 0, data16 |-> IF x = 0 THEN 32896 ELSE 0]]
<1>2. h = [next |-> nx, info |-> fo, data |-> d]
  BY DEF EmptyList, Addr
<1>3. \A x : [idx |-> 0, data16 |-> IF x = 0 THEN 32896 ELSE 0] \in Datum
  BY DEF Datum
<1>4. nx \in [Addr(n + 1) -> Addr(n + 1) \cup {NULL}] /\ fo \in [Addr(n + 1) -> Addr(n + 1)]
      /\ d \in [Addr(n + 1) -> Datum]
  BY <1>3
<1>5. d[0] = [idx |-> 0, data16 |-> 32896]
  BY <1>1
<1>6. \A x \in Addr(n + 1) : nx[x] = NULL /\ fo[x] = x
  OBVIOUS
<1> HIDE DEF nx, fo, d
<1>7. h \in HeapOf(n + 1) /\ h.next = nx /\ h.info = fo /\ h.data = d
  BY <1>2, <1>4 DEF HeapOf
<1>8. QED
  BY <1>5, <1>6, <1>7

LEMMA FirstBuilt ==
    ASSUME NEW n \in Nat, n >= 3, NEW seed \in Int,
           NEW g, g = core_list_insert_new(EmptyList(n + 1), 1, 0, LastItem, n + 1)
    PROVE  Built(g, n, seed, 2)
<1>1. PICK h : h = EmptyList(n + 1)
  OBVIOUS
<1>2. /\ h \in HeapOf(n + 1)
      /\ \A x \in Addr(n + 1) : h.next[x] = NULL /\ h.info[x] = x
      /\ h.data[0] = [idx |-> 0, data16 |-> 32896]
  BY <1>1, EmptyListIs
<1>3. LastItem \in Datum
  BY DEF LastItem, Datum
<1>4. PICK item \in Datum : item = LastItem
  BY <1>3
<1>5. /\ g \in HeapOf(n + 1) /\ g.next = [h.next EXCEPT ![1] = h.next[0], ![0] = 1]
      /\ g.info = [h.info EXCEPT ![1] = 1] /\ g.data = [h.data EXCEPT ![1] = item]
  <2>1. 1 \in Nat /\ 1 < n /\ 1 <= 1
    OBVIOUS
  <2>2. QED
    BY <1>1, <1>2, <1>4, <2>1, InsertIs DEF Inserted
<1>6. h.next \in [Addr(n + 1) -> Addr(n + 1) \cup {NULL}] /\ h.info \in [Addr(n + 1) -> Addr(n + 1)]
      /\ h.data \in [Addr(n + 1) -> Datum]
  BY <1>2 DEF HeapOf
<1>7. 0 \in Addr(n + 1) /\ 1 \in Addr(n + 1) /\ \A x \in 2 .. n : x \in Addr(n + 1) /\ x # 0 /\ x # 1
  BY DEF Addr
<1>8. g.next[0] = 1 /\ g.next[1] = NULL /\ \A x \in 2 .. n : g.next[x] = NULL
  BY <1>2, <1>5, <1>6, <1>7
<1>9. \A x \in Addr(n + 1) : g.info[x] = x
  BY <1>2, <1>5, <1>6, <1>7
<1>10. g.data[0] = [idx |-> 0, data16 |-> 32896] /\ g.data[1] = LastItem
  BY <1>2, <1>4, <1>5, <1>6, <1>7
<1>11. QED
  BY <1>5, <1>8, <1>9, <1>10 DEF Built

LEMMA ItemBuilt ==
    ASSUME NEW n \in Nat, n >= 3, NEW seed \in Int, NEW i \in Nat, NEW h,
           Built(h, n, seed, Min2(i + 2, n)),
           NEW g, g = core_list_insert_new(h, i + 2, 0, Item(seed, i), n + 1)
    PROVE  Built(g, n, seed, Min2((i + 1) + 2, n))
<1>1. CASE i + 2 >= n
  <2>1. g = h
    <3>1. (i + 2) + 1 >= n + 1
      BY <1>1
    <3>2. QED
      BY <3>1 DEF core_list_insert_new
  <2>2. Min2(i + 2, n) = n /\ Min2((i + 1) + 2, n) = n
    BY <1>1 DEF Min2
  <2>3. QED
    BY <2>1, <2>2
<1>2. CASE i + 2 < n
  <2>1. PICK m : m = i + 2
    OBVIOUS
  <2>2. Min2(i + 2, n) = m /\ Min2((i + 1) + 2, n) = m + 1 /\ m \in 2 .. n - 1 /\ i = m - 2
    BY <1>2, <2>1 DEF Min2
  <2>3. Item(seed, i) \in Datum
    <3>1. DataPattern(seed, i) \in Int
      BY PatternIs
    <3>2. QED
      BY <3>1 DEF Item, Datum
  <2>4. PICK item \in Datum : item = Item(seed, m - 2)
    BY <2>2, <2>3
  <2>5. Built(h, n, seed, m)
    BY <2>2
  <2>6. h \in HeapOf(n + 1)
    BY <2>5 DEF Built
  <2>7. /\ g \in HeapOf(n + 1) /\ g.next = [h.next EXCEPT ![m] = h.next[0], ![0] = m]
        /\ g.info = [h.info EXCEPT ![m] = m] /\ g.data = [h.data EXCEPT ![m] = item]
    <3>1. g = core_list_insert_new(h, m, 0, item, n + 1) /\ m \in Nat /\ 1 <= m /\ m < n
      BY <2>1, <2>2, <2>4
    <3>2. QED
      <4>1. PICK k \in Nat : k = m
        BY <3>1
      <4>2. g \in HeapOf(n + 1) /\ Inserted(g, h, k, item)
        BY <2>6, <3>1, <4>1, InsertIs
      <4>3. QED
        BY <4>1, <4>2 DEF Inserted
  <2>8. h.next \in [Addr(n + 1) -> Addr(n + 1) \cup {NULL}] /\ h.info \in [Addr(n + 1) -> Addr(n + 1)]
        /\ h.data \in [Addr(n + 1) -> Datum]
    BY <2>6 DEF HeapOf
  <2>9. 0 \in Addr(n + 1) /\ 1 \in Addr(n + 1) /\ m # 0 /\ m # 1
        /\ \A x \in 2 .. n : x \in Addr(n + 1) /\ x # 0 /\ x # 1
    BY <2>2 DEF Addr
  <2>10. g.next[0] = m /\ g.next[1] = NULL /\ \A x \in m + 1 .. n : g.next[x] = NULL
    BY <2>2, <2>5, <2>7, <2>8, <2>9 DEF Built
  <2>11. \A x \in 2 .. (m + 1) - 1 : g.next[x] = x - 1
    <3>1. ASSUME NEW x \in 2 .. (m + 1) - 1 PROVE g.next[x] = x - 1
      <4>1. x \in 2 .. n /\ (x = m \/ x \in 2 .. m - 1)
        BY <2>2
      <4>2. CASE x = m
        BY <2>2, <2>5, <2>7, <2>8, <2>9, <4>1, <4>2 DEF Built
      <4>3. CASE x \in 2 .. m - 1
        BY <2>2, <2>5, <2>7, <2>8, <2>9, <4>1, <4>3 DEF Built
      <4>4. QED
        BY <4>1, <4>2, <4>3
    <3>2. QED
      BY <3>1
  <2>12. \A x \in Addr(n + 1) : g.info[x] = x
    BY <2>2, <2>5, <2>7, <2>8, <2>9 DEF Built
  <2>13. g.data[0] = [idx |-> 0, data16 |-> 32896] /\ g.data[1] = LastItem
    BY <2>2, <2>5, <2>7, <2>8, <2>9 DEF Built
  <2>14. \A x \in 2 .. (m + 1) - 1 : g.data[x] = Item(seed, x - 2)
    <3>1. ASSUME NEW x \in 2 .. (m + 1) - 1 PROVE g.data[x] = Item(seed, x - 2)
      <4>1. x \in 2 .. n /\ (x = m \/ x \in 2 .. m - 1)
        BY <2>2
      <4>2. CASE x = m
        BY <2>2, <2>4, <2>7, <2>8, <2>9, <4>1, <4>2
      <4>3. CASE x \in 2 .. m - 1
        BY <2>2, <2>5, <2>7, <2>8, <2>9, <4>1, <4>3 DEF Built
      <4>4. QED
        BY <4>1, <4>2, <4>3
    <3>2. QED
      BY <3>1
  <2>15. m + 1 \in 2 .. n
    BY <2>2
  <2>16. Built(g, n, seed, m + 1)
    <3>1. g.next[0] = (m + 1) - 1
      BY <2>2, <2>10
    <3>2. QED
      BY <2>7, <2>10, <2>11, <2>12, <2>13, <2>14, <2>15, <3>1 DEF Built
  <2>17. QED
    BY <2>2, <2>16
<1>3. QED
  BY <1>1, <1>2

BuiltOrder(n) == [x \in 1 .. n |-> IF x = 1 THEN 0 ELSE n + 1 - x]

LEMMA BuiltList ==
    ASSUME NEW n \in Nat, n >= 3, NEW seed, NEW h, Built(h, n, seed, n)
    PROVE  ListAt(h, BuiltOrder(n), n, 0)
<1> DEFINE w == BuiltOrder(n)
<1>1. /\ w \in [1 .. n -> Addr(n)] /\ w[1] = 0 /\ \A x \in 2 .. n : w[x] = n + 1 - x
  BY DEF BuiltOrder, Addr
<1> HIDE DEF w
<1>2. ASSUME NEW i \in 1 .. n, NEW j \in 1 .. n, w[i] = w[j] PROVE i = j
  <2>1. /\ i = 1 \/ (i \in 2 .. n /\ w[i] = n + 1 - i /\ w[i] > 0)
        /\ j = 1 \/ (j \in 2 .. n /\ w[j] = n + 1 - j /\ w[j] > 0)
    BY <1>1
  <2>2. QED
    BY <1>1, <1>2, <2>1
<1>3. ASSUME NEW m \in Addr(n) PROVE \E i \in 1 .. n : w[i] = m
  <2>1. CASE m = 0
    BY <1>1, <2>1
  <2>2. CASE m # 0
    <3>1. n + 1 - m \in 2 .. n /\ n + 1 - (n + 1 - m) = m
      BY <2>2 DEF Addr
    <3>2. w[n + 1 - m] = m
      BY <1>1, <3>1
    <3>3. QED
      BY <3>1, <3>2
  <2>3. QED
    BY <2>1, <2>2
<1>4. Arranged(w, n)
  BY <1>1, <1>2, <1>3 DEF Arranged
<1>5. ASSUME NEW x \in 1 .. n - 1 PROVE h.next[w[x]] = w[x + 1]
  <2>1. x + 1 \in 2 .. n /\ w[x + 1] = n + 1 - (x + 1)
    BY <1>1
  <2>2. CASE x = 1
    BY <1>1, <2>1, <2>2 DEF Built
  <2>3. CASE x # 1
    <3>1. x \in 2 .. n /\ n + 1 - x \in 2 .. n - 1
      BY <2>3
    <3>2. w[x] = n + 1 - x
      BY <1>1, <3>1
    <3>3. h.next[n + 1 - x] = (n + 1 - x) - 1
      BY <3>1 DEF Built
    <3>4. QED
      BY <2>1, <3>2, <3>3
  <2>4. QED
    BY <2>2, <2>3
<1>6. h.next[w[n]] = NULL
  <2>1. n \in 2 .. n /\ n + 1 - n = 1
    OBVIOUS
  <2>2. w[n] = 1
    BY <1>1, <2>1
  <2>3. QED
    BY <2>2 DEF Built
<1>7. QED
  BY <1>1, <1>4, <1>5, <1>6 DEF ListAt, Chained, w

LEMMA IndexItemsIs ==
    ASSUME NEW n \in Nat, n >= 3, NEW seed \in Int, NEW h, Built(h, n, seed, n),
           NEW g, g = IndexItems(h, n + 1, seed)
    PROVE  /\ g \in HeapOf(n + 1) /\ g.next = h.next /\ g.info = h.info
           /\ \A x \in Addr(n) : g.data[x] = Base(n, seed, x)
<1> DEFINE c == ChainOf(h, 0, n + 1)
           at(x) == CHOOSE i \in 2 .. Len(c) - 1 : h.info[c[i]] = x
           has(x) == \E i \in 2 .. Len(c) - 1 : h.info[c[i]] = x
           d == [x \in DOMAIN h.data |->
                   IF has(x) THEN [h.data[x] EXCEPT !.idx = ItemIdx(n + 1, seed, at(x) - 1)]
                             ELSE h.data[x]]
<1>1. h \in HeapOf(n + 1) /\ Pointers(h, n + 1) /\ h.data \in [Addr(n + 1) -> Datum]
  BY HeapPointers DEF Built
<1>2. g = [h EXCEPT !.data = d]
  BY DEF IndexItems
<1>3. Len(c) = n /\ \A x \in 2 .. n : c[x] = n + 1 - x
  <2>1. ListAt(h, BuiltOrder(n), n, 0)
    BY BuiltList
  <2>2. Is(c, BuiltOrder(n), 1, n)
    BY <1>1, <2>1, ListContents
  <2>3. \A x \in 2 .. n : BuiltOrder(n)[x] = n + 1 - x
    BY DEF BuiltOrder
  <2> HIDE DEF c
  <2>4. QED
    BY <2>2, <2>3 DEF Is
<1>4. \A i \in 2 .. n - 1 : h.info[c[i]] = n + 1 - i
  <2>1. ASSUME NEW i \in 2 .. n - 1 PROVE h.info[c[i]] = n + 1 - i
    <3>1. c[i] = n + 1 - i /\ n + 1 - i \in Addr(n + 1)
      BY <1>3 DEF Addr
    <3>2. QED
      BY <3>1 DEF Built
  <2>2. QED
    BY <2>1
<1>5. DOMAIN h.data = Addr(n + 1)
  BY <1>1
<1> HIDE DEF c
<1>6. ASSUME NEW x \in Addr(n + 1) PROVE has(x) <=> x \in 2 .. n - 1
  <2>1. ASSUME x \in 2 .. n - 1 PROVE has(x)
    <3>1. n + 1 - x \in 2 .. n - 1 /\ n + 1 - (n + 1 - x) = x
      BY <2>1
    <3>2. h.info[c[n + 1 - x]] = x
      BY <1>4, <3>1
    <3>3. QED
      BY <1>3, <3>1, <3>2
  <2>2. ASSUME has(x) PROVE x \in 2 .. n - 1
    <3>1. PICK i \in 2 .. n - 1 : h.info[c[i]] = x
      BY <1>3, <2>2
    <3>2. x = n + 1 - i
      BY <1>4, <3>1
    <3>3. QED
      BY <3>2
  <2>3. QED
    BY <2>1, <2>2
<1>7. ASSUME NEW x \in 2 .. n - 1 PROVE at(x) = n + 1 - x
  <2>1. n + 1 - x \in 2 .. n - 1 /\ n + 1 - (n + 1 - x) = x
    OBVIOUS
  <2>2. \A i \in 2 .. n - 1 : h.info[c[i]] = x <=> i = n + 1 - x
    BY <1>4, <2>1
  <2>3. at(x) \in 2 .. n - 1 /\ h.info[c[at(x)]] = x
    BY <1>3, <2>1, <2>2
  <2>4. QED
    BY <2>2, <2>3
<1> HIDE DEF at, has
<1>8. ASSUME NEW x \in Addr(n + 1)
      PROVE  d[x] = IF x \in 2 .. n - 1 THEN [h.data[x] EXCEPT !.idx = ItemIdx(n + 1, seed, n - x)]
                                        ELSE h.data[x]
  <2>1. d[x] = IF has(x) THEN [h.data[x] EXCEPT !.idx = ItemIdx(n + 1, seed, at(x) - 1)]
                         ELSE h.data[x]
    BY <1>5
  <2>2. CASE x \in 2 .. n - 1
    <3>1. at(x) - 1 = n - x
      BY <1>7, <2>2
    <3>2. QED
      BY <1>6, <2>1, <2>2, <3>1
  <2>3. CASE x \notin 2 .. n - 1
    BY <1>6, <2>1, <2>3
  <2>4. QED
    BY <2>2, <2>3
<1>9. \A x \in 2 .. n - 1 : ItemIdx(n + 1, seed, n - x) \in Nat /\ x \in Addr(n + 1)
  <2>1. ASSUME NEW x \in 2 .. n - 1 PROVE ItemIdx(n + 1, seed, n - x) \in Nat
    <3>1. PICK z \in Nat, y \in Nat : z = n + 1 /\ y = n - x
      OBVIOUS
    <3>2. ItemIdx(z, seed, y) \in Nat
      BY ItemIdxType
    <3>3. QED
      BY <3>1, <3>2
  <2>2. QED
    BY <2>1 DEF Addr
<1>10. ASSUME NEW x \in 2 .. n - 1
       PROVE  [h.data[x] EXCEPT !.idx = ItemIdx(n + 1, seed, n - x)] = Base(n, seed, x)
  <2>1. h.data[x] = Item(seed, x - 2)
    BY DEF Built
  <2>2. QED
    BY <2>1 DEF Item, Base
<1>11. d \in [Addr(n + 1) -> Datum]
  <2>1. ASSUME NEW x \in Addr(n + 1) PROVE d[x] \in Datum
    <3>1. CASE x \in 2 .. n - 1
      <4>1. x \in Addr(n)
        BY <3>1 DEF Addr
      <4>2. Base(n, seed, x) \in Datum
        BY <4>1, BaseIs
      <4>3. QED
        BY <1>8, <1>10, <3>1, <4>2
    <3>2. CASE x \notin 2 .. n - 1
      BY <1>1, <1>8, <3>2
    <3>3. QED
      BY <3>1, <3>2
  <2>2. d = [x \in Addr(n + 1) |-> d[x]]
    BY <1>5
  <2> HIDE DEF d
  <2>3. QED
    BY <2>1, <2>2
<1> HIDE DEF d
<1>12. g \in HeapOf(n + 1) /\ g.next = h.next /\ g.info = h.info /\ g.data = d
  BY <1>1, <1>2, <1>11 DEF HeapOf
<1>13. ASSUME NEW x \in Addr(n) PROVE d[x] = Base(n, seed, x)
  <2>1. x \in Addr(n + 1) /\ (x = 0 \/ x = 1 \/ x \in 2 .. n - 1)
    BY DEF Addr
  <2>2. CASE x = 0
    <3>1. ~ (x \in 2 .. n - 1) /\ Base(n, seed, x) = h.data[x]
      BY <2>2 DEF Built, Base
    <3>2. d[x] = h.data[x]
      BY <1>8, <2>1, <3>1
    <3>3. QED
      BY <3>1, <3>2
  <2>3. CASE x = 1
    <3>1. ~ (x \in 2 .. n - 1) /\ Base(n, seed, x) = h.data[x]
      BY <2>3 DEF Built, Base
    <3>2. d[x] = h.data[x]
      BY <1>8, <2>1, <3>1
    <3>3. QED
      BY <3>1, <3>2
  <2>4. CASE x \in 2 .. n - 1
    BY <1>8, <1>10, <2>1, <2>4
  <2>5. QED
    BY <2>1, <2>2, <2>3, <2>4
<1>14. QED
  BY <1>12, <1>13

-----------------------------------------------------------------------------
(* Reversing the list, and moving a node behind the head.                   *)

\* The first c nodes of w are reversed.
ReverseAt(h, f, w, n, c) ==
    /\ Arranged(w, n) /\ c \in 0 .. n /\ f.list = w[1]
    /\ f.prev = TailOf(w, c) /\ f.cur = From(w, n, c)
    /\ c > 0 => h.next[w[1]] = NULL
    /\ \A x \in 2 .. c : h.next[w[x]] = w[x - 1]
    /\ Chained(h, w, c + 1, n) /\ (c < n => h.next[w[n]] = NULL)

LEMMA StartReverse ==
    ASSUME NEW n \in Nat, n >= 3, NEW h, NEW w, NEW f, ListAt(h, w, n, f.list),
           f.prev = NULL, f.cur = f.list
    PROVE  ReverseAt(h, f, w, n, 0)
BY DEF ListAt, ReverseAt, TailOf, From

LEMMA ReverseStep ==
    ASSUME NEW n \in Nat, n >= 3, NEW h \in HeapOf(n + 1), NEW f, NEW w, NEW c, ReverseAt(h, f, w, n, c),
           f.cur # NULL, NEW g, g = SetNext(h, f.cur, f.prev),
           NEW e, e.list = f.list, e.prev = f.cur, e.cur = h.next[f.cur]
    PROVE  /\ g \in HeapOf(n + 1) /\ g.info = h.info /\ g.data = h.data
           /\ ReverseAt(g, e, w, n, c + 1)
<1>1. c \in 0 .. n - 1 /\ c + 1 \in 1 .. n /\ f.cur = w[c + 1]
  BY DEF ReverseAt, From
<1>2. /\ \A i, j \in 1 .. n : w[i] = w[j] => i = j
      /\ \A i \in 1 .. n : w[i] \in Addr(n + 1) /\ w[i] # NULL
  BY ArrangedIs DEF ReverseAt
<1>3. f.cur \in Addr(n + 1) /\ f.prev \in Addr(n + 1) \cup {NULL}
  BY <1>1, <1>2 DEF ReverseAt, TailOf
<1>4. PICK m \in Addr(n + 1), x \in Addr(n + 1) \cup {NULL} : m = f.cur /\ x = f.prev
  BY <1>3
<1>5. g \in HeapOf(n + 1) /\ g.next = [h.next EXCEPT ![m] = x] /\ g.info = h.info /\ g.data = h.data
  BY <1>4, SetNextIs
<1>6. h.next \in [Addr(n + 1) -> Addr(n + 1) \cup {NULL}]
  BY DEF HeapOf
<1>7. g.next[w[c + 1]] = f.prev /\ \A i \in 1 .. n : i # c + 1 => g.next[w[i]] = h.next[w[i]]
  BY <1>1, <1>2, <1>4, <1>5, <1>6
<1>8. e.prev = TailOf(w, c + 1) /\ e.list = w[1]
  BY <1>1 DEF ReverseAt, TailOf
<1>9. e.cur = From(w, n, c + 1)
  <2>1. CASE c + 1 < n
    <3>1. h.next[w[c + 1]] = w[(c + 1) + 1]
      BY <1>1, <2>1 DEF ReverseAt, Chained
    <3>2. QED
      BY <1>1, <2>1, <3>1 DEF From
  <2>2. CASE c + 1 = n
    BY <1>1, <2>2 DEF ReverseAt, From
  <2>3. QED
    BY <1>1, <2>1, <2>2
<1>10. g.next[w[1]] = NULL
  <2>1. CASE c = 0
    BY <1>7, <2>1 DEF ReverseAt, TailOf
  <2>2. CASE c > 0
    BY <1>1, <1>7, <2>2 DEF ReverseAt
  <2>3. QED
    BY <1>1, <2>1, <2>2
<1>11. ASSUME NEW x1 \in 2 .. c + 1 PROVE g.next[w[x1]] = w[x1 - 1]
  <2>1. CASE x1 = c + 1
    BY <1>1, <1>7, <2>1 DEF ReverseAt, TailOf
  <2>2. CASE x1 # c + 1
    <3>1. x1 \in 2 .. c /\ x1 \in 1 .. n
      BY <1>1, <2>2
    <3>2. QED
      BY <1>7, <2>2, <3>1 DEF ReverseAt
  <2>3. QED
    BY <2>1, <2>2
<1>12. Chained(g, w, (c + 1) + 1, n)
  <2>1. ASSUME NEW y \in (c + 1) + 1 .. n - 1 PROVE g.next[w[y]] = w[y + 1]
    <3>1. y \in c + 1 .. n - 1 /\ y \in 1 .. n /\ y # c + 1
      BY <1>1
    <3>2. QED
      BY <1>7, <3>1 DEF ReverseAt, Chained
  <2>2. QED
    BY <2>1 DEF Chained
<1>13. c + 1 < n => g.next[w[n]] = NULL
  BY <1>1, <1>7 DEF ReverseAt
<1>14. c + 1 \in 0 .. n /\ Arranged(w, n)
  BY <1>1 DEF ReverseAt
<1>15. QED
  BY <1>5, <1>8, <1>9, <1>10, <1>11, <1>12, <1>13, <1>14 DEF ReverseAt

LEMMA EndReverse ==
    ASSUME NEW n \in Nat, n >= 3, NEW h, NEW f, NEW w, NEW c, ReverseAt(h, f, w, n, c), f.cur = NULL
    PROVE  c = n /\ ListAt(h, Reversed(w, n), n, f.prev)
<1>1. c = n
  <2>1. CASE c < n
    <3>1. c \in 0 .. n /\ c + 1 \in 1 .. n /\ Arranged(w, n)
      BY <2>1 DEF ReverseAt
    <3>2. f.cur # NULL
      BY <2>1, <3>1, ArrangedIs DEF ReverseAt, From
    <3>3. QED
      BY <3>2
  <2>2. QED
    BY <2>1 DEF ReverseAt
<1> DEFINE v == Reversed(w, n)
<1>2. Arranged(v, n)
  BY ReversedArranged DEF ReverseAt
<1>3. \A x \in 1 .. n : v[x] = w[n + 1 - x]
  BY DEF Reversed
<1> HIDE DEF v
<1>4. f.prev = w[n]
  BY <1>1 DEF ReverseAt, TailOf
<1>5. v[1] = f.prev
  BY <1>3, <1>4
<1>6. ASSUME NEW x \in 1 .. n - 1 PROVE h.next[v[x]] = v[x + 1]
  <2>1. n + 1 - x \in 2 .. n /\ x + 1 \in 1 .. n /\ n + 1 - (x + 1) = (n + 1 - x) - 1
    OBVIOUS
  <2>2. h.next[w[n + 1 - x]] = w[(n + 1 - x) - 1]
    BY <1>1, <2>1 DEF ReverseAt
  <2>3. QED
    BY <1>3, <2>1, <2>2
<1>7. h.next[v[n]] = NULL
  BY <1>1, <1>3 DEF ReverseAt
<1>8. QED
  BY <1>1, <1>2, <1>5, <1>6, <1>7 DEF ListAt, Chained, v

LEMMA MoveNextIs ==
    ASSUME NEW n \in Nat, n >= 3, NEW h \in HeapOf(n + 1), NEW v, NEW first, ListAt(h, v, n, first),
           NEW j \in 1 .. n, NEW g, g = MoveNextToFront(h, first, v[j]),
           NEW u, u = IF j < n THEN Moved(v, n, j + 1, 2) ELSE v
    PROVE  /\ g \in HeapOf(n + 1) /\ g.info = h.info /\ g.data = h.data
           /\ ListAt(g, u, n, first) /\ g.next[n] = h.next[n]
<1>0. /\ Arranged(v, n) /\ v[1] = first /\ h.next[v[n]] = NULL
      /\ \A x \in 1 .. n - 1 : h.next[v[x]] = v[x + 1]
  BY DEF ListAt, Chained
<1>a. /\ \A x, y \in 1 .. n : v[x] = v[y] => x = y
      /\ \A x \in 1 .. n : v[x] \in Addr(n + 1) /\ v[x] # NULL
  BY <1>0, ArrangedIs
<1>1. CASE j = n
  BY <1>0, <1>1 DEF MoveNextToFront
<1>2. CASE j < n
  <2>0. j \in 1 .. n - 1 /\ j + 1 \in 2 .. n /\ j + 1 \in 1 .. n /\ 2 \in 1 .. n /\ 1 \in 1 .. n /\ 2 <= j + 1
    BY <1>2
  <2>1. PICK m \in Addr(n + 1), t \in Addr(n + 1), x \in Addr(n + 1) \cup {NULL} :
            m = v[j + 1] /\ t = v[j] /\ x = h.next[m]
    <3>1. v[j + 1] \in Addr(n + 1) /\ v[j] \in Addr(n + 1)
      BY <1>a, <2>0
    <3>2. h.next[v[j + 1]] \in Addr(n + 1) \cup {NULL}
      BY <3>1 DEF HeapOf
    <3>3. QED
      BY <3>1, <3>2
  <2>2. first \in Addr(n + 1)
    BY <1>0, <1>a, <2>0
  <2>3. PICK h1 : h1 = SetNext(h, t, x)
    OBVIOUS
  <2>4. h1 \in HeapOf(n + 1) /\ h1.next = [h.next EXCEPT ![t] = x] /\ h1.info = h.info /\ h1.data = h.data
    BY <2>1, <2>3, SetNextIs
  <2>5. PICK y \in Addr(n + 1) \cup {NULL} : y = h1.next[first]
    BY <2>2, <2>4 DEF HeapOf
  <2>6. PICK h2 : h2 = SetNext(h1, m, y)
    OBVIOUS
  <2>7. h2 \in HeapOf(n + 1) /\ h2.next = [h1.next EXCEPT ![m] = y] /\ h2.info = h1.info /\ h2.data = h1.data
    BY <2>1, <2>4, <2>6, SetNextIs
  <2>8. g = SetNext(h2, first, m)
    <3>1. h.next[v[j]] = m /\ m # NULL
      BY <1>0, <1>a, <2>0, <2>1
    <3>2. QED
      BY <2>1, <2>3, <2>5, <2>6, <3>1 DEF MoveNextToFront
  <2>9. g \in HeapOf(n + 1) /\ g.next = [h2.next EXCEPT ![first] = m] /\ g.info = h2.info /\ g.data = h2.data
    <3>1. m \in Addr(n + 1) \cup {NULL}
      OBVIOUS
    <3>2. QED
      BY <2>2, <2>7, <2>8, <3>1, SetNextIs
  <2>10. h.next \in [Addr(n + 1) -> Addr(n + 1) \cup {NULL}]
    BY DEF HeapOf
  <2>11. /\ g.next[v[1]] = v[j + 1]
         /\ g.next[v[j + 1]] = IF j = 1 THEN h.next[v[2]] ELSE v[2]
         /\ j # 1 => g.next[v[j]] = h.next[v[j + 1]]
         /\ \A i \in 1 .. n : i # 1 /\ i # j /\ i # j + 1 => g.next[v[i]] = h.next[v[i]]
    <3>1. m # first /\ (t = first <=> j = 1) /\ t # m
      BY <1>0, <1>a, <2>0, <2>1
    <3>2. y = IF j = 1 THEN x ELSE h.next[first]
      BY <2>2, <2>4, <2>5, <2>10, <3>1
    <3>3. h.next[first] = v[2]
      BY <1>0, <2>0
    <3>4. g.next[first] = m /\ g.next[m] = y /\ (j # 1 => g.next[t] = x)
      BY <2>2, <2>4, <2>7, <2>9, <2>10, <3>1
    <3>5. \A e \in Addr(n + 1) : e # first /\ e # m /\ e # t => g.next[e] = h.next[e]
      BY <2>4, <2>7, <2>9, <2>10
    <3>6. \A i \in 1 .. n : i # 1 /\ i # j /\ i # j + 1 => v[i] # first /\ v[i] # m /\ v[i] # t
      BY <1>0, <1>a, <2>0, <2>1
    <3>7. j = 1 => x = h.next[v[2]]
      BY <2>1
    <3>8. QED
      BY <1>0, <1>a, <2>0, <2>1, <3>2, <3>3, <3>4, <3>5, <3>6, <3>7
  <2>12. u = Moved(v, n, j + 1, 2)
    BY <1>2
  <2>13. Arranged(u, n)
    BY <1>0, <2>0, <2>12, MovedArranged
  <2>14. \A i \in 1 .. n : u[i] = IF i = 2 THEN v[j + 1] ELSE IF 2 < i /\ i <= j + 1 THEN v[i - 1] ELSE v[i]
    BY <2>12 DEF Moved
  <2>15. u[1] = v[1] /\ u[2] = v[j + 1]
    BY <2>0, <2>14
  <2>16. ASSUME NEW i \in 1 .. n - 1 PROVE g.next[u[i]] = u[i + 1]
    <3>0. i \in 1 .. n /\ i + 1 \in 1 .. n
      OBVIOUS
    <3>1. CASE i = 1
      BY <2>11, <2>15, <3>1
    <3>2. CASE i = 2
      <4>1. CASE j = 1
        <5>1. u[3] = v[3] /\ h.next[v[2]] = v[3]
          BY <1>0, <2>14, <3>0, <3>2, <4>1
        <5>2. QED
          BY <2>11, <2>15, <3>2, <4>1, <5>1
      <4>2. CASE j # 1
        <5>1. u[3] = v[2]
          BY <2>0, <2>14, <3>0, <3>2, <4>2
        <5>2. QED
          BY <2>11, <2>15, <3>2, <4>2, <5>1
      <4>3. QED
        BY <4>1, <4>2
    <3>3. CASE 2 < i /\ i <= j
      <4>1. u[i] = v[i - 1] /\ u[i + 1] = v[(i + 1) - 1]
        BY <2>0, <2>14, <3>0, <3>3
      <4>2. i - 1 \in 1 .. n - 1 /\ (i - 1) + 1 = i /\ i - 1 \in 1 .. n
        BY <3>3
      <4>3. h.next[v[i - 1]] = v[i]
        BY <1>0, <4>2
      <4>4. g.next[v[i - 1]] = h.next[v[i - 1]]
        BY <2>11, <4>2, <3>3
      <4>5. QED
        BY <4>1, <4>3, <4>4
    <3>4. CASE 2 < i /\ i = j + 1
      <4>1. u[i] = v[j] /\ u[i + 1] = v[i + 1] /\ j # 1
        BY <2>0, <2>14, <3>0, <3>4
      <4>2. h.next[v[j + 1]] = v[i + 1]
        BY <1>0, <3>4
      <4>3. QED
        BY <2>11, <4>1, <4>2
    <3>5. CASE j + 1 < i
      <4>1. u[i] = v[i] /\ u[i + 1] = v[i + 1]
        BY <2>0, <2>14, <3>0, <3>5
      <4>2. g.next[v[i]] = h.next[v[i]]
        BY <2>0, <2>11, <3>0, <3>5
      <4>3. QED
        BY <1>0, <4>1, <4>2
    <3>6. QED
      BY <2>0, <3>1, <3>2, <3>3, <3>4, <3>5
  <2>17. g.next[u[n]] = NULL
    <3>1. CASE j + 1 < n
      <4>1. u[n] = v[n] /\ g.next[v[n]] = h.next[v[n]]
        BY <2>0, <2>11, <2>14, <3>1
      <4>2. QED
        BY <1>0, <4>1
    <3>2. CASE j + 1 = n
      <4>1. j # 1 /\ u[n] = v[n - 1] /\ n - 1 = j
        BY <2>14, <3>2
      <4>2. QED
        BY <1>0, <2>11, <3>2, <4>1
    <3>3. QED
      BY <2>0, <3>1, <3>2
  <2>18. ListAt(g, u, n, first)
    BY <1>0, <2>13, <2>15, <2>16, <2>17 DEF ListAt, Chained
  <2>19. g.next[n] = h.next[n]
    <3>1. v[1] # n /\ v[j] # n /\ v[j + 1] # n
      BY <1>0, <2>0, ArrangedIs
    <3>2. first # n /\ m # n /\ t # n
      BY <1>0, <2>1, <3>1
    <3>3. n \in Addr(n + 1)
      BY DEF Addr
    <3>4. QED
      BY <2>4, <2>7, <2>9, <2>10, <3>2, <3>3
  <2>20. QED
    BY <2>4, <2>7, <2>9, <2>18, <2>19
<1>3. QED
  BY <1>1, <1>2

-----------------------------------------------------------------------------
(* What core_bench_list adds to its CRC is a 16-bit number.                 *)
CrcStep(f, d, x) == IF x[1] = 0 THEN x[2] ELSE f[<<x[1] - 1, crc16(d, x[2])>>]
IsCrcTurn(f, d, M) == f = [x \in (0 .. M) \X Word16 |-> CrcStep(f, d, x)]

LEMMA CrcTurnExists ==
    ASSUME NEW M \in Nat, NEW d \in Int
    PROVE  \E f : IsCrcTurn(f, d, M) /\ \A x \in (0 .. M) \X Word16 : f[x] \in Word16
<1> DEFINE Has(j) == \E f : /\ f = [x \in (0 .. j) \X Word16 |-> CrcStep(f, d, x)]
                            /\ \A x \in (0 .. j) \X Word16 : f[x] \in Word16
           S == {j \in Nat : Has(j)}
<1>1. 0 \in S
  <2> DEFINE g == [x \in (0 .. 0) \X Word16 |-> x[2]]
  <2>1. ASSUME NEW x \in (0 .. 0) \X Word16 PROVE CrcStep(g, d, x) = x[2]
    BY DEF CrcStep
  <2>2. g = [x \in (0 .. 0) \X Word16 |-> CrcStep(g, d, x)]
    <3> HIDE DEF g
    <3>1. g = [x \in (0 .. 0) \X Word16 |-> x[2]]
      BY DEF g
    <3>2. QED
      BY <2>1, <3>1
  <2>3. \A x \in (0 .. 0) \X Word16 : g[x] \in Word16
    OBVIOUS
  <2>4. QED
    BY <2>2, <2>3
<1>2. ASSUME NEW j \in Nat, j \in S PROVE j + 1 \in S
  <2>1. PICK f : /\ f = [x \in (0 .. j) \X Word16 |-> CrcStep(f, d, x)]
                 /\ \A x \in (0 .. j) \X Word16 : f[x] \in Word16
    BY <1>2
  <2>2. \A x \in (0 .. j) \X Word16 : f[x] = CrcStep(f, d, x)
    BY <2>1
  <2>3. (0 .. j) \subseteq (0 .. j + 1) /\ \A i \in 0 .. j + 1 : i # 0 => i - 1 \in 0 .. j
    OBVIOUS
  <2> DEFINE B == (0 .. j + 1) \X Word16
             g == [x \in B |-> CrcStep(f, d, x)]
  <2>4. \A x \in (0 .. j) \X Word16 : x \in B /\ g[x] = f[x]
    BY <2>2, <2>3
  <2>5. \A x \in B : g[x] = CrcStep(f, d, x)
    OBVIOUS
  <2>6. ASSUME NEW x \in B
        PROVE  /\ x[2] \in Word16
               /\ x[1] # 0 => <<x[1] - 1, crc16(d, x[2])>> \in (0 .. j) \X Word16
    <3>1. x[1] \in 0 .. j + 1 /\ x[2] \in Word16
      OBVIOUS
    <3>2. crc16(d, x[2]) \in Word16
      BY <3>1, Crc16Type
    <3>3. QED
      BY <2>3, <3>1, <3>2
  <2>7. g = [x \in B |-> g[x]]
    OBVIOUS
  <2> HIDE DEF g, B
  <2>8. ASSUME NEW x \in B PROVE g[x] = CrcStep(g, d, x) /\ g[x] \in Word16
    <3>1. CASE x[1] = 0
      BY <2>5, <2>6, <3>1 DEF CrcStep
    <3>2. CASE x[1] # 0
      <4>1. <<x[1] - 1, crc16(d, x[2])>> \in (0 .. j) \X Word16
        BY <2>6, <3>2
      <4>2. g[<<x[1] - 1, crc16(d, x[2])>>] = f[<<x[1] - 1, crc16(d, x[2])>>]
        BY <2>4, <4>1
      <4>3. f[<<x[1] - 1, crc16(d, x[2])>>] \in Word16
        BY <2>1, <4>1
      <4>4. QED
        BY <2>5, <3>2, <4>2, <4>3 DEF CrcStep
    <3>3. QED
      BY <3>1, <3>2
  <2>9. g = [x \in B |-> CrcStep(g, d, x)]
    BY <2>7, <2>8
  <2>10. Has(j + 1)
    BY <2>8, <2>9 DEF B
  <2>11. QED
    BY <2>10
<1>3. M \in S
  BY <1>1, <1>2, Induction
<1>4. QED
  BY <1>3 DEF IsCrcTurn

LEMMA MaxIs ==
    ASSUME NEW z \in Nat, Pointers(heap, z) PROVE Max = z
<1>1. DOMAIN heap.next = 0 .. z - 1
  BY DEF Pointers, Addr
<1>2. Cardinality(0 .. z - 1) = z
  <2>1. PICK y \in Int : y = z - 1
    OBVIOUS
  <2>2. Cardinality(0 .. y) = IF 0 > y THEN 0 ELSE y - 0 + 1
    BY FS_Interval
  <2>3. QED
    BY <2>1, <2>2
<1>3. QED
  BY <1>1, <1>2 DEF Max

LEMMA CrcFromType ==
    ASSUME NEW z \in Nat, Pointers(heap, z), NEW h, Pointers(h, z), NEW list,
           Info(h, list).data16 \in Int, NEW m \in Addr(z) \cup {NULL}, NEW v \in Word16
    PROVE  CrcFrom(h, list, m, v) \in Word16
<1> DEFINE d == Info(h, list).data16
           turn == CHOOSE f : f = [x \in (0 .. z) \X Word16 |->
                        IF x[1] = 0 THEN x[2] ELSE f[<<x[1] - 1, crc16(d, x[2])>>]]
           c == Len(ChainOf(h, m, z))
<1>1. Max = z
  BY MaxIs
<1>2. CrcFrom(h, list, m, v) = turn[<<c, v>>]
  BY <1>1 DEF CrcFrom
<1>3. c \in 0 .. z
  BY ChainType
<1> HIDE DEF c
<1>4. d \in Int
  OBVIOUS
<1> HIDE DEF d
<1>5. PICK g : IsCrcTurn(g, d, z) /\ \A x \in (0 .. z) \X Word16 : g[x] \in Word16
  BY <1>4, CrcTurnExists
<1>6. g = [x \in (0 .. z) \X Word16 |-> CrcStep(g, d, x)]
  BY <1>5 DEF IsCrcTurn
<1>7. g = [x \in (0 .. z) \X Word16 |-> IF x[1] = 0 THEN x[2] ELSE g[<<x[1] - 1, crc16(d, x[2])>>]]
  BY <1>6 DEF CrcStep
<1>8. turn = [x \in (0 .. z) \X Word16 |-> IF x[1] = 0 THEN x[2] ELSE turn[<<x[1] - 1, crc16(d, x[2])>>]]
  BY <1>7
<1> HIDE DEF turn
<1>9. IsCrcTurn(turn, d, z)
  BY <1>8 DEF IsCrcTurn, CrcStep
<1> DEFINE S == {i \in Nat : i <= z => \A u \in Word16 : turn[<<i, u>>] \in Word16}
<1>10. \A i \in 0 .. z, u \in Word16 : turn[<<i, u>>] = CrcStep(turn, d, <<i, u>>)
  <2> SUFFICES ASSUME NEW i \in 0 .. z, NEW u \in Word16
               PROVE turn[<<i, u>>] = CrcStep(turn, d, <<i, u>>)
    OBVIOUS
  <2> DEFINE x == <<i, u>>
  <2>1. x = <<i, u>> /\ x \in (0 .. z) \X Word16
    OBVIOUS
  <2> HIDE DEF x
  <2>2. turn[x] = CrcStep(turn, d, x)
    BY <1>9, <2>1 DEF IsCrcTurn
  <2>3. QED
    BY <2>1, <2>2
<1>11. 0 \in S
  <2>1. 0 \in 0 .. z
    OBVIOUS
  <2>2. ASSUME NEW u \in Word16 PROVE turn[<<0, u>>] \in Word16
    BY <1>10, <2>1 DEF CrcStep
  <2>3. QED
    BY <2>2
<1>12. ASSUME NEW i \in Nat, i \in S PROVE i + 1 \in S
  <2> SUFFICES ASSUME i + 1 <= z, NEW u \in Word16 PROVE turn[<<i + 1, u>>] \in Word16
    OBVIOUS
  <2>1. PICK j : j = i + 1 /\ j \in 0 .. z /\ j # 0 /\ j - 1 = i
    OBVIOUS
  <2>2. turn[<<j, u>>] = turn[<<j - 1, crc16(d, u)>>]
    BY <1>10, <2>1 DEF CrcStep
  <2>3. crc16(d, u) \in Word16
    BY <1>4, Crc16Type
  <2>4. i <= z
    OBVIOUS
  <2>5. turn[<<i, crc16(d, u)>>] \in Word16
    BY <1>12, <2>3, <2>4
  <2>6. QED
    BY <2>1, <2>2, <2>5
<1>13. Nat \subseteq S
  <2> HIDE DEF S
  <2>1. QED
    BY <1>11, <1>12, Induction
<1>14. c \in S /\ c <= z
  BY <1>3, <1>13
<1>15. QED
  BY <1>2, <1>14

-----------------------------------------------------------------------------
(* What the comparisons do to the data of an item.                          *)
Alike(x, y) == x.idx = y.idx /\ HighByte(x.data16) = HighByte(y.data16)

LEMMA AlikeSettled ==
    ASSUME NEW x \in Datum, NEW y \in Datum, Alike(x, y), Settled(x, "idx"), Settled(y, "idx")
    PROVE  x = y
BY DEF Alike, Settled, Datum

LEMMA HighByteBounds ==
    ASSUME NEW d \in Datum
    PROVE  \E b \in Int : b = HighByte(d.data16) /\ 0 <= b /\ b <= 255
<1>1. PICK x \in Int : x = d.data16
  BY DEF Datum
<1>2. HighByte(x) \in 0 .. 255 /\ HighByte(x) \in Int
  BY HighByteType
<1>3. PICK b : b = HighByte(x)
  OBVIOUS
<1>4. b \in Int /\ 0 <= b /\ b <= 255
  BY <1>2, <1>3
<1>5. QED
  BY <1>1, <1>3, <1>4

\* The data of item x becomes v, with the same upper byte.
PutAlike(h, g, z, x, v, cmp) ==
    /\ g \in HeapOf(z) /\ g.next = h.next /\ g.info = h.info
    /\ g.data[x] = [idx |-> h.data[x].idx, data16 |-> v]
    /\ \A y \in Addr(z) : y # x => g.data[y] = h.data[y]
    /\ \A y \in Addr(z) : Alike(g.data[y], h.data[y])
    /\ Settled(g.data[x], cmp)

LEMMA PutAlikeIs ==
    ASSUME NEW z, NEW h \in HeapOf(z), NEW x \in Addr(z), NEW v \in Int,
           HighByte(v) = HighByte(h.data[x].data16), NEW cmp,
           Settled([idx |-> h.data[x].idx, data16 |-> v], cmp),
           NEW g, g = PutData(h, x, v)
    PROVE  PutAlike(h, g, z, x, v, cmp)
<1>1. /\ g \in HeapOf(z) /\ g.next = h.next /\ g.info = h.info
      /\ g.data = [h.data EXCEPT ![x] = [idx |-> h.data[x].idx, data16 |-> v]]
  BY PutDataIs
<1>2. h.data \in [Addr(z) -> Datum]
  BY HeapPointers
<1>3. /\ g.data[x] = [idx |-> h.data[x].idx, data16 |-> v]
      /\ \A y \in Addr(z) : y # x => g.data[y] = h.data[y]
  BY <1>1, <1>2
<1>4. ASSUME NEW y \in Addr(z) PROVE Alike(g.data[y], h.data[y])
  BY <1>3 DEF Alike
<1>5. QED
  BY <1>1, <1>3, <1>4 DEF PutAlike

LEMMA RebuildIs ==
    ASSUME NEW z, NEW h \in HeapOf(z), NEW x \in Addr(z), h.info[x] = x,
           NEW g, g = Rebuild(h, x)
    PROVE  \E v \in Int : PutAlike(h, g, z, x, v, "idx") /\ v = 257 * HighByte(h.data[x].data16)
<1>1. h.data[x] \in Datum
  BY HeapPointers
<1>2. PICK b \in Int : b = HighByte(h.data[x].data16) /\ 0 <= b /\ b <= 255
  BY <1>1, HighByteBounds
<1>3. PICK v \in Int : v = 257 * b /\ HighByte(v) = b
  BY <1>2, HighByteTwice
<1>4. g = PutData(h, x, v)
  BY <1>2, <1>3 DEF Rebuild, PutData
<1>5. Settled([idx |-> h.data[x].idx, data16 |-> v], "idx")
  BY <1>3 DEF Settled
<1>6. PutAlike(h, g, z, x, v, "idx")
  BY <1>2, <1>3, <1>4, <1>5, PutAlikeIs
<1>7. QED
  BY <1>2, <1>3, <1>6

\* Both items that cmp_idx compares are rebuilt.
BothRebuilt(h, g, z, p, q) ==
    /\ g \in HeapOf(z) /\ g.next = h.next /\ g.info = h.info
    /\ \A y \in Addr(z) : Alike(g.data[y], h.data[y])
    /\ \A y \in Addr(z) : Settled(h.data[y], "idx") => g.data[y] = h.data[y]
    /\ Settled(g.data[p], "idx") /\ Settled(g.data[q], "idx")

LEMMA PutSettles ==
    ASSUME NEW z, NEW h \in HeapOf(z), NEW x \in Addr(z), NEW g, NEW v \in Int,
           PutAlike(h, g, z, x, v, "idx"), v = 257 * HighByte(h.data[x].data16)
    PROVE  \A y \in Addr(z) : Settled(h.data[y], "idx") => g.data[y] = h.data[y]
<1> SUFFICES ASSUME Settled(h.data[x], "idx") PROVE g.data[x] = h.data[x]
  BY DEF PutAlike
<1>1. h.data[x] \in Datum
  BY HeapPointers
<1>2. v = h.data[x].data16
  BY DEF Settled
<1>3. QED
  BY <1>1, <1>2 DEF PutAlike, Datum

LEMMA BothRebuiltIs ==
    ASSUME NEW z, NEW h \in HeapOf(z), NEW p \in Addr(z), NEW q \in Addr(z),
           h.info[p] = p, h.info[q] = q, NEW g, g = Rebuild(Rebuild(h, p), q)
    PROVE  BothRebuilt(h, g, z, p, q)
<1>1. PICK f : f = Rebuild(h, p)
  OBVIOUS
<1>2. PICK v \in Int : PutAlike(h, f, z, p, v, "idx") /\ v = 257 * HighByte(h.data[p].data16)
  BY <1>1, RebuildIs
<1>3. \A y \in Addr(z) : Settled(h.data[y], "idx") => f.data[y] = h.data[y]
  BY <1>2, PutSettles
<1>4. f \in HeapOf(z) /\ f.info[q] = q /\ g = Rebuild(f, q)
  BY <1>1, <1>2 DEF PutAlike
<1>5. PICK u \in Int : PutAlike(f, g, z, q, u, "idx") /\ u = 257 * HighByte(f.data[q].data16)
  BY <1>4, RebuildIs
<1>6. \A y \in Addr(z) : Settled(f.data[y], "idx") => g.data[y] = f.data[y]
  BY <1>4, <1>5, PutSettles
<1>7. ASSUME NEW y \in Addr(z) PROVE Alike(g.data[y], h.data[y])
  BY <1>2, <1>5 DEF PutAlike, Alike
<1>8. ASSUME NEW y \in Addr(z), Settled(h.data[y], "idx") PROVE g.data[y] = h.data[y]
  BY <1>3, <1>6, <1>8
<1>9. Settled(f.data[p], "idx") /\ Settled(g.data[q], "idx")
  BY <1>2, <1>5 DEF PutAlike
<1>10. Settled(g.data[p], "idx")
  BY <1>6, <1>9
<1>11. QED
  BY <1>2, <1>5, <1>7, <1>8, <1>9, <1>10 DEF PutAlike, BothRebuilt

\* The end of calc_func.
Cached(h, x, v) == [h EXCEPT !.data[h.info[x]].data16 = 256 * HighByte(@) + 128 + (v % 128)]

LEMMA CachedValue ==
    ASSUME NEW b \in Int, 0 <= b, b <= 255, NEW v \in Int, NEW y, y = 256 * b + 128 + (v % 128)
    PROVE  y \in Int /\ HighByte(y) = b /\ Field(y, 7, 1) = 1
<1>1. PICK m \in Int : m = v % 128 /\ 0 <= m /\ m <= 127
  OBVIOUS
<1>2. y = 256 * b + 128 + m
  BY <1>1
<1>3. y \div 256 = b /\ y \div 128 = 2 * b + 1
  BY <1>1, <1>2
<1>4. b % 256 = b /\ (2 * b + 1) % 2 = 1
  OBVIOUS
<1>5. 2^7 = 128 /\ 2^1 = 2
  OBVIOUS
<1>6. Field(y, 7, 1) = (y \div 128) % 2
  BY <1>5 DEF Field
<1>7. QED
  BY <1>2, <1>1, <1>3, <1>4, <1>6 DEF HighByte

LEMMA CachedIs ==
    ASSUME NEW z, NEW h \in HeapOf(z), NEW x \in Addr(z), h.info[x] = x, NEW v \in Int,
           NEW g, g = Cached(h, x, v)
    PROVE  \E y \in Int : PutAlike(h, g, z, x, y, "data")
<1>1. h.data[x] \in Datum
  BY HeapPointers
<1>2. PICK b \in Int : b = HighByte(h.data[x].data16) /\ 0 <= b /\ b <= 255
  BY <1>1, HighByteBounds
<1>3. PICK y : y = 256 * b + 128 + (v % 128)
  OBVIOUS
<1>4. y \in Int /\ HighByte(y) = b /\ Field(y, 7, 1) = 1
  BY <1>2, <1>3, CachedValue
<1>5. g = PutData(h, x, y)
  BY <1>2, <1>3 DEF Cached, PutData
<1>6. Settled([idx |-> h.data[x].idx, data16 |-> y], "data")
  BY <1>4 DEF Settled
<1>7. PutAlike(h, g, z, x, y, "data")
  BY <1>2, <1>4, <1>5, <1>6, PutAlikeIs
<1>8. QED
  BY <1>4, <1>7

-----------------------------------------------------------------------------
(* The items of a list whose nodes hold their own data.                     *)
LEMMA ContentsIs ==
    ASSUME NEW n \in Nat, n >= 1, NEW h \in HeapOf(n + 1), NEW w, NEW first, ListAt(h, w, n, first),
           \A x \in Addr(n + 1) : h.info[x] = x
    PROVE  Contents(h, first, n + 1) = [i \in 1 .. n |-> h.data[w[i]]]
<1>1. Pointers(h, n + 1)
  BY HeapPointers
<1>2. PICK c : c = ChainOf(h, first, n + 1)
  OBVIOUS
<1>3. Is(c, w, 1, n)
  BY <1>1, <1>2, ListContents
<1>4. Arranged(w, n)
  BY DEF ListAt
<1>5. \A i \in 1 .. n : w[i] \in Addr(n + 1)
  BY <1>4, ArrangedIs
<1>6. Len(c) = n /\ \A i \in 1 .. n : c[i] = w[i]
  BY <1>3 DEF Is
<1>7. \A i \in 1 .. n : Info(h, c[i]) = h.data[w[i]]
  BY <1>5, <1>6 DEF Info
<1>8. Contents(h, first, n + 1) = [i \in 1 .. Len(c) |-> Info(h, c[i])]
  BY <1>2 DEF Contents
<1>9. QED
  BY <1>6, <1>7, <1>8

-----------------------------------------------------------------------------
(* A merge sort of the n nodes: between merges, and during one.             *)
PassState(h, m, r, w, n) ==
    /\ m.insize >= 1 /\ Ranks(r, n)
    /\ \E a : /\ PassAt(h, m, w, n, a)
              /\ SortedRuns(h.data, m.cmp, r, w, n, m.insize, m.nmerges, a)
MergeState(h, m, r, w, n) ==
    /\ m.insize >= 1 /\ Ranks(r, n)
    /\ \E a, b : /\ MergeAt(h, m, w, n, a)
                 /\ MergedRuns(h.data, m.cmp, r, w, n, m.insize, m.nmerges, b, a, m.psize,
                               Min2(a + m.psize + m.qsize, n))

LEMMA StartPass ==
    ASSUME NEW n \in Nat, n >= 3, NEW h, NEW list, NEW w, ListAt(h, w, n, list), NEW cmp, NEW after,
           NEW m, m = SortStart(list, cmp, after), NEW r, Ranks(r, n), \A i \in 1 .. n : r[w[i]] = i
    PROVE  PassState(h, m, r, w, n)
<1>1. Arranged(w, n) /\ w[1] = list /\ Chained(h, w, 1, n) /\ h.next[w[n]] = NULL
  BY DEF ListAt
<1>2. /\ m.list = NULL /\ m.tail = NULL /\ m.p = list /\ m.insize = 1 /\ m.nmerges = 0
      /\ m.cmp = cmp
  BY DEF SortStart
<1>3. Chained(h, w, 1, 0) /\ Chained(h, w, 0 + 1, n)
  BY <1>1 DEF Chained
<1>4. PassAt(h, m, w, n, 0)
  BY <1>1, <1>2, <1>3 DEF PassAt, HeadOf, TailOf, From
<1>5. SortedRuns(h.data, m.cmp, r, w, n, 1, 0, 0)
  BY <1>1, StartSorted
<1>6. QED
  BY <1>2, <1>4, <1>5 DEF PassState

LEMMA MergeFacts ==
    ASSUME NEW n \in Nat, n >= 3, NEW h \in HeapOf(n + 1), NEW m \in SortState, NEW r, NEW w,
           MergeState(h, m, r, w, n)
    PROVE  /\ Arranged(w, n) /\ m.p \in Addr(n + 1) \cup {NULL}
           /\ m.psize > 0 => m.p \in Addr(n) /\ m.p # NULL /\ m.p \in Addr(n + 1)
           /\ m.q # NULL => m.q \in Addr(n) /\ m.q \in Addr(n + 1)
<1>1. PICK a : MergeAt(h, m, w, n, a)
  BY DEF MergeState
<1>2. Arranged(w, n) /\ a \in 0 .. n /\ m.psize \in Nat /\ a + m.psize <= n
  BY <1>1 DEF MergeAt
<1>3. \A i \in 1 .. n : w[i] \in Addr(n) /\ w[i] \in Addr(n + 1) /\ w[i] # NULL
  BY <1>2, ArrangedIs
<1>4. m.psize > 0 => a + 1 \in 1 .. n
  BY <1>2
<1>5. a + m.psize < n => a + m.psize + 1 \in 1 .. n
  BY <1>2
<1>6. m.psize > 0 => m.p = w[a + 1]
  BY <1>1 DEF MergeAt
<1>7. m.q = From(w, n, a + m.psize)
  BY <1>1 DEF MergeAt
<1>8. m.q # NULL => m.q = w[a + m.psize + 1] /\ a + m.psize < n
  BY <1>7 DEF From
<1>9. m.p \in Addr(n + 1) \cup {NULL}
  BY <1>1 DEF MergeAt
<1>10. QED
  BY <1>2, <1>3, <1>4, <1>5, <1>6, <1>8, <1>9

\* q is behind p since the sort began.
LEMMA PBeforeQ ==
    ASSUME NEW n \in Nat, n >= 3, NEW h \in HeapOf(n + 1), NEW m \in SortState, NEW r, NEW w,
           MergeState(h, m, r, w, n), m.psize > 0, m.qsize > 0, m.q # NULL
    PROVE  r[m.p] < r[m.q] /\ m.p # m.q
<1>1. PICK a, b : /\ MergeAt(h, m, w, n, a)
                  /\ MergedRuns(h.data, m.cmp, r, w, n, m.insize, m.nmerges, b, a, m.psize,
                                Min2(a + m.psize + m.qsize, n))
  BY DEF MergeState
<1>2. Arranged(w, n) /\ a \in 0 .. n /\ m.psize \in Nat /\ m.qsize \in Nat /\ a + m.psize <= n
  BY <1>1 DEF MergeAt
<1>3. m.p = w[a + 1] /\ m.q = From(w, n, a + m.psize)
  BY <1>1 DEF MergeAt
<1>4. m.q = w[a + m.psize + 1] /\ a + m.psize < n
  BY <1>3 DEF From
<1>5. PICK t \in Nat : t = m.psize /\ t > 0
  BY <1>2
<1>6. PICK i \in 1 .. n : i = a + 1 /\ a < i /\ i <= a + t
  BY <1>2, <1>4, <1>5
<1>7. PICK j \in 1 .. n : j = a + t + 1 /\ a + t < j
  BY <1>2, <1>4, <1>5
<1>8. PICK e : e = Min2(a + m.psize + m.qsize, n)
  OBVIOUS
<1>9. j <= e /\ i < j
  BY <1>2, <1>5, <1>6, <1>7, <1>8 DEF Min2
<1>10. Separate(i, j, m.insize, b, a, t, e)
  BY <1>6, <1>7, <1>9 DEF Separate
<1>11. Before(r, w[i], w[j])
  BY <1>1, <1>5, <1>8, <1>9, <1>10 DEF MergedRuns
<1>12. w[i] # w[j]
  BY <1>2, <1>9 DEF Arranged
<1>13. QED
  BY <1>3, <1>4, <1>5, <1>6, <1>7, <1>11, <1>12 DEF Before

LEMMA CompareOrd ==
    ASSUME NEW n \in Nat, n >= 3, NEW h \in HeapOf(n + 1), NEW m \in SortState, NEW r, NEW w,
           MergeState(h, m, r, w, n), m.psize > 0, m.qsize > 0, m.q # NULL,
           Settled(h.data[m.p], m.cmp), Settled(h.data[m.q], m.cmp)
    PROVE  /\ KeyOf(h.data[m.p], m.cmp) <= KeyOf(h.data[m.q], m.cmp)
                => Ord(h.data, m.cmp, r, m.p, m.q)
           /\ ~ (KeyOf(h.data[m.p], m.cmp) <= KeyOf(h.data[m.q], m.cmp))
                => Ord(h.data, m.cmp, r, m.q, m.p)
<1>1. r[m.p] < r[m.q]
  BY PBeforeQ
<1>2. m.p \in Addr(n + 1) /\ m.q \in Addr(n + 1)
  BY MergeFacts
<1>3. h.data[m.p] \in Datum /\ h.data[m.q] \in Datum
  BY <1>2, HeapPointers
<1>4. PICK x \in Int : x = KeyOf(h.data[m.p], m.cmp)
  BY <1>3, KeyType
<1>5. PICK y \in Int : y = KeyOf(h.data[m.q], m.cmp)
  BY <1>3, KeyType
<1>6. x < y \/ x = y \/ y < x
  OBVIOUS
<1>7. QED
  BY <1>1, <1>4, <1>5, <1>6 DEF Ord

LEMMA TakePState ==
    ASSUME NEW n \in Nat, n >= 3, NEW h \in HeapOf(n + 1), NEW m \in SortState, NEW r, NEW w,
           MergeState(h, m, r, w, n), m.psize > 0,
           m.qsize > 0 /\ m.q # NULL => Ord(h.data, m.cmp, r, m.p, m.q),
           NEW g, g = Joined(h, m, m.p), NEW e, e = TookP(h, m)
    PROVE  /\ g \in HeapOf(n + 1) /\ g.info = h.info /\ g.data = h.data /\ e \in SortState
           /\ MergeState(g, e, r, w, n)
<1>1. PICK a, b : /\ MergeAt(h, m, w, n, a)
                  /\ MergedRuns(h.data, m.cmp, r, w, n, m.insize, m.nmerges, b, a, m.psize,
                                Min2(a + m.psize + m.qsize, n))
  BY DEF MergeState
<1>2. Arranged(w, n) /\ a \in Nat /\ a \in 0 .. n /\ m.psize \in Nat /\ m.qsize \in Nat /\ a + m.psize <= n
  BY <1>1 DEF MergeAt
<1>3. m.p = w[a + 1] /\ m.q = From(w, n, a + m.psize)
  BY <1>1 DEF MergeAt
<1>4. PICK t \in Nat : t = m.psize /\ t > 0
  BY <1>2
<1>5. PICK o : o = Min2(a + m.psize + m.qsize, n)
  OBVIOUS
<1>6. ASSUME a + t < o PROVE Ord(h.data, m.cmp, r, w[a + 1], w[a + t + 1])
  <2>1. m.qsize > 0 /\ a + t < n
    BY <1>2, <1>4, <1>5, <1>6 DEF Min2
  <2>2. m.q = w[a + t + 1] /\ a + t + 1 \in 1 .. n
    BY <1>2, <1>3, <1>4, <2>1 DEF From
  <2>3. m.q # NULL
    BY <1>2, <2>2, ArrangedIs
  <2>4. QED
    BY <1>3, <2>1, <2>2, <2>3
<1>7. MergedRuns(h.data, m.cmp, r, w, n, m.insize, m.nmerges, b, a, t, o)
  BY <1>1, <1>4, <1>5
<1>8. h.data \in [Addr(n + 1) -> Datum] /\ Ranks(r, n) /\ m.insize \in Nat /\ m.nmerges \in Nat /\ m.insize >= 1
  BY HeapPointers DEF MergeState, SortState
<1>9. PICK k \in Nat : k = m.insize
  BY <1>8
<1>10. PICK nm \in Nat : nm = m.nmerges
  BY <1>8
<1>11. MergedRuns(h.data, m.cmp, r, w, n, k, nm, b, a + 1, t - 1, o)
  BY <1>2, <1>4, <1>6, <1>7, <1>8, <1>9, <1>10, TakePSorted
<1>12. /\ g \in HeapOf(n + 1) /\ g.info = h.info /\ g.data = h.data /\ e \in SortState
       /\ MergeAt(g, e, w, n, a + 1)
  BY <1>1, TakePKeepsLinks
<1>13. /\ e.psize = m.psize - 1 /\ e.qsize = m.qsize /\ e.insize = m.insize /\ e.nmerges = m.nmerges
       /\ e.cmp = m.cmp
  BY TookPIs
<1>14. o = Min2((a + 1) + e.psize + e.qsize, n)
  BY <1>2, <1>4, <1>5, <1>13
<1>15. MergedRuns(g.data, e.cmp, r, w, n, e.insize, e.nmerges, b, a + 1, e.psize,
                  Min2((a + 1) + e.psize + e.qsize, n))
  BY <1>4, <1>9, <1>10, <1>11, <1>12, <1>13, <1>14
<1>16. QED
  BY <1>8, <1>12, <1>13, <1>15 DEF MergeState

LEMMA TakeQState ==
    ASSUME NEW n \in Nat, n >= 3, NEW h \in HeapOf(n + 1), NEW m \in SortState, NEW r, NEW w,
           MergeState(h, m, r, w, n), m.qsize > 0, m.q # NULL,
           m.psize > 0 => Ord(h.data, m.cmp, r, m.q, m.p),
           NEW g, g = Joined(h, m, m.q), NEW e, e = TookQ(h, m)
    PROVE  /\ g \in HeapOf(n + 1) /\ g.info = h.info /\ g.data = h.data /\ e \in SortState
           /\ \E v : MergeState(g, e, r, v, n)
<1>1. PICK a, b : /\ MergeAt(h, m, w, n, a)
                  /\ MergedRuns(h.data, m.cmp, r, w, n, m.insize, m.nmerges, b, a, m.psize,
                                Min2(a + m.psize + m.qsize, n))
  BY DEF MergeState
<1>2. Arranged(w, n) /\ a \in Nat /\ a \in 0 .. n /\ m.psize \in Nat /\ m.qsize \in Nat /\ a + m.psize <= n
  BY <1>1 DEF MergeAt
<1>3. (m.psize > 0 => m.p = w[a + 1]) /\ m.q = From(w, n, a + m.psize)
  BY <1>1 DEF MergeAt
<1>4. PICK t \in Nat : t = m.psize
  BY <1>2
<1>5. PICK o : o = Min2(a + m.psize + m.qsize, n)
  OBVIOUS
<1>6. m.q = w[a + t + 1] /\ a + t < n
  BY <1>3, <1>4 DEF From
<1>7. a + t < o
  BY <1>2, <1>4, <1>5, <1>6 DEF Min2
<1>8. t > 0 => Ord(h.data, m.cmp, r, w[a + t + 1], w[a + 1])
  BY <1>3, <1>4, <1>6
<1>9. MergedRuns(h.data, m.cmp, r, w, n, m.insize, m.nmerges, b, a, t, o)
  BY <1>1, <1>4, <1>5
<1>10. h.data \in [Addr(n + 1) -> Datum] /\ Ranks(r, n) /\ m.insize \in Nat /\ m.nmerges \in Nat /\ m.insize >= 1
  BY HeapPointers DEF MergeState, SortState
<1>11. PICK k \in Nat : k = m.insize
  BY <1>10
<1>12. PICK nm \in Nat : nm = m.nmerges
  BY <1>10
<1>13. PICK v : v = Moved(w, n, a + t + 1, a + 1)
  OBVIOUS
<1>14. MergedRuns(h.data, m.cmp, r, v, n, k, nm, b, a + 1, t, o)
  BY <1>2, <1>7, <1>8, <1>9, <1>10, <1>11, <1>12, <1>13, TakeQSorted
<1>15. v = Moved(w, n, a + m.psize + 1, a + 1)
  BY <1>4, <1>13
<1>16. /\ g \in HeapOf(n + 1) /\ g.info = h.info /\ g.data = h.data /\ e \in SortState
       /\ MergeAt(g, e, v, n, a + 1)
  BY <1>1, <1>15, TakeQKeepsLinks
<1>17. /\ e.psize = m.psize /\ e.qsize = m.qsize - 1 /\ e.insize = m.insize /\ e.nmerges = m.nmerges
       /\ e.cmp = m.cmp
  BY TookQIs
<1>18. o = Min2((a + 1) + e.psize + e.qsize, n)
  BY <1>2, <1>4, <1>5, <1>17
<1>19. MergedRuns(g.data, e.cmp, r, v, n, e.insize, e.nmerges, b, a + 1, e.psize,
                  Min2((a + 1) + e.psize + e.qsize, n))
  BY <1>4, <1>11, <1>12, <1>14, <1>16, <1>17, <1>18
<1>20. QED
  BY <1>10, <1>16, <1>17, <1>19 DEF MergeState

LEMMA DataMergeState ==
    ASSUME NEW n \in Nat, n >= 3, NEW h \in HeapOf(n + 1), NEW m \in SortState, NEW r, NEW w,
           MergeState(h, m, r, w, n), NEW g, g.next = h.next, Settles(h.data, g.data, n, m.cmp)
    PROVE  MergeState(g, m, r, w, n)
<1>1. PICK a, b : /\ MergeAt(h, m, w, n, a)
                  /\ MergedRuns(h.data, m.cmp, r, w, n, m.insize, m.nmerges, b, a, m.psize,
                                Min2(a + m.psize + m.qsize, n))
  BY DEF MergeState
<1>2. Arranged(w, n)
  BY <1>1 DEF MergeAt
<1>3. MergedRuns(g.data, m.cmp, r, w, n, m.insize, m.nmerges, b, a, m.psize,
                 Min2(a + m.psize + m.qsize, n))
  BY <1>1, <1>2, MergedRunsKept
<1>4. MergeAt(g, m, w, n, a)
  BY <1>1 DEF MergeAt, Chained
<1>5. QED
  BY <1>3, <1>4 DEF MergeState

\* q and psize as the loop of core_list_mergesort sets them.
RunStarted(m, q, c) == [m EXCEPT !.nmerges = @ + 1, !.q = q, !.psize = c, !.qsize = m.insize]

LEMMA RunState ==
    ASSUME NEW m \in SortState, NEW i \in Nat, NEW q \in Int, NEW c \in Nat, NEW k \in Nat,
           NEW e, e = [m EXCEPT !.nmerges = i, !.q = q, !.psize = c, !.qsize = k]
    PROVE  e \in SortState
BY DEF SortState

LEMMA RunStartedIs ==
    ASSUME NEW m \in SortState, NEW q \in Int, NEW c \in Nat, NEW e, e = RunStarted(m, q, c)
    PROVE  /\ e \in SortState /\ e.list = m.list /\ e.tail = m.tail /\ e.p = m.p /\ e.q = q
           /\ e.psize = c /\ e.qsize = m.insize /\ e.insize = m.insize
           /\ e.nmerges = m.nmerges + 1 /\ e.cmp = m.cmp /\ e.after = m.after
<1>1. PICK i \in Nat : i = m.nmerges + 1
  BY DEF SortState
<1>2. PICK k \in Nat : k = m.insize
  BY DEF SortState
<1>3. e = [m EXCEPT !.nmerges = i, !.q = q, !.psize = c, !.qsize = k]
  BY <1>1, <1>2 DEF RunStarted
<1>4. e \in SortState
  BY <1>3, RunState
<1>5. /\ e.list = m.list /\ e.tail = m.tail /\ e.p = m.p /\ e.q = q
      /\ e.psize = c /\ e.qsize = k /\ e.insize = m.insize
      /\ e.nmerges = i /\ e.cmp = m.cmp /\ e.after = m.after
  BY <1>3 DEF SortState
<1>6. QED
  BY <1>1, <1>2, <1>4, <1>5

LEMMA StepAlongIs ==
    ASSUME NEW n \in Nat, n >= 3, heap \in HeapOf(n + 1), NEW w, Arranged(w, n),
           NEW a \in Nat, a < n, Chained(heap, w, a + 1, n), heap.next[w[n]] = NULL,
           NEW k \in Nat, k >= 1
    PROVE  /\ StepAlong(w[a + 1], k).psize = Min2(k, n - a)
           /\ StepAlong(w[a + 1], k).q = From(w, n, a + Min2(k, n - a))
<1>1. Pointers(heap, n + 1)
  BY HeapPointers
<1>2. PICK lo \in Int : lo = a + 1
  OBVIOUS
<1>3. \A x \in lo .. n : w[x] \in Addr(n + 1) /\ w[x] # NULL
  BY <1>2, ArrangedIs
<1>4. lo \in lo .. n /\ Chained(heap, w, lo, n)
  BY <1>2
<1>5. PICK kk \in Nat : kk = k + 1
  OBVIOUS
<1>6. PICK c : c = ChainOf(heap, w[lo], kk)
  OBVIOUS
<1>7. Is(c, w, lo, Min2(n - lo + 1, kk))
  BY <1>1, <1>3, <1>4, <1>6, ChainAlong
<1>8. PICK l \in Nat : l = Min2(n - lo + 1, kk)
  BY <1>2 DEF Min2
<1>9. Len(c) = l /\ \A x \in 1 .. l : c[x] = w[lo + x - 1]
  BY <1>7, <1>8 DEF Is
<1>10. /\ StepAlong(w[a + 1], k).psize = Min2(k, Len(c))
       /\ StepAlong(w[a + 1], k).q = IF Len(c) > k THEN c[k + 1] ELSE NULL
  BY <1>2, <1>5, <1>6 DEF StepAlong
<1>11. Min2(k, l) = Min2(k, n - a)
  BY <1>2, <1>5, <1>8 DEF Min2
<1>12. CASE k < n - a
  <2>1. l = k + 1 /\ Min2(k, n - a) = k
    BY <1>2, <1>5, <1>8, <1>12 DEF Min2
  <2>2. c[k + 1] = w[lo + (k + 1) - 1]
    BY <1>9, <2>1
  <2>3. lo + (k + 1) - 1 = a + k + 1
    BY <1>2
  <2>4. From(w, n, a + k) = w[a + k + 1]
    BY <1>12 DEF From
  <2>5. QED
    BY <1>9, <1>10, <1>11, <2>1, <2>2, <2>3, <2>4
<1>13. CASE ~ (k < n - a)
  <2>1. l = n - a /\ Min2(k, n - a) = n - a
    BY <1>2, <1>5, <1>8, <1>13 DEF Min2
  <2>2. From(w, n, a + (n - a)) = NULL
    BY DEF From
  <2>3. QED
    BY <1>9, <1>10, <1>11, <1>13, <2>1, <2>2
<1>14. QED
  BY <1>12, <1>13

LEMMA StartMergeState ==
    ASSUME NEW n \in Nat, n >= 3, heap \in HeapOf(n + 1), NEW m \in SortState, NEW r, NEW w,
           PassState(heap, m, r, w, n), m.p # NULL,
           NEW e, e = RunStarted(m, StepAlong(m.p, m.insize).q, StepAlong(m.p, m.insize).psize)
    PROVE  /\ e \in SortState /\ e.cmp = m.cmp /\ e.after = m.after
           /\ MergeState(heap, e, r, w, n)
<1>1. PICK a : /\ PassAt(heap, m, w, n, a)
               /\ SortedRuns(heap.data, m.cmp, r, w, n, m.insize, m.nmerges, a)
  BY DEF PassState
<1>2. Arranged(w, n) /\ a \in Nat /\ a \in 0 .. n /\ m.p = From(w, n, a)
  BY <1>1 DEF PassAt
<1>3. a < n /\ m.p = w[a + 1]
  BY <1>2 DEF From
<1>4. /\ m.list = HeadOf(w, a) /\ m.tail = TailOf(w, a) /\ Chained(heap, w, 1, a)
      /\ Chained(heap, w, a + 1, n) /\ heap.next[w[n]] = NULL
  BY <1>1, <1>3 DEF PassAt
<1>5. m.insize \in Nat /\ m.nmerges \in Nat /\ m.insize >= 1 /\ Ranks(r, n)
  BY DEF SortState, PassState
<1>6. PICK k \in Nat : k = m.insize /\ k >= 1
  BY <1>5
<1>7. PICK nm \in Nat : nm = m.nmerges
  BY <1>5
<1>8. PICK t \in Nat : t = Min2(k, n - a)
  BY <1>2, <1>3, <1>6 DEF Min2
<1>9. PICK q : q = From(w, n, a + t)
  OBVIOUS
<1>10. StepAlong(m.p, m.insize).q = q /\ StepAlong(m.p, m.insize).psize = t
  BY <1>2, <1>3, <1>4, <1>6, <1>8, <1>9, StepAlongIs
<1>11. t > 0 /\ a + t <= n
  BY <1>2, <1>3, <1>6, <1>8 DEF Min2
<1>12. q \in Int
  <2>1. CASE a + t < n
    <3>1. q = w[a + t + 1] /\ a + t + 1 \in 1 .. n
      BY <1>2, <1>9, <2>1 DEF From
    <3>2. q \in Addr(n)
      BY <1>2, <3>1, ArrangedIs
    <3>3. QED
      BY <3>2 DEF Addr
  <2>2. CASE ~ (a + t < n)
    BY <1>9, <2>2 DEF From, NULL
  <2>3. QED
    BY <2>1, <2>2
<1>13. e = RunStarted(m, q, t)
  BY <1>10
<1>14. /\ e \in SortState /\ e.list = m.list /\ e.tail = m.tail /\ e.p = m.p /\ e.q = q
       /\ e.psize = t /\ e.qsize = m.insize /\ e.insize = m.insize
       /\ e.nmerges = m.nmerges + 1 /\ e.cmp = m.cmp /\ e.after = m.after
  BY <1>12, <1>13, RunStartedIs
<1>15. PICK o : o = Min2(a + 2 * k, n)
  OBVIOUS
<1>16. SortedRuns(heap.data, m.cmp, r, w, n, k, nm, a)
  BY <1>1, <1>6, <1>7
<1>17. MergedRuns(heap.data, m.cmp, r, w, n, k, nm + 1, a, a, t, o)
  BY <1>2, <1>3, <1>6, <1>8, <1>15, <1>16, StartMergeSorted
<1>18. o = Min2(a + e.psize + e.qsize, n)
  BY <1>2, <1>3, <1>6, <1>8, <1>14, <1>15 DEF Min2
<1>19. Chained(heap, w, a + 1, a + t) /\ Chained(heap, w, a + t + 1, n)
  BY <1>2, <1>4, <1>11 DEF Chained
<1>20. m.p \in Addr(n + 1)
  BY <1>2, <1>3, ArrangedIs
<1>21. MergeAt(heap, e, w, n, a)
  <2>1. /\ Arranged(w, n) /\ a \in 0 .. n /\ e.psize \in Nat /\ e.qsize \in Nat /\ a + e.psize <= n
        /\ e.list = HeadOf(w, a) /\ e.tail = TailOf(w, a)
    BY <1>2, <1>4, <1>5, <1>8, <1>11, <1>14
  <2>2. e.p \in Addr(n + 1) \cup {NULL} /\ e.p = w[a + 1] /\ e.q = From(w, n, a + e.psize)
    BY <1>3, <1>9, <1>14, <1>20
  <2>3. /\ Chained(heap, w, 1, a) /\ Chained(heap, w, a + 1, a + e.psize)
        /\ Chained(heap, w, a + e.psize + 1, n) /\ heap.next[w[n]] = NULL
    BY <1>4, <1>14, <1>19
  <2>4. QED
    BY <2>1, <2>2, <2>3 DEF MergeAt
<1>22. MergedRuns(heap.data, e.cmp, r, w, n, e.insize, e.nmerges, a, a, e.psize,
                  Min2(a + e.psize + e.qsize, n))
  BY <1>6, <1>7, <1>14, <1>17, <1>18
<1>23. QED
  BY <1>5, <1>14, <1>21, <1>22 DEF MergeState

LEMMA NextRunState ==
    ASSUME NEW n \in Nat, n >= 3, NEW h \in HeapOf(n + 1), NEW m \in SortState, NEW r, NEW w,
           MergeState(h, m, r, w, n), m.psize = 0, ~ (m.qsize > 0 /\ m.q # NULL),
           NEW e, e = [m EXCEPT !.p = m.q]
    PROVE  e \in SortState /\ e.cmp = m.cmp /\ e.after = m.after /\ PassState(h, e, r, w, n)
<1>1. PICK a, b : /\ MergeAt(h, m, w, n, a)
                  /\ MergedRuns(h.data, m.cmp, r, w, n, m.insize, m.nmerges, b, a, m.psize,
                                Min2(a + m.psize + m.qsize, n))
  BY DEF MergeState
<1>2. Arranged(w, n) /\ a \in Nat /\ a \in 0 .. n /\ m.qsize \in Nat
  BY <1>1 DEF MergeAt
<1>3. m.list = HeadOf(w, a) /\ m.tail = TailOf(w, a) /\ m.q = From(w, n, a)
  BY <1>1 DEF MergeAt
<1>4. Chained(h, w, 1, a) /\ Chained(h, w, a + 1, n) /\ (a < n => h.next[w[n]] = NULL)
  BY <1>1 DEF MergeAt
<1>5. a = Min2(a + m.psize + m.qsize, n)
  <2>1. CASE a < n
    <3>1. m.q = w[a + 1] /\ a + 1 \in 1 .. n
      BY <1>2, <1>3, <2>1 DEF From
    <3>2. m.q # NULL
      BY <1>2, <3>1, ArrangedIs
    <3>3. m.qsize = 0
      BY <1>2, <3>2
    <3>4. QED
      BY <1>2, <2>1, <3>3 DEF Min2
  <2>2. CASE ~ (a < n)
    BY <1>2, <2>2 DEF Min2
  <2>3. QED
    BY <2>1, <2>2
<1>6. m.insize \in Nat /\ m.nmerges \in Nat /\ m.insize >= 1 /\ Ranks(r, n)
  BY DEF SortState, MergeState
<1>7. PICK k \in Nat : k = m.insize /\ k >= 1
  BY <1>6
<1>8. PICK nm \in Nat : nm = m.nmerges
  BY <1>6
<1>9. PICK o : o = Min2(a + m.psize + m.qsize, n)
  OBVIOUS
<1>10. MergedRuns(h.data, m.cmp, r, w, n, k, nm, b, a, 0, o) /\ a = o
  BY <1>1, <1>5, <1>7, <1>8, <1>9
<1>11. SortedRuns(h.data, m.cmp, r, w, n, k, nm, a)
  BY <1>2, <1>7, <1>10, NextRunSorted
<1>12. /\ e \in SortState /\ e.cmp = m.cmp /\ e.after = m.after /\ e.list = m.list
       /\ e.tail = m.tail /\ e.p = m.q /\ e.insize = m.insize /\ e.nmerges = m.nmerges
  BY DEF SortState
<1>13. PassAt(h, e, w, n, a)
  BY <1>2, <1>3, <1>4, <1>12 DEF PassAt
<1>14. QED
  BY <1>6, <1>7, <1>8, <1>11, <1>12, <1>13 DEF PassState

\* The end of a pass: the list hangs together, in order or for another pass.
AllOrd(d, cmp, r, w, n) == \A i, j \in 1 .. n : i < j => Ord(d, cmp, r, w[i], w[j])

LEMMA EndPassState ==
    ASSUME NEW n \in Nat, n >= 3, NEW h \in HeapOf(n + 1), NEW m \in SortState, NEW r, NEW w,
           PassState(h, m, r, w, n), m.p = NULL, NEW g, g = SetNext(h, m.tail, NULL)
    PROVE  /\ g \in HeapOf(n + 1) /\ g.info = h.info /\ g.data = h.data
           /\ m.tail \in Addr(n) /\ \A x \in Addr(n + 1) : x # m.tail => g.next[x] = h.next[x]
           /\ ListAt(g, w, n, m.list)
           /\ m.nmerges <= 1 => AllOrd(g.data, m.cmp, r, w, n)
           /\ SortedRuns(g.data, m.cmp, r, w, n, NextSize(m.insize), 0, 0)
<1>1. PICK a : /\ PassAt(h, m, w, n, a)
               /\ SortedRuns(h.data, m.cmp, r, w, n, m.insize, m.nmerges, a)
  BY DEF PassState
<1>2. Arranged(w, n) /\ a \in Nat /\ a \in 0 .. n /\ m.p = From(w, n, a)
  BY <1>1 DEF PassAt
<1>3. \A i \in 1 .. n : w[i] \in Addr(n) /\ w[i] \in Addr(n + 1) /\ w[i] # NULL
  BY <1>2, ArrangedIs
<1>4. a = n
  <2>1. CASE a < n
    <3>1. m.p = w[a + 1] /\ a + 1 \in 1 .. n
      BY <1>2, <2>1 DEF From
    <3>2. QED
      BY <1>3, <3>1
  <2>2. QED
    BY <1>2, <2>1
<1>5. m.list = w[1] /\ m.tail = w[n] /\ Chained(h, w, 1, n)
  BY <1>1, <1>4 DEF PassAt, HeadOf, TailOf
<1>6. w[n] \in Addr(n + 1) /\ w[n] \in Addr(n) /\ NULL \in Addr(n + 1) \cup {NULL}
  BY <1>3
<1>7. /\ g \in HeapOf(n + 1) /\ g.next = [h.next EXCEPT ![m.tail] = NULL]
      /\ g.info = h.info /\ g.data = h.data
  BY <1>5, <1>6, SetNextIs
<1>8. Pointers(h, n + 1)
  BY HeapPointers
<1>9. g.next[w[n]] = NULL /\ \A x \in Addr(n + 1) : x # w[n] => g.next[x] = h.next[x]
  BY <1>5, <1>6, <1>7, <1>8 DEF Pointers
<1>10. Chained(g, w, 1, n)
  <2> SUFFICES ASSUME NEW x \in 1 .. n - 1 PROVE g.next[w[x]] = w[x + 1]
    BY DEF Chained
  <2>1. w[x] # w[n] /\ w[x] \in Addr(n + 1)
    BY <1>2, <1>3 DEF Arranged
  <2>2. QED
    BY <1>5, <1>9, <2>1 DEF Chained
<1>11. ListAt(g, w, n, m.list)
  BY <1>2, <1>5, <1>9, <1>10 DEF ListAt
<1>12. m.insize \in Nat /\ m.nmerges \in Nat
  BY DEF SortState
<1>13. PICK k \in Nat : k = m.insize
  BY <1>12
<1>14. PICK nm \in Nat : nm = m.nmerges
  BY <1>12
<1>15. SortedRuns(g.data, m.cmp, r, w, n, k, nm, n)
  BY <1>1, <1>4, <1>7, <1>13, <1>14
<1>16. nm <= 1 => AllOrd(g.data, m.cmp, r, w, n)
  BY <1>15, LastPassSorted DEF AllOrd
<1>17. SortedRuns(g.data, m.cmp, r, w, n, 2 * k, 0, 0)
  BY <1>15, NextPassSorted
<1>18. SortedRuns(g.data, m.cmp, r, w, n, NextSize(m.insize), 0, 0)
  BY <1>13, <1>17 DEF NextSize
<1>19. QED
  BY <1>5, <1>6, <1>7, <1>9, <1>11, <1>14, <1>16, <1>18

\* The locals at the beginning of the next pass.
NextSort(list, m) == [SortStart(list, m.cmp, m.after) EXCEPT !.insize = NextSize(m.insize)]
LEMMA NextPassState ==
    ASSUME NEW n \in Nat, n >= 3, NEW g, NEW list, NEW w, ListAt(g, w, n, list), NEW r, Ranks(r, n),
           NEW m \in SortState, m.insize >= 1,
           SortedRuns(g.data, m.cmp, r, w, n, NextSize(m.insize), 0, 0),
           NEW e, e = NextSort(list, m)
    PROVE  PassState(g, e, r, w, n) /\ e.cmp = m.cmp /\ e.after = m.after
<1>1. Arranged(w, n) /\ w[1] = list /\ Chained(g, w, 1, n) /\ g.next[w[n]] = NULL
  BY DEF ListAt
<1>2. m.insize \in Nat
  BY DEF SortState
<1>3. /\ e.list = NULL /\ e.tail = NULL /\ e.p = list /\ e.insize = NextSize(m.insize)
      /\ e.nmerges = 0 /\ e.cmp = m.cmp /\ e.after = m.after
  BY DEF SortStart, NextSort
<1>4. Chained(g, w, 1, 0) /\ Chained(g, w, 0 + 1, n)
  BY <1>1 DEF Chained
<1>5. PassAt(g, e, w, n, 0)
  BY <1>1, <1>3, <1>4 DEF PassAt, HeadOf, TailOf, From
<1>6. e.insize >= 1
  BY <1>2, <1>3 DEF NextSize
<1>7. QED
  BY <1>3, <1>5, <1>6 DEF PassState

-----------------------------------------------------------------------------
(* Finding, and removing the second item for a while.                       *)
\* The list hangs together in the order w, and every node has its own data.
Whole(h, w, n, first) ==
    /\ h \in HeapOf(n + 1) /\ ListAt(h, w, n, first) /\ h.next[n] = NULL
    /\ \A x \in Addr(n + 1) : h.info[x] = x

LEMMA FindWhole ==
    ASSUME NEW n \in Nat, n >= 3, NEW h, NEW w, NEW first, Whole(h, w, n, first), NEW want
    PROVE  core_list_find(h, first, want) \in Addr(n) \cup {NULL}
<1>1. Pointers(h, n + 1) /\ ListAt(h, w, n, first) /\ h.next[n] = NULL
  BY HeapPointers DEF Whole
<1>2. PICK g : Descends(h, n + 1, g)
  BY <1>1, ListDescends
<1>3. \A x \in Addr(n) : h.next[x] \in Addr(n) \cup {NULL}
  BY <1>1, ListDescends
<1>4. first \in Addr(n)
  BY <1>1, ArrangedIs DEF ListAt
<1>5. Addr(n) \subseteq Addr(n + 1) /\ n + 1 \in Nat
  BY DEF Addr
<1>6. QED
  BY <1>1, <1>2, <1>3, <1>4, <1>5, FindType

\* The first three nodes.
LEMMA FirstThree ==
    ASSUME NEW n \in Nat, n >= 3, NEW h, NEW w, NEW first, Whole(h, w, n, first)
    PROVE  /\ w[1] = first /\ h.next[w[1]] = w[2] /\ h.next[w[2]] = w[3]
           /\ w[1] # w[2] /\ w[1] # w[3] /\ w[2] # w[3]
           /\ w[1] \in Addr(n) /\ w[2] \in Addr(n) /\ w[3] \in Addr(n)
           /\ w[1] \in Addr(n + 1) /\ w[2] \in Addr(n + 1) /\ w[3] \in Addr(n + 1)
           /\ w[1] # n /\ w[2] # n /\ w[3] # n
           /\ w[1] # NULL /\ w[2] # NULL /\ w[3] # NULL
           /\ h.next[w[3]] = IF n > 3 THEN w[4] ELSE NULL
           /\ h.next[w[3]] \in Addr(n) \cup {NULL} /\ h.next[w[3]] \in Addr(n + 1) \cup {NULL}
<1>1. ListAt(h, w, n, first)
  BY DEF Whole
<1>2. Arranged(w, n) /\ w[1] = first /\ Chained(h, w, 1, n) /\ h.next[w[n]] = NULL
  BY <1>1 DEF ListAt
<1>3. 1 \in 1 .. n /\ 2 \in 1 .. n /\ 3 \in 1 .. n /\ (n > 3 => 4 \in 1 .. n)
  OBVIOUS
<1>4. h.next[w[1]] = w[2] /\ h.next[w[2]] = w[3]
  <2>1. 1 \in 1 .. n - 1 /\ 2 \in 1 .. n - 1 /\ 1 + 1 = 2 /\ 2 + 1 = 3
    OBVIOUS
  <2>2. QED
    BY <1>2, <2>1 DEF Chained
<1>5. h.next[w[3]] = IF n > 3 THEN w[4] ELSE NULL
  <2>1. CASE n > 3
    <3>1. 3 \in 1 .. n - 1 /\ 3 + 1 = 4
      BY <2>1
    <3>2. QED
      BY <1>2, <2>1, <3>1 DEF Chained
  <2>2. CASE ~ (n > 3)
    <3>1. n = 3
      BY <2>2
    <3>2. QED
      BY <1>2, <3>1
  <2>3. QED
    BY <2>1, <2>2
<1>6. w[1] # w[2] /\ w[1] # w[3] /\ w[2] # w[3]
  BY <1>2, <1>3 DEF Arranged
<1>7. /\ w[1] \in Addr(n) /\ w[2] \in Addr(n) /\ w[3] \in Addr(n) /\ (n > 3 => w[4] \in Addr(n))
      /\ w[1] \in Addr(n + 1) /\ w[2] \in Addr(n + 1) /\ w[3] \in Addr(n + 1) /\ (n > 3 => w[4] \in Addr(n + 1))
      /\ w[1] # n /\ w[2] # n /\ w[3] # n
      /\ w[1] # NULL /\ w[2] # NULL /\ w[3] # NULL
  BY <1>2, <1>3, ArrangedIs
<1>8. QED
  BY <1>2, <1>4, <1>5, <1>6, <1>7

\* What core_list_remove of the node b in front of c leaves.
Unlinked(g, h, b, c) ==
    /\ g.next = [h.next EXCEPT ![b] = h.next[c], ![c] = NULL]
    /\ g.info = [h.info EXCEPT ![b] = h.info[c], ![c] = h.info[b]]
    /\ g.data = h.data

LEMMA RemoveIs ==
    ASSUME NEW n \in Nat, n >= 3, NEW h, NEW w, NEW first, Whole(h, w, n, first),
           NEW g, g = core_list_remove(h, w[2])
    PROVE  g \in HeapOf(n + 1) /\ Unlinked(g, h, w[2], w[3])
<1>1. h \in HeapOf(n + 1)
  BY DEF Whole
<1>2. PICK b : b = w[2]
  OBVIOUS
<1>3. PICK c : c = w[3]
  OBVIOUS
<1>4. b \in Addr(n + 1) /\ c \in Addr(n + 1) /\ b # c /\ h.next[b] = c
  BY <1>2, <1>3, FirstThree
<1>5. PICK d : d = h.next[c]
  OBVIOUS
<1>6. d \in Addr(n + 1) \cup {NULL}
  BY <1>3, <1>5, FirstThree
<1>7. PICK s : s = SwapInfo(h, b, c)
  OBVIOUS
<1>8. /\ s \in HeapOf(n + 1) /\ s.next = h.next /\ s.data = h.data
      /\ s.info = [h.info EXCEPT ![b] = h.info[c], ![c] = h.info[b]]
  <2>1. InfoSwapped(s, h, b, c, n + 1)
    BY <1>1, <1>4, <1>7, SwapInfoIs
  <2>2. QED
    BY <2>1 DEF InfoSwapped
<1>9. PICK s1 : s1 = SetNext(s, b, d)
  OBVIOUS
<1>10. /\ s1 \in HeapOf(n + 1) /\ s1.next = [s.next EXCEPT ![b] = d]
       /\ s1.info = s.info /\ s1.data = s.data
  BY <1>4, <1>6, <1>8, <1>9, SetNextIs
<1>11. g = SetNext(s1, c, NULL)
  BY <1>2, <1>4, <1>5, <1>7, <1>9 DEF core_list_remove
<1>12. NULL \in Addr(n + 1) \cup {NULL}
  OBVIOUS
<1>13. /\ g \in HeapOf(n + 1) /\ g.next = [s1.next EXCEPT ![c] = NULL]
       /\ g.info = s1.info /\ g.data = s1.data
  BY <1>4, <1>10, <1>11, <1>12, SetNextIs
<1>14. Unlinked(g, h, b, c)
  BY <1>5, <1>8, <1>10, <1>13 DEF Unlinked
<1>15. QED
  BY <1>2, <1>3, <1>13, <1>14

LEMMA FindRemoved ==
    ASSUME NEW n \in Nat, n >= 3, NEW h, NEW w, NEW first, Whole(h, w, n, first),
           NEW g \in HeapOf(n + 1), Unlinked(g, h, w[2], w[3]), NEW want
    PROVE  core_list_find(g, first, want) \in Addr(n) \cup {NULL}
<1>1. Pointers(h, n + 1) /\ ListAt(h, w, n, first) /\ h.next[n] = NULL /\ Pointers(g, n + 1)
  BY HeapPointers DEF Whole
<1>2. PICK e : Descends(h, n + 1, e)
  BY <1>1, ListDescends
<1>3. \A x \in Addr(n) : h.next[x] \in Addr(n) \cup {NULL}
  BY <1>1, ListDescends
<1>4. PICK b : b = w[2]
  OBVIOUS
<1>5. PICK c : c = w[3]
  OBVIOUS
<1>6. /\ b \in Addr(n + 1) /\ c \in Addr(n + 1) /\ b # c /\ h.next[b] = c /\ c # NULL
      /\ h.next[c] \in Addr(n) \cup {NULL} /\ first \in Addr(n)
  BY <1>4, <1>5, FirstThree
<1>7. g.next = [h.next EXCEPT ![b] = h.next[c], ![c] = NULL]
  BY <1>4, <1>5 DEF Unlinked
<1>8. /\ \A x \in Addr(n + 1) : x # b /\ x # c => g.next[x] = h.next[x]
      /\ g.next[b] = h.next[c] /\ g.next[c] = NULL
  BY <1>1, <1>6, <1>7 DEF Pointers
<1>9. Descends(g, n + 1, e)
  <2>1. e \in [Addr(n + 1) -> Nat]
    BY <1>2 DEF Descends
  <2> SUFFICES ASSUME NEW x \in Addr(n + 1), g.next[x] # NULL PROVE e[g.next[x]] < e[x]
    BY <2>1 DEF Descends
  <2>2. CASE x = b
    <3>1. e[h.next[c]] < e[c] /\ e[c] < e[b]
      BY <1>2, <1>6, <1>8, <2>2 DEF Descends
    <3>2. h.next[c] \in Addr(n + 1)
      BY <1>1, <1>6, <1>8, <2>2 DEF Pointers
    <3>3. e[h.next[c]] \in Nat /\ e[c] \in Nat /\ e[b] \in Nat
      BY <1>6, <2>1, <3>2
    <3>4. QED
      BY <1>8, <2>2, <3>1, <3>3
  <2>3. CASE x # b
    BY <1>2, <1>8, <2>3 DEF Descends
  <2>4. QED
    BY <2>2, <2>3
<1>10. Addr(n) \subseteq Addr(n + 1) /\ n + 1 \in Nat
  BY DEF Addr
<1>11. \A x \in Addr(n) : g.next[x] \in Addr(n) \cup {NULL}
  <2> SUFFICES ASSUME NEW x \in Addr(n) PROVE g.next[x] \in Addr(n) \cup {NULL}
    OBVIOUS
  <2>1. x \in Addr(n + 1)
    BY <1>10
  <2>2. QED
    BY <1>3, <1>6, <1>8, <2>1
<1>12. QED
  BY <1>1, <1>6, <1>9, <1>10, <1>11, FindType

\* What was removed comes back: the heap is the one it was.
LEMMA UndoIs ==
    ASSUME NEW n \in Nat, n >= 3, NEW h, NEW w, NEW first, Whole(h, w, n, first),
           NEW g \in HeapOf(n + 1), Unlinked(g, h, w[2], w[3]),
           NEW e, e = core_list_undo_remove(g, w[3], w[2])
    PROVE  e = h
<1>1. h \in HeapOf(n + 1) /\ \A x \in Addr(n + 1) : h.info[x] = x
  BY DEF Whole
<1>2. PICK b : b = w[2]
  OBVIOUS
<1>3. PICK c : c = w[3]
  OBVIOUS
<1>4. b \in Addr(n + 1) /\ c \in Addr(n + 1) /\ b # c /\ h.next[b] = c
  BY <1>2, <1>3, FirstThree
<1>5. /\ g.next = [h.next EXCEPT ![b] = h.next[c], ![c] = NULL]
      /\ g.info = [h.info EXCEPT ![b] = h.info[c], ![c] = h.info[b]] /\ g.data = h.data
  BY <1>2, <1>3 DEF Unlinked
<1>6. PICK s : s = SwapInfo(g, c, b)
  OBVIOUS
<1>7. /\ s \in HeapOf(n + 1) /\ s.next = g.next /\ s.data = g.data
      /\ s.info = [g.info EXCEPT ![c] = g.info[b], ![b] = g.info[c]]
  <2>1. InfoSwapped(s, g, c, b, n + 1)
    BY <1>4, <1>6, SwapInfoIs
  <2>2. QED
    BY <2>1 DEF InfoSwapped
<1>8. Pointers(g, n + 1) /\ Pointers(h, n + 1) /\ h.info \in [Addr(n + 1) -> Addr(n + 1)]
  BY <1>1, HeapPointers
<1>9. PICK d : d = g.next[b]
  OBVIOUS
<1>10. d \in Addr(n + 1) \cup {NULL} /\ d = h.next[c]
  BY <1>4, <1>5, <1>8, <1>9 DEF Pointers
<1>11. PICK s1 : s1 = SetNext(s, c, d)
  OBVIOUS
<1>12. /\ s1 \in HeapOf(n + 1) /\ s1.next = [s.next EXCEPT ![c] = d]
       /\ s1.info = s.info /\ s1.data = s.data
  BY <1>4, <1>7, <1>10, <1>11, SetNextIs
<1>13. e = SetNext(s1, b, c)
  <2>1. s.next = g.next
    BY <1>7
  <2>2. QED
    BY <1>2, <1>3, <1>6, <1>9, <1>11, <2>1 DEF core_list_undo_remove
<1>14. c \in Addr(n + 1) \cup {NULL}
  BY <1>4
<1>15. /\ e \in HeapOf(n + 1) /\ e.next = [s1.next EXCEPT ![b] = c]
       /\ e.info = s1.info /\ e.data = s1.data
  BY <1>4, <1>12, <1>13, <1>14, SetNextIs
<1>16. e.next = h.next
  <2>1. e.next = [x \in Addr(n + 1) |-> e.next[x]] /\ h.next = [x \in Addr(n + 1) |-> h.next[x]]
    BY <1>8, <1>15, HeapPointers DEF Pointers
  <2>2. ASSUME NEW x \in Addr(n + 1) PROVE e.next[x] = h.next[x]
    BY <1>4, <1>5, <1>7, <1>8, <1>10, <1>12, <1>15 DEF Pointers
  <2>3. QED
    BY <2>1, <2>2
<1>17. e.info = h.info
  <2>1. e.info = [x \in Addr(n + 1) |-> e.info[x]] /\ h.info = [x \in Addr(n + 1) |-> h.info[x]]
    BY <1>8, <1>15, HeapPointers
  <2>2. ASSUME NEW x \in Addr(n + 1) PROVE e.info[x] = h.info[x]
    BY <1>4, <1>5, <1>7, <1>8, <1>12, <1>15
  <2>3. QED
    BY <2>1, <2>2
<1>18. e.data = h.data
  BY <1>5, <1>7, <1>12, <1>15
<1>19. QED
  BY <1>1, <1>15, <1>16, <1>17, <1>18 DEF HeapOf

\* The nodes that are left, and the items they show.
Kept(w, n) == [i \in 1 .. n - 1 |-> IF i <= 2 THEN w[i] ELSE w[i + 1]]
KeptItem(w, i) == IF i = 1 THEN w[1] ELSE w[i + 1]

LEMMA RemovedContents ==
    ASSUME NEW n \in Nat, n >= 3, NEW h, NEW w, NEW first, Whole(h, w, n, first),
           NEW g \in HeapOf(n + 1), Unlinked(g, h, w[2], w[3])
    PROVE  Contents(g, first, n + 1) = [i \in 1 .. n - 1 |-> h.data[KeptItem(w, i)]]
<1>1. /\ h \in HeapOf(n + 1) /\ Arranged(w, n) /\ w[1] = first /\ Chained(h, w, 1, n)
      /\ h.next[w[n]] = NULL /\ \A x \in Addr(n + 1) : h.info[x] = x
  BY DEF Whole, ListAt
<1>2. PICK b : b = w[2]
  OBVIOUS
<1>3. PICK c : c = w[3]
  OBVIOUS
<1>4. /\ b \in Addr(n + 1) /\ c \in Addr(n + 1) /\ b # c
      /\ w[1] # b /\ w[1] # c /\ h.next[w[1]] = b
      /\ h.next[c] = IF n > 3 THEN w[4] ELSE NULL
  BY <1>2, <1>3, FirstThree
<1>5. Pointers(h, n + 1) /\ Pointers(g, n + 1) /\ h.info \in [Addr(n + 1) -> Addr(n + 1)]
  BY <1>1, HeapPointers
<1>6. /\ g.next = [h.next EXCEPT ![b] = h.next[c], ![c] = NULL]
      /\ g.info = [h.info EXCEPT ![b] = h.info[c], ![c] = h.info[b]] /\ g.data = h.data
  BY <1>2, <1>3 DEF Unlinked
<1>7. /\ \A x \in Addr(n + 1) : x # b /\ x # c => g.next[x] = h.next[x] /\ g.info[x] = x
      /\ g.next[b] = h.next[c] /\ g.info[b] = c
  BY <1>1, <1>4, <1>5, <1>6 DEF Pointers
<1>8. \A i \in 1 .. n : w[i] \in Addr(n + 1) /\ w[i] # NULL
  BY <1>1, ArrangedIs
<1>9. \A i \in 1 .. n : i # 2 /\ i # 3 => w[i] # b /\ w[i] # c
  <2>1. 2 \in 1 .. n /\ 3 \in 1 .. n
    OBVIOUS
  <2>2. QED
    BY <1>1, <1>2, <1>3, <2>1 DEF Arranged
<1>10. PICK l \in Nat : l = n - 1
  OBVIOUS
<1>11. PICK u : u = Kept(w, n)
  OBVIOUS
<1>12. /\ \A i \in 1 .. l : i > 2 => u[i] = w[i + 1]
       /\ u[1] = w[1] /\ u[2] = b
  BY <1>2, <1>10, <1>11 DEF Kept
<1>13. \A i \in 1 .. l : u[i] \in Addr(n + 1)
  <2> SUFFICES ASSUME NEW i \in 1 .. l PROVE u[i] \in Addr(n + 1)
    OBVIOUS
  <2>1. CASE i > 2
    <3>1. i + 1 \in 1 .. n
      BY <1>10
    <3>2. QED
      BY <1>8, <1>12, <2>1, <3>1
  <2>2. CASE i = 1
    BY <1>8, <1>12, <2>2
  <2>3. CASE i = 2
    BY <1>4, <1>12, <2>3
  <2>4. QED
    BY <2>1, <2>2, <2>3
<1>14. Chained(g, u, 1, l)
  <2> SUFFICES ASSUME NEW i \in 1 .. l - 1 PROVE g.next[u[i]] = u[i + 1]
    BY DEF Chained
  <2>1. CASE i = 1
    <3>1. i + 1 = 2 /\ 1 \in 1 .. n
      BY <2>1
    <3>2. g.next[w[1]] = b
      BY <1>4, <1>7, <1>8, <3>1
    <3>3. QED
      BY <1>12, <2>1, <3>1, <3>2
  <2>2. CASE i = 2
    <3>1. n > 3 /\ i + 1 = 3 /\ 3 \in 1 .. l /\ 3 + 1 = 4
      BY <1>10, <2>2
    <3>2. u[3] = w[4]
      BY <1>12, <3>1
    <3>3. g.next[b] = w[4]
      BY <1>4, <1>7, <3>1
    <3>4. QED
      BY <1>12, <2>2, <3>1, <3>2, <3>3
  <2>3. CASE i > 2
    <3>1. PICK j : j = i + 1
      OBVIOUS
    <3>2. j \in 1 .. l /\ j \in 1 .. n - 1 /\ j \in 1 .. n /\ j > 3
      BY <1>10, <2>3, <3>1
    <3>3. u[i] = w[j] /\ u[j] = w[j + 1]
      BY <1>12, <2>3, <3>1, <3>2
    <3>4. h.next[w[j]] = w[j + 1]
      BY <1>1, <3>2 DEF Chained
    <3>5. g.next[w[j]] = h.next[w[j]]
      BY <1>7, <1>8, <1>9, <3>2
    <3>6. QED
      BY <3>1, <3>3, <3>4, <3>5
  <2>4. QED
    BY <2>1, <2>2, <2>3
<1>15. g.next[u[l]] = NULL
  <2>1. CASE n = 3
    <3>1. l = 2
      BY <1>10, <2>1
    <3>2. QED
      BY <1>4, <1>7, <1>12, <2>1, <3>1
  <2>2. CASE n # 3
    <3>1. l > 2 /\ l \in 1 .. l /\ l + 1 = n /\ n \in 1 .. n
      BY <1>10, <2>2
    <3>2. u[l] = w[n]
      BY <1>12, <3>1
    <3>3. g.next[w[n]] = h.next[w[n]]
      BY <1>7, <1>8, <1>9, <2>2, <3>1
    <3>4. QED
      BY <1>1, <3>2, <3>3
  <2>3. QED
    BY <2>1, <2>2
<1>16. PICK s : s = ChainOf(g, first, n + 1)
  OBVIOUS
<1>17. Is(s, u, 1, l)
  <2>1. PICK z \in Nat : z = n + 1
    OBVIOUS
  <2>2. Is(ChainOf(g, u[1], z), u, 1, Min2(l - 1 + 1, z))
    <3>1. 1 \in 1 .. l
      BY <1>10
    <3>2. QED
      BY <1>5, <1>13, <1>14, <1>15, <2>1, <3>1, ChainAlong
  <2>3. Min2(l - 1 + 1, z) = l
    BY <1>10, <2>1 DEF Min2
  <2>4. QED
    BY <1>1, <1>12, <1>16, <2>1, <2>2, <2>3
<1>18. Len(s) = l /\ \A i \in 1 .. l : s[i] = u[i]
  BY <1>17 DEF Is
<1>19. ASSUME NEW i \in 1 .. l PROVE Info(g, u[i]) = h.data[KeptItem(w, i)]
  <2>1. CASE i = 1
    <3>1. 1 \in 1 .. n
      OBVIOUS
    <3>2. g.info[w[1]] = w[1]
      BY <1>4, <1>7, <1>8, <3>1
    <3>3. QED
      BY <1>6, <1>12, <2>1, <3>2 DEF Info, KeptItem
  <2>2. CASE i = 2
    <3>1. i # 1 /\ i + 1 = 3
      BY <2>2
    <3>2. QED
      BY <1>3, <1>6, <1>7, <1>12, <2>2, <3>1 DEF Info, KeptItem
  <2>3. CASE i > 2
    <3>1. i + 1 \in 1 .. n /\ i + 1 # 2 /\ i + 1 # 3 /\ i # 1
      BY <1>10, <2>3
    <3>2. g.info[w[i + 1]] = w[i + 1]
      BY <1>7, <1>8, <1>9, <3>1
    <3>3. u[i] = w[i + 1]
      BY <1>12, <2>3
    <3>4. QED
      BY <1>6, <3>1, <3>2, <3>3 DEF Info, KeptItem
  <2>4. QED
    BY <2>1, <2>2, <2>3
<1>20. \A i \in 1 .. l : Info(g, s[i]) = h.data[KeptItem(w, i)]
  BY <1>18, <1>19
<1>21. Contents(g, first, n + 1) = [i \in 1 .. Len(s) |-> Info(g, s[i])]
  BY <1>16 DEF Contents
<1>22. QED
  BY <1>10, <1>18, <1>20, <1>21

-----------------------------------------------------------------------------
(* The inputs, and how many nodes the list has.                             *)
InOf(x) == [Defaults(x) EXCEPT !.total = SizeOf(x)]
InputInv ==
    /\ \E x \in Inputs : in = InOf(x)
    /\ mat.N = Dimension(in.total) /\ DOMAIN block = 0 .. in.total - 1
Nodes == Size - 1

InputRecord == [seed1 : Int, seed2 : Int, seed3 : Int, total : Int, iterations : Nat]

LEMMA SeedsIs == ASSUME NEW x \in Seeds PROVE x \in Int /\ x >= 0
BY DEF Seeds
LEMMA TotalsIs == ASSUME NEW x \in Totals PROVE x \in Int /\ 360 <= x /\ x <= 6000
BY DEF Totals

LEMMA InOfIs ==
    ASSUME NEW x \in Inputs
    PROVE  /\ InOf(x) \in InputRecord
           /\ InOf(x).total = SizeOf(x) /\ InOf(x).seed1 = Defaults(x).seed1
           /\ InOf(x).seed2 = Defaults(x).seed2
           /\ SizeOf(x) \in Int /\ 120 <= SizeOf(x) /\ SizeOf(x) <= 2000
           /\ Defaults(x).seed1 >= 0 /\ Defaults(x).seed2 >= 0
<1>1. x \in [seed1 : Seeds, seed2 : Seeds, seed3 : Seeds, total : Totals, iterations : Nat]
  BY InputsAssumption
<1>2. x \in InputRecord /\ 360 <= x.total /\ x.total <= 6000 /\ x.seed1 >= 0 /\ x.seed2 >= 0
  <2>1. x.seed1 \in Seeds /\ x.seed2 \in Seeds /\ x.seed3 \in Seeds /\ x.total \in Totals
    BY <1>1
  <2>2. x.seed1 \in Int /\ x.seed2 \in Int /\ x.seed3 \in Int /\ x.seed1 >= 0 /\ x.seed2 >= 0
    BY <2>1, SeedsIs
  <2>3. x.total \in Int /\ 360 <= x.total /\ x.total <= 6000
    BY <2>1, TotalsIs
  <2>4. QED
    BY <1>1, <2>2, <2>3 DEF InputRecord
<1>3. /\ Defaults(x) \in InputRecord /\ Defaults(x).seed1 >= 0 /\ Defaults(x).seed2 >= 0
  <2>1. PICK y \in InputRecord : y = x
    BY <1>2
  <2>2. CASE y.seed2 = 0 /\ y.seed3 = 0 /\ y.seed1 = 0
    <3>1. Defaults(x) = [y EXCEPT !.seed3 = 102]
      BY <2>1, <2>2 DEF Defaults
    <3>2. QED
      BY <1>2, <2>1, <3>1 DEF InputRecord
  <2>3. CASE y.seed2 = 0 /\ y.seed3 = 0 /\ y.seed1 = 1
    <3>1. PICK v \in Int : v = 13333 /\ v >= 0
      OBVIOUS
    <3>2. PICK u \in Int : u = 102
      OBVIOUS
    <3>3. Defaults(x) = [y EXCEPT !.seed1 = v, !.seed2 = v, !.seed3 = u]
      BY <2>1, <2>3, <3>1, <3>2 DEF Defaults
    <3>4. Defaults(x) \in InputRecord
      BY <3>3 DEF InputRecord
    <3>5. Defaults(x).seed1 = v /\ Defaults(x).seed2 = v
      BY <3>3 DEF InputRecord
    <3>6. QED
      BY <3>1, <3>4, <3>5
  <2>4. CASE ~ (y.seed2 = 0 /\ y.seed3 = 0 /\ y.seed1 = 0) /\ ~ (y.seed2 = 0 /\ y.seed3 = 0 /\ y.seed1 = 1)
    <3>1. Defaults(x) = y
      BY <2>1, <2>4 DEF Defaults
    <3>2. QED
      BY <1>2, <2>1, <3>1
  <2>5. QED
    BY <2>2, <2>3, <2>4
<1>4. PICK t \in Int : t = x.total \div 3 /\ 120 <= t /\ t <= 2000
  BY <1>2 DEF InputRecord
<1>5. SizeOf(x) = t
  BY <1>4 DEF SizeOf, NUM_ALGORITHMS
<1>6. PICK d \in InputRecord : d = Defaults(x)
  BY <1>3
<1>7. InOf(x) = [d EXCEPT !.total = t]
  BY <1>5, <1>6 DEF InOf
<1>8. InOf(x) \in InputRecord /\ InOf(x).total = t /\ InOf(x).seed1 = d.seed1 /\ InOf(x).seed2 = d.seed2
  BY <1>7 DEF InputRecord
<1>9. QED
  BY <1>3, <1>4, <1>5, <1>6, <1>8

LEMMA SizeIs ==
    ASSUME NEW t \in Int, 120 <= t, t <= 2000
    PROVE  ListSize(t) \in Int /\ 4 <= ListSize(t) /\ ListSize(t) <= 98
<1>1. ListSize(t) = t \div 20 - 2
  BY DEF ListSize, PER_ITEM
<1>2. PICK q : q = t \div 20
  OBVIOUS
<1>3. q \in Int /\ 6 <= q /\ q <= 100
  BY <1>2
<1>4. QED
  BY <1>1, <1>2, <1>3

LEMMA InputFacts ==
    ASSUME InputInv
    PROVE  /\ in \in InputRecord /\ 120 <= in.total /\ in.total <= 2000
           /\ Nodes \in Nat /\ Nodes >= 3 /\ Nodes <= 97 /\ Size = Nodes + 1
           /\ in.seed1 \in Int /\ in.seed2 \in Int /\ in.seed1 >= 0 /\ in.seed2 >= 0
<1>1. PICK x \in Inputs : in = InOf(x)
  BY DEF InputInv
<1>2. in \in InputRecord /\ 120 <= in.total /\ in.total <= 2000
      /\ in.seed1 >= 0 /\ in.seed2 >= 0
  BY <1>1, InOfIs
<1>3. PICK t \in Int : t = in.total /\ 120 <= t /\ t <= 2000
  BY <1>2 DEF InputRecord
<1>4. ListSize(t) \in Int /\ 4 <= ListSize(t) /\ ListSize(t) <= 98
  BY <1>3, SizeIs
<1>5. PICK s \in Int : s = ListSize(t) /\ 4 <= s /\ s <= 98
  BY <1>4
<1>6. Size = s
  BY <1>3, <1>5 DEF Size
<1>7. in.seed1 \in Int /\ in.seed2 \in Int
  BY <1>2 DEF InputRecord
<1>8. QED
  BY <1>2, <1>5, <1>6, <1>7 DEF Nodes

LEMMA HeadIdx ==
    ASSUME InputInv, ZeroOnlyHead, NEW y \in Addr(Nodes), Base(Nodes, in.seed1, y).idx = 0
    PROVE  y = 0
<1>1. PICK x \in Inputs : in = InOf(x)
  BY DEF InputInv
<1>2. in.seed1 = Defaults(x).seed1 /\ in.total = SizeOf(x)
  BY <1>1, InOfIs
<1>3. Nodes \in Nat /\ Nodes >= 3 /\ Size = Nodes + 1
  BY InputFacts
<1>4. ListSize(SizeOf(x)) = Nodes + 1
  BY <1>2, <1>3 DEF Size
<1>5. SUFFICES ASSUME y # 0 PROVE FALSE
  OBVIOUS
<1>6. y # 1
  BY DEF Base, LastItem
<1>7. y \in Int /\ 2 <= y /\ y <= Nodes - 1
  BY <1>3, <1>5, <1>6 DEF Addr
<1>8. Base(Nodes, in.seed1, y).idx = ItemIdx(Nodes + 1, in.seed1, Nodes - y)
  BY <1>5, <1>6 DEF Base
<1>9. PICK i : i = Nodes - y
  OBVIOUS
<1>10. i \in 1 .. (Nodes + 1) - 3
  BY <1>3, <1>7, <1>9
<1>11. ItemIdx(Nodes + 1, in.seed1, i) # 0
  BY <1>2, <1>4, <1>10 DEF ZeroOnlyHead
<1>12. QED
  BY <1>8, <1>9, <1>11

-----------------------------------------------------------------------------
(* The inductive invariant of the list kernel.                              *)
Frame == [list : Int, finder_idx : Int, i : Nat, retval : Word16, found : Int, missed : Int,
          this_find : Int, prev : Int, cur : Int, remover : Int]
Scan == [p : Nat, step : Nat, final : Counts, track : Counts, caller : Int]
Results == [list : {0}, crc : Word16, crclist : Word16, crcmatrix : Word16, crcstate : Word16,
            i : Nat]

Merging == pc \in {"merge", "scan1", "scan2"}
Listed == pc \in {"cells", "text", "iterate", "done", "find", "remove", "check"}
Ready == pc \in {"cells", "text", "iterate", "done", "check"} \/ (pc = "find" /\ fr.i = 0)
Root == IF pc \in {"find", "remove", "check"} THEN fr.list ELSE 0

\* The data of the items is that of the items made, but for the lower bytes.
DataKept(h, n, seed) == \A x \in Addr(n) : Alike(h.data[x], Base(n, seed, x))
OwnData(h, n) == \A x \in Addr(n + 1) : h.info[x] = x

ControlInv ==
    /\ ms \in SortState /\ fr \in Frame /\ st \in Scan /\ res \in Results
    /\ pc \in {"items", "cells", "text", "iterate", "done", "find", "reverse", "remove", "undo",
               "check", "pass", "merge", "scan1", "scan2"}
    /\ pc = "items" => ms = SortStart(0, "idx", "cells")
    /\ Sorting => /\ ms.after \in {"cells", "remove", "check"}
                  /\ ms.cmp = IF ms.after = "remove" THEN "data" ELSE "idx"
                  /\ ms.after = "remove" => fr.finder_idx > 0
    /\ Scanning => /\ ms.cmp = "data" /\ Comparing
                   /\ st.caller \in {ms.p, ms.q} /\ ~ IsCached(st.caller)

HeapInv ==
    /\ heap \in HeapOf(Nodes + 1)
    /\ pc # "items" => heap.next[Nodes] = NULL /\ DataKept(heap, Nodes, in.seed1)
    /\ pc # "undo" => OwnData(heap, Nodes)

\* The list without its second item, and what it will be with it.
Removed(w) ==
    \E h : /\ Whole(h, w, Nodes, fr.list) /\ Unlinked(heap, h, w[2], w[3]) /\ fr.remover = w[3]

OrderInv(w, r) ==
    /\ pc = "items" => Built(heap, Nodes, in.seed1, Min2(fr.i + 2, Nodes))
    /\ Listed => ListAt(heap, w, Nodes, Root)
    /\ Ready => Root = 0 /\ AllOrd(heap.data, "idx", r, w, Nodes)
    /\ pc = "reverse" => /\ fr.this_find \in Addr(Nodes) \cup {NULL}
                         /\ \E c : ReverseAt(heap, fr, w, Nodes, c)
    /\ pc = "undo" => Removed(w)
    /\ pc = "pass" => PassState(heap, ms, r, w, Nodes)
    /\ Merging => MergeState(heap, ms, r, w, Nodes)

\* b holds the items d in the order r, with the data they had.
Ranked(b, d, r, n, cmp) ==
    /\ b \in [1 .. n -> Datum]
    /\ \A i \in 1 .. n : \E x \in Addr(n) : r[x] = i
    /\ \A x \in Addr(n) : /\ Alike(d[x], b[r[x]])
                          /\ cmp = "data" /\ Settled(b[r[x]], "data") => d[x] = b[r[x]]

PastInv(w, r) ==
    ~ Building =>
        /\ Listed \/ pc = "reverse" => before = [i \in 1 .. Nodes |-> heap.data[w[i]]]
        /\ pc = "undo" => before = [i \in 1 .. Nodes - 1 |-> heap.data[KeptItem(w, i)]]
        /\ Sorting => Ranked(before, heap.data, r, Nodes, ms.cmp)

ListInv == ControlInv /\ HeapInv /\ \E w, r : OrderInv(w, r) /\ PastInv(w, r)

\* The part of a step that keeps the items of before.
BeforeStep ==
    before' = IF Building' THEN <<>> ELSE IF Busy /\ Busy' THEN before ELSE Items'

-----------------------------------------------------------------------------
(* Parts of steps.                                                          *)
LEMMA MaxNext ==
    ASSUME NEW z \in Nat, Pointers(heap', z) PROVE Max' = z
<1>1. DOMAIN heap'.next = 0 .. z - 1
  BY DEF Pointers, Addr
<1>2. Cardinality(0 .. z - 1) = z
  <2>1. PICK y \in Int : y = z - 1
    OBVIOUS
  <2>2. Cardinality(0 .. y) = IF 0 > y THEN 0 ELSE y - 0 + 1
    BY FS_Interval
  <2>3. QED
    BY <2>1, <2>2
<1>3. QED
  BY <1>1, <1>2 DEF Max

LEMMA ItemsNext ==
    ASSUME NEW n \in Nat, n >= 3, NEW w, NEW first,
           first = (IF pc' \in {"iterate", "done"} THEN res'.list ELSE fr'.list),
           Whole(heap', w, n, first)
    PROVE  Items' = [i \in 1 .. n |-> heap'.data[w[i]]]
<1>1. heap' \in HeapOf(n + 1) /\ ListAt(heap', w, n, first) /\ \A x \in Addr(n + 1) : heap'.info[x] = x
  BY DEF Whole
<1>2. Pointers(heap', n + 1)
  BY <1>1, HeapPointers
<1>3. Max' = n + 1
  BY <1>2, MaxNext
<1>4. Contents(heap', first, n + 1) = [i \in 1 .. n |-> heap'.data[w[i]]]
  BY <1>1, ContentsIs
<1>5. QED
  BY <1>3, <1>4 DEF Items

LEMMA NodesNext == ASSUME in' = in PROVE Nodes' = Nodes
BY DEF Nodes, Size

LEMMA WholeListed ==
    ASSUME NEW w, NEW r, HeapInv, OrderInv(w, r), Listed
    PROVE  Whole(heap, w, Nodes, Root)
BY DEF HeapInv, OrderInv, Whole, Listed, OwnData

\* A list that hangs together is what before records of it.
LEMMA PastListed ==
    ASSUME NEW n \in Nat, n >= 3, Nodes' = n, res' \in Results, NEW w, NEW r, BeforeStep, Listed',
           Whole(heap', w, n, Root')
    PROVE  PastInv(w, r)'
<1> SUFFICES ASSUME ~ Building' PROVE before' = [i \in 1 .. n |-> heap'.data[w[i]]]
  BY DEF PastInv, Listed, Sorting
<1>1. ~ Busy'
  BY DEF Listed, Busy, Sorting
<1>2. before' = Items'
  BY <1>1 DEF BeforeStep
<1>3. res'.list = 0
  BY DEF Results
<1>4. pc' # "cells" /\ pc' # "text"
  BY DEF Building
<1>5. Root' = IF pc' \in {"iterate", "done"} THEN res'.list ELSE fr'.list
  BY <1>3, <1>4 DEF Root, Listed
<1>6. QED
  BY <1>2, <1>5, ItemsNext

\* A step between states with a list that does not touch it.
LEMMA ListedKept ==
    ASSUME InputInv, NEW w, NEW r, HeapInv, OrderInv(w, r), Listed, Listed', heap' = heap, in' = in,
           Root' = Root, Ready' => Ready, res' \in Results, BeforeStep
    PROVE  HeapInv' /\ OrderInv(w, r)' /\ PastInv(w, r)'
<1>1. Nodes' = Nodes /\ Nodes \in Nat /\ Nodes >= 3
  BY NodesNext, InputFacts
<1>2. HeapInv'
  BY <1>1 DEF HeapInv, Listed
<1>3. Whole(heap', w, Nodes, Root')
  BY WholeListed
<1>4. PastInv(w, r)'
  BY <1>1, <1>3, PastListed
<1>5. OrderInv(w, r)'
  BY <1>1 DEF OrderInv, Listed, Ready, Merging
<1>6. QED
  BY <1>2, <1>4, <1>5

\* A step of the kernels a comparison calls that does not touch the list.
LEMMA MergingKept ==
    ASSUME InputInv, NEW w, NEW r, ControlInv, HeapInv, OrderInv(w, r), PastInv(w, r),
           Merging, Merging', ms.cmp = "data",
           heap' = heap, in' = in, ms' = ms, BeforeStep
    PROVE  HeapInv' /\ OrderInv(w, r)' /\ PastInv(w, r)'
<1>1. Nodes' = Nodes /\ Nodes \in Nat /\ Nodes >= 3
  BY NodesNext, InputFacts
<1>2. HeapInv'
  BY <1>1 DEF HeapInv, Merging
<1>3. Sorting /\ ms.after = "remove"
  BY DEF ControlInv, Merging, Sorting
<1>4. Busy /\ Busy' /\ ~ Building /\ ~ Building'
  BY <1>3 DEF Merging, Sorting, Busy, Building
<1>5. before' = before
  BY <1>4 DEF BeforeStep
<1>6. PastInv(w, r)'
  BY <1>1, <1>3, <1>4, <1>5 DEF PastInv, Merging, Listed, Sorting
<1>7. OrderInv(w, r)'
  BY <1>1 DEF OrderInv, Listed, Ready, Merging
<1>8. QED
  BY <1>2, <1>6, <1>7

-----------------------------------------------------------------------------
(* The text that core_init_state writes.                                    *)
IsText(p) == Len(p) \in {4, 8} /\ \A i \in 1 .. Len(p) : p[i] \in Letters

LEMMA FourLetters ==
    ASSUME NEW a \in Letters, NEW b \in Letters, NEW c \in Letters, NEW d \in Letters
    PROVE  IsText(<<a, b, c, d>>)
BY DEF IsText

LEMMA EightLetters ==
    ASSUME NEW a \in Letters, NEW b \in Letters, NEW c \in Letters, NEW d \in Letters,
           NEW e \in Letters, NEW f \in Letters, NEW g \in Letters, NEW h \in Letters
    PROVE  IsText(<<a, b, c, d, e, f, g, h>>)
BY DEF IsText

LEMMA AreLetters ==
    /\ 43 \in Letters /\ 45 \in Letters /\ 46 \in Letters /\ 48 \in Letters /\ 49 \in Letters
    /\ 50 \in Letters /\ 51 \in Letters /\ 52 \in Letters /\ 53 \in Letters /\ 54 \in Letters
    /\ 55 \in Letters /\ 56 \in Letters /\ 70 \in Letters /\ 84 \in Letters /\ 94 \in Letters
    /\ 101 \in Letters /\ 113 \in Letters /\ 122 \in Letters
BY DEF Letters

LEMMA IntPatterns == \A k \in 1 .. 4 : IsText(intpat[k])
<1>1. intpat[1] = <<53, 48, 49, 50>> /\ intpat[2] = <<49, 50, 51, 52>>
      /\ intpat[3] = <<45, 56, 55, 52>> /\ intpat[4] = <<43, 49, 50, 50>>
  BY DEF intpat
<1>2. IsText(<<53, 48, 49, 50>>) /\ IsText(<<49, 50, 51, 52>>)
      /\ IsText(<<45, 56, 55, 52>>) /\ IsText(<<43, 49, 50, 50>>)
  BY AreLetters, FourLetters
<1>3. \A k \in 1 .. 4 : k = 1 \/ k = 2 \/ k = 3 \/ k = 4
  OBVIOUS
<1>4. QED
  BY <1>1, <1>2, <1>3

LEMMA FloatPatterns == \A k \in 1 .. 4 : IsText(floatpat[k])
<1>1. /\ floatpat[1] = <<51, 53, 46, 53, 52, 52, 48, 48>>
      /\ floatpat[2] = <<46, 49, 50, 51, 52, 53, 48, 48>>
      /\ floatpat[3] = <<45, 49, 49, 48, 46, 55, 48, 48>>
      /\ floatpat[4] = <<43, 48, 46, 54, 52, 52, 48, 48>>
  BY DEF floatpat
<1>2. /\ IsText(<<51, 53, 46, 53, 52, 52, 48, 48>>)
      /\ IsText(<<46, 49, 50, 51, 52, 53, 48, 48>>)
      /\ IsText(<<45, 49, 49, 48, 46, 55, 48, 48>>)
      /\ IsText(<<43, 48, 46, 54, 52, 52, 48, 48>>)
  BY AreLetters, EightLetters
<1>3. \A k \in 1 .. 4 : k = 1 \/ k = 2 \/ k = 3 \/ k = 4
  OBVIOUS
<1>4. QED
  BY <1>1, <1>2, <1>3

LEMMA SciPatterns == \A k \in 1 .. 4 : IsText(scipat[k])
<1>1. /\ scipat[1] = <<53, 46, 53, 48, 48, 101, 43, 51>>
      /\ scipat[2] = <<45, 46, 49, 50, 51, 101, 45, 50>>
      /\ scipat[3] = <<45, 56, 55, 101, 43, 56, 51, 50>>
      /\ scipat[4] = <<43, 48, 46, 54, 101, 45, 49, 50>>
  BY DEF scipat
<1>2. /\ IsText(<<53, 46, 53, 48, 48, 101, 43, 51>>)
      /\ IsText(<<45, 46, 49, 50, 51, 101, 45, 50>>)
      /\ IsText(<<45, 56, 55, 101, 43, 56, 51, 50>>)
      /\ IsText(<<43, 48, 46, 54, 101, 45, 49, 50>>)
  BY AreLetters, EightLetters
<1>3. \A k \in 1 .. 4 : k = 1 \/ k = 2 \/ k = 3 \/ k = 4
  OBVIOUS
<1>4. QED
  BY <1>1, <1>2, <1>3

LEMMA ErrPatterns == \A k \in 1 .. 4 : IsText(errpat[k])
<1>1. /\ errpat[1] = <<84, 48, 46, 51, 101, 45, 49, 70>>
      /\ errpat[2] = <<45, 84, 46, 84, 43, 43, 84, 113>>
      /\ errpat[3] = <<49, 84, 51, 46, 52, 101, 52, 122>>
      /\ errpat[4] = <<51, 52, 46, 48, 101, 45, 84, 94>>
  BY DEF errpat
<1>2. /\ IsText(<<84, 48, 46, 51, 101, 45, 49, 70>>)
      /\ IsText(<<45, 84, 46, 84, 43, 43, 84, 113>>)
      /\ IsText(<<49, 84, 51, 46, 52, 101, 52, 122>>)
      /\ IsText(<<51, 52, 46, 48, 101, 45, 84, 94>>)
  BY AreLetters, EightLetters
<1>3. \A k \in 1 .. 4 : k = 1 \/ k = 2 \/ k = 3 \/ k = 4
  OBVIOUS
<1>4. QED
  BY <1>1, <1>2, <1>3

LEMMA PatternText == ASSUME NEW seed \in Int PROVE IsText(Pattern(seed))
<1>1. PICK kind : kind = seed % 8
  OBVIOUS
<1>2. kind \in 0 .. 7
  BY <1>1
<1>3. PICK k : k = Field(seed, 3, 2) + 1
  OBVIOUS
<1>4. k \in 1 .. 4
  <2>1. PICK q \in Int : q = seed \div 8
    OBVIOUS
  <2>2. 2^3 = 8 /\ 2^2 = 4
    OBVIOUS
  <2>3. k = (q % 4) + 1
    BY <1>3, <2>1, <2>2 DEF Field
  <2>4. QED
    BY <2>1, <2>3
<1>5. Pattern(seed) = CASE kind <= 2 -> intpat[k]
                        [] kind \in {3, 4} -> floatpat[k]
                        [] kind \in {5, 6} -> scipat[k]
                        [] kind = 7 -> errpat[k]
  BY <1>1, <1>3 DEF Pattern
<1>6. CASE kind <= 2
  <2>1. Pattern(seed) = intpat[k]
    BY <1>2, <1>5, <1>6
  <2>2. QED
    BY <1>4, <2>1, IntPatterns
<1>7. CASE kind \in {3, 4}
  <2>1. Pattern(seed) = floatpat[k]
    BY <1>2, <1>5, <1>7
  <2>2. QED
    BY <1>4, <2>1, FloatPatterns
<1>8. CASE kind \in {5, 6}
  <2>1. Pattern(seed) = scipat[k]
    BY <1>2, <1>5, <1>8
  <2>2. QED
    BY <1>4, <2>1, SciPatterns
<1>9. CASE kind = 7
  <2>1. Pattern(seed) = errpat[k]
    BY <1>2, <1>5, <1>9
  <2>2. QED
    BY <1>4, <2>1, ErrPatterns
<1>10. QED
  BY <1>2, <1>6, <1>7, <1>8, <1>9

-----------------------------------------------------------------------------
(* Types of what the steps assign.                                          *)
LEMMA NoFrameType == NoFrame \in Frame
BY ZeroInWord16 DEF NoFrame, Frame, NULL
LEMMA NoScanType == NoScan \in Scan
BY NoCountsType DEF NoScan, Scan, NULL

LEMMA ModWord16 == ASSUME NEW y \in Int PROVE U16(y) \in Word16 /\ y % 65536 \in Word16
<1>1. PICK m \in Int : m = y % 65536 /\ 0 <= m /\ m <= 65535
  OBVIOUS
<1>2. m \in Word16
  BY <1>1, InWord16
<1>3. QED
  BY <1>1, <1>2 DEF U16

LEMMA NextSeedType ==
    ASSUME NEW i \in Nat, NEW seed \in Int PROVE NextSeed(i, seed) \in Word16
<1>1. PICK y \in Int : y = (i + 1) * seed
  OBVIOUS
<1>2. NextSeed(i, seed) = y % 65536
  BY <1>1 DEF NextSeed
<1>3. QED
  BY <1>2, ModWord16

\* The locals of core_list_mergesort when it begins.
LEMMA SortStartType ==
    ASSUME NEW list \in Int, NEW cmp \in {"idx", "data"},
           NEW after \in {"cells", "remove", "check", "done"}
    PROVE  SortStart(list, cmp, after) \in SortState
BY DEF SortStart, SortState, NULL

-----------------------------------------------------------------------------
(* Steps that do not touch the list.                                        *)
LEMMA InitCellsKeeps == ASSUME InputInv, ListInv, InitCells, BeforeStep PROVE ListInv'
<1>1. PICK w, r : OrderInv(w, r) /\ PastInv(w, r)
  BY DEF ListInv
<1>2. /\ pc = "cells" /\ pc' = pc /\ in' = in /\ heap' = heap /\ res' = res /\ ms' = ms /\ st' = st
  BY DEF InitCells
<1>3. ControlInv /\ HeapInv
  BY DEF ListInv
<1>4. fr' \in Frame
  <2>1. fr \in Frame
    BY <1>3 DEF ControlInv
  <2>2. PICK seed : /\ seed = IF fr.i = 0 THEN MatrixSeed ELSE fr.retval
                    /\ fr' = [fr EXCEPT !.i = @ + 1, !.retval = NextSeed(fr.i, seed)]
    BY DEF InitCells
  <2>3. PICK s \in Int : s = in.seed1 + 65536 * in.seed2
    BY InputFacts
  <2>4. MatrixSeed \in Int
    BY <2>3 DEF MatrixSeed
  <2>5. fr.retval \in Word16 /\ fr.i \in Nat
    BY <2>1 DEF Frame
  <2>6. fr.retval \in Int
    BY <2>5, Word16Is
  <2>7. seed \in Int
    BY <2>2, <2>4, <2>6
  <2>8. NextSeed(fr.i, seed) \in Word16
    BY <2>5, <2>7, NextSeedType
  <2>9. PICK v \in Word16 : v = NextSeed(fr.i, seed)
    BY <2>8
  <2>10. PICK i \in Nat : i = fr.i + 1
    BY <2>5
  <2>11. fr' = [fr EXCEPT !.i = i, !.retval = v]
    BY <2>2, <2>9, <2>10
  <2>12. QED
    BY <2>1, <2>11 DEF Frame
<1>5. ControlInv'
  BY <1>2, <1>3, <1>4 DEF ControlInv, Sorting, Scanning
<1>6. HeapInv' /\ OrderInv(w, r)' /\ PastInv(w, r)'
  <2>1. Listed /\ Listed' /\ Root' = Root /\ (Ready' => Ready) /\ res' \in Results
    BY <1>2, <1>3 DEF Listed, Root, Ready, ControlInv
  <2>2. QED
    BY <1>1, <1>2, <1>3, <2>1, ListedKept
<1>7. QED
  BY <1>5, <1>6 DEF ListInv

LEMMA EndCellsKeeps == ASSUME InputInv, ListInv, EndCells, BeforeStep PROVE ListInv'
<1>1. PICK w, r : OrderInv(w, r) /\ PastInv(w, r)
  BY DEF ListInv
<1>2. /\ pc = "cells" /\ pc' = "text" /\ in' = in /\ heap' = heap /\ res' = res /\ ms' = ms
      /\ st' = st /\ fr' = NoFrame
  BY DEF EndCells
<1>3. ControlInv /\ HeapInv
  BY DEF ListInv
<1>4. ControlInv'
  BY <1>2, <1>3, NoFrameType DEF ControlInv, Sorting, Scanning
<1>5. HeapInv' /\ OrderInv(w, r)' /\ PastInv(w, r)'
  <2>1. Listed /\ Listed' /\ Root' = Root /\ (Ready' => Ready) /\ res' \in Results
    BY <1>2, <1>3 DEF Listed, Root, Ready, ControlInv
  <2>2. QED
    BY <1>1, <1>2, <1>3, <2>1, ListedKept
<1>6. QED
  BY <1>4, <1>5 DEF ListInv

LEMMA InitTextKeeps == ASSUME InputInv, ListInv, InitText, BeforeStep PROVE ListInv'
<1>1. PICK w, r : OrderInv(w, r) /\ PastInv(w, r)
  BY DEF ListInv
<1>2. /\ pc = "text" /\ pc' = pc /\ in' = in /\ heap' = heap /\ res' = res /\ ms' = ms /\ fr' = fr
  BY DEF InitText
<1>3. ControlInv /\ HeapInv
  BY DEF ListInv
<1>4. st' \in Scan
  <2>1. st \in Scan
    BY <1>3 DEF ControlInv
  <2>2. PICK seed \in Int : seed = in.seed1 + st.step + 1
    BY <2>1, InputFacts DEF Scan
  <2>3. IsText(NextPattern)
    BY <2>2, PatternText DEF NextPattern
  <2>4. PICK l \in Nat : l = Len(NextPattern)
    BY <2>3 DEF IsText
  <2>5. PICK p \in Nat : p = st.p + l + 1
    BY <2>1 DEF Scan
  <2>6. PICK i \in Nat : i = st.step + 1
    BY <2>1 DEF Scan
  <2>7. st' = [st EXCEPT !.p = p, !.step = i]
    BY <2>4, <2>5, <2>6 DEF InitText
  <2>8. QED
    BY <2>1, <2>7 DEF Scan
<1>5. ControlInv'
  BY <1>2, <1>3, <1>4 DEF ControlInv, Sorting, Scanning
<1>6. HeapInv' /\ OrderInv(w, r)' /\ PastInv(w, r)'
  <2>1. Listed /\ Listed' /\ Root' = Root /\ (Ready' => Ready) /\ res' \in Results
    BY <1>2, <1>3 DEF Listed, Root, Ready, ControlInv
  <2>2. QED
    BY <1>1, <1>2, <1>3, <2>1, ListedKept
<1>7. QED
  BY <1>5, <1>6 DEF ListInv

LEMMA EndTextKeeps == ASSUME InputInv, ListInv, EndText, BeforeStep PROVE ListInv'
<1>1. PICK w, r : OrderInv(w, r) /\ PastInv(w, r)
  BY DEF ListInv
<1>2. /\ pc = "text" /\ pc' = "iterate" /\ in' = in /\ heap' = heap /\ res' = res /\ ms' = ms
      /\ fr' = fr /\ st' = NoScan
  BY DEF EndText
<1>3. ControlInv /\ HeapInv
  BY DEF ListInv
<1>4. ControlInv'
  BY <1>2, <1>3, NoScanType DEF ControlInv, Sorting, Scanning
<1>5. HeapInv' /\ OrderInv(w, r)' /\ PastInv(w, r)'
  <2>1. Listed /\ Listed' /\ Root' = Root /\ (Ready' => Ready) /\ res' \in Results
    BY <1>2, <1>3 DEF Listed, Root, Ready, ControlInv
  <2>2. QED
    BY <1>1, <1>2, <1>3, <2>1, ListedKept
<1>6. QED
  BY <1>4, <1>5 DEF ListInv

\* The frame that core_bench_list begins with.
LEMMA StartBenchType ==
    ASSUME res \in Results, NEW idx \in {1, -1}, StartBench(idx)
    PROVE  /\ fr' \in Frame /\ fr'.list = 0 /\ fr'.i = 0 /\ fr'.finder_idx = idx /\ pc' = "find"
<1>1. res.list = 0
  BY DEF Results
<1>2. PICK x \in Int : x = idx
  OBVIOUS
<1>3. PICK z \in Int : z = 0
  OBVIOUS
<1>4. PICK f \in Frame : f = NoFrame
  BY NoFrameType
<1>5. fr' = [f EXCEPT !.list = z, !.finder_idx = x] /\ pc' = "find"
  BY <1>1, <1>2, <1>3, <1>4 DEF StartBench
<1>6. fr' \in Frame
  BY <1>5 DEF Frame
<1>7. fr'.list = z /\ fr'.i = f.i /\ fr'.finder_idx = x
  BY <1>5 DEF Frame
<1>8. f.i = 0
  BY <1>4 DEF NoFrame
<1>9. QED
  BY <1>2, <1>3, <1>5, <1>6, <1>7, <1>8

LEMMA IterateKeeps == ASSUME InputInv, ListInv, Iterate, BeforeStep PROVE ListInv'
<1>1. PICK w, r : OrderInv(w, r) /\ PastInv(w, r)
  BY DEF ListInv
<1>2. /\ pc = "iterate" /\ in' = in /\ heap' = heap /\ res' = res /\ ms' = ms
      /\ st' = st /\ StartBench(1)
  BY DEF Iterate
<1>3. ControlInv /\ HeapInv /\ res \in Results
  BY DEF ListInv, ControlInv
<1>4. fr' \in Frame /\ fr'.list = 0 /\ pc' = "find"
  BY <1>2, <1>3, StartBenchType
<1>5. ControlInv'
  BY <1>2, <1>3, <1>4 DEF ControlInv, Sorting, Scanning
<1>6. HeapInv' /\ OrderInv(w, r)' /\ PastInv(w, r)'
  <2>1. Listed /\ Listed' /\ Root' = Root /\ (Ready' => Ready) /\ res' \in Results
    BY <1>2, <1>3, <1>4 DEF Listed, Root, Ready
  <2>2. QED
    BY <1>1, <1>2, <1>3, <2>1, ListedKept
<1>7. QED
  BY <1>5, <1>6 DEF ListInv

LEMMA ReportKeeps == ASSUME InputInv, ListInv, Report, BeforeStep PROVE ListInv'
<1>1. PICK w, r : OrderInv(w, r) /\ PastInv(w, r)
  BY DEF ListInv
<1>2. /\ pc = "iterate" /\ pc' = "done" /\ in' = in /\ heap' = heap /\ res' = res /\ ms' = ms
      /\ st' = st /\ fr' = fr
  BY DEF Report
<1>3. ControlInv /\ HeapInv
  BY DEF ListInv
<1>4. ControlInv'
  BY <1>2, <1>3 DEF ControlInv, Sorting, Scanning
<1>5. HeapInv' /\ OrderInv(w, r)' /\ PastInv(w, r)'
  <2>1. Listed /\ Listed' /\ Root' = Root /\ (Ready' => Ready) /\ res' \in Results
    BY <1>2, <1>3 DEF Listed, Root, Ready, ControlInv
  <2>2. QED
    BY <1>1, <1>2, <1>3, <2>1, ListedKept
<1>6. QED
  BY <1>4, <1>5 DEF ListInv

LEMMA ParkKeeps == ASSUME InputInv, ListInv, Park, BeforeStep PROVE ListInv'
<1>1. PICK w, r : OrderInv(w, r) /\ PastInv(w, r)
  BY DEF ListInv
<1>2. /\ pc = "done" /\ pc' = pc /\ in' = in /\ heap' = heap /\ res' = res /\ ms' = ms
      /\ st' = st /\ fr' = fr
  BY DEF Park, vars
<1>3. ControlInv /\ HeapInv
  BY DEF ListInv
<1>4. ControlInv'
  BY <1>2, <1>3 DEF ControlInv, Sorting, Scanning
<1>5. HeapInv' /\ OrderInv(w, r)' /\ PastInv(w, r)'
  <2>1. Listed /\ Listed' /\ Root' = Root /\ (Ready' => Ready) /\ res' \in Results
    BY <1>2, <1>3 DEF Listed, Root, Ready, ControlInv
  <2>2. QED
    BY <1>1, <1>2, <1>3, <2>1, ListedKept
<1>6. QED
  BY <1>4, <1>5 DEF ListInv

\* A token is scanned: the kernel's own locals.
LEMMA TokenScan ==
    ASSUME InputInv, st \in Scan, Token
    PROVE  st' \in Scan /\ st'.caller = st.caller
<1>1. PICK t : /\ t = core_state_transition(block, st.p, st.track)
               /\ st' = [st EXCEPT !.p = t.p, !.track = t.track, !.final[t.state] = @ + 1]
  BY DEF Token
<1>2. PICK T \in Nat : T = in.total /\ DOMAIN block = 0 .. T - 1
  BY InputFacts DEF InputInv, InputRecord
<1>3. st.p \in Nat /\ st.track \in Counts /\ st.final \in Counts
  BY DEF Scan
<1>4. t.p \in Nat /\ t.state \in CORE_STATE /\ t.track \in Counts
  BY <1>1, <1>2, <1>3, TransitionType
<1>5. PICK f : f = [st.final EXCEPT ![t.state] = @ + 1]
  OBVIOUS
<1>6. f \in Counts
  BY <1>3, <1>4, <1>5 DEF Counts
<1>7. PICK p \in Nat : p = t.p
  BY <1>4
<1>8. PICK c \in Counts : c = t.track
  BY <1>4
<1>9. st' = [st EXCEPT !.p = p, !.track = c, !.final = f]
  BY <1>1, <1>5, <1>7, <1>8
<1>10. QED
  BY <1>6, <1>9 DEF Scan

LEMMA TokenKeeps == ASSUME InputInv, ListInv, Token, BeforeStep PROVE ListInv'
<1>1. PICK w, r : OrderInv(w, r) /\ PastInv(w, r)
  BY DEF ListInv
<1>2. /\ Scanning /\ pc' = pc /\ in' = in /\ heap' = heap /\ res' = res /\ ms' = ms /\ fr' = fr
  BY DEF Token
<1>3. ControlInv /\ HeapInv
  BY DEF ListInv
<1>4. st' \in Scan /\ st'.caller = st.caller
  BY <1>3, TokenScan DEF ControlInv
<1>5. ControlInv'
  BY <1>2, <1>3, <1>4
     DEF ControlInv, Sorting, Scanning, Comparing, MoreInQ, IsCached, Info
<1>6. HeapInv' /\ OrderInv(w, r)' /\ PastInv(w, r)'
  <2>1. Merging /\ Merging' /\ ms.cmp = "data"
    BY <1>2, <1>3 DEF Merging, Scanning, ControlInv
  <2>2. QED
    BY <1>1, <1>2, <1>3, <2>1, MergingKept
<1>7. QED
  BY <1>5, <1>6 DEF ListInv

LEMMA CorruptKeeps == ASSUME InputInv, ListInv, Corrupt, BeforeStep PROVE ListInv'
<1>1. PICK w, r : OrderInv(w, r) /\ PastInv(w, r)
  BY DEF ListInv
<1>2. /\ pc = "scan1" /\ pc' = "scan2" /\ in' = in /\ heap' = heap /\ res' = res /\ ms' = ms
      /\ fr' = fr /\ st' = [st EXCEPT !.p = 0]
  BY DEF Corrupt
<1>3. ControlInv /\ HeapInv
  BY DEF ListInv
<1>4. st' \in Scan /\ st'.caller = st.caller
  <2>1. st \in Scan
    BY <1>3 DEF ControlInv
  <2>2. PICK z \in Nat : z = 0
    OBVIOUS
  <2>3. st' = [st EXCEPT !.p = z]
    BY <1>2, <2>2
  <2>4. QED
    BY <2>1, <2>3 DEF Scan
<1>5. ControlInv'
  BY <1>2, <1>3, <1>4
     DEF ControlInv, Sorting, Scanning, Comparing, MoreInQ, IsCached, Info
<1>6. HeapInv' /\ OrderInv(w, r)' /\ PastInv(w, r)'
  <2>1. Merging /\ Merging' /\ ms.cmp = "data"
    BY <1>2, <1>3 DEF Merging, Scanning, ControlInv
  <2>2. QED
    BY <1>1, <1>2, <1>3, <2>1, MergingKept
<1>7. QED
  BY <1>5, <1>6 DEF ListInv

\* The data type of an item, four bits taken twice.
LEMMA DTypeIs ==
    ASSUME NEW x \in Int PROVE 17 * Field(x, 3, 4) \in Nat
<1>1. PICK q \in Int : q = x \div 8
  OBVIOUS
<1>2. 2^3 = 8 /\ 2^4 = 16
  OBVIOUS
<1>3. Field(x, 3, 4) = q % 16
  BY <1>1, <1>2 DEF Field
<1>4. QED
  BY <1>3

\* What is compared are nodes of the list, with their own data.
LEMMA ComparedIs ==
    ASSUME InputInv, ControlInv, HeapInv, NEW w, NEW r, OrderInv(w, r), Merging, Comparing,
           NEW n \in {ms.p, ms.q}
    PROVE  /\ n \in Addr(Nodes) /\ n \in Addr(Nodes + 1) /\ n # NULL /\ heap.info[n] = n
           /\ heap.data[n] \in Datum /\ Info(heap, n) = heap.data[n]
           /\ DType(n) \in Nat /\ Period(n) \in Nat /\ Period(n) >= 34
<1>1. Nodes \in Nat /\ Nodes >= 3
  BY InputFacts
<1>2. MergeState(heap, ms, r, w, Nodes) /\ ms \in SortState /\ heap \in HeapOf(Nodes + 1)
  BY DEF OrderInv, ControlInv, HeapInv
<1>3. ms.psize > 0 /\ ms.q # NULL
  BY DEF Comparing, MoreInQ
<1>4. n \in Addr(Nodes) /\ n \in Addr(Nodes + 1) /\ n # NULL
  BY <1>1, <1>2, <1>3, MergeFacts
<1>5. heap.info[n] = n
  BY <1>4 DEF HeapInv, Merging, OwnData
<1>6. heap.data[n] \in Datum
  BY <1>2, <1>4, HeapPointers
<1>7. Info(heap, n) = heap.data[n]
  BY <1>5 DEF Info
<1>8. PICK x \in Int : x = heap.data[n].data16
  BY <1>6 DEF Datum
<1>9. DType(n) \in Nat
  BY <1>7, <1>8, DTypeIs DEF DType
<1>10. Period(n) \in Nat /\ Period(n) >= 34
  BY <1>9 DEF Period, Max2
<1>11. QED
  BY <1>4, <1>5, <1>6, <1>7, <1>9, <1>10

LEMMA CalcStateKeeps == ASSUME InputInv, ListInv, CalcState, BeforeStep PROVE ListInv'
<1>1. PICK w, r : OrderInv(w, r) /\ PastInv(w, r)
  BY DEF ListInv
<1>2. ControlInv /\ HeapInv
  BY DEF ListInv
<1>3. PICK n \in {ms.p, ms.q} : /\ Computing(n) /\ st' = [NoScan EXCEPT !.step = Period(n), !.caller = n]
                                /\ pc' = "scan1" /\ in' = in /\ heap' = heap /\ res' = res
                                /\ ms' = ms /\ fr' = fr
  BY DEF CalcState
<1>4. pc = "merge" /\ Comparing /\ ms.cmp = "data" /\ ~ IsCached(n)
  BY <1>3 DEF Computing
<1>5. n \in Addr(Nodes) /\ Period(n) \in Nat
  BY <1>1, <1>2, <1>4, ComparedIs DEF Merging
<1>6. st' \in Scan /\ st'.caller = n
  <2>1. PICK s \in Scan : s = NoScan
    BY NoScanType
  <2>2. PICK k \in Nat : k = Period(n)
    BY <1>5
  <2>3. n \in Int
    BY <1>5 DEF Addr
  <2>4. st' = [s EXCEPT !.step = k, !.caller = n]
    BY <1>3, <2>1, <2>2
  <2>5. QED
    BY <2>3, <2>4 DEF Scan
<1>7. ControlInv'
  BY <1>2, <1>3, <1>4, <1>6
     DEF ControlInv, Sorting, Scanning, Comparing, MoreInQ, IsCached, Info
<1>8. HeapInv' /\ OrderInv(w, r)' /\ PastInv(w, r)'
  <2>1. Merging /\ Merging'
    BY <1>3, <1>4 DEF Merging
  <2>2. QED
    BY <1>1, <1>2, <1>3, <1>4, <2>1, MergingKept
<1>9. QED
  BY <1>7, <1>8 DEF ListInv

-----------------------------------------------------------------------------
(* The find loop of core_bench_list.                                        *)
LEMMA FindFrame ==
    ASSUME fr \in Frame, NEW x \in Int,
           NEW e, e = [fr EXCEPT !.this_find = x, !.prev = NULL, !.cur = fr.list]
    PROVE  /\ e \in Frame /\ e.this_find = x /\ e.prev = NULL /\ e.cur = fr.list /\ e.list = fr.list
           /\ e.i = fr.i /\ e.finder_idx = fr.finder_idx
<1>1. PICK y \in Int : y = NULL
  BY DEF NULL
<1>2. PICK l \in Int : l = fr.list
  BY DEF Frame
<1>3. e = [fr EXCEPT !.this_find = x, !.prev = y, !.cur = l]
  BY <1>1, <1>2
<1>4. e \in Frame
  BY <1>3 DEF Frame
<1>5. /\ e.this_find = x /\ e.prev = y /\ e.cur = l /\ e.list = fr.list
      /\ e.i = fr.i /\ e.finder_idx = fr.finder_idx
  BY <1>3 DEF Frame
<1>6. QED
  BY <1>1, <1>2, <1>4, <1>5

LEMMA FindKeeps == ASSUME InputInv, ListInv, Find, BeforeStep PROVE ListInv'
<1>1. PICK w, r : OrderInv(w, r) /\ PastInv(w, r)
  BY DEF ListInv
<1>2. ControlInv /\ HeapInv /\ fr \in Frame
  BY DEF ListInv, ControlInv
<1>3. PICK x : x = core_list_find(heap, fr.list, Wanted)
  OBVIOUS
<1>4. /\ pc = "find" /\ pc' = "reverse" /\ in' = in /\ heap' = heap /\ res' = res /\ ms' = ms
      /\ st' = st /\ fr' = [fr EXCEPT !.this_find = x, !.prev = NULL, !.cur = fr.list]
  BY <1>3 DEF Find
<1>5. Nodes' = Nodes /\ Nodes \in Nat /\ Nodes >= 3
  BY <1>4, NodesNext, InputFacts
<1>6. Whole(heap, w, Nodes, fr.list)
  <2>1. Listed /\ Root = fr.list
    BY <1>4 DEF Listed, Root
  <2>2. QED
    BY <1>1, <1>2, <2>1, WholeListed
<1>7. x \in Addr(Nodes) \cup {NULL}
  BY <1>3, <1>5, <1>6, FindWhole
<1>8. x \in Int
  BY <1>5, <1>7 DEF Addr, NULL
<1>9. /\ fr' \in Frame /\ fr'.this_find = x /\ fr'.prev = NULL /\ fr'.cur = fr.list /\ fr'.list = fr.list
  BY <1>2, <1>4, <1>8, FindFrame
<1>10. ControlInv'
  BY <1>2, <1>4, <1>9 DEF ControlInv, Sorting, Scanning
<1>11. HeapInv'
  BY <1>2, <1>4, <1>5 DEF HeapInv
<1>12. ReverseAt(heap', fr', w, Nodes, 0)
  <2>1. ListAt(heap', w, Nodes, fr'.list)
    BY <1>4, <1>6, <1>9 DEF Whole
  <2>2. QED
    BY <1>5, <1>9, <2>1, StartReverse
<1>13. OrderInv(w, r)'
  BY <1>4, <1>5, <1>7, <1>9, <1>12 DEF OrderInv, Listed, Ready, Merging
<1>14. before' = [i \in 1 .. Nodes |-> heap'.data[w[i]]]
  <2>1. ~ Busy /\ ~ Building'
    BY <1>4 DEF Busy, Sorting, Building
  <2>2. before' = Items'
    BY <2>1 DEF BeforeStep
  <2>3. Whole(heap', w, Nodes, fr'.list)
    BY <1>4, <1>6, <1>9
  <2>4. fr'.list = IF pc' \in {"iterate", "done"} THEN res'.list ELSE fr'.list
    BY <1>4
  <2>5. QED
    BY <1>5, <2>2, <2>3, <2>4, ItemsNext
<1>15. PastInv(w, r)'
  BY <1>4, <1>5, <1>14 DEF PastInv, Listed, Sorting
<1>16. QED
  BY <1>10, <1>11, <1>13, <1>15 DEF ListInv

LEMMA ReverseFrame ==
    ASSUME fr \in Frame, NEW x \in Int, NEW e, e = [fr EXCEPT !.prev = fr.cur, !.cur = x]
    PROVE  /\ e \in Frame /\ e.this_find = fr.this_find /\ e.prev = fr.cur /\ e.cur = x
           /\ e.list = fr.list /\ e.i = fr.i /\ e.finder_idx = fr.finder_idx
<1>1. PICK y \in Int : y = fr.cur
  BY DEF Frame
<1>2. e = [fr EXCEPT !.prev = y, !.cur = x]
  BY <1>1
<1>3. e \in Frame
  BY <1>2 DEF Frame
<1>4. /\ e.this_find = fr.this_find /\ e.prev = y /\ e.cur = x
      /\ e.list = fr.list /\ e.i = fr.i /\ e.finder_idx = fr.finder_idx
  BY <1>2 DEF Frame
<1>5. QED
  BY <1>1, <1>3, <1>4

LEMMA ReverseNodes ==
    ASSUME NEW n \in Nat, n >= 3, NEW h, NEW f, NEW w, NEW c, ReverseAt(h, f, w, n, c), f.cur # NULL
    PROVE  /\ f.cur \in Addr(n) /\ f.cur \in Addr(n + 1) /\ f.cur # n
           /\ f.prev \in Addr(n + 1) \cup {NULL}
<1>1. Arranged(w, n) /\ c \in 0 .. n /\ f.prev = TailOf(w, c) /\ f.cur = From(w, n, c)
  BY DEF ReverseAt
<1>2. c < n /\ f.cur = w[c + 1]
  BY <1>1 DEF From
<1>3. c + 1 \in 1 .. n
  BY <1>1, <1>2
<1>4. f.prev = IF c = 0 THEN NULL ELSE w[c]
  BY <1>1 DEF TailOf
<1>5. c # 0 => c \in 1 .. n
  BY <1>1
<1>6. \A i \in 1 .. n : w[i] \in Addr(n) /\ w[i] \in Addr(n + 1) /\ w[i] # n
  BY <1>1, ArrangedIs
<1>7. QED
  BY <1>2, <1>3, <1>4, <1>5, <1>6

LEMMA ReverseKeeps == ASSUME InputInv, ListInv, Reverse, BeforeStep PROVE ListInv'
<1>1. PICK w, r : OrderInv(w, r) /\ PastInv(w, r)
  BY DEF ListInv
<1>2. ControlInv /\ HeapInv /\ fr \in Frame
  BY DEF ListInv, ControlInv
<1>3. PICK x : x = heap.next[fr.cur]
  OBVIOUS
<1>4. /\ pc = "reverse" /\ pc' = pc /\ in' = in /\ res' = res /\ ms' = ms /\ st' = st
      /\ fr.cur # NULL /\ heap' = SetNext(heap, fr.cur, fr.prev)
      /\ fr' = [fr EXCEPT !.prev = fr.cur, !.cur = x]
  BY <1>3 DEF Reverse
<1>5. Nodes' = Nodes /\ Nodes \in Nat /\ Nodes >= 3
  BY <1>4, NodesNext, InputFacts
<1>6. PICK c : ReverseAt(heap, fr, w, Nodes, c)
  BY <1>1, <1>4 DEF OrderInv
<1>7. /\ fr.cur \in Addr(Nodes) /\ fr.cur \in Addr(Nodes + 1) /\ fr.cur # Nodes
      /\ fr.prev \in Addr(Nodes + 1) \cup {NULL}
  BY <1>4, <1>5, <1>6, ReverseNodes
<1>8. heap \in HeapOf(Nodes + 1)
  BY <1>2 DEF HeapInv
<1>9. x \in Int
  <2>1. x \in Addr(Nodes + 1) \cup {NULL}
    BY <1>3, <1>7, <1>8, HeapPointers DEF Pointers
  <2>2. QED
    BY <1>5, <2>1 DEF Addr, NULL
<1>10. /\ fr' \in Frame /\ fr'.this_find = fr.this_find /\ fr'.prev = fr.cur /\ fr'.cur = x
       /\ fr'.list = fr.list
  BY <1>2, <1>4, <1>9, ReverseFrame
<1>11. /\ heap' \in HeapOf(Nodes + 1) /\ heap'.next = [heap.next EXCEPT ![fr.cur] = fr.prev]
       /\ heap'.info = heap.info /\ heap'.data = heap.data
  BY <1>4, <1>7, <1>8, SetNextIs
<1>12. ReverseAt(heap', fr', w, Nodes, c + 1)
  <2>1. PICK h : h = heap
    OBVIOUS
  <2>2. PICK f : f = fr
    OBVIOUS
  <2>3. PICK g : g = heap'
    OBVIOUS
  <2>4. PICK e : e = fr'
    OBVIOUS
  <2>5. /\ h \in HeapOf(Nodes + 1) /\ ReverseAt(h, f, w, Nodes, c) /\ f.cur # NULL
        /\ g = SetNext(h, f.cur, f.prev) /\ e.list = f.list /\ e.prev = f.cur
        /\ e.cur = h.next[f.cur]
    BY <1>3, <1>4, <1>6, <1>8, <1>10, <2>1, <2>2, <2>3, <2>4
  <2>6. ReverseAt(g, e, w, Nodes, c + 1)
    BY <1>5, <2>5, ReverseStep
  <2>7. QED
    BY <2>3, <2>4, <2>6
<1>13. ControlInv'
  BY <1>2, <1>4, <1>10 DEF ControlInv, Sorting, Scanning
<1>14. HeapInv'
  <2>1. Nodes \in Addr(Nodes + 1)
    BY <1>5 DEF Addr
  <2>2. heap'.next[Nodes] = heap.next[Nodes]
    BY <1>7, <1>8, <1>11, <2>1, HeapPointers DEF Pointers
  <2>3. QED
    BY <1>2, <1>4, <1>5, <1>11, <2>2 DEF HeapInv, DataKept, OwnData
<1>15. OrderInv(w, r)'
  BY <1>1, <1>4, <1>5, <1>10, <1>12 DEF OrderInv, Listed, Ready, Merging
<1>16. before' = before
  BY <1>4 DEF BeforeStep, Busy, Building
<1>17. PastInv(w, r)'
  BY <1>1, <1>4, <1>5, <1>11, <1>16 DEF PastInv, Listed, Sorting, Building
<1>18. QED
  BY <1>13, <1>14, <1>15, <1>17 DEF ListInv

-----------------------------------------------------------------------------
UsedOf(a, l, v, f, m) ==
    [a EXCEPT !.list = l, !.i = @ + 1, !.retval = v, !.found = f, !.missed = m]
LEMMA UsedFrame ==
    ASSUME fr \in Frame, NEW l \in Int, NEW v \in Word16, NEW f \in Int, NEW m \in Int,
           NEW e, e = UsedOf(fr, l, v, f, m)
    PROVE  e \in Frame /\ e.list = l /\ e.i = fr.i + 1 /\ e.finder_idx = fr.finder_idx /\ e.i # 0
<1>1. PICK i \in Nat : i = fr.i + 1 /\ i # 0
  BY DEF Frame
<1>2. e = [fr EXCEPT !.list = l, !.i = i, !.retval = v, !.found = f, !.missed = m]
  BY <1>1 DEF UsedOf
<1>3. e \in Frame
  BY <1>2 DEF Frame
<1>4. e.list = l /\ e.i = i /\ e.finder_idx = fr.finder_idx
  BY <1>2 DEF Frame
<1>5. QED
  BY <1>1, <1>3, <1>4

\* What is added to retval in a turn.
LEMMA AddType == ASSUME NEW d \in Int, NEW i \in {8, 9} PROVE Field(d, i, 1) \in Int
<1>1. CASE i = 8
  <2>1. 2^8 = 256 /\ 2^1 = 2
    OBVIOUS
  <2>2. PICK q \in Int : q = d \div 256
    OBVIOUS
  <2>3. QED
    BY <1>1, <2>1, <2>2 DEF Field
<1>2. CASE i = 9
  <2>1. 2^9 = 512 /\ 2^1 = 2
    OBVIOUS
  <2>2. PICK q \in Int : q = d \div 512
    OBVIOUS
  <2>3. QED
    BY <1>2, <2>1, <2>2 DEF Field
<1>3. QED
  BY <1>1, <1>2

TurnHeap(h, f) == IF f.this_find # NULL THEN MoveNextToFront(h, f.prev, f.this_find) ELSE h
\* The list that a turn of the find loop ends with.
UsedOrder(u, w, n) ==
    \/ u = Reversed(w, n)
    \/ \E k \in 2 .. n : u = Moved(Reversed(w, n), n, k, 2)
LEMMA UsedList ==
    ASSUME NEW n \in Nat, n >= 3, NEW h \in HeapOf(n + 1), NEW f, NEW w, NEW c,
           ReverseAt(h, f, w, n, c), f.cur = NULL, f.this_find \in Addr(n) \cup {NULL},
           NEW g, g = TurnHeap(h, f)
    PROVE  /\ \E u : UsedOrder(u, w, n) /\ ListAt(g, u, n, f.prev)
           /\ g \in HeapOf(n + 1) /\ g.info = h.info /\ g.data = h.data /\ g.next[n] = h.next[n]
           /\ f.prev \in Addr(n) /\ h.next[f.prev] \in Addr(n)
<1>1. ListAt(h, Reversed(w, n), n, f.prev)
  BY EndReverse
<1>2. PICK v : v = Reversed(w, n)
  OBVIOUS
<1>3. ListAt(h, v, n, f.prev)
  BY <1>1, <1>2
<1>4. Arranged(v, n) /\ v[1] = f.prev /\ h.next[v[1]] = v[2]
  <2>1. 1 \in 1 .. n - 1 /\ 1 + 1 = 2
    OBVIOUS
  <2>2. QED
    BY <1>3, <2>1 DEF ListAt, Chained
<1>5. v[1] \in Addr(n) /\ v[2] \in Addr(n)
  <2>1. 1 \in 1 .. n /\ 2 \in 1 .. n
    OBVIOUS
  <2>2. QED
    BY <1>4, <2>1, ArrangedIs
<1>6. CASE f.this_find = NULL
  <2>1. UsedOrder(v, w, n) /\ ListAt(g, v, n, f.prev) /\ g = h
    BY <1>2, <1>3, <1>6 DEF TurnHeap, UsedOrder
  <2>2. QED
    BY <1>4, <1>5, <2>1
<1>7. CASE f.this_find # NULL
  <2>1. PICK j \in 1 .. n : v[j] = f.this_find
    BY <1>4, <1>7 DEF Arranged
  <2>2. g = MoveNextToFront(h, f.prev, v[j])
    BY <1>7, <2>1 DEF TurnHeap
  <2>3. PICK u : u = IF j < n THEN Moved(v, n, j + 1, 2) ELSE v
    OBVIOUS
  <2>4. /\ g \in HeapOf(n + 1) /\ g.info = h.info /\ g.data = h.data
        /\ ListAt(g, u, n, f.prev) /\ g.next[n] = h.next[n]
    BY <1>3, <2>2, <2>3, MoveNextIs
  <2>5. UsedOrder(u, w, n)
    <3>1. CASE j < n
      <4>1. PICK k \in 2 .. n : k = j + 1
        BY <3>1
      <4>2. QED
        BY <1>2, <2>3, <3>1, <4>1 DEF UsedOrder
    <3>2. CASE ~ (j < n)
      BY <1>2, <2>3, <3>2 DEF UsedOrder
    <3>3. QED
      BY <3>1, <3>2
  <2>6. QED
    BY <1>4, <1>5, <2>4, <2>5
<1>8. QED
  BY <1>6, <1>7

LEMMA UseFoundKeeps == ASSUME InputInv, ListInv, UseFound, BeforeStep PROVE ListInv'
<1>1. PICK w, r : OrderInv(w, r) /\ PastInv(w, r)
  BY DEF ListInv
<1>2. ControlInv /\ HeapInv /\ fr \in Frame
  BY DEF ListInv, ControlInv
<1>3. pc = "reverse" /\ fr.cur = NULL /\ pc' = "find" /\ in' = in /\ res' = res /\ ms' = ms /\ st' = st
  BY DEF UseFound
<1>4. Nodes' = Nodes /\ Nodes \in Nat /\ Nodes >= 3
  BY <1>3, NodesNext, InputFacts
<1>5. PICK hit : hit = (fr.this_find # NULL)
  OBVIOUS
<1>6. PICK data : data = Info(heap, IF hit THEN fr.this_find ELSE heap.next[fr.prev]).data16
  OBVIOUS
<1>7. PICK add : add = IF hit THEN IF data % 2 = 1 THEN Field(data, 9, 1) ELSE 0
                             ELSE Field(data, 8, 1)
  OBVIOUS
<1>8. /\ fr' = [fr EXCEPT !.list = fr.prev, !.i = @ + 1, !.retval = U16(@ + add),
                          !.found = IF hit THEN @ + 1 ELSE @,
                          !.missed = IF hit THEN @ ELSE @ + 1]
      /\ heap' = IF hit THEN MoveNextToFront(heap, fr.prev, fr.this_find) ELSE heap
  BY <1>5, <1>6, <1>7 DEF UseFound
<1>9. PICK c : ReverseAt(heap, fr, w, Nodes, c)
  BY <1>1, <1>3 DEF OrderInv
<1>10. fr.this_find \in Addr(Nodes) \cup {NULL}
  BY <1>1, <1>3 DEF OrderInv
<1>11. heap \in HeapOf(Nodes + 1)
  BY <1>2 DEF HeapInv
<1>12. /\ \E u : ListAt(heap', u, Nodes, fr.prev)
       /\ heap' \in HeapOf(Nodes + 1) /\ heap'.info = heap.info /\ heap'.data = heap.data
       /\ heap'.next[Nodes] = heap.next[Nodes]
       /\ fr.prev \in Addr(Nodes) /\ heap.next[fr.prev] \in Addr(Nodes)
  <2>1. heap' = TurnHeap(heap, fr)
    BY <1>5, <1>8 DEF TurnHeap
  <2>2. QED
    BY <1>3, <1>4, <1>9, <1>10, <1>11, <2>1, UsedList
<1>13. PICK u : ListAt(heap', u, Nodes, fr.prev)
  BY <1>12
<1>14. add \in Int
  <2>1. PICK x : x = IF hit THEN fr.this_find ELSE heap.next[fr.prev]
    OBVIOUS
  <2>2. x \in Addr(Nodes)
    BY <1>5, <1>10, <1>12, <2>1
  <2>3. x \in Addr(Nodes + 1)
    BY <1>4, <2>2 DEF Addr
  <2>4. heap.info[x] \in Addr(Nodes + 1)
    BY <1>11, <2>3, HeapPointers
  <2>5. heap.data[heap.info[x]] \in Datum
    BY <1>11, <2>4, HeapPointers
  <2>6. data \in Int
    BY <1>6, <2>1, <2>5 DEF Info, Datum
  <2>7. Field(data, 8, 1) \in Int /\ Field(data, 9, 1) \in Int
    BY <2>6, AddType
  <2>8. QED
    BY <1>7, <2>7
<1>15. /\ fr' \in Frame /\ fr'.list = fr.prev /\ fr'.i # 0
  <2>1. /\ fr.retval \in Word16 /\ fr.found \in Int /\ fr.missed \in Int /\ fr.prev \in Int
    BY <1>2 DEF Frame
  <2>2. PICK y \in Int : y = fr.retval + add
    BY <1>14, <2>1, Word16Is
  <2>3. PICK v \in Word16 : v = U16(y)
    BY ModWord16
  <2>4. PICK f \in Int : f = IF hit THEN fr.found + 1 ELSE fr.found
    BY <2>1
  <2>5. PICK m \in Int : m = IF hit THEN fr.missed ELSE fr.missed + 1
    BY <2>1
  <2>6. PICK l \in Int : l = fr.prev
    BY <2>1
  <2>7. fr' = UsedOf(fr, l, v, f, m)
    BY <1>8, <2>2, <2>3, <2>4, <2>5, <2>6 DEF UsedOf
  <2>8. QED
    BY <1>2, <2>6, <2>7, UsedFrame
<1>16. ControlInv'
  BY <1>2, <1>3, <1>15 DEF ControlInv, Sorting, Scanning
<1>17. HeapInv'
  BY <1>2, <1>3, <1>4, <1>12 DEF HeapInv, DataKept, OwnData
<1>18. OrderInv(u, r)'
  BY <1>3, <1>4, <1>13, <1>15 DEF OrderInv, Listed, Ready, Merging, Root
<1>19. PastInv(u, r)'
  <2>1. Whole(heap', u, Nodes, Root')
    BY <1>3, <1>4, <1>13, <1>15, <1>17 DEF Whole, HeapInv, Root, OwnData
  <2>2. Listed' /\ res' \in Results
    BY <1>2, <1>3 DEF Listed, ControlInv
  <2>3. QED
    BY <1>4, <2>1, <2>2, PastListed
<1>20. QED
  BY <1>16, <1>17, <1>18, <1>19 DEF ListInv

-----------------------------------------------------------------------------
(* core_list_init.                                                          *)
LEMMA NextI ==
    ASSUME fr \in Frame, NEW e, e = [fr EXCEPT !.i = @ + 1]
    PROVE  e \in Frame /\ e.i = fr.i + 1 /\ fr.i \in Nat
<1>1. PICK i \in Nat : i = fr.i + 1
  BY DEF Frame
<1>2. e = [fr EXCEPT !.i = i]
  BY <1>1
<1>3. e \in Frame /\ e.i = i /\ fr.i \in Nat
  BY <1>2 DEF Frame
<1>4. QED
  BY <1>1, <1>3

LEMMA InitItemKeeps == ASSUME InputInv, ListInv, InitItem, BeforeStep PROVE ListInv'
<1>1. PICK w, r : OrderInv(w, r) /\ PastInv(w, r)
  BY DEF ListInv
<1>2. ControlInv /\ HeapInv /\ fr \in Frame
  BY DEF ListInv, ControlInv
<1>3. /\ pc = "items" /\ pc' = pc /\ in' = in /\ res' = res /\ ms' = ms /\ st' = st
      /\ fr' = [fr EXCEPT !.i = @ + 1]
      /\ heap' = core_list_insert_new(heap, fr.i + 2, 0, Item(in.seed1, fr.i), Size)
  BY DEF InitItem
<1>4. /\ Nodes' = Nodes /\ Nodes \in Nat /\ Nodes >= 3 /\ Size = Nodes + 1 /\ in.seed1 \in Int
  BY <1>3, NodesNext, InputFacts
<1>5. fr' \in Frame /\ fr'.i = fr.i + 1 /\ fr.i \in Nat
  BY <1>2, <1>3, NextI
<1>6. Built(heap, Nodes, in.seed1, Min2(fr.i + 2, Nodes))
  BY <1>1, <1>3 DEF OrderInv
<1>7. Built(heap', Nodes, in.seed1, Min2((fr.i + 1) + 2, Nodes))
  <2>1. PICK n \in Nat : n = Nodes
    BY <1>4
  <2>2. PICK i \in Nat : i = fr.i
    BY <1>5
  <2>3. PICK h : h = heap
    OBVIOUS
  <2>4. PICK g : g = heap'
    OBVIOUS
  <2>5. PICK s \in Int : s = in.seed1
    BY <1>4
  <2>6. Built(h, n, s, Min2(i + 2, n)) /\ n >= 3
    BY <1>4, <1>6, <2>1, <2>2, <2>3, <2>5
  <2>7. g = core_list_insert_new(h, i + 2, 0, Item(s, i), n + 1)
    BY <1>3, <1>4, <2>1, <2>2, <2>3, <2>4, <2>5
  <2>8. Built(g, n, s, Min2((i + 1) + 2, n))
    BY <2>6, <2>7, ItemBuilt
  <2>9. QED
    BY <2>1, <2>2, <2>4, <2>5, <2>8
<1>8. ControlInv'
  BY <1>2, <1>3, <1>5 DEF ControlInv, Sorting, Scanning
<1>9. HeapInv'
  BY <1>3, <1>4, <1>7 DEF HeapInv, Built, OwnData
<1>10. OrderInv(w, r)'
  BY <1>3, <1>4, <1>5, <1>7 DEF OrderInv, Listed, Ready, Merging
<1>11. PastInv(w, r)'
  BY <1>3 DEF PastInv, Building
<1>12. QED
  BY <1>8, <1>9, <1>10, <1>11 DEF ListInv

\* The places of the nodes in an order.
LEMMA InverseRank ==
    ASSUME NEW n \in Nat, NEW w, Arranged(w, n)
    PROVE  \E r : /\ Ranks(r, n) /\ \A i \in 1 .. n : r[w[i]] = i
                  /\ \A i \in 1 .. n : \E x \in Addr(n) : r[x] = i
<1> DEFINE r == [x \in Addr(n) |-> CHOOSE i \in 1 .. n : w[i] = x]
<1>1. \A x \in Addr(n) : r[x] \in 1 .. n /\ w[r[x]] = x
  BY DEF Arranged
<1>2. r \in [Addr(n) -> 1 .. n]
  BY <1>1
<1> HIDE DEF r
<1>3. \A i \in 1 .. n : w[i] \in Addr(n) /\ r[w[i]] = i
  BY <1>1 DEF Arranged
<1>4. QED
  BY <1>2, <1>3 DEF Ranks

LEMMA EndItemsKeeps == ASSUME InputInv, ListInv, EndItems, BeforeStep PROVE ListInv'
<1>1. PICK w, r : OrderInv(w, r) /\ PastInv(w, r)
  BY DEF ListInv
<1>2. ControlInv /\ HeapInv /\ fr \in Frame
  BY DEF ListInv, ControlInv
<1>3. /\ pc = "items" /\ pc' = "pass" /\ in' = in /\ res' = res /\ ms' = ms /\ st' = st
      /\ fr' = NoFrame /\ fr.i = Size /\ heap' = IndexItems(heap, Size, in.seed1)
  BY DEF EndItems
<1>4. /\ Nodes' = Nodes /\ Nodes \in Nat /\ Nodes >= 3 /\ Size = Nodes + 1 /\ in.seed1 \in Int
  BY <1>3, NodesNext, InputFacts
<1>5. ms = SortStart(0, "idx", "cells")
  BY <1>2, <1>3 DEF ControlInv
<1>6. Built(heap, Nodes, in.seed1, Nodes)
  <2>1. Min2(Size + 2, Nodes) = Nodes
    BY <1>4 DEF Min2
  <2>2. QED
    BY <1>1, <1>3, <2>1 DEF OrderInv
<1>7. /\ heap' \in HeapOf(Nodes + 1) /\ heap'.next = heap.next /\ heap'.info = heap.info
      /\ \A x \in Addr(Nodes) : heap'.data[x] = Base(Nodes, in.seed1, x)
  BY <1>3, <1>4, <1>6, IndexItemsIs
<1>8. ListAt(heap', BuiltOrder(Nodes), Nodes, 0)
  BY <1>4, <1>6, <1>7, BuiltList DEF ListAt, Chained
<1>9. PICK v : v = BuiltOrder(Nodes)
  OBVIOUS
<1>10. PICK q : Ranks(q, Nodes) /\ \A i \in 1 .. Nodes : q[v[i]] = i
  BY <1>4, <1>8, <1>9, InverseRank DEF ListAt
<1>11. PassState(heap', ms', q, v, Nodes)
  BY <1>3, <1>4, <1>5, <1>8, <1>9, <1>10, StartPass
<1>12. ControlInv'
  <2>1. ms.cmp = "idx" /\ ms.after = "cells"
    BY <1>5 DEF SortStart
  <2>2. QED
    BY <1>2, <1>3, <2>1, NoFrameType DEF ControlInv, Sorting, Scanning
<1>13. HeapInv'
  <2>1. heap.next[Nodes] = NULL /\ \A x \in Addr(Nodes + 1) : heap.info[x] = x
    BY <1>4, <1>6 DEF Built
  <2>2. \A x \in Addr(Nodes) : Alike(heap'.data[x], Base(Nodes, in.seed1, x))
    BY <1>7 DEF Alike
  <2>3. QED
    BY <1>3, <1>4, <1>7, <2>1, <2>2 DEF HeapInv, DataKept, OwnData
<1>14. OrderInv(v, q)'
  BY <1>3, <1>4, <1>11 DEF OrderInv, Listed, Ready, Merging
<1>15. PastInv(v, q)'
  BY <1>3, <1>5 DEF PastInv, Building, SortStart
<1>16. QED
  BY <1>12, <1>13, <1>14, <1>15 DEF ListInv

-----------------------------------------------------------------------------
(* The end of the finds, and the sorts of core_bench_list beginning.        *)
LEMMA RankedStart ==
    ASSUME NEW n \in Nat, NEW h \in HeapOf(n + 1), NEW w, Arranged(w, n), NEW r, Ranks(r, n),
           \A i \in 1 .. n : r[w[i]] = i, NEW cmp, NEW b, b = [i \in 1 .. n |-> h.data[w[i]]]
    PROVE  Ranked(b, h.data, r, n, cmp)
<1>1. \A i \in 1 .. n : w[i] \in Addr(n) /\ w[i] \in Addr(n + 1)
  BY ArrangedIs
<1>2. \A i \in 1 .. n : h.data[w[i]] \in Datum
  BY <1>1, HeapPointers
<1>3. b \in [1 .. n -> Datum]
  BY <1>2
<1>4. \A i \in 1 .. n : \E x \in Addr(n) : r[x] = i
  BY <1>1
<1>5. ASSUME NEW x \in Addr(n) PROVE b[r[x]] = h.data[x]
  <2>1. PICK i \in 1 .. n : w[i] = x
    BY DEF Arranged
  <2>2. r[x] = i
    BY <2>1
  <2>3. QED
    BY <2>1, <2>2
<1>6. QED
  BY <1>3, <1>4, <1>5 DEF Ranked, Alike

\* A sort of the whole list begins.
LEMMA SortBegins ==
    ASSUME InputInv, NEW n \in Nat, n >= 3, Nodes' = n, NEW w, Whole(heap', w, n, fr'.list),
           NEW cmp \in {"idx", "data"}, NEW after, after # "cells",
           ms' = SortStart(fr'.list, cmp, after), pc' = "pass", ~ Busy, BeforeStep
    PROVE  \E r : OrderInv(w, r)' /\ PastInv(w, r)'
<1>1. heap' \in HeapOf(n + 1) /\ ListAt(heap', w, n, fr'.list) /\ Arranged(w, n)
  BY DEF Whole, ListAt
<1>2. PICK r : Ranks(r, n) /\ \A i \in 1 .. n : r[w[i]] = i
  BY <1>1, InverseRank
<1>3. PassState(heap', ms', r, w, n)
  BY <1>1, <1>2, StartPass
<1>4. OrderInv(w, r)'
  BY <1>3 DEF OrderInv, Listed, Ready, Merging
<1>5. ms'.cmp = cmp /\ ms'.after = after
  BY DEF SortStart
<1>6. before' = Items' \/ Building'
  BY DEF BeforeStep
<1>7. ~ Building'
  BY <1>5 DEF Building
<1>8. Items' = [i \in 1 .. n |-> heap'.data[w[i]]]
  <2>1. PICK first : first = fr'.list
    OBVIOUS
  <2>2. first = (IF pc' \in {"iterate", "done"} THEN res'.list ELSE fr'.list)
    BY <2>1
  <2>3. Whole(heap', w, n, first)
    BY <2>1
  <2>4. QED
    BY <2>2, <2>3, ItemsNext
<1>9. Ranked(before', heap'.data, r, n, cmp)
  BY <1>1, <1>2, <1>6, <1>7, <1>8, RankedStart
<1>10. PastInv(w, r)'
  BY <1>5, <1>9 DEF PastInv, Listed, Sorting
<1>11. QED
  BY <1>4, <1>10

LEMMA RetvalFrame ==
    ASSUME fr \in Frame, NEW v \in Word16, NEW e, e = [fr EXCEPT !.retval = v]
    PROVE  e \in Frame /\ e.list = fr.list /\ e.i = fr.i /\ e.finder_idx = fr.finder_idx
BY DEF Frame

LEMMA EndFindKeeps == ASSUME InputInv, ListInv, EndFind, BeforeStep PROVE ListInv'
<1>1. PICK w, r : OrderInv(w, r) /\ PastInv(w, r)
  BY DEF ListInv
<1>2. ControlInv /\ HeapInv /\ fr \in Frame
  BY DEF ListInv, ControlInv
<1>3. /\ pc = "find" /\ in' = in /\ res' = res /\ heap' = heap /\ st' = st
      /\ fr' = [fr EXCEPT !.retval = U16(@ + 4 * fr.found - fr.missed)]
      /\ \/ /\ fr.finder_idx > 0 /\ pc' = "pass" /\ ms' = SortStart(fr.list, "data", "remove")
         \/ pc' = "remove" /\ ms' = ms
  BY DEF EndFind
<1>4. Nodes' = Nodes /\ Nodes \in Nat /\ Nodes >= 3
  BY <1>3, NodesNext, InputFacts
<1>5. fr' \in Frame /\ fr'.list = fr.list /\ fr'.i = fr.i /\ fr'.finder_idx = fr.finder_idx
  <2>1. fr.retval \in Word16 /\ fr.found \in Int /\ fr.missed \in Int
    BY <1>2 DEF Frame
  <2>2. PICK y \in Int : y = fr.retval + 4 * fr.found - fr.missed
    BY <2>1, Word16Is
  <2>3. PICK v \in Word16 : v = U16(y)
    BY ModWord16
  <2>4. fr' = [fr EXCEPT !.retval = v]
    BY <1>3, <2>2, <2>3
  <2>5. QED
    BY <1>2, <2>4, RetvalFrame
<1>6. Whole(heap', w, Nodes, fr'.list)
  BY <1>1, <1>2, <1>3, <1>5, WholeListed DEF Listed, Root
<1>7. CASE fr.finder_idx > 0 /\ pc' = "pass" /\ ms' = SortStart(fr.list, "data", "remove")
  <2>1. fr'.list \in Int
    BY <1>5 DEF Frame
  <2>2. ms' \in SortState /\ ms'.cmp = "data" /\ ms'.after = "remove"
    BY <1>5, <1>7, <2>1, SortStartType DEF SortStart
  <2>3. ControlInv'
    BY <1>2, <1>3, <1>5, <1>7, <2>2 DEF ControlInv, Sorting, Scanning
  <2>4. HeapInv'
    BY <1>2, <1>3, <1>4, <1>7 DEF HeapInv, DataKept, OwnData
  <2>5. \E q : OrderInv(w, q)' /\ PastInv(w, q)'
    <3>1. ~ Busy
      BY <1>3 DEF Busy, Sorting
    <3>2. ms' = SortStart(fr'.list, "data", "remove")
      BY <1>5, <1>7
    <3>3. QED
      BY <1>4, <1>6, <1>7, <3>1, <3>2, SortBegins
  <2>6. QED
    BY <2>3, <2>4, <2>5 DEF ListInv
<1>8. CASE pc' = "remove" /\ ms' = ms
  <2>1. ControlInv'
    BY <1>2, <1>3, <1>5, <1>8 DEF ControlInv, Sorting, Scanning
  <2>2. Listed /\ Listed' /\ Root' = Root /\ (Ready' => Ready) /\ res' \in Results
    BY <1>2, <1>3, <1>5, <1>8 DEF Listed, Root, Ready, ControlInv
  <2>3. HeapInv' /\ OrderInv(w, r)' /\ PastInv(w, r)'
    BY <1>1, <1>2, <1>3, <2>2, ListedKept
  <2>4. QED
    BY <2>1, <2>3 DEF ListInv
<1>9. QED
  BY <1>3, <1>7, <1>8

-----------------------------------------------------------------------------
(* Removing the second item, and undoing it.                                *)
LEMMA RemoveKeeps == ASSUME InputInv, ListInv, Remove, BeforeStep PROVE ListInv'
<1>1. PICK w, r : OrderInv(w, r) /\ PastInv(w, r)
  BY DEF ListInv
<1>2. ControlInv /\ HeapInv /\ fr \in Frame
  BY DEF ListInv, ControlInv
<1>3. PICK h : h = core_list_remove(heap, heap.next[fr.list])
  OBVIOUS
<1>4. PICK f : f = core_list_find(h, fr.list, LastWanted)
  OBVIOUS
<1>5. PICK m : m = IF f = NULL THEN h.next[fr.list] ELSE f
  OBVIOUS
<1>6. /\ pc = "remove" /\ pc' = "undo" /\ in' = in /\ res' = res /\ ms' = ms /\ st' = st
      /\ heap' = h
      /\ fr' = [fr EXCEPT !.remover = removed_cell(heap, heap.next[fr.list]),
                          !.retval = CrcFrom(h, fr.list, m, @)]
  BY <1>3, <1>4, <1>5 DEF Remove
<1>7. Nodes' = Nodes /\ Nodes \in Nat /\ Nodes >= 3
  BY <1>6, NodesNext, InputFacts
<1>8. Whole(heap, w, Nodes, fr.list)
  BY <1>1, <1>2, <1>6, WholeListed DEF Listed, Root
<1>9. /\ w[1] = fr.list /\ heap.next[w[1]] = w[2] /\ heap.next[w[2]] = w[3]
      /\ w[1] # w[2] /\ w[1] # w[3]
      /\ w[1] \in Addr(Nodes) /\ w[1] \in Addr(Nodes + 1) /\ w[3] \in Addr(Nodes + 1)
      /\ w[2] \in Addr(Nodes + 1) /\ w[2] \in Addr(Nodes)
      /\ w[2] # Nodes /\ w[3] # Nodes
  BY <1>7, <1>8, FirstThree
<1>10. h \in HeapOf(Nodes + 1) /\ Unlinked(h, heap, w[2], w[3])
  <2>1. h = core_list_remove(heap, w[2])
    BY <1>3, <1>9
  <2>2. QED
    BY <1>7, <1>8, <2>1, RemoveIs
<1>11. heap \in HeapOf(Nodes + 1)
  BY <1>2 DEF HeapInv
<1>12. CrcFrom(h, fr.list, m, fr.retval) \in Word16
  <2>1. Pointers(heap, Nodes + 1) /\ Pointers(h, Nodes + 1)
    BY <1>10, <1>11, HeapPointers
  <2>2. f \in Addr(Nodes) \cup {NULL}
    BY <1>4, <1>7, <1>8, <1>10, FindRemoved
  <2>3. f \in Addr(Nodes + 1) \cup {NULL}
    BY <1>7, <2>2 DEF Addr
  <2>4. h.next[fr.list] \in Addr(Nodes + 1) \cup {NULL}
    BY <1>9, <2>1 DEF Pointers
  <2>5. m \in Addr(Nodes + 1) \cup {NULL}
    BY <1>5, <2>3, <2>4
  <2>6. Info(h, fr.list).data16 \in Int
    <3>1. h.info[fr.list] \in Addr(Nodes + 1)
      BY <1>9, <1>10, HeapPointers
    <3>2. h.data[h.info[fr.list]] \in Datum
      BY <1>10, <3>1, HeapPointers
    <3>3. QED
      BY <3>2 DEF Info, Datum
  <2>7. fr.retval \in Word16
    BY <1>2 DEF Frame
  <2>8. PICK z \in Nat : z = Nodes + 1
    BY <1>7
  <2>9. QED
    BY <2>1, <2>5, <2>6, <2>7, <2>8, CrcFromType
<1>13. fr' \in Frame /\ fr'.list = fr.list /\ fr'.remover = w[3]
  <2>1. PICK v \in Word16 : v = CrcFrom(h, fr.list, m, fr.retval)
    BY <1>12
  <2>2. PICK x \in Int : x = w[3]
    BY <1>7, <1>9 DEF Addr
  <2>3. fr' = [fr EXCEPT !.remover = x, !.retval = v]
    BY <1>6, <1>9, <2>1, <2>2 DEF removed_cell
  <2>4. PICK e : e = fr'
    OBVIOUS
  <2>5. e = [fr EXCEPT !.remover = x, !.retval = v]
    BY <2>3, <2>4
  <2>6. e \in Frame /\ e.list = fr.list /\ e.remover = x
    BY <1>2, <2>5 DEF Frame
  <2>7. QED
    BY <2>2, <2>4, <2>6
<1>14. ControlInv'
  BY <1>2, <1>6, <1>13 DEF ControlInv, Sorting, Scanning
<1>15. HeapInv'
  <2>1. Nodes \in Addr(Nodes + 1)
    BY <1>7 DEF Addr
  <2>2. h.next = [heap.next EXCEPT ![w[2]] = heap.next[w[3]], ![w[3]] = NULL] /\ h.data = heap.data
    BY <1>10 DEF Unlinked
  <2>3. h.next[Nodes] = heap.next[Nodes]
    BY <1>9, <1>11, <2>1, <2>2, HeapPointers DEF Pointers
  <2>4. QED
    BY <1>2, <1>6, <1>7, <1>10, <2>2, <2>3 DEF HeapInv, DataKept
<1>16. OrderInv(w, r)'
  <2>1. Removed(w)'
    BY <1>6, <1>7, <1>8, <1>10, <1>13 DEF Removed
  <2>2. QED
    BY <1>6, <2>1 DEF OrderInv, Listed, Ready, Merging
<1>17. PastInv(w, r)'
  <2>1. before' = Items' \/ Building'
    BY <1>6 DEF BeforeStep, Busy, Sorting
  <2>2. ~ Building'
    BY <1>6 DEF Building
  <2>3. Max' = Nodes + 1
    <3>1. Pointers(heap', Nodes + 1)
      BY <1>6, <1>10, HeapPointers
    <3>2. PICK z \in Nat : z = Nodes + 1
      BY <1>7
    <3>3. QED
      BY <3>1, <3>2, MaxNext
  <2>4. Contents(h, fr.list, Nodes + 1) = [i \in 1 .. Nodes - 1 |-> heap.data[KeptItem(w, i)]]
    BY <1>7, <1>8, <1>10, RemovedContents
  <2>5. heap'.data = heap.data
    BY <1>6, <1>10 DEF Unlinked
  <2>6. before' = [i \in 1 .. Nodes - 1 |-> heap'.data[KeptItem(w, i)]]
    BY <1>6, <1>13, <2>1, <2>2, <2>3, <2>4, <2>5 DEF Items
  <2>7. QED
    BY <1>6, <1>7, <2>6 DEF PastInv, Listed, Sorting
<1>18. QED
  BY <1>14, <1>15, <1>16, <1>17 DEF ListInv

LEMMA UndoKeeps == ASSUME InputInv, ListInv, Undo, BeforeStep PROVE ListInv'
<1>1. PICK w, r : OrderInv(w, r) /\ PastInv(w, r)
  BY DEF ListInv
<1>2. ControlInv /\ HeapInv /\ fr \in Frame
  BY DEF ListInv, ControlInv
<1>3. /\ pc = "undo" /\ pc' = "pass" /\ in' = in /\ res' = res /\ fr' = fr /\ st' = st
      /\ heap' = core_list_undo_remove(heap, fr.remover, heap.next[fr.list])
      /\ ms' = SortStart(fr.list, "idx", "check")
  BY DEF Undo
<1>4. Nodes' = Nodes /\ Nodes \in Nat /\ Nodes >= 3
  BY <1>3, NodesNext, InputFacts
<1>5. PICK h : Whole(h, w, Nodes, fr.list) /\ Unlinked(heap, h, w[2], w[3]) /\ fr.remover = w[3]
  BY <1>1, <1>3 DEF OrderInv, Removed
<1>6. /\ w[1] = fr.list /\ h.next[w[1]] = w[2]
      /\ w[1] # w[2] /\ w[1] # w[3] /\ w[1] \in Addr(Nodes + 1)
  BY <1>4, <1>5, FirstThree
<1>7. h \in HeapOf(Nodes + 1) /\ heap \in HeapOf(Nodes + 1)
  BY <1>2, <1>5 DEF HeapInv, Whole
<1>8. heap.next[fr.list] = w[2]
  <2>1. heap.next = [h.next EXCEPT ![w[2]] = h.next[w[3]], ![w[3]] = NULL]
    BY <1>5 DEF Unlinked
  <2>2. QED
    BY <1>6, <1>7, <2>1, HeapPointers DEF Pointers
<1>9. heap' = h
  <2>1. PICK e : e = heap'
    OBVIOUS
  <2>2. PICK g : g = heap
    OBVIOUS
  <2>3. e = core_list_undo_remove(g, w[3], w[2])
    BY <1>3, <1>5, <1>8, <2>1, <2>2
  <2>4. e = h
    BY <1>4, <1>5, <1>7, <2>2, <2>3, UndoIs
  <2>5. QED
    BY <2>1, <2>4
<1>10. Whole(heap', w, Nodes, fr'.list) /\ heap'.data = heap.data
  BY <1>3, <1>5, <1>9 DEF Unlinked
<1>11. fr'.list \in Int
  BY <1>2, <1>3 DEF Frame
<1>12. ms' \in SortState /\ ms'.cmp = "idx" /\ ms'.after = "check"
  BY <1>3, <1>11, SortStartType DEF SortStart
<1>13. ControlInv'
  BY <1>2, <1>3, <1>12 DEF ControlInv, Sorting, Scanning
<1>14. HeapInv'
  BY <1>2, <1>3, <1>4, <1>10 DEF HeapInv, DataKept, OwnData, Whole
<1>15. \E q : OrderInv(w, q)' /\ PastInv(w, q)'
  <2>1. ~ Busy
    BY <1>3 DEF Busy, Sorting
  <2>2. ms' = SortStart(fr'.list, "idx", "check")
    BY <1>3
  <2>3. QED
    BY <1>3, <1>4, <1>10, <2>1, <2>2, SortBegins
<1>16. QED
  BY <1>13, <1>14, <1>15 DEF ListInv

-----------------------------------------------------------------------------
(* The end of core_bench_list.                                              *)
LEMMA CheckKeeps == ASSUME InputInv, ListInv, Check, BeforeStep PROVE ListInv'
<1>1. PICK w, r : OrderInv(w, r) /\ PastInv(w, r)
  BY DEF ListInv
<1>2. ControlInv /\ HeapInv /\ fr \in Frame /\ res \in Results
  BY DEF ListInv, ControlInv
<1>3. PICK crc : crc = crcu16(CrcFrom(heap, fr.list, heap.next[fr.list], fr.retval), res.crc)
  OBVIOUS
<1>4. /\ pc = "check" /\ in' = in /\ heap' = heap /\ ms' = ms /\ st' = st
      /\ \/ StartBench(-1) /\ res' = [res EXCEPT !.crc = crc]
         \/ /\ res' = [res EXCEPT !.crc = crc, !.i = @ + 1,
                                  !.crclist = IF res.i = 0 THEN crc ELSE @]
            /\ pc' = "iterate" /\ fr' = NoFrame
  BY <1>3 DEF Check
<1>5. Nodes \in Nat /\ Nodes >= 3
  BY InputFacts
<1>6. crc \in Word16
  <2>1. Whole(heap, w, Nodes, fr.list)
    BY <1>1, <1>2, <1>4, WholeListed DEF Listed, Root
  <2>2. fr.list \in Addr(Nodes + 1) /\ heap \in HeapOf(Nodes + 1)
    BY <1>5, <2>1, FirstThree DEF Whole
  <2>3. Pointers(heap, Nodes + 1)
    BY <2>2, HeapPointers
  <2>4. heap.next[fr.list] \in Addr(Nodes + 1) \cup {NULL}
    BY <2>2, <2>3 DEF Pointers
  <2>5. Info(heap, fr.list).data16 \in Int
    <3>1. heap.info[fr.list] \in Addr(Nodes + 1)
      BY <2>2, HeapPointers
    <3>2. heap.data[heap.info[fr.list]] \in Datum
      BY <2>2, <3>1, HeapPointers
    <3>3. QED
      BY <3>2 DEF Info, Datum
  <2>6. fr.retval \in Word16 /\ res.crc \in Word16
    BY <1>2 DEF Frame, Results
  <2>7. PICK z \in Nat : z = Nodes + 1
    BY <1>5
  <2>8. PICK v : v = CrcFrom(heap, fr.list, heap.next[fr.list], fr.retval)
    OBVIOUS
  <2>9. v \in Word16
    BY <2>3, <2>4, <2>5, <2>6, <2>7, <2>8, CrcFromType
  <2>10. v \in Int
    BY <2>9, Word16Is
  <2>11. QED
    BY <1>3, <2>6, <2>8, <2>10, Crc16Type
<1>7. res' \in Results
  <2>1. CASE res' = [res EXCEPT !.crc = crc]
    BY <1>2, <1>6, <2>1 DEF Results
  <2>2. CASE res' = [res EXCEPT !.crc = crc, !.i = @ + 1,
                                !.crclist = IF res.i = 0 THEN crc ELSE @]
    <3>1. PICK i \in Nat : i = res.i + 1
      BY <1>2 DEF Results
    <3>2. PICK c \in Word16 : c = IF res.i = 0 THEN crc ELSE res.crclist
      BY <1>2, <1>6 DEF Results
    <3>3. res' = [res EXCEPT !.crc = crc, !.i = i, !.crclist = c]
      BY <2>2, <3>1, <3>2
    <3>4. QED
      BY <1>2, <1>6, <3>1, <3>2, <3>3 DEF Results
  <2>3. QED
    BY <1>4, <2>1, <2>2
<1>8. /\ fr' \in Frame /\ fr'.list = 0 /\ pc' \in {"find", "iterate"}
  <2>1. CASE StartBench(-1)
    BY <1>2, <2>1, StartBenchType
  <2>2. CASE pc' = "iterate" /\ fr' = NoFrame
    BY <2>2, NoFrameType DEF NoFrame
  <2>3. QED
    BY <1>4, <2>1, <2>2
<1>9. ControlInv'
  BY <1>2, <1>4, <1>7, <1>8 DEF ControlInv, Sorting, Scanning
<1>10. HeapInv' /\ OrderInv(w, r)' /\ PastInv(w, r)'
  <2>1. Root = 0
    BY <1>1, <1>4 DEF OrderInv, Ready
  <2>2. Listed /\ Listed' /\ Root' = Root /\ (Ready' => Ready)
    BY <1>4, <1>8, <2>1 DEF Listed, Root, Ready
  <2>3. QED
    BY <1>1, <1>2, <1>4, <1>7, <2>2, ListedKept
<1>11. QED
  BY <1>9, <1>10 DEF ListInv

-----------------------------------------------------------------------------
(* The turns of core_list_mergesort.                                        *)
LEMMA SortStep ==
    ASSUME InputInv, NEW n \in Nat, n = Nodes, NEW w, NEW v, NEW r, ControlInv, HeapInv, OrderInv(w, r),
           PastInv(w, r), BeforeStep, Sorting, pc' \in {"pass", "merge"}, in' = in,
           ms' \in SortState, res' \in Results, fr' = fr, st' \in Scan,
           ms'.cmp = ms.cmp, ms'.after = ms.after,
           heap' \in HeapOf(n + 1), heap'.info = heap.info, heap'.next[n] = heap.next[n],
           \A x \in Addr(n) : Alike(heap'.data[x], heap.data[x]),
           \A x \in Addr(n) : Settled(heap.data[x], ms.cmp) => heap'.data[x] = heap.data[x],
           pc' = "pass" => PassState(heap', ms', r, v, n),
           pc' = "merge" => MergeState(heap', ms', r, v, n)
    PROVE  ListInv'
<1>1. Nodes' = n /\ Sorting'
  BY NodesNext DEF Sorting
<1>2. ControlInv'
  BY <1>1 DEF ControlInv, Scanning
<1>3. HeapInv'
  <2>1. heap.next[n] = NULL /\ DataKept(heap, n, in.seed1) /\ OwnData(heap, n)
    BY DEF HeapInv, Sorting
  <2>2. DataKept(heap', n, in.seed1)
    BY <2>1 DEF DataKept, Alike
  <2>3. QED
    BY <1>1, <2>1, <2>2 DEF HeapInv, OwnData
<1>4. OrderInv(v, r)'
  BY <1>1 DEF OrderInv, Listed, Ready, Merging
<1>5. PastInv(v, r)'
  <2> SUFFICES ASSUME ~ Building' PROVE Ranked(before', heap'.data, r, n, ms'.cmp)
    BY <1>1 DEF PastInv, Listed, Sorting
  <2>1. ~ Building
    BY DEF Building, Sorting
  <2>2. before' = before
    BY <1>1 DEF BeforeStep, Busy
  <2>3. Ranked(before, heap.data, r, n, ms.cmp)
    BY <2>1 DEF PastInv
  <2>4. ASSUME NEW x \in Addr(n)
        PROVE  /\ Alike(heap'.data[x], before[r[x]])
               /\ ms.cmp = "data" /\ Settled(before[r[x]], "data") => heap'.data[x] = before[r[x]]
    BY <2>3 DEF Ranked, Alike
  <2>5. QED
    BY <2>2, <2>3, <2>4 DEF Ranked
<1>6. QED
  BY <1>2, <1>3, <1>4, <1>5 DEF ListInv

LEMMA StartMergeKeeps == ASSUME InputInv, ListInv, StartMerge, BeforeStep PROVE ListInv'
<1>1. PICK w, r : OrderInv(w, r) /\ PastInv(w, r)
  BY DEF ListInv
<1>2. ControlInv /\ HeapInv /\ ms \in SortState /\ res \in Results /\ st \in Scan
  BY DEF ListInv, ControlInv
<1>3. /\ pc = "pass" /\ pc' = "merge" /\ ms.p # NULL
      /\ in' = in /\ res' = res /\ heap' = heap /\ st' = st /\ fr' = fr
      /\ ms' = RunStarted(ms, StepAlong(ms.p, ms.insize).q, StepAlong(ms.p, ms.insize).psize)
  BY DEF StartMerge, RunStarted
<1>4. PICK n \in Nat : n = Nodes /\ n >= 3
  BY InputFacts
<1>5. PassState(heap, ms, r, w, n) /\ heap \in HeapOf(n + 1)
  BY <1>1, <1>2, <1>3, <1>4 DEF OrderInv, HeapInv
<1>6. ms' \in SortState /\ ms'.cmp = ms.cmp /\ ms'.after = ms.after /\ MergeState(heap, ms', r, w, n)
  <2>1. PICK m : m = ms
    OBVIOUS
  <2>2. PICK e : e = ms'
    OBVIOUS
  <2>3. m \in SortState /\ PassState(heap, m, r, w, n) /\ m.p # NULL
    BY <1>2, <1>3, <1>5, <2>1
  <2>4. e = RunStarted(m, StepAlong(m.p, m.insize).q, StepAlong(m.p, m.insize).psize)
    BY <1>3, <2>1, <2>2
  <2>5. e \in SortState /\ e.cmp = m.cmp /\ e.after = m.after /\ MergeState(heap, e, r, w, n)
    BY <1>4, <1>5, <2>3, <2>4, StartMergeState
  <2>6. QED
    BY <2>1, <2>2, <2>5
<1>7. Sorting /\ \A x \in Addr(n) : Alike(heap'.data[x], heap.data[x])
  BY <1>3 DEF Sorting, Alike
<1>8. QED
  BY <1>1, <1>2, <1>3, <1>4, <1>5, <1>6, <1>7, SortStep

LEMMA NextRunKeeps == ASSUME InputInv, ListInv, NextRun, BeforeStep PROVE ListInv'
<1>1. PICK w, r : OrderInv(w, r) /\ PastInv(w, r)
  BY DEF ListInv
<1>2. ControlInv /\ HeapInv /\ ms \in SortState /\ res \in Results /\ st \in Scan
  BY DEF ListInv, ControlInv
<1>3. /\ pc = "merge" /\ pc' = "pass" /\ ms.psize = 0 /\ ~ (ms.qsize > 0 /\ ms.q # NULL)
      /\ in' = in /\ res' = res /\ heap' = heap /\ st' = st /\ fr' = fr
      /\ ms' = [ms EXCEPT !.p = ms.q]
  BY DEF NextRun, MoreInQ
<1>4. PICK n \in Nat : n = Nodes /\ n >= 3
  BY InputFacts
<1>5. MergeState(heap, ms, r, w, n) /\ heap \in HeapOf(n + 1)
  BY <1>1, <1>2, <1>3, <1>4 DEF OrderInv, HeapInv, Merging
<1>6. ms' \in SortState /\ ms'.cmp = ms.cmp /\ ms'.after = ms.after /\ PassState(heap, ms', r, w, n)
  <2>1. PICK m : m = ms
    OBVIOUS
  <2>2. PICK e : e = ms'
    OBVIOUS
  <2>3. m \in SortState /\ MergeState(heap, m, r, w, n) /\ m.psize = 0 /\ ~ (m.qsize > 0 /\ m.q # NULL)
    BY <1>2, <1>3, <1>5, <2>1
  <2>4. e = [m EXCEPT !.p = m.q]
    BY <1>3, <2>1, <2>2
  <2>5. e \in SortState /\ e.cmp = m.cmp /\ e.after = m.after /\ PassState(heap, e, r, w, n)
    BY <1>4, <1>5, <2>3, <2>4, NextRunState
  <2>6. QED
    BY <2>1, <2>2, <2>5
<1>7. Sorting /\ \A x \in Addr(n) : Alike(heap'.data[x], heap.data[x])
  BY <1>3 DEF Sorting, Alike
<1>8. QED
  BY <1>1, <1>2, <1>3, <1>4, <1>5, <1>6, <1>7, SortStep

LEMMA JoinedEnd ==
    ASSUME NEW n \in Nat, NEW h \in HeapOf(n + 1), NEW m, NEW r, NEW w, MergeState(h, m, r, w, n),
           NEW x \in Addr(n + 1), NEW g, g = Joined(h, m, x)
    PROVE  g.next[n] = h.next[n]
<1>1. PICK a \in 0 .. n : Arranged(w, n) /\ m.tail = TailOf(w, a)
  BY DEF MergeState, MergeAt
<1>2. a \in Nat /\ a <= n
  OBVIOUS
<1>3. /\ g \in HeapOf(n + 1) /\ g.info = h.info /\ g.data = h.data
      /\ \A y \in Addr(n + 1) : (a = 0 \/ y # w[a]) => g.next[y] = h.next[y]
      /\ a > 0 => g.next[w[a]] = x
  BY <1>1, JoinedIs
<1>4. a # 0 => w[a] # n
  BY <1>1, <1>2, ArrangedIs
<1>5. n \in Addr(n + 1)
  BY DEF Addr
<1>6. QED
  BY <1>3, <1>4, <1>5

\* What TakeP and TakeQ do, as operators on the state.
LEMMA TakeIs ==
    ASSUME NEW h
    PROVE  /\ TakeP(h) => heap' = Joined(h, ms, ms.p) /\ ms' = TookP(h, ms)
           /\ TakeQ(h) => heap' = Joined(h, ms, ms.q) /\ ms' = TookQ(h, ms)
BY DEF TakeP, TakeQ, Joined, TookP, TookQ

\* h is the heap the comparison left.
LEMMA TakeKeeps ==
    ASSUME InputInv, NEW n \in Nat, n = Nodes, n >= 3, NEW w, NEW r, ControlInv, HeapInv, OrderInv(w, r),
           PastInv(w, r), BeforeStep, pc = "merge", pc' = pc, in' = in, res' = res, fr' = fr, st' = st,
           NEW h \in HeapOf(n + 1), h.next = heap.next, h.info = heap.info,
           \A x \in Addr(n) : Alike(h.data[x], heap.data[x]),
           \A x \in Addr(n) : Settled(heap.data[x], ms.cmp) => h.data[x] = heap.data[x],
           MergeState(h, ms, r, w, n),
           \/ /\ TakeP(h) /\ ms.psize > 0
              /\ ms.qsize > 0 /\ ms.q # NULL => Ord(h.data, ms.cmp, r, ms.p, ms.q)
           \/ /\ TakeQ(h) /\ ms.qsize > 0 /\ ms.q # NULL
              /\ ms.psize > 0 => Ord(h.data, ms.cmp, r, ms.q, ms.p)
    PROVE  ListInv'
<1>1. Sorting /\ ms \in SortState /\ res' \in Results /\ st' \in Scan
  BY DEF Sorting, ControlInv
<1>2. ASSUME NEW v, heap' \in HeapOf(n + 1), heap'.info = h.info, heap'.data = h.data,
             heap'.next[n] = h.next[n], ms' \in SortState, ms'.cmp = ms.cmp, ms'.after = ms.after,
             MergeState(heap', ms', r, v, n)
      PROVE  ListInv'
  BY <1>1, <1>2, SortStep
<1>3. PICK m : m = ms
  OBVIOUS
<1>4. PICK e : e = ms'
  OBVIOUS
<1>5. PICK g : g = heap'
  OBVIOUS
<1>6. m \in SortState /\ MergeState(h, m, r, w, n)
  BY <1>1, <1>3
<1>7. /\ m.psize > 0 => m.p \in Addr(n + 1)
      /\ m.q # NULL => m.q \in Addr(n + 1)
  BY <1>6, MergeFacts
<1>8. CASE /\ TakeP(h) /\ ms.psize > 0
           /\ ms.qsize > 0 /\ ms.q # NULL => Ord(h.data, ms.cmp, r, ms.p, ms.q)
  <2>1. g = Joined(h, m, m.p) /\ e = TookP(h, m)
    BY <1>3, <1>4, <1>5, <1>8, TakeIs
  <2>2. m.psize > 0 /\ (m.qsize > 0 /\ m.q # NULL => Ord(h.data, m.cmp, r, m.p, m.q))
    BY <1>3, <1>8
  <2>3. /\ g \in HeapOf(n + 1) /\ g.info = h.info /\ g.data = h.data /\ e \in SortState
        /\ MergeState(g, e, r, w, n)
    BY <1>6, <2>1, <2>2, TakePState
  <2>4. g.next[n] = h.next[n]
    BY <1>6, <1>7, <2>1, <2>2, JoinedEnd
  <2>5. e.cmp = m.cmp /\ e.after = m.after
    BY <1>6, <2>1, TookPIs
  <2>6. QED
    BY <1>2, <1>3, <1>4, <1>5, <2>3, <2>4, <2>5
<1>9. CASE /\ TakeQ(h) /\ ms.qsize > 0 /\ ms.q # NULL
           /\ ms.psize > 0 => Ord(h.data, ms.cmp, r, ms.q, ms.p)
  <2>1. g = Joined(h, m, m.q) /\ e = TookQ(h, m)
    BY <1>3, <1>4, <1>5, <1>9, TakeIs
  <2>2. m.qsize > 0 /\ m.q # NULL /\ (m.psize > 0 => Ord(h.data, m.cmp, r, m.q, m.p))
    BY <1>3, <1>9
  <2>3. /\ g \in HeapOf(n + 1) /\ g.info = h.info /\ g.data = h.data /\ e \in SortState
        /\ \E v : MergeState(g, e, r, v, n)
    BY <1>6, <2>1, <2>2, TakeQState
  <2>4. PICK v : MergeState(g, e, r, v, n)
    BY <2>3
  <2>5. g.next[n] = h.next[n]
    BY <1>6, <1>7, <2>1, <2>2, JoinedEnd
  <2>6. e.cmp = m.cmp /\ e.after = m.after
    BY <1>6, <2>1, TookQIs
  <2>7. QED
    BY <1>2, <1>3, <1>4, <1>5, <2>3, <2>4, <2>5, <2>6
<1>10. QED
  BY <1>8, <1>9

\* What the steps of a merge share.
LEMMA MergeBegins ==
    ASSUME InputInv, NEW w, NEW r, ControlInv, HeapInv, OrderInv(w, r), pc = "merge"
    PROVE  \E n \in Nat : /\ n = Nodes /\ n >= 3 /\ heap \in HeapOf(n + 1) /\ ms \in SortState
                          /\ MergeState(heap, ms, r, w, n)
BY InputFacts DEF ControlInv, HeapInv, OrderInv, Merging

LEMMA TakeRestKeeps == ASSUME InputInv, ListInv, TakeRest, BeforeStep PROVE ListInv'
<1>1. PICK w, r : OrderInv(w, r) /\ PastInv(w, r)
  BY DEF ListInv
<1>2. ControlInv /\ HeapInv
  BY DEF ListInv
<1>3. /\ pc = "merge" /\ pc' = pc /\ in' = in /\ res' = res /\ st' = st /\ fr' = fr
      /\ ~Comparing /\ (ms.psize > 0 \/ MoreInQ)
      /\ IF ms.psize = 0 THEN TakeQ(heap) ELSE TakeP(heap)
  BY DEF TakeRest
<1>4. PICK n \in Nat : /\ n = Nodes /\ n >= 3 /\ heap \in HeapOf(n + 1) /\ ms \in SortState
                       /\ MergeState(heap, ms, r, w, n)
  BY <1>1, <1>2, <1>3, MergeBegins
<1>5. ms.psize \in Nat
  BY <1>4 DEF SortState
<1>6. \/ /\ TakeP(heap) /\ ms.psize > 0
         /\ ms.qsize > 0 /\ ms.q # NULL => Ord(heap.data, ms.cmp, r, ms.p, ms.q)
      \/ /\ TakeQ(heap) /\ ms.qsize > 0 /\ ms.q # NULL
         /\ ms.psize > 0 => Ord(heap.data, ms.cmp, r, ms.q, ms.p)
  BY <1>3, <1>5 DEF Comparing, MoreInQ
<1>7. \A x \in Addr(n) : Alike(heap.data[x], heap.data[x])
  BY DEF Alike
<1>8. QED
  BY <1>1, <1>2, <1>3, <1>4, <1>6, <1>7, TakeKeeps

LEMMA MergeByIdxKeeps == ASSUME InputInv, ListInv, MergeByIdx, BeforeStep PROVE ListInv'
<1>1. PICK w, r : OrderInv(w, r) /\ PastInv(w, r)
  BY DEF ListInv
<1>2. ControlInv /\ HeapInv
  BY DEF ListInv
<1>3. PICK h : h = Rebuild(Rebuild(heap, ms.p), ms.q)
  OBVIOUS
<1>4. /\ pc = "merge" /\ pc' = pc /\ in' = in /\ res' = res /\ st' = st /\ fr' = fr
      /\ Comparing /\ ms.cmp = "idx"
      /\ IF Info(h, ms.p).idx <= Info(h, ms.q).idx THEN TakeP(h) ELSE TakeQ(h)
  BY <1>3 DEF MergeByIdx
<1>5. PICK n \in Nat : /\ n = Nodes /\ n >= 3 /\ heap \in HeapOf(n + 1) /\ ms \in SortState
                       /\ MergeState(heap, ms, r, w, n)
  BY <1>1, <1>2, <1>4, MergeBegins
<1>6. PICK m : m = ms
  OBVIOUS
<1>7. /\ m.p \in Addr(n) /\ m.q \in Addr(n) /\ m.p \in Addr(n + 1) /\ m.q \in Addr(n + 1)
      /\ m.psize > 0 /\ m.qsize > 0 /\ m.q # NULL
  BY <1>4, <1>5, <1>6, MergeFacts DEF Comparing, MoreInQ
<1>8. heap.info[m.p] = m.p /\ heap.info[m.q] = m.q
  BY <1>2, <1>4, <1>5, <1>7 DEF HeapInv, OwnData
<1>9. BothRebuilt(heap, h, n + 1, m.p, m.q)
  <2>1. h = Rebuild(Rebuild(heap, m.p), m.q)
    BY <1>3, <1>6
  <2>2. QED
    BY <1>5, <1>7, <1>8, <2>1, BothRebuiltIs
<1>10. /\ h \in HeapOf(n + 1) /\ h.next = heap.next /\ h.info = heap.info
       /\ \A y \in Addr(n + 1) : Alike(h.data[y], heap.data[y])
       /\ \A y \in Addr(n + 1) : Settled(heap.data[y], "idx") => h.data[y] = heap.data[y]
       /\ Settled(h.data[m.p], "idx") /\ Settled(h.data[m.q], "idx")
  BY <1>9 DEF BothRebuilt
<1>11. \A y \in Addr(n) : y \in Addr(n + 1)
  BY DEF Addr
<1>12. MergeState(h, m, r, w, n)
  <2>1. Settles(heap.data, h.data, n, m.cmp)
    BY <1>4, <1>6, <1>10, <1>11 DEF Settles
  <2>2. QED
    BY <1>5, <1>6, <1>10, <2>1, DataMergeState
<1>13. /\ h.data[m.p].idx <= h.data[m.q].idx => Ord(h.data, m.cmp, r, m.p, m.q)
       /\ ~ (h.data[m.p].idx <= h.data[m.q].idx) => Ord(h.data, m.cmp, r, m.q, m.p)
  <2>1. m.cmp = "idx" /\ m \in SortState
    BY <1>4, <1>5, <1>6
  <2>2. /\ KeyOf(h.data[m.p], m.cmp) <= KeyOf(h.data[m.q], m.cmp)
             => Ord(h.data, m.cmp, r, m.p, m.q)
        /\ ~ (KeyOf(h.data[m.p], m.cmp) <= KeyOf(h.data[m.q], m.cmp))
             => Ord(h.data, m.cmp, r, m.q, m.p)
    BY <1>5, <1>7, <1>10, <1>12, <2>1, CompareOrd
  <2>3. KeyOf(h.data[m.p], m.cmp) = h.data[m.p].idx /\ KeyOf(h.data[m.q], m.cmp) = h.data[m.q].idx
    BY <2>1 DEF KeyOf
  <2>4. QED
    BY <2>2, <2>3
<1>14. \/ /\ TakeP(h) /\ ms.psize > 0
          /\ ms.qsize > 0 /\ ms.q # NULL => Ord(h.data, ms.cmp, r, ms.p, ms.q)
       \/ /\ TakeQ(h) /\ ms.qsize > 0 /\ ms.q # NULL
          /\ ms.psize > 0 => Ord(h.data, ms.cmp, r, ms.q, ms.p)
  BY <1>4, <1>6, <1>7, <1>8, <1>10, <1>13 DEF Info
<1>15. /\ \A x \in Addr(n) : Alike(h.data[x], heap.data[x])
       /\ \A x \in Addr(n) : Settled(heap.data[x], ms.cmp) => h.data[x] = heap.data[x]
       /\ MergeState(h, ms, r, w, n)
  BY <1>4, <1>6, <1>10, <1>11, <1>12
<1>16. QED
  BY <1>1, <1>2, <1>4, <1>5, <1>10, <1>14, <1>15, TakeKeeps

LEMMA MergeByDataKeeps == ASSUME InputInv, ListInv, MergeByData, BeforeStep PROVE ListInv'
<1>1. PICK w, r : OrderInv(w, r) /\ PastInv(w, r)
  BY DEF ListInv
<1>2. ControlInv /\ HeapInv
  BY DEF ListInv
<1>3. /\ pc = "merge" /\ pc' = pc /\ in' = in /\ res' = res /\ st' = st /\ fr' = fr
      /\ Comparing /\ ms.cmp = "data" /\ IsCached(ms.p) /\ IsCached(ms.q)
      /\ IF Value(ms.p) <= Value(ms.q) THEN TakeP(heap) ELSE TakeQ(heap)
  BY DEF MergeByData
<1>4. PICK n \in Nat : /\ n = Nodes /\ n >= 3 /\ heap \in HeapOf(n + 1) /\ ms \in SortState
                       /\ MergeState(heap, ms, r, w, n)
  BY <1>1, <1>2, <1>3, MergeBegins
<1>5. PICK m : m = ms
  OBVIOUS
<1>6. /\ m.p \in Addr(n) /\ m.q \in Addr(n) /\ m.p \in Addr(n + 1) /\ m.q \in Addr(n + 1)
      /\ m.psize > 0 /\ m.qsize > 0 /\ m.q # NULL
  BY <1>3, <1>4, <1>5, MergeFacts DEF Comparing, MoreInQ
<1>7. heap.info[m.p] = m.p /\ heap.info[m.q] = m.q
  BY <1>2, <1>3, <1>4, <1>6 DEF HeapInv, OwnData
<1>8. /\ Settled(heap.data[m.p], "data") /\ Settled(heap.data[m.q], "data")
      /\ Value(m.p) = KeyOf(heap.data[m.p], "data") /\ Value(m.q) = KeyOf(heap.data[m.q], "data")
  BY <1>3, <1>5, <1>7 DEF IsCached, Info, Settled, Value, KeyOf
<1>9. /\ Value(m.p) <= Value(m.q) => Ord(heap.data, m.cmp, r, m.p, m.q)
      /\ ~ (Value(m.p) <= Value(m.q)) => Ord(heap.data, m.cmp, r, m.q, m.p)
  <2>1. m.cmp = "data" /\ m \in SortState /\ MergeState(heap, m, r, w, n)
    BY <1>3, <1>4, <1>5
  <2>2. /\ KeyOf(heap.data[m.p], m.cmp) <= KeyOf(heap.data[m.q], m.cmp)
             => Ord(heap.data, m.cmp, r, m.p, m.q)
        /\ ~ (KeyOf(heap.data[m.p], m.cmp) <= KeyOf(heap.data[m.q], m.cmp))
             => Ord(heap.data, m.cmp, r, m.q, m.p)
    BY <1>4, <1>6, <1>8, <2>1, CompareOrd
  <2>3. QED
    BY <1>8, <2>1, <2>2
<1>10. \/ /\ TakeP(heap) /\ ms.psize > 0
          /\ ms.qsize > 0 /\ ms.q # NULL => Ord(heap.data, ms.cmp, r, ms.p, ms.q)
       \/ /\ TakeQ(heap) /\ ms.qsize > 0 /\ ms.q # NULL
          /\ ms.psize > 0 => Ord(heap.data, ms.cmp, r, ms.q, ms.p)
  BY <1>3, <1>5, <1>6, <1>9
<1>11. \A x \in Addr(n) : Alike(heap.data[x], heap.data[x])
  BY DEF Alike
<1>12. QED
  BY <1>1, <1>2, <1>3, <1>4, <1>10, <1>11, TakeKeeps

-----------------------------------------------------------------------------
(* The end of calc_func.                                                    *)
\* There is a dimension for every size.
LEMMA DimensionIs ==
    ASSUME NEW b \in Nat, b > 0
    PROVE  LET N == Dimension(b) IN N \in Nat /\ N * N * 8 < b /\ (N + 1) * (N + 1) * 8 >= b
<1> DEFINE S == {x \in Nat : (x + 1) * (x + 1) * 8 >= b}
<1>1. S \subseteq Nat
  OBVIOUS
<1>2. b \in S
  <2>1. (b + 1) * (b + 1) >= b + 1
    OBVIOUS
  <2>2. (b + 1) * (b + 1) * 8 >= b
    BY <2>1
  <2>3. QED
    BY <2>2
<1>3. PICK m \in S : \A y \in S : m <= y
  <2> HIDE DEF S
  <2>1. QED
    BY <1>1, <1>2, Least
<1>4. m \in Nat /\ (m + 1) * (m + 1) * 8 >= b
  OBVIOUS
<1>5. m * m * 8 < b
  <2>1. CASE m = 0
    BY <2>1
  <2>2. CASE m # 0
    <3>1. m - 1 \in Nat /\ (m - 1) + 1 = m
      BY <1>4, <2>2
    <3>2. ~ (m - 1 \in S)
      BY <1>3, <3>1
    <3>3. ~ (m * m * 8 >= b)
      BY <3>1, <3>2
    <3>4. m * m * 8 \in Int
      BY <1>4
    <3>5. QED
      BY <3>3, <3>4
  <2>3. QED
    BY <2>1, <2>2
<1>6. m <= b
  <2>1. m <= m * m
    BY <1>4
  <2>2. m * m \in Nat
    BY <1>4
  <2>3. PICK k \in Nat : k = m * m
    BY <2>2
  <2>4. k * 8 < b
    BY <1>5, <2>3
  <2>5. QED
    BY <1>4, <2>1, <2>3, <2>4
<1>7. m \in 0 .. b
  BY <1>4, <1>6
<1>8. \E n \in 0 .. b : n * n * 8 < b /\ (n + 1) * (n + 1) * 8 >= b
  BY <1>4, <1>5, <1>7
<1>9. PICK N : N = Dimension(b)
  OBVIOUS
<1>10. N \in 0 .. b /\ N * N * 8 < b /\ (N + 1) * (N + 1) * 8 >= b
  BY <1>8, <1>9 DEF Dimension
<1>11. QED
  BY <1>9, <1>10

LEMMA MatrixSize == ASSUME InputInv PROVE mat.N \in Nat /\ mat.N * mat.N * 8 < in.total
<1>1. PICK b \in Nat : b = in.total /\ b > 0
  BY InputFacts DEF InputRecord
<1>2. PICK N : N = mat.N
  OBVIOUS
<1>3. N = Dimension(b)
  BY <1>1, <1>2 DEF InputInv
<1>4. N \in Nat /\ N * N * 8 < b
  BY <1>1, <1>3, DimensionIs
<1>5. QED
  BY <1>1, <1>2, <1>4

\* A value goes into the CRC and is cached, and the merge goes on.
LEMMA FinishKeeps ==
    ASSUME InputInv, ListInv, BeforeStep, pc \in {"merge", "scan2"}, pc' = "merge", ms.cmp = "data",
           Comparing, NEW x \in {ms.p, ms.q}, ~ IsCached(x), NEW v \in Int, NEW results \in Results,
           Finish(x, v, results), in' = in, ms' = ms, fr' = fr, st' \in Scan
    PROVE  ListInv'
<1>1. PICK w, r : OrderInv(w, r) /\ PastInv(w, r)
  BY DEF ListInv
<1>2. ControlInv /\ HeapInv /\ ms \in SortState
  BY DEF ListInv, ControlInv
<1>3. PICK n \in Nat : n = Nodes /\ n >= 3 /\ heap \in HeapOf(n + 1)
  BY <1>2, InputFacts DEF HeapInv
<1>4. MergeState(heap, ms, r, w, n)
  BY <1>1, <1>3 DEF OrderInv, Merging
<1>5. x \in Addr(n) /\ x \in Addr(n + 1) /\ heap.info[x] = x /\ Info(heap, x) = heap.data[x]
  BY <1>1, <1>2, <1>3, ComparedIs DEF Merging
<1>6. heap' = Cached(heap, x, v)
  BY DEF Finish, Cached
<1>7. PICK h : h = heap
  OBVIOUS
<1>8. PICK g : g = heap'
  OBVIOUS
<1>9. PICK y \in Int : PutAlike(h, g, n + 1, x, y, "data")
  BY <1>3, <1>5, <1>6, <1>7, <1>8, CachedIs
<1>10. /\ g \in HeapOf(n + 1) /\ g.next = h.next /\ g.info = h.info
       /\ \A a \in Addr(n + 1) : a # x => g.data[a] = h.data[a]
       /\ \A a \in Addr(n + 1) : Alike(g.data[a], h.data[a])
  BY <1>9 DEF PutAlike
<1>11. ~ Settled(h.data[x], "data")
  BY <1>5, <1>7 DEF IsCached, Settled
<1>12. \A a \in Addr(n) : a \in Addr(n + 1)
  BY DEF Addr
<1>13. \A a \in Addr(n) : Settled(h.data[a], "data") => g.data[a] = h.data[a]
  BY <1>10, <1>11, <1>12
<1>14. MergeState(g, ms, r, w, n)
  <2>1. PICK m : m = ms
    OBVIOUS
  <2>2. m.cmp = "data" /\ m \in SortState /\ MergeState(h, m, r, w, n)
    BY <1>2, <1>4, <1>7, <2>1
  <2>3. Settles(h.data, g.data, n, m.cmp)
    BY <1>13, <2>2 DEF Settles
  <2>4. MergeState(g, m, r, w, n)
    BY <1>3, <1>7, <1>10, <2>2, <2>3, DataMergeState
  <2>5. QED
    BY <2>1, <2>4
<1>15. res' \in Results
  <2>1. results.crc \in Word16
    BY DEF Results
  <2>2. U16(v) \in Int
    BY ModWord16, Word16Is
  <2>3. PICK c \in Word16 : c = crcu16(U16(v), results.crc)
    BY <2>1, <2>2, Crc16Type
  <2>4. res' = [results EXCEPT !.crc = c]
    BY <2>3 DEF Finish
  <2>5. QED
    BY <2>4 DEF Results
<1>16. Sorting
  BY DEF Sorting
<1>17. /\ heap' \in HeapOf(n + 1) /\ heap'.info = heap.info /\ heap'.next[n] = heap.next[n]
       /\ \A a \in Addr(n) : Alike(heap'.data[a], heap.data[a])
       /\ \A a \in Addr(n) : Settled(heap.data[a], ms.cmp) => heap'.data[a] = heap.data[a]
       /\ MergeState(heap', ms', r, w, n)
  BY <1>7, <1>8, <1>10, <1>12, <1>13, <1>14
<1>18. QED
  BY <1>1, <1>2, <1>3, <1>15, <1>16, <1>17, SortStep

LEMMA CalcDataKeeps == ASSUME InputInv, ListInv, CalcData, BeforeStep PROVE ListInv'
<1>1. PICK w, r : OrderInv(w, r) /\ PastInv(w, r)
  BY DEF ListInv
<1>2. ControlInv /\ HeapInv /\ st \in Scan /\ res \in Results
  BY DEF ListInv, ControlInv
<1>3. PICK x \in {ms.p, ms.q} : Computing(x) /\ Finish(x, Info(heap, x).data16, res)
  BY DEF CalcData
<1>4. /\ pc = "merge" /\ Comparing /\ ms.cmp = "data" /\ ~ IsCached(x)
      /\ pc' = pc /\ in' = in /\ fr' = fr /\ ms' = ms /\ st' = st
  BY <1>3 DEF CalcData, Computing
<1>5. Info(heap, x) \in Datum
  BY <1>1, <1>2, <1>4, ComparedIs DEF Merging
<1>6. PICK v \in Int : v = Info(heap, x).data16
  BY <1>5 DEF Datum
<1>7. Finish(x, v, res)
  BY <1>3, <1>6
<1>8. QED
  BY <1>2, <1>4, <1>7, FinishKeeps

LEMMA CalcMatrixKeeps == ASSUME InputInv, ListInv, CalcMatrix, BeforeStep PROVE ListInv'
<1>1. ControlInv /\ HeapInv /\ st \in Scan /\ res \in Results
  BY DEF ListInv, ControlInv
<1>2. PICK x \in {ms.p, ms.q} :
          /\ Computing(x)
          /\ Finish(x, core_bench_matrix(mat, DType(x), res.crc).crc,
                    [res EXCEPT !.crcmatrix = IF @ = 0 THEN core_bench_matrix(mat, DType(x), res.crc).crc
                                                       ELSE @])
  BY DEF CalcMatrix
<1>3. /\ pc = "merge" /\ Comparing /\ ms.cmp = "data" /\ ~ IsCached(x)
      /\ pc' = pc /\ in' = in /\ fr' = fr /\ ms' = ms /\ st' = st
  BY <1>2 DEF CalcMatrix, Computing
<1>4. PICK c : c = core_bench_matrix(mat, DType(x), res.crc).crc
  OBVIOUS
<1>5. c \in Word16
  <2>1. mat.N \in Nat
    BY MatrixSize
  <2>2. res.crc \in Word16
    BY <1>1 DEF Results
  <2>3. QED
    BY <1>4, <2>1, <2>2, BenchMatrixIs
<1>6. PICK d \in Word16 : d = IF res.crcmatrix = 0 THEN c ELSE res.crcmatrix
  BY <1>1, <1>5 DEF Results
<1>7. PICK results : results = [res EXCEPT !.crcmatrix = d]
  OBVIOUS
<1>8. results \in Results
  BY <1>1, <1>7 DEF Results
<1>9. Finish(x, c, results)
  <2>1. [res EXCEPT !.crcmatrix = IF @ = 0 THEN c ELSE @] = results
    BY <1>6, <1>7
  <2>2. QED
    BY <1>2, <1>4, <2>1
<1>10. c \in Int
  BY <1>5, Word16Is
<1>11. QED
  BY <1>1, <1>3, <1>8, <1>9, <1>10, FinishKeeps

LEMMA EndStateKeeps == ASSUME InputInv, ListInv, EndState, BeforeStep PROVE ListInv'
<1>1. ControlInv /\ HeapInv /\ st \in Scan /\ res \in Results
  BY DEF ListInv, ControlInv
<1>2. PICK c : c = CountsCrc(st.final, st.track, res.crc)
  OBVIOUS
<1>3. /\ pc = "scan2" /\ pc' = "merge" /\ in' = in /\ fr' = fr /\ ms' = ms /\ st' = NoScan
      /\ Finish(st.caller, c, [res EXCEPT !.crcstate = IF @ = 0 THEN c ELSE @])
  BY <1>2 DEF EndState
<1>4. ms.cmp = "data" /\ Comparing /\ st.caller \in {ms.p, ms.q} /\ ~ IsCached(st.caller)
  BY <1>1, <1>3 DEF ControlInv, Scanning
<1>5. c \in Word16
  BY <1>1, <1>2, CountsCrcType DEF Scan, Results
<1>6. PICK d \in Word16 : d = IF res.crcstate = 0 THEN c ELSE res.crcstate
  BY <1>1, <1>5 DEF Results
<1>7. PICK results : results = [res EXCEPT !.crcstate = d]
  OBVIOUS
<1>8. results \in Results
  BY <1>1, <1>7 DEF Results
<1>9. PICK x : x = st.caller
  OBVIOUS
<1>10. Finish(x, c, results)
  <2>1. [res EXCEPT !.crcstate = IF @ = 0 THEN c ELSE @] = results
    BY <1>6, <1>7
  <2>2. QED
    BY <1>3, <1>9, <2>1
<1>11. c \in Int
  BY <1>5, Word16Is
<1>12. x \in {ms.p, ms.q} /\ ~ IsCached(x)
  BY <1>4, <1>9
<1>13. st' \in Scan
  BY <1>3, NoScanType
<1>14. QED
  BY <1>3, <1>4, <1>8, <1>10, <1>11, <1>12, <1>13, FinishKeeps

-----------------------------------------------------------------------------
(* The end of a pass of core_list_mergesort.                                *)
\* Sorted by idx the header is the first item.
LEMMA HeadFirst ==
    ASSUME InputInv, ZeroOnlyHead, NEW n \in Nat, n = Nodes, n >= 3, NEW h \in HeapOf(n + 1), NEW w,
           NEW r, Arranged(w, n), DataKept(h, n, in.seed1), AllOrd(h.data, "idx", r, w, n)
    PROVE  w[1] = 0
<1>1. in.seed1 \in Int
  BY InputFacts
<1>2. 0 \in Addr(n) /\ 1 \in 1 .. n
  BY DEF Addr
<1>3. PICK i \in 1 .. n : w[i] = 0
  BY <1>2 DEF Arranged
<1>4. CASE i = 1
  BY <1>3, <1>4
<1>5. CASE i # 1
  <2>1. 1 < i
    BY <1>5
  <2>2. Ord(h.data, "idx", r, w[1], 0)
    BY <1>2, <1>3, <2>1 DEF AllOrd
  <2>3. PICK x : x = w[1]
    OBVIOUS
  <2>4. x \in Addr(n)
    BY <1>2, <2>3, ArrangedIs
  <2>5. h.data[x].idx = Base(n, in.seed1, x).idx /\ h.data[0].idx = Base(n, in.seed1, 0).idx
    BY <1>2, <2>4 DEF DataKept, Alike
  <2>6. Base(n, in.seed1, 0).idx = 0
    BY DEF Base
  <2>7. Base(n, in.seed1, x).idx >= 0 /\ Base(n, in.seed1, x).idx \in Int
    BY <1>1, <2>4, BaseIs DEF Datum
  <2>8. h.data[x].idx <= h.data[0].idx
    <3>1. KeyOf(h.data[x], "idx") = h.data[x].idx /\ KeyOf(h.data[0], "idx") = h.data[0].idx
      BY DEF KeyOf
    <3>2. h.data[x].idx < h.data[0].idx \/ h.data[x].idx = h.data[0].idx
      BY <2>2, <2>3, <3>1 DEF Ord
    <3>3. QED
      BY <2>5, <2>6, <2>7, <3>2
  <2>9. Base(n, in.seed1, x).idx = 0
    BY <2>5, <2>6, <2>7, <2>8
  <2>10. QED
    BY <2>3, <2>4, <2>9, HeadIdx
<1>6. QED
  BY <1>4, <1>5

LEMMA SortedFrame ==
    ASSUME fr \in Frame, NEW x \in Int, NEW e, e = [fr EXCEPT !.list = x]
    PROVE  e \in Frame /\ e.list = x /\ e.i = fr.i /\ e.finder_idx = fr.finder_idx
BY DEF Frame

LEMMA EndPassKeeps ==
    ASSUME InputInv, ZeroOnlyHead, ListInv, EndPass, BeforeStep PROVE ListInv'
<1>1. PICK w, r : OrderInv(w, r) /\ PastInv(w, r)
  BY DEF ListInv
<1>2. /\ ControlInv /\ HeapInv /\ ms \in SortState /\ res \in Results /\ st \in Scan
      /\ fr \in Frame
  BY DEF ListInv, ControlInv
<1>3. /\ pc = "pass" /\ ms.p = NULL /\ heap' = SetNext(heap, ms.tail, NULL)
      /\ in' = in /\ st' = st
      /\ IF ms.nmerges <= 1
         THEN /\ pc' = ms.after /\ ms' = NoSort /\ fr' = [fr EXCEPT !.list = ms.list]
              /\ res' = IF ms.after = "cells" THEN [res EXCEPT !.list = ms.list] ELSE res
         ELSE /\ ms' = [SortStart(ms.list, ms.cmp, ms.after) EXCEPT !.insize = NextSize(ms.insize)]
              /\ pc' = pc /\ fr' = fr /\ res' = res
  BY DEF EndPass
<1>4. PICK n \in Nat : n = Nodes /\ n >= 3 /\ heap \in HeapOf(n + 1)
  BY <1>2, InputFacts DEF HeapInv
<1>5. PassState(heap, ms, r, w, n)
  BY <1>1, <1>3, <1>4 DEF OrderInv
<1>6. /\ heap' \in HeapOf(n + 1) /\ heap'.info = heap.info /\ heap'.data = heap.data
      /\ ms.tail \in Addr(n) /\ \A x \in Addr(n + 1) : x # ms.tail => heap'.next[x] = heap.next[x]
      /\ ListAt(heap', w, n, ms.list)
      /\ ms.nmerges <= 1 => AllOrd(heap'.data, ms.cmp, r, w, n)
      /\ SortedRuns(heap'.data, ms.cmp, r, w, n, NextSize(ms.insize), 0, 0)
  <2>1. PICK m : m = ms
    OBVIOUS
  <2>2. PICK g : g = heap'
    OBVIOUS
  <2>3. PICK h : h = heap
    OBVIOUS
  <2>4. /\ m \in SortState /\ h \in HeapOf(n + 1) /\ PassState(h, m, r, w, n) /\ m.p = NULL
        /\ g = SetNext(h, m.tail, NULL)
    BY <1>2, <1>3, <1>4, <1>5, <2>1, <2>2, <2>3
  <2>5. /\ g \in HeapOf(n + 1) /\ g.info = h.info /\ g.data = h.data
        /\ m.tail \in Addr(n) /\ \A x \in Addr(n + 1) : x # m.tail => g.next[x] = h.next[x]
        /\ ListAt(g, w, n, m.list)
        /\ m.nmerges <= 1 => AllOrd(g.data, m.cmp, r, w, n)
        /\ SortedRuns(g.data, m.cmp, r, w, n, NextSize(m.insize), 0, 0)
    BY <1>4, <2>4, EndPassState
  <2>6. QED
    BY <2>1, <2>2, <2>3, <2>5
<1>7. heap'.next[n] = heap.next[n]
  <2>1. n \in Addr(n + 1) /\ ms.tail # n
    BY <1>6 DEF Addr
  <2>2. QED
    BY <1>6, <2>1
<1>8. Nodes' = n
  BY <1>3, <1>4, NodesNext
<1>9. CASE ms.nmerges <= 1
  <2>1. /\ pc' = ms.after /\ ms' = NoSort /\ fr' = [fr EXCEPT !.list = ms.list]
        /\ res' = IF ms.after = "cells" THEN [res EXCEPT !.list = ms.list] ELSE res
        /\ AllOrd(heap'.data, ms.cmp, r, w, n)
    BY <1>3, <1>6, <1>9
  <2>2. /\ ms.after \in {"cells", "remove", "check"}
        /\ ms.cmp = IF ms.after = "remove" THEN "data" ELSE "idx"
    BY <1>2, <1>3 DEF ControlInv, Sorting
  <2>3. heap.next[n] = NULL /\ DataKept(heap, n, in.seed1) /\ OwnData(heap, n)
    BY <1>2, <1>3, <1>4 DEF HeapInv
  <2>4. HeapInv'
    BY <1>3, <1>6, <1>7, <1>8, <2>3 DEF HeapInv, DataKept, OwnData
  <2>5. Arranged(w, n) /\ w[1] = ms.list
    BY <1>6 DEF ListAt
  <2>6. ms.after # "remove" => ms.list = 0
    <3>1. DataKept(heap', n, in.seed1)
      BY <1>6, <2>3 DEF DataKept
    <3>2. PICK g : g = heap'
      OBVIOUS
    <3>3. ms.after # "remove" => AllOrd(g.data, "idx", r, w, n)
      BY <2>1, <2>2, <3>2
    <3>4. ms.after # "remove" => w[1] = 0
      BY <1>4, <1>6, <2>5, <3>1, <3>2, <3>3, HeadFirst
    <3>5. QED
      BY <2>5, <3>4
  <2>7. ms.list \in Int
    BY <1>2 DEF SortState
  <2>8. fr' \in Frame /\ fr'.list = ms.list
    BY <1>2, <2>1, <2>7, SortedFrame
  <2>9. res' \in Results
    BY <1>2, <2>1, <2>2, <2>6 DEF Results
  <2>10. ms' \in SortState
    <3>1. NULL \in Int
      BY DEF NULL
    <3>2. QED
      BY <2>1, <3>1, SortStartType DEF NoSort
  <2>11. ControlInv'
    BY <1>2, <1>3, <2>1, <2>2, <2>8, <2>9, <2>10 DEF ControlInv, Sorting, Scanning
  <2>12. Listed' /\ Root' = ms.list /\ (Ready' => ms.after # "remove")
    BY <2>1, <2>2, <2>6, <2>8 DEF Listed, Root, Ready
  <2>13. OrderInv(w, r)'
    BY <1>6, <1>8, <2>1, <2>2, <2>6, <2>12 DEF OrderInv, Merging
  <2>14. PastInv(w, r)'
    <3>1. Whole(heap', w, n, Root')
      BY <1>6, <1>7, <2>3, <2>12 DEF Whole, OwnData
    <3>2. QED
      BY <1>4, <1>8, <2>9, <2>12, <3>1, PastListed
  <2>15. QED
    BY <2>4, <2>11, <2>13, <2>14 DEF ListInv
<1>10. CASE ~ (ms.nmerges <= 1)
  <2>1. /\ ms' = [SortStart(ms.list, ms.cmp, ms.after) EXCEPT !.insize = NextSize(ms.insize)]
        /\ pc' = pc /\ fr' = fr /\ res' = res
    BY <1>3, <1>10
  <2>2. ms' \in SortState
    <3>1. /\ ms.list \in Int /\ ms.cmp \in {"idx", "data"} /\ ms.insize \in Nat
          /\ ms.after \in {"cells", "remove", "check", "done"}
      BY <1>2 DEF SortState
    <3>2. PICK s \in SortState : s = SortStart(ms.list, ms.cmp, ms.after)
      BY <3>1, SortStartType
    <3>3. PICK k \in Nat : k = NextSize(ms.insize)
      BY <3>1 DEF NextSize
    <3>4. ms' = [s EXCEPT !.insize = k]
      BY <2>1, <3>2, <3>3
    <3>5. QED
      BY <3>4 DEF SortState
  <2>3. PassState(heap', ms', r, w, n) /\ ms'.cmp = ms.cmp /\ ms'.after = ms.after
    <3>1. PICK m : m = ms
      OBVIOUS
    <3>2. PICK e : e = ms'
      OBVIOUS
    <3>3. PICK g : g = heap'
      OBVIOUS
    <3>4. /\ m \in SortState /\ ListAt(g, w, n, m.list)
          /\ SortedRuns(g.data, m.cmp, r, w, n, NextSize(m.insize), 0, 0)
          /\ e = NextSort(m.list, m)
      BY <1>2, <1>6, <2>1, <3>1, <3>2, <3>3 DEF NextSort
    <3>5. m.insize >= 1 /\ Ranks(r, n)
      BY <1>5, <3>1 DEF PassState
    <3>6. PassState(g, e, r, w, n) /\ e.cmp = m.cmp /\ e.after = m.after
      BY <1>4, <3>4, <3>5, NextPassState
    <3>7. QED
      BY <3>1, <3>2, <3>3, <3>6
  <2>4. Sorting /\ \A x \in Addr(n) : Alike(heap'.data[x], heap.data[x])
    BY <1>3, <1>6 DEF Sorting, Alike
  <2>5. QED
    BY <1>1, <1>2, <1>3, <1>4, <1>6, <1>7, <2>1, <2>2, <2>3, <2>4, SortStep
<1>11. QED
  BY <1>9, <1>10

-----------------------------------------------------------------------------
(* The matrices.                                                            *)
Signed16 == {x \in Int : -32768 <= x /\ x <= 32767}
MatrixInv == mat \in [N : {mat.N}, A : [Cells(mat.N) -> Signed16], B : [Cells(mat.N) -> Signed16]]

LEMMA S16Type == ASSUME NEW x \in Int PROVE S16(x) \in Signed16
BY DEF S16, Signed16
LEMMA Signed16Is == ASSUME NEW x \in Signed16 PROVE x \in Int /\ -32768 <= x /\ x <= 32767
BY DEF Signed16
LEMMA LowByteSigned == ASSUME NEW x \in Int PROVE LowByte(x) \in Signed16
BY DEF LowByte, Signed16

\* What wraps on the way up wraps back on the way down.
LEMMA WrapsBack == ASSUME NEW x \in Signed16, NEW v \in Int PROVE S16(S16(x + v) + (-v)) = x
<1>1. x \in Int /\ -32768 <= x /\ x <= 32767
  BY Signed16Is
<1>2. PICK y \in Int : y = x + v
  BY <1>1
<1>3. \E k \in Int : S16(y) = y + 65536 * k
  <2>1. PICK k \in Int : k = y \div 65536
    OBVIOUS
  <2>2. y % 65536 = y - 65536 * k
    BY <2>1
  <2>3. S16(y) = y + 65536 * (- k) \/ S16(y) = y + 65536 * (- k - 1)
    BY <2>2 DEF S16
  <2>4. PICK a \in Int : a = -k
    OBVIOUS
  <2>5. PICK b \in Int : b = -k - 1
    OBVIOUS
  <2>6. S16(y) = y + 65536 * a \/ S16(y) = y + 65536 * b
    BY <2>3, <2>4, <2>5
  <2>7. QED
    BY <2>6
<1>4. PICK k \in Int : S16(y) = y + 65536 * k
  BY <1>3
<1>5. S16(y) + (-v) = x + 65536 * k
  BY <1>1, <1>2, <1>4
<1>6. (x + 65536 * k) % 65536 = x % 65536
  BY <1>1
<1>7. S16(x + 65536 * k) = S16(x)
  BY <1>6 DEF S16
<1>8. S16(x) = x
  BY <1>1 DEF S16
<1>9. QED
  BY <1>2, <1>5, <1>7, <1>8

LEMMA AddConstTwice ==
    ASSUME NEW D, NEW A \in [D -> Signed16], NEW v \in Int
    PROVE  matrix_add_const(matrix_add_const(A, v), -v) = A
<1> DEFINE B == matrix_add_const(A, v)
<1>1. B = [i \in D |-> S16(A[i] + v)]
  BY DEF matrix_add_const
<1>2. matrix_add_const(B, -v) = [i \in D |-> S16(B[i] + (-v))]
  BY <1>1 DEF matrix_add_const
<1> HIDE DEF B
<1>3. ASSUME NEW i \in D PROVE S16(B[i] + (-v)) = A[i]
  <2>1. A[i] \in Signed16
    OBVIOUS
  <2>2. B[i] = S16(A[i] + v)
    BY <1>1
  <2>3. QED
    BY <2>1, <2>2, WrapsBack
<1>4. A = [i \in D |-> A[i]]
  OBVIOUS
<1>5. QED
  BY <1>2, <1>3, <1>4 DEF B

LEMMA BenchKeepsMatrix ==
    ASSUME InputInv, MatrixInv, NEW seed \in Int, NEW crc \in Word16
    PROVE  core_bench_matrix(mat, seed, crc).A = mat.A
<1>1. mat.A \in [Cells(mat.N) -> Signed16]
  BY DEF MatrixInv
<1>2. PICK D : mat.A \in [D -> Signed16]
  BY <1>1
<1>3. mat.N \in Nat
  BY MatrixSize
<1>4. PICK m : m = mat
  OBVIOUS
<1>5. core_bench_matrix(m, seed, crc).A = matrix_add_const(matrix_add_const(m.A, seed), -seed)
  BY <1>3, <1>4, BenchMatrixIs
<1>6. QED
  BY <1>2, <1>4, <1>5, AddConstTwice

-----------------------------------------------------------------------------
(* The invariant of the inputs and the list, as a whole.                    *)
LEMMA InNext == ASSUME Next \/ UNCHANGED vars PROVE in' = in
BY DEF Next, vars, InitItem, EndItems, InitCells, EndCells, InitText, EndText, Iterate, Find, Reverse,
       UseFound, EndFind, Remove, Undo, Check, StartMerge, TakeRest, MergeByIdx, MergeByData, NextRun,
       EndPass, CalcData, CalcMatrix, CalcState, Token, Corrupt, EndState, Report, Park

LEMMA BlockNext == ASSUME Next \/ UNCHANGED vars PROVE DOMAIN block' = DOMAIN block
<1>1. CASE InitText
  BY <1>1 DEF InitText, PutPattern
<1>2. CASE EndText
  BY <1>2 DEF EndText, FillZero
<1>3. CASE Corrupt
  BY <1>3 DEF Corrupt, XorEvery
<1>4. CASE EndState
  BY <1>4 DEF EndState, UndoCorruption, XorEvery
<1>5. CASE ~ (InitText \/ EndText \/ Corrupt \/ EndState)
  <2>1. block' = block
    BY <1>5 DEF Next, vars, InitItem, EndItems, InitCells, EndCells, Iterate, Find, Reverse,
       UseFound, EndFind, Remove, Undo, Check, StartMerge, TakeRest, MergeByIdx, MergeByData, NextRun,
       EndPass, CalcData, CalcMatrix, CalcState, Token, Report, Park
  <2>2. QED
    BY <2>1
<1>6. QED
  BY <1>1, <1>2, <1>3, <1>4, <1>5

LEMMA InitCellsMatrix ==
    ASSUME InputInv, MatrixInv, ListInv, InitCells PROVE MatrixInv' /\ mat'.N = mat.N
<1>1. fr \in Frame /\ mat.N \in Nat
  BY MatrixSize DEF ListInv, ControlInv
<1>2. PICK seed : /\ seed = IF fr.i = 0 THEN MatrixSeed ELSE fr.retval
                  /\ mat' = InitCell(mat, fr.i, seed)
  BY DEF InitCells
<1>3. MatrixSeed \in Int
  <2>1. PICK a \in Int : a = in.seed1
    BY InputFacts
  <2>2. PICK b \in Int : b = in.seed2
    BY InputFacts
  <2>3. QED
    BY <2>1, <2>2 DEF MatrixSeed
<1>4. seed \in Int
  BY <1>1, <1>2, <1>3, Word16Is DEF Frame
<1>5. PICK i \in Nat : i = fr.i
  BY <1>1 DEF Frame
<1>6. NextSeed(i, seed) \in Int
  BY <1>4, NextSeedType, Word16Is
<1>7. PICK a \in Int : a = NextSeed(i, seed) + i + 1
  BY <1>6
<1>8. PICK x \in Signed16 : x = S16(a)
  BY S16Type
<1>9. PICK y \in Signed16 : y = LowByte(a + i + 1)
  <2>1. PICK c \in Int : c = a + i + 1
    OBVIOUS
  <2>2. QED
    BY <2>1, LowByteSigned
<1>10. mat' = [mat EXCEPT !.B[i] = x, !.A[i] = y]
  BY <1>2, <1>5, <1>7, <1>8, <1>9 DEF InitCell
<1>11. PICK N : N = mat.N
  OBVIOUS
<1>12. PICK D : D = Cells(N)
  OBVIOUS
<1>13. mat \in [N : {N}, A : [D -> Signed16], B : [D -> Signed16]]
  BY <1>11, <1>12 DEF MatrixInv
<1>14. mat' \in [N : {N}, A : [D -> Signed16], B : [D -> Signed16]]
  BY <1>10, <1>13
<1>15. mat'.N = N
  BY <1>14
<1>16. QED
  BY <1>11, <1>12, <1>14, <1>15 DEF MatrixInv

LEMMA CalcMatrixKeepsMatrix ==
    ASSUME InputInv, MatrixInv, ListInv, CalcMatrix PROVE mat' = mat
<1>1. PICK w, r : OrderInv(w, r) /\ PastInv(w, r)
  BY DEF ListInv
<1>2. ControlInv /\ HeapInv /\ res \in Results
  BY DEF ListInv, ControlInv
<1>3. PICK x \in {ms.p, ms.q} :
         Computing(x) /\ mat' = [mat EXCEPT !.A = core_bench_matrix(mat, DType(x), res.crc).A]
  BY DEF CalcMatrix
<1>4. pc = "merge" /\ Comparing
  BY <1>3 DEF Computing
<1>5. DType(x) \in Nat
  BY <1>1, <1>2, <1>4, ComparedIs DEF Merging
<1>6. PICK d \in Int : d = DType(x)
  BY <1>5
<1>7. res.crc \in Word16
  BY <1>2 DEF Results
<1>8. core_bench_matrix(mat, d, res.crc).A = mat.A
  BY <1>7, BenchKeepsMatrix
<1>9. mat' = [mat EXCEPT !.A = mat.A]
  BY <1>3, <1>6, <1>8
<1>10. QED
  BY <1>9 DEF MatrixInv

LEMMA OthersKeepMatrix ==
    ASSUME Next \/ UNCHANGED vars, ~ InitCells, ~ CalcMatrix PROVE mat' = mat
BY DEF Next, vars, InitItem, EndItems, EndCells, InitText, EndText, Iterate, Find, Reverse,
       UseFound, EndFind, Remove, Undo, Check, StartMerge, TakeRest, MergeByIdx, MergeByData, NextRun,
       EndPass, CalcData, CalcState, Token, Corrupt, EndState, Report, Park

LEMMA InputStep ==
    ASSUME InputInv, MatrixInv, ListInv, Next \/ UNCHANGED vars
    PROVE  InputInv' /\ MatrixInv' /\ (mat' = mat \/ InitCells)
<1>1. in' = in /\ DOMAIN block' = DOMAIN block
  BY InNext, BlockNext
<1>2. CASE InitCells
  BY <1>1, <1>2, InitCellsMatrix DEF InputInv
<1>3. CASE ~ InitCells
  <2>1. mat' = mat
    BY <1>3, CalcMatrixKeepsMatrix, OthersKeepMatrix
  <2>2. QED
    BY <1>1, <2>1 DEF InputInv, MatrixInv
<1>4. QED
  BY <1>2, <1>3

LEMMA StutterKeeps == ASSUME ListInv, UNCHANGED hvars PROVE ListInv'
<1>1. PICK w, r : OrderInv(w, r) /\ PastInv(w, r)
  BY DEF ListInv
<1>2. /\ pc' = pc /\ in' = in /\ heap' = heap /\ res' = res /\ ms' = ms /\ st' = st /\ fr' = fr
      /\ before' = before
  BY DEF hvars, vars
<1>3. Nodes' = Nodes
  BY <1>2, NodesNext
<1>4. ControlInv'
  BY <1>2 DEF ListInv, ControlInv, Sorting, Scanning, Comparing, MoreInQ, IsCached
<1>5. HeapInv'
  BY <1>2, <1>3 DEF ListInv, HeapInv
<1>6. OrderInv(w, r)'
  BY <1>1, <1>2, <1>3 DEF OrderInv, Listed, Ready, Merging, Root, Removed
<1>7. PastInv(w, r)'
  BY <1>1, <1>2, <1>3 DEF PastInv, Building, Listed, Sorting
<1>8. QED
  BY <1>4, <1>5, <1>6, <1>7 DEF ListInv

LEMMA ListStep ==
    ASSUME ZeroOnlyHead, InputInv, ListInv, Next, BeforeStep PROVE ListInv'
BY InitItemKeeps, EndItemsKeeps, InitCellsKeeps, EndCellsKeeps, InitTextKeeps, EndTextKeeps,
   IterateKeeps, FindKeeps, ReverseKeeps, UseFoundKeeps, EndFindKeeps, RemoveKeeps, UndoKeeps,
   CheckKeeps, StartMergeKeeps, TakeRestKeeps, MergeByIdxKeeps, MergeByDataKeeps, NextRunKeeps,
   EndPassKeeps, CalcDataKeeps, CalcMatrixKeeps, CalcStateKeeps, TokenKeeps, CorruptKeeps,
   EndStateKeeps, ReportKeeps, ParkKeeps DEF Next

LEMMA InitInput == ASSUME HistoryInit PROVE InputInv /\ MatrixInv
<1>1. Init
  BY DEF HistoryInit
<1>2. \E x \in Inputs : in = InOf(x)
  BY <1>1 DEF Init, InOf
<1>3. mat.N = Dimension(in.total) /\ DOMAIN block = 0 .. in.total - 1
  BY <1>1 DEF Init
<1>4. InputInv
  BY <1>2, <1>3 DEF InputInv
<1>5. PICK D : D = Cells(mat.N)
  OBVIOUS
<1>6. 0 \in Signed16
  BY DEF Signed16
<1>7. mat = [N |-> mat.N, A |-> [c \in D |-> 0], B |-> [c \in D |-> 0]]
  BY <1>1, <1>5 DEF Init
<1>8. [c \in D |-> 0] \in [D -> Signed16]
  BY <1>6
<1>9. MatrixInv
  BY <1>5, <1>7, <1>8 DEF MatrixInv
<1>10. QED
  BY <1>4, <1>9

LEMMA InitList == ASSUME HistoryInit PROVE ListInv
<1>1. Init /\ InputInv
  BY InitInput DEF HistoryInit
<1>2. /\ pc = "items" /\ ms = SortStart(0, "idx", "cells") /\ fr = NoFrame /\ st = NoScan
      /\ heap = core_list_insert_new(EmptyList(Size), 1, 0, LastItem, Size)
      /\ res = [list |-> 0, crc |-> 0, crclist |-> 0, crcmatrix |-> 0, crcstate |-> 0, i |-> 0]
  BY <1>1 DEF Init
<1>3. Nodes \in Nat /\ Nodes >= 3 /\ Size = Nodes + 1 /\ in.seed1 \in Int
  BY <1>1, InputFacts
<1>4. Built(heap, Nodes, in.seed1, 2)
  <2>1. PICK n \in Nat : n = Nodes
    BY <1>3
  <2>2. PICK s \in Int : s = in.seed1
    BY <1>3
  <2>3. PICK h : h = heap
    OBVIOUS
  <2>4. n >= 3 /\ h = core_list_insert_new(EmptyList(n + 1), 1, 0, LastItem, n + 1)
    BY <1>2, <1>3, <2>1, <2>3
  <2>5. Built(h, n, s, 2)
    BY <2>4, FirstBuilt
  <2>6. QED
    BY <2>1, <2>2, <2>3, <2>5
<1>5. fr.i = 0 /\ Min2(fr.i + 2, Nodes) = 2
  BY <1>2, <1>3 DEF NoFrame, Min2
<1>6. res \in Results
  BY <1>2, ZeroInWord16 DEF Results
<1>7. ControlInv
  BY <1>2, <1>6, NoFrameType, NoScanType, SortStartType DEF ControlInv, Sorting, Scanning
<1>8. HeapInv
  BY <1>2, <1>4 DEF HeapInv, Built, OwnData
<1>9. OrderInv(0, 0)
  BY <1>2, <1>4, <1>5 DEF OrderInv, Listed, Ready, Merging
<1>10. PastInv(0, 0)
  BY <1>2 DEF PastInv, Building
<1>11. QED
  BY <1>7, <1>8, <1>9, <1>10 DEF ListInv

\* The inductive invariant of the list kernel: at every step the nodes are in
\* an order in which the links go, with the data the items were made with
\* (core_list_join.c).
THEOREM ListHolds ==
    ASSUME ZeroOnlyHead PROVE HistorySpec => [](InputInv /\ MatrixInv /\ ListInv)
<1>1. HistoryInit => InputInv /\ MatrixInv /\ ListInv
  BY InitInput, InitList
<1>2. InputInv /\ MatrixInv /\ ListInv /\ [HistoryNext]_hvars
          => (InputInv /\ MatrixInv /\ ListInv)'
  <2> SUFFICES ASSUME InputInv, MatrixInv, ListInv, [HistoryNext]_hvars
               PROVE  InputInv' /\ MatrixInv' /\ ListInv'
    OBVIOUS
  <2>1. CASE HistoryNext
    <3>1. Next /\ BeforeStep
      BY <2>1 DEF HistoryNext, BeforeStep
    <3>2. QED
      BY <3>1, InputStep, ListStep
  <2>2. CASE UNCHANGED hvars
    <3>1. UNCHANGED vars
      BY <2>2 DEF hvars
    <3>2. QED
      BY <2>2, <3>1, InputStep, StutterKeeps
  <2>3. QED
    BY <2>1, <2>2
<1>3. QED
  BY <1>1, <1>2, PTL DEF HistorySpec

\* What core_bench_matrix adds it takes off again.
LEMMA RestoredInit == ASSUME HistoryInit PROVE MatrixRestored
BY DEF HistoryInit, MatrixRestored
LEMMA RestoredStep ==
    ASSUME InputInv, MatrixInv, ListInv, MatrixRestored, [HistoryNext]_hvars PROVE MatrixRestored'
<1>1. CASE HistoryNext
  <2>1. Next
    BY <1>1 DEF HistoryNext
  <2>2. mat' = mat \/ InitCells
    BY <2>1, InputStep
  <2>3. CASE Building
    BY <1>1, <2>3 DEF HistoryNext, MatrixRestored
  <2>4. CASE ~ Building
    <3>1. pristine' = pristine
      BY <1>1, <2>4 DEF HistoryNext
    <3>2. ~ InitCells
      BY <2>4 DEF InitCells, Building
    <3>3. QED
      BY <2>2, <3>1, <3>2 DEF MatrixRestored
  <2>5. QED
    BY <2>3, <2>4
<1>2. CASE UNCHANGED hvars
  BY <1>2 DEF hvars, vars, MatrixRestored
<1>3. QED
  BY <1>1, <1>2

\* matrix_test subtracts again the constant it adds, in 16 bits: after every
\* call A is as core_init_matrix made it (core_matrix.c:127).
THEOREM MatrixStaysRestored == ASSUME ZeroOnlyHead PROVE HistorySpec => []MatrixRestored
<1>1. HistorySpec => [](InputInv /\ MatrixInv /\ ListInv)
  BY ListHolds
<1>2. HistoryInit => MatrixRestored
  BY RestoredInit
<1>3. InputInv /\ MatrixInv /\ ListInv /\ MatrixRestored /\ [HistoryNext]_hvars => MatrixRestored'
  BY RestoredStep
<1>4. QED
  BY <1>1, <1>2, <1>3, PTL DEF HistorySpec

-----------------------------------------------------------------------------
(* The blocks of the three kernels.                                         *)
SizesInv == InputInv /\ "N" \in DOMAIN mat

LEMMA SizesStep == ASSUME SizesInv, Next \/ UNCHANGED vars PROVE SizesInv'
<1>1. in' = in /\ DOMAIN block' = DOMAIN block
  BY InNext, BlockNext
<1>2. DOMAIN mat' = DOMAIN mat /\ mat'.N = mat.N
  <2>1. CASE InitCells
    BY <2>1 DEF InitCells, InitCell, SizesInv
  <2>2. CASE CalcMatrix
    BY <2>2 DEF CalcMatrix, SizesInv
  <2>3. CASE ~ InitCells /\ ~ CalcMatrix
    BY <2>3, OthersKeepMatrix
  <2>4. QED
    BY <2>1, <2>2, <2>3
<1>3. QED
  BY <1>1, <1>2 DEF SizesInv, InputInv

LEMMA AlignUpIs ==
    ASSUME NEW x \in Nat
    PROVE  \E q \in Nat : AlignUp(x) = 4 * q /\ 4 * q <= x + 3
<1>1. PICK q \in Nat : q = (x + 3) \div 4
  OBVIOUS
<1>2. 4 * q <= x + 3
  BY <1>1
<1>3. QED
  BY <1>1, <1>2 DEF AlignUp

LEMMA AlignedIs == ASSUME NEW q \in Nat PROVE AlignUp(4 * q) = 4 * q
BY DEF AlignUp

LEMMA SizesSuffice == ASSUME RoomToAlign, SizesInv PROVE BlocksDisjoint
<1>1. InputInv
  BY DEF SizesInv
<1>2. PICK T \in Nat : T = in.total /\ 120 <= T /\ T <= 2000
  BY <1>1, InputFacts DEF InputRecord
<1>3. PICK N \in Nat : N = mat.N /\ N * N * 8 < T
  BY <1>1, <1>2, MatrixSize
<1>4. PICK n \in Nat : n = N * N
  BY <1>3
<1>5. 8 * n + 3 <= T
  <2>1. PICK x \in Inputs : in = InOf(x)
    BY <1>1 DEF InputInv
  <2>2. T = SizeOf(x)
    BY <1>2, <2>1, InOfIs
  <2>3. T # 8 * (N * N) + 1 /\ T # 8 * (N * N) + 2
    BY <1>1, <1>2, <1>3, <2>2 DEF RoomToAlign, InputInv
  <2>4. n * 8 < T
    BY <1>3, <1>4
  <2>5. QED
    BY <1>4, <2>3, <2>4
<1>6. 12 * Size <= T
  <2>1. Size = (T \div 20) - 2
    BY <1>2 DEF Size, ListSize, PER_ITEM
  <2>2. QED
    BY <1>2, <2>1
<1>7. Size \in Int
  BY <1>1, InputFacts
<1>8. ASSUME NEW base \in 0 .. 3
      PROVE  /\ base + 12 * Size <= base + T
             /\ AlignUp((AlignUp(base + T) + 2 * n) + 2 * n) + 4 * n <= base + 2 * T
  <2>1. base \in Nat /\ base + T \in Nat
    OBVIOUS
  <2>2. PICK q \in Nat : AlignUp(base + T) = 4 * q /\ 4 * q <= base + T + 3
    BY <2>1, AlignUpIs
  <2>3. PICK p \in Nat : p = q + n
    OBVIOUS
  <2>4. (4 * q + 2 * n) + 2 * n = 4 * p
    BY <2>3
  <2>5. AlignUp((AlignUp(base + T) + 2 * n) + 2 * n) = 4 * p
    BY <2>2, <2>4, AlignedIs
  <2>6. 4 * p + 4 * n <= base + 2 * T
    BY <1>5, <2>1, <2>2, <2>3
  <2>7. base + 12 * Size <= base + T
    BY <1>6, <1>7, <2>1
  <2>8. QED
    BY <2>5, <2>6, <2>7
<1>9. QED
  BY <1>2, <1>3, <1>4, <1>8 DEF BlocksDisjoint

\* The list and the three matrices stay inside the blocks main assigns them,
\* for every size that leaves room to align (core_main.c:204-217).
THEOREM BlocksStayDisjoint == ASSUME RoomToAlign PROVE HistorySpec => []BlocksDisjoint
<1>1. HistoryInit => SizesInv
  <2> SUFFICES ASSUME HistoryInit PROVE SizesInv
    OBVIOUS
  <2>1. InputInv
    BY InitInput
  <2>2. "N" \in DOMAIN mat
    BY DEF HistoryInit, Init
  <2>3. QED
    BY <2>1, <2>2 DEF SizesInv
<1>2. SizesInv /\ [HistoryNext]_hvars => SizesInv'
  <2> SUFFICES ASSUME SizesInv, [HistoryNext]_hvars PROVE SizesInv'
    OBVIOUS
  <2>1. Next \/ UNCHANGED vars
    BY DEF HistoryNext, hvars
  <2>2. QED
    BY <2>1, SizesStep
<1>3. SizesInv => BlocksDisjoint
  BY SizesSuffice
<1>4. QED
  BY <1>1, <1>2, <1>3, PTL DEF HistorySpec

-----------------------------------------------------------------------------
(* The parts that a reversal or a merge leaves the list in.                 *)
Join(s, t) == s \o t
Front(s, k) == SubSeq(s, 1, k)
\* s holds the nodes from place lo to place hi.
Shows(s, w, lo, hi, z) ==
    /\ s \in Seq(Addr(z)) /\ Len(s) = hi - lo + 1
    /\ \A i \in 1 .. Len(s) : s[i] = w[lo + i - 1]

LEMMA JoinIs ==
    ASSUME NEW S, NEW s \in Seq(S), NEW t \in Seq(S), NEW u, u = Join(s, t)
    PROVE  /\ u \in Seq(S) /\ Len(u) = Len(s) + Len(t)
           /\ \A i \in 1 .. Len(u) : u[i] = IF i <= Len(s) THEN s[i] ELSE t[i - Len(s)]
BY DEF Join

LEMMA FrontIs ==
    ASSUME NEW S, NEW s \in Seq(S), NEW k \in 1 .. Len(s), NEW u, u = Front(s, k)
    PROVE  u \in Seq(S) /\ Len(u) = k /\ \A i \in 1 .. k : u[i] = s[i]
BY DEF Front

LEMMA JoinShows ==
    ASSUME NEW z, NEW w, NEW a \in Int, NEW b \in Int, NEW c \in Int, a <= b + 1, b <= c,
           NEW s, Shows(s, w, a, b, z), NEW t, Shows(t, w, b + 1, c, z), NEW u, u = Join(s, t)
    PROVE  Shows(u, w, a, c, z)
<1>1. s \in Seq(Addr(z)) /\ Len(s) = b - a + 1 /\ \A i \in 1 .. Len(s) : s[i] = w[a + i - 1]
  BY DEF Shows
<1>2. t \in Seq(Addr(z)) /\ Len(t) = c - b /\ \A i \in 1 .. Len(t) : t[i] = w[(b + 1) + i - 1]
  BY DEF Shows
<1>3. /\ u \in Seq(Addr(z)) /\ Len(u) = Len(s) + Len(t)
      /\ \A i \in 1 .. Len(u) : u[i] = IF i <= Len(s) THEN s[i] ELSE t[i - Len(s)]
  BY <1>1, <1>2, JoinIs
<1>4. Len(u) = c - a + 1
  BY <1>1, <1>2, <1>3
<1>5. ASSUME NEW i \in 1 .. Len(u) PROVE u[i] = w[a + i - 1]
  <2>0. i \in Int /\ 1 <= i /\ i <= c - a + 1
    BY <1>4
  <2>1. CASE i <= Len(s)
    <3>1. i \in 1 .. Len(s)
      BY <1>1, <2>0, <2>1
    <3>2. QED
      BY <1>1, <1>3, <2>1, <3>1
  <2>2. CASE ~ (i <= Len(s))
    <3>1. PICK k \in Int : k = i - Len(s)
      BY <1>1, <2>0
    <3>2. k \in 1 .. Len(t) /\ (b + 1) + k - 1 = a + i - 1
      BY <1>1, <1>2, <2>0, <2>2, <3>1
    <3>3. u[i] = t[k]
      BY <1>3, <2>2, <3>1
    <3>4. t[k] = w[(b + 1) + k - 1]
      BY <1>2, <3>2
    <3>5. QED
      BY <3>2, <3>3, <3>4
  <2>3. QED
    BY <2>1, <2>2
<1>6. QED
  BY <1>3, <1>4, <1>5 DEF Shows

LEMMA NilShows == ASSUME NEW z, NEW w, NEW a \in Int, NEW b \in Int, b = a - 1 PROVE Shows(Nil, w, a, b, z)
<1>1. Nil \in Seq(Addr(z)) /\ Len(Nil) = 0
  BY NoneIsSeq
<1>2. QED
  BY <1>1 DEF Shows

\* The rest of a list from place j on, and none behind its end.
LEMMA RestShows ==
    ASSUME NEW n \in Nat, NEW h, Pointers(h, n + 1), NEW w, NEW j \in Int, 1 <= j, j <= n + 1,
           \A i \in 1 .. n : w[i] \in Addr(n + 1), Chained(h, w, j, n),
           j <= n => h.next[w[n]] = NULL, NEW m, m = IF j <= n THEN w[j] ELSE NULL
    PROVE  Shows(ChainOf(h, m, n + 1), w, j, n, n + 1)
<1>1. PICK s : s = ChainOf(h, m, n + 1)
  OBVIOUS
<1>2. CASE j <= n
  <2>1. m = w[j] /\ j \in j .. n /\ \A i \in j .. n : w[i] \in Addr(n + 1)
    BY <1>2
  <2>2. h.next[w[n]] = NULL
    BY <1>2
  <2>3. n \in Int /\ n + 1 \in Nat
    OBVIOUS
  <2>4. Is(ChainOf(h, w[j], n + 1), w, j, Min2(n - j + 1, n + 1))
    BY <2>1, <2>2, <2>3, ChainAlong
  <2>5. Min2(n - j + 1, n + 1) = n - j + 1
    BY DEF Min2
  <2>6. Len(s) = n - j + 1 /\ \A x \in 1 .. n - j + 1 : s[x] = w[j + x - 1]
    BY <1>1, <2>1, <2>4, <2>5 DEF Is
  <2>7. m \in Addr(n + 1) \cup {NULL}
    BY <2>1
  <2>8. s \in Seq(Addr(n + 1))
    BY <1>1, <2>3, <2>7, ChainType
  <2>9. QED
    BY <1>1, <2>6, <2>8 DEF Shows
<1>3. CASE ~ (j <= n)
  <2>1. m = NULL /\ n = j - 1 /\ n + 1 \in Nat
    BY <1>3
  <2>2. ChainOf(h, m, n + 1) = Nil
    BY <2>1, ChainNull
  <2>3. QED
    BY <2>1, <2>2, NilShows
<1>4. QED
  BY <1>2, <1>3

\* The next c nodes, which the links hold together.
LEMMA RunShows ==
    ASSUME NEW n \in Nat, NEW h, Pointers(h, n + 1), NEW w, NEW a \in Nat, NEW c \in Nat, a + c <= n,
           \A i \in 1 .. n : w[i] \in Addr(n + 1), Chained(h, w, a + 1, a + c),
           NEW m \in Addr(n + 1) \cup {NULL}, c > 0 => m = w[a + 1]
    PROVE  Shows(ChainOf(h, m, c), w, a + 1, a + c, n + 1)
<1>1. PICK s : s = ChainOf(h, m, c)
  OBVIOUS
<1>2. n + 1 \in Nat
  OBVIOUS
<1>3. CASE c > 0
  <2>1. PICK lo \in Int : lo = a + 1
    OBVIOUS
  <2>2. PICK hi \in Int : hi = a + c
    OBVIOUS
  <2>3. m = w[lo] /\ lo \in lo .. hi /\ (\A i \in lo .. hi : w[i] \in Addr(n + 1)) /\ Chained(h, w, lo, hi)
    BY <1>3, <2>1, <2>2
  <2>4. Begins(ChainOf(h, w[lo], c), w, lo, Min2(hi - lo + 1, c))
    BY <1>2, <2>3, ChainBegins
  <2>5. Min2(hi - lo + 1, c) = c
    BY <2>1, <2>2 DEF Min2
  <2>6. Len(s) >= c /\ \A x \in 1 .. c : s[x] = w[lo + x - 1]
    BY <1>1, <2>3, <2>4, <2>5 DEF Begins
  <2>7. s \in Seq(Addr(n + 1)) /\ Len(s) <= c
    BY <1>1, <1>2, ChainType
  <2>8. Len(s) = c
    BY <2>6, <2>7
  <2>9. Shows(s, w, lo, hi, n + 1)
    BY <2>1, <2>2, <2>6, <2>7, <2>8 DEF Shows
  <2>10. QED
    BY <1>1, <2>1, <2>2, <2>9
<1>4. CASE c = 0
  <2>1. s = Nil
    BY <1>1, <1>2, <1>4, ChainZero
  <2>2. PICK lo \in Int : lo = a + 1
    OBVIOUS
  <2>3. PICK hi \in Int : hi = a + c
    OBVIOUS
  <2>4. hi = lo - 1
    BY <1>4, <2>2, <2>3
  <2>5. Shows(s, w, lo, hi, n + 1)
    BY <2>1, <2>4, NilShows
  <2>6. QED
    BY <1>1, <2>2, <2>3, <2>5
<1>5. QED
  BY <1>3, <1>4

LEMMA PrefixShows ==
    ASSUME NEW n \in Nat, n >= 3, heap \in HeapOf(n + 1), NEW w, Arranged(w, n), NEW a \in Nat, a <= n,
           Chained(heap, w, 1, a), NEW first, first = HeadOf(w, a), NEW last, last = TailOf(w, a)
    PROVE  Shows(Prefix(first, last), w, 1, a, n + 1)
<1>1. PICK s : s = Prefix(first, last)
  OBVIOUS
<1>2. Pointers(heap, n + 1) /\ n + 1 \in Nat
  BY HeapPointers
<1>3. Max = n + 1
  BY <1>2, MaxIs
<1>4. \A i \in 1 .. n : w[i] \in Addr(n + 1) /\ w[i] # NULL
  BY ArrangedIs
<1>5. CASE a = 0
  <2>1. s = Nil
    BY <1>1, <1>5 DEF Prefix, HeadOf, Nil
  <2>2. PICK z \in Int : z = 0
    OBVIOUS
  <2>3. Shows(s, w, 1, z, n + 1)
    BY <2>1, <2>2, NilShows
  <2>4. QED
    BY <1>1, <1>5, <2>2, <2>3
<1>6. CASE a > 0
  <2>1. first = w[1] /\ last = w[a] /\ first # NULL /\ first \in Addr(n + 1)
    BY <1>4, <1>6 DEF HeadOf, TailOf
  <2>2. PICK c : c = ChainOf(heap, first, n + 1)
    OBVIOUS
  <2>3. c \in Seq(Addr(n + 1))
    BY <1>2, <2>1, <2>2, ChainType
  <2>4. 1 \in 1 .. a /\ (\A i \in 1 .. a : w[i] \in Addr(n + 1)) /\ 1 \in Int /\ a \in Int
    BY <1>4, <1>6
  <2>5. Begins(ChainOf(heap, w[1], n + 1), w, 1, Min2(a - 1 + 1, n + 1))
    BY <1>2, <2>4, ChainBegins
  <2>6. Min2(a - 1 + 1, n + 1) = a
    BY DEF Min2
  <2>7. Len(c) >= a /\ \A x \in 1 .. a : c[x] = w[1 + x - 1]
    BY <2>1, <2>2, <2>5, <2>6 DEF Begins
  <2>8. Len(c) >= a /\ \A x \in 1 .. a : c[x] = w[x]
    BY <2>7
  <2>9. Len(c) \in Nat
    BY <2>3
  <2>10. \A i, j \in 1 .. n : w[i] = w[j] => i = j
    BY ArrangedIs
  <2>11. a \in 1 .. Len(c) /\ c[a] = last /\ \A j \in 1 .. a - 1 : c[j] # last
    <3>1. a \in 1 .. Len(c) /\ a \in 1 .. a
      BY <1>6, <2>8, <2>9
    <3>2. ASSUME NEW j \in 1 .. a - 1 PROVE c[j] # last
      <4>1. j \in 1 .. a /\ j \in 1 .. n /\ a \in 1 .. n /\ j # a
        BY <1>6
      <4>2. QED
        BY <2>1, <2>8, <2>10, <4>1
    <3>3. QED
      BY <2>1, <2>8, <3>1, <3>2
  <2>12. PICK k : k = CHOOSE i \in 1 .. Len(c) : c[i] = last /\ \A j \in 1 .. i - 1 : c[j] # last
    OBVIOUS
  <2>13. k \in 1 .. Len(c) /\ c[k] = last /\ \A j \in 1 .. k - 1 : c[j] # last
    BY <2>11, <2>12
  <2>14. k = a
    <3>1. k \in Int /\ a \in Int /\ 1 <= k /\ 1 <= a
      BY <1>6, <2>9, <2>13
    <3>2. ~ (k < a)
      BY <2>11, <2>13, <3>1
    <3>3. ~ (a < k)
      BY <2>11, <2>13, <3>1
    <3>4. QED
      BY <3>1, <3>2, <3>3
  <2>15. s = Front(c, a)
    BY <1>1, <1>3, <2>1, <2>2, <2>12, <2>14 DEF Prefix, Front
  <2>16. s \in Seq(Addr(n + 1)) /\ Len(s) = a /\ \A i \in 1 .. a : s[i] = c[i]
    BY <2>3, <2>11, <2>15, FrontIs
  <2>17. Shows(s, w, 1, a, n + 1)
    <3>1. Len(s) = a - 1 + 1
      BY <2>16
    <3>2. ASSUME NEW i \in 1 .. Len(s) PROVE s[i] = w[1 + i - 1]
      <4>1. i \in 1 .. a /\ 1 + i - 1 = i
        BY <2>16
      <4>2. QED
        BY <2>8, <2>16, <4>1
    <3>3. QED
      BY <2>16, <3>1, <3>2 DEF Shows
  <2>18. QED
    BY <1>1, <2>17
<1>7. QED
  BY <1>5, <1>6

\* All nodes, each once.
Covers(s, n) ==
    \E v : Shows(s, v, 1, n, n + 1) /\ v \in [1 .. n -> Addr(n)]
           /\ \A x \in Addr(n) : \E i \in 1 .. n : v[i] = x

LEMMA ReverseParts ==
    ASSUME NEW n \in Nat, n >= 3, heap \in HeapOf(n + 1), NEW w, NEW c, ReverseAt(heap, fr, w, n, c),
           pc = "reverse"
    PROVE  Covers(Parts, n)
<1>1. /\ Arranged(w, n) /\ c \in 0 .. n /\ fr.prev = TailOf(w, c) /\ fr.cur = From(w, n, c)
      /\ c > 0 => heap.next[w[1]] = NULL
      /\ \A x \in 2 .. c : heap.next[w[x]] = w[x - 1]
      /\ Chained(heap, w, c + 1, n) /\ (c < n => heap.next[w[n]] = NULL)
  BY DEF ReverseAt
<1>2. PICK a \in Nat : a = c /\ a <= n
  BY <1>1
<1>3. Pointers(heap, n + 1) /\ n + 1 \in Nat
  BY HeapPointers
<1>4. Max = n + 1
  BY <1>3, MaxIs
<1>5. \A i \in 1 .. n : w[i] \in Addr(n) /\ w[i] \in Addr(n + 1) /\ w[i] # NULL
  BY <1>1, ArrangedIs
<1> DEFINE v == [i \in 1 .. n |-> IF i <= a THEN w[a + 1 - i] ELSE w[i]]
<1>6. \A i \in 1 .. a : v[i] = w[a + 1 - i] /\ a + 1 - i \in 1 .. n
  BY <1>2
<1>7. \A i \in a + 1 .. n : v[i] = w[i]
  BY <1>2
<1>8. v \in [1 .. n -> Addr(n)]
  <2>1. ASSUME NEW i \in 1 .. n PROVE v[i] \in Addr(n)
    <3>1. i \in 1 .. a \/ i \in a + 1 .. n
      BY <1>2
    <3>2. i \in 1 .. a => v[i] \in Addr(n)
      BY <1>5, <1>6
    <3>3. i \in a + 1 .. n => v[i] \in Addr(n)
      BY <1>5, <1>7
    <3>4. QED
      BY <3>1, <3>2, <3>3
  <2>2. DOMAIN v = 1 .. n /\ v = [i \in 1 .. n |-> v[i]]
    OBVIOUS
  <2>3. QED
    BY <2>1, <2>2
<1>9. PICK q : q = v
  OBVIOUS
<1>10. /\ \A i \in 1 .. a : q[i] = w[a + 1 - i] /\ a + 1 - i \in 1 .. n
       /\ \A i \in a + 1 .. n : q[i] = w[i]
       /\ q \in [1 .. n -> Addr(n)]
  BY <1>6, <1>7, <1>8, <1>9
<1> HIDE DEF v
<1>11. \A x \in Addr(n) : \E i \in 1 .. n : q[i] = x
  <2> SUFFICES ASSUME NEW x \in Addr(n) PROVE \E i \in 1 .. n : q[i] = x
    OBVIOUS
  <2>1. PICK j \in 1 .. n : w[j] = x
    BY <1>1 DEF Arranged
  <2>2. CASE j <= a
    <3>1. PICK i \in 1 .. a : i = a + 1 - j
      BY <2>2
    <3>2. a + 1 - i = j /\ i \in 1 .. n
      BY <1>2, <3>1
    <3>3. QED
      BY <1>10, <2>1, <3>2
  <2>3. CASE ~ (j <= a)
    <3>1. j \in a + 1 .. n
      BY <1>2, <2>3
    <3>2. QED
      BY <1>10, <2>1, <3>1
  <2>4. QED
    BY <2>2, <2>3
<1>12. \A i \in 1 .. n : q[i] \in Addr(n + 1)
  <2>1. \A x \in Addr(n) : x \in Addr(n + 1)
    BY DEF Addr
  <2>2. QED
    BY <1>10, <2>1
<1>13. PICK s : s = ChainOf(heap, fr.prev, n + 1)
  OBVIOUS
<1>14. PICK t : t = ChainOf(heap, fr.cur, n + 1)
  OBVIOUS
<1>15. Shows(s, q, 1, a, n + 1)
  <2>1. CASE a = 0
    <3>1. fr.prev = NULL
      BY <1>1, <1>2, <2>1 DEF TailOf
    <3>2. s = Nil
      BY <1>3, <1>13, <3>1, ChainNull
    <3>3. PICK z \in Int : z = 0
      OBVIOUS
    <3>4. Shows(s, q, 1, z, n + 1)
      BY <3>2, <3>3, NilShows
    <3>5. QED
      BY <2>1, <3>3, <3>4
  <2>2. CASE a > 0
    <3>1. 1 \in 1 .. a /\ a \in 1 .. a /\ 1 \in Int /\ a \in Int
      BY <2>2
    <3>2. q[1] = w[a] /\ q[a] = w[1] /\ fr.prev = q[1]
      <4>1. a + 1 - 1 = a /\ a + 1 - a = 1
        OBVIOUS
      <4>2. q[1] = w[a] /\ q[a] = w[1]
        BY <1>10, <3>1, <4>1
      <4>3. QED
        BY <1>1, <1>2, <2>2, <4>2 DEF TailOf
    <3>3. Chained(heap, q, 1, a)
      <4> SUFFICES ASSUME NEW x \in 1 .. a - 1 PROVE heap.next[q[x]] = q[x + 1]
        BY DEF Chained
      <4>1. x \in 1 .. a /\ x + 1 \in 1 .. a
        OBVIOUS
      <4>2. PICK y \in 2 .. c : y = a + 1 - x
        BY <1>2
      <4>3. a + 1 - (x + 1) = y - 1
        BY <4>2
      <4>4. q[x] = w[y] /\ q[x + 1] = w[y - 1]
        BY <1>10, <4>1, <4>2, <4>3
      <4>5. QED
        BY <1>1, <4>2, <4>4
    <3>4. \A i \in 1 .. a : q[i] \in Addr(n + 1)
      BY <1>2, <1>12
    <3>5. heap.next[q[a]] = NULL
      BY <1>1, <1>2, <2>2, <3>2
    <3>6. Is(ChainOf(heap, q[1], n + 1), q, 1, Min2(a - 1 + 1, n + 1))
      BY <1>3, <3>1, <3>3, <3>4, <3>5, ChainAlong
    <3>7. Min2(a - 1 + 1, n + 1) = a - 1 + 1
      BY <1>2 DEF Min2
    <3>8. Len(s) = a - 1 + 1 /\ \A x \in 1 .. a - 1 + 1 : s[x] = q[1 + x - 1]
      BY <1>13, <3>2, <3>6, <3>7 DEF Is
    <3>9. q[1] \in Addr(n + 1) \cup {NULL}
      BY <3>1, <3>4
    <3>10. s \in Seq(Addr(n + 1))
      BY <1>3, <1>13, <3>2, <3>9, ChainType
    <3>11. QED
      BY <3>8, <3>10 DEF Shows
  <2>3. QED
    BY <2>1, <2>2
<1>16. Shows(t, q, a + 1, n, n + 1)
  <2>1. PICK j \in Int : j = a + 1
    OBVIOUS
  <2>2. 1 <= j /\ j <= n + 1
    BY <1>2, <2>1
  <2>3. Chained(heap, q, j, n)
    <3> SUFFICES ASSUME NEW x \in j .. n - 1 PROVE heap.next[q[x]] = q[x + 1]
      BY DEF Chained
    <3>1. x \in a + 1 .. n /\ x + 1 \in a + 1 .. n /\ x \in c + 1 .. n - 1
      BY <1>2, <2>1
    <3>2. QED
      BY <1>1, <1>10, <3>1 DEF Chained
  <2>4. j <= n => heap.next[q[n]] = NULL
    <3>1. j <= n => n \in a + 1 .. n /\ c < n
      BY <1>2, <2>1
    <3>2. QED
      BY <1>1, <1>10, <3>1
  <2>5. fr.cur = IF j <= n THEN q[j] ELSE NULL
    <3>1. fr.cur = IF a < n THEN w[a + 1] ELSE NULL
      BY <1>1, <1>2 DEF From
    <3>2. j <= n => j \in a + 1 .. n
      BY <2>1
    <3>3. QED
      BY <1>2, <1>10, <2>1, <3>1, <3>2
  <2>6. Shows(t, q, j, n, n + 1)
    BY <1>3, <1>12, <1>14, <2>2, <2>3, <2>4, <2>5, RestShows
  <2>7. QED
    BY <2>1, <2>6
<1>17. Shows(Join(s, t), q, 1, n, n + 1)
  <2>1. PICK b \in Int : b = a
    OBVIOUS
  <2>2. Shows(s, q, 1, b, n + 1) /\ Shows(t, q, b + 1, n, n + 1) /\ 1 <= b + 1 /\ b <= n
    BY <1>2, <1>15, <1>16, <2>1
  <2>3. 1 \in Int /\ n \in Int
    OBVIOUS
  <2>4. QED
    BY <2>2, <2>3, JoinShows
<1>18. Parts = Join(s, t)
  BY <1>4, <1>13, <1>14 DEF Parts, Join
<1>19. QED
  BY <1>10, <1>11, <1>17, <1>18 DEF Covers

LEMMA ArrangedCovers ==
    ASSUME NEW n \in Nat, NEW w, Arranged(w, n), NEW s, Shows(s, w, 1, n, n + 1)
    PROVE  Covers(s, n)
BY DEF Covers, Arranged

LEMMA PassParts ==
    ASSUME NEW n \in Nat, n >= 3, heap \in HeapOf(n + 1), NEW w, NEW r,
           PassState(heap, ms, r, w, n), pc = "pass"
    PROVE  Covers(Parts, n)
<1>1. PICK a \in 0 .. n : PassAt(heap, ms, w, n, a)
  BY DEF PassState, PassAt
<1>2. /\ Arranged(w, n) /\ ms.list = HeadOf(w, a) /\ ms.tail = TailOf(w, a) /\ ms.p = From(w, n, a)
      /\ Chained(heap, w, 1, a) /\ Chained(heap, w, a + 1, n)
      /\ a < n => heap.next[w[n]] = NULL
  BY <1>1 DEF PassAt
<1>3. a \in Nat /\ a <= n /\ a \in Int
  OBVIOUS
<1>4. Pointers(heap, n + 1) /\ n + 1 \in Nat
  BY HeapPointers
<1>5. Max = n + 1
  BY <1>4, MaxIs
<1>6. \A i \in 1 .. n : w[i] \in Addr(n + 1)
  BY <1>2, ArrangedIs
<1>7. PICK s : s = Prefix(ms.list, ms.tail)
  OBVIOUS
<1>8. PICK t : t = ChainOf(heap, ms.p, n + 1)
  OBVIOUS
<1>9. Shows(s, w, 1, a, n + 1)
  BY <1>2, <1>3, <1>7, PrefixShows
<1>10. Shows(Join(s, Nil), w, 1, a, n + 1)
  <2>1. PICK j \in Int : j = a + 1
    OBVIOUS
  <2>2. Shows(Nil, w, j, a, n + 1)
    BY <1>3, <2>1, NilShows
  <2>3. Shows(Nil, w, a + 1, a, n + 1) /\ 1 <= a + 1 /\ a <= a
    BY <1>3, <2>1, <2>2
  <2>4. 1 \in Int
    OBVIOUS
  <2>5. QED
    BY <1>3, <1>9, <2>3, <2>4, JoinShows
<1>11. Shows(t, w, a + 1, n, n + 1)
  <2>1. PICK j \in Int : j = a + 1
    BY <1>3
  <2>2. /\ 1 <= j /\ j <= n + 1 /\ Chained(heap, w, j, n) /\ (j <= n => heap.next[w[n]] = NULL)
        /\ ms.p = IF j <= n THEN w[j] ELSE NULL
    BY <1>2, <1>3, <2>1 DEF From
  <2>3. Shows(t, w, j, n, n + 1)
    BY <1>4, <1>6, <1>8, <2>2, RestShows
  <2>4. QED
    BY <2>1, <2>3
<1>12. Shows(Join(Join(s, Nil), t), w, 1, n, n + 1)
  <2>1. 1 \in Int /\ n \in Int /\ 1 <= a + 1
    BY <1>3
  <2>2. PICK x : x = Join(s, Nil)
    OBVIOUS
  <2>3. QED
    BY <1>3, <1>10, <1>11, <2>1, <2>2, JoinShows
<1>13. Parts = Join(Join(s, Nil), t)
  BY <1>5, <1>7, <1>8 DEF Parts, Join, Nil
<1>14. QED
  BY <1>2, <1>12, <1>13, ArrangedCovers

LEMMA MergeParts ==
    ASSUME NEW n \in Nat, n >= 3, heap \in HeapOf(n + 1), NEW w, NEW r,
           MergeState(heap, ms, r, w, n), pc # "pass", pc # "reverse"
    PROVE  Covers(Parts, n)
<1>1. PICK a \in 0 .. n : MergeAt(heap, ms, w, n, a)
  BY DEF MergeState, MergeAt
<1>2. /\ Arranged(w, n) /\ ms.psize \in Nat /\ a + ms.psize <= n
      /\ ms.list = HeadOf(w, a) /\ ms.tail = TailOf(w, a)
      /\ ms.p \in Addr(n + 1) \cup {NULL} /\ (ms.psize > 0 => ms.p = w[a + 1])
      /\ ms.q = From(w, n, a + ms.psize)
      /\ Chained(heap, w, 1, a) /\ Chained(heap, w, a + 1, a + ms.psize)
      /\ Chained(heap, w, a + ms.psize + 1, n)
      /\ a + ms.psize < n => heap.next[w[n]] = NULL
  BY <1>1 DEF MergeAt
<1>3. a \in Nat /\ a <= n /\ a \in Int
  OBVIOUS
<1>4. Pointers(heap, n + 1) /\ n + 1 \in Nat
  BY HeapPointers
<1>5. Max = n + 1
  BY <1>4, MaxIs
<1>6. \A i \in 1 .. n : w[i] \in Addr(n + 1)
  BY <1>2, ArrangedIs
<1>7. PICK s : s = Prefix(ms.list, ms.tail)
  OBVIOUS
<1>8. PICK u : u = ChainOf(heap, ms.p, ms.psize)
  OBVIOUS
<1>9. PICK t : t = ChainOf(heap, ms.q, n + 1)
  OBVIOUS
<1>10. PICK c \in Nat : c = ms.psize
  BY <1>2
<1>11. Shows(s, w, 1, a, n + 1)
  BY <1>2, <1>3, <1>7, PrefixShows
<1>12. Shows(u, w, a + 1, a + c, n + 1)
  <2>1. /\ a + c <= n /\ Chained(heap, w, a + 1, a + c) /\ u = ChainOf(heap, ms.p, c)
        /\ c > 0 => ms.p = w[a + 1]
    BY <1>2, <1>8, <1>10
  <2>2. PICK m \in Addr(n + 1) \cup {NULL} : m = ms.p
    BY <1>2
  <2>3. Shows(ChainOf(heap, m, c), w, a + 1, a + c, n + 1)
    BY <1>3, <1>4, <1>6, <2>1, <2>2, RunShows
  <2>4. QED
    BY <2>1, <2>2, <2>3
<1>13. PICK e \in Int : e = a + c
  BY <1>3
<1>14. Shows(t, w, e + 1, n, n + 1)
  <2>1. PICK j \in Int : j = e + 1
    OBVIOUS
  <2>2. a + ms.psize = e /\ e <= n /\ e >= 0
    BY <1>2, <1>3, <1>10, <1>13
  <2>3. /\ 1 <= j /\ j <= n + 1 /\ Chained(heap, w, j, n) /\ (j <= n => heap.next[w[n]] = NULL)
        /\ ms.q = IF j <= n THEN w[j] ELSE NULL
    BY <1>2, <2>1, <2>2 DEF From
  <2>4. Shows(t, w, j, n, n + 1)
    BY <1>4, <1>6, <1>9, <2>3, RestShows
  <2>5. QED
    BY <2>1, <2>4
<1>15. Shows(Join(s, u), w, 1, e, n + 1)
  <2>1. 1 \in Int /\ 1 <= a + 1 /\ a <= e /\ Shows(u, w, a + 1, e, n + 1)
    BY <1>3, <1>12, <1>13
  <2>2. QED
    BY <1>3, <1>11, <2>1, JoinShows
<1>16. Shows(Join(Join(s, u), t), w, 1, n, n + 1)
  <2>1. 1 \in Int /\ n \in Int /\ 1 <= e + 1 /\ e <= n
    BY <1>2, <1>3, <1>10, <1>13
  <2>2. PICK x : x = Join(s, u)
    OBVIOUS
  <2>3. QED
    BY <1>14, <1>15, <2>1, <2>2, JoinShows
<1>17. Parts = Join(Join(s, u), t)
  BY <1>5, <1>7, <1>8, <1>9 DEF Parts, Join
<1>18. QED
  BY <1>2, <1>16, <1>17, ArrangedCovers

IdxOf(h, s) == {Info(h, s[i]).idx : i \in 1 .. Len(s)}
IdxIn(b, n) == {b[i].idx : i \in 1 .. n}
SameIdx(b, h, n) == /\ DOMAIN b = 1 .. n
                    /\ \A i \in 1 .. n : \E x \in Addr(n) : b[i].idx = h.data[x].idx
                    /\ \A x \in Addr(n) : \E i \in 1 .. n : b[i].idx = h.data[x].idx
OwnInfo(h, n) == \A x \in Addr(n) : h.info[x] = x

LEMMA CoversIdx ==
    ASSUME NEW n \in Nat, NEW h, NEW s, NEW b, SameIdx(b, h, n), OwnInfo(h, n + 1), Covers(s, n)
    PROVE  Len(s) = n /\ IdxOf(h, s) = IdxIn(b, n)
<1> USE DEF SameIdx, OwnInfo
<1>1. PICK v : /\ Shows(s, v, 1, n, n + 1) /\ v \in [1 .. n -> Addr(n)]
               /\ \A x \in Addr(n) : \E i \in 1 .. n : v[i] = x
  BY DEF Covers
<1>2. Len(s) = n /\ \A i \in 1 .. n : s[i] = v[i]
  <2>1. Len(s) = n - 1 + 1 /\ \A i \in 1 .. Len(s) : s[i] = v[1 + i - 1]
    BY <1>1 DEF Shows
  <2>2. Len(s) = n
    BY <2>1
  <2>3. \A i \in 1 .. n : 1 + i - 1 = i
    OBVIOUS
  <2>4. QED
    BY <2>1, <2>2, <2>3
<1>3. \A i \in 1 .. n : v[i] \in Addr(n) /\ v[i] \in Addr(n + 1)
  BY <1>1 DEF Addr
<1>4. \A i \in 1 .. n : Info(h, s[i]).idx = h.data[v[i]].idx
  BY <1>2, <1>3 DEF Info
<1>5. ASSUME NEW i \in 1 .. n PROVE Info(h, s[i]).idx \in {b[j].idx : j \in 1 .. n}
  <2>1. PICK x \in Addr(n) : x = v[i]
    BY <1>3
  <2>2. PICK j \in 1 .. n : b[j].idx = h.data[x].idx
    OBVIOUS
  <2>3. Info(h, s[i]).idx = b[j].idx
    BY <1>4, <2>1, <2>2
  <2>4. QED
    BY <2>3
<1>6. ASSUME NEW j \in 1 .. n PROVE b[j].idx \in {Info(h, s[i]).idx : i \in 1 .. n}
  <2>1. PICK x \in Addr(n) : b[j].idx = h.data[x].idx
    OBVIOUS
  <2>2. PICK i \in 1 .. n : v[i] = x
    BY <1>1
  <2>3. QED
    BY <1>4, <2>1, <2>2
<1>7. {Info(h, s[i]).idx : i \in 1 .. n} = {b[i].idx : i \in 1 .. n}
  BY <1>5, <1>6
<1>8. QED
  BY <1>2, <1>7 DEF IdxOf, IdxIn

LEMMA FunctionLen ==
    ASSUME NEW n \in Nat, NEW S, NEW b \in [1 .. n -> S] PROVE Len(b) = n
OBVIOUS

LEMMA PartsWhole == ASSUME InputInv, ListInv PROVE NoNodeLost
<1> SUFFICES ASSUME Busy, ~ Building
             PROVE  /\ Len(Parts) = Len(before)
                    /\ {Info(heap, Parts[i]).idx : i \in 1 .. Len(Parts)}
                           = {before[i].idx : i \in 1 .. Len(before)}
  BY DEF NoNodeLost
<1>1. PICK w, r : OrderInv(w, r) /\ PastInv(w, r)
  BY DEF ListInv
<1>2. ControlInv /\ HeapInv
  BY DEF ListInv
<1>3. PICK n \in Nat : n = Nodes /\ n >= 3 /\ heap \in HeapOf(n + 1)
  BY <1>2, InputFacts DEF HeapInv
<1>4. \A x \in Addr(n + 1) : heap.info[x] = x
  BY <1>2, <1>3 DEF HeapInv, OwnData, Busy, Sorting
<1>5. \A x \in Addr(n) : x \in Addr(n + 1)
  BY DEF Addr
<1>6. heap.data \in [Addr(n + 1) -> Datum]
  BY <1>3, HeapPointers
<1>7. /\ Covers(Parts, n) /\ before \in [1 .. n -> Datum]
      /\ \A i \in 1 .. n : \E x \in Addr(n) : before[i].idx = heap.data[x].idx
      /\ \A x \in Addr(n) : \E i \in 1 .. n : before[i].idx = heap.data[x].idx
  <2>1. CASE pc = "reverse"
    <3>1. PICK c : ReverseAt(heap, fr, w, n, c)
      BY <1>1, <1>3, <2>1 DEF OrderInv
    <3>2. Arranged(w, n)
      BY <3>1 DEF ReverseAt
    <3>3. before = [i \in 1 .. n |-> heap.data[w[i]]]
      BY <1>1, <1>3, <2>1 DEF PastInv
    <3>4. \A i \in 1 .. n : w[i] \in Addr(n) /\ w[i] \in Addr(n + 1)
      BY <3>2, ArrangedIs
    <3>5. \A i \in 1 .. n : heap.data[w[i]] \in Datum
      BY <1>6, <3>4
    <3>6. before \in [1 .. n -> Datum]
      BY <3>3, <3>5
    <3>7. \A x \in Addr(n) : \E i \in 1 .. n : w[i] = x
      BY <3>2 DEF Arranged
    <3>8. \A i \in 1 .. n : before[i].idx = heap.data[w[i]].idx
      BY <3>3
    <3>9. Covers(Parts, n)
      BY <1>3, <2>1, <3>1, ReverseParts
    <3>10. QED
      BY <3>4, <3>6, <3>7, <3>8, <3>9
  <2>2. CASE Sorting
    <3>1. Ranked(before, heap.data, r, n, ms.cmp)
      BY <1>1, <1>3, <2>2 DEF PastInv
    <3>2. Covers(Parts, n)
      <4>1. CASE pc = "pass"
        <5>1. PassState(heap, ms, r, w, n)
          BY <1>1, <1>3, <4>1 DEF OrderInv
        <5>2. QED
          BY <1>3, <4>1, <5>1, PassParts
      <4>2. CASE pc # "pass"
        <5>1. Merging /\ pc # "reverse"
          BY <2>2, <4>2 DEF Merging, Sorting
        <5>2. MergeState(heap, ms, r, w, n)
          BY <1>1, <1>3, <5>1 DEF OrderInv
        <5>3. QED
          BY <1>3, <4>2, <5>1, <5>2, MergeParts
      <4>3. QED
        BY <4>1, <4>2
    <3>3. \A i \in 1 .. n : \E x \in Addr(n) : r[x] = i
      BY <3>1 DEF Ranked
    <3>4. \A x \in Addr(n) : heap.data[x].idx = before[r[x]].idx
      BY <3>1 DEF Ranked, Alike
    <3>5. Ranks(r, n)
      <4>1. PassState(heap, ms, r, w, n) \/ MergeState(heap, ms, r, w, n)
        BY <1>1, <1>3, <2>2 DEF OrderInv, Sorting, Merging
      <4>2. QED
        BY <4>1 DEF PassState, MergeState
    <3>6. \A x \in Addr(n) : r[x] \in 1 .. n
      BY <3>5 DEF Ranks
    <3>7. before \in [1 .. n -> Datum]
      BY <3>1 DEF Ranked
    <3>8. \A i \in 1 .. n : \E x \in Addr(n) : before[i].idx = heap.data[x].idx
      BY <3>3, <3>4
    <3>9. \A x \in Addr(n) : \E i \in 1 .. n : before[i].idx = heap.data[x].idx
      BY <3>4, <3>6
    <3>10. QED
      BY <3>2, <3>7, <3>8, <3>9
  <2>3. QED
    BY <2>1, <2>2 DEF Busy
<1>8. Len(before) = n /\ DOMAIN before = 1 .. n
  BY <1>7, FunctionLen
<1>9. PICK s : s = Parts
  OBVIOUS
<1>10. PICK b : b = before
  OBVIOUS
<1>11. PICK h : h = heap
  OBVIOUS
<1>14. SameIdx(b, h, n)
  BY <1>7, <1>8, <1>10, <1>11 DEF SameIdx
<1>15. OwnInfo(h, n + 1)
  BY <1>4, <1>11 DEF OwnInfo
<1>16. Covers(s, n)
  BY <1>7, <1>9
<1>12. Len(s) = n /\ IdxOf(h, s) = IdxIn(b, n)
  BY <1>3, <1>14, <1>15, <1>16, CoversIdx
<1>13. QED
  BY <1>8, <1>9, <1>10, <1>11, <1>12 DEF IdxOf, IdxIn

\* No step of a reversal or of a merge drops a node of the list or links one
\* twice (core_list_join.c:464, :499).
THEOREM NoNodeGetsLost == ASSUME ZeroOnlyHead PROVE HistorySpec => []NoNodeLost
<1>1. HistorySpec => [](InputInv /\ MatrixInv /\ ListInv)
  BY ListHolds
<1>2. InputInv /\ MatrixInv /\ ListInv => NoNodeLost
  BY PartsWhole
<1>3. QED
  BY <1>1, <1>2, PTL

-----------------------------------------------------------------------------
(* The scans of core_bench_state end inside the block.                      *)
\* The last two bytes of the block are zeros; the corruption may hit one.
LastTwo(T) == {T - 2, T - 1}
ZerosAt(b, T) == b[T - 2] = NUL /\ b[T - 1] = NUL
ZerosHit(b, T, step, s) == \A i \in LastTwo(T) : b[i] = IF i % step = 0 THEN s ELSE NUL
NotPast(p, b, T) == \E i \in Nat : p <= i /\ i <= T - 1 /\ b[i] = NUL
ZerosInv ==
    /\ pc # "scan2" => ZerosAt(block, in.total)
    /\ pc = "scan2" => ZerosHit(block, in.total, st.step, U8(in.seed1))
    /\ Scanning => st.step >= 34 /\ NotPast(st.p, block, in.total)

LEMMA U8Is == ASSUME NEW x \in Int PROVE U8(x) \in 0 .. 255 /\ U8(x) \in Int /\ 0 <= U8(x) /\ U8(x) <= 255
BY DEF U8

LEMMA SeedByte ==
    ASSUME InputInv, ZerosReturn
    PROVE  \E s \in Int : /\ 0 <= s /\ s <= 255 /\ s # Comma /\ s = U8(in.seed1) /\ s = U8(in.seed2)
                          /\ XorByte(NUL, s) = s /\ XorByte(s, s) = NUL
<1>1. PICK x \in Inputs : in = InOf(x)
  BY DEF InputInv
<1>2. in.seed1 = Defaults(x).seed1 /\ in.seed2 = Defaults(x).seed2
  BY <1>1, InOfIs
<1>3. in.seed1 \in Int
  BY InputFacts
<1>4. PICK s \in Int : s = U8(in.seed1) /\ 0 <= s /\ s <= 255
  BY <1>3, U8Is
<1>5. s # Comma /\ s = U8(in.seed2)
  BY <1>2, <1>4 DEF ZerosReturn
<1>6. s \in 0 .. 255
  BY <1>4, InRange
<1>7. XorByte(0, s) = s
  BY <1>6, XorZero
<1>8. XorByte(XorByte(0, s), s) = 0
  <2>1. 0 \in 0 .. 255
    OBVIOUS
  <2>2. QED
    BY <2>1, <1>4, XorTwice
<1>9. QED
  BY <1>4, <1>5, <1>7, <1>8 DEF NUL

\* What the loops of core_bench_state write.
LEMMA XorEveryAt ==
    ASSUME NEW T \in Nat, NEW b, DOMAIN b = 0 .. T - 1, NEW step, NEW seed, NEW e, e = XorEvery(b, step, seed)
    PROVE  /\ DOMAIN e = 0 .. T - 1
           /\ \A i \in 0 .. T - 1 : /\ i % step = 0 /\ b[i] # Comma => e[i] = XorByte(b[i], U8(seed))
                                    /\ ~ (i % step = 0 /\ b[i] # Comma) => e[i] = b[i]
BY DEF XorEvery

\* Corrupting the zeros, and taking it back.
LEMMA CorruptZeros ==
    ASSUME NEW T \in Nat, T >= 120, NEW b, DOMAIN b = 0 .. T - 1, NEW step, NEW seed, NEW s,
           s = U8(seed), XorByte(NUL, s) = s, ZerosAt(b, T), NEW e, e = XorEvery(b, step, seed)
    PROVE  ZerosHit(e, T, step, s)
<1> SUFFICES ASSUME NEW i \in LastTwo(T) PROVE e[i] = IF i % step = 0 THEN s ELSE NUL
  BY DEF ZerosHit
<1>1. i \in 0 .. T - 1
  BY DEF LastTwo
<1>2. b[i] = NUL
  BY DEF LastTwo, ZerosAt
<1>3. NUL # Comma
  BY DEF NUL, Comma
<1>4. /\ i % step = 0 /\ b[i] # Comma => e[i] = XorByte(b[i], U8(seed))
      /\ ~ (i % step = 0 /\ b[i] # Comma) => e[i] = b[i]
  BY <1>1, XorEveryAt
<1>5. QED
  BY <1>2, <1>3, <1>4

LEMMA RestoreZeros ==
    ASSUME NEW T \in Nat, T >= 120, NEW b, DOMAIN b = 0 .. T - 1, NEW step, NEW seed, NEW s,
           s = U8(seed), s # Comma, XorByte(s, s) = NUL, ZerosHit(b, T, step, s),
           NEW e, e = XorEvery(b, step, seed)
    PROVE  ZerosAt(e, T)
<1>1. ASSUME NEW i \in LastTwo(T) PROVE e[i] = NUL
  <2>1. i \in 0 .. T - 1
    BY DEF LastTwo
  <2>2. b[i] = IF i % step = 0 THEN s ELSE NUL
    BY DEF ZerosHit
  <2>3. /\ i % step = 0 /\ b[i] # Comma => e[i] = XorByte(b[i], U8(seed))
        /\ ~ (i % step = 0 /\ b[i] # Comma) => e[i] = b[i]
    BY <2>1, XorEveryAt
  <2>4. QED
    BY <2>2, <2>3
<1>2. QED
  BY <1>1 DEF LastTwo, ZerosAt

\* One of two neighbours is no multiple of a step of at least 34.
LEMMA OneZeroLeft ==
    ASSUME NEW T \in Nat, T >= 120, NEW b, NEW step \in Nat, step >= 34, NEW s, ZerosHit(b, T, step, s)
    PROVE  NotPast(0, b, T)
<1>1. (T - 2) % step # 0 \/ (T - 1) % step # 0
  <2>1. SUFFICES ASSUME (T - 2) % step = 0, (T - 1) % step = 0 PROVE FALSE
    OBVIOUS
  <2>2. PICK q \in Int : q = (T - 2) \div step
    OBVIOUS
  <2>3. PICK p \in Int : p = (T - 1) \div step
    OBVIOUS
  <2>4. T - 2 = step * q /\ T - 1 = step * p
    BY <2>1, <2>2, <2>3
  <2>5. step * (p - q) = 1
    BY <2>4
  <2>6. PICK d \in Int : d = p - q /\ step * d = 1
    BY <2>5
  <2>7. d <= 0 \/ d >= 1
    OBVIOUS
  <2>8. QED
    BY <2>6, <2>7
<1>2. T - 2 \in Nat /\ T - 1 \in Nat
  OBVIOUS
<1>3. PICK i \in LastTwo(T) : i % step # 0
  BY <1>1 DEF LastTwo
<1>4. b[i] = NUL
  BY <1>3 DEF ZerosHit
<1>5. i \in Nat /\ i <= T - 1
  BY <1>2, <1>3 DEF LastTwo
<1>6. QED
  BY <1>4, <1>5 DEF NotPast

LEMMA BlockIs ==
    ASSUME InputInv
    PROVE  \E T \in Nat : T = in.total /\ T >= 120 /\ DOMAIN block = 0 .. T - 1
BY InputFacts DEF InputInv, InputRecord

LEMMA ZerosInit == ASSUME HistoryInit PROVE ZerosInv
<1>1. Init /\ InputInv
  BY InitInput DEF HistoryInit
<1>2. PICK T \in Nat : T = in.total /\ T >= 120
  BY <1>1, BlockIs
<1>3. block = [i \in 0 .. T - 1 |-> NUL] /\ pc = "items"
  BY <1>1, <1>2 DEF Init
<1>4. T - 2 \in 0 .. T - 1 /\ T - 1 \in 0 .. T - 1
  BY <1>2
<1>5. QED
  BY <1>2, <1>3, <1>4 DEF ZerosInv, ZerosAt, Scanning

LEMMA InitTextZeros == ASSUME InputInv, ListInv, ZerosInv, InitText PROVE ZerosInv'
<1>1. PICK T \in Nat : T = in.total /\ T >= 120 /\ DOMAIN block = 0 .. T - 1
  BY BlockIs
<1>2. /\ pc = "text" /\ pc' = pc /\ in' = in /\ block' = PutPattern(block, st.p, NextPattern)
      /\ HasRoom(st.p, Len(NextPattern), in.total)
  BY DEF InitText
<1>3. PICK p \in Nat : p = st.p
  BY DEF ListInv, ControlInv, Scan
<1>4. PICK k \in Nat : k = Len(NextPattern)
  <2>1. in.seed1 + st.step + 1 \in Int
    BY InputFacts DEF ListInv, ControlInv, Scan
  <2>2. QED
    BY <2>1, PatternText DEF NextPattern, IsText
<1>5. p + k + 1 < T - 1
  BY <1>1, <1>2, <1>3, <1>4 DEF HasRoom
<1>6. \A i \in LastTwo(T) : i \in 0 .. T - 1 /\ i \notin p .. p + k - 1 /\ i # p + k
  BY <1>1, <1>5 DEF LastTwo
<1>7. \A i \in LastTwo(T) : block'[i] = block[i]
  BY <1>1, <1>2, <1>3, <1>4, <1>6 DEF PutPattern
<1>8. ZerosAt(block, T)
  BY <1>1, <1>2 DEF ZerosInv
<1>9. ZerosAt(block', T)
  BY <1>7, <1>8 DEF ZerosAt, LastTwo
<1>10. QED
  BY <1>1, <1>2, <1>9 DEF ZerosInv, Scanning

LEMMA EndTextZeros == ASSUME InputInv, ListInv, ZerosInv, EndText PROVE ZerosInv'
<1>1. PICK T \in Nat : T = in.total /\ T >= 120 /\ DOMAIN block = 0 .. T - 1
  BY BlockIs
<1>2. pc = "text" /\ pc' = "iterate" /\ in' = in /\ block' = FillZero(block, st.p)
  BY DEF EndText
<1>3. \A i \in LastTwo(T) : i \in 0 .. T - 1
  BY <1>1 DEF LastTwo
<1>4. ZerosAt(block, T)
  BY <1>1, <1>2 DEF ZerosInv
<1>5. ZerosAt(block', T)
  BY <1>1, <1>2, <1>3, <1>4 DEF ZerosAt, LastTwo, FillZero
<1>6. QED
  BY <1>1, <1>2, <1>5 DEF ZerosInv, Scanning

LEMMA CalcStateZeros == ASSUME InputInv, ListInv, ZerosInv, CalcState PROVE ZerosInv'
<1>1. PICK T \in Nat : T = in.total /\ T >= 120 /\ DOMAIN block = 0 .. T - 1
  BY BlockIs
<1>2. PICK n \in {ms.p, ms.q} : Computing(n) /\ st' = [NoScan EXCEPT !.step = Period(n), !.caller = n]
  BY DEF CalcState
<1>3. pc = "merge" /\ Comparing /\ pc' = "scan1" /\ in' = in /\ block' = block
  BY <1>2 DEF CalcState, Computing
<1>4. PICK w, r : OrderInv(w, r)
  BY DEF ListInv
<1>5. Period(n) \in Nat /\ Period(n) >= 34
  BY <1>2, <1>3, <1>4, ComparedIs DEF ListInv, Merging
<1>6. st'.step = Period(n) /\ st'.p = 0
  BY <1>2 DEF NoScan
<1>7. ZerosAt(block, T)
  BY <1>1, <1>3 DEF ZerosInv
<1>8. NotPast(0, block, T)
  <2>1. T - 2 \in Nat /\ 0 <= T - 2 /\ T - 2 <= T - 1
    BY <1>1
  <2>2. QED
    BY <1>7, <2>1 DEF NotPast, ZerosAt
<1>9. QED
  BY <1>1, <1>3, <1>5, <1>6, <1>7, <1>8 DEF ZerosInv, Scanning

LEMMA TokenZeros == ASSUME InputInv, ListInv, ZerosInv, Token PROVE ZerosInv'
<1>1. PICK T \in Nat : T = in.total /\ T >= 120 /\ DOMAIN block = 0 .. T - 1
  BY BlockIs
<1>2. Scanning /\ pc' = pc /\ in' = in /\ block' = block
  BY DEF Token
<1>3. PICK t : /\ t = core_state_transition(block, st.p, st.track)
               /\ st' = [st EXCEPT !.p = t.p, !.track = t.track, !.final[t.state] = @ + 1]
  BY DEF Token
<1>4. st \in Scan
  BY DEF ListInv, ControlInv
<1>5. st.p \in Nat /\ st.track \in Counts
  BY <1>4 DEF Scan
<1>6. \A z \in Nat : st.p <= z /\ ByteAt(block, z) = NUL => t.p <= z
  BY <1>1, <1>3, <1>5, TransitionType
<1>7. st'.p = t.p /\ st'.step = st.step
  BY <1>3, <1>4 DEF Scan
<1>8. NotPast(t.p, block, T)
  <2>1. PICK i \in Nat : st.p <= i /\ i <= T - 1 /\ block[i] = NUL
    BY <1>1, <1>2 DEF ZerosInv, NotPast
  <2>2. i \in DOMAIN block
    BY <1>1, <2>1
  <2>3. t.p <= i
    BY <1>6, <2>1, <2>2 DEF ByteAt
  <2>4. QED
    BY <2>1, <2>3 DEF NotPast
<1>9. QED
  BY <1>1, <1>2, <1>7, <1>8 DEF ZerosInv, Scanning

LEMMA CorruptKeepsZeros == ASSUME ZerosReturn, InputInv, ListInv, ZerosInv, Corrupt PROVE ZerosInv'
<1>1. PICK T \in Nat : T = in.total /\ T >= 120 /\ DOMAIN block = 0 .. T - 1
  BY BlockIs
<1>2. /\ pc = "scan1" /\ pc' = "scan2" /\ in' = in /\ block' = XorEvery(block, st.step, in.seed1)
      /\ st' = [st EXCEPT !.p = 0]
  BY DEF Corrupt
<1>3. st \in Scan
  BY DEF ListInv, ControlInv
<1>4. st'.p = 0 /\ st'.step = st.step /\ st.step \in Nat /\ st.step >= 34
  BY <1>2, <1>3 DEF Scan, ZerosInv, Scanning
<1>5. PICK s \in Int : s = U8(in.seed1) /\ XorByte(NUL, s) = s
  BY SeedByte
<1>6. ZerosAt(block, T)
  BY <1>1, <1>2 DEF ZerosInv
<1>7. PICK e : e = block'
  OBVIOUS
<1>8. ZerosHit(e, T, st.step, s)
  BY <1>1, <1>2, <1>5, <1>6, <1>7, CorruptZeros
<1>9. NotPast(0, e, T)
  BY <1>1, <1>4, <1>8, OneZeroLeft
<1>10. QED
  BY <1>1, <1>2, <1>4, <1>5, <1>7, <1>8, <1>9 DEF ZerosInv, Scanning

LEMMA EndStateZeros == ASSUME ZerosReturn, InputInv, ListInv, ZerosInv, EndState PROVE ZerosInv'
<1>1. PICK T \in Nat : T = in.total /\ T >= 120 /\ DOMAIN block = 0 .. T - 1
  BY BlockIs
<1>2. pc = "scan2" /\ pc' = "merge" /\ in' = in /\ block' = XorEvery(block, st.step, in.seed2)
  BY DEF EndState, UndoCorruption
<1>3. PICK s \in Int : s = U8(in.seed1) /\ s = U8(in.seed2) /\ s # Comma /\ XorByte(s, s) = NUL
  BY SeedByte
<1>4. ZerosHit(block, T, st.step, s)
  BY <1>1, <1>2, <1>3 DEF ZerosInv
<1>5. PICK e : e = block'
  OBVIOUS
<1>6. ZerosAt(e, T)
  BY <1>1, <1>2, <1>3, <1>4, <1>5, RestoreZeros
<1>7. QED
  BY <1>1, <1>2, <1>5, <1>6 DEF ZerosInv, Scanning

\* The other steps leave the text alone, and do not begin to scan it.
TextStep == InitText \/ EndText \/ CalcState \/ Token \/ Corrupt \/ EndState
LEMMA OthersKeepText ==
    ASSUME ListInv, Next, ~ TextStep
    PROVE  block' = block /\ ~ Scanning /\ ~ Scanning' /\ in' = in
<1>1. pc = "pass" => ms.after \in {"cells", "remove", "check"}
  BY DEF ListInv, ControlInv, Sorting
<1>2. in' = in
  BY InNext
<1>3. CASE InitItem \/ EndItems \/ InitCells \/ EndCells
  BY <1>2, <1>3 DEF InitItem, EndItems, InitCells, EndCells, Scanning
<1>4. CASE Iterate \/ Find \/ Reverse \/ UseFound \/ EndFind \/ Remove \/ Undo \/ Check
  BY <1>2, <1>4 DEF Iterate, Find, Reverse, UseFound, EndFind, Remove, Undo, Check, StartBench, Scanning
<1>5. CASE StartMerge \/ TakeRest \/ MergeByIdx \/ MergeByData \/ NextRun
  BY <1>2, <1>5 DEF StartMerge, TakeRest, MergeByIdx, MergeByData, NextRun, Scanning
<1>6. CASE EndPass
  BY <1>1, <1>2, <1>6 DEF EndPass, Scanning
<1>7. CASE CalcData \/ CalcMatrix
  BY <1>2, <1>7 DEF CalcData, CalcMatrix, Computing, Scanning
<1>8. CASE Report \/ Park
  BY <1>2, <1>8 DEF Report, Park, Scanning, vars
<1>9. QED
  BY <1>3, <1>4, <1>5, <1>6, <1>7, <1>8 DEF Next, TextStep

LEMMA ZerosStep ==
    ASSUME ZerosReturn, InputInv, ListInv, ZerosInv, Next \/ UNCHANGED vars
    PROVE  ZerosInv'
<1>1. CASE UNCHANGED vars
  BY <1>1 DEF vars, ZerosInv, Scanning
<1>2. CASE Next /\ ~ TextStep
  <2>1. block' = block /\ ~ Scanning /\ ~ Scanning' /\ in' = in
    BY <1>2, OthersKeepText
  <2>2. QED
    BY <2>1 DEF ZerosInv, Scanning
<1>3. CASE TextStep
  BY <1>3, InitTextZeros, EndTextZeros, CalcStateZeros, TokenZeros, CorruptKeepsZeros, EndStateZeros
     DEF TextStep
<1>4. QED
  BY <1>1, <1>2, <1>3

LEMMA ZerosSuffice == ASSUME InputInv, ListInv, ZerosInv PROVE ScanStaysInBlock
<1> SUFFICES ASSUME Scanning PROVE \E i \in st.p .. in.total - 1 : block[i] = NUL
  BY DEF ScanStaysInBlock
<1>1. PICK T \in Nat : T = in.total
  BY BlockIs
<1>2. PICK i \in Nat : st.p <= i /\ i <= T - 1 /\ block[i] = NUL
  BY <1>1 DEF ZerosInv, NotPast
<1>3. PICK p \in Nat : p = st.p
  BY DEF ListInv, ControlInv, Scan
<1>4. i \in p .. T - 1
  BY <1>2, <1>3
<1>5. QED
  BY <1>1, <1>2, <1>3, <1>4

\* Both scans of core_bench_state end at a zero inside the block, in every
\* call, as long as the XORs with the two seeds take each other off
\* (core_state.c:72, :91).
THEOREM ScansEnd == ASSUME ZeroOnlyHead, ZerosReturn PROVE HistorySpec => []ScanStaysInBlock
<1>1. HistorySpec => [](InputInv /\ MatrixInv /\ ListInv)
  BY ListHolds
<1>2. HistoryInit => ZerosInv
  BY ZerosInit
<1>3. InputInv /\ MatrixInv /\ ListInv /\ ZerosInv /\ [HistoryNext]_hvars => ZerosInv'
  BY ZerosStep DEF HistoryNext, hvars
<1>4. InputInv /\ MatrixInv /\ ListInv /\ ZerosInv => ScanStaysInBlock
  BY ZerosSuffice
<1>5. QED
  BY <1>1, <1>2, <1>3, <1>4, PTL DEF HistorySpec

-----------------------------------------------------------------------------
(* The text is restored.                                                    *)
Chars == Letters \cup {NUL, Comma}
TextInv ==
    /\ pristine.block \in [0 .. in.total - 1 -> Chars]
    /\ pc # "scan2" => block = pristine.block
    /\ pc = "scan2" => ~ Building /\ block = XorEvery(pristine.block, st.step, in.seed1)

LEMMA CharsAreBytes == ASSUME NEW c \in Chars PROVE c \in 0 .. 255
<1>1. c \in Int /\ 0 <= c /\ c <= 255
  BY DEF Chars, Letters, NUL, Comma
<1>2. QED
  BY <1>1, InRange

XoredAt(b, e, T, step, s) ==
    \A i \in 0 .. T - 1 : /\ i % step = 0 /\ b[i] # Comma => e[i] = XorByte(b[i], s)
                          /\ ~ (i % step = 0 /\ b[i] # Comma) => e[i] = b[i]
LEMMA XorEveryAs ==
    ASSUME NEW T \in Nat, NEW b, DOMAIN b = 0 .. T - 1, NEW step, NEW seed, NEW s, s = U8(seed),
           NEW e, e = XorEvery(b, step, seed)
    PROVE  DOMAIN e = 0 .. T - 1 /\ XoredAt(b, e, T, step, s)
<1>1. /\ DOMAIN e = 0 .. T - 1
      /\ \A i \in 0 .. T - 1 : /\ i % step = 0 /\ b[i] # Comma => e[i] = XorByte(b[i], U8(seed))
                               /\ ~ (i % step = 0 /\ b[i] # Comma) => e[i] = b[i]
  BY XorEveryAt
<1>2. QED
  BY <1>1 DEF XoredAt

LEMMA XorBack ==
    ASSUME NEW T \in Nat, NEW b \in [0 .. T - 1 -> Chars], NEW step, NEW seed1, NEW seed2, NEW s \in Int,
           s = U8(seed1), s = U8(seed2), MakesNoComma(s),
           NEW e, e = XorEvery(b, step, seed1), NEW f, f = XorEvery(e, step, seed2)
    PROVE  f = b
<1>1. DOMAIN b = 0 .. T - 1
  OBVIOUS
<1>2. DOMAIN e = 0 .. T - 1 /\ XoredAt(b, e, T, step, s)
  BY <1>1, XorEveryAs
<1>3. DOMAIN f = 0 .. T - 1 /\ XoredAt(e, f, T, step, s)
  BY <1>2, XorEveryAs
<1>4. ASSUME NEW i \in 0 .. T - 1 PROVE f[i] = b[i]
  <2>1. b[i] \in Chars
    OBVIOUS
  <2>2. CASE i % step = 0 /\ b[i] # Comma
    <3>1. b[i] \in Letters \cup {NUL}
      BY <2>1, <2>2 DEF Chars
    <3>2. e[i] = XorByte(b[i], s) /\ e[i] # Comma
      BY <1>2, <2>2, <3>1 DEF XoredAt, MakesNoComma
    <3>3. f[i] = XorByte(XorByte(b[i], s), s)
      BY <1>3, <2>2, <3>2 DEF XoredAt
    <3>4. b[i] \in 0 .. 255
      BY <2>1, CharsAreBytes
    <3>5. QED
      BY <3>3, <3>4, XorTwice
  <2>3. CASE ~ (i % step = 0 /\ b[i] # Comma)
    <3>1. e[i] = b[i]
      BY <1>2, <2>3 DEF XoredAt
    <3>2. ~ (i % step = 0 /\ e[i] # Comma)
      BY <2>3, <3>1
    <3>3. f[i] = e[i]
      BY <1>3, <3>2 DEF XoredAt
    <3>4. QED
      BY <3>1, <3>3
  <2>4. QED
    BY <2>2, <2>3
<1>5. f = [i \in 0 .. T - 1 |-> f[i]]
  BY <1>2, <1>3 DEF XorEvery
<1>6. QED
  BY <1>4, <1>5

\* The seeds of the two XORs.
LEMMA CommaSeed ==
    ASSUME InputInv, NoNewComma
    PROVE  \E s \in Int : s = U8(in.seed1) /\ s = U8(in.seed2) /\ MakesNoComma(s)
<1>1. PICK x \in Inputs : in = InOf(x)
  BY DEF InputInv
<1>2. in.seed1 = Defaults(x).seed1 /\ in.seed2 = Defaults(x).seed2
  BY <1>1, InOfIs
<1>3. in.seed1 \in Int
  BY InputFacts
<1>4. PICK s \in Int : s = U8(in.seed1)
  BY <1>3, U8Is
<1>5. QED
  BY <1>2, <1>4 DEF NoNewComma

LEMMA PutPatternType ==
    ASSUME NEW T \in Nat, NEW b \in [0 .. T - 1 -> Chars], NEW p \in Nat, NEW s, IsText(s),
           NEW e, e = PutPattern(b, p, s)
    PROVE  e \in [0 .. T - 1 -> Chars]
<1>1. PICK k \in Nat : k = Len(s) /\ \A i \in 1 .. k : s[i] \in Letters
  BY DEF IsText
<1>2. ASSUME NEW i \in 0 .. T - 1 PROVE e[i] \in Chars
  <2>1. CASE i \in p .. p + k - 1
    <3>1. i - p + 1 \in 1 .. k
      BY <2>1
    <3>2. e[i] = s[i - p + 1]
      BY <1>1, <2>1 DEF PutPattern
    <3>3. QED
      BY <1>1, <3>1, <3>2 DEF Chars
  <2>2. CASE i \notin p .. p + k - 1
    <3>1. e[i] = Comma \/ e[i] = b[i]
      BY <1>1, <2>2 DEF PutPattern
    <3>2. b[i] \in Chars
      OBVIOUS
    <3>3. QED
      BY <3>1, <3>2 DEF Chars
  <2>3. QED
    BY <2>1, <2>2
<1>3. e = [i \in 0 .. T - 1 |-> e[i]]
  BY DEF PutPattern
<1>4. QED
  BY <1>2, <1>3

LEMMA FillZeroType ==
    ASSUME NEW T \in Nat, NEW b \in [0 .. T - 1 -> Chars], NEW p, NEW e, e = FillZero(b, p)
    PROVE  e \in [0 .. T - 1 -> Chars]
BY DEF FillZero, Chars

LEMMA TextInit == ASSUME HistoryInit PROVE TextInv
<1>1. Init
  BY DEF HistoryInit
<1>2. pristine.block = block
  BY DEF HistoryInit
<1>3. block = [i \in 0 .. in.total - 1 |-> NUL] /\ pc = "items"
  BY <1>1 DEF Init
<1>4. QED
  BY <1>2, <1>3 DEF TextInv, Chars

\* What the history keeps of the text.
LEMMA PristineText ==
    ASSUME HistoryNext
    PROVE  pristine'.block = IF Building THEN block' ELSE pristine.block
BY DEF HistoryNext

LEMMA TextStepKeeps ==
    ASSUME NoNewComma, InputInv, ListInv, TextInv, HistoryNext, TextStep
    PROVE  TextInv'
<1>1. PICK T \in Nat : T = in.total /\ T >= 120 /\ DOMAIN block = 0 .. T - 1
  BY BlockIs
<1>2. pristine'.block = IF Building THEN block' ELSE pristine.block
  BY PristineText
<1>3. in' = in
  BY InNext DEF HistoryNext
<1>4. Scanning => ~ Building
  BY DEF ListInv, ControlInv, Scanning, Sorting, Building
<1>5. st \in Scan
  BY DEF ListInv, ControlInv
<1>6. CASE InitText
  <2>1. /\ pc = "text" /\ pc' = "text" /\ Building /\ block' = PutPattern(block, st.p, NextPattern)
    BY <1>6 DEF InitText, Building
  <2>2. block \in [0 .. T - 1 -> Chars]
    BY <1>1, <2>1 DEF TextInv
  <2>3. IsText(NextPattern)
    <3>1. in.seed1 + st.step + 1 \in Int
      BY <1>5, InputFacts DEF Scan
    <3>2. QED
      BY <3>1, PatternText DEF NextPattern
  <2>4. st.p \in Nat
    BY <1>5 DEF Scan
  <2>5. PICK e : e = block'
    OBVIOUS
  <2>6. e \in [0 .. T - 1 -> Chars]
    BY <2>1, <2>2, <2>3, <2>4, <2>5, PutPatternType
  <2>7. QED
    BY <1>1, <1>2, <1>3, <2>1, <2>5, <2>6 DEF TextInv
<1>7. CASE EndText
  <2>1. pc = "text" /\ pc' = "iterate" /\ Building /\ block' = FillZero(block, st.p)
    BY <1>7 DEF EndText, Building
  <2>2. block \in [0 .. T - 1 -> Chars]
    BY <1>1, <2>1 DEF TextInv
  <2>3. PICK e : e = block'
    OBVIOUS
  <2>4. e \in [0 .. T - 1 -> Chars]
    BY <2>1, <2>2, <2>3, FillZeroType
  <2>5. QED
    BY <1>1, <1>2, <1>3, <2>1, <2>3, <2>4 DEF TextInv
<1>8. CASE CalcState
  <2>1. pc = "merge" /\ ms.cmp = "data" /\ pc' = "scan1" /\ block' = block
    BY <1>8 DEF CalcState, Computing
  <2>2. ~ Building
    BY <2>1 DEF ListInv, ControlInv, Sorting, Building
  <2>3. QED
    BY <1>2, <1>3, <2>1, <2>2 DEF TextInv
<1>9. CASE Token
  <2>1. Scanning /\ pc' = pc /\ block' = block /\ ms' = ms
    BY <1>9 DEF Token
  <2>2. st'.step = st.step
    BY <1>5, <1>9 DEF Token, Scan
  <2>3. pristine'.block = pristine.block /\ ~ Building'
    BY <1>2, <1>4, <2>1 DEF Building
  <2>4. QED
    BY <1>3, <2>1, <2>2, <2>3 DEF TextInv
<1>10. CASE Corrupt
  <2>1. /\ pc = "scan1" /\ pc' = "scan2" /\ block' = XorEvery(block, st.step, in.seed1)
        /\ st' = [st EXCEPT !.p = 0]
    BY <1>10 DEF Corrupt
  <2>2. st'.step = st.step
    BY <1>5, <2>1 DEF Scan
  <2>3. pristine'.block = pristine.block /\ ~ Building'
    BY <1>2, <1>4, <2>1 DEF Building, Scanning
  <2>4. QED
    BY <1>3, <2>1, <2>2, <2>3 DEF TextInv
<1>11. CASE EndState
  <2>1. pc = "scan2" /\ pc' = "merge" /\ block' = XorEvery(block, st.step, in.seed2)
    BY <1>11 DEF EndState, UndoCorruption
  <2>2. pristine'.block = pristine.block
    BY <1>2, <1>4, <2>1 DEF Scanning
  <2>3. PICK s \in Int : s = U8(in.seed1) /\ s = U8(in.seed2) /\ MakesNoComma(s)
    BY CommaSeed
  <2>4. PICK b \in [0 .. T - 1 -> Chars] : b = pristine.block
    BY <1>1 DEF TextInv
  <2>5. PICK e : e = block
    OBVIOUS
  <2>6. PICK f : f = block'
    OBVIOUS
  <2>10. PICK k : k = st.step
    OBVIOUS
  <2>11. PICK x : x = in.seed1
    OBVIOUS
  <2>12. PICK y : y = in.seed2
    OBVIOUS
  <2>7. e = XorEvery(b, k, x) /\ f = XorEvery(e, k, y)
    BY <2>1, <2>4, <2>5, <2>6, <2>10, <2>11, <2>12 DEF TextInv
  <2>13. s = U8(x) /\ s = U8(y) /\ MakesNoComma(s)
    BY <2>3, <2>11, <2>12
  <2>8. f = b
    BY <2>7, <2>13, XorBack
  <2>9. QED
    BY <1>3, <2>1, <2>2, <2>4, <2>6, <2>8 DEF TextInv
<1>12. QED
  BY <1>6, <1>7, <1>8, <1>9, <1>10, <1>11 DEF TextStep

LEMMA TextKept ==
    ASSUME NoNewComma, InputInv, ListInv, TextInv, [HistoryNext]_hvars PROVE TextInv'
<1>1. CASE HistoryNext /\ ~ TextStep
  <2>1. Next
    BY <1>1 DEF HistoryNext
  <2>2. block' = block /\ ~ Scanning /\ ~ Scanning' /\ in' = in
    BY <1>1, <2>1, OthersKeepText
  <2>3. pristine'.block = IF Building THEN block' ELSE pristine.block
    BY <1>1, PristineText
  <2>4. QED
    BY <2>2, <2>3 DEF TextInv, Scanning
<1>2. CASE HistoryNext /\ TextStep
  BY <1>2, TextStepKeeps
<1>3. CASE UNCHANGED hvars
  BY <1>3 DEF hvars, vars, TextInv, Building
<1>4. QED
  BY <1>1, <1>2, <1>3

\* The text is what core_init_state wrote whenever it is not between its two
\* scans, although it is corrupted in place (core_state.c:99), as long as the
\* corruption makes no comma, which is what it leaves alone.
THEOREM TextStaysRestored == ASSUME ZeroOnlyHead, NoNewComma PROVE HistorySpec => []TextRestored
<1>1. HistorySpec => [](InputInv /\ MatrixInv /\ ListInv)
  BY ListHolds
<1>2. HistoryInit => TextInv
  BY TextInit
<1>3. InputInv /\ MatrixInv /\ ListInv /\ TextInv /\ [HistoryNext]_hvars => TextInv'
  BY TextKept
<1>4. TextInv => TextRestored
  BY DEF TextInv, TextRestored
<1>5. QED
  BY <1>1, <1>2, <1>3, <1>4, PTL DEF HistorySpec

-----------------------------------------------------------------------------
(* The order of the items.                                                  *)
LEMMA DistinctZero == ASSUME DistinctIdx PROVE ZeroOnlyHead
<1> SUFFICES ASSUME NEW x \in Inputs, NEW i \in 1 .. ListSize(SizeOf(x)) - 3,
                    ItemIdx(ListSize(SizeOf(x)), Defaults(x).seed1, i) = 0
             PROVE  FALSE
  BY DEF ZeroOnlyHead
<1>1. SizeOf(x) \in Int /\ 120 <= SizeOf(x) /\ SizeOf(x) <= 2000
  BY InOfIs
<1>2. ListSize(SizeOf(x)) \in Int /\ 4 <= ListSize(SizeOf(x)) /\ ListSize(SizeOf(x)) <= 98
  BY <1>1, SizeIs
<1>3. PICK n \in Nat : n + 1 = ListSize(SizeOf(x)) /\ n >= 3 /\ n = ListSize(SizeOf(x)) - 1
  <2>1. ListSize(SizeOf(x)) - 1 \in Nat
    BY <1>2
  <2>2. QED
    BY <1>2, <2>1
<1>4. PICK seed : seed = Defaults(x).seed1
  OBVIOUS
<1>5. PICK y \in Addr(n) : y = n - i /\ y # 0 /\ y # 1
  <2>1. n - i \in Addr(n) /\ n - i # 0 /\ n - i # 1
    BY <1>2, <1>3 DEF Addr
  <2>2. QED
    BY <2>1
<1>6. n - y = i
  BY <1>2, <1>3, <1>5
<1>7. Base(n, seed, y).idx = 0
  BY <1>3, <1>4, <1>5, <1>6 DEF Base
<1>8. Base(n, seed, 0).idx = 0 /\ 0 \in Addr(n)
  BY <1>3 DEF Base, Addr
<1>9. DistinctAt(n, seed)
  BY <1>3, <1>4 DEF DistinctIdx
<1>10. QED
  BY <1>5, <1>7, <1>8, <1>9 DEF DistinctAt

LEMMA DistinctHere == ASSUME InputInv, DistinctIdx PROVE DistinctAt(Nodes, in.seed1)
<1>1. PICK x \in Inputs : in = InOf(x)
  BY DEF InputInv
<1>2. in.seed1 = Defaults(x).seed1 /\ in.total = SizeOf(x)
  BY <1>1, InOfIs
<1>3. Nodes = ListSize(SizeOf(x)) - 1
  BY <1>2 DEF Nodes, Size
<1>4. QED
  BY <1>2, <1>3 DEF DistinctIdx

\* There is one order in which a key grows.
Grows(g, w, n) == \A i, j \in 1 .. n : i < j => g[w[i]] < g[w[j]]

LEMMA FirstDifference ==
    ASSUME NEW n \in Nat, NEW g \in [Addr(n) -> Int], NEW w, Arranged(w, n), Grows(g, w, n),
           NEW v, Arranged(v, n), Grows(g, v, n), NEW k \in 1 .. n,
           \A i \in 1 .. n : i < k => w[i] = v[i], w[k] # v[k]
    PROVE  g[v[k]] < g[w[k]]
<1>1. w[k] \in Addr(n)
  BY DEF Arranged
<1>2. PICK j \in 1 .. n : v[j] = w[k]
  BY <1>1 DEF Arranged
<1>3. ~ (j < k)
  <2>1. SUFFICES ASSUME j < k PROVE FALSE
    OBVIOUS
  <2>2. w[j] = w[k]
    BY <1>2, <2>1
  <2>3. j = k
    BY <2>2 DEF Arranged
  <2>4. QED
    BY <2>1, <2>3
<1>4. j # k
  BY <1>2
<1>5. k < j
  BY <1>3, <1>4
<1>6. QED
  BY <1>2, <1>5 DEF Grows

LEMMA SortedOnce ==
    ASSUME NEW n \in Nat, NEW g \in [Addr(n) -> Int], NEW w, Arranged(w, n), Grows(g, w, n),
           NEW v, Arranged(v, n), Grows(g, v, n)
    PROVE  \A i \in 1 .. n : w[i] = v[i]
<1> DEFINE S == {i \in 1 .. n : w[i] # v[i]}
<1>1. SUFFICES ASSUME S # {} PROVE FALSE
  OBVIOUS
<1>2. S \subseteq Nat
  OBVIOUS
<1>3. PICK k \in S : \A i \in S : k <= i
  <2> HIDE DEF S
  <2>1. QED
    BY <1>1, <1>2, Least
<1>4. k \in 1 .. n /\ w[k] # v[k]
  OBVIOUS
<1>5. \A i \in 1 .. n : i < k => w[i] = v[i]
  BY <1>3, <1>4
<1>6. \A i \in 1 .. n : i < k => v[i] = w[i]
  BY <1>5
<1>7. g[v[k]] < g[w[k]]
  BY <1>4, <1>5, FirstDifference
<1>8. g[w[k]] < g[v[k]]
  BY <1>4, <1>6, FirstDifference
<1>9. g[w[k]] \in Int /\ g[v[k]] \in Int
  BY <1>4 DEF Arranged
<1>10. QED
  BY <1>7, <1>8, <1>9

\* The items as they were made, in the order of their idx.
InOrder(b, n, seed) ==
    \E w : /\ Arranged(w, n) /\ b = [i \in 1 .. n |-> Base(n, seed, w[i])]
           /\ \A i, j \in 1 .. n : i < j => b[i].idx < b[j].idx

LEMMA OnlyOrder ==
    ASSUME NEW n \in Nat, n >= 3, NEW seed \in Int, NEW b, InOrder(b, n, seed), NEW c, InOrder(c, n, seed)
    PROVE  b = c
<1>1. PICK w : /\ Arranged(w, n) /\ b = [i \in 1 .. n |-> Base(n, seed, w[i])]
               /\ \A i, j \in 1 .. n : i < j => b[i].idx < b[j].idx
  BY DEF InOrder
<1>2. PICK v : /\ Arranged(v, n) /\ c = [i \in 1 .. n |-> Base(n, seed, v[i])]
               /\ \A i, j \in 1 .. n : i < j => c[i].idx < c[j].idx
  BY DEF InOrder
<1>3. PICK g : g = [x \in Addr(n) |-> Base(n, seed, x).idx]
  OBVIOUS
<1>4. \A x \in Addr(n) : Base(n, seed, x).idx \in Int
  BY BaseIs DEF Datum
<1>5. g \in [Addr(n) -> Int]
  BY <1>3, <1>4
<1>6. \A i \in 1 .. n : w[i] \in Addr(n) /\ v[i] \in Addr(n)
  BY <1>1, <1>2 DEF Arranged
<1>7. \A i \in 1 .. n : b[i].idx = g[w[i]] /\ c[i].idx = g[v[i]]
  BY <1>1, <1>2, <1>3, <1>6
<1>8. Grows(g, w, n) /\ Grows(g, v, n)
  BY <1>1, <1>2, <1>7 DEF Grows
<1>9. \A i \in 1 .. n : w[i] = v[i]
  BY <1>1, <1>2, <1>5, <1>8, SortedOnce
<1>10. QED
  BY <1>1, <1>2, <1>9

\* A list sorted by idx holds them.
LEMMA OrdInOrder ==
    ASSUME NEW n \in Nat, n >= 3, NEW seed \in Int, DistinctAt(n, seed), NEW h \in HeapOf(n + 1),
           NEW w, Arranged(w, n), NEW r, AllOrd(h.data, "idx", r, w, n), DataKept(h, n, seed),
           NEW b, b = [i \in 1 .. n |-> h.data[w[i]]]
    PROVE  InOrder(b, n, seed)
<1>1. \A i \in 1 .. n : w[i] \in Addr(n) /\ w[i] \in Addr(n + 1)
  BY ArrangedIs
<1>2. h.data \in [Addr(n + 1) -> Datum]
  BY HeapPointers
<1>3. ASSUME NEW i \in 1 .. n PROVE h.data[w[i]] = Base(n, seed, w[i])
  <2>1. Settled(h.data[w[i]], "idx")
    <3>1. CASE i < n
      <4>1. Ord(h.data, "idx", r, w[i], w[n])
        BY <3>1 DEF AllOrd
      <4>2. QED
        BY <4>1 DEF Ord
    <3>2. CASE i = n
      <4>1. 1 \in 1 .. n /\ 1 < n
        OBVIOUS
      <4>2. Ord(h.data, "idx", r, w[1], w[i])
        BY <3>2, <4>1 DEF AllOrd
      <4>3. QED
        BY <4>2 DEF Ord
    <3>3. QED
      BY <3>1, <3>2
  <2>2. PICK x \in Addr(n) : x = w[i]
    BY <1>1
  <2>3. h.data[x] \in Datum /\ Alike(h.data[x], Base(n, seed, x))
    BY <1>1, <1>2, <2>2 DEF DataKept
  <2>4. Base(n, seed, x) \in Datum /\ Settled(Base(n, seed, x), "idx")
    BY BaseIs
  <2>5. QED
    BY <2>1, <2>2, <2>3, <2>4, AlikeSettled
<1>4. b = [i \in 1 .. n |-> Base(n, seed, w[i])]
  BY <1>3
<1>5. ASSUME NEW i \in 1 .. n, NEW j \in 1 .. n, i < j PROVE b[i].idx < b[j].idx
  <2>1. Ord(h.data, "idx", r, w[i], w[j])
    BY <1>5 DEF AllOrd
  <2>2. h.data[w[i]].idx < h.data[w[j]].idx \/ h.data[w[i]].idx = h.data[w[j]].idx
    BY <2>1 DEF Ord, KeyOf
  <2>3. h.data[w[i]].idx # h.data[w[j]].idx
    <3>1. SUFFICES ASSUME Base(n, seed, w[i]).idx = Base(n, seed, w[j]).idx PROVE FALSE
      BY <1>3
    <3>2. w[i] = w[j]
      BY <1>1, <3>1 DEF DistinctAt
    <3>3. i = j
      BY <3>2, ArrangedIs
    <3>4. QED
      BY <1>5, <3>3
  <2>4. QED
    BY <2>2, <2>3
<1>6. QED
  BY <1>4, <1>5 DEF InOrder

-----------------------------------------------------------------------------
(* The list is restored.                                                    *)
\* The init functions end with core_init_state, once.
LEMMA BuildingSteps ==
    ASSUME ListInv, Next
    PROVE  (Building /\ ~ Building' => EndText) /\ (~ Building => ~ Building')
<1>1. Sorting => ms.after \in {"cells", "remove", "check"} /\ (Scanning => ms.cmp = "data")
                 /\ (ms.cmp = "data" => ms.after # "cells")
  BY DEF ListInv, ControlInv, Sorting, Scanning
<1>2. CASE InitItem \/ InitCells \/ EndCells \/ InitText \/ EndText
  BY <1>2 DEF InitItem, InitCells, EndCells, InitText, EndText, Building
<1>3. CASE EndItems
  <2>1. ms.after = "cells"
    BY <1>3 DEF EndItems, ListInv, ControlInv, SortStart
  <2>2. QED
    BY <1>3, <2>1 DEF EndItems, Building
<1>4. CASE Iterate \/ Find \/ Reverse \/ UseFound \/ Remove \/ Check
  BY <1>4 DEF Iterate, Find, Reverse, UseFound, Remove, Check, StartBench, Building
<1>5. CASE EndFind \/ Undo
  BY <1>5 DEF EndFind, Undo, SortStart, Building
<1>6. CASE StartMerge \/ NextRun
  <2>2. ms'.after = ms.after
    BY <1>6 DEF StartMerge, NextRun, ListInv, ControlInv, SortState
  <2>3. QED
    BY <1>6, <2>2 DEF StartMerge, NextRun, Building
<1>7. CASE TakeRest \/ MergeByIdx \/ MergeByData
  <2>1. ms'.after = ms.after
    BY <1>7 DEF TakeRest, MergeByIdx, MergeByData, TakeP, TakeQ, ListInv, ControlInv, SortState
  <2>2. QED
    BY <1>7, <2>1 DEF TakeRest, MergeByIdx, MergeByData, Building
<1>8. CASE EndPass
  <2>1. CASE ms.nmerges <= 1
    BY <1>1, <1>8, <2>1 DEF EndPass, Building, Sorting
  <2>2. CASE ~ (ms.nmerges <= 1)
    <3>1. ms'.after = ms.after
      BY <1>8, <2>2 DEF EndPass, SortStart
    <3>2. QED
      BY <1>8, <2>2, <3>1 DEF EndPass, Building
  <2>3. QED
    BY <2>1, <2>2
<1>9. CASE CalcData \/ CalcMatrix \/ CalcState
  <2>1. pc = "merge" /\ ms.cmp = "data" /\ ms' = ms /\ pc' \in {"merge", "scan1"}
    BY <1>9 DEF CalcData, CalcMatrix, CalcState, Computing
  <2>2. QED
    BY <1>1, <2>1 DEF Building, Sorting
<1>10. CASE Token \/ Corrupt \/ EndState
  <2>1. Scanning /\ ms' = ms /\ pc' \in {"merge", "scan1", "scan2"}
    BY <1>10 DEF Token, Corrupt, EndState, Scanning
  <2>2. QED
    BY <1>1, <2>1 DEF Building, Sorting, Scanning
<1>11. CASE Report \/ Park
  BY <1>11 DEF Report, Park, vars, Building
<1>12. QED
  BY <1>2, <1>3, <1>4, <1>5, <1>6, <1>7, <1>8, <1>9, <1>10, <1>11 DEF Next

\* The items that the init functions leave are in the order of their idx.
PristineInv ==
    IF Building THEN pristine.items = <<>> ELSE InOrder(pristine.items, Nodes, in.seed1)

\* The list at a return, and its items.
LEMMA ReadyIs ==
    ASSUME DistinctIdx, InputInv, HeapInv, NEW w, NEW r, OrderInv(w, r), Ready, pc # "items",
           NEW b, b = [i \in 1 .. Nodes |-> heap.data[w[i]]]
    PROVE  Whole(heap, w, Nodes, 0) /\ InOrder(b, Nodes, in.seed1)
<1>1. Listed /\ Root = 0 /\ AllOrd(heap.data, "idx", r, w, Nodes)
  BY DEF OrderInv, Ready, Listed
<1>2. Whole(heap, w, Nodes, 0)
  BY <1>1, WholeListed
<1>3. PICK n \in Nat : n = Nodes /\ n >= 3
  BY InputFacts
<1>4. PICK s \in Int : s = in.seed1
  BY InputFacts
<1>5. PICK h : h = heap
  OBVIOUS
<1>6. h \in HeapOf(n + 1) /\ DataKept(h, n, s) /\ DistinctAt(n, s)
  BY <1>3, <1>4, <1>5, DistinctHere DEF HeapInv
<1>7. Arranged(w, n) /\ AllOrd(h.data, "idx", r, w, n) /\ b = [i \in 1 .. n |-> h.data[w[i]]]
  BY <1>1, <1>2, <1>3, <1>5 DEF Whole, ListAt
<1>8. InOrder(b, n, s)
  BY <1>3, <1>6, <1>7, OrdInOrder
<1>9. QED
  BY <1>2, <1>3, <1>4, <1>8

LEMMA EndTextItems ==
    ASSUME DistinctIdx, InputInv, ListInv, EndText
    PROVE  InOrder(Items', Nodes, in.seed1)
<1>1. PICK w, r : OrderInv(w, r)
  BY DEF ListInv
<1>2. pc = "text" /\ pc' = "iterate" /\ heap' = heap /\ res' = res
  BY DEF EndText
<1>3. PICK b : b = [i \in 1 .. Nodes |-> heap.data[w[i]]]
  OBVIOUS
<1>4. Whole(heap, w, Nodes, 0) /\ InOrder(b, Nodes, in.seed1)
  BY <1>1, <1>2, <1>3, ReadyIs DEF ListInv, Ready
<1>5. PICK n \in Nat : n = Nodes /\ n >= 3
  BY InputFacts
<1>6. res.list = 0
  BY DEF ListInv, ControlInv, Results
<1>7. Items' = [i \in 1 .. n |-> heap'.data[w[i]]]
  <2>1. PICK f : f = 0
    OBVIOUS
  <2>2. f = (IF pc' \in {"iterate", "done"} THEN res'.list ELSE fr'.list)
    BY <1>2, <1>6, <2>1
  <2>3. Whole(heap', w, n, f)
    BY <1>2, <1>4, <1>5, <2>1
  <2>4. QED
    BY <1>5, <2>2, <2>3, ItemsNext
<1>8. QED
  BY <1>2, <1>3, <1>4, <1>5, <1>7

LEMMA PristineInit == ASSUME HistoryInit PROVE PristineInv
BY DEF HistoryInit, Init, PristineInv, Building

LEMMA PristineStep ==
    ASSUME DistinctIdx, InputInv, ListInv, PristineInv, [HistoryNext]_hvars PROVE PristineInv'
<1>1. CASE HistoryNext
  <2>1. Next /\ in' = in /\ Nodes' = Nodes
    BY <1>1, InNext, NodesNext DEF HistoryNext
  <2>2. (Building /\ ~ Building' => EndText) /\ (~ Building => ~ Building')
    BY <2>1, BuildingSteps
  <2>3. CASE Building /\ Building'
    BY <1>1, <2>3 DEF HistoryNext, PristineInv
  <2>4. CASE Building /\ ~ Building'
    <3>1. pristine'.items = Items'
      BY <1>1, <2>4 DEF HistoryNext
    <3>2. InOrder(Items', Nodes, in.seed1)
      BY <2>2, <2>4, EndTextItems
    <3>3. QED
      BY <2>1, <2>4, <3>1, <3>2 DEF PristineInv
  <2>5. CASE ~ Building
    <3>1. pristine' = pristine /\ ~ Building'
      BY <1>1, <2>2, <2>5 DEF HistoryNext
    <3>2. QED
      BY <2>1, <2>5, <3>1 DEF PristineInv
  <2>6. QED
    BY <2>3, <2>4, <2>5
<1>2. CASE UNCHANGED hvars
  BY <1>2 DEF hvars, vars, PristineInv, Building, Nodes, Size
<1>3. QED
  BY <1>1, <1>2

LEMMA ItemsHere ==
    ASSUME NEW n \in Nat, n >= 3, NEW w, NEW first,
           first = (IF pc \in {"iterate", "done"} THEN res.list ELSE fr.list),
           Whole(heap, w, n, first)
    PROVE  Items = [i \in 1 .. n |-> heap.data[w[i]]]
<1>1. heap \in HeapOf(n + 1) /\ ListAt(heap, w, n, first) /\ \A x \in Addr(n + 1) : heap.info[x] = x
  BY DEF Whole
<1>2. Pointers(heap, n + 1)
  BY <1>1, HeapPointers
<1>3. Max = n + 1
  BY <1>2, MaxIs
<1>4. Contents(heap, first, n + 1) = [i \in 1 .. n |-> heap.data[w[i]]]
  BY <1>1, ContentsIs
<1>5. QED
  BY <1>3, <1>4 DEF Items

LEMMA OrderSuffices ==
    ASSUME DistinctIdx, InputInv, ListInv, PristineInv PROVE ListRestored
<1> SUFFICES ASSUME pc = "iterate" \/ (pc = "find" /\ fr.i = 0) PROVE Items = pristine.items
  BY DEF ListRestored
<1>1. PICK w, r : OrderInv(w, r)
  BY DEF ListInv
<1>2. PICK b : b = [i \in 1 .. Nodes |-> heap.data[w[i]]]
  OBVIOUS
<1>3. Ready /\ pc # "items" /\ ~ Building
  BY DEF Ready, Building
<1>4. Whole(heap, w, Nodes, 0) /\ InOrder(b, Nodes, in.seed1)
  BY <1>1, <1>2, <1>3, ReadyIs DEF ListInv
<1>5. PICK n \in Nat : n = Nodes /\ n >= 3
  BY InputFacts
<1>6. PICK s \in Int : s = in.seed1
  BY InputFacts
<1>7. Items = b
  <2>1. PICK f : f = 0
    OBVIOUS
  <2>2. res.list = 0
    BY DEF ListInv, ControlInv, Results
  <2>3. pc = "find" => fr.list = 0
    BY <1>1, <1>3 DEF OrderInv, Root
  <2>4. f = (IF pc \in {"iterate", "done"} THEN res.list ELSE fr.list)
    BY <2>1, <2>2, <2>3
  <2>5. Whole(heap, w, n, f)
    BY <1>4, <1>5, <2>1
  <2>6. Items = [i \in 1 .. n |-> heap.data[w[i]]]
    BY <1>5, <2>4, <2>5, ItemsHere
  <2>7. QED
    BY <1>2, <1>5, <2>6
<1>8. PICK c : c = pristine.items
  OBVIOUS
<1>9. InOrder(b, n, s) /\ InOrder(c, n, s)
  BY <1>3, <1>4, <1>5, <1>6, <1>8 DEF PristineInv
<1>10. b = c
  BY <1>5, <1>6, <1>9, OnlyOrder
<1>11. QED
  BY <1>7, <1>8, <1>10

\* "At the end of this function, the list is back to original state"
\* (core_list_join.c:156): whenever core_bench_list has returned, the items
\* are those the init functions left, in their order and with their data, as
\* long as no two of them have one idx.
THEOREM ListStaysRestored == ASSUME DistinctIdx PROVE HistorySpec => []ListRestored
<1>1. ZeroOnlyHead
  BY DistinctZero
<1>2. HistorySpec => [](InputInv /\ MatrixInv /\ ListInv)
  BY <1>1, ListHolds
<1>3. HistoryInit => PristineInv
  BY PristineInit
<1>4. InputInv /\ MatrixInv /\ ListInv /\ PristineInv /\ [HistoryNext]_hvars => PristineInv'
  BY PristineStep
<1>5. InputInv /\ MatrixInv /\ ListInv /\ PristineInv => ListRestored
  BY OrderSuffices
<1>6. QED
  BY <1>2, <1>3, <1>4, <1>5, PTL DEF HistorySpec

-----------------------------------------------------------------------------
(* The sequences of the abstract list.                                      *)
Part(s, i, j) == SubSeq(s, i, j)
One(x) == <<x>>

IsPart(u, s, i, j, S) ==
    u \in Seq(S) /\ Len(u) = j - i + 1 /\ \A x \in 1 .. Len(u) : u[x] = s[i + x - 1]
LEMMA PartOf ==
    ASSUME NEW S, NEW s \in Seq(S), NEW i \in Int, NEW j \in Int, 1 <= i, i <= j + 1, j <= Len(s),
           NEW u, u = Part(s, i, j)
    PROVE  IsPart(u, s, i, j, S)
BY DEF Part, IsPart

LEMMA OneIs == ASSUME NEW S, NEW x \in S, NEW u, u = One(x) PROVE u \in Seq(S) /\ Len(u) = 1 /\ u[1] = x
BY DEF One

IsJoin(u, s, t, S) ==
    /\ u \in Seq(S) /\ Len(u) = Len(s) + Len(t)
    /\ \A i \in 1 .. Len(u) : u[i] = IF i <= Len(s) THEN s[i] ELSE t[i - Len(s)]
LEMMA JoinOf ==
    ASSUME NEW S, NEW s \in Seq(S), NEW t \in Seq(S), NEW u, u = Join(s, t) PROVE IsJoin(u, s, t, S)
BY JoinIs DEF IsJoin

LEMMA FunctionSeq ==
    ASSUME NEW n \in Nat, NEW S, NEW b \in [1 .. n -> S]
    PROVE  b \in Seq(S) /\ Len(b) = n /\ DOMAIN b = 1 .. n
BY FunctionLen

LEMMA SeqFunction ==
    ASSUME NEW S, NEW u \in Seq(S), NEW n \in Nat, Len(u) = n
    PROVE  u \in [1 .. n -> S] /\ u = [i \in 1 .. n |-> u[i]]
OBVIOUS

IsWithout(u, s, n, k, S) ==
    /\ u \in Seq(S) /\ Len(u) = n - 1
    /\ \A i \in 1 .. n - 1 : u[i] = IF i < k THEN s[i] ELSE s[i + 1]
IsWith(u, s, n, k, x, S) ==
    /\ u \in Seq(S) /\ Len(u) = n + 1
    /\ \A i \in 1 .. n + 1 : /\ i < k => u[i] = s[i]
                             /\ i = k => u[i] = x
                             /\ k < i => u[i] = s[i - 1]

LEMMA WithoutIs ==
    ASSUME NEW n \in Nat, NEW S, NEW s \in [1 .. n -> S], NEW k \in 1 .. n, NEW u, u = L!Without(s, k)
    PROVE  IsWithout(u, s, n, k, S)
<1>1. s \in Seq(S) /\ Len(s) = n
  BY FunctionSeq
<1>2. PICK a : a = Part(s, 1, k - 1)
  OBVIOUS
<1>3. PICK b : b = Part(s, k + 1, n)
  OBVIOUS
<1>11. PICK one \in Int, p \in Int, q \in Int : one = 1 /\ p = k - 1 /\ q = k + 1
  OBVIOUS
<1>12. IsPart(a, s, one, p, S) /\ IsPart(b, s, q, n, S)
  <2>1. 1 <= one /\ one <= p + 1 /\ p <= Len(s) /\ a = Part(s, one, p)
    BY <1>1, <1>2, <1>11
  <2>2. 1 <= q /\ q <= n + 1 /\ n <= Len(s) /\ b = Part(s, q, n)
    BY <1>1, <1>3, <1>11
  <2>3. IsPart(a, s, one, p, S)
    BY <1>1, <2>1, PartOf
  <2>4. IsPart(b, s, q, n, S)
    BY <1>1, <2>2, PartOf
  <2>5. QED
    BY <2>3, <2>4
<1>4. a \in Seq(S) /\ Len(a) = k - 1 /\ \A x \in 1 .. Len(a) : a[x] = s[1 + x - 1]
  BY <1>11, <1>12 DEF IsPart
<1>5. b \in Seq(S) /\ Len(b) = n - k /\ \A x \in 1 .. Len(b) : b[x] = s[(k + 1) + x - 1]
  BY <1>11, <1>12 DEF IsPart
<1>6. u = Join(a, b)
  BY <1>1, <1>2, <1>3 DEF L!Without, Part, Join
<1>7. /\ u \in Seq(S) /\ Len(u) = Len(a) + Len(b)
      /\ \A i \in 1 .. Len(u) : u[i] = IF i <= Len(a) THEN a[i] ELSE b[i - Len(a)]
  <2>1. IsJoin(u, a, b, S)
    BY <1>4, <1>5, <1>6, JoinOf
  <2>2. QED
    BY <2>1 DEF IsJoin
<1>8. Len(u) = n - 1
  BY <1>4, <1>5, <1>7
<1>9. ASSUME NEW i \in 1 .. n - 1 PROVE u[i] = IF i < k THEN s[i] ELSE s[i + 1]
  <2>1. CASE i < k
    <3>1. u[i] = a[i] /\ i \in 1 .. Len(a) /\ 1 + i - 1 = i
      BY <1>4, <1>7, <1>8, <2>1
    <3>2. QED
      BY <1>4, <2>1, <3>1
  <2>2. CASE ~ (i < k)
    <3>1. PICK x \in Int : x = i - (k - 1)
      OBVIOUS
    <3>2. u[i] = b[x] /\ x \in 1 .. Len(b) /\ (k + 1) + x - 1 = i + 1
      BY <1>4, <1>5, <1>7, <1>8, <2>2, <3>1
    <3>3. QED
      BY <1>5, <2>2, <3>2
  <2>3. QED
    BY <2>1, <2>2
<1>10. QED
  BY <1>7, <1>8, <1>9 DEF IsWithout

LEMMA WithIs ==
    ASSUME NEW n \in Nat, NEW S, NEW s \in [1 .. n -> S], NEW k \in 1 .. n, NEW x \in S,
           NEW u, u = L!With(s, k, x)
    PROVE  IsWith(u, s, n, k, x, S)
<1>1. s \in Seq(S) /\ Len(s) = n
  BY FunctionSeq
<1>2. PICK a : a = Part(s, 1, k - 1)
  OBVIOUS
<1>3. PICK b : b = Part(s, k, n)
  OBVIOUS
<1>4. PICK o : o = One(x)
  OBVIOUS
<1>17. PICK one \in Int, p \in Int : one = 1 /\ p = k - 1
  OBVIOUS
<1>18. IsPart(a, s, one, p, S)
  <2>1. 1 <= one /\ one <= p + 1 /\ p <= Len(s) /\ a = Part(s, one, p)
    BY <1>1, <1>2, <1>17
  <2>2. QED
    BY <1>1, <2>1, PartOf
<1>19. IsPart(b, s, k, n, S)
  <2>1. k \in Int /\ 1 <= k /\ k <= n + 1 /\ n <= Len(s)
    BY <1>1
  <2>2. QED
    BY <1>1, <1>3, <2>1, PartOf
<1>5. a \in Seq(S) /\ Len(a) = k - 1 /\ \A y \in 1 .. Len(a) : a[y] = s[1 + y - 1]
  BY <1>17, <1>18 DEF IsPart
<1>6. b \in Seq(S) /\ Len(b) = n - k + 1 /\ \A y \in 1 .. Len(b) : b[y] = s[k + y - 1]
  BY <1>19 DEF IsPart
<1>7. o \in Seq(S) /\ Len(o) = 1 /\ o[1] = x
  BY <1>4, OneIs
<1>8. PICK c : c = Join(a, o)
  OBVIOUS
<1>9. u = Join(c, b)
  BY <1>1, <1>2, <1>3, <1>4, <1>8 DEF L!With, Part, Join, One
<1>15. IsJoin(c, a, o, S)
  BY <1>5, <1>7, <1>8, JoinOf
<1>10. /\ c \in Seq(S) /\ Len(c) = Len(a) + Len(o)
       /\ \A i \in 1 .. Len(c) : c[i] = IF i <= Len(a) THEN a[i] ELSE o[i - Len(a)]
  BY <1>15 DEF IsJoin
<1>16. IsJoin(u, c, b, S)
  BY <1>6, <1>9, <1>10, JoinOf
<1>11. /\ u \in Seq(S) /\ Len(u) = Len(c) + Len(b)
       /\ \A i \in 1 .. Len(u) : u[i] = IF i <= Len(c) THEN c[i] ELSE b[i - Len(c)]
  BY <1>16 DEF IsJoin
<1>12. Len(c) = k /\ Len(u) = n + 1
  BY <1>5, <1>6, <1>7, <1>10, <1>11
<1>13. ASSUME NEW i \in 1 .. n + 1
       PROVE  /\ i < k => u[i] = s[i]
              /\ i = k => u[i] = x
              /\ k < i => u[i] = s[i - 1]
  <2>1. CASE i < k
    <3>1. i \in 1 .. Len(a) /\ 1 + i - 1 = i /\ i \in 1 .. Len(c) /\ i \in 1 .. Len(u)
      BY <1>5, <1>12, <2>1
    <3>2. u[i] = c[i]
      BY <1>11, <3>1
    <3>3. c[i] = a[i]
      BY <1>10, <3>1
    <3>4. a[i] = s[i]
      BY <1>5, <3>1
    <3>5. QED
      BY <2>1, <3>2, <3>3, <3>4
  <2>2. CASE i = k
    <3>1. u[i] = c[i] /\ ~ (i <= Len(a)) /\ i - Len(a) = 1 /\ i \in 1 .. Len(c)
      BY <1>5, <1>11, <1>12, <2>2
    <3>2. c[i] = o[1]
      BY <1>10, <3>1
    <3>3. QED
      BY <1>7, <2>2, <3>1, <3>2
  <2>3. CASE i > k
    <3>1. PICK y \in Int : y = i - k
      OBVIOUS
    <3>2. u[i] = b[y] /\ y \in 1 .. Len(b) /\ k + y - 1 = i - 1
      BY <1>6, <1>11, <1>12, <2>3, <3>1
    <3>4. b[y] = s[k + y - 1]
      BY <1>6, <3>2
    <3>5. u[i] = s[i - 1]
      BY <3>2, <3>4
    <3>3. QED
      BY <2>3, <3>5
  <2>4. QED
    BY <2>1, <2>2, <2>3
<1>14. QED
  BY <1>11, <1>12, <1>13 DEF IsWith

\* The item at place k goes to place 2.
IsToFront(u, s, n, k) ==
    \A i \in 1 .. n : u[i] = IF i = 2 THEN s[k] ELSE IF 2 < i /\ i <= k THEN s[i - 1] ELSE s[i]
LEMMA ToFront ==
    ASSUME NEW n \in Nat, n >= 3, NEW S, NEW s \in [1 .. n -> S], NEW k \in 2 .. n,
           NEW u, u = L!With(L!Without(s, k), 2, s[k])
    PROVE  u \in [1 .. n -> S] /\ IsToFront(u, s, n, k)
<1>1. PICK v : v = L!Without(s, k)
  OBVIOUS
<1>2. PICK m \in Nat : m = n - 1 /\ m >= 2 /\ m + 1 = n
  OBVIOUS
<1>3. k \in 1 .. n
  OBVIOUS
<1>14. IsWithout(v, s, n, k, S)
  BY <1>1, <1>3, WithoutIs
<1>4. v \in Seq(S) /\ Len(v) = m /\ \A i \in 1 .. m : v[i] = IF i < k THEN s[i] ELSE s[i + 1]
  BY <1>2, <1>14 DEF IsWithout
<1>5. v \in [1 .. m -> S]
  BY <1>4, SeqFunction
<1>6. PICK x \in S : x = s[k]
  BY <1>3
<1>7. u = L!With(v, 2, x)
  BY <1>1, <1>6
<1>8. PICK t \in 1 .. m : t = 2
  BY <1>2
<1>9. u = L!With(v, t, x)
  BY <1>7, <1>8
<1>15. IsWith(u, v, m, t, x, S)
  BY <1>5, <1>9, WithIs
<1>10. /\ u \in Seq(S) /\ Len(u) = m + 1
       /\ \A i \in 1 .. m + 1 : /\ i < t => u[i] = v[i]
                                /\ i = t => u[i] = x
                                /\ t < i => u[i] = v[i - 1]
  BY <1>15 DEF IsWith
<1>11. u \in [1 .. n -> S]
  BY <1>2, <1>10, SeqFunction
<1>12. ASSUME NEW i \in 1 .. n
       PROVE  u[i] = IF i = 2 THEN s[k] ELSE IF 2 < i /\ i <= k THEN s[i - 1] ELSE s[i]
  <2>1. CASE i = 1
    <3>1. u[1] = v[1] /\ v[1] = s[1]
      BY <1>2, <1>4, <1>8, <1>10
    <3>2. QED
      BY <2>1, <3>1
  <2>2. CASE i = 2
    BY <1>2, <1>6, <1>8, <1>10, <2>2
  <2>3. CASE 2 < i /\ i <= k
    <3>1. i - 1 \in 1 .. m /\ i - 1 < k /\ i \in 1 .. m + 1
      BY <1>2, <2>3
    <3>2. u[i] = v[i - 1] /\ v[i - 1] = s[i - 1]
      BY <1>4, <1>8, <1>10, <2>3, <3>1
    <3>3. QED
      BY <2>3, <3>2
  <2>4. CASE 2 < i /\ k < i
    <3>1. i - 1 \in 1 .. m /\ ~ (i - 1 < k) /\ i \in 1 .. m + 1 /\ i - 1 + 1 = i
      BY <1>2, <2>4
    <3>2. u[i] = v[i - 1] /\ v[i - 1] = s[i - 1 + 1]
      BY <1>4, <1>8, <1>10, <2>4, <3>1
    <3>3. QED
      BY <2>4, <3>1, <3>2
  <2>5. QED
    BY <2>1, <2>2, <2>3, <2>4
<1>13. QED
  BY <1>11, <1>12 DEF IsToFront

LEMMA BackwardsIs ==
    ASSUME NEW n \in Nat, NEW S, NEW s \in [1 .. n -> S]
    PROVE  L!Backwards(s) = [i \in 1 .. n |-> s[n + 1 - i]]
BY FunctionSeq DEF L!Backwards

\* The place of an item by its idx.
DistinctSeq(s, n) == \A i, j \in 1 .. n : s[i].idx = s[j].idx => i = j
LEMMA AtIs ==
    ASSUME NEW n \in Nat, NEW s \in [1 .. n -> Datum], DistinctSeq(s, n), NEW k \in 1 .. n,
           NEW x, x = s[k].idx
    PROVE  L!At(s, x) = k
<1>1. Len(s) = n
  BY FunctionSeq
<1>2. \E i \in 1 .. Len(s) : s[i].idx = x
  BY <1>1
<1>3. L!At(s, x) \in 1 .. Len(s) /\ s[L!At(s, x)].idx = x
  BY <1>2 DEF L!At
<1>4. QED
  BY <1>1, <1>3 DEF DistinctSeq

DistinctHeap(d, n) == \A x, y \in Addr(n) : d[x].idx = d[y].idx => x = y
\* t is s sorted, as the abstract list wants it.
SortedAs(s, t, n, cmp) ==
    /\ s \in [1 .. n -> Datum] /\ t \in [1 .. n -> Datum] /\ Len(s) = n /\ Len(t) = n
    /\ L!Indices(s) = L!Indices(t)
    /\ \A i, j \in 1 .. n : i < j =>
           \/ KeyOf(t[i], cmp) < KeyOf(t[j], cmp)
           \/ KeyOf(t[i], cmp) = KeyOf(t[j], cmp) /\ L!At(s, t[i].idx) < L!At(s, t[j].idx)
    /\ \A i \in 1 .. n :
           \E k \in 1 .. n : /\ k = L!At(s, t[i].idx) /\ Alike(t[i], s[k]) /\ Settled(t[i], cmp)
                             /\ cmp = "data" /\ Settled(s[k], "data") => t[i] = s[k]

LEMMA SortGives ==
    ASSUME NEW n \in Nat, n >= 3, NEW d \in [Addr(n + 1) -> Datum], DistinctHeap(d, n), NEW cmp,
           NEW r, Ranks(r, n), NEW w, Arranged(w, n), AllOrd(d, cmp, r, w, n),
           NEW s, Ranked(s, d, r, n, cmp), NEW t, t = [i \in 1 .. n |-> d[w[i]]]
    PROVE  SortedAs(s, t, n, cmp)
<1>1. \A i \in 1 .. n : w[i] \in Addr(n) /\ w[i] \in Addr(n + 1)
  BY ArrangedIs
<1>2. t \in [1 .. n -> Datum] /\ \A i \in 1 .. n : t[i] = d[w[i]]
  BY <1>1
<1>3. s \in [1 .. n -> Datum]
  BY DEF Ranked
<1>4. Len(s) = n /\ Len(t) = n
  BY <1>2, <1>3, FunctionSeq
<1>5. \A x \in Addr(n) : r[x] \in 1 .. n
  BY DEF Ranks
<1>6. \A x \in Addr(n) : s[r[x]].idx = d[x].idx
  BY DEF Ranked, Alike
<1>7. DistinctSeq(s, n)
  <2>1. SUFFICES ASSUME NEW i \in 1 .. n, NEW j \in 1 .. n, s[i].idx = s[j].idx PROVE i = j
    BY DEF DistinctSeq
  <2>2. PICK x \in Addr(n) : r[x] = i
    BY DEF Ranked
  <2>3. PICK y \in Addr(n) : r[y] = j
    BY DEF Ranked
  <2>4. d[x].idx = d[y].idx
    BY <1>6, <2>1, <2>2, <2>3
  <2>5. QED
    BY <2>2, <2>3, <2>4 DEF DistinctHeap
<1>8. \A x \in Addr(n) : L!At(s, d[x].idx) = r[x]
  <2>1. TAKE x \in Addr(n)
  <2>2. PICK k \in 1 .. n : k = r[x]
    BY <1>5
  <2>3. PICK z : z = d[x].idx
    OBVIOUS
  <2>4. z = s[k].idx
    BY <1>6, <2>2, <2>3
  <2>5. L!At(s, z) = k
    BY <1>3, <1>7, <2>4, AtIs
  <2>6. QED
    BY <2>2, <2>3, <2>5
<1>9. \A i \in 1 .. n : L!At(s, t[i].idx) = r[w[i]]
  BY <1>1, <1>2, <1>8
<1>10. L!Indices(s) = L!Indices(t)
  <2>1. ASSUME NEW i \in 1 .. n PROVE \E j \in 1 .. n : t[j].idx = s[i].idx
    <3>1. PICK x \in Addr(n) : r[x] = i
      BY DEF Ranked
    <3>2. PICK j \in 1 .. n : w[j] = x
      BY DEF Arranged
    <3>3. QED
      BY <1>2, <1>6, <3>1, <3>2
  <2>2. ASSUME NEW j \in 1 .. n PROVE \E i \in 1 .. n : t[j].idx = s[i].idx
    BY <1>1, <1>2, <1>5, <1>6
  <2>3. L!Indices(s) = {s[i].idx : i \in 1 .. n} /\ L!Indices(t) = {t[i].idx : i \in 1 .. n}
    BY <1>4 DEF L!Indices
  <2>4. \A x : x \in L!Indices(s) => x \in L!Indices(t)
    BY <2>1, <2>3
  <2>5. \A x : x \in L!Indices(t) => x \in L!Indices(s)
    BY <2>2, <2>3
  <2>6. QED
    BY <2>4, <2>5
<1>11. ASSUME NEW i \in 1 .. n, NEW j \in 1 .. n, i < j
       PROVE  \/ KeyOf(t[i], cmp) < KeyOf(t[j], cmp)
              \/ KeyOf(t[i], cmp) = KeyOf(t[j], cmp) /\ L!At(s, t[i].idx) < L!At(s, t[j].idx)
  <2>1. Ord(d, cmp, r, w[i], w[j])
    BY <1>11 DEF AllOrd
  <2>2. QED
    BY <1>2, <1>9, <2>1 DEF Ord
<1>12. ASSUME NEW i \in 1 .. n
       PROVE  \E k \in 1 .. n : /\ k = L!At(s, t[i].idx) /\ Alike(t[i], s[k]) /\ Settled(t[i], cmp)
                                /\ cmp = "data" /\ Settled(s[k], "data") => t[i] = s[k]
  <2>1. PICK x \in Addr(n) : x = w[i]
    BY <1>1
  <2>2. PICK k \in 1 .. n : k = r[x]
    BY <1>5
  <2>3. k = L!At(s, t[i].idx) /\ t[i] = d[x]
    BY <1>2, <1>9, <2>1, <2>2
  <2>4. Alike(d[x], s[k]) /\ (cmp = "data" /\ Settled(s[k], "data") => d[x] = s[k])
    BY <2>2 DEF Ranked
  <2>5. Settled(d[x], cmp)
    <3>1. CASE i < n
      <4>1. Ord(d, cmp, r, w[i], w[n])
        BY <3>1 DEF AllOrd
      <4>2. QED
        BY <2>1, <4>1 DEF Ord
    <3>2. CASE i = n
      <4>1. Ord(d, cmp, r, w[1], w[i])
        BY <3>2 DEF AllOrd
      <4>2. QED
        BY <2>1, <4>1 DEF Ord
    <3>3. QED
      BY <3>1, <3>2
  <2>6. QED
    BY <2>3, <2>4, <2>5
<1>13. QED
  BY <1>2, <1>3, <1>4, <1>10, <1>11, <1>12 DEF SortedAs

-----------------------------------------------------------------------------
(* The list kernel implements the list without pointers: the steps that it  *)
(* does not see.                                                            *)
Taken == IF pc = "undo" THEN <<Info(heap, fr.remover)>> ELSE <<>>
Unseen == Phase' = Phase /\ before' = before /\ Taken' = Taken /\ pristine'.items = pristine.items
EarlyInv == Building => before = <<>>
AbstractInv == InputInv /\ ListInv /\ PristineInv /\ EarlyInv

LEMMA HistoryIs ==
    ASSUME HistoryNext
    PROVE  /\ Next /\ BeforeStep /\ (~ Building => pristine' = pristine)
           /\ Building => pristine'.items = IF Building' THEN <<>> ELSE Items'
BY DEF HistoryNext, BeforeStep

\* The phases of the list.
LEMMA BuildPhase == ASSUME Building PROVE Phase = "build"
<1>1. CASE pc \in {"items", "cells", "text"}
  BY <1>1 DEF Phase, Building, Sorting
<1>2. CASE pc \in {"pass", "merge"} /\ ms.after = "cells"
  BY <1>2 DEF Phase, Building, Sorting
<1>3. QED
  BY <1>1, <1>2 DEF Building
LEMMA BuildPhaseNext == ASSUME Building' PROVE Phase' = "build"
<1>1. CASE pc' \in {"items", "cells", "text"}
  BY <1>1 DEF Phase, Building, Sorting
<1>2. CASE pc' \in {"pass", "merge"} /\ ms'.after = "cells"
  BY <1>2 DEF Phase, Building, Sorting
<1>3. QED
  BY <1>1, <1>2 DEF Building
SortPhaseOf(after) == IF after = "remove" THEN "find" ELSE "undone"
LEMMA SortPhase == ASSUME ~ Building, Sorting PROVE Phase = SortPhaseOf(ms.after)
BY DEF Phase, Building, Sorting, SortPhaseOf
LEMMA SortPhaseNext == ASSUME ~ Building', Sorting' PROVE Phase' = SortPhaseOf(ms'.after)
BY DEF Phase, Building, Sorting, SortPhaseOf
PhaseOf(c, i) ==
    IF c \in {"iterate", "done"} THEN "idle"
    ELSE IF c \in {"find", "reverse"} THEN "find"
    ELSE IF c = "remove" THEN IF i > 0 THEN "sorted" ELSE "find"
    ELSE IF c = "undo" THEN "removed"
    ELSE "checked"
Plain(c) == c \in {"iterate", "done", "find", "reverse", "remove", "undo", "check"}
LEMMA PlainPhase == ASSUME Plain(pc) PROVE Phase = PhaseOf(pc, fr.finder_idx)
BY DEF Plain, Phase, Building, Sorting, PhaseOf
LEMMA PlainPhaseNext == ASSUME Plain(pc') PROVE Phase' = PhaseOf(pc', fr'.finder_idx)
BY DEF Plain, Phase, Building, Sorting, PhaseOf

LEMMA BuildStays == ASSUME AbstractInv, HistoryNext, Building, Building' PROVE Unseen
<1>1. before = <<>> /\ pristine.items = <<>>
  BY DEF AbstractInv, EarlyInv, PristineInv
<1>2. before' = <<>> /\ pristine'.items = <<>>
  BY HistoryIs DEF BeforeStep
<1>3. Phase = "build" /\ Phase' = "build"
  BY BuildPhase, BuildPhaseNext
<1>4. pc # "undo" /\ pc' # "undo"
  BY DEF Building
<1>5. QED
  BY <1>1, <1>2, <1>3, <1>4 DEF Unseen, Taken

\* A step within a sort.
LEMMA SortStays ==
    ASSUME HistoryNext, ~ Building, ~ Building', Sorting, Sorting', ms'.after = ms.after
    PROVE  Unseen
<1>1. before' = before /\ pristine' = pristine
  BY HistoryIs DEF BeforeStep, Busy
<1>2. Phase' = Phase
  BY SortPhase, SortPhaseNext
<1>3. pc # "undo" /\ pc' # "undo"
  BY DEF Sorting
<1>4. QED
  BY <1>1, <1>2, <1>3 DEF Unseen, Taken

FirstNode == IF pc \in {"iterate", "done"} THEN res.list ELSE fr.list
LEMMA SameItems == ASSUME heap' = heap, FirstNode' = FirstNode PROVE Items' = Items
BY DEF Items, FirstNode, Max

LEMMA BeforeIsItems ==
    ASSUME InputInv, ListInv, ~ Building, Listed PROVE before = Items
<1>1. PICK w, r : OrderInv(w, r) /\ PastInv(w, r)
  BY DEF ListInv
<1>2. PICK n \in Nat : n = Nodes /\ n >= 3
  BY InputFacts
<1>3. Whole(heap, w, n, Root)
  BY <1>1, <1>2, WholeListed DEF ListInv
<1>4. FirstNode = Root
  BY DEF ListInv, ControlInv, Results, FirstNode, Root, Listed, Building
<1>5. Items = [i \in 1 .. n |-> heap.data[w[i]]]
  BY <1>2, <1>3, <1>4, ItemsHere DEF FirstNode
<1>6. QED
  BY <1>1, <1>2, <1>5 DEF PastInv

\* A step that leaves a list alone.
LEMMA QuietStep ==
    ASSUME InputInv, ListInv, ~ Building, ~ Building', Listed, HistoryNext, heap' = heap,
           FirstNode' = FirstNode
    PROVE  before' = before /\ pristine' = pristine
<1>1. ~ Busy
  BY DEF Listed, Busy, Sorting
<1>2. before' = Items'
  BY <1>1, HistoryIs DEF BeforeStep
<1>3. QED
  BY <1>2, BeforeIsItems, SameItems, HistoryIs

\* Steps of core_bench_list that the abstract list does not see.
LEMMA FindStays ==
    ASSUME AbstractInv, HistoryNext, ~ Building, ~ Building', Find PROVE Unseen
<1>1. pc = "find" /\ pc' = "reverse" /\ heap' = heap
  BY DEF Find
<1>2. fr'.list = fr.list
  BY FindFrame DEF Find, AbstractInv, ListInv, ControlInv, Frame
<1>3. Listed /\ FirstNode' = FirstNode
  BY <1>1, <1>2 DEF Listed, FirstNode
<1>4. before' = before /\ pristine' = pristine
  BY <1>1, <1>3, QuietStep DEF AbstractInv
<1>5. Phase' = Phase
  BY <1>1, PlainPhase, PlainPhaseNext DEF Plain, PhaseOf
<1>6. QED
  BY <1>1, <1>4, <1>5 DEF Unseen, Taken

LEMMA ReverseStays ==
    ASSUME AbstractInv, HistoryNext, ~ Building, ~ Building', Reverse PROVE Unseen
<1>1. pc = "reverse" /\ pc' = "reverse"
  BY DEF Reverse
<1>2. before' = before /\ pristine' = pristine
  BY <1>1, HistoryIs DEF BeforeStep, Busy
<1>3. Phase' = Phase
  BY <1>1, PlainPhase, PlainPhaseNext DEF Plain, PhaseOf
<1>4. QED
  BY <1>1, <1>2, <1>3 DEF Unseen, Taken

LEMMA EndFindStays ==
    ASSUME AbstractInv, HistoryNext, ~ Building, ~ Building', EndFind PROVE Unseen
<1>1. pc = "find" /\ heap' = heap /\ pc' \in {"pass", "remove"}
  BY DEF EndFind
<1>2. fr'.list = fr.list /\ fr'.finder_idx = fr.finder_idx
  BY DEF EndFind, AbstractInv, ListInv, ControlInv, Frame
<1>3. Listed /\ FirstNode' = FirstNode
  BY <1>1, <1>2 DEF Listed, FirstNode
<1>4. before' = before /\ pristine' = pristine
  BY <1>1, <1>3, QuietStep DEF AbstractInv
<1>5. Phase = "find"
  BY <1>1, PlainPhase DEF Plain, PhaseOf
<1>6. Phase' = "find"
  <2>1. CASE fr.finder_idx > 0
    <3>1. pc' = "pass" /\ ms' = SortStart(fr.list, "data", "remove")
      BY <2>1 DEF EndFind
    <3>2. ms'.after = "remove"
      BY <3>1 DEF SortStart
    <3>3. QED
      BY <3>1, <3>2, SortPhaseNext DEF Sorting, SortPhaseOf
  <2>2. CASE ~ (fr.finder_idx > 0)
    <3>1. pc' = "remove" /\ ~ (fr'.finder_idx > 0)
      BY <1>2, <2>2 DEF EndFind
    <3>2. QED
      BY <3>1, PlainPhaseNext DEF Plain, PhaseOf
  <2>3. QED
    BY <2>1, <2>2
<1>7. QED
  BY <1>1, <1>4, <1>5, <1>6 DEF Unseen, Taken

LEMMA ReportStays ==
    ASSUME AbstractInv, HistoryNext, ~ Building, ~ Building', Report PROVE Unseen
<1>1. pc = "iterate" /\ pc' = "done" /\ heap' = heap /\ res' = res
  BY DEF Report
<1>2. Listed /\ FirstNode' = FirstNode
  BY <1>1 DEF Listed, FirstNode
<1>3. before' = before /\ pristine' = pristine
  BY <1>1, <1>2, QuietStep DEF AbstractInv
<1>4. Phase' = Phase
  BY <1>1, PlainPhase, PlainPhaseNext DEF Plain, PhaseOf
<1>5. QED
  BY <1>1, <1>3, <1>4 DEF Unseen, Taken

LEMMA ParkStays ==
    ASSUME AbstractInv, HistoryNext, ~ Building, ~ Building', Park PROVE Unseen
<1>1. pc = "done" /\ pc' = "done" /\ heap' = heap /\ res' = res
  BY DEF Park, vars
<1>2. Listed /\ FirstNode' = FirstNode
  BY <1>1 DEF Listed, FirstNode
<1>3. before' = before /\ pristine' = pristine
  BY <1>1, <1>2, QuietStep DEF AbstractInv
<1>4. Phase' = Phase
  BY <1>1, PlainPhase, PlainPhaseNext DEF Plain, PhaseOf
<1>5. QED
  BY <1>1, <1>3, <1>4 DEF Unseen, Taken

\* iterate calls core_bench_list.
LEMMA IterateCalls ==
    ASSUME AbstractInv, HistoryNext, ~ Building, ~ Building', Iterate PROVE L!Call
<1>1. pc = "iterate" /\ pc' = "find" /\ heap' = heap /\ StartBench(1)
  BY DEF Iterate, StartBench
<1>2. res.list = 0 /\ res \in Results
  BY DEF AbstractInv, ListInv, ControlInv, Results
<1>3. fr'.list = 0
  BY <1>1, <1>2, StartBenchType
<1>4. Listed /\ FirstNode' = FirstNode
  BY <1>1, <1>2, <1>3 DEF Listed, FirstNode
<1>5. before' = before /\ pristine' = pristine
  BY <1>1, <1>4, QuietStep DEF AbstractInv
<1>6. Phase = "idle" /\ Phase' = "find"
  BY <1>1, PlainPhase, PlainPhaseNext DEF Plain, PhaseOf
<1>7. QED
  BY <1>1, <1>5, <1>6 DEF L!Call

\* core_bench_list returns, to be called again or to iterate.
LEMMA CheckReturns ==
    ASSUME DistinctIdx, AbstractInv, HistoryNext, ~ Building, ~ Building', Check PROVE L!Return
<1>1. pc = "check" /\ pc' \in {"find", "iterate"} /\ heap' = heap
  BY DEF Check, StartBench
<1>2. res.list = 0 /\ res \in Results
  BY DEF AbstractInv, ListInv, ControlInv, Results
<1>3. PICK w, r : OrderInv(w, r) /\ PastInv(w, r)
  BY DEF AbstractInv, ListInv
<1>4. Ready /\ Listed
  BY <1>1 DEF Ready, Listed
<1>5. fr.list = 0
  BY <1>1, <1>3, <1>4 DEF OrderInv, Root
<1>6. FirstNode' = FirstNode
  <2>1. FirstNode = 0
    BY <1>1, <1>5 DEF FirstNode
  <2>2. CASE fr.finder_idx > 0
    <3>1. StartBench(-1)
      BY <2>2 DEF Check
    <3>2. fr'.list = 0 /\ pc' = "find"
      BY <1>2, <3>1, StartBenchType
    <3>3. QED
      BY <2>1, <3>2 DEF FirstNode
  <2>3. CASE ~ (fr.finder_idx > 0)
    <3>1. pc' = "iterate" /\ res'.list = res.list
      BY <1>2, <2>3 DEF Check, Results
    <3>2. QED
      BY <1>2, <2>1, <3>1 DEF FirstNode
  <2>4. QED
    BY <2>2, <2>3
<1>7. before' = before /\ pristine' = pristine
  BY <1>1, <1>4, <1>6, QuietStep DEF AbstractInv
<1>8. PICK n \in Nat : n = Nodes /\ n >= 3
  BY InputFacts DEF AbstractInv
<1>9. PICK s \in Int : s = in.seed1
  BY InputFacts DEF AbstractInv
<1>10. PICK b : b = [i \in 1 .. Nodes |-> heap.data[w[i]]]
  OBVIOUS
<1>11. before = b
  BY <1>3, <1>4, <1>10 DEF PastInv
<1>12. InOrder(b, Nodes, in.seed1)
  <2>1. pc # "items"
    BY <1>1
  <2>2. QED
    BY <1>3, <1>4, <1>10, <2>1, ReadyIs DEF AbstractInv, ListInv
<1>13. InOrder(pristine.items, Nodes, in.seed1)
  BY DEF AbstractInv, PristineInv
<1>14. PICK c : c = pristine.items
  OBVIOUS
<1>15. InOrder(b, n, s) /\ InOrder(c, n, s)
  BY <1>8, <1>9, <1>12, <1>13, <1>14
<1>16. b = c
  BY <1>8, <1>15, OnlyOrder
<1>17. before = pristine.items
  BY <1>11, <1>14, <1>16
<1>18. Phase = "checked" /\ Phase' \in {"idle", "find"}
  BY <1>1, PlainPhase, PlainPhaseNext DEF Plain, PhaseOf
<1>19. pc # "undo" /\ pc' # "undo"
  BY <1>1
<1>20. QED
  BY <1>7, <1>17, <1>18, <1>19 DEF L!Return

\* A turn of the find loop, in the abstract list.
Turned(s, t, n) ==
    LET v == L!Backwards(s)
    IN  \/ t = v
        \/ \E k \in 2 .. n : t[2] = v[k] /\ t = L!With(L!Without(v, k), 2, v[k])
InFront(t, v, k) == t[2] = v[k] /\ t = L!With(L!Without(v, k), 2, v[k])
LEMMA MovedToFront ==
    ASSUME NEW n \in Nat, n >= 3, NEW S, NEW v \in [1 .. n -> S], NEW k \in 2 .. n,
           NEW t \in [1 .. n -> S], IsToFront(t, v, n, k)
    PROVE  InFront(t, v, k)
<1>1. PICK u : u = L!With(L!Without(v, k), 2, v[k])
  OBVIOUS
<1>2. u \in [1 .. n -> S] /\ IsToFront(u, v, n, k)
  BY <1>1, ToFront
<1>3. u = t
  BY <1>2 DEF IsToFront
<1>4. t[2] = v[k]
  BY DEF IsToFront
<1>5. QED
  BY <1>1, <1>3, <1>4 DEF InFront

LEMMA TurnedIs ==
    ASSUME NEW n \in Nat, n >= 3, NEW d \in [Addr(n + 1) -> Datum], NEW w, Arranged(w, n),
           NEW u, Arranged(u, n), UsedOrder(u, w, n),
           NEW s, s = [i \in 1 .. n |-> d[w[i]]], NEW t, t = [i \in 1 .. n |-> d[u[i]]]
    PROVE  Turned(s, t, n) /\ Len(s) = n
<1>1. \A i \in 1 .. n : w[i] \in Addr(n + 1) /\ u[i] \in Addr(n + 1)
  BY ArrangedIs
<1>2. s \in [1 .. n -> Datum] /\ t \in [1 .. n -> Datum]
  BY <1>1
<1>3. PICK v : v = L!Backwards(s)
  OBVIOUS
<1>4. v = [i \in 1 .. n |-> s[n + 1 - i]]
  BY <1>2, <1>3, BackwardsIs
<1>5. PICK x : x = Reversed(w, n)
  OBVIOUS
<1>6. \A i \in 1 .. n : v[i] = d[x[i]]
  <2>1. TAKE i \in 1 .. n
  <2>2. n + 1 - i \in 1 .. n
    OBVIOUS
  <2>3. v[i] = s[n + 1 - i] /\ x[i] = w[n + 1 - i]
    BY <1>4, <1>5 DEF Reversed
  <2>4. QED
    BY <2>2, <2>3
<1>7. v \in [1 .. n -> Datum]
  BY <1>2, <1>4
<1>8. CASE u = x
  <2>1. t = v
    BY <1>2, <1>6, <1>7, <1>8
  <2>2. QED
    BY <1>2, <1>3, <2>1, FunctionSeq DEF Turned
<1>9. ASSUME NEW k \in 2 .. n, u = Moved(x, n, k, 2) PROVE Turned(s, t, n) /\ Len(s) = n
  <2>1. ASSUME NEW i \in 1 .. n
        PROVE  t[i] = IF i = 2 THEN v[k] ELSE IF 2 < i /\ i <= k THEN v[i - 1] ELSE v[i]
    <3>1. t[i] = d[u[i]] /\ u[i] = IF i = 2 THEN x[k] ELSE IF 2 < i /\ i <= k THEN x[i - 1] ELSE x[i]
      BY <1>9 DEF Moved
    <3>2. CASE i = 2
      BY <1>6, <3>1, <3>2
    <3>3. CASE 2 < i /\ i <= k
      <4>1. i - 1 \in 1 .. n
        BY <3>3
      <4>2. QED
        BY <1>6, <3>1, <3>3, <4>1
    <3>4. CASE i # 2 /\ ~ (2 < i /\ i <= k)
      BY <1>6, <3>1, <3>4
    <3>5. QED
      BY <3>2, <3>3, <3>4
  <2>4. IsToFront(t, v, n, k)
    BY <2>1 DEF IsToFront
  <2>2. InFront(t, v, k)
    BY <1>2, <1>7, <2>4, MovedToFront
  <2>3. QED
    BY <1>2, <1>3, <2>2, FunctionSeq DEF Turned, InFront
<1>10. QED
  BY <1>5, <1>8, <1>9 DEF UsedOrder

LEMMA UseFoundTurns ==
    ASSUME AbstractInv, HistoryNext, ~ Building, ~ Building', UseFound PROVE L!FindTurn
<1>1. InputInv /\ ControlInv /\ HeapInv /\ fr \in Frame /\ res \in Results
  BY DEF AbstractInv, ListInv, ControlInv
<1>2. PICK w, r : OrderInv(w, r) /\ PastInv(w, r)
  BY DEF AbstractInv, ListInv
<1>3. pc = "reverse" /\ fr.cur = NULL /\ pc' = "find" /\ in' = in /\ heap' = TurnHeap(heap, fr)
  BY DEF UseFound, TurnHeap
<1>4. fr'.list = fr.prev
  BY <1>1 DEF UseFound, Frame
<1>5. PICK n \in Nat : n = Nodes /\ n >= 3
  BY <1>1, InputFacts
<1>6. PICK c : ReverseAt(heap, fr, w, n, c)
  BY <1>2, <1>3, <1>5 DEF OrderInv
<1>7. fr.this_find \in Addr(n) \cup {NULL}
  BY <1>2, <1>3, <1>5 DEF OrderInv
<1>8. heap \in HeapOf(n + 1) /\ heap.next[n] = NULL /\ \A x \in Addr(n + 1) : heap.info[x] = x
  BY <1>1, <1>3, <1>5 DEF HeapInv, OwnData
<1>9. PICK h : h = heap
  OBVIOUS
<1>10. PICK g : g = heap'
  OBVIOUS
<1>11. PICK f : f = fr
  OBVIOUS
<1>12. /\ \E u : UsedOrder(u, w, n) /\ ListAt(g, u, n, f.prev)
       /\ g \in HeapOf(n + 1) /\ g.info = h.info /\ g.data = h.data /\ g.next[n] = h.next[n]
  <2>1. h \in HeapOf(n + 1) /\ ReverseAt(h, f, w, n, c) /\ f.cur = NULL /\ g = TurnHeap(h, f)
        /\ f.this_find \in Addr(n) \cup {NULL}
    BY <1>3, <1>6, <1>7, <1>8, <1>9, <1>10, <1>11
  <2>2. QED
    BY <1>5, <2>1, UsedList
<1>13. PICK u : UsedOrder(u, w, n) /\ ListAt(g, u, n, f.prev)
  BY <1>12
<1>14. Whole(heap', u, n, f.prev)
  BY <1>8, <1>9, <1>10, <1>12, <1>13 DEF Whole
<1>15. Items' = [i \in 1 .. n |-> heap'.data[u[i]]]
  <2>1. f.prev = (IF pc' \in {"iterate", "done"} THEN res'.list ELSE fr'.list)
    BY <1>3, <1>4, <1>11
  <2>2. QED
    BY <1>5, <1>14, <2>1, ItemsNext
<1>16. before' = Items' /\ pristine' = pristine
  BY <1>3, HistoryIs DEF BeforeStep, Busy, Sorting
<1>17. before = [i \in 1 .. n |-> heap.data[w[i]]]
  BY <1>2, <1>3, <1>5 DEF PastInv
<1>18. PICK d : d = heap.data
  OBVIOUS
<1>19. PICK s : s = before
  OBVIOUS
<1>20. PICK t : t = before'
  OBVIOUS
<1>21. d \in [Addr(n + 1) -> Datum]
  BY <1>8, <1>18, HeapPointers
<1>22. s = [i \in 1 .. n |-> d[w[i]]] /\ t = [i \in 1 .. n |-> d[u[i]]]
  BY <1>9, <1>10, <1>12, <1>15, <1>16, <1>17, <1>18, <1>19, <1>20
<1>23. Arranged(w, n) /\ Arranged(u, n)
  BY <1>6, <1>13 DEF ReverseAt, ListAt
<1>24. Turned(s, t, n) /\ Len(s) = n
  BY <1>5, <1>13, <1>21, <1>22, <1>23, TurnedIs
<1>25. Len(L!Backwards(s)) = n
  <2>1. s \in [1 .. n -> Datum]
    BY <1>21, <1>22, <1>23, ArrangedIs
  <2>2. PICK v : v = L!Backwards(s)
    OBVIOUS
  <2>3. v = [i \in 1 .. n |-> s[n + 1 - i]]
    BY <2>1, <2>2, BackwardsIs
  <2>4. v \in [1 .. n -> Datum]
    BY <2>1, <2>3
  <2>5. QED
    BY <2>2, <2>4, FunctionSeq
<1>26. Phase = "find" /\ Phase' = "find"
  BY <1>3, PlainPhase, PlainPhaseNext DEF Plain, PhaseOf
<1>27. Turned(before, before', n) /\ Len(L!Backwards(before)) = n
  BY <1>19, <1>20, <1>24, <1>25
<1>28. pc # "undo" /\ pc' # "undo"
  BY <1>3
<1>29. QED
  BY <1>16, <1>26, <1>27, <1>28 DEF L!FindTurn, Turned

\* The sequence loses its second item, and gets it back.
KeptOf(t, w, d, n) == t = [i \in 1 .. n - 1 |-> d[KeptItem(w, i)]]
LEMMA KeptPlaces ==
    ASSUME NEW n \in Nat, n >= 3, NEW d \in [Addr(n + 1) -> Datum], NEW w, Arranged(w, n),
           NEW s, s = [i \in 1 .. n |-> d[w[i]]], NEW t, KeptOf(t, w, d, n)
    PROVE  /\ s \in [1 .. n -> Datum] /\ t \in [1 .. n - 1 -> Datum] /\ s[2] = d[w[2]]
           /\ d[w[2]] \in Datum
           /\ \A i \in 1 .. n - 1 : t[i] = IF i < 2 THEN s[i] ELSE s[i + 1]
<1>1. \A i \in 1 .. n : w[i] \in Addr(n + 1)
  BY ArrangedIs
<1>2. ASSUME NEW i \in 1 .. n - 1
      PROVE  KeptItem(w, i) \in Addr(n + 1) /\ d[KeptItem(w, i)] = IF i < 2 THEN s[i] ELSE s[i + 1]
  <2>1. i \in 1 .. n /\ i + 1 \in 1 .. n /\ 1 \in 1 .. n
    OBVIOUS
  <2>2. KeptItem(w, i) = IF i < 2 THEN w[i] ELSE w[i + 1]
    BY DEF KeptItem
  <2>3. QED
    BY <1>1, <2>1, <2>2
<1>3. 2 \in 1 .. n
  OBVIOUS
<1>4. QED
  BY <1>1, <1>2, <1>3 DEF KeptOf

LEMMA KeptIsWithout ==
    ASSUME NEW n \in Nat, n >= 3, NEW d \in [Addr(n + 1) -> Datum], NEW w, Arranged(w, n),
           NEW s, s = [i \in 1 .. n |-> d[w[i]]], NEW t, KeptOf(t, w, d, n)
    PROVE  t = L!Without(s, 2)
<1>1. /\ s \in [1 .. n -> Datum] /\ t \in [1 .. n - 1 -> Datum]
      /\ \A i \in 1 .. n - 1 : t[i] = IF i < 2 THEN s[i] ELSE s[i + 1]
  BY KeptPlaces
<1>2. PICK k \in 1 .. n : k = 2
  OBVIOUS
<1>3. PICK u : u = L!Without(s, k)
  OBVIOUS
<1>4. IsWithout(u, s, n, k, Datum)
  BY <1>1, <1>3, WithoutIs
<1>5. PICK m \in Nat : m = n - 1
  OBVIOUS
<1>6. u \in Seq(Datum) /\ Len(u) = m
  BY <1>4, <1>5 DEF IsWithout
<1>7. u \in [1 .. m -> Datum]
  BY <1>6, SeqFunction
<1>8. \A i \in 1 .. m : u[i] = t[i]
  BY <1>1, <1>2, <1>4, <1>5 DEF IsWithout
<1>9. u = t
  BY <1>1, <1>5, <1>7, <1>8
<1>10. QED
  BY <1>2, <1>3, <1>9

LEMMA WithoutBack ==
    ASSUME NEW n \in Nat, n >= 3, NEW d \in [Addr(n + 1) -> Datum], NEW w, Arranged(w, n),
           NEW s, s = [i \in 1 .. n |-> d[w[i]]], NEW t, KeptOf(t, w, d, n), NEW x, x = d[w[2]]
    PROVE  s = L!With(t, 2, x)
<1>1. /\ s \in [1 .. n -> Datum] /\ t \in [1 .. n - 1 -> Datum] /\ s[2] = x /\ x \in Datum
      /\ \A i \in 1 .. n - 1 : t[i] = IF i < 2 THEN s[i] ELSE s[i + 1]
  BY KeptPlaces
<1>2. PICK m \in Nat : m = n - 1 /\ m + 1 = n
  OBVIOUS
<1>3. PICK k \in 1 .. m : k = 2
  BY <1>2
<1>4. PICK u : u = L!With(t, k, x)
  OBVIOUS
<1>5. t \in [1 .. m -> Datum]
  BY <1>1, <1>2
<1>6. IsWith(u, t, m, k, x, Datum)
  BY <1>1, <1>4, <1>5, WithIs
<1>7. u \in Seq(Datum) /\ Len(u) = n
  BY <1>2, <1>6 DEF IsWith
<1>8. u \in [1 .. n -> Datum]
  BY <1>7, SeqFunction
<1>9. ASSUME NEW i \in 1 .. n PROVE u[i] = s[i]
  <2>1. CASE i < 2
    <3>1. i \in 1 .. m + 1 /\ i < k /\ i \in 1 .. n - 1
      BY <1>2, <1>3, <2>1
    <3>2. u[i] = t[i]
      BY <1>6, <3>1 DEF IsWith
    <3>3. QED
      BY <1>1, <2>1, <3>1, <3>2
  <2>2. CASE i = 2
    BY <1>1, <1>2, <1>3, <1>6, <2>2 DEF IsWith
  <2>3. CASE i > 2
    <3>1. u[i] = t[i - 1]
      BY <1>2, <1>3, <1>6, <2>3 DEF IsWith
    <3>2. i - 1 \in 1 .. n - 1 /\ ~ (i - 1 < 2) /\ i - 1 + 1 = i
      BY <2>3
    <3>3. QED
      BY <1>1, <3>1, <3>2
  <2>4. QED
    BY <2>1, <2>2, <2>3
<1>10. u = s
  BY <1>1, <1>8, <1>9
<1>11. QED
  BY <1>3, <1>4, <1>10

LEMMA RemoveRemoves ==
    ASSUME AbstractInv, HistoryNext, ~ Building, ~ Building', Remove PROVE L!Remove
<1>1. InputInv /\ ControlInv /\ HeapInv /\ fr \in Frame
  BY DEF AbstractInv, ListInv, ControlInv
<1>2. PICK w, r : OrderInv(w, r) /\ PastInv(w, r)
  BY DEF AbstractInv, ListInv
<1>3. pc = "remove" /\ pc' = "undo" /\ heap' = core_list_remove(heap, heap.next[fr.list])
  BY DEF Remove
<1>4. fr'.list = fr.list /\ fr'.remover = removed_cell(heap, heap.next[fr.list])
  BY <1>1 DEF Remove, Frame
<1>5. PICK n \in Nat : n = Nodes /\ n >= 3
  BY <1>1, InputFacts
<1>6. Whole(heap, w, n, fr.list)
  BY <1>1, <1>2, <1>3, <1>5, WholeListed DEF Listed, Root
<1>7. /\ w[1] = fr.list /\ heap.next[w[1]] = w[2] /\ heap.next[w[2]] = w[3]
      /\ w[2] # w[3] /\ w[2] \in Addr(n + 1) /\ w[3] \in Addr(n + 1)
  BY <1>5, <1>6, FirstThree
<1>8. PICK h : h = heap'
  OBVIOUS
<1>9. h \in HeapOf(n + 1) /\ Unlinked(h, heap, w[2], w[3])
  <2>1. h = core_list_remove(heap, w[2])
    BY <1>3, <1>7, <1>8
  <2>2. QED
    BY <1>5, <1>6, <2>1, RemoveIs
<1>10. fr'.remover = w[3]
  BY <1>4, <1>7 DEF removed_cell
<1>11. heap.info \in [Addr(n + 1) -> Addr(n + 1)] /\ heap.info[w[2]] = w[2]
  BY <1>1, <1>3, <1>5, <1>7, HeapPointers DEF HeapInv, OwnData
<1>12. Info(heap', fr'.remover) = heap.data[w[2]]
  BY <1>7, <1>8, <1>9, <1>10, <1>11 DEF Info, Unlinked
<1>13. before' = Items' /\ pristine' = pristine
  BY <1>3, HistoryIs DEF BeforeStep, Busy, Sorting
<1>14. Max' = n + 1
  <2>1. Pointers(heap', n + 1)
    BY <1>8, <1>9, HeapPointers
  <2>2. PICK z \in Nat : z = n + 1
    OBVIOUS
  <2>3. QED
    BY <2>1, <2>2, MaxNext
<1>15. Contents(h, fr.list, n + 1) = [i \in 1 .. n - 1 |-> heap.data[KeptItem(w, i)]]
  BY <1>5, <1>6, <1>9, RemovedContents
<1>16. before' = [i \in 1 .. n - 1 |-> heap.data[KeptItem(w, i)]]
  BY <1>3, <1>4, <1>8, <1>13, <1>14, <1>15 DEF Items
<1>17. before = [i \in 1 .. n |-> heap.data[w[i]]]
  BY <1>2, <1>3, <1>5 DEF PastInv, Listed
<1>18. PICK d : d = heap.data
  OBVIOUS
<1>19. PICK s : s = before
  OBVIOUS
<1>20. PICK t : t = before'
  OBVIOUS
<1>21. /\ d \in [Addr(n + 1) -> Datum] /\ Arranged(w, n)
       /\ s = [i \in 1 .. n |-> d[w[i]]] /\ KeptOf(t, w, d, n)
  BY <1>6, <1>16, <1>17, <1>18, <1>19, <1>20, HeapPointers DEF Whole, ListAt, KeptOf
<1>22. t = L!Without(s, 2) /\ s[2] = d[w[2]]
  BY <1>5, <1>21, KeptIsWithout, KeptPlaces
<1>23. Taken = <<>> /\ Taken' = <<before[2]>>
  BY <1>3, <1>12, <1>18, <1>19, <1>22 DEF Taken
<1>24. Phase \in {"find", "sorted"} /\ Phase' = "removed"
  BY <1>3, PlainPhase, PlainPhaseNext DEF Plain, PhaseOf
<1>25. before' = L!Without(before, 2)
  BY <1>19, <1>20, <1>22
<1>26. QED
  BY <1>13, <1>23, <1>24, <1>25 DEF L!Remove, Taken

LEMMA UndoUndoes ==
    ASSUME AbstractInv, HistoryNext, ~ Building, ~ Building', Undo PROVE L!Undo
<1>1. InputInv /\ ControlInv /\ HeapInv /\ fr \in Frame
  BY DEF AbstractInv, ListInv, ControlInv
<1>2. PICK w, r : OrderInv(w, r) /\ PastInv(w, r)
  BY DEF AbstractInv, ListInv
<1>3. /\ pc = "undo" /\ pc' = "pass" /\ fr' = fr
      /\ heap' = core_list_undo_remove(heap, fr.remover, heap.next[fr.list])
      /\ ms' = SortStart(fr.list, "idx", "check")
  BY DEF Undo
<1>4. PICK n \in Nat : n = Nodes /\ n >= 3
  BY <1>1, InputFacts
<1>5. PICK h : Whole(h, w, n, fr.list) /\ Unlinked(heap, h, w[2], w[3]) /\ fr.remover = w[3]
  BY <1>2, <1>3, <1>4 DEF OrderInv, Removed
<1>6. /\ w[1] = fr.list /\ h.next[w[1]] = w[2] /\ w[1] # w[2] /\ w[1] # w[3] /\ w[2] # w[3]
      /\ w[1] \in Addr(n + 1) /\ w[2] \in Addr(n + 1) /\ w[3] \in Addr(n + 1)
  <2>1. PICK first : first = fr.list
    OBVIOUS
  <2>2. Whole(h, w, n, first)
    BY <1>5, <2>1
  <2>3. QED
    BY <1>4, <2>1, <2>2, FirstThree
<1>7. h \in HeapOf(n + 1) /\ heap \in HeapOf(n + 1)
  BY <1>1, <1>4, <1>5 DEF HeapInv, Whole
<1>8. heap.next[fr.list] = w[2]
  <2>1. heap.next = [h.next EXCEPT ![w[2]] = h.next[w[3]], ![w[3]] = NULL]
    BY <1>5 DEF Unlinked
  <2>2. QED
    BY <1>6, <1>7, <2>1, HeapPointers DEF Pointers
<1>9. heap' = h
  <2>1. PICK e : e = heap'
    OBVIOUS
  <2>2. PICK g : g = heap
    OBVIOUS
  <2>3. e = core_list_undo_remove(g, w[3], w[2])
    BY <1>3, <1>5, <1>8, <2>1, <2>2
  <2>4. e = h
    BY <1>4, <1>5, <1>7, <2>2, <2>3, UndoIs
  <2>5. QED
    BY <2>1, <2>4
<1>10. Whole(heap', w, n, fr'.list) /\ heap'.data = heap.data
  BY <1>3, <1>5, <1>9 DEF Unlinked
<1>11. Items' = [i \in 1 .. n |-> heap'.data[w[i]]]
  <2>1. PICK first : first = fr'.list
    OBVIOUS
  <2>2. first = (IF pc' \in {"iterate", "done"} THEN res'.list ELSE fr'.list)
    BY <1>3, <2>1
  <2>3. QED
    BY <1>4, <1>10, <2>1, <2>2, ItemsNext
<1>12. before' = Items' /\ pristine' = pristine
  BY <1>3, HistoryIs DEF BeforeStep, Busy, Sorting
<1>13. before = [i \in 1 .. n - 1 |-> heap.data[KeptItem(w, i)]]
  BY <1>2, <1>3, <1>4 DEF PastInv
<1>14. Info(heap, fr.remover) = heap.data[w[2]]
  <2>1. h.info \in [Addr(n + 1) -> Addr(n + 1)] /\ h.info[w[2]] = w[2]
    BY <1>5, <1>6, <1>7, HeapPointers DEF Whole
  <2>2. QED
    BY <1>5, <1>6, <2>1 DEF Info, Unlinked
<1>15. PICK d : d = heap.data
  OBVIOUS
<1>16. PICK s : s = before'
  OBVIOUS
<1>17. PICK t : t = before
  OBVIOUS
<1>18. PICK x : x = Info(heap, fr.remover)
  OBVIOUS
<1>19. /\ d \in [Addr(n + 1) -> Datum] /\ Arranged(w, n) /\ x = d[w[2]]
       /\ s = [i \in 1 .. n |-> d[w[i]]] /\ KeptOf(t, w, d, n)
  BY <1>5, <1>7, <1>10, <1>11, <1>12, <1>13, <1>14, <1>15, <1>16, <1>17, <1>18, HeapPointers
     DEF Whole, ListAt, KeptOf
<1>20. s = L!With(t, 2, x)
  BY <1>4, <1>19, WithoutBack
<1>21. before' = L!With(before, 2, Info(heap, fr.remover))
  BY <1>16, <1>17, <1>18, <1>20
<1>22. Taken[1] = Info(heap, fr.remover) /\ Taken' = <<>>
  BY <1>3 DEF Taken
<1>23. Phase = "removed" /\ Phase' = "undone"
  <2>1. Phase = "removed"
    BY <1>3, PlainPhase DEF Plain, PhaseOf
  <2>2. ms'.after = "check"
    BY <1>3 DEF SortStart
  <2>3. QED
    BY <1>3, <2>1, <2>2, SortPhaseNext DEF Sorting, SortPhaseOf
<1>24. QED
  BY <1>12, <1>21, <1>22, <1>23 DEF L!Undo, Taken

\* The last pass of a sort.
LEMMA LastPass ==
    ASSUME DistinctIdx, AbstractInv, HistoryNext, ~ Building, ~ Building', EndPass, ms.nmerges <= 1
    PROVE  SortedAs(before, before', Nodes, ms.cmp) /\ pristine' = pristine
<1>1. InputInv /\ ControlInv /\ HeapInv /\ ms \in SortState /\ fr \in Frame
  BY DEF AbstractInv, ListInv, ControlInv
<1>2. PICK w, r : OrderInv(w, r) /\ PastInv(w, r)
  BY DEF AbstractInv, ListInv
<1>3. /\ pc = "pass" /\ ms.p = NULL /\ heap' = SetNext(heap, ms.tail, NULL)
      /\ pc' = ms.after /\ ms' = NoSort /\ fr' = [fr EXCEPT !.list = ms.list]
  BY DEF EndPass
<1>4. PICK n \in Nat : n = Nodes /\ n >= 3 /\ heap \in HeapOf(n + 1)
  BY <1>1, InputFacts DEF HeapInv
<1>5. PassState(heap, ms, r, w, n)
  BY <1>2, <1>3, <1>4 DEF OrderInv
<1>6. PICK m : m = ms
  OBVIOUS
<1>7. PICK g : g = heap'
  OBVIOUS
<1>8. PICK h : h = heap
  OBVIOUS
<1>9. /\ m \in SortState /\ h \in HeapOf(n + 1) /\ PassState(h, m, r, w, n) /\ m.p = NULL
      /\ g = SetNext(h, m.tail, NULL)
  BY <1>1, <1>3, <1>4, <1>5, <1>6, <1>7, <1>8
<1>10. /\ g \in HeapOf(n + 1) /\ g.info = h.info /\ g.data = h.data /\ m.tail \in Addr(n)
       /\ \A x \in Addr(n + 1) : x # m.tail => g.next[x] = h.next[x]
       /\ ListAt(g, w, n, m.list) /\ (m.nmerges <= 1 => AllOrd(g.data, m.cmp, r, w, n))
  BY <1>4, <1>9, EndPassState
<1>11. h.next[n] = NULL /\ DataKept(h, n, in.seed1) /\ OwnData(h, n)
  BY <1>1, <1>3, <1>4, <1>8 DEF HeapInv
<1>12. Whole(g, w, n, m.list)
  <2>1. n \in Addr(n + 1) /\ m.tail # n
    BY <1>10 DEF Addr
  <2>2. QED
    BY <1>10, <1>11, <2>1 DEF Whole, OwnData
<1>13. Items' = [i \in 1 .. n |-> heap'.data[w[i]]]
  <2>1. PICK first : first = m.list
    OBVIOUS
  <2>2. pc' \in {"remove", "check"}
    BY <1>1, <1>3 DEF ControlInv, Sorting, Building
  <2>3. fr'.list = ms.list
    BY <1>1, <1>3 DEF Frame
  <2>4. first = (IF pc' \in {"iterate", "done"} THEN res'.list ELSE fr'.list)
    BY <1>6, <2>1, <2>2, <2>3
  <2>5. Whole(heap', w, n, first)
    BY <1>7, <1>12, <2>1
  <2>6. QED
    BY <1>4, <2>4, <2>5, ItemsNext
<1>14. before' = Items' /\ pristine' = pristine
  <2>1. pc' \in {"remove", "check"}
    BY <1>1, <1>3 DEF ControlInv, Sorting, Building
  <2>2. ~ Busy'
    BY <2>1 DEF Busy, Sorting
  <2>3. QED
    BY <2>2, HistoryIs DEF BeforeStep
<1>15. Ranked(before, heap.data, r, n, ms.cmp)
  BY <1>2, <1>3, <1>4 DEF PastInv, Sorting
<1>16. PICK d : d = heap.data
  OBVIOUS
<1>17. PICK s : s = before
  OBVIOUS
<1>18. PICK t : t = before'
  OBVIOUS
<1>19. DistinctHeap(d, n)
  <2>1. PICK seed : seed = in.seed1
    OBVIOUS
  <2>2. DistinctAt(n, seed)
    BY <1>1, <1>4, <2>1, DistinctHere
  <2>3. \A x \in Addr(n) : d[x].idx = Base(n, seed, x).idx
    BY <1>8, <1>11, <1>16, <2>1 DEF DataKept, Alike
  <2>4. QED
    BY <2>2, <2>3 DEF DistinctAt, DistinctHeap
<1>20. /\ d \in [Addr(n + 1) -> Datum] /\ Ranks(r, n) /\ Arranged(w, n)
       /\ AllOrd(d, m.cmp, r, w, n) /\ Ranked(s, d, r, n, m.cmp)
       /\ t = [i \in 1 .. n |-> d[w[i]]]
  <2>1. Arranged(w, n) /\ Ranks(r, n)
    BY <1>5, <1>10 DEF ListAt, PassState
  <2>2. AllOrd(d, m.cmp, r, w, n)
    BY <1>6, <1>8, <1>10, <1>16
  <2>3. Ranked(s, d, r, n, m.cmp)
    BY <1>6, <1>15, <1>16, <1>17
  <2>4. t = [i \in 1 .. n |-> d[w[i]]]
    BY <1>7, <1>8, <1>10, <1>13, <1>14, <1>16, <1>18
  <2>5. d \in [Addr(n + 1) -> Datum]
    BY <1>4, <1>16, HeapPointers
  <2>6. QED
    BY <2>1, <2>2, <2>3, <2>4, <2>5
<1>21. PICK cmp : cmp = m.cmp
  OBVIOUS
<1>22. SortedAs(s, t, n, cmp)
  BY <1>4, <1>19, <1>20, <1>21, SortGives
<1>23. QED
  BY <1>4, <1>6, <1>14, <1>17, <1>18, <1>21, <1>22

\* What the abstract list wants of its two sorts.
LEMMA SortedByData ==
    ASSUME NEW n, NEW s, NEW t, SortedAs(s, t, n, "data")
    PROVE  /\ Len(t) = Len(s) /\ Len(t) = n /\ L!Indices(t) = L!Indices(s)
           /\ \A i, j \in 1 .. n : i < j =>
                  \/ t[i].data16 % 128 < t[j].data16 % 128
                  \/ t[i].data16 % 128 = t[j].data16 % 128 /\ L!At(s, t[i].idx) < L!At(s, t[j].idx)
           /\ \A i \in 1 .. n :
                  LET x == s[L!At(s, t[i].idx)] y == t[i]
                  IN  /\ HighByte(y.data16) = HighByte(x.data16)
                      /\ Field(y.data16, 7, 1) = 1
                      /\ Field(x.data16, 7, 1) = 1 => y = x
<1>1. Len(t) = Len(s) /\ Len(t) = n /\ L!Indices(t) = L!Indices(s)
  BY DEF SortedAs
<1>2. \A x : KeyOf(x, "data") = x.data16 % 128
  BY DEF KeyOf
<1>3. \A i, j \in 1 .. n : i < j =>
          \/ t[i].data16 % 128 < t[j].data16 % 128
          \/ t[i].data16 % 128 = t[j].data16 % 128 /\ L!At(s, t[i].idx) < L!At(s, t[j].idx)
  BY <1>2 DEF SortedAs
<1>4. ASSUME NEW i \in 1 .. n
      PROVE  LET x == s[L!At(s, t[i].idx)] y == t[i]
             IN  /\ HighByte(y.data16) = HighByte(x.data16)
                 /\ Field(y.data16, 7, 1) = 1
                 /\ Field(x.data16, 7, 1) = 1 => y = x
  <2>1. PICK k \in 1 .. n : /\ k = L!At(s, t[i].idx) /\ Alike(t[i], s[k]) /\ Settled(t[i], "data")
                            /\ Settled(s[k], "data") => t[i] = s[k]
    BY DEF SortedAs
  <2>2. QED
    BY <2>1 DEF Alike, Settled
<1>5. QED
  BY <1>1, <1>3, <1>4

LEMMA SortedByIdx ==
    ASSUME NEW n, NEW s, NEW t, SortedAs(s, t, n, "idx")
    PROVE  /\ Len(t) = Len(s) /\ Len(t) = n /\ L!Indices(t) = L!Indices(s)
           /\ \A i, j \in 1 .. n : i < j =>
                  \/ t[i].idx < t[j].idx
                  \/ t[i].idx = t[j].idx /\ L!At(s, t[i].idx) < L!At(s, t[j].idx)
           /\ \A i \in 1 .. n :
                  t[i] = [s[L!At(s, t[i].idx)] EXCEPT !.data16 = 257 * HighByte(@)]
<1>1. Len(t) = Len(s) /\ Len(t) = n /\ L!Indices(t) = L!Indices(s)
  BY DEF SortedAs
<1>2. \A x : KeyOf(x, "idx") = x.idx
  BY DEF KeyOf
<1>3. \A i, j \in 1 .. n : i < j =>
          \/ t[i].idx < t[j].idx
          \/ t[i].idx = t[j].idx /\ L!At(s, t[i].idx) < L!At(s, t[j].idx)
  BY <1>2 DEF SortedAs
<1>4. ASSUME NEW i \in 1 .. n
      PROVE  t[i] = [s[L!At(s, t[i].idx)] EXCEPT !.data16 = 257 * HighByte(@)]
  <2>1. PICK k \in 1 .. n : k = L!At(s, t[i].idx) /\ Alike(t[i], s[k]) /\ Settled(t[i], "idx")
    BY DEF SortedAs
  <2>2. PICK x \in Datum : x = s[k]
    BY DEF SortedAs
  <2>3. PICK y \in Datum : y = t[i]
    BY DEF SortedAs
  <2>4. y.idx = x.idx /\ y.data16 = 257 * HighByte(x.data16)
    BY <2>1, <2>2, <2>3 DEF Alike, Settled
  <2>5. y = [x EXCEPT !.data16 = 257 * HighByte(@)]
    BY <2>4 DEF Datum
  <2>6. QED
    BY <2>1, <2>2, <2>3, <2>5
<1>5. QED
  BY <1>1, <1>3, <1>4

LEMMA SortEnds ==
    ASSUME DistinctIdx, AbstractInv, HistoryNext, ~ Building, ~ Building', EndPass, ms.nmerges <= 1
    PROVE  L!SortByData \/ L!SortByIdx
<1>1. SortedAs(before, before', Nodes, ms.cmp) /\ pristine' = pristine
  BY LastPass
<1>2. pc = "pass" /\ pc' = ms.after /\ fr'.finder_idx = fr.finder_idx
  BY DEF EndPass, AbstractInv, ListInv, ControlInv, Frame
<1>3. ms.after \in {"remove", "check"}
  BY <1>2 DEF AbstractInv, ListInv, ControlInv, Sorting, Building
<1>4. Phase = SortPhaseOf(ms.after)
  BY <1>2, SortPhase DEF Sorting
<1>5. CASE ms.after = "remove"
  <2>1. ms.cmp = "data" /\ fr.finder_idx > 0
    BY <1>2, <1>5 DEF AbstractInv, ListInv, ControlInv, Sorting
  <2>2. Phase = "find" /\ Phase' = "sorted"
    BY <1>2, <1>4, <1>5, <2>1, PlainPhaseNext DEF SortPhaseOf, Plain, PhaseOf
  <2>3. PICK s : s = before
    OBVIOUS
  <2>4. PICK t : t = before'
    OBVIOUS
  <2>5. SortedAs(s, t, Nodes, "data")
    BY <1>1, <2>1, <2>3, <2>4
  <2>6. /\ Len(t) = Len(s) /\ Len(t) = Nodes /\ L!Indices(t) = L!Indices(s)
        /\ \A i, j \in 1 .. Nodes : i < j =>
               \/ t[i].data16 % 128 < t[j].data16 % 128
               \/ t[i].data16 % 128 = t[j].data16 % 128 /\ L!At(s, t[i].idx) < L!At(s, t[j].idx)
        /\ \A i \in 1 .. Nodes :
               LET x == s[L!At(s, t[i].idx)] y == t[i]
               IN  /\ HighByte(y.data16) = HighByte(x.data16)
                   /\ Field(y.data16, 7, 1) = 1
                   /\ Field(x.data16, 7, 1) = 1 => y = x
    BY <2>5, SortedByData
  <2>7. pc # "undo" /\ pc' # "undo"
    BY <1>2, <1>5
  <2>8. L!SortByData
    BY <1>1, <2>2, <2>3, <2>4, <2>6, <2>7 DEF L!SortByData, L!Sorts
  <2>9. QED
    BY <2>8
<1>6. CASE ms.after = "check"
  <2>1. ms.cmp = "idx"
    BY <1>2, <1>6 DEF AbstractInv, ListInv, ControlInv, Sorting
  <2>2. Phase = "undone" /\ Phase' = "checked"
    BY <1>2, <1>4, <1>6, PlainPhaseNext DEF SortPhaseOf, Plain, PhaseOf
  <2>3. PICK s : s = before
    OBVIOUS
  <2>4. PICK t : t = before'
    OBVIOUS
  <2>5. SortedAs(s, t, Nodes, "idx")
    BY <1>1, <2>1, <2>3, <2>4
  <2>6. /\ Len(t) = Len(s) /\ Len(t) = Nodes /\ L!Indices(t) = L!Indices(s)
        /\ \A i, j \in 1 .. Nodes : i < j =>
               \/ t[i].idx < t[j].idx
               \/ t[i].idx = t[j].idx /\ L!At(s, t[i].idx) < L!At(s, t[j].idx)
        /\ \A i \in 1 .. Nodes :
               t[i] = [s[L!At(s, t[i].idx)] EXCEPT !.data16 = 257 * HighByte(@)]
    BY <2>5, SortedByIdx
  <2>7. pc # "undo" /\ pc' # "undo"
    BY <1>2, <1>6
  <2>8. L!SortByIdx
    BY <1>1, <2>2, <2>3, <2>4, <2>6, <2>7 DEF L!SortByIdx, L!Sorts
  <2>9. QED
    BY <2>8
<1>7. QED
  BY <1>3, <1>5, <1>6

\* The steps within a sort.
LEMMA MergeStays ==
    ASSUME AbstractInv, HistoryNext, ~ Building, ~ Building',
           StartMerge \/ TakeRest \/ MergeByIdx \/ MergeByData \/ NextRun
    PROVE  Unseen
<1>1. ms \in SortState
  BY DEF AbstractInv, ListInv, ControlInv
<1>2. Sorting /\ Sorting'
  BY DEF StartMerge, TakeRest, MergeByIdx, MergeByData, NextRun, Sorting
<1>3. CASE StartMerge \/ NextRun
  <2>1. ms'.after = ms.after
    BY <1>1, <1>3 DEF StartMerge, NextRun, SortState
  <2>2. QED
    BY <1>2, <2>1, SortStays
<1>4. CASE TakeRest \/ MergeByIdx \/ MergeByData
  <2>1. ms'.after = ms.after
    BY <1>1, <1>4 DEF TakeRest, MergeByIdx, MergeByData, TakeP, TakeQ, SortState
  <2>2. QED
    BY <1>2, <2>1, SortStays
<1>5. QED
  BY <1>3, <1>4

LEMMA PassStays ==
    ASSUME AbstractInv, HistoryNext, ~ Building, ~ Building', EndPass, ~ (ms.nmerges <= 1)
    PROVE  Unseen
<1>1. ms'.after = ms.after /\ pc = "pass" /\ pc' = "pass"
  BY DEF EndPass, SortStart
<1>2. QED
  BY <1>1, SortStays DEF Sorting

LEMMA ComputeStays ==
    ASSUME AbstractInv, HistoryNext, ~ Building, ~ Building',
           CalcData \/ CalcMatrix \/ CalcState \/ Token \/ Corrupt \/ EndState
    PROVE  Unseen
<1>1. CASE CalcData \/ CalcMatrix \/ CalcState
  <2>1. pc = "merge" /\ ms' = ms /\ pc' \in {"merge", "scan1"}
    BY <1>1 DEF CalcData, CalcMatrix, CalcState, Computing
  <2>2. QED
    BY <2>1, SortStays DEF Sorting
<1>2. CASE Token \/ Corrupt \/ EndState
  <2>1. Scanning /\ ms' = ms /\ pc' \in {"merge", "scan1", "scan2"}
    BY <1>2 DEF Token, Corrupt, EndState, Scanning
  <2>2. QED
    BY <2>1, SortStays DEF Sorting, Scanning
<1>3. QED
  BY <1>1, <1>2

\* The list is built.
LEMMA OrderSorts ==
    ASSUME NEW n \in Nat, n >= 3, NEW seed \in Int, NEW b, InOrder(b, n, seed)
    PROVE  /\ Len(b) = n /\ b[1].idx = 0
           /\ \A i, j \in 1 .. n : i < j => b[i].idx < b[j].idx
<1>1. PICK w : /\ Arranged(w, n) /\ b = [i \in 1 .. n |-> Base(n, seed, w[i])]
               /\ \A i, j \in 1 .. n : i < j => b[i].idx < b[j].idx
  BY DEF InOrder
<1>2. \A i \in 1 .. n : w[i] \in Addr(n)
  BY <1>1, ArrangedIs
<1>3. \A i \in 1 .. n : Base(n, seed, w[i]) \in Datum /\ Base(n, seed, w[i]).idx >= 0
  BY <1>2, BaseIs
<1>4. b \in [1 .. n -> Datum] /\ \A i \in 1 .. n : b[i] = Base(n, seed, w[i])
  BY <1>1, <1>3
<1>5. Len(b) = n
  BY <1>4
<1>6. PICK i \in 1 .. n : w[i] = 0
  BY <1>1 DEF Arranged, Addr
<1>7. b[i].idx = 0
  BY <1>4, <1>6 DEF Base
<1>8. b[1] \in Datum /\ b[1].idx >= 0
  BY <1>3, <1>4
<1>9. b[1].idx \in Int
  BY <1>8 DEF Datum
<1>10. i = 1
  <2> SUFFICES ASSUME i # 1 PROVE FALSE
    OBVIOUS
  <2>1. 1 < i /\ 1 \in 1 .. n
    OBVIOUS
  <2>2. b[1].idx < b[i].idx
    BY <1>1, <2>1
  <2>3. QED
    BY <1>7, <1>8, <1>9, <2>2
<1>11. QED
  BY <1>1, <1>5, <1>7, <1>10

LEMMA TextBuilds ==
    ASSUME DistinctIdx, AbstractInv, HistoryNext, EndText PROVE L!Build
<1>1. pc = "text" /\ pc' = "iterate" /\ Building /\ ~ Building' /\ ~ Busy
  BY DEF EndText, Building, Busy, Sorting
<1>2. before' = Items' /\ pristine'.items = Items'
  BY <1>1, HistoryIs DEF BeforeStep
<1>3. Phase = "build" /\ Phase' = "idle"
  BY <1>1, BuildPhase, PlainPhaseNext DEF Plain, PhaseOf
<1>4. InOrder(Items', Nodes, in.seed1)
  BY EndTextItems DEF AbstractInv
<1>5. PICK n \in Nat : n = Nodes /\ n >= 3
  BY InputFacts DEF AbstractInv
<1>6. PICK s \in Int : s = in.seed1
  BY InputFacts DEF AbstractInv
<1>7. PICK b : b = before'
  OBVIOUS
<1>8. InOrder(b, n, s)
  BY <1>2, <1>4, <1>5, <1>6, <1>7
<1>9. /\ Len(b) = n /\ b[1].idx = 0
      /\ \A i, j \in 1 .. n : i < j => b[i].idx < b[j].idx
  BY <1>5, <1>8, OrderSorts
<1>10. pc # "undo" /\ pc' # "undo"
  BY <1>1
<1>11. QED
  BY <1>2, <1>3, <1>7, <1>9, <1>10 DEF L!Build, L!Sorts

LEMMA AbstractSteps ==
    ASSUME DistinctIdx, AbstractInv, HistoryNext PROVE L!Next \/ Unseen
<1>1. Next /\ ListInv
  BY HistoryIs DEF AbstractInv
<1>2. (Building /\ ~ Building' => EndText) /\ (~ Building => ~ Building')
  BY <1>1, BuildingSteps
<1>3. CASE Building /\ Building'
  BY <1>3, BuildStays
<1>4. CASE Building /\ ~ Building'
  BY <1>2, <1>4, TextBuilds DEF L!Next
<1>5. CASE ~ Building /\ ~ Building'
  <2>1. CASE InitItem \/ EndItems \/ InitCells \/ EndCells \/ InitText \/ EndText
    BY <1>5, <2>1 DEF InitItem, EndItems, InitCells, EndCells, InitText, EndText, Building
  <2>2. CASE Find \/ Reverse \/ EndFind \/ Report \/ Park
    BY <1>5, <2>2, FindStays, ReverseStays, EndFindStays, ReportStays, ParkStays
  <2>3. CASE Iterate
    BY <1>5, <2>3, IterateCalls DEF L!Next
  <2>4. CASE UseFound
    BY <1>5, <2>4, UseFoundTurns DEF L!Next
  <2>5. CASE Remove
    BY <1>5, <2>5, RemoveRemoves DEF L!Next
  <2>6. CASE Undo
    BY <1>5, <2>6, UndoUndoes DEF L!Next
  <2>7. CASE Check
    BY <1>5, <2>7, CheckReturns DEF L!Next
  <2>8. CASE StartMerge \/ TakeRest \/ MergeByIdx \/ MergeByData \/ NextRun
    BY <1>5, <2>8, MergeStays
  <2>9. CASE EndPass
    <3>1. CASE ms.nmerges <= 1
      BY <1>5, <2>9, <3>1, SortEnds DEF L!Next
    <3>2. CASE ~ (ms.nmerges <= 1)
      BY <1>5, <2>9, <3>2, PassStays
    <3>3. QED
      BY <3>1, <3>2
  <2>10. CASE CalcData \/ CalcMatrix \/ CalcState \/ Token \/ Corrupt \/ EndState
    BY <1>5, <2>10, ComputeStays
  <2>11. QED
    BY <1>1, <2>1, <2>2, <2>3, <2>4, <2>5, <2>6, <2>7, <2>8, <2>9, <2>10 DEF Next
<1>6. QED
  BY <1>2, <1>3, <1>4, <1>5

LEMMA EarlyStep == ASSUME EarlyInv, [HistoryNext]_hvars PROVE EarlyInv'
<1>1. CASE HistoryNext
  BY <1>1, HistoryIs DEF EarlyInv, BeforeStep
<1>2. CASE UNCHANGED hvars
  BY <1>2 DEF hvars, vars, EarlyInv, Building
<1>3. QED
  BY <1>1, <1>2

\* core_list_join.c implements the list without pointers of ListSpec.tla: seen
\* between the loops that rewire it, the list is a sequence that the calls of
\* core_bench_list turn around, reorder, sort by computed value, shorten by
\* its second item, complete again and sort by idx, until at every return it
\* is the sequence that core_list_init built, as long as no two items have
\* one idx.
THEOREM ListRefines == ASSUME DistinctIdx PROVE HistorySpec => ImplementsList
<1>1. ZeroOnlyHead
  BY DistinctZero
<1>2. HistorySpec => [](InputInv /\ MatrixInv /\ ListInv)
  BY <1>1, ListHolds
<1>3. HistoryInit => PristineInv /\ EarlyInv
  BY PristineInit DEF HistoryInit, EarlyInv
<1>4. InputInv /\ MatrixInv /\ ListInv /\ PristineInv /\ EarlyInv /\ [HistoryNext]_hvars
          => PristineInv' /\ EarlyInv'
  BY PristineStep, EarlyStep
<1>5. HistoryInit => L!Init
  <2> SUFFICES ASSUME HistoryInit PROVE L!Init
    OBVIOUS
  <2>1. pc = "items" /\ before = <<>> /\ pristine.items = <<>>
    BY DEF HistoryInit, Init
  <2>2. Phase = "build"
    BY <2>1, BuildPhase DEF Building
  <2>3. QED
    BY <2>1, <2>2 DEF L!Init
<1>6. InputInv /\ MatrixInv /\ ListInv /\ PristineInv /\ EarlyInv /\ [HistoryNext]_hvars
          => [L!Next]_<<Phase, before, IF pc = "undo" THEN <<Info(heap, fr.remover)>> ELSE <<>>,
                        pristine.items>>
  <2> SUFFICES ASSUME AbstractInv, [HistoryNext]_hvars
               PROVE  L!Next \/ Unseen
    BY DEF AbstractInv, Unseen, Taken
  <2>1. CASE HistoryNext
    BY <2>1, AbstractSteps
  <2>2. CASE UNCHANGED hvars
    <3>1. Phase' = Phase
      BY <2>2 DEF hvars, vars, Phase, Building, Sorting
    <3>2. Taken' = Taken
      BY <2>2 DEF hvars, vars, Taken, Info
    <3>3. QED
      BY <2>2, <3>1, <3>2 DEF hvars, Unseen
  <2>3. QED
    BY <2>1, <2>2
<1>7. QED
  BY <1>2, <1>3, <1>4, <1>5, <1>6, PTL DEF HistorySpec, ImplementsList, L!Spec
====
