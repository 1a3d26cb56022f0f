----------------------------- MODULE MulDivProofs -----------------------------
(***************************************************************************)
(* The multipliers and the divider of mul_div.v for every word size: the   *)
(* result they present is the one of the operands they accepted last, when *)
(* it comes, and the bound on the partial remainder that restoring         *)
(* division rests on.                                                      *)
(***************************************************************************)
EXTENDS MultiplierSpec, Multiplier3, DividerSpec, TLAPS

(* A word-sized assignment yields a word (every "result <=" of mul_div.v).  *)
LEMMA BasePositive == Base \in Nat /\ Base > 0
BY XLENAssumption DEF Base

LEMMA TruncInWord == ASSUME NEW x \in Int PROVE Trunc(x) \in Word
BY BasePositive DEF Trunc, Word

(* The result select on the widened product is the reference product, for  *)
(* each of the four operations (prod66, result).                           *)
LEMMA SelectIsReference ==
    ASSUME NEW op \in MulOp, NEW a, NEW b
    PROVE  MulSelect(op, Prod66(op, a, b)) = MulRef(op, a, b)
BY DEF MulOp, MulSelect, Prod66, MulRef

MulRecord == [busy : BOOLEAN, valid : BOOLEAN, result : Word,
              a_r : Word, b_r : Word, op_r : MulOp]
MulTypeOK == /\ mul \in MulRecord
             /\ op0 \in MulOp /\ a0 \in Word /\ b0 \in Word /\ age \in 0 .. 2

\* What is in flight is what was accepted; what is presented is its product.
MulInv == MulTypeOK /\ MulInFlight /\ MulCorrect

LEMMA SelectInWord ==
    ASSUME NEW op \in MulOp, NEW a \in Word, NEW b \in Word
    PROVE  MulSelect(op, Prod66(op, a, b)) \in Word
<1>1. a \in Int /\ b \in Int /\ Base \in Int /\ Base > 0
  BY BasePositive DEF Word
<1>2. Signed(a) \in Int /\ Signed(b) \in Int
  BY <1>1 DEF Signed
<1>3. Prod66(op, a, b) \in Int
  BY <1>1, <1>2 DEF Prod66
<1>4. Prod66(op, a, b) \div Base \in Int
  BY <1>1, <1>3
<1>5. QED
  BY <1>3, <1>4, TruncInWord DEF MulSelect

LEMMA MulInit_Inv == MulSpecInit => MulInv
<1>1. 0 \in Word
  BY BasePositive DEF Word
<1>2. QED
  BY <1>1 DEF MulSpecInit, MulInit, MulReset, MulInv, MulTypeOK, MulRecord, MulInFlight, MulCorrect, MulOp

\* One clock, whatever is on the inputs.
LEMMA ClockStep ==
    ASSUME MulInv, NEW start \in BOOLEAN, NEW flush \in BOOLEAN,
           NEW a \in Word, NEW b \in Word, NEW op \in MulOp,
           MulClock(start, a, b, op, flush), MulAccepted(start, a, b, op, flush)
    PROVE  MulInv'
<1>0. /\ mul.busy \in BOOLEAN /\ mul.valid \in BOOLEAN
      /\ mul.op_r \in MulOp /\ mul.a_r \in Word /\ mul.b_r \in Word
  BY DEF MulInv, MulTypeOK, MulRecord
<1>1. CASE flush
  <2>1. mul' = [mul EXCEPT !.busy = FALSE, !.valid = FALSE]
    BY <1>1 DEF MulClock
  <2>2. UNCHANGED <<op0, a0, b0>> /\ age' \in 0 .. 2
    BY <1>1 DEF MulAccepted, MulInv, MulTypeOK
  <2>3. QED
    BY <2>1, <2>2 DEF MulInv, MulTypeOK, MulRecord, MulInFlight, MulCorrect
<1>2. CASE ~flush /\ start /\ ~mul.busy
  <2>1. mul' = [mul EXCEPT !.valid = FALSE, !.busy = TRUE,
                           !.a_r = a, !.b_r = b, !.op_r = op]
    BY <1>2 DEF MulClock
  <2>2. op0' = op /\ a0' = a /\ b0' = b /\ age' = 0
    BY <1>2 DEF MulAccepted
  <2>3. MulTypeOK'
    <3> DEFINE m == [mul EXCEPT !.valid = FALSE, !.busy = TRUE]
    <3>1. m \in MulRecord
      BY DEF MulInv, MulTypeOK, MulRecord
    <3>2. mul' = [m EXCEPT !.a_r = a, !.b_r = b, !.op_r = op]
      BY <2>1
    <3> HIDE DEF m
    <3>3. mul' \in MulRecord
      BY <3>1, <3>2 DEF MulRecord
    <3>4. QED
      BY <2>2, <3>3 DEF MulTypeOK
  <2>4. mul'.busy = TRUE /\ mul'.valid = FALSE /\ mul'.a_r = a /\ mul'.b_r = b /\ mul'.op_r = op
    BY <2>1 DEF MulInv, MulTypeOK, MulRecord
  <2>5. QED
    BY <2>2, <2>3, <2>4 DEF MulInv, MulInFlight, MulCorrect
<1>3. CASE ~flush /\ mul.busy
  <2> DEFINE r == MulSelect(mul.op_r, Prod66(mul.op_r, mul.a_r, mul.b_r))
  <2>1. mul' = [mul EXCEPT !.valid = TRUE, !.busy = FALSE, !.result = r]
    BY <1>3 DEF MulClock
  <2>2. op0' = op0 /\ a0' = a0 /\ b0' = b0 /\ age' = 1
    BY <1>3 DEF MulAccepted, MulInv, MulInFlight
  <2>3. r \in Word
    BY <1>0, SelectInWord
  <2>4. r = MulRef(op0, a0, b0)
    BY <1>0, <1>3, SelectIsReference DEF MulInv, MulInFlight
  <2> HIDE DEF r
  <2>5. MulTypeOK'
    <3> DEFINE m == [mul EXCEPT !.valid = TRUE, !.busy = FALSE]
    <3>1. m \in MulRecord
      BY DEF MulInv, MulTypeOK, MulRecord
    <3>2. mul' = [m EXCEPT !.result = r]
      BY <2>1
    <3> HIDE DEF m
    <3>3. mul' \in MulRecord
      BY <2>3, <3>1, <3>2 DEF MulRecord
    <3>4. QED
      BY <2>2, <3>3 DEF MulInv, MulTypeOK
  <2>6. mul'.busy = FALSE /\ mul'.valid = TRUE /\ mul'.result = r
    BY <2>1 DEF MulInv, MulTypeOK, MulRecord
  <2>7. MulRef(op0, a0, b0)' = MulRef(op0, a0, b0)
    BY <2>2
  <2>8. QED
    BY <2>2, <2>4, <2>5, <2>6, <2>7 DEF MulInv, MulInFlight, MulCorrect
<1>4. CASE ~flush /\ ~start /\ ~mul.busy
  <2>1. mul' = [mul EXCEPT !.valid = FALSE]
    BY <1>4 DEF MulClock
  <2>2. UNCHANGED <<op0, a0, b0>> /\ age' \in 0 .. 2
    BY <1>4 DEF MulAccepted, MulInv, MulTypeOK
  <2>3. QED
    BY <2>1, <2>2, <1>4 DEF MulInv, MulTypeOK, MulRecord, MulInFlight, MulCorrect
<1>5. QED
  BY <1>0, <1>1, <1>2, <1>3, <1>4

LEMMA MulNext_Inv == MulInv /\ [MulNext]_mvars => MulInv'
<1> SUFFICES ASSUME MulInv, [MulNext]_mvars PROVE MulInv'
  OBVIOUS
<1>0. 0 \in Word /\ "mul" \in MulOp
  BY BasePositive DEF Word, MulOp
<1>1. CASE MulRunOn(Word)
  BY <1>1, ClockStep DEF MulRunOn
<1>2. CASE MulWait
  BY <1>0, <1>2, ClockStep DEF MulWait
<1>3. CASE MulFlush
  BY <1>0, <1>3, ClockStep DEF MulFlush
<1>4. CASE UNCHANGED mvars
  BY <1>4 DEF mvars, MulInv, MulTypeOK, MulRecord, MulInFlight, MulCorrect
<1>5. QED
  BY <1>1, <1>2, <1>3, <1>4 DEF MulNext

(* The multiplier returns the product its operation selects of the operands *)
(* it accepted, whatever starts and flushes came between, for every XLEN    *)
(* (multiplier, g_pipe2).                                                   *)
THEOREM MultiplierCorrect == MulSpec => []MulCorrect
<1>1. MulInv => MulCorrect
  BY DEF MulInv
<1>2. QED
  BY <1>1, MulInit_Inv, MulNext_Inv, PTL DEF MulSpec
-----------------------------------------------------------------------------
\* The three-stage multiplier

(* The split point is positive: there is a power of two at it.              *)
LEMMA LowRangePositive == LowRange \in Nat /\ LowRange > 0
<1>1. XLEN \div 2 + 1 \in 0 .. XLEN
  BY XLENAssumption
<1>2. QED
  BY <1>1, XLENAssumption DEF LowRange

(* A number is its high part times the split point plus its low part.       *)
LEMMA SplitNumber ==
    ASSUME NEW y \in Int, NEW l \in Nat, l > 0
    PROVE  /\ y % l \in Int /\ y \div l \in Int
           /\ y = (y \div l) * l + (y % l)
OBVIOUS

(* The two partial products add up to the product (pp0_w, pp1_w, prod66).   *)
LEMMA PartialProducts ==
    ASSUME NEW x \in Int, NEW y \in Int, NEW l \in Nat, l > 0
    PROVE  x * (y % l) + (x * (y \div l)) * l = x * y
<1> DEFINE q == y \div l
           r == y % l
<1>1. q \in Int /\ r \in Int /\ y = q * l + r
  BY SplitNumber
<1> HIDE DEF q, r
<1>2. x * r + (x * q) * l = x * (q * l + r)
  BY <1>1
<1>3. QED
  BY <1>1, <1>2 DEF q, r

LEMMA ProductOfParts ==
    ASSUME NEW op \in MulOp, NEW a \in Word, NEW b \in Word
    PROVE  SumOf(PP0(op, a, b), PP1(op, a, b)) = A33(op, a) * B33(op, b)
<1>1. a \in Int /\ b \in Int /\ Base \in Int
  BY BasePositive DEF Word
<1>2. A33(op, a) \in Int /\ B33(op, b) \in Int
  BY <1>1 DEF A33, B33, Signed
<1>3. QED
  BY <1>2, LowRangePositive, PartialProducts DEF SumOf, PP0, PP1

(* The result selected from them is the reference product.                  *)
LEMMA Select3IsReference ==
    ASSUME NEW op \in MulOp, NEW a \in Word, NEW b \in Word
    PROVE  Select3(op, SumOf(PP0(op, a, b), PP1(op, a, b))) = MulRef(op, a, b)
<1>1. Select3(op, A33(op, a) * B33(op, b)) = MulRef(op, a, b)
  BY DEF MulOp, Select3, A33, B33, MulRef
<1>2. QED
  BY <1>1, ProductOfParts

(* What the registers between the stages hold are numbers.                  *)
LEMMA PartsAreNumbers ==
    ASSUME NEW op \in MulOp, NEW a \in Word, NEW b \in Word
    PROVE  PP0(op, a, b) \in Int /\ PP1(op, a, b) \in Int /\ MulRef(op, a, b) \in Int
<1>1. a \in Int /\ b \in Int /\ Base \in Int
  BY BasePositive DEF Word
<1>2. A33(op, a) \in Int /\ B33(op, b) \in Int
  BY <1>1 DEF A33, B33, Signed
<1>3. PP0(op, a, b) \in Int /\ PP1(op, a, b) \in Int
  BY <1>2, LowRangePositive, SplitNumber DEF PP0, PP1
<1>4. MulRef(op, a, b) \in Word
  BY SelectInWord, SelectIsReference
<1>5. QED
  BY <1>3, <1>4, BasePositive DEF Word

Mul3Record == [busy : BOOLEAN, valid : BOOLEAN, result : Int, a_r : Word, b_r : Word,
               op_r : MulOp, pp0_r : Int, pp1_r : Int, op_r2 : MulOp, st : 0 .. 2]

\* Stage by stage, what is in flight is what was accepted.
Mul3Inv ==
    /\ mul3 \in Mul3Record
    /\ op0 \in MulOp /\ a0 \in Word /\ b0 \in Word /\ age \in 0 .. 3
    /\ mul3.busy <=> mul3.st # 0
    /\ mul3.st = 1 => /\ mul3.op_r = op0 /\ mul3.a_r = a0 /\ mul3.b_r = b0 /\ age = 0
    /\ mul3.st = 2 => /\ mul3.op_r2 = op0 /\ age = 1
                      /\ mul3.pp0_r = PP0(op0, a0, b0) /\ mul3.pp1_r = PP1(op0, a0, b0)
    /\ Mul3Correct

LEMMA Mul3Init_Inv == Mul3SpecInit => Mul3Inv
<1>1. 0 \in Word
  BY BasePositive DEF Word
<1>2. QED
  BY <1>1 DEF Mul3SpecInit, Mul3Init, Mul3Reset, Mul3Inv, Mul3Record, Mul3Correct, MulOp

\* One clock changes the control bits and the stage within their types.
Enters(m)      == [m EXCEPT !.valid = FALSE, !.busy = TRUE, !.st = 1]
Advances(m)    == [m EXCEPT !.valid = FALSE, !.st = 2]
Idle3(m)       == [m EXCEPT !.valid = FALSE, !.busy = FALSE, !.st = 0]
Presents(m)    == [m EXCEPT !.valid = TRUE, !.busy = FALSE, !.st = 0]

LEMMA ControlUpdate ==
    ASSUME NEW m \in Mul3Record
    PROVE  /\ Enters(m) \in Mul3Record /\ Advances(m) \in Mul3Record
           /\ Idle3(m) \in Mul3Record /\ Presents(m) \in Mul3Record
<1> DEFINE low  == [m EXCEPT !.valid = FALSE]
           high == [m EXCEPT !.valid = TRUE]
           run  == [low EXCEPT !.busy = TRUE]
           stop == [low EXCEPT !.busy = FALSE]
           show == [high EXCEPT !.busy = FALSE]
<1>1. low \in Mul3Record /\ high \in Mul3Record
  BY DEF Mul3Record
<1> HIDE DEF low, high
<1>2. run \in Mul3Record /\ stop \in Mul3Record /\ show \in Mul3Record
  BY <1>1 DEF Mul3Record
<1> HIDE DEF run, stop, show
<1>3. /\ [run EXCEPT !.st = 1] \in Mul3Record /\ [low EXCEPT !.st = 2] \in Mul3Record
      /\ [stop EXCEPT !.st = 0] \in Mul3Record /\ [show EXCEPT !.st = 0] \in Mul3Record
  BY <1>1, <1>2 DEF Mul3Record
<1>4. QED
  BY <1>3 DEF low, high, run, stop, show, Enters, Advances, Idle3, Presents

LEMMA Clock3Step ==
    ASSUME Mul3Inv, NEW start \in BOOLEAN, NEW flush \in BOOLEAN,
           NEW a \in Word, NEW b \in Word, NEW op \in MulOp,
           Mul3Clock(start, a, b, op, flush), Mul3Accepted(start, a, b, op, flush)
    PROVE  Mul3Inv'
<1>1. CASE flush
  <2>1. mul3' = [mul3 EXCEPT !.busy = FALSE, !.valid = FALSE, !.st = 0]
    BY <1>1 DEF Mul3Clock, Abandon, Mul3Record
  <2>2. UNCHANGED <<op0, a0, b0>> /\ age' \in 0 .. 3
    BY <1>1 DEF Mul3Accepted, Mul3Inv, Mul3Record
  <2>3. mul3' = Idle3(mul3)
    BY <2>1 DEF Mul3Inv, Mul3Record, Idle3
  <2>4. mul3' \in Mul3Record
    BY <2>3, ControlUpdate DEF Mul3Inv
  <2>5. mul3'.valid = FALSE /\ mul3'.busy = FALSE /\ mul3'.st = 0
    BY <2>1 DEF Mul3Inv, Mul3Record
  <2>6. QED
    BY <2>2, <2>4, <2>5 DEF Mul3Inv, Mul3Correct, Mul3Record
<1>2. CASE ~flush /\ Takes(start)
  <2>1. mul3' = [mul3 EXCEPT !.valid = FALSE, !.a_r = a, !.b_r = b, !.op_r = op,
                             !.busy = TRUE, !.st = 1]
    BY <1>2 DEF Mul3Clock, Takes, Mul3Record
  <2>2. op0' = op /\ a0' = a /\ b0' = b /\ age' = 0
    BY <1>2 DEF Mul3Accepted, Mul3Record
  <2>3. mul3' \in Mul3Record
    <3> DEFINE m == Enters(mul3)
    <3>1. m \in Mul3Record
      BY ControlUpdate DEF Mul3Inv
    <3>2. mul3' = [m EXCEPT !.a_r = a, !.b_r = b, !.op_r = op]
      BY <2>1 DEF Mul3Inv, Mul3Record, Enters
    <3> HIDE DEF m
    <3>3. QED
      BY <3>1, <3>2 DEF Mul3Record
  <2>4. QED
    BY <2>1, <2>2, <2>3 DEF Mul3Inv, Mul3Correct, Mul3Record
<1>3. CASE ~flush /\ mul3.st = 0 /\ ~Takes(start)
  <2>1. mul3' = [mul3 EXCEPT !.valid = FALSE]
    BY <1>3 DEF Mul3Clock, Mul3Record
  <2>2. UNCHANGED <<op0, a0, b0>> /\ age' \in 0 .. 3
    BY <1>3 DEF Mul3Accepted, Mul3Inv, Mul3Record
  <2>3. mul3' \in Mul3Record
    BY <2>1 DEF Mul3Inv, Mul3Record
  <2>4. mul3'.valid = FALSE /\ mul3'.st = 0 /\ mul3'.busy = mul3.busy
    BY <2>1, <1>3 DEF Mul3Inv, Mul3Record
  <2>5. ~mul3.busy
    BY <1>3 DEF Mul3Inv, Mul3Record
  <2>6. QED
    BY <2>2, <2>3, <2>4, <2>5 DEF Mul3Inv, Mul3Correct
<1>4. CASE ~flush /\ mul3.st = 1
  <2> DEFINE p0 == PP0(mul3.op_r, mul3.a_r, mul3.b_r)
             p1 == PP1(mul3.op_r, mul3.a_r, mul3.b_r)
  <2>1. mul3' = [mul3 EXCEPT !.valid = FALSE, !.st = 2, !.op_r2 = mul3.op_r,
                             !.pp0_r = p0, !.pp1_r = p1]
    BY <1>4 DEF Mul3Clock, Takes, Mul3Record
  <2>2. op0' = op0 /\ a0' = a0 /\ b0' = b0 /\ age' = 1
    BY <1>4 DEF Mul3Accepted, Mul3Inv, Takes, Mul3Record
  <2>3. p0 = PP0(op0, a0, b0) /\ p1 = PP1(op0, a0, b0) /\ mul3.op_r = op0
    BY <1>4 DEF Mul3Inv, Mul3Record
  <2>4. PP0(op0, a0, b0)' = PP0(op0, a0, b0) /\ PP1(op0, a0, b0)' = PP1(op0, a0, b0)
    BY <2>2
  <2>5. p0 \in Int /\ p1 \in Int
    BY <2>3, PartsAreNumbers DEF Mul3Inv, Mul3Record
  <2> HIDE DEF p0, p1
  <2>6. mul3' \in Mul3Record
    <3> DEFINE m == Advances(mul3)
    <3>1. m \in Mul3Record
      BY ControlUpdate DEF Mul3Inv
    <3>2. mul3' = [m EXCEPT !.op_r2 = mul3.op_r, !.pp0_r = p0, !.pp1_r = p1]
      BY <2>1, <1>4 DEF Mul3Inv, Mul3Record, Advances
    <3> DEFINE m1 == [m EXCEPT !.op_r2 = mul3.op_r]
               m2 == [m1 EXCEPT !.pp0_r = p0]
    <3> HIDE DEF m
    <3>3. m1 \in Mul3Record
      BY <3>1 DEF Mul3Record, Mul3Inv
    <3>4. mul3' = [m2 EXCEPT !.pp1_r = p1]
      BY <3>2
    <3> HIDE DEF m1
    <3>5. m2 \in Mul3Record
      BY <2>5, <3>3 DEF Mul3Record
    <3> HIDE DEF m2
    <3>6. QED
      BY <2>5, <3>4, <3>5 DEF Mul3Record
  <2>7. QED
    BY <2>1, <2>2, <2>3, <2>4, <2>6, <1>4 DEF Mul3Inv, Mul3Correct, Mul3Record
<1>5. CASE ~flush /\ mul3.st = 2
  <2> DEFINE r == Select3(mul3.op_r2, SumOf(mul3.pp0_r, mul3.pp1_r))
  <2>1. mul3' = [mul3 EXCEPT !.valid = TRUE, !.busy = FALSE, !.st = 0, !.result = r]
    BY <1>5 DEF Mul3Clock, Takes, Mul3Record
  <2>2. op0' = op0 /\ a0' = a0 /\ b0' = b0 /\ age' = 2
    BY <1>5 DEF Mul3Accepted, Mul3Inv, Takes, Mul3Record
  <2>3. r = MulRef(op0, a0, b0)
    BY <1>5, Select3IsReference DEF Mul3Inv, Mul3Record
  <2>4. MulRef(op0, a0, b0)' = MulRef(op0, a0, b0)
    BY <2>2
  <2>5. r \in Int
    BY <2>3, PartsAreNumbers DEF Mul3Inv, Mul3Record
  <2> HIDE DEF r
  <2>6. mul3' \in Mul3Record
    <3> DEFINE m == Presents(mul3)
    <3>1. m \in Mul3Record
      BY ControlUpdate DEF Mul3Inv
    <3>2. mul3' = [m EXCEPT !.result = r]
      BY <2>1 DEF Mul3Inv, Mul3Record, Presents
    <3> HIDE DEF m
    <3>3. QED
      BY <2>5, <3>1, <3>2 DEF Mul3Record
  <2>7. QED
    BY <2>1, <2>2, <2>3, <2>4, <2>6 DEF Mul3Inv, Mul3Correct, Mul3Record
<1>6. QED
  BY <1>1, <1>2, <1>3, <1>4, <1>5 DEF Mul3Inv, Mul3Record

LEMMA Mul3Next_Inv == Mul3Inv /\ [Mul3Next]_m3vars => Mul3Inv'
<1> SUFFICES ASSUME Mul3Inv, [Mul3Next]_m3vars PROVE Mul3Inv'
  OBVIOUS
<1>0. 0 \in Word /\ "mul" \in MulOp
  BY BasePositive DEF Word, MulOp
<1>1. CASE Mul3RunOn(Word)
  BY <1>1, Clock3Step DEF Mul3RunOn
<1>2. CASE Mul3Wait
  BY <1>0, <1>2, Clock3Step DEF Mul3Wait
<1>3. CASE Mul3Flush
  BY <1>0, <1>3, Clock3Step DEF Mul3Flush
<1>4. CASE UNCHANGED m3vars
  BY <1>4 DEF m3vars, Mul3Inv, Mul3Correct
<1>5. QED
  BY <1>1, <1>2, <1>3, <1>4 DEF Mul3Next

(* The three-stage multiplier returns the product of the operands it        *)
(* accepted last, two clocks later, for every word size and every sequence  *)
(* of starts and flushes: the split of the second operand loses nothing     *)
(* (mul_div.v, g_pipe3).                                                    *)
THEOREM Multiplier3Correct == Mul3Spec => []Mul3Correct
<1>1. Mul3Inv => Mul3Correct
  BY DEF Mul3Inv
<1>2. QED
  BY <1>1, Mul3Init_Inv, Mul3Next_Inv, PTL DEF Mul3Spec

-----------------------------------------------------------------------------
(* Arithmetic of words *)

LEMMA BaseIsPositive == Base \in Nat /\ Base > 0 /\ XLEN \in Nat /\ XLEN > 0
BY XLENAssumption DEF Base

LEMMA ModSmall ==
    ASSUME NEW m \in Nat, NEW x \in Nat, x < m PROVE x % m = x
OBVIOUS

LEMMA ModNegative ==
    ASSUME NEW m \in Nat, NEW x \in Int, x < 0, x + m >= 0 PROVE x % m = x + m
OBVIOUS

LEMMA BaseIsEven == \E h \in Nat : h > 0 /\ Base = 2 * h
<1>1. XLEN - 1 \in 0 .. XLEN - 1 /\ XLEN - 1 \in 0 .. XLEN /\ (XLEN - 1) + 1 = XLEN
  BY XLENAssumption
<1>2. 2^(XLEN - 1) \in Nat /\ 2^(XLEN - 1) > 0
  BY <1>1, XLENAssumption
<1>3. 2^XLEN = 2 * 2^(XLEN - 1)
  BY <1>1, XLENAssumption
<1>4. QED
  BY <1>2, <1>3 DEF Base

\* A word shifted left has its low bit clear.
LEMMA TruncTwice ==
    ASSUME NEW q \in Word PROVE Trunc(q * 2) \in Word /\ Trunc(q * 2) # Base - 1
<1>1. PICK h \in Nat : h > 0 /\ Base = 2 * h
  BY BaseIsEven
<1>2. CASE q < h
  <2>1. Trunc(q * 2) = q * 2
    BY <1>1, <1>2, ModSmall DEF Trunc, Word
  <2>2. QED
    BY <1>1, <1>2, <2>1 DEF Word
<1>3. CASE q >= h
  <2>1. (q * 2) % Base = q * 2 - Base
    BY <1>1, <1>3 DEF Word
  <2>2. QED
    BY <1>1, <1>3, <2>1 DEF Word, Trunc
<1>4. QED
  BY <1>1, <1>2, <1>3 DEF Word

LEMMA TopBit ==
    ASSUME NEW q \in Word PROVE (q * 2) \div Base \in {0, 1}
BY BaseIsPositive DEF Word

\* The magnitude of a divisor that is not zero is not zero.
LEMMA MagnitudePositive ==
    ASSUME NEW w \in Word, w # 0, NEW op
    PROVE  Magnitude(op, w) \in Word /\ Magnitude(op, w) # 0
<1>1. Negate(w) = Base - w
  BY BaseIsPositive, ModSmall DEF Negate, Not, Trunc, Word
<1>2. QED
  BY <1>1, BaseIsPositive DEF Magnitude, Word

\* The top bit of the difference tells whether the divisor fits.
LEMMA Subtraction ==
    ASSUME div.rem_r \in Nat, div.divisor_r \in Word, div.quot_r \in Word,
           div.rem_r < div.divisor_r
    PROVE  /\ RemShifted = div.rem_r * 2 + (div.quot_r * 2) \div Base
           /\ RemShifted \in Nat /\ RemShifted < 2 * div.divisor_r
           /\ Fits <=> RemShifted >= div.divisor_r
           /\ Fits => RemNext = RemShifted - div.divisor_r
<1>1. Base \in Nat /\ Base > 0 /\ div.divisor_r \in Nat /\ div.divisor_r < Base
      /\ div.quot_r \in Nat
  BY BaseIsPositive DEF Word
<1>2. Trunc(div.rem_r) = div.rem_r
  BY <1>1, ModSmall DEF Trunc
<1>3. RemShifted = div.rem_r * 2 + (div.quot_r * 2) \div Base
      /\ RemShifted \in Nat /\ RemShifted < 2 * div.divisor_r
  BY <1>1, <1>2, TopBit DEF RemShifted
<1> DEFINE d == RemShifted - div.divisor_r
<1>4. d \in Int /\ d < Base /\ d + 2 * Base >= Base /\ 2 * Base \in Nat
  BY <1>1, <1>3
<1>5. d >= 0 <=> RemShifted >= div.divisor_r
  BY <1>1, <1>3
<1>6. RemSub = d % (2 * Base)
  BY DEF RemSub
<1> HIDE DEF d
<1>7. CASE d >= 0
  <2>1. d % (2 * Base) = d
    BY <1>1, <1>4, <1>7, ModSmall
  <2>2. QED
    BY <1>1, <1>3, <1>4, <1>5, <1>6, <1>7, <2>1 DEF RemNext, Fits, d
<1>8. CASE d < 0
  <2>0. d + 2 * Base >= 0
    BY <1>1, <1>4
  <2>1. d % (2 * Base) = d + 2 * Base
    BY <1>4, <1>8, <2>0, ModNegative
  <2>2. ~Fits
    BY <1>1, <1>4, <1>6, <2>1 DEF Fits
  <2>3. QED
    BY <1>3, <1>4, <1>5, <1>8, <2>2
<1>9. QED
  BY <1>4, <1>7, <1>8

\* One iteration keeps the remainder below the divisor.
LEMMA RemainderStep ==
    ASSUME div.rem_r \in Nat, div.divisor_r \in Word, div.quot_r \in Word,
           div.rem_r < div.divisor_r
    PROVE  /\ RemNext \in Nat /\ RemNext < div.divisor_r
           /\ QuotNext \in Word
<1>1. Base \in Nat /\ Base > 0 /\ div.divisor_r \in Nat
  BY BaseIsPositive DEF Word
<1>2. QuotNext \in Word
  <2> DEFINE t == Trunc(div.quot_r * 2)
  <2>1. t \in Nat /\ t < Base /\ t # Base - 1
    BY <1>1, TruncTwice DEF Word
  <2> HIDE DEF t
  <2>2. QED
    BY <1>1, <2>1 DEF QuotNext, Word, t
<1>3. CASE Fits
  BY <1>1, <1>2, <1>3, Subtraction
<1>4. CASE ~Fits
  BY <1>1, <1>2, <1>4, Subtraction DEF RemNext
<1>5. QED
  BY <1>3, <1>4

-----------------------------------------------------------------------------
(* The state machine *)

DivFields == {"state", "busy", "valid", "count", "divisor_r", "rem_r", "quot_r", "fast_done"}

\* One conjunct for each state of the divider.  The operands' history and the
\* age since they were accepted say where in the division it is.
Idle      == /\ div.state = "idle" /\ div.busy = FALSE /\ div.valid \in BOOLEAN
             /\ div.valid => age = Latency
Dividing  == /\ div.state = "busy" /\ div.busy = TRUE /\ div.valid = FALSE
             /\ ~FastPath /\ div.fast_done = FALSE
             /\ div.count \in 0 .. XLEN - 1 /\ age = div.count
             /\ div.divisor_r \in Word /\ div.quot_r \in Word /\ div.rem_r \in Nat
             /\ div.rem_r < div.divisor_r
Finishing == /\ div.state = "done" /\ div.busy = TRUE /\ div.valid = FALSE
             /\ div.fast_done = FastPath /\ age + 1 = Latency
             /\ ~div.fast_done => div.rem_r < div.divisor_r

DivInv == /\ DivFields \subseteq DOMAIN div /\ age \in Nat
          /\ Idle \/ Dividing \/ Finishing

LEMMA LatencyIsNat == Latency \in Nat /\ Latency > 0
BY BaseIsPositive DEF Latency

LEMMA DivInit_Inv == DivSpecInit => DivInv
BY DEF DivSpecInit, DivInit, DivReset, DivInv, DivFields, Idle

\* One clock, whatever is on the inputs.
LEMMA DivClockStep ==
    ASSUME DivInv, NEW start \in BOOLEAN, NEW flush \in BOOLEAN,
           NEW a \in Word, NEW b \in Word, NEW op,
           DivClock(start, a, b, op, flush), DivAccepted(start, a, b, op, flush)
    PROVE  DivInv'
<1>1. CASE flush \/ (div.state = "idle" /\ ~start)
  <2>1. DivFields \subseteq DOMAIN div' /\ div'.state = "idle"
        /\ div'.busy = FALSE /\ div'.valid = FALSE
    BY <1>1 DEF DivClock, DivInv, DivFields, Idle, Dividing, Finishing
  <2>2. age' \in Nat
    BY <1>1, BaseIsPositive DEF DivAccepted, DivInv
  <2>3. QED
    BY <2>1, <2>2 DEF DivInv, Idle
<1>2. CASE ~flush /\ div.state = "idle" /\ start
  <2>1. Accept(a, b, op)
    BY <1>2 DEF DivClock
  <2>2. op0' = op /\ a0' = a /\ b0' = b /\ age' = 0
    BY <1>2 DEF DivAccepted
  <2>3. FastPath' <=> DivByZero(b) \/ Overflow(op, a, b)
    BY <2>2 DEF FastPath
  <2>4. CASE DivByZero(b) \/ Overflow(op, a, b)
    <3>1. Latency' = 1
      BY <2>3, <2>4 DEF Latency
    <3>2. /\ DivFields \subseteq DOMAIN div' /\ div'.state = "done"
          /\ div'.busy = TRUE /\ div'.valid = FALSE /\ div'.fast_done = TRUE
      BY <2>1, <2>4 DEF Accept, DivInv, DivFields
    <3>3. age' \in Nat /\ age' + 1 = Latency'
      BY <2>2, <3>1
    <3>4. FastPath' = TRUE
      BY <2>3, <2>4 DEF FastPath
    <3>5. Finishing'
      BY <3>2, <3>3, <3>4 DEF Finishing
    <3>6. QED
      BY <3>2, <3>3, <3>5 DEF DivInv
  <2>5. CASE ~DivByZero(b) /\ ~Overflow(op, a, b)
    <3>1. Magnitude(op, b) \in Word /\ Magnitude(op, b) # 0
      BY <2>5, MagnitudePositive DEF DivByZero
    <3>2. Magnitude(op, a) \in Word
      BY MagnitudePositive, BaseIsPositive DEF Magnitude, Word, Msb
    <3>3. /\ DivFields \subseteq DOMAIN div' /\ div'.state = "busy"
          /\ div'.busy = TRUE /\ div'.valid = FALSE /\ div'.fast_done = FALSE
          /\ div'.divisor_r = Magnitude(op, b) /\ div'.quot_r = Magnitude(op, a)
          /\ div'.rem_r = 0 /\ div'.count = 0
      BY <2>1, <2>5 DEF Accept, DivInv, DivFields
    <3> DEFINE m == Magnitude(op, b)
    <3>4. m \in Word /\ 0 < m
      BY <3>1, BaseIsPositive DEF Word
    <3>5. div'.divisor_r = m
      BY <3>3
    <3> HIDE DEF m
    <3>6. /\ div'.divisor_r \in Word /\ div'.quot_r \in Word /\ div'.rem_r \in Nat
          /\ div'.rem_r < div'.divisor_r
      BY <3>2, <3>3, <3>4, <3>5
    <3>7. age' \in Nat /\ age' = div'.count /\ div'.count \in 0 .. XLEN - 1
      BY <2>2, <3>3, BaseIsPositive
    <3>8. ~FastPath'
      BY <2>3, <2>5
    <3>9. Dividing'
      BY <3>3, <3>6, <3>7, <3>8 DEF Dividing
    <3>10. QED
      BY <3>3, <3>7, <3>9 DEF DivInv
  <2>6. QED
    BY <2>4, <2>5
<1>3. CASE ~flush /\ div.state = "busy"
  <2>1. Iterate
    BY <1>3 DEF DivClock
  <2>2. Dividing
    BY <1>3 DEF DivInv, Idle, Finishing
  <2>3. UNCHANGED <<op0, a0, b0>> /\ age' = age + 1
    BY <1>3, <2>2, BaseIsPositive DEF DivAccepted, Dividing
  <2>4. (FastPath' <=> FastPath) /\ Latency' = Latency
    BY <2>3 DEF FastPath, Latency
  <2>5. /\ DivFields \subseteq DOMAIN div' /\ div'.busy = TRUE /\ div'.valid = FALSE
        /\ div'.fast_done = FALSE /\ div'.divisor_r = div.divisor_r
        /\ div'.rem_r = RemNext /\ div'.quot_r = QuotNext
        /\ div'.state = (IF div.count = XLEN - 1 THEN "done" ELSE "busy")
        /\ div'.count = (IF div.count = XLEN - 1 THEN div.count ELSE div.count + 1)
    BY <2>1, <2>2 DEF Iterate, Dividing, DivInv, DivFields
  <2>6. RemNext \in Nat /\ RemNext < div.divisor_r /\ QuotNext \in Word
    BY <2>2, RemainderStep DEF Dividing
  <2>7. CASE div.count = XLEN - 1
    <3>1. Latency = XLEN + 1
      BY <2>2 DEF Dividing, Latency
    <3>2. age' \in Nat /\ age' + 1 = Latency'
      BY <2>2, <2>3, <2>4, <2>7, <3>1, BaseIsPositive DEF Dividing
    <3>3. FastPath' = FALSE
      BY <2>2, <2>4 DEF Dividing
    <3>4. div'.state = "done" /\ div'.rem_r < div'.divisor_r
      BY <2>5, <2>6, <2>7
    <3>5. Finishing'
      BY <2>5, <3>2, <3>3, <3>4 DEF Finishing
    <3>6. QED
      BY <2>5, <3>2, <3>5 DEF DivInv
  <2>8. CASE div.count # XLEN - 1
    BY <2>2, <2>3, <2>4, <2>5, <2>6, <2>8, BaseIsPositive DEF DivInv, Dividing
  <2>9. QED
    BY <2>7, <2>8
<1>4. CASE ~flush /\ div.state = "done"
  <2>1. /\ DivFields \subseteq DOMAIN div' /\ div'.state = "idle"
        /\ div'.busy = FALSE /\ div'.valid = TRUE
    BY <1>4 DEF DivClock, DivInv, DivFields
  <2>2. Finishing
    BY <1>4 DEF DivInv, Idle, Dividing
  <2>3. UNCHANGED <<op0, a0, b0>> /\ age' = age + 1
    BY <1>4, <2>2, BaseIsPositive DEF DivAccepted, Finishing, Latency, DivInv
  <2>4. Latency' = Latency
    BY <2>3 DEF FastPath, Latency
  <2>5. QED
    BY <2>1, <2>2, <2>3, <2>4, LatencyIsNat DEF DivInv, Idle, Finishing
<1>5. QED
  BY <1>1, <1>2, <1>3, <1>4 DEF DivInv, Idle, Dividing, Finishing

LEMMA DivNext_Inv == DivInv /\ [DivNext]_dvars => DivInv'
<1> SUFFICES ASSUME DivInv, [DivNext]_dvars PROVE DivInv'
  OBVIOUS
<1>0. 0 \in Word
  BY BaseIsPositive DEF Word
<1>1. CASE DivRunOn(Word)
  BY <1>1, DivClockStep DEF DivRunOn
<1>2. CASE DivWait
  BY <1>0, <1>2, DivClockStep DEF DivWait
<1>3. CASE DivFlush
  BY <1>0, <1>3, DivClockStep DEF DivFlush
<1>4. CASE UNCHANGED dvars
  BY <1>4 DEF dvars, DivInv, Idle, Dividing, Finishing, FastPath, Latency
<1>5. QED
  BY <1>1, <1>2, <1>3, <1>4 DEF DivNext

(* The partial remainder stays below the divisor: RemSub's top bit then    *)
(* says whether the divisor fits, and the remainder never outgrows rem_r   *)
(* (divider, S_BUSY).                                                      *)
THEOREM RemainderBound == DivSpec => []RemainderBelowDivisor
<1>1. DivInv => RemainderBelowDivisor
  BY DEF DivInv, Idle, Dividing, Finishing, RemainderBelowDivisor
<1>2. QED
  BY <1>1, DivInit_Inv, DivNext_Inv, PTL DEF DivSpec

(* The result is valid exactly XLEN + 1 clocks after the operands were     *)
(* taken, or 1 clock after them for a zero divisor and for signed overflow; *)
(* busy covers the clocks between (divider, count, fast_done).             *)
THEOREM DivTiming == DivSpec => []DivOnTime
<1>1. DivInv => DivOnTime
  <2>1. ASSUME DivInv, Idle PROVE DivOnTime
    BY <2>1 DEF Idle, DivOnTime
  <2>2. ASSUME DivInv, Dividing PROVE DivOnTime
    BY <2>2, BaseIsPositive DEF Dividing, DivOnTime, Latency
  <2>3. ASSUME DivInv, Finishing PROVE DivOnTime
    BY <2>3, LatencyIsNat DEF DivInv, Finishing, DivOnTime
  <2>4. QED
    BY <2>1, <2>2, <2>3 DEF DivInv
<1>2. QED
  BY <1>1, DivInit_Inv, DivNext_Inv, PTL DEF DivSpec

-----------------------------------------------------------------------------
(* What the divider computes *)

\* A quotient and a remainder are determined by what they add up to.
LEMMA QuotientUnique ==
    ASSUME NEW m \in Nat, NEW d \in Nat, NEW q \in Nat, NEW r \in Nat,
           m = d * q + r, r < d
    PROVE  m \div d = q /\ m % d = r
OBVIOUS

LEMMA CarryOut ==
    ASSUME NEW B \in Nat, NEW x \in Nat, x < B
    PROVE  /\ x \div B = 0 /\ x % B = x
           /\ (B + x) \div B = 1 /\ (B + x) % B = x
OBVIOUS

\* A register that holds m above q, the two sharing B = P * (2 * R), is shifted
\* left: the top bit of m, if it is set, goes into the carry.
LEMMA ShiftLeft ==
    ASSUME NEW B \in Nat, NEW P \in Nat, NEW R \in Nat, P * (2 * R) = B,
           NEW q \in Nat, q < P, NEW m \in Nat, m < R
    PROVE  /\ 2 * (m * P + q) \in Nat /\ 2 * (m * P + q) < B
           /\ ((R + m) * P + q) * 2 = B + 2 * (m * P + q)
<1>1. (m + 1) * P <= R * P
  OBVIOUS
<1>2. (m + 1) * P = m * P + P
  OBVIOUS
<1>3. m * P + q < R * P
  BY <1>1, <1>2
<1>4. 2 * (R * P) = B
  OBVIOUS
<1>5. m * P + q \in Nat
  OBVIOUS
<1>6. (R + m) * P = R * P + m * P
  OBVIOUS
<1>7. QED
  BY <1>3, <1>4, <1>5, <1>6

\* In a division of n, quot_r holds m, the part of n not yet shifted out,
\* above q, the quotient of the part that is; P and R are their ranges, two to
\* the number of steps done and to the number of steps left.
LongDivision(d, n, P, R, q, m) ==
    /\ P * R = Base /\ q < P /\ m < R
    /\ d.quot_r = m * P + q
    /\ n = (d.divisor_r * q + d.rem_r) * R + m
Partial(d, n, k, q, m) == LongDivision(d, n, 2^k, 2^(XLEN - k), q, m)

\* One step of the long division.
Stepped(n, P, R) ==
    \E q, m \in Nat :
       /\ P * R = Base /\ q < P /\ m < R
       /\ QuotNext = m * P + q
       /\ n = (div.divisor_r * q + RemNext) * R + m

LEMMA DivisionStep ==
    ASSUME NEW P \in Nat, NEW R \in Nat, R > 0, NEW q \in Nat, NEW m \in Nat, NEW M \in Nat,
           LongDivision(div, M, P, 2 * R, q, m),
           div.rem_r \in Nat, div.divisor_r \in Word, div.quot_r \in Word,
           div.rem_r < div.divisor_r
    PROVE  Stepped(M, 2 * P, R)
<1>0. /\ P * (2 * R) = Base /\ q < P /\ m < 2 * R
      /\ div.quot_r = m * P + q
      /\ M = (div.divisor_r * q + div.rem_r) * (2 * R) + m
      /\ (2 * P) * R = Base
  BY DEF LongDivision
<1>1. Base \in Nat /\ Base > 0 /\ div.divisor_r \in Nat
  BY BaseIsPositive DEF Word
<1> DEFINE D == div.divisor_r
           r == div.rem_r
<1>2. PICK t \in {0, 1}, m1 \in Nat : m = t * R + m1 /\ m1 < R
  <2>1. CASE m < R
    <3>1. m = 0 * R + m
      BY <1>0
    <3>2. QED
      BY <1>0, <2>1, <3>1
  <2>2. CASE m >= R
    <3>1. m = 1 * R + (m - R) /\ m - R \in Nat /\ m - R < R
      BY <1>0, <2>2
    <3>2. QED
      BY <1>0, <3>1
  <2>3. QED
    BY <1>0, <2>1, <2>2
<1> DEFINE low == 2 * (m1 * P + q)
<1>3. /\ low \in Nat /\ low < Base
      /\ ((R + m1) * P + q) * 2 = Base + low
  BY <1>0, <1>1, <1>2, ShiftLeft
<1>4. (div.quot_r * 2) \div Base = t /\ (div.quot_r * 2) % Base = low
  <2>1. CASE t = 0
    <3>1. m = m1
      BY <1>0, <1>2, <2>1
    <3>2. div.quot_r * 2 = low
      BY <1>0, <1>2, <3>1
    <3> HIDE DEF low
    <3>3. QED
      BY <1>0, <1>1, <1>3, <2>1, <3>2, CarryOut
  <2>2. CASE t = 1
    <3>1. m = R + m1
      BY <1>0, <1>2, <2>2
    <3>2. div.quot_r * 2 = Base + low
      BY <1>0, <1>3, <3>1
    <3> HIDE DEF low
    <3>3. (Base + low) \div Base = 1 /\ (Base + low) % Base = low
      BY <1>0, <1>1, <1>3, CarryOut
    <3>4. QED
      BY <1>0, <2>2, <3>2, <3>3
  <2>3. QED
    BY <1>0, <1>2, <2>1, <2>2
<1>5. RemShifted = r * 2 + t /\ (Fits => RemNext = RemShifted - D)
  BY <1>0, <1>4, Subtraction
<1>6. M = (D * (2 * q) + (r * 2 + t)) * R + m1
  <2>1. D \in Nat /\ r \in Nat /\ t \in Nat
    BY <1>0, <1>1, <1>2
  <2> DEFINE x == D * q + r
  <2>2. x \in Nat /\ M = x * (2 * R) + (t * R + m1)
    BY <1>0, <1>2, <2>1
  <2>3. D * (2 * q) + (r * 2 + t) = 2 * x + t
    BY <1>0, <2>1
  <2> HIDE DEF x
  <2>4. x * (2 * R) + (t * R + m1) = (2 * x + t) * R + m1
    BY <1>0, <1>2, <2>1, <2>2
  <2>5. QED
    BY <1>0, <2>2, <2>3, <2>4
<1>7. low = m1 * (2 * P) + 2 * q
  BY <1>0, <1>2
<1>8. CASE Fits
  <2>1. QuotNext = m1 * (2 * P) + (2 * q + 1)
    BY <1>0, <1>2, <1>4, <1>7, <1>8 DEF QuotNext, Trunc
  <2>2. D * (2 * q + 1) + RemNext = D * (2 * q) + (r * 2 + t)
    BY <1>0, <1>1, <1>2, <1>5, <1>8
  <2>3. 2 * q + 1 \in Nat /\ 2 * q + 1 < 2 * P
    BY <1>0
  <2>4. M = (D * (2 * q + 1) + RemNext) * R + m1
    BY <1>0, <1>6, <2>2
  <2>5. QED
    BY <1>0, <1>2, <2>1, <2>3, <2>4 DEF Stepped
<1>9. CASE ~Fits
  <2>1. QuotNext = m1 * (2 * P) + 2 * q
    BY <1>0, <1>2, <1>4, <1>7, <1>9 DEF QuotNext, Trunc
  <2>2. RemNext = r * 2 + t
    BY <1>0, <1>5, <1>9 DEF RemNext
  <2>3. 2 * q \in Nat /\ 2 * q < 2 * P
    BY <1>0
  <2>4. M = (D * (2 * q) + RemNext) * R + m1
    BY <1>0, <1>6, <2>2
  <2>5. QED
    BY <1>0, <1>2, <2>1, <2>3, <2>4 DEF Stepped
<1>10. QED
  BY <1>0, <1>8, <1>9

\* The signs: magnitudes are absolute values, and Negate changes the sign.
Value(op, w) == IF IsSignedOp(op) THEN Signed(w) ELSE w

LEMMA MagnitudeIsAbsolute ==
    ASSUME NEW op, NEW w \in Word
    PROVE  /\ Magnitude(op, w) = AbsVal(Value(op, w)) /\ Magnitude(op, w) \in Word
           /\ Value(op, w) < 0 <=> IsSignedOp(op) /\ Msb(w)
<1>1. Base \in Nat /\ Base > 0 /\ w \in Nat /\ w < Base
  BY BaseIsPositive DEF Word
<1>2. CASE IsSignedOp(op) /\ Msb(w)
  <2>1. Base - w \in Nat /\ Base - w < Base /\ w # 0
    BY <1>1, <1>2 DEF Msb
  <2>2. Negate(w) = (Base - w) % Base
    <3>1. Base - 1 - w + 1 = Base - w
      BY <1>1
    <3>2. QED
      BY <3>1 DEF Negate, Not, Trunc
  <2>3. (Base - w) % Base = Base - w
    BY <1>1, <2>1, ModSmall
  <2>4. QED
    BY <1>1, <1>2, <2>1, <2>2, <2>3 DEF Magnitude, Value, Signed, AbsVal, Word
<1>3. CASE ~(IsSignedOp(op) /\ Msb(w))
  BY <1>1, <1>3 DEF Magnitude, Value, Signed, AbsVal
<1>4. QED
  BY <1>2, <1>3

LEMMA NegateIsMinus ==
    ASSUME NEW w \in Word PROVE Negate(w) = Trunc(-w) /\ Trunc(w) = w
<1>1. Base \in Nat /\ Base > 0 /\ w \in Nat /\ w < Base
  BY BaseIsPositive DEF Word
<1>2. Trunc(w) = w
  BY <1>1, ModSmall DEF Trunc
<1>3. Base - 1 - w + 1 = Base - w
  BY <1>1
<1>4. CASE w = 0
  <2>1. Base % Base = 0 /\ 0 % Base = 0
    BY <1>1
  <2>2. QED
    BY <1>1, <1>2, <1>3, <1>4, <2>1 DEF Negate, Not, Trunc
<1>5. CASE w # 0
  <2>1. Base - w \in Nat /\ Base - w < Base /\ -w \in Int /\ -w < 0 /\ -w + Base = Base - w
    BY <1>1, <1>5
  <2>2. (Base - w) % Base = Base - w
    BY <1>1, <2>1, ModSmall
  <2>3. (-w) % Base = Base - w
    BY <1>1, <2>1, ModNegative
  <2>4. QED
    BY <1>2, <1>3, <2>2, <2>3 DEF Negate, Not, Trunc
<1>6. QED
  BY <1>4, <1>5

SignFields == {"result", "is_rem", "is_signed", "dividend_neg", "divisor_neg"}
Signs(d, op, a, b) ==
    /\ d.is_signed = IsSignedOp(op) /\ d.is_rem = IsRemOp(op)
    /\ d.dividend_neg = (IsSignedOp(op) /\ Msb(a))
    /\ d.divisor_neg = (IsSignedOp(op) /\ Msb(b))

\* The division is over but for the signs.
Divided(d, op, a, b) ==
    /\ Signs(d, op, a, b) /\ b # 0 /\ d.divisor_r = Magnitude(op, b)
    /\ d.rem_r \in Nat /\ d.quot_r \in Word /\ d.rem_r < d.divisor_r
    /\ Magnitude(op, a) = d.divisor_r * d.quot_r + d.rem_r

LEMMA FixupIsReference ==
    ASSUME NEW op \in DivOp, NEW a \in Word, NEW b \in Word,
           Divided(div, op, a, b), div.fast_done = FALSE
    PROVE  Fixup = DivRef(op, a, b)
<1> DEFINE x == Value(op, a)
           y == Value(op, b)
           q == div.quot_r
           r == div.rem_r
           n == Magnitude(op, a)
           d == Magnitude(op, b)
<1>1. /\ Base \in Nat /\ Base > 0
      /\ n = AbsVal(x) /\ d = AbsVal(y)
      /\ n \in Word /\ d \in Word
      /\ x < 0 <=> div.dividend_neg
      /\ y < 0 <=> div.divisor_neg
  BY BaseIsPositive, MagnitudeIsAbsolute DEF Divided, Signs
<1>2. q \in Nat /\ q \in Word /\ r \in Nat /\ r \in Word /\ n \in Nat /\ d \in Nat
      /\ r < d /\ n = d * q + r
  BY <1>1 DEF Word, Divided
<1>3. AbsVal(x) \div AbsVal(y) = q /\ AbsVal(x) % AbsVal(y) = r
  <2> HIDE DEF n, d, q, r
  <2>1. n \div d = q /\ n % d = r
    BY <1>2, QuotientUnique
  <2>2. QED
    BY <1>1, <2>1
<1>4. /\ Negate(q) = Trunc(-q) /\ Trunc(q) = q
      /\ Negate(r) = Trunc(-r) /\ Trunc(r) = r
  BY <1>2, NegateIsMinus
<1>5. /\ op \in {"div", "rem"} <=> IsSignedOp(op)
      /\ op \in {"div", "divu"} <=> ~IsRemOp(op)
  BY DEF DivOp, IsSignedOp, IsRemOp
<1>6. DivRef(op, a, b) =
         IF ~IsRemOp(op) THEN Trunc(IF (x < 0) # (y < 0) THEN -q ELSE q)
                         ELSE Trunc(IF x < 0 THEN -r ELSE r)
  <2>1. b # 0
    BY DEF Divided
  <2>2. QED
    BY <1>3, <1>5, <2>1, Zenon DEF DivRef, Value
<1>7. (div.dividend_neg => div.is_signed) /\ (div.divisor_neg => div.is_signed)
  BY DEF Divided, Signs
<1> HIDE DEF x, y, q, r
<1>8. Fixup = IF IsRemOp(op) THEN IF x < 0 THEN Negate(r) ELSE r
                             ELSE IF (x < 0) # (y < 0) THEN Negate(q) ELSE q
  <2>1. Trunc(div.rem_r) = r /\ div.quot_r = q
    BY <1>4 DEF q, r
  <2>2. div.is_rem = IsRemOp(op)
    BY DEF Divided, Signs
  <2>3. div.is_signed /\ div.dividend_neg <=> x < 0
    BY <1>1, <1>7
  <2>4. div.is_signed /\ div.dividend_neg # div.divisor_neg <=> (x < 0) # (y < 0)
    <3>1. /\ div.dividend_neg \in BOOLEAN /\ div.divisor_neg \in BOOLEAN
          /\ (x < 0) \in BOOLEAN /\ (y < 0) \in BOOLEAN
      BY DEF Divided, Signs
    <3>2. QED
      BY <1>1, <1>7, <3>1, Zenon
  <2>5. QED
    BY <2>1, <2>2, <2>3, <2>4, Zenon DEF Fixup
<1>9. QED
  BY <1>4, <1>6, <1>8

\* The fast path's results are those of the reference.
LEMMA FastResult ==
    ASSUME NEW op \in DivOp, NEW a \in Word, NEW b \in Word
    PROVE  /\ b = 0 => DivRef(op, a, b) = IF IsRemOp(op) THEN a ELSE Base - 1
           /\ b # 0 /\ Overflow(op, a, b) => DivRef(op, a, b) = IF IsRemOp(op) THEN 0 ELSE a
<1>1. b = 0 => DivRef(op, a, b) = IF IsRemOp(op) THEN a ELSE Base - 1
  BY DEF DivRef, DivOp, IsRemOp
<1>2. ASSUME b # 0, Overflow(op, a, b)
      PROVE  DivRef(op, a, b) = IF IsRemOp(op) THEN 0 ELSE a
  <2>1. Base \in Nat /\ Base > 0 /\ a \in Nat /\ a < Base /\ 2 * a = Base /\ b = Base - 1
        /\ op \in {"div", "rem"}
    BY <1>2, BaseIsPositive DEF Word, Overflow, IsSignedOp
  <2>2. Signed(a) = -a /\ Signed(b) = -1
    BY <1>2, <2>1 DEF Signed, Msb
  <2>3. AbsVal(-a) = a /\ AbsVal(-1) = 1 /\ -a < 0
    <3>0. \A n \in Nat : n > 0 => -n < 0 /\ -(-n) = n
      OBVIOUS
    <3>1. -a < 0 /\ -(-a) = a /\ -1 < 0 /\ -(-1) = 1
      <4>1. a > 0
        BY <2>1
      <4>2. -a < 0 /\ -(-a) = a
        BY <2>1, <3>0, <4>1, Zenon
      <4>3. -1 < 0 /\ -(-1) = 1
        <5>1. 1 \in Nat /\ 1 > 0
          OBVIOUS
        <5>2. QED
          BY <3>0, <5>1, Zenon
      <4>4. QED
        BY <4>2, <4>3, Zenon
    <3>2. QED
      BY <3>1, Zenon DEF AbsVal
  <2>4. a \div 1 = a /\ a % 1 = 0
    BY <2>1
  <2>5. Trunc(a) = a /\ Trunc(-0) = 0
    BY <2>1, ModSmall DEF Trunc
  <2>6. QED
    BY <1>2, <2>1, <2>2, <2>3, <2>4, <2>5 DEF DivRef, IsRemOp
<1>3. QED
  BY <1>1, <1>2

\* What the registers hold, state by state, when the operands accepted last are
\* op, a and b.
Proceeding(d, op, a, b) ==
    /\ d.busy = TRUE /\ d.valid = FALSE
    /\ d.fast_done = FALSE /\ d.count \in 0 .. XLEN - 1
    /\ d.divisor_r \in Word /\ d.quot_r \in Word /\ d.rem_r \in Nat /\ d.rem_r < d.divisor_r
    /\ Signs(d, op, a, b) /\ b # 0 /\ d.divisor_r = Magnitude(op, b)
    /\ \E q, m \in Nat : Partial(d, Magnitude(op, a), d.count, q, m)

Working(d, op, a, b) ==
    /\ d.state \in {"idle", "busy", "done"}
    /\ d.state = "idle" /\ d.valid => d.result = DivRef(op, a, b)
    /\ d.state = "busy" => Proceeding(d, op, a, b)
    /\ d.state = "done" => IF d.fast_done THEN d.result = DivRef(op, a, b)
                                          ELSE d.fast_done = FALSE /\ Divided(d, op, a, b)
HasFields(d) == DivFields \cup SignFields \subseteq DOMAIN d

LEMMA Powers ==
    ASSUME NEW k \in 0 .. XLEN - 1
    PROVE  /\ k \in 0 .. XLEN /\ XLEN - k \in 0 .. XLEN
           /\ k + 1 \in 0 .. XLEN /\ XLEN - (k + 1) \in 0 .. XLEN
           /\ 2^k \in Nat /\ 2^(XLEN - k) \in Nat
           /\ 2^(XLEN - (k + 1)) \in Nat /\ 2^(XLEN - (k + 1)) > 0
           /\ 2^(k + 1) = 2 * 2^k
           /\ 2^(XLEN - k) = 2 * 2^(XLEN - (k + 1))
<1>1. /\ k \in 0 .. XLEN /\ XLEN - k \in 0 .. XLEN
      /\ k + 1 \in 0 .. XLEN /\ XLEN - (k + 1) \in 0 .. XLEN
      /\ XLEN - (k + 1) \in 0 .. XLEN - 1
      /\ (XLEN - (k + 1)) + 1 = XLEN - k
  BY BaseIsPositive
<1>2. QED
  BY <1>1, XLENAssumption

\* Before the first step the dividend is still to come; after the last one
\* quot_r is the quotient.
LEMMA FirstPartial ==
    ASSUME NEW d, NEW n \in Word, d.quot_r = n, d.rem_r = 0, d.divisor_r \in Nat
    PROVE  Partial(d, n, 0, 0, n)
<1>1. XLEN - 0 = XLEN /\ 2^0 = 1
  BY XLENAssumption
<1>2. Base \in Nat /\ n \in Nat /\ n < Base
  BY BaseIsPositive DEF Word
<1>3. 2^(XLEN - 0) = Base
  BY <1>1 DEF Base
<1>4. d.divisor_r * 0 + d.rem_r = 0
  OBVIOUS
<1>5. 2^0 * 2^(XLEN - 0) = Base /\ n * 2^0 + 0 = n /\ 0 * Base + n = n
  BY <1>1, <1>2, <1>3
<1>6. QED
  BY <1>1, <1>2, <1>3, <1>4, <1>5 DEF Partial, LongDivision

LEMMA LastPartial ==
    ASSUME NEW d, NEW n, NEW q \in Nat, NEW m \in Nat, Partial(d, n, XLEN, q, m),
           d.rem_r \in Nat, d.divisor_r \in Nat
    PROVE  n = d.divisor_r * d.quot_r + d.rem_r
<1>1. XLEN - XLEN = 0 /\ 2^0 = 1 /\ 2^XLEN \in Nat
  BY XLENAssumption
<1>2. 2^(XLEN - XLEN) = 1
  BY <1>1
<1>3. m = 0
  BY <1>2 DEF Partial, LongDivision
<1>4. d.quot_r = q
  BY <1>1, <1>3 DEF Partial, LongDivision
<1>5. n = (d.divisor_r * q + d.rem_r) * 1 + 0
  BY <1>2, <1>3 DEF Partial, LongDivision
<1>6. QED
  BY <1>4, <1>5

\* The divider takes operands.
LEMMA WorkStarts ==
    ASSUME HasFields(div), NEW a \in Word, NEW b \in Word, NEW op \in DivOp,
           Accept(a, b, op)
    PROVE  HasFields(div') /\ Working(div', op, a, b)
<1>1. CASE DivByZero(b)
  <2>1. /\ HasFields(div') /\ div'.state = "done" /\ div'.fast_done = TRUE
        /\ div'.result = IF IsRemOp(op) THEN a ELSE Base - 1
    BY <1>1 DEF Accept, HasFields, DivFields, SignFields
  <2>2. div'.result = DivRef(op, a, b)
    BY <1>1, <2>1, FastResult DEF DivByZero
  <2>3. QED
    BY <2>1, <2>2 DEF Working
<1>2. CASE ~DivByZero(b) /\ Overflow(op, a, b)
  <2>1. /\ HasFields(div') /\ div'.state = "done" /\ div'.fast_done = TRUE
        /\ div'.result = IF IsRemOp(op) THEN 0 ELSE a
    BY <1>2 DEF Accept, HasFields, DivFields, SignFields
  <2>2. div'.result = DivRef(op, a, b)
    BY <1>2, <2>1, FastResult DEF DivByZero
  <2>3. QED
    BY <2>1, <2>2 DEF Working
<1>3. CASE ~DivByZero(b) /\ ~Overflow(op, a, b)
  <2> DEFINE n == Magnitude(op, a)
             d == Magnitude(op, b)
  <2>1. /\ HasFields(div') /\ div'.state = "busy"
        /\ div'.busy = TRUE /\ div'.valid = FALSE /\ div'.fast_done = FALSE
        /\ div'.divisor_r = d /\ div'.quot_r = n
        /\ div'.rem_r = 0 /\ div'.count = 0
    BY <1>3 DEF Accept, HasFields, DivFields, SignFields
  <2>2. Signs(div', op, a, b)
    BY <1>3 DEF Accept, HasFields, DivFields, SignFields, Signs
  <2>3. n \in Word /\ d \in Word /\ d # 0 /\ d \in Nat /\ n \in Nat /\ b # 0
    BY <1>3, MagnitudeIsAbsolute, MagnitudePositive, BaseIsPositive DEF Word, DivByZero
  <2> HIDE DEF n, d
  <2>4. Partial(div', n, 0, 0, n)
    BY <2>1, <2>3, FirstPartial
  <2>5. \E q, m \in Nat : Partial(div', n, div'.count, q, m)
    <3>1. 0 \in Nat
      OBVIOUS
    <3>2. QED
      BY <2>1, <2>3, <2>4, <3>1
  <2>6. 0 < d /\ 0 \in 0 .. XLEN - 1 /\ 0 \in Nat
    BY <2>3, BaseIsPositive
  <2>7. Proceeding(div', op, a, b)
    BY <2>1, <2>2, <2>3, <2>5, <2>6 DEF Proceeding, n, d
  <2>8. QED
    BY <2>1, <2>7 DEF Working
<1>4. QED
  BY <1>1, <1>2, <1>3

\* One bit of the quotient.
LEMMA WorkGoesOn ==
    ASSUME HasFields(div), NEW a \in Word, NEW b \in Word, NEW op \in DivOp,
           Working(div, op, a, b), div.state = "busy", Iterate
    PROVE  HasFields(div') /\ Working(div', op, a, b)
<1> DEFINE n == Magnitude(op, a)
<1>1. Proceeding(div, op, a, b)
  BY DEF Working
<1>2. /\ HasFields(div') /\ div'.busy = TRUE /\ div'.valid = FALSE
      /\ div'.fast_done = FALSE /\ div'.divisor_r = div.divisor_r
      /\ div'.is_signed = div.is_signed /\ div'.is_rem = div.is_rem
      /\ div'.dividend_neg = div.dividend_neg /\ div'.divisor_neg = div.divisor_neg
      /\ div'.rem_r = RemNext /\ div'.quot_r = QuotNext
      /\ div'.state = (IF div.count = XLEN - 1 THEN "done" ELSE "busy")
      /\ div.count # XLEN - 1 => div'.count = div.count + 1
  BY <1>1 DEF Iterate, HasFields, DivFields, SignFields, Proceeding
<1>3. Signs(div', op, a, b)
  BY <1>1, <1>2 DEF Proceeding, Signs
<1>4. RemNext \in Nat /\ RemNext < div.divisor_r /\ QuotNext \in Word
  BY <1>1, RemainderStep DEF Proceeding
<1>5. n \in Nat
  BY MagnitudeIsAbsolute, BaseIsPositive DEF Word
<1>6. PICK k \in 0 .. XLEN - 1 : k = div.count
  BY <1>1 DEF Proceeding
<1>7. PICK q, m \in Nat : Partial(div, n, k, q, m)
  BY <1>1, <1>6 DEF Proceeding
<1> HIDE DEF n
<1>8. PICK q1, m1 \in Nat : Partial(div', n, k + 1, q1, m1)
  <2>1. PICK P, R \in Nat : P = 2^k /\ R = 2^(XLEN - (k + 1))
    BY Powers
  <2>2. R > 0 /\ 2^(k + 1) = 2 * P /\ 2^(XLEN - k) = 2 * R
    BY <2>1, Powers
  <2>3. LongDivision(div, n, P, 2 * R, q, m)
    BY <1>7, <2>1, <2>2 DEF Partial
  <2>4. /\ div.rem_r \in Nat /\ div.divisor_r \in Word /\ div.quot_r \in Word
        /\ div.rem_r < div.divisor_r
    BY <1>1 DEF Proceeding
  <2>5. Stepped(n, 2 * P, R)
    BY <1>5, <2>2, <2>3, <2>4, DivisionStep
  <2>6. PICK q1, m1 \in Nat :
            /\ (2 * P) * R = Base /\ q1 < 2 * P /\ m1 < R
            /\ QuotNext = m1 * (2 * P) + q1
            /\ n = (div.divisor_r * q1 + RemNext) * R + m1
    BY <2>5 DEF Stepped
  <2>7. Partial(div', n, k + 1, q1, m1)
    BY <1>2, <2>1, <2>2, <2>6 DEF Partial, LongDivision
  <2>8. QED
    BY <2>7
<1>9. CASE k = XLEN - 1
  <2>1. k + 1 = XLEN
    BY <1>9, BaseIsPositive
  <2>2. Partial(div', n, XLEN, q1, m1)
    BY <1>8, <2>1
  <2>3. div'.rem_r \in Nat /\ div'.divisor_r \in Nat /\ div'.quot_r \in Word
    BY <1>1, <1>2, <1>4, BaseIsPositive DEF Proceeding, Word
  <2>4. n = div'.divisor_r * div'.quot_r + div'.rem_r
    BY <2>2, <2>3, LastPartial
  <2>5. Divided(div', op, a, b)
    BY <1>1, <1>2, <1>3, <1>4, <2>3, <2>4 DEF Divided, Proceeding, n
  <2>6. QED
    BY <1>2, <1>6, <1>9, <2>5 DEF Working
<1>10. CASE k # XLEN - 1
  <2>1. div'.count = k + 1 /\ k + 1 \in 0 .. XLEN - 1
    BY <1>2, <1>6, <1>10, BaseIsPositive
  <2>2. \E q2, m2 \in Nat : Partial(div', n, div'.count, q2, m2)
    BY <1>8, <2>1
  <2>3. Proceeding(div', op, a, b)
    BY <1>1, <1>2, <1>3, <1>4, <2>1, <2>2 DEF Proceeding, n
  <2>4. QED
    BY <1>2, <1>6, <1>10, <2>3 DEF Working
<1>11. QED
  BY <1>9, <1>10

\* The signs are put right.
LEMMA WorkEnds ==
    ASSUME HasFields(div), NEW a \in Word, NEW b \in Word, NEW op \in DivOp,
           Working(div, op, a, b), div.state = "done",
           div' = [div EXCEPT !.valid = TRUE, !.busy = FALSE, !.state = "idle",
                              !.result = Fixup]
    PROVE  HasFields(div') /\ Working(div', op, a, b)
<1>1. /\ HasFields(div') /\ div'.state = "idle" /\ div'.result = Fixup
  BY DEF HasFields, DivFields, SignFields
<1>2. Fixup = DivRef(op, a, b)
  <2>1. CASE div.fast_done
    BY <2>1 DEF Working, Fixup
  <2>2. CASE ~div.fast_done
    BY <2>2, FixupIsReference DEF Working
  <2>3. QED
    BY <2>1, <2>2
<1>3. QED
  BY <1>1, <1>2 DEF Working

\* One clock, with the operands accepted last before it or at it.
LEMMA WorkStep ==
    ASSUME HasFields(div), NEW a \in Word, NEW b \in Word, NEW op \in DivOp,
           Working(div, op, a, b), NEW start \in BOOLEAN, NEW flush \in BOOLEAN,
           NEW x, NEW y, NEW o, DivClock(start, x, y, o, flush),
           ~(~flush /\ div.state = "idle" /\ start)
    PROVE  HasFields(div') /\ Working(div', op, a, b)
<1>1. CASE flush \/ (div.state = "idle" /\ ~start)
  <2>1. HasFields(div') /\ div'.state = "idle" /\ div'.valid = FALSE
    BY <1>1 DEF DivClock, HasFields, DivFields, SignFields
  <2>2. QED
    BY <2>1 DEF Working
<1>2. CASE ~flush /\ div.state = "busy"
  BY <1>2, WorkGoesOn DEF DivClock
<1>3. CASE ~flush /\ div.state = "done"
  BY <1>3, WorkEnds DEF DivClock
<1>4. QED
  BY <1>1, <1>2, <1>3 DEF Working

ResultInv == /\ HasFields(div) /\ op0 \in DivOp /\ a0 \in Word /\ b0 \in Word
             /\ Working(div, op0, a0, b0)

LEMMA ResultInit == DivSpecInit => ResultInv
<1>1. 0 \in Word
  BY BaseIsPositive DEF Word
<1>2. QED
  BY <1>1 DEF DivSpecInit, DivInit, DivReset, ResultInv, HasFields, DivFields, SignFields,
              Working, DivOp

LEMMA ResultStep ==
    ASSUME ResultInv, NEW start \in BOOLEAN, NEW flush \in BOOLEAN,
           NEW a \in Word, NEW b \in Word, NEW op \in DivOp,
           DivClock(start, a, b, op, flush), DivAccepted(start, a, b, op, flush)
    PROVE  ResultInv'
<1>1. CASE ~flush /\ div.state = "idle" /\ start
  <2>1. HasFields(div') /\ Working(div', op, a, b)
    BY <1>1, WorkStarts DEF DivClock, ResultInv
  <2>2. op0' = op /\ a0' = a /\ b0' = b
    BY <1>1 DEF DivAccepted
  <2>3. QED
    BY <2>1, <2>2 DEF ResultInv
<1>2. CASE ~(~flush /\ div.state = "idle" /\ start)
  <2>1. UNCHANGED <<op0, a0, b0>>
    BY <1>2 DEF DivAccepted
  <2>2. PICK o, x, y : o = op0 /\ x = a0 /\ y = b0
    OBVIOUS
  <2>3. HasFields(div') /\ Working(div', o, x, y)
    BY <1>2, <2>2, WorkStep DEF ResultInv
  <2>4. QED
    BY <2>1, <2>2, <2>3 DEF ResultInv
<1>3. QED
  BY <1>1, <1>2

LEMMA ResultNext == ResultInv /\ [DivNext]_dvars => ResultInv'
<1> SUFFICES ASSUME ResultInv, [DivNext]_dvars PROVE ResultInv'
  OBVIOUS
<1>0. 0 \in Word /\ "div" \in DivOp
  BY BaseIsPositive DEF Word, DivOp
<1>1. CASE DivRunOn(Word)
  BY <1>1, ResultStep DEF DivRunOn
<1>2. CASE DivWait
  BY <1>0, <1>2, ResultStep DEF DivWait
<1>3. CASE DivFlush
  BY <1>0, <1>3, ResultStep DEF DivFlush
<1>4. CASE UNCHANGED dvars
  BY <1>4 DEF dvars, ResultInv
<1>5. QED
  BY <1>1, <1>2, <1>3, <1>4 DEF DivNext

(* A valid result is the quotient or the remainder of the operands accepted *)
(* last, for every word size, every operand, every operation, and however   *)
(* often a division was interrupted before (divider).                       *)
THEOREM DivisionCorrect == DivSpec => []DivCorrect
<1>1. DivInv /\ ResultInv => DivCorrect
  BY DEF DivInv, Idle, Dividing, Finishing, ResultInv, Working, DivCorrect
<1>2. QED
  BY <1>1, DivInit_Inv, DivNext_Inv, ResultInit, ResultNext, PTL DEF DivSpec
=============================================================================
