----------------------------- MODULE Multiplier3 -----------------------------
(***************************************************************************)
(* rtl/mul_div.v, multiplier with STAGES = 3: start at edge N, valid after *)
(* edge N+3.  The second operand is split into a low and a signed high     *)
(* part, and the two partial products are added a stage later.  As in      *)
(* MultiplierSpec, with an environment that starts and flushes it in any   *)
(* order and the history of what it accepted.                              *)
(***************************************************************************)
EXTENDS MulDivHistory

VARIABLE mul3   \* [busy, valid, result, a_r, b_r, op_r, pp0_r, pp1_r, op_r2, st]

Mul3Reset == [busy |-> FALSE, valid |-> FALSE, result |-> 0, a_r |-> 0, b_r |-> 0,
              op_r |-> "mul", pp0_r |-> 0, pp1_r |-> 0, op_r2 |-> "mul", st |-> 0]

\* b_lo is the XLEN/2 + 1 lower bits of b33 (17 of 33 in the core).
LowRange == 2^(XLEN \div 2 + 1)
A33(op, a) == IF op \in {"mulh", "mulhsu"} THEN Signed(a) ELSE a
B33(op, b) == IF op = "mulh" THEN Signed(b) ELSE b
PP0(op, a, b) == A33(op, a) * (B33(op, b) % LowRange)
PP1(op, a, b) == A33(op, a) * (B33(op, b) \div LowRange)
SumOf(pp0, pp1) == pp0 + pp1 * LowRange
Select3(op, prod) == IF op = "mul" THEN Trunc(prod) ELSE Trunc(prod \div Base)

\* Mutant: the stage is left where it was.
AbandonBusy(m) == [m EXCEPT !.busy = FALSE, !.valid = FALSE]
Abandon(m) == [m EXCEPT !.busy = FALSE, !.valid = FALSE, !.st = 0]

Takes(start) == mul3.st = 0 /\ start /\ ~mul3.busy

Mul3Clock(start, a, b, op, flush) ==
    \/ flush /\ mul3' = Abandon(mul3)
    \/ /\ ~flush /\ Takes(start)
       /\ mul3' = [mul3 EXCEPT !.valid = FALSE, !.a_r = a, !.b_r = b, !.op_r = op,
                               !.busy = TRUE, !.st = 1]
    \/ ~flush /\ mul3.st = 0 /\ ~Takes(start) /\ mul3' = [mul3 EXCEPT !.valid = FALSE]
    \/ /\ ~flush /\ mul3.st = 1
       /\ mul3' = [mul3 EXCEPT !.valid = FALSE, !.st = 2, !.op_r2 = mul3.op_r,
                               !.pp0_r = PP0(mul3.op_r, mul3.a_r, mul3.b_r),
                               !.pp1_r = PP1(mul3.op_r, mul3.a_r, mul3.b_r)]
    \/ /\ ~flush /\ mul3.st = 2
       /\ mul3' = [mul3 EXCEPT !.valid = TRUE, !.busy = FALSE, !.st = 0,
                               !.result = Select3(mul3.op_r2, SumOf(mul3.pp0_r, mul3.pp1_r))]

-----------------------------------------------------------------------------
m3vars == <<mul3, op0, a0, b0, age>>

Mul3Init     == mul3 = Mul3Reset
Mul3SpecInit == Mul3Init /\ op0 = "mul" /\ a0 = 0 /\ b0 = 0 /\ age = 3

\* age counts up to 3 here.
Mul3Accepted(start, a, b, op, flush) ==
    IF ~flush /\ Takes(start)
    THEN op0' = op /\ a0' = a /\ b0' = b /\ age' = 0
    ELSE UNCHANGED <<op0, a0, b0>> /\ age' = IF age < 3 THEN age + 1 ELSE 3

Mul3RunOn(operands) == \E a, b \in operands, op \in MulOp :
    Mul3Clock(TRUE, a, b, op, FALSE) /\ Mul3Accepted(TRUE, a, b, op, FALSE)
Mul3Wait  == Mul3Clock(FALSE, 0, 0, "mul", FALSE) /\ Mul3Accepted(FALSE, 0, 0, "mul", FALSE)
Mul3Flush == Mul3Clock(FALSE, 0, 0, "mul", TRUE) /\ Mul3Accepted(FALSE, 0, 0, "mul", TRUE)

Mul3Next == Mul3RunOn(Word) \/ Mul3Wait \/ Mul3Flush
Mul3Spec == Mul3SpecInit /\ [][Mul3Next]_m3vars

(* The three-stage multiplier returns what the two-stage one does, one     *)
(* clock later, through any starts and flushes (mul_div.v, g_pipe3, and    *)
(* its equivalence testbench, verify/mul3_exp/tb_mul_equiv.v).             *)
Mul3Correct == mul3.valid => mul3.result = MulRef(op0, a0, b0) /\ age = 2
=============================================================================
