--------------------------- MODULE MultiplierSpec ---------------------------
(***************************************************************************)
(* The multiplier in an environment that starts and flushes it in any      *)
(* order, and a history of the operands it accepted.                       *)
(***************************************************************************)
EXTENDS Multiplier, MulDivHistory

mvars == <<mul, op0, a0, b0, age>>

MulSpecInit == MulInit /\ op0 = "mul" /\ a0 = 0 /\ b0 = 0 /\ age = 2

\* age counts up to 2 here.
MulAccepted(start, a, b, op, flush) ==
    IF ~flush /\ start /\ ~mul.busy
    THEN op0' = op /\ a0' = a /\ b0' = b /\ age' = 0
    ELSE UNCHANGED <<op0, a0, b0>> /\ age' = IF age < 2 THEN age + 1 ELSE 2

MulRunOn(operands) == \E a, b \in operands, op \in MulOp :
          /\ MulClock(TRUE, a, b, op, FALSE)
          /\ MulAccepted(TRUE, a, b, op, FALSE)

\* Operands are looked at only when start is up and flush is down.
MulWait  == MulClock(FALSE, 0, 0, "mul", FALSE) /\ MulAccepted(FALSE, 0, 0, "mul", FALSE)
MulFlush == MulClock(FALSE, 0, 0, "mul", TRUE) /\ MulAccepted(FALSE, 0, 0, "mul", TRUE)

MulNext == MulRunOn(Word) \/ MulWait \/ MulFlush
MulSpec == MulSpecInit /\ [][MulNext]_mvars

-----------------------------------------------------------------------------
(* A result that is signalled valid is the product of the operands accepted *)
(* last and comes one clock after them, also when a new start or a flush    *)
(* came in between (mul_div.v, g_pipe2).                                    *)
MulCorrect == mul.valid => mul.result = MulRef(op0, a0, b0) /\ age = 1

(* At most one multiply is in flight, and it is the one accepted last.      *)
MulInFlight == /\ ~(mul.busy /\ mul.valid)
               /\ mul.busy => mul.a_r = a0 /\ mul.b_r = b0 /\ mul.op_r = op0 /\ age = 0
=============================================================================
