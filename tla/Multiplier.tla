----------------------------- MODULE Multiplier -----------------------------
(***************************************************************************)
(* rtl/mul_div.v, multiplier with STAGES = 2 (the default): start at edge  *)
(* N, the result and a one-cycle valid pulse after edge N+2.  The module   *)
(* is stepped by the pipeline, which drives start, a, b, op and flush.     *)
(***************************************************************************)
EXTENDS Words

VARIABLE mul        \* [busy, valid, result, a_r, b_r, op_r]

MulReset == [busy |-> FALSE, valid |-> FALSE, result |-> 0,
             a_r |-> 0, b_r |-> 0, op_r |-> "mul"]

\* Mutant: MULHSU takes both operands as signed.
Prod66Signed(op, a, b) ==
    (IF op \in {"mulh", "mulhsu"} THEN Signed(a) ELSE a)
        * (IF op \in {"mulh", "mulhsu"} THEN Signed(b) ELSE b)

\* a33 * b33: each operand sign-extended or zero-extended by one bit.
Prod66(op, a, b) ==
    (IF op \in {"mulh", "mulhsu"} THEN Signed(a) ELSE a)
        * (IF op = "mulh" THEN Signed(b) ELSE b)

\* Mutant: the result is not cut to a word.
MulSelectWide(op, prod) == IF op = "mul" THEN prod ELSE prod \div Base
MulSelect(op, prod) == IF op = "mul" THEN Trunc(prod) ELSE Trunc(prod \div Base)

MulInit == mul = MulReset

MulClock(start, a, b, op, flush) ==
    \/ /\ flush
       /\ mul' = [mul EXCEPT !.busy = FALSE, !.valid = FALSE]
    \/ /\ ~flush /\ start /\ ~mul.busy
       /\ mul' = [mul EXCEPT !.valid = FALSE, !.busy = TRUE,
                             !.a_r = a, !.b_r = b, !.op_r = op]
    \/ /\ ~flush /\ mul.busy
       /\ mul' = [mul EXCEPT !.valid = TRUE, !.busy = FALSE,
                     !.result = MulSelect(mul.op_r, Prod66(mul.op_r, mul.a_r, mul.b_r))]
    \/ /\ ~flush /\ ~start /\ ~mul.busy
       /\ mul' = [mul EXCEPT !.valid = FALSE]
=============================================================================
