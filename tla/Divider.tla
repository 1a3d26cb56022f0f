------------------------------ MODULE Divider ------------------------------
(***************************************************************************)
(* rtl/mul_div.v, divider: restoring division, one quotient bit per clock. *)
(* The dividend's magnitude starts in quot_r; each step shifts its top bit *)
(* into rem_r, subtracts the divisor when it fits, and shifts the outcome  *)
(* into quot_r.  Signs are fixed up at the end; division by zero and the   *)
(* signed overflow take a fast path.                                       *)
(***************************************************************************)
EXTENDS Words

VARIABLE div        \* [state, busy, valid, result, count, divisor_r, rem_r, quot_r,
                    \*  dividend_neg, divisor_neg, is_rem, is_signed, fast_done]

DivReset == [state |-> "idle", busy |-> FALSE, valid |-> FALSE, result |-> 0,
             count |-> 0, divisor_r |-> 0, rem_r |-> 0, quot_r |-> 0,
             dividend_neg |-> FALSE, divisor_neg |-> FALSE,
             is_rem |-> FALSE, is_signed |-> FALSE, fast_done |-> FALSE]

IsSignedOp(op) == op \in {"div", "rem"}
IsRemOp(op)    == op \in {"rem", "remu"}
DivByZero(divisor) == divisor = 0
Overflow(op, dividend, divisor) ==
    IsSignedOp(op) /\ 2 * dividend = Base /\ divisor = Base - 1

Negate(w) == Trunc(Not(w) + 1)
Magnitude(op, w) == IF IsSignedOp(op) /\ Msb(w) THEN Negate(w) ELSE w

\* The wires of one iteration.  rem_sub is one bit wider than a word; its
\* top bit set means the divisor did not fit.
RemShifted == Trunc(div.rem_r) * 2 + (div.quot_r * 2) \div Base
RemSub     == (RemShifted - div.divisor_r) % (2 * Base)
\* Mutant: a divisor equal to the remainder does not fit.
FitsStrictly == RemSub < Base /\ RemSub # 0
Fits       == RemSub < Base
RemNext    == IF Fits THEN RemSub ELSE RemShifted
QuotNext   == Trunc(div.quot_r * 2) + (IF Fits THEN 1 ELSE 0)

DivInit == div = DivReset

Accept(dividend, divisor, op) ==
    LET latched == [div EXCEPT
                       !.valid = FALSE, !.busy = TRUE,
                       !.is_signed = IsSignedOp(op), !.is_rem = IsRemOp(op),
                       !.dividend_neg = IsSignedOp(op) /\ Msb(dividend),
                       !.divisor_neg  = IsSignedOp(op) /\ Msb(divisor)]
    IN \/ /\ DivByZero(divisor)
          /\ div' = [latched EXCEPT !.state = "done", !.fast_done = TRUE,
                        !.result = IF IsRemOp(op) THEN dividend ELSE Base - 1]
       \/ /\ ~DivByZero(divisor) /\ Overflow(op, dividend, divisor)
          /\ div' = [latched EXCEPT !.state = "done", !.fast_done = TRUE,
                        !.result = IF IsRemOp(op) THEN 0 ELSE dividend]
       \/ /\ ~DivByZero(divisor) /\ ~Overflow(op, dividend, divisor)
          /\ div' = [latched EXCEPT !.state = "busy", !.fast_done = FALSE,
                        !.divisor_r = Magnitude(op, divisor),
                        !.quot_r = Magnitude(op, dividend),
                        !.rem_r = 0, !.count = 0]

\* Mutant: one iteration short.
IterateShort ==
    div' = [div EXCEPT !.valid = FALSE, !.rem_r = RemNext, !.quot_r = QuotNext,
                       !.state = IF div.count + 2 >= XLEN THEN "done" ELSE "busy",
                       !.count = IF div.count + 2 >= XLEN THEN @ ELSE @ + 1]

Iterate ==
    div' = [div EXCEPT !.valid = FALSE, !.rem_r = RemNext, !.quot_r = QuotNext,
                       !.state = IF div.count = XLEN - 1 THEN "done" ELSE "busy",
                       !.count = IF div.count = XLEN - 1 THEN @ ELSE @ + 1]

\* Mutant: the remainder takes the quotient's sign.
FixupQuotientSign ==
    LET w == IF div.is_rem THEN Trunc(div.rem_r) ELSE div.quot_r
    IN  IF div.fast_done THEN div.result
        ELSE IF div.is_signed /\ div.dividend_neg # div.divisor_neg THEN Negate(w) ELSE w

\* Sign fixup on the final rem_r and quot_r, skipped for the fast path.
Fixup ==
    IF div.fast_done THEN div.result
    ELSE IF div.is_rem
         THEN IF div.is_signed /\ div.dividend_neg
              THEN Negate(Trunc(div.rem_r)) ELSE Trunc(div.rem_r)
         ELSE IF div.is_signed /\ div.dividend_neg # div.divisor_neg
              THEN Negate(div.quot_r) ELSE div.quot_r

DivClock(start, dividend, divisor, op, flush) ==
    \/ /\ flush
       /\ div' = [div EXCEPT !.state = "idle", !.busy = FALSE, !.valid = FALSE]
    \/ ~flush /\ div.state = "idle" /\ start /\ Accept(dividend, divisor, op)
    \/ /\ ~flush /\ div.state = "idle" /\ ~start
       /\ div' = [div EXCEPT !.valid = FALSE]
    \/ ~flush /\ div.state = "busy" /\ Iterate
    \/ /\ ~flush /\ div.state = "done"
       /\ div' = [div EXCEPT !.valid = TRUE, !.busy = FALSE, !.state = "idle",
                             !.result = Fixup]
=============================================================================
