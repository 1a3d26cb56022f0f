---------------------------- MODULE DividerSpec ----------------------------
(***************************************************************************)
(* The divider in an environment that starts, stalls and flushes it in any *)
(* order, and a history of the operands it accepted.                       *)
(***************************************************************************)
EXTENDS Divider, MulDivHistory

dvars == <<div, op0, a0, b0, age>>

FastPath == DivByZero(b0) \/ Overflow(op0, a0, b0)
Latency  == IF FastPath THEN 1 ELSE XLEN + 1   \* clocks after the accepting edge

DivSpecInit == /\ DivInit /\ op0 = "div" /\ a0 = 0 /\ b0 = 0 /\ age = 0

\* age counts up to Latency + 1 here.
DivAccepted(start, a, b, op, flush) ==
    IF ~flush /\ start /\ div.state = "idle"
    THEN op0' = op /\ a0' = a /\ b0' = b /\ age' = 0
    ELSE /\ UNCHANGED <<op0, a0, b0>>
         /\ age' = IF age <= XLEN + 1 THEN age + 1 ELSE age

DivRunOn(operands) == \E a, b \in operands, op \in DivOp :
          /\ DivClock(TRUE, a, b, op, FALSE)
          /\ DivAccepted(TRUE, a, b, op, FALSE)

\* Operands are looked at only when start is up and flush is down.
DivWait  == DivClock(FALSE, 0, 0, "div", FALSE) /\ DivAccepted(FALSE, 0, 0, "div", FALSE)
DivFlush == DivClock(FALSE, 0, 0, "div", TRUE) /\ DivAccepted(FALSE, 0, 0, "div", TRUE)

DivNext == DivRunOn(Word) \/ DivWait \/ DivFlush
DivSpec == DivSpecInit /\ [][DivNext]_dvars

-----------------------------------------------------------------------------
(* A result that is signalled valid is the quotient or the remainder of the *)
(* operands accepted last, for every operation, sign, zero divisor and      *)
(* overflow (mul_div.v, S_IDLE to S_DONE).                                  *)
DivCorrect == div.valid => div.result = DivRef(op0, a0, b0)

(* The partial remainder stays below the divisor: the invariant restoring   *)
(* division rests on (mul_div.v, rem_next).  The shifted remainder then     *)
(* needs the one extra bit rem_r has, and no more.                          *)
RemainderBelowDivisor ==
    div.state = "busy" \/ (div.state = "done" /\ ~div.fast_done)
        => div.rem_r < div.divisor_r

(* A result comes exactly Latency clocks after its operands, so one that a  *)
(* flush interrupted never comes, and busy covers the time in between       *)
(* (mul_div.v, divider).                                                    *)
DivOnTime == /\ div.valid => age = Latency
             /\ div.busy => age < Latency
             /\ div.busy <=> div.state # "idle"
=============================================================================
