--------------------------- MODULE MulDivHistory ---------------------------
(***************************************************************************)
(* What the specifications of the multiplier and the divider remember of   *)
(* the past.                                                               *)
(***************************************************************************)
EXTENDS MulDivRef

VARIABLES op0, a0, b0,  \* operation and operands accepted last
          age           \* clocks since then, up to a bound
=============================================================================
