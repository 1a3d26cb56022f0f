----------------------------- MODULE MulDivRef -----------------------------
(***************************************************************************)
(* What the M extension computes, on integers.                             *)
(***************************************************************************)
EXTENDS Words

MulOp == {"mul", "mulh", "mulhsu", "mulhu"}
DivOp == {"div", "divu", "rem", "remu"}

AbsVal(x) == IF x < 0 THEN -x ELSE x

MulRef(op, a, b) ==
    LET x == IF op \in {"mulh", "mulhsu"} THEN Signed(a) ELSE a
        y == IF op = "mulh" THEN Signed(b) ELSE b
    IN  IF op = "mul" THEN Trunc(a * b) ELSE Trunc((x * y) \div Base)

\* Division truncates toward zero; x/0 = -1, x%0 = x; overflow wraps.
DivRef(op, a, b) ==
    LET x == IF op \in {"div", "rem"} THEN Signed(a) ELSE a
        y == IF op \in {"div", "rem"} THEN Signed(b) ELSE b
        q == AbsVal(x) \div AbsVal(y)
        r == AbsVal(x) % AbsVal(y)
    IN  IF b = 0 THEN (IF op \in {"div", "divu"} THEN Base - 1 ELSE a)
        ELSE IF op \in {"div", "divu"}
             THEN Trunc(IF (x < 0) # (y < 0) THEN -q ELSE q)
             ELSE Trunc(IF x < 0 THEN -r ELSE r)
=============================================================================
