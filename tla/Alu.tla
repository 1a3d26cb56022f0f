-------------------------------- MODULE Alu --------------------------------
(***************************************************************************)
(* rtl/alu.v: one adder serves ADD, SUB, SLT and SLTU; the comparisons are *)
(* read off its sign and carry.  AluRef is what the RISC-V operations mean.*)
(***************************************************************************)
EXTENDS Words

AluOp == {"add", "sub", "sll", "srl", "sra", "xor", "or", "and", "slt", "sltu"}

Shamt(b) == b % XLEN                       \* b[4:0]

Sub(op) == op \in {"sub", "slt", "sltu"}

\* The XLEN+1 bit sum; its top bit is the carry out.
AddExt(op, a, b) == a + (IF Sub(op) THEN Not(b) + 1 ELSE b)
AddRes(op, a, b) == Trunc(AddExt(op, a, b))
Carry(op, a, b)  == AddExt(op, a, b) >= Base

Sra(a, n) == Trunc(Signed(a) \div 2^n)

\* Mutant: the sign of the difference, overflow forgotten.
SltNoOverflow(a, b) == Msb(AddRes("slt", a, b))

\* Signed comparison: the operands' signs when they differ, otherwise the
\* sign of the difference (which cannot overflow).
Slt(a, b)  == IF Msb(a) # Msb(b) THEN Msb(a) ELSE Msb(AddRes("slt", a, b))
Sltu(a, b) == ~Carry("sltu", a, b)

Flag(p) == IF p THEN 1 ELSE 0

Alu(op, a, b) ==
    CASE op \in {"add", "sub"} -> AddRes(op, a, b)
      [] op = "sll"  -> Trunc(a * 2^Shamt(b))
      [] op = "srl"  -> a \div 2^Shamt(b)
      [] op = "sra"  -> Sra(a, Shamt(b))
      [] op = "xor"  -> Xor(a, b)
      [] op = "or"   -> Or(a, b)
      [] op = "and"  -> And(a, b)
      [] op = "slt"  -> Flag(Slt(a, b))
      [] op = "sltu" -> Flag(Sltu(a, b))

-----------------------------------------------------------------------------
(* What each operation computes, on integers. *)
AluRef(op, a, b) ==
    CASE op = "add"  -> Trunc(a + b)
      [] op = "sub"  -> Trunc(a - b)
      [] op = "sll"  -> FromBits({i \in 0 .. XLEN - 1 : \E j \in Bits(a) : i = j + Shamt(b)})
      [] op = "srl"  -> FromBits({i \in 0 .. XLEN - 1 : i + Shamt(b) \in Bits(a)})
      [] op = "sra"  -> FromBits({i \in 0 .. XLEN - 1 :
                            \/ i + Shamt(b) \in Bits(a)
                            \/ i + Shamt(b) >= XLEN /\ Msb(a)})
      [] op = "xor"  -> Xor(a, b)
      [] op = "or"   -> a + b - And(a, b)
      [] op = "and"  -> a - AndNot(a, b)
      [] op = "slt"  -> Flag(Signed(a) < Signed(b))
      [] op = "sltu" -> Flag(a < b)

-----------------------------------------------------------------------------
(* Branch resolution, rv32imc_top.v: the branch runs SUB, SLT or SLTU on   *)
(* the ALU and the condition is read from its zero flag or its bit 0.      *)
BranchOp == {"beq", "bne", "blt", "bge", "bltu", "bgeu"}

BranchAluOp(op) == CASE op \in {"beq", "bne"}   -> "sub"
                     [] op \in {"blt", "bge"}   -> "slt"
                     [] op \in {"bltu", "bgeu"} -> "sltu"

BrTakenRaw(op, result) ==
    CASE op = "beq"             -> result = 0
      [] op = "bne"             -> result # 0
      [] op \in {"blt", "bltu"} -> result % 2 = 1
      [] op \in {"bge", "bgeu"} -> result % 2 = 0

BranchRef(op, a, b) ==
    CASE op = "beq"  -> a = b
      [] op = "bne"  -> a # b
      [] op = "blt"  -> Signed(a) < Signed(b)
      [] op = "bge"  -> Signed(a) >= Signed(b)
      [] op = "bltu" -> a < b
      [] op = "bgeu" -> a >= b
=============================================================================
