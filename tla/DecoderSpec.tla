----------------------------- MODULE DecoderSpec -----------------------------
(***************************************************************************)
(* What the decoder should make of its input, in the terms of the          *)
(* architecture manual: a compressed instruction is the instruction it     *)
(* stands for, its immediate gathered from the places the manual lists,    *)
(* and the control signals of an instruction are the ones the pipeline     *)
(* model uses (Instructions).                                              *)
(***************************************************************************)
EXTENDS Decoder, Instructions, FiniteSetsExt

Insn(kind, op, rd, rs1, rs2, imm) ==
    [Plain EXCEPT !.kind = kind, !.op = op, !.rd = rd, !.rs1 = rs1, !.rs2 = rs2, !.imm = imm]

-----------------------------------------------------------------------------
\* The encodings of the 32-bit instructions

MajorOpcode ==
    [op |-> 51, mul |-> 51, div |-> 51, opimm |-> 19, load |-> 3, store |-> 35, branch |-> 99,
     jal |-> 111, jalr |-> 103, lui |-> 55, auipc |-> 23, csr |-> 115, csri |-> 115,
     ecall |-> 115, ebreak |-> 115, mret |-> 115, fence |-> 15, illegal |-> 107]
Minor ==
    [add |-> 0, sub |-> 0, sll |-> 1, slt |-> 2, sltu |-> 3, xor |-> 4, srl |-> 5, sra |-> 5,
     or |-> 6, and |-> 7, mul |-> 0, mulh |-> 1, mulhsu |-> 2, mulhu |-> 3, div |-> 4, divu |-> 5,
     rem |-> 6, remu |-> 7, lb |-> 0, lh |-> 1, lw |-> 2, lbu |-> 4, lhu |-> 5,
     sb |-> 0, sh |-> 1, sw |-> 2, beq |-> 0, bne |-> 1, blt |-> 4, bge |-> 5, bltu |-> 6,
     bgeu |-> 7, rw |-> 1, rs |-> 2, rc |-> 3, none |-> 0]
CsrAddress ==
    [mstatus |-> 768, mie |-> 772, mtvec |-> 773, mscratch |-> 832, mepc |-> 833, mcause |-> 834,
     mtval |-> 835, mip |-> 836, mcycle |-> 2816, minstret |-> 2818, br_exec |-> 1984,
     br_misp |-> 1985, none |-> 1]

\* An instruction marked illegal has a reserved funct3 or funct7.
Funct3Of(i) ==
    CASE i.illegal /\ i.kind \in {"load", "store"} -> 3
      [] i.illegal /\ i.kind = "jalr" -> 1
      [] i.kind = "csri" -> Minor[i.op] + 4
      [] OTHER -> Minor[i.op]
Funct7Of(i) == (IF i.op \in {"sub", "sra"} THEN 32 ELSE IF i.kind \in {"mul", "div"} THEN 1 ELSE 0)
               + (IF i.illegal THEN 64 ELSE 0)
\* x[hi:lo] of an immediate, negative ones included
ImmBits(x, hi, lo) == Vector(x \div 2^lo, hi - lo + 1)

UpperPart(i) ==
    CASE i.kind \in {"op", "mul", "div"} -> Vector(Funct7Of(i), 7) \o X(i.rs2)
      [] i.kind = "opimm" /\ i.op \in {"sll", "srl", "sra"} -> Vector(Funct7Of(i), 7) \o ImmBits(i.imm, 4, 0)
      [] i.kind = "store" -> ImmBits(i.imm, 11, 5) \o X(i.rs2)
      [] i.kind = "branch" -> ImmBits(i.imm, 12, 12) \o ImmBits(i.imm, 10, 5) \o X(i.rs2)
      [] i.kind \in {"csr", "csri"} -> Vector(CsrAddress[i.csr], 12)
      [] i.kind = "ebreak" -> Vector(1, 12)
      [] i.kind = "mret" -> Vector(770, 12)
      [] OTHER -> ImmBits(i.imm, 11, 0)
LowerPart(i) ==
    CASE i.kind = "store" -> ImmBits(i.imm, 4, 0)
      [] i.kind = "branch" -> ImmBits(i.imm, 4, 1) \o ImmBits(i.imm, 11, 11)
      [] OTHER -> X(i.rd)
Encoding(i) ==
    LET opcode == Vector(MajorOpcode[i.kind], 7) IN
    CASE i.kind \in {"lui", "auipc"} -> ImmBits(i.imm, 31, 12) \o X(i.rd) \o opcode
      [] i.kind = "jal" -> ImmBits(i.imm, 20, 20) \o ImmBits(i.imm, 10, 1) \o ImmBits(i.imm, 11, 11)
                           \o ImmBits(i.imm, 19, 12) \o X(i.rd) \o opcode
      [] OTHER -> UpperPart(i) \o X(IF i.kind = "csri" THEN i.imm ELSE i.rs1)
                  \o F3(Funct3Of(i)) \o LowerPart(i) \o opcode

-----------------------------------------------------------------------------
\* The control signals of an instruction

\* The immediate of a shift has funct7 above the amount (the ALU takes b[4:0]).
ShiftImm(i) == IF i.kind = "opimm" /\ i.op \in {"sll", "srl", "sra"}
               THEN i.imm + (IF i.illegal THEN -2048 ELSE IF i.op = "sra" THEN 1024 ELSE 0)
               ELSE i.imm
Signals(i) ==
    [IdDefaults EXCEPT
        !.alu_op = IdAluOp(i), !.a_sel = ASel(i), !.b_imm = BSelImm(i), !.imm = ShiftImm(i),
        !.is_branch = i.kind = "branch", !.is_jal = i.kind = "jal", !.is_jalr = i.kind = "jalr",
        !.mem_read = MemRead(i), !.mem_write = MemWrite(i),
        !.mem_size = IF IsMem(i) THEN MemSize(i) ELSE @, !.mem_unsigned = MemUnsigned(i),
        !.wb_sel = WbSel(i), !.rd_write = RdWrite(i), !.is_csr = IsCsr(i),
        !.csr_op = IF IsCsr(i) THEN i.op ELSE @, !.csr_imm = i.kind = "csri",
        !.csr_addr = IF IsCsr(i) THEN CsrAddress[i.csr] ELSE @,
        !.is_mul = i.kind = "mul", !.is_div = i.kind = "div",
        !.muldiv_op = IF IsMulDiv(i) THEN Minor[i.op] % 4 ELSE @,
        !.is_ecall = i.kind = "ecall", !.is_ebreak = i.kind = "ebreak", !.is_mret = i.kind = "mret",
        !.illegal = IsIllegal(i), !.uses_rs1 = UsesRs1(i), !.uses_rs2 = UsesRs2(i)]

\* The stage's outputs are these signals and the registers they make use of.
DecodesTo(fetched, i) ==
    LET id == IdStage(fetched) IN
    /\ id.signals = Signals(i)
    /\ RdWrite(i) => id.rd = i.rd
    /\ UsesRs1(i) => id.rs1 = i.rs1
    /\ UsesRs2(i) => id.rs2 = i.rs2

-----------------------------------------------------------------------------
\* The compressed instructions, from their 16-bit numbers

Digit(h, i)     == (h \div 2^i) % 2
Part(h, hi, lo) == (h \div 2^lo) % 2^(hi - lo + 1)
\* "imm[11|4|9:8|10|6|7|3:1|5]" from bit hi down: the weight of each bit.
Gather(h, hi, weights) ==
    MapThenSumSet(LAMBDA k : Digit(h, hi + 1 - k) * 2^weights[k], DOMAIN weights)
\* The same with a sign at bit 12 that stands for the place s.
GatherSigned(h, s, hi, weights) == Gather(h, hi, weights) - Digit(h, 12) * 2^s

ImmCI(h)   == GatherSigned(h, 5, 6, <<4, 3, 2, 1, 0>>)
Imm16SP(h) == GatherSigned(h, 9, 6, <<4, 6, 8, 7, 5>>)
ImmLUI(h)  == GatherSigned(h, 17, 6, <<16, 15, 14, 13, 12>>)
ImmCJ(h)   == GatherSigned(h, 11, 11, <<4, 9, 8, 10, 6, 7, 3, 2, 1, 5>>)
ImmCB(h)   == GatherSigned(h, 8, 11, <<4, 3>>) + Gather(h, 6, <<7, 6, 2, 1, 5>>)
ImmCIW(h)  == Gather(h, 12, <<5, 4, 9, 8, 7, 6, 2, 3>>)
ImmCL(h)   == Gather(h, 12, <<5, 4, 3>>) + Gather(h, 6, <<2, 6>>)
ImmLWSP(h) == Gather(h, 12, <<5>>) + Gather(h, 6, <<4, 3, 2, 7, 6>>)
ImmSWSP(h) == Gather(h, 12, <<5, 4, 3, 2, 7, 6>>)

NoInsn == [Plain EXCEPT !.kind = "illegal"]

Rvc0(h, f3) ==
    LET rd == 8 + Part(h, 4, 2)
        r1 == 8 + Part(h, 9, 7)
    IN  CASE f3 = 0 /\ ImmCIW(h) # 0 -> Insn("opimm", "add", rd, 2, 0, ImmCIW(h))    \* C.ADDI4SPN
          [] f3 = 2 -> Insn("load", "lw", rd, r1, 0, ImmCL(h))                       \* C.LW
          [] f3 = 6 -> Insn("store", "sw", 0, r1, rd, ImmCL(h))                      \* C.SW
          [] OTHER -> NoInsn

\* Bit 12 of C.SUB to C.AND, reserved when set, is not looked at by the core.
RvcArithmetic(h) ==
    LET r1 == 8 + Part(h, 9, 7)
        r2 == 8 + Part(h, 4, 2)
        f2 == Part(h, 11, 10)
    IN  CASE f2 < 2 /\ Digit(h, 12) = 0 -> Insn("opimm", <<"srl", "sra">>[f2 + 1], r1, r1, 0, Part(h, 6, 2))
          [] f2 = 2 -> Insn("opimm", "and", r1, r1, 0, ImmCI(h))
          [] f2 = 3 -> Insn("op", <<"sub", "xor", "or", "and">>[Part(h, 6, 5) + 1], r1, r1, r2, 0)
          [] OTHER -> NoInsn

\* The hints C.LI and C.LUI to x0 are illegal to the core.
Rvc1(h, f3) ==
    LET rd == Part(h, 11, 7)
        r1 == 8 + Part(h, 9, 7)
    IN  CASE f3 = 0 -> Insn("opimm", "add", rd, rd, 0, ImmCI(h))                     \* C.ADDI
          [] f3 = 1 -> Insn("jal", "none", 1, 0, 0, ImmCJ(h))                        \* C.JAL
          [] f3 = 2 /\ rd # 0 -> Insn("opimm", "add", rd, 0, 0, ImmCI(h))            \* C.LI
          [] f3 = 3 /\ rd = 2 /\ Imm16SP(h) # 0 -> Insn("opimm", "add", 2, 2, 0, Imm16SP(h))
          [] f3 = 3 /\ rd \notin {0, 2} /\ ImmLUI(h) # 0 -> Insn("lui", "none", rd, 0, 0, ImmLUI(h))
          [] f3 = 4 -> RvcArithmetic(h)
          [] f3 = 5 -> Insn("jal", "none", 0, 0, 0, ImmCJ(h))                        \* C.J
          [] f3 = 6 -> Insn("branch", "beq", 0, r1, 0, ImmCB(h))                     \* C.BEQZ
          [] f3 = 7 -> Insn("branch", "bne", 0, r1, 0, ImmCB(h))                     \* C.BNEZ
          [] OTHER -> NoInsn

\* The hints C.SLLI, C.MV and C.ADD to x0 are illegal to the core.
Rvc2(h, f3) ==
    LET rd == Part(h, 11, 7)
        r2 == Part(h, 6, 2)
        link == Digit(h, 12)
    IN  CASE f3 = 0 /\ rd # 0 /\ link = 0 -> Insn("opimm", "sll", rd, rd, 0, r2)     \* C.SLLI
          [] f3 = 2 /\ rd # 0 -> Insn("load", "lw", rd, 2, 0, ImmLWSP(h))            \* C.LWSP
          [] f3 = 4 /\ rd # 0 /\ r2 = 0 -> Insn("jalr", "none", link, rd, 0, 0)      \* C.JR, C.JALR
          [] f3 = 4 /\ rd # 0 /\ r2 # 0 -> Insn("op", "add", rd, rd * link, r2, 0)   \* C.MV, C.ADD
          [] f3 = 4 /\ rd = 0 /\ r2 = 0 /\ link = 1 -> Insn("ebreak", "none", 0, 0, 0, 0)
          [] f3 = 6 -> Insn("store", "sw", 0, 2, r2, ImmSWSP(h))                     \* C.SWSP
          [] OTHER -> NoInsn

Rvc(h) == LET f3 == Part(h, 15, 13) IN
          CASE h % 4 = 0 -> Rvc0(h, f3) [] h % 4 = 1 -> Rvc1(h, f3) [] h % 4 = 2 -> Rvc2(h, f3)

Halfwords == {h \in 0 .. 65535 : h % 4 # 3}
C_EBREAK  == 36866

-----------------------------------------------------------------------------
\* 32-bit instructions: every operation, register numbers and immediates that
\* reach every bit of their fields.

RegTriples == {<<1, 2, 4>>, <<8, 16, 31>>, <<30, 15, 0>>}
Ones(s)    == {0, -1, 2^s - 1, -(2^s), 5 * 2^(s - 3), -5 * 2^(s - 4)}
WithRegs(kind, ops, imms) ==
    { Insn(kind, op, r[1], r[2], r[3], imm) : op \in ops, r \in RegTriples, imm \in imms }
Words32 ==
    WithRegs("op", AluOp, {0}) \cup WithRegs("mul", MulOp, {0}) \cup WithRegs("div", DivOp, {0})
    \cup WithRegs("opimm", AluOp \ {"sub", "sll", "srl", "sra"}, Ones(11))
    \cup WithRegs("opimm", {"sll", "srl", "sra"}, {0, 1, 21, 31})
    \cup WithRegs("load", LoadOp, Ones(11)) \cup WithRegs("store", StoreOp, Ones(11))
    \cup WithRegs("branch", BranchOp, {2 * x : x \in Ones(11)})
    \cup WithRegs("jal", {"none"}, {2 * x : x \in Ones(19)}) \cup WithRegs("jalr", {"none"}, Ones(11))
    \cup WithRegs("lui", {"none"}, {4096 * x : x \in Ones(19)})
    \cup WithRegs("auipc", {"none"}, {4096 * x : x \in Ones(19)})
    \cup { [i EXCEPT !.csr = name] : name \in CsrName,
             i \in WithRegs("csr", CsrOp, {0}) \cup WithRegs("csri", CsrOp, {0, 10, 21}) }
    \cup { Insn(k, "none", 0, 0, 0, 0) : k \in {"ecall", "ebreak", "mret", "fence", "illegal"} }
ReservedWords32 ==
    { [i EXCEPT !.illegal = TRUE] :
        i \in WithRegs("op", AluOp \ {"sub", "sra"}, {0}) \cup WithRegs("opimm", {"sll", "srl"}, {0, 21})
              \cup WithRegs("load", {"lw"}, {0, -1}) \cup WithRegs("store", {"sw"}, {0, -1})
              \cup WithRegs("jalr", {"none"}, {0, -1}) }

\* What the fetch unit hands over: a compressed instruction comes with the
\* halfword behind it.
FetchedHalf(h, next) == Rep(16, next) \o Vector(h, 16)
=============================================================================
