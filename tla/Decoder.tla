------------------------------- MODULE Decoder -------------------------------
(***************************************************************************)
(* The ID stage bit by bit: rtl/compressed_decoder.v, which expands a      *)
(* 16-bit instruction to a 32-bit one, and the combinational decode of     *)
(* rtl/rv32imc_top.v, which makes control signals of that.  A vector is    *)
(* the sequence of its bits, the highest first: {a, b} is a \o b.          *)
(***************************************************************************)
EXTENDS Integers, Sequences

Vector(x, n)     == [k \in 1 .. n |-> (x \div 2^(n - k)) % 2]
Slice(v, hi, lo) == SubSeq(v, Len(v) - hi, Len(v) - lo)              \* v[hi:lo]
Pick(v, places)  == [k \in DOMAIN places |-> v[Len(v) - places[k]]]  \* {v[p], v[q], ..}
Rep(n, bit)      == [k \in 1 .. n |-> bit]
Sext(v, n)       == Rep(n - Len(v), v[1]) \o v
NumberFrom(first, v) ==
    LET upto[k \in 1 .. Len(v)] == IF k = 1 THEN first ELSE 2 * upto[k - 1] + v[k]
    IN  upto[Len(v)]
Unsigned(v)   == NumberFrom(v[1], v)
TwosCompl(v)  == NumberFrom(-v[1], v)

OP_IMM    == Vector(19, 7)
OP_OP     == Vector(51, 7)
OP_LOAD   == Vector(3, 7)
OP_STORE  == Vector(35, 7)
OP_BRANCH == Vector(99, 7)
OP_JAL    == Vector(111, 7)
OP_JALR   == Vector(103, 7)
OP_LUI    == Vector(55, 7)
OP_AUIPC  == Vector(23, 7)
OP_SYSTEM == Vector(115, 7)
OP_FENCE  == Vector(15, 7)

-----------------------------------------------------------------------------
\* Immediates of the compressed formats

\* Mutant: offset bits 10 and 9 change places.
c_j_imm_swapped(c) == Sext(Pick(c, <<12, 8, 9, 10, 6, 7, 2, 11, 5, 4, 3>>) \o <<0>>, 32)
c_j_imm(c) == Sext(Pick(c, <<12, 8, 10, 9, 6, 7, 2, 11, 5, 4, 3>>) \o <<0>>, 32)
c_b_imm(c) == Sext(Pick(c, <<12, 6, 5, 2, 11, 10, 4, 3>>) \o <<0>>, 32)
c_imm6(c)  == Sext(Pick(c, <<12>>) \o Slice(c, 6, 2), 32)
c_shamt(c) == Slice(c_imm6(c), 5, 0)
q0_4spn_imm(c) == Rep(2, 0) \o Slice(c, 10, 7) \o Slice(c, 12, 11) \o Pick(c, <<5, 6>>) \o Rep(2, 0)
q0_lwsw_imm(c) == Rep(5, 0) \o Pick(c, <<5>>) \o Slice(c, 12, 10) \o Pick(c, <<6>>) \o Rep(2, 0)
q2_lwsp_imm(c) == Rep(4, 0) \o Slice(c, 3, 2) \o Pick(c, <<12>>) \o Slice(c, 6, 4) \o Rep(2, 0)
q2_swsp_imm(c) == Rep(4, 0) \o Slice(c, 8, 7) \o Slice(c, 12, 9) \o Rep(2, 0)
q1_16sp_imm(c) == Sext(Pick(c, <<12, 4, 3, 5, 2, 6>>) \o Rep(4, 0), 12)

rd_rs1(c) == Slice(c, 11, 7)
rs2f(c)   == Slice(c, 6, 2)
rs1s(c)   == <<0, 1>> \o Slice(c, 9, 7)
rs2s(c)   == <<0, 1>> \o Slice(c, 4, 2)
X(n) == Vector(n, 5)
F3(n) == Vector(n, 3)
F7_0   == Rep(7, 0)
F7_ALT == Vector(32, 7)
IsZero(v) == \A k \in DOMAIN v : v[k] = 0

\* cout, or the illegal flag
Expanded(w) == [cout |-> w, illegal |-> FALSE]
Reserved    == [cout |-> Rep(32, 0), illegal |-> TRUE]
Unless(bad, w) == IF bad THEN Reserved ELSE Expanded(w)

Quadrant0(c, f3) ==
    CASE f3 = 0 -> Unless(IsZero(q0_4spn_imm(c)), q0_4spn_imm(c) \o X(2) \o F3(0) \o rs2s(c) \o OP_IMM)
      [] f3 = 2 -> Expanded(q0_lwsw_imm(c) \o rs1s(c) \o F3(2) \o rs2s(c) \o OP_LOAD)
      [] f3 = 6 -> Expanded(Slice(q0_lwsw_imm(c), 11, 5) \o rs2s(c) \o rs1s(c) \o F3(2)
                            \o Slice(q0_lwsw_imm(c), 4, 0) \o OP_STORE)
      [] OTHER -> Reserved

JalWord(c, rd) ==
    LET imm == c_j_imm(c) IN
    Expanded(Pick(imm, <<20>>) \o Slice(imm, 10, 1) \o Pick(imm, <<11>>) \o Slice(imm, 19, 12)
             \o rd \o OP_JAL)
BranchWord(c, f3) ==
    LET imm == c_b_imm(c) IN
    Expanded(Pick(imm, <<12>>) \o Slice(imm, 10, 5) \o X(0) \o rs1s(c) \o f3
             \o Slice(imm, 4, 1) \o Pick(imm, <<11>>) \o OP_BRANCH)
ShiftWord(c, f7) ==
    Unless(c_shamt(c)[1] = 1,
           f7 \o Slice(c_shamt(c), 4, 0) \o rs1s(c) \o F3(5) \o rs1s(c) \o OP_IMM)
RegWord(c, f7, f3) == Expanded(f7 \o rs2s(c) \o rs1s(c) \o f3 \o rs1s(c) \o OP_OP)

\* funct3 = 100: shifts, ANDI and register-register operations
Arithmetic(c) ==
    LET f2 == Unsigned(Slice(c, 11, 10))
        r  == Unsigned(Slice(c, 6, 5))
    IN  CASE f2 = 0 -> ShiftWord(c, F7_0)
          [] f2 = 1 -> ShiftWord(c, F7_ALT)
          [] f2 = 2 -> Expanded(Slice(c_imm6(c), 11, 0) \o rs1s(c) \o F3(7) \o rs1s(c) \o OP_IMM)
          [] f2 = 3 -> IF r = 0 THEN RegWord(c, F7_ALT, F3(0)) ELSE RegWord(c, F7_0, F3(<<4, 6, 7>>[r]))

Quadrant1(c, f3) ==
    LET imm12 == Slice(c_imm6(c), 11, 0)
        rd    == rd_rs1(c)
    IN  CASE f3 = 0 -> Expanded(imm12 \o rd \o F3(0) \o rd \o OP_IMM)
          [] f3 = 1 -> JalWord(c, X(1))
          [] f3 = 2 -> Unless(IsZero(rd), imm12 \o X(0) \o F3(0) \o rd \o OP_IMM)
          [] f3 = 3 /\ rd = X(2) ->
                Unless(IsZero(q1_16sp_imm(c)), q1_16sp_imm(c) \o X(2) \o F3(0) \o X(2) \o OP_IMM)
          [] f3 = 3 /\ rd # X(2) ->
                Unless(IsZero(rd) \/ IsZero(c_shamt(c)), Slice(c_imm6(c), 19, 0) \o rd \o OP_LUI)
          [] f3 = 4 -> Arithmetic(c)
          [] f3 = 5 -> JalWord(c, X(0))
          [] f3 = 6 -> BranchWord(c, F3(0))
          [] f3 = 7 -> BranchWord(c, F3(1))

\* C.JR, C.MV, C.EBREAK, C.JALR, C.ADD; C.EBREAK becomes 00000073, ECALL's word
JumpMoveAdd(c) ==
    LET rd == rd_rs1(c)
        jalr(link) == Rep(12, 0) \o rd \o F3(0) \o X(link) \o OP_JALR
    IN  IF Pick(c, <<12>>) = <<0>>
        THEN IF IsZero(rs2f(c)) THEN Unless(IsZero(rd), jalr(0))
             ELSE Unless(IsZero(rd), F7_0 \o rs2f(c) \o X(0) \o F3(0) \o rd \o OP_OP)
        ELSE IF IsZero(rs2f(c))
             THEN IF IsZero(rd) THEN Expanded(Rep(25, 0) \o OP_SYSTEM) ELSE Expanded(jalr(1))
             ELSE Unless(IsZero(rd), F7_0 \o rs2f(c) \o rd \o F3(0) \o rd \o OP_OP)

Quadrant2(c, f3) ==
    LET rd == rd_rs1(c) IN
    CASE f3 = 0 -> Unless(IsZero(rd) \/ c_shamt(c)[1] = 1,
                          F7_0 \o Slice(c_shamt(c), 4, 0) \o rd \o F3(1) \o rd \o OP_IMM)
      [] f3 = 2 -> Unless(IsZero(rd), q2_lwsp_imm(c) \o X(2) \o F3(2) \o rd \o OP_LOAD)
      [] f3 = 4 -> JumpMoveAdd(c)
      [] f3 = 6 -> Expanded(Slice(q2_swsp_imm(c), 11, 5) \o rs2f(c) \o X(2) \o F3(2)
                            \o Slice(q2_swsp_imm(c), 4, 0) \o OP_STORE)
      [] OTHER -> Reserved

compressed_decoder(c) ==
    LET f3 == Unsigned(Slice(c, 15, 13))
        q  == Unsigned(Slice(c, 1, 0))
    IN  CASE q = 0 -> Quadrant0(c, f3) [] q = 1 -> Quadrant1(c, f3)
          [] q = 2 -> Quadrant2(c, f3) [] q = 3 -> Reserved

-----------------------------------------------------------------------------
\* Control signals

imm_i(w) == Slice(w, 31, 20)
imm_s(w) == Slice(w, 31, 25) \o Slice(w, 11, 7)
imm_b(w) == Pick(w, <<31, 7>>) \o Slice(w, 30, 25) \o Slice(w, 11, 8) \o <<0>>
imm_u(w) == Slice(w, 31, 12) \o Rep(12, 0)
imm_j(w) == Pick(w, <<31>>) \o Slice(w, 19, 12) \o Pick(w, <<20>>) \o Slice(w, 30, 21) \o <<0>>

IdDefaults ==
    [alu_op |-> "add", a_sel |-> "rs1", b_imm |-> FALSE, imm |-> 0,
     is_branch |-> FALSE, is_jal |-> FALSE, is_jalr |-> FALSE,
     mem_read |-> FALSE, mem_write |-> FALSE, mem_size |-> "word", mem_unsigned |-> FALSE,
     wb_sel |-> "alu", rd_write |-> FALSE, is_csr |-> FALSE, csr_op |-> "none",
     csr_imm |-> FALSE, csr_addr |-> 0, is_mul |-> FALSE, is_div |-> FALSE, muldiv_op |-> 0,
     is_ecall |-> FALSE, is_ebreak |-> FALSE, is_mret |-> FALSE, illegal |-> FALSE,
     uses_rs1 |-> FALSE, uses_rs2 |-> FALSE]
Illegal == [IdDefaults EXCEPT !.illegal = TRUE]

\* The ALU operation of a funct3, `alt` choosing SUB and SRA.
Funct3Alu(f3, alt) ==
    CASE f3 = 0 -> IF alt THEN "sub" ELSE "add"
      [] f3 = 5 -> IF alt THEN "sra" ELSE "srl"
      [] OTHER -> <<"sll", "slt", "sltu", "xor", "srl", "or", "and">>[f3]

IdOp(f3, f7) ==
    LET s == [IdDefaults EXCEPT !.rd_write = TRUE, !.uses_rs1 = TRUE, !.uses_rs2 = TRUE]
    IN  IF f7 = 1 THEN [s EXCEPT !.muldiv_op = f3 % 4, !.is_mul = f3 < 4, !.is_div = f3 >= 4]
        ELSE [s EXCEPT !.alu_op = Funct3Alu(f3, f7 = 32), !.illegal = f7 \notin {0, 32}]

IdOpImm(w, f3, f7) ==
    [IdDefaults EXCEPT
        !.rd_write = TRUE, !.uses_rs1 = TRUE, !.b_imm = TRUE, !.imm = TwosCompl(imm_i(w)),
        !.alu_op = Funct3Alu(f3, f3 = 5 /\ Pick(w, <<30>>) = <<1>>),
        !.illegal = (f3 = 1 /\ f7 # 0) \/ (f3 = 5 /\ f7 \notin {0, 32})]

IdLoad(w, f3) ==
    [IdDefaults EXCEPT
        !.rd_write = TRUE, !.uses_rs1 = TRUE, !.b_imm = TRUE, !.imm = TwosCompl(imm_i(w)),
        !.mem_read = TRUE, !.wb_sel = "mem", !.mem_unsigned = f3 \in {4, 5},
        !.mem_size = IF f3 \in {0, 4} THEN "byte" ELSE IF f3 \in {1, 5} THEN "half" ELSE "word",
        !.illegal = f3 \notin {0, 1, 2, 4, 5}]

IdStore(w, f3) ==
    [IdDefaults EXCEPT
        !.uses_rs1 = TRUE, !.uses_rs2 = TRUE, !.b_imm = TRUE, !.imm = TwosCompl(imm_s(w)),
        !.mem_write = TRUE, !.mem_size = IF f3 < 2 THEN <<"byte", "half">>[f3 + 1] ELSE "word",
        !.illegal = f3 \notin 0 .. 2]

IdBranch(w, f3) ==
    [IdDefaults EXCEPT
        !.is_branch = TRUE, !.uses_rs1 = TRUE, !.uses_rs2 = TRUE, !.imm = TwosCompl(imm_b(w)),
        !.alu_op = <<"sub", "add", "slt", "sltu">>[(f3 \div 2) + 1],
        !.illegal = f3 \in {2, 3}]

IdJump(w, f3) ==
    LET s == [IdDefaults EXCEPT !.rd_write = TRUE, !.wb_sel = "link"]
    IN  IF Slice(w, 6, 0) = OP_JAL THEN [s EXCEPT !.is_jal = TRUE, !.imm = TwosCompl(imm_j(w))]
        ELSE [s EXCEPT !.is_jalr = TRUE, !.uses_rs1 = TRUE, !.b_imm = TRUE,
                       !.imm = TwosCompl(imm_i(w)), !.illegal = f3 # 0]

IdUpper(w, a_sel) ==
    [IdDefaults EXCEPT !.rd_write = TRUE, !.a_sel = a_sel, !.b_imm = TRUE, !.imm = TwosCompl(imm_u(w))]

IdSystem(w, f3) ==
    CASE f3 = 0 /\ IsZero(imm_i(w))          -> [IdDefaults EXCEPT !.is_ecall = TRUE]
      [] f3 = 0 /\ imm_i(w) = Vector(1, 12)  -> [IdDefaults EXCEPT !.is_ebreak = TRUE]
      [] f3 = 0 /\ w = Vector(770, 12) \o Rep(13, 0) \o OP_SYSTEM -> [IdDefaults EXCEPT !.is_mret = TRUE]
      [] f3 \notin {0, 4} ->
            [IdDefaults EXCEPT !.is_csr = TRUE, !.uses_rs1 = f3 < 4, !.csr_imm = f3 >= 4,
                               !.csr_op = <<"rw", "rs", "rc">>[f3 % 4],
                               !.csr_addr = Unsigned(imm_i(w)), !.rd_write = TRUE, !.wb_sel = "csr",
                               !.imm = IF f3 >= 4 THEN Unsigned(Slice(w, 19, 15)) ELSE 0]
      [] OTHER -> Illegal

\* Fetch data in, control signals and register numbers out.
IdStage(if_id_instr) ==
    LET rvc == Slice(if_id_instr, 1, 0) # <<1, 1>>
        dec == compressed_decoder(Slice(if_id_instr, 15, 0))
        w   == IF rvc THEN dec.cout ELSE if_id_instr
        opcode == Slice(w, 6, 0)
        f3  == Unsigned(Slice(w, 14, 12))
        f7  == Unsigned(Slice(w, 31, 25))
        signals ==
            CASE rvc /\ dec.illegal  -> Illegal
              [] opcode = OP_OP      -> IdOp(f3, f7)
              [] opcode = OP_IMM     -> IdOpImm(w, f3, f7)
              [] opcode = OP_LOAD    -> IdLoad(w, f3)
              [] opcode = OP_STORE   -> IdStore(w, f3)
              [] opcode = OP_BRANCH  -> IdBranch(w, f3)
              [] opcode \in {OP_JAL, OP_JALR} -> IdJump(w, f3)
              [] opcode = OP_LUI     -> IdUpper(w, "zero")
              [] opcode = OP_AUIPC   -> IdUpper(w, "pc")
              [] opcode = OP_SYSTEM  -> IdSystem(w, f3)
              [] opcode = OP_FENCE   -> IdDefaults
              [] OTHER -> Illegal
    IN  [signals |-> signals, rd |-> Unsigned(Slice(w, 11, 7)),
         rs1 |-> Unsigned(Slice(w, 19, 15)), rs2 |-> Unsigned(Slice(w, 24, 20))]
=============================================================================
