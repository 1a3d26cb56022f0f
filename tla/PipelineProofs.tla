--------------------------- MODULE PipelineProofs ---------------------------
(***************************************************************************)
(* The pipeline's data, for every program, every word size, every          *)
(* behaviour of the pins and every content of the memories and the         *)
(* predictor at power-up.                                                  *)
(***************************************************************************)
EXTENDS CoreProofs, DatapathProofs

LEMMA ConstantsInRange ==
    /\ 0 \in Word /\ 0 \in Reg /\ Base \in Nat /\ Base > 0
    /\ \A x \in Int : Trunc(x) \in Word
    /\ \A w \in Word : w \in Int
<1>1. Base \in Nat /\ Base > 0
  BY WordIsBelowBase
<1>2. \A x \in Int : Trunc(x) \in Word
  BY <1>1 DEF Trunc, Word
<1>3. 0 \in Word /\ 0 \in Reg /\ \A w \in Word : w \in Int
  BY <1>1, NREGSAssumption DEF Word, Reg
<1>4. QED
  BY <1>1, <1>2, <1>3

LEMMA AlignInWord ==
    ASSUME NEW w \in Word, NEW n \in {2, 4} PROVE AlignDown(w, n) \in Word
<1>1. w \in Nat /\ w < Base /\ Base \in Nat
  BY WordIsBelowBase
<1>2. w % n \in Nat /\ w % n <= w
  BY <1>1
<1>3. QED
  BY <1>1, <1>2 DEF AlignDown, Word

LEMMA NextPcInWord == ASSUME NEW a \in Word, NEW c PROVE NextPc(a, c) \in Word
BY ConstantsInRange DEF NextPc

LEMMA PlainIsInstruction == Plain \in Instruction /\ Junk \in Instruction
                            /\ [Junk EXCEPT !.size = 4] \in Instruction
BY ConstantsInRange DEF Plain, Junk, Instruction, Fields, OpFits, OffsetFits, Kind, CsrName

LEMMA PowerOfBytes ==
    ASSUME NEW n \in 0 .. BPW
    PROVE  BYTE^n \in Nat /\ BYTE^n > 0 /\ BYTE^n <= Base
<1>1. /\ BYTE \in Nat /\ BYTE > 1 /\ BYTE^BPW = Base /\ BPW \in {2, 4} /\ BYTE^0 = 1
      /\ \A k \in 0 .. BPW - 1 : BYTE^(k + 1) = BYTE * BYTE^k
  BY LsuAssumption
<1>2. ASSUME NEW p \in Nat, p > 0 PROVE BYTE * p \in Nat /\ BYTE * p > 0 /\ p <= BYTE * p
  <2>1. BYTE * p = p + ((BYTE - 1) * p) /\ BYTE - 1 \in Nat
    BY <1>1
  <2>2. ASSUME NEW b \in Nat PROVE b * p \in Nat
    BY <2>2
  <2>3. (BYTE - 1) * p \in Nat
    BY <2>1, <2>2
  <2>4. QED
    BY <1>2, <2>1, <2>3
<1>3. BYTE^1 \in Nat /\ BYTE^1 > 0 /\ BYTE^0 \in Nat /\ BYTE^0 > 0 /\ BYTE^0 <= BYTE^1
  BY <1>1, <1>2
<1>4. BYTE^2 \in Nat /\ BYTE^2 > 0 /\ BYTE^1 <= BYTE^2
  <2>1. BYTE^2 = BYTE * BYTE^1
    BY <1>1
  <2>2. QED
    BY <1>2, <1>3, <2>1
<1>5. ASSUME BPW = 4
      PROVE  BYTE^3 \in Nat /\ BYTE^3 > 0 /\ BYTE^2 <= BYTE^3
             /\ BYTE^4 \in Nat /\ BYTE^4 > 0 /\ BYTE^3 <= BYTE^4
  <2>1. BYTE^3 = BYTE * BYTE^2 /\ BYTE^4 = BYTE * BYTE^3
    BY <1>1, <1>5
  <2>2. QED
    BY <1>2, <1>4, <2>1
<1>6. CASE BPW = 2
  BY <1>1, <1>3, <1>4, <1>6
<1>7. CASE BPW = 4
  BY <1>1, <1>3, <1>4, <1>5, <1>7
<1>8. QED
  BY <1>1, <1>6, <1>7

\* A number of n bytes is below BYTE^n.
LEMMA BytesBelow ==
    ASSUME NEW n \in 0 .. BPW, NEW f, \A k \in 0 .. n - 1 : f[k] \in Byte
    PROVE  FromBytes(f, n) \in 0 .. BYTE^n - 1
<1> DEFINE g == [k \in 0 .. n - 1 |-> f[k] * BYTE^k]
           K == {k \in Nat : k <= n => SumBelow(g, k) \in 0 .. BYTE^k - 1}
<1>1. BPW \in Nat /\ n \in Nat /\ n <= BPW /\ BYTE \in Nat /\ BYTE > 1
  BY LsuAssumption
<1>5. \A k \in 0 .. BPW : BYTE^k \in Nat /\ BYTE^k > 0
  BY PowerOfBytes
<1>6. \A k \in 0 .. n - 1 : g[k] \in Nat /\ g[k] = f[k] * BYTE^k
  <2>1. ASSUME NEW k \in 0 .. n - 1 PROVE f[k] \in Nat /\ BYTE^k \in Nat
    BY <1>1, <1>5 DEF Byte
  <2>2. ASSUME NEW x \in Nat, NEW y \in Nat PROVE x * y \in Nat
    BY <2>2
  <2>3. QED
    BY <2>1, <2>2
<1> HIDE DEF g
<1>7. 0 \in K
  BY SumZero, LsuAssumption
<1>8. ASSUME NEW k \in Nat, k \in K PROVE k + 1 \in K
  <2>1. SUFFICES ASSUME k + 1 <= n PROVE SumBelow(g, k + 1) \in 0 .. BYTE^(k + 1) - 1
    OBVIOUS
  <2>2. k \in 0 .. n - 1 /\ k \in 0 .. BPW - 1 /\ k <= n
    BY <1>1, <2>1
  <2>3. SumBelow(g, k) \in 0 .. BYTE^k - 1
    BY <1>8, <2>2
  <2>4. SumBelow(g, k + 1) = SumBelow(g, k) + g[k]
    BY <1>6, <2>2, SumStep
  <2>5. BYTE^(k + 1) = BYTE * BYTE^k /\ BYTE^k \in Nat
    BY <1>1, <1>5, <2>2, LsuAssumption
  <2>6. g[k] = f[k] * BYTE^k /\ f[k] \in Nat /\ f[k] <= BYTE - 1
    BY <1>1, <1>6, <2>2 DEF Byte
  <2>7. ASSUME NEW s \in Nat, NEW p \in Nat, NEW d \in Nat, NEW b \in Nat,
               s < p, d + 1 <= b
        PROVE  s + (d * p) < b * p /\ s + (d * p) \in Nat
    <3>1. (d + 1) * p <= b * p /\ (d + 1) * p = (d * p) + p /\ d * p \in Nat
      BY <2>7
    <3>2. QED
      BY <2>7, <3>1
  <2> DEFINE s == SumBelow(g, k)
             p == BYTE^k
             d == f[k]
  <2>8. s \in Nat /\ s < p /\ p \in Nat /\ d \in Nat /\ d + 1 <= BYTE /\ BYTE \in Nat
    BY <1>1, <2>3, <2>5, <2>6
  <2>9. SumBelow(g, k + 1) = s + (d * p) /\ BYTE^(k + 1) = BYTE * p
    BY <2>4, <2>5, <2>6
  <2> HIDE DEF s, p, d
  <2>10. s + (d * p) < BYTE * p /\ s + (d * p) \in Nat
    BY <2>7, <2>8
  <2>11. BYTE * p \in Nat
    BY <2>8
  <2>12. QED
    BY <2>9, <2>10, <2>11
<1>9. Nat \subseteq K
  <2> HIDE DEF K
  <2>1. QED
    BY <1>7, <1>8, Induction
<1>10. FromBytes(f, n) = SumBelow(g, n)
  BY DEF FromBytes, g
<1>11. n \in K
  BY <1>1, <1>9
<1>12. QED
  BY <1>1, <1>10, <1>11

\* The components compute on the same words.
LEMMA SameWords ==
    /\ BP!Word = Word /\ Csr!Word = Word
    /\ \A x : BP!Trunc(x) = Trunc(x) /\ Csr!Trunc(x) = Trunc(x)
    /\ \A x, n : BP!AlignDown(x, n) = AlignDown(x, n) /\ Csr!AlignDown(x, n) = AlignDown(x, n)
    /\ \A x, n : Csr!Bit(x, n) = Bit(x, n)
    /\ \A x, y : Csr!Or(x, y) = Or(x, y) /\ Csr!AndNot(x, y) = AndNot(x, y)
BY DEF BP!Word, Csr!Word, Word, BP!Base, Csr!Base, Base,
       BP!Trunc, Csr!Trunc, Trunc, BP!AlignDown, Csr!AlignDown, AlignDown,
       Csr!Bit, Bit, Csr!Or, Or, Csr!AndNot, AndNot, Csr!FromBits, FromBits,
       Csr!SumBelow, SumBelow, Csr!Bits, Bits

-----------------------------------------------------------------------------
(* What the types of the registers say of the wires. *)

LEMMA InstructionFields ==
    ASSUME NEW i \in Instruction
    PROVE  /\ i.rd \in Reg /\ i.rs1 \in Reg /\ i.rs2 \in Reg /\ i.imm \in Word
           /\ i.kind \in Kind /\ i.csr \in CsrName /\ i.size \in {2, 4} /\ i.illegal \in BOOLEAN
           /\ OpFits(i) /\ OffsetFits(i)
BY DEF Instruction, Fields

LEMMA Control ==
    ASSUME NEW i \in Instruction
    PROVE  /\ IdAluOp(i) \in AluOp
           /\ IsMem(i) => MemSize(i) \in Size
           /\ WbSel(i) \in {"mem", "link", "csr", "alu"}
           /\ WbSel(i) = "mem" <=> MemRead(i)
           /\ ASel(i) \in {"pc", "zero", "rs1"}
<1>1. OpFits(i)
  BY InstructionFields
<1>2. IdAluOp(i) \in AluOp
  BY <1>1 DEF OpFits, IdAluOp, AluOp, BranchOp, BranchAluOp
<1>3. IsMem(i) => MemSize(i) \in Size
  BY <1>1 DEF OpFits, IsMem, MemRead, MemWrite, MemSize, LoadOp, StoreOp, Size
<1>4. QED
  BY <1>2, <1>3 DEF WbSel, ASel, MemRead, IsJump, IsCsr

FieldTypes ==
    /\ fbuf.valid \in BOOLEAN /\ fbuf.pc \in Word
    /\ fbuf.pred_taken \in BOOLEAN /\ fbuf.pred_target \in Word
    /\ if_id.valid \in BOOLEAN /\ if_id.pc \in Word /\ if_id.instr \in Instruction
    /\ if_id.is_compressed \in BOOLEAN
    /\ if_id.pred_taken \in BOOLEAN /\ if_id.pred_target \in Word
    /\ id_ex.valid \in BOOLEAN /\ id_ex.pc \in Word /\ id_ex.instr \in Instruction
    /\ id_ex.is_compressed \in BOOLEAN
    /\ id_ex.rs1_data \in Word /\ id_ex.rs2_data \in Word
    /\ id_ex.pred_taken \in BOOLEAN /\ id_ex.pred_target \in Word
    /\ ex_mem.valid \in BOOLEAN /\ ex_mem.pc \in Word /\ ex_mem.instr \in Instruction
    /\ ex_mem.is_compressed \in BOOLEAN
    /\ ex_mem.alu_result \in Word /\ ex_mem.store_data \in Word
    /\ ex_mem.csr_rdata \in Word /\ ex_mem.need_xword \in BOOLEAN
    /\ mem_wb.valid \in BOOLEAN /\ mem_wb.pc \in Word /\ mem_wb.rd \in Reg
    /\ mem_wb.rd_write \in BOOLEAN /\ mem_wb.wdata \in Word
    /\ mul.result \in Word /\ mul.valid \in BOOLEAN
    /\ div.result \in Word /\ div.valid \in BOOLEAN

LEMMA Typed == ASSUME TypeOK PROVE FieldTypes
<1>1. /\ fbuf.valid \in BOOLEAN /\ fbuf.pc \in Word
      /\ fbuf.pred_taken \in BOOLEAN /\ fbuf.pred_target \in Word
  BY DEF TypeOK, FbufType
<1>2. /\ if_id.valid \in BOOLEAN /\ if_id.pc \in Word /\ if_id.instr \in Instruction
      /\ if_id.is_compressed \in BOOLEAN
      /\ if_id.pred_taken \in BOOLEAN /\ if_id.pred_target \in Word
  BY DEF TypeOK, IfIdType
<1>3. /\ id_ex.valid \in BOOLEAN /\ id_ex.pc \in Word /\ id_ex.instr \in Instruction
      /\ id_ex.is_compressed \in BOOLEAN
      /\ id_ex.rs1_data \in Word /\ id_ex.rs2_data \in Word
      /\ id_ex.pred_taken \in BOOLEAN /\ id_ex.pred_target \in Word
  BY DEF TypeOK, IdExType
<1>4. /\ ex_mem.valid \in BOOLEAN /\ ex_mem.pc \in Word /\ ex_mem.instr \in Instruction
      /\ ex_mem.is_compressed \in BOOLEAN
      /\ ex_mem.alu_result \in Word /\ ex_mem.store_data \in Word
      /\ ex_mem.csr_rdata \in Word /\ ex_mem.need_xword \in BOOLEAN
  BY DEF TypeOK, ExMemType
<1>5. /\ mem_wb.valid \in BOOLEAN /\ mem_wb.pc \in Word /\ mem_wb.rd \in Reg
      /\ mem_wb.rd_write \in BOOLEAN /\ mem_wb.wdata \in Word
  BY DEF TypeOK, MemWbType
<1>6. /\ mul.result \in Word /\ mul.valid \in BOOLEAN
      /\ div.result \in Word /\ div.valid \in BOOLEAN
  BY DEF TypeOK, MulType, DivType
<1>7. QED
  BY <1>1, <1>2, <1>3, <1>4, <1>5, <1>6 DEF FieldTypes

\* What the predictor answers.
LEMMA PredictionTyped ==
    ASSUME TypeOK PROVE BP!pred_taken \in BOOLEAN /\ BP!pred_target \in Word
<1>1. BTB_ENTRIES \in Nat /\ BTB_ENTRIES > 0 /\ rd_addr \in Nat
  BY PredictorAssumption, SameWords, WordIsBelowBase DEF TypeOK, BP!TypeOK
<1>2. BP!BtbIdx(rd_addr) \in 0 .. BTB_ENTRIES - 1
  BY <1>1 DEF BP!BtbIdx
<1>3. BP!btb_ent \in BP!BtbEntry
  BY <1>2 DEF TypeOK, BP!TypeOK, BP!btb_ent
<1>4. BP!btb_ent.target \in Word
  BY <1>3, SameWords DEF BP!BtbEntry
<1>5. BP!pred_target \in Word
  BY <1>4, SameWords, AlignInWord DEF BP!pred_target
<1>6. QED
  BY <1>3, <1>5 DEF BP!BtbEntry, BP!pred_taken, BP!btb_hit

LEMMA FetchTyped ==
    ASSUME TypeOK
    PROVE  /\ fetched \in Instruction /\ joined \in Instruction /\ fetch_next \in Word
           /\ pc_half_is32 \in BOOLEAN
<1> USE Typed DEF FieldTypes
<1>1. pc \in Word /\ prog \in Programs
  BY DEF TypeOK
<1>2. fetched \in Instruction /\ joined \in Instruction
  BY <1>1, CodeAssumption, PlainIsInstruction DEF fetched, joined
<1>3. Trunc(fbuf.pc + 4) \in Word /\ Trunc(pc + 2) \in Word
  BY <1>1, ConstantsInRange
<1>4. NextPc(pc, ~pc_half_is32) \in Word
  BY <1>1, NextPcInWord
<1>5. fetch_next \in Word
  BY <1>1, <1>3, <1>4, PredictionTyped DEF fetch_next
<1>6. QED
  BY <1>2, <1>5 DEF pc_half_is32

\* The memory's answer and what a load makes of it.
LEMMA LoadDataInWord ==
    ASSUME NEW size \in Size, NEW uns, NEW addr \in Word, NEW xword \in BOOLEAN,
           NEW first \in Beat, NEW second \in Beat
    PROVE  LoadData(size, uns, addr, xword, first, second) \in Word
<1> DEFINE n   == NBytes(size)
           r64 == [j \in 0 .. 2 * BPW - 1 |->
                      IF xword THEN IF j < BPW THEN first[j] ELSE second[j - BPW]
                               ELSE IF j < BPW THEN second[j] ELSE 0]
           f   == [k \in 0 .. n - 1 |-> r64[Bsel(addr) + k]]
           raw == FromBytes(f, n)
<1>1. n \in 1 .. BPW /\ Bsel(addr) \in 0 .. BPW - 1 /\ BPW \in {2, 4} /\ BYTE \in Nat /\ BYTE > 1
  BY LaneFacts, LsuAssumption
<1>2. ASSUME NEW j \in 0 .. 2 * BPW - 1 PROVE r64[j] \in Byte
  <2>1. j < BPW => j \in Lane
    BY <1>1 DEF Lane
  <2>2. ~(j < BPW) => j - BPW \in Lane
    BY <1>1 DEF Lane
  <2>3. 0 \in Byte
    BY <1>1 DEF Byte
  <2>4. QED
    BY <2>1, <2>2, <2>3 DEF Beat
<1>3. ASSUME NEW k \in 0 .. n - 1 PROVE f[k] \in Byte
  BY <1>1, <1>2
<1> HIDE DEF f
<1>4. raw \in 0 .. BYTE^n - 1
  BY <1>1, <1>3, BytesBelow
<1>5. BYTE^n \in Nat /\ BYTE^n > 0 /\ BYTE^n <= Base
  BY <1>1, PowerOfBytes
<1>6. raw \in Word /\ Trunc(raw - BYTE^n) \in Word
  BY <1>4, <1>5, ConstantsInRange DEF Word
<1>7. LoadData(size, uns, addr, xword, first, second) \in {raw, Trunc(raw - BYTE^n)}
  BY DEF LoadData, f
<1>8. QED
  BY <1>6, <1>7

LEMMA ReadBeatTyped ==
    ASSUME NEW m \in DataMemory, NEW a \in Nat PROVE ReadBeat(m, a) \in Beat
<1>1. DBYTES \in Nat /\ DBYTES > 0 /\ BPW \in Nat
  BY LaneFacts
<1>2. ASSUME NEW j \in Lane PROVE m[(a + j) % DBYTES] \in Byte
  <2>1. (a + j) % DBYTES \in 0 .. DBYTES - 1
    BY <1>1 DEF Lane
  <2>2. QED
    BY <2>1 DEF DataMemory
<1>3. QED
  BY <1>2 DEF ReadBeat, Beat

LEMMA BeatAddrTyped ==
    ASSUME NEW addr \in Word, NEW xword \in BOOLEAN PROVE BeatAddr(addr, xword) \in Nat
<1>1. Word0(addr) \in Nat /\ BPW \in Nat
  BY LaneFacts
<1>2. Trunc(Word0(addr) + BPW) \in Nat
  BY <1>1, ConstantsInRange, WordIsBelowBase
<1>3. QED
  BY <1>1, <1>2 DEF BeatAddr

LEMMA MemoryTyped ==
    ASSUME TypeOK
    PROVE  /\ dmem_rdata \in Beat /\ ex_mem_link_addr \in Word
           /\ mem_wdata_sel \in Word /\ ex_mem_fwd_data \in Word
<1> USE Typed DEF FieldTypes
<1>1. mem_xword \in BOOLEAN /\ mem_rdata0 \in Beat /\ dmem \in DataMemory
  BY DEF TypeOK
<1>2. dmem_rdata \in Beat
  BY <1>1, ReadBeatTyped, BeatAddrTyped DEF dmem_rdata, dmem_addr
<1>3. ex_mem_link_addr \in Word
  BY NextPcInWord DEF ex_mem_link_addr
<1>4. WbSel(ex_mem.instr) = "mem" => mem_load_data \in Word
  <2>1. WbSel(ex_mem.instr) = "mem" => MemSize(ex_mem.instr) \in Size
    BY Control DEF IsMem
  <2>2. QED
    BY <1>1, <1>2, <2>1, LoadDataInWord DEF mem_load_data
<1>5. WbSel(ex_mem.instr) \in {"mem", "link", "csr", "alu"}
  BY Control
<1>6. QED
  BY <1>2, <1>3, <1>4, <1>5 DEF mem_wdata_sel, ex_mem_fwd_data

LEMMA RegReadTyped ==
    ASSUME TypeOK, NEW r \in Reg PROVE RegRead(r) \in Word
BY Typed, ConstantsInRange DEF FieldTypes, TypeOK, RegRead

LEMMA OperandsTyped ==
    ASSUME TypeOK
    PROVE  /\ fwd_rs1 \in Word /\ fwd_rs2 \in Word /\ alu_a \in Word /\ alu_b \in Word
           /\ alu_result \in Word /\ ex_result \in Word
<1> USE Typed DEF FieldTypes
<1>1. fwd_rs1 \in Word /\ fwd_rs2 \in Word
  BY MemoryTyped DEF fwd_rs1, fwd_rs2, Forward
<1>2. alu_a \in Word /\ alu_b \in Word
  BY <1>1, ConstantsInRange, Control, InstructionFields DEF alu_a, alu_b
<1>3. alu_result \in Word
  BY <1>2, Control, AluInWord DEF alu_result
<1>4. QED
  BY <1>1, <1>2, <1>3 DEF ex_result, muldiv_result

LEMMA TargetsTyped ==
    ASSUME TypeOK
    PROVE  /\ ex_actual_target \in Word /\ ex_target \in Word /\ irq_mepc \in Word
           /\ pc_d \in Word
<1> USE Typed DEF FieldTypes
<1>1. ex_fallthrough \in Word
  BY NextPcInWord DEF ex_fallthrough
<1>2. Trunc(id_ex.pc + id_ex.instr.imm) \in Word
  BY ConstantsInRange, InstructionFields
<1>3. ex_actual_target \in Word
  BY <1>1, <1>2, OperandsTyped, AlignInWord DEF ex_actual_target
<1>4. ex_target \in Word
  BY <1>1, <1>3 DEF ex_target
<1>5. pc \in Word /\ csr.mtvec \in Word /\ csr.mepc \in Word
  BY SameWords DEF TypeOK, Csr!CsrType
<1>6. pc_next \in Word
  BY <1>4, <1>5, FetchTyped DEF pc_next
<1>7. QED
  BY <1>3, <1>4, <1>5, <1>6 DEF pc_d, irq_mepc

-----------------------------------------------------------------------------
(* The CSR file *)

LEMMA PowerGrows ==
    ASSUME NEW i \in 0 .. XLEN, NEW j \in 0 .. XLEN, i < j PROVE 2 * 2^i <= 2^j
<1>1. i \in Nat /\ j \in Nat /\ i + 1 \in Nat /\ j - (i + 1) \in Nat /\ (i + 1) + (j - (i + 1)) = j
      /\ i \in 0 .. XLEN - 1 /\ i + 1 \in 0 .. XLEN /\ j - (i + 1) \in 0 .. XLEN /\ j <= XLEN
  BY XLENAssumption
<1> DEFINE p == 2^(i + 1)
           q == 2^(j - (i + 1))
<1>2. 2^j = p * q
  BY <1>1, PowerSum
<1>3. p = 2 * 2^i /\ p \in Nat /\ p > 0 /\ q \in Nat /\ q > 0
  BY <1>1, XLENAssumption, PowerPositive
<1> HIDE DEF p, q
<1>4. p * 1 <= p * q /\ p * q \in Nat
  BY <1>3
<1>5. QED
  BY <1>2, <1>3, <1>4

LEMMA MstatusInWord == ASSUME NEW c PROVE Csr!Mstatus(c) \in Word
<1>1. /\ MIE_BIT \in 0 .. XLEN - 1 /\ MPIE_BIT \in 0 .. XLEN - 1 /\ MIE_BIT # MPIE_BIT
      /\ XLEN \in Nat
  BY CsrAssumption, XLENAssumption
<1>2. /\ 2^MIE_BIT \in Nat /\ 2^MPIE_BIT \in Nat /\ 2^MIE_BIT > 0 /\ 2^MPIE_BIT > 0
      /\ 2 * 2^MIE_BIT <= Base /\ 2 * 2^MPIE_BIT <= Base
  BY <1>1, PowerPositive, PowerGrows DEF Base
<1>3. 2 * 2^MIE_BIT <= 2^MPIE_BIT \/ 2 * 2^MPIE_BIT <= 2^MIE_BIT
  BY <1>1, PowerGrows
<1>4. Base \in Nat
  BY WordIsBelowBase
<1>5. 2^MIE_BIT + 2^MPIE_BIT < Base
  BY <1>2, <1>3, <1>4
<1>6. QED
  BY <1>2, <1>4, <1>5 DEF Csr!Mstatus, Word

LEMMA CsrReadInWord ==
    ASSUME NEW c \in Csr!CsrType, NEW name \in CsrName, NEW mip \in Word
    PROVE  Csr!CsrRead(c, name, mip) \in Word
<1>1. name \in {"mie", "mtvec", "mscratch", "mepc", "mcause", "mtval",
               "mcycle", "minstret", "br_exec", "br_misp"} => c[name] \in Int
  BY SameWords, ConstantsInRange, CsrAssumption DEF Csr!CsrType, Csr!Counter
<1>2. CASE name \in {"mstatus", "mip", "none"}
  BY <1>2, MstatusInWord, ConstantsInRange DEF Csr!CsrRead
<1>3. CASE name \notin {"mstatus", "mip", "none"}
  BY <1>1, <1>3, SameWords, ConstantsInRange DEF Csr!CsrRead, CsrName
<1>4. QED
  BY <1>2, <1>3

LEMMA CsrRmwInWord ==
    ASSUME NEW op \in CsrOp, NEW old \in Word, NEW mask \in Word
    PROVE  Csr!CsrRmw(op, old, mask) \in Word
<1>1. Or(old, mask) \in Word /\ AndNot(old, mask) \in Word
  BY FromBitsInWord DEF Or, AndNot
<1>2. QED
  BY <1>1, SameWords DEF Csr!CsrRmw, CsrOp

LEMMA CsrWriteTyped ==
    ASSUME NEW c \in Csr!CsrType, NEW name, NEW w \in Word
    PROVE  Csr!CsrWrite(c, name, w) \in Csr!CsrType
<1>1. Csr!AlignDown(w, 4) \in Csr!Word /\ Csr!AlignDown(w, 2) \in Csr!Word /\ w \in Csr!Word
  BY SameWords, AlignInWord
<1>2. Csr!Bit(w, MIE_BIT) \in BOOLEAN /\ Csr!Bit(w, MPIE_BIT) \in BOOLEAN
  BY DEF Csr!Bit
<1>3. QED
  BY <1>1, <1>2 DEF Csr!CsrWrite, Csr!CsrType

LEMMA CsrClockTyped ==
    ASSUME csr \in Csr!CsrType, NEW retire, NEW branch, NEW mispredict, NEW trap,
           NEW cause \in Word, NEW epc \in Word, NEW tval \in Word, NEW mret, NEW we,
           NEW name, NEW wdata, we => wdata \in Word,
           Csr!Clock(retire, branch, mispredict, trap, cause, epc, tval, mret, we, name, wdata)
    PROVE  csr' \in Csr!CsrType
<1> DEFINE ticked == Csr!Tick(csr, retire, branch, mispredict)
<1>1. CNTMOD \in Nat /\ CNTMOD > 0
  BY CsrAssumption
<1>2. ticked \in Csr!CsrType
  <2>1. \A n \in Csr!Counter : (n + 1) % CNTMOD \in Csr!Counter
    BY <1>1 DEF Csr!Counter
  <2>2. QED
    BY <2>1 DEF Csr!Tick, Csr!CsrType
<1> HIDE DEF ticked
<1>3. /\ Csr!TrapEntry(ticked, cause, epc, tval) \in Csr!CsrType
      /\ Csr!MretExit(ticked) \in Csr!CsrType
      /\ we => Csr!CsrWrite(ticked, name, wdata) \in Csr!CsrType
  <2>1. Csr!TrapEntry(ticked, cause, epc, tval) \in Csr!CsrType
    BY <1>2, SameWords DEF Csr!TrapEntry, Csr!CsrType
  <2>2. Csr!MretExit(ticked) \in Csr!CsrType
    BY <1>2 DEF Csr!MretExit, Csr!CsrType
  <2>3. QED
    BY <1>2, <2>1, <2>2, CsrWriteTyped
<1>4. QED
  BY <1>2, <1>3 DEF Csr!Clock, ticked

LEMMA Causes ==
    /\ {0, 2, 3, 7, 11} \subseteq Word
    /\ \A n \in {3, 7, 11} : /\ 2^(XLEN - 1) + n \in Word
                            /\ Csr!IrqCause(n) = 2^(XLEN - 1) + n
<1>1. /\ XLEN - 1 \in 0 .. XLEN - 1 /\ XLEN - 1 \in 0 .. XLEN /\ (XLEN - 1) + 1 = XLEN
      /\ 2^(XLEN - 1) \in Nat /\ 11 < 2^(XLEN - 1)
  BY XLENAssumption, PowerPositive, CsrAssumption
<1>2. Base = 2 * 2^(XLEN - 1)
  BY <1>1, XLENAssumption DEF Base
<1>3. {0, 2, 3, 7, 11} \subseteq Word /\ \A n \in {3, 7, 11} : 2^(XLEN - 1) + n \in Word
  BY <1>1, <1>2 DEF Word
<1>4. \A w \in Word : Trunc(w) = w
  BY WordIsBelowBase, Remainders DEF Trunc
<1>5. \A n \in {3, 7, 11} : Csr!IrqCause(n) = 2^(XLEN - 1) + n
  BY <1>3, <1>4, SameWords DEF Csr!IrqCause
<1>6. QED
  BY <1>3, <1>5

-----------------------------------------------------------------------------
(* One clock keeps every register within its width. *)

LEMMA FrontTyped ==
    ASSUME TypeOK, Clock
    PROVE  /\ pc' \in Word /\ if_id' \in IfIdType /\ fbuf' \in FbufType
           /\ ~if_id'.valid => if_id' = IfIdBubble
<1> USE Typed, PredictionTyped, FetchTyped DEF FieldTypes
<1>1. pc \in Word /\ fbuf \in FbufType /\ if_id \in IfIdType
      /\ (~if_id.valid => if_id = IfIdBubble)
  BY DEF TypeOK
<1>2. pc' \in Word
  BY TargetsTyped DEF Clock, Pc
<1>3. NoFbuf \in FbufType /\ IfIdBubble \in IfIdType /\ IfIdBubble.valid = FALSE
  BY ConstantsInRange, PlainIsInstruction DEF NoFbuf, FbufType, IfIdBubble, IfIdType
<1>4. CASE FlushFetch
  BY <1>2, <1>3, <1>4 DEF FlushFetch
<1>5. CASE DrainFetch \/ HoldFetch
  BY <1>1, <1>2, <1>3, <1>5 DEF DrainFetch, HoldFetch
<1>6. CASE CompleteSplit
  BY <1>2, <1>3, <1>6 DEF CompleteSplit, IfIdType
<1>7. CASE SetupSplit
  BY <1>1, <1>2, <1>3, <1>7 DEF SetupSplit, FbufType
<1>8. CASE FetchWhole
  BY <1>1, <1>2, <1>8 DEF FetchWhole, IfIdType
<1>9. QED
  BY <1>4, <1>5, <1>6, <1>7, <1>8 DEF Clock, IfId

LEMMA BackTyped ==
    ASSUME TypeOK, Clock
    PROVE  /\ id_ex' \in IdExType /\ (~id_ex'.valid => id_ex' = IdExBubble)
           /\ ex_mem' \in ExMemType /\ (~ex_mem'.valid => ex_mem' = ExMemBubble)
           /\ mem_wb' \in MemWbType /\ (~mem_wb'.valid => mem_wb' = MemWbBubble)
<1> USE Typed DEF FieldTypes
<1>1. /\ id_ex \in IdExType /\ (~id_ex.valid => id_ex = IdExBubble)
      /\ ex_mem \in ExMemType /\ (~ex_mem.valid => ex_mem = ExMemBubble)
      /\ mem_wb \in MemWbType /\ (~mem_wb.valid => mem_wb = MemWbBubble)
  BY DEF TypeOK
<1>2. id_ex' \in IdExType /\ (~id_ex'.valid => id_ex' = IdExBubble)
  <2>1. IdExBubble \in IdExType
    BY ConstantsInRange, PlainIsInstruction DEF IdExBubble, IdExType
  <2>2. RegRead(if_id.instr.rs1) \in Word /\ RegRead(if_id.instr.rs2) \in Word
    BY InstructionFields, RegReadTyped
  <2>3. QED
    BY <1>1, <2>1, <2>2 DEF Clock, IdEx, IdExType
<1>3. ex_mem' \in ExMemType /\ (~ex_mem'.valid => ex_mem' = ExMemBubble)
  <2>1. ExMemBubble \in ExMemType
    BY ConstantsInRange, PlainIsInstruction DEF ExMemBubble, ExMemType
  <2>2. csr_rdata \in Word
    <3>1. csr \in Csr!CsrType /\ mip_in \in Word
      BY PinAssumption DEF TypeOK
    <3>2. QED
      BY <3>1, InstructionFields, CsrReadInWord DEF csr_rdata
  <2>3. need_xword_d \in BOOLEAN
    BY DEF need_xword_d, NeedXword, IsMem
  <2>4. QED
    BY <1>1, <2>1, <2>2, <2>3, OperandsTyped DEF Clock, ExMem, ExMemType
<1>4. mem_wb' \in MemWbType /\ (~mem_wb'.valid => mem_wb' = MemWbBubble)
  <2>1. MemWbBubble \in MemWbType
    BY ConstantsInRange DEF MemWbBubble, MemWbType
  <2>2. RdWrite(ex_mem.instr) \in BOOLEAN
    BY DEF RdWrite
  <2>3. QED
    BY <1>1, <2>1, <2>2, MemoryTyped, InstructionFields DEF Clock, MemWb, MemWbType
<1>5. QED
  BY <1>2, <1>3, <1>4

LEMMA StorageTyped ==
    ASSUME TypeOK, Clock
    PROVE  /\ mem_xword' \in BOOLEAN /\ mem_rdata0' \in Beat
           /\ regs' \in [Reg -> Word] /\ dmem' \in DataMemory
<1> USE Typed DEF FieldTypes
<1>1. /\ mem_xword \in BOOLEAN /\ mem_rdata0 \in Beat
      /\ regs \in [Reg -> Word] /\ dmem \in DataMemory
  BY DEF TypeOK
<1>2. mem_xword' \in BOOLEAN /\ mem_rdata0' \in Beat
  BY <1>1, MemoryTyped DEF Clock, Xword
<1>3. regs' \in [Reg -> Word]
  BY <1>1 DEF Clock, RegFile
<1>4. dmem' \in DataMemory
  <2>1. CASE ~(dmem_en /\ dmem_wstrb # {} /\ ~dmem_wait)
    BY <1>1, <2>1 DEF Clock, DataMemoryClock
  <2>2. CASE dmem_en /\ dmem_wstrb # {} /\ ~dmem_wait
    <3> DEFINE size == MemSize(ex_mem.instr)
               addr == ex_mem.alu_result
    <3>1. ex_mem.valid /\ MemWrite(ex_mem.instr)
          /\ dmem_wstrb = Strobe(size, addr, mem_xword)
      BY <2>2 DEF dmem_wstrb
    <3>2. size \in Size
      BY <3>1, Control DEF IsMem
    <3>3. NBytes(size) \in 1 .. BPW /\ BPW \in {2, 4} /\ Bsel(addr) \in 0 .. BPW - 1
      BY <3>2, LaneFacts
    <3>4. BYTE \in Nat /\ BYTE > 1
      BY LsuAssumption
    <3>5. ASSUME NEW k \in 0 .. BPW - 1 PROVE ByteOf(ex_mem.store_data, k) \in Byte
      <4>1. BYTE^k \in Nat /\ BYTE^k > 0 /\ ex_mem.store_data \in Nat
        BY <3>3, PowerOfBytes, WordIsBelowBase
      <4>2. ex_mem.store_data \div BYTE^k \in Nat
        BY <4>1
      <4>3. QED
        BY <3>4, <4>2 DEF ByteOf, Byte
    <3>6. ASSUME NEW j \in dmem_wstrb PROVE j \in Lane /\ dmem_wdata[j] \in Byte
      <4>1. j \in Lane /\ IF mem_xword THEN j < MemEnd(size, addr) - BPW
                          ELSE Bsel(addr) <= j /\ j < MemEnd(size, addr)
        BY <3>1 DEF Strobe
      <4>2. IF mem_xword THEN j + BPW - Bsel(addr) \in 0 .. BPW - 1
                         ELSE j >= Bsel(addr) /\ j - Bsel(addr) \in 0 .. BPW - 1
        BY <3>3, <4>1 DEF MemEnd, Lane
      <4>3. dmem_wdata[j] = ByteOf(ex_mem.store_data, IF mem_xword THEN j + BPW - Bsel(addr)
                                                                   ELSE j - Bsel(addr))
        BY <4>1, <4>2 DEF dmem_wdata, WData
      <4>4. QED
        BY <1>1, <3>5, <4>1, <4>2, <4>3
    <3>7. dmem' = WriteBeat(dmem, dmem_addr, dmem_wstrb, dmem_wdata)
      BY <2>2 DEF Clock, DataMemoryClock
    <3> HIDE DEF size, addr
    <3>8. QED
      BY <1>1, <3>6, <3>7 DEF WriteBeat, DataMemory
  <2>3. QED
    BY <2>1, <2>2
<1>5. QED
  BY <1>2, <1>3, <1>4
-----------------------------------------------------------------------------
(* The M-extension units *)

LEMMA MulResultTyped ==
    ASSUME NEW op, NEW a \in Word, NEW b \in Word
    PROVE  MulSelect(op, Prod66(op, a, b)) \in Word
<1>1. Base \in Nat /\ Base > 0 /\ a \in Int /\ b \in Int
  BY ConstantsInRange
<1>2. Signed(a) \in Int /\ Signed(b) \in Int
  BY <1>1 DEF Signed
<1>3. ASSUME NEW x \in Int, NEW y \in Int PROVE x * y \in Int
  BY <1>3
<1>4. Prod66(op, a, b) \in Int
  BY <1>1, <1>2, <1>3 DEF Prod66
<1>5. \A n \in Int : n \div Base \in Int
  BY <1>1
<1>6. QED
  BY <1>4, <1>5, ConstantsInRange DEF MulSelect

LEMMA MulTyped ==
    ASSUME mul \in MulType, NEW start, NEW flush, NEW a \in Word, NEW b \in Word,
           NEW op, start => op \in MulOp, MulClock(start, a, b, op, flush)
    PROVE  mul' \in MulType
<1>1. MulSelect(mul.op_r, Prod66(mul.op_r, mul.a_r, mul.b_r)) \in Word
  BY MulResultTyped DEF MulType
<1>2. QED
  BY <1>1 DEF MulClock, MulType

LEMMA NegateInWord == ASSUME NEW w \in Word PROVE Negate(w) \in Word
BY ConstantsInRange DEF Negate, Not

LEMMA MagnitudeInWord == ASSUME NEW op, NEW w \in Word PROVE Magnitude(op, w) \in Word
BY NegateInWord DEF Magnitude

\* One bit of the quotient.
LEMMA DivisionTyped ==
    ASSUME div \in DivType
    PROVE  RemNext \in 0 .. 2 * Base - 1 /\ QuotNext \in Word
<1>1. PICK h \in Nat : h > 0 /\ Base = 2 * h
  BY EvenBase
<1>2. /\ div.rem_r \in Nat /\ div.quot_r \in Nat /\ div.quot_r < Base
      /\ div.divisor_r \in Nat /\ Base \in Nat /\ Base > 0
  BY WordIsBelowBase DEF DivType
<1> DEFINE r == Trunc(div.rem_r)
           x == div.quot_r * 2
           c == x \div Base
           t == Trunc(x)
<1>3. r \in Nat /\ r <= Base - 1
  BY <1>2 DEF Trunc
<1>4. c \in {0, 1} /\ t \in Nat /\ t + 1 < Base
  <2>1. CASE div.quot_r < h
    <3>1. x \in Nat /\ x < Base /\ x + 1 < Base /\ x = Base * 0 + x
      BY <1>1, <1>2, <2>1
    <3> HIDE DEF x
    <3>2. x \div Base = 0 /\ x % Base = x
      BY <1>2, <3>1, QuotientOf
    <3>3. QED
      BY <3>1, <3>2 DEF Trunc
  <2>2. CASE div.quot_r >= h
    <3> DEFINE y == 2 * (div.quot_r - h)
    <3>1. x \in Nat /\ y \in Nat /\ y < Base /\ y + 1 < Base /\ x = Base * 1 + y
      BY <1>1, <1>2, <2>2
    <3> HIDE DEF x, y
    <3>2. x \div Base = 1 /\ x % Base = y
      BY <1>2, <3>1, QuotientOf
    <3>3. QED
      BY <3>1, <3>2 DEF Trunc
  <2>3. QED
    BY <1>1, <1>2, <2>1, <2>2
<1>5. RemShifted = (r * 2) + c /\ QuotNext \in {t, t + 1}
  BY ConstantsInRange, <1>3, <1>4 DEF RemShifted, QuotNext
<1> HIDE DEF r, c, t
<1>6. RemShifted \in 0 .. 2 * Base - 1
  BY <1>2, <1>3, <1>4, <1>5
<1>7. RemSub \in 0 .. 2 * Base - 1
  BY <1>2, <1>6 DEF RemSub
<1>8. RemNext \in 0 .. 2 * Base - 1
  BY <1>6, <1>7 DEF RemNext
<1>9. QED
  BY <1>2, <1>4, <1>5, <1>8 DEF Word

LEMMA FixupTyped == ASSUME div \in DivType PROVE Fixup \in Word
<1>1. /\ div.result \in Word /\ div.quot_r \in Word /\ Trunc(div.rem_r) \in Word
  BY ConstantsInRange DEF DivType
<1>2. QED
  BY <1>1, NegateInWord DEF Fixup

LEMMA DivTyped ==
    ASSUME div \in DivType, NEW start, NEW flush, NEW a \in Word, NEW b \in Word,
           NEW op, DivClock(start, a, b, op, flush)
    PROVE  div' \in DivType
<1>1. Base - 1 \in Word /\ 0 \in Word /\ 0 \in 0 .. 2 * Base - 1 /\ 0 \in 0 .. XLEN - 1
  BY WordIsBelowBase, XLENAssumption DEF Word
<1>2. CASE flush
  BY <1>2 DEF DivClock, DivType
<1>3. CASE ~flush /\ div.state = "idle" /\ start
  <2>1. Magnitude(op, a) \in Word /\ Magnitude(op, b) \in Word
    BY MagnitudeInWord
  <2>2. /\ IsSignedOp(op) \in BOOLEAN /\ IsRemOp(op) \in BOOLEAN
        /\ (IsSignedOp(op) /\ Msb(a)) \in BOOLEAN
        /\ (IsSignedOp(op) /\ Msb(b)) \in BOOLEAN
    BY DEF IsSignedOp, IsRemOp
  <2> DEFINE latched == [div EXCEPT
                 !.valid = FALSE, !.busy = TRUE,
                 !.is_signed = IsSignedOp(op), !.is_rem = IsRemOp(op),
                 !.dividend_neg = IsSignedOp(op) /\ Msb(a),
                 !.divisor_neg  = IsSignedOp(op) /\ Msb(b)]
  <2>4. latched \in DivType
    <3>1. ASSUME NEW p \in BOOLEAN, NEW q \in BOOLEAN, NEW u \in BOOLEAN, NEW v \in BOOLEAN
          PROVE  [div EXCEPT !.valid = FALSE, !.busy = TRUE, !.is_signed = p, !.is_rem = q,
                             !.dividend_neg = u, !.divisor_neg = v] \in DivType
      BY <3>1 DEF DivType
    <3>2. QED
      BY <2>2, <3>1
  <2>5. \/ div' = [latched EXCEPT !.state = "done", !.fast_done = TRUE,
                       !.result = IF IsRemOp(op) THEN a ELSE Base - 1]
        \/ div' = [latched EXCEPT !.state = "done", !.fast_done = TRUE,
                       !.result = IF IsRemOp(op) THEN 0 ELSE a]
        \/ div' = [latched EXCEPT !.state = "busy", !.fast_done = FALSE,
                       !.divisor_r = Magnitude(op, b),
                       !.quot_r = Magnitude(op, a),
                       !.rem_r = 0, !.count = 0]
    BY <1>3 DEF DivClock, Accept
  <2> HIDE DEF latched
  <2>6. ASSUME NEW w \in Word
        PROVE  [latched EXCEPT !.state = "done", !.fast_done = TRUE, !.result = w] \in DivType
    BY <2>4, <2>6 DEF DivType
  <2>7. ASSUME NEW w \in Word, NEW q \in Word
        PROVE  [latched EXCEPT !.state = "busy", !.fast_done = FALSE, !.divisor_r = w,
                               !.quot_r = q, !.rem_r = 0, !.count = 0] \in DivType
    BY <1>1, <2>4, <2>7 DEF DivType
  <2>8. QED
    BY <1>1, <2>1, <2>5, <2>6, <2>7
<1>4. CASE ~flush /\ div.state = "idle" /\ ~start
  BY <1>4 DEF DivClock, DivType
<1>5. CASE ~flush /\ div.state = "busy"
  <2>1. Iterate
    BY <1>5 DEF DivClock
  <2>2. div.count \in 0 .. XLEN - 1 /\ XLEN \in Nat
    BY XLENAssumption DEF DivType
  <2>3. div.count # XLEN - 1 => div.count + 1 \in 0 .. XLEN - 1
    BY <2>2
  <2>4. QED
    BY <2>1, <2>3, DivisionTyped DEF Iterate, DivType
<1>6. CASE ~flush /\ div.state = "done"
  BY <1>6, FixupTyped DEF DivClock, DivType
<1>7. QED
  BY <1>2, <1>3, <1>4, <1>5, <1>6 DEF DivType

LEMMA UnitsTyped ==
    ASSUME TypeOK, Clock
    PROVE  mul' \in MulType /\ div' \in DivType /\ ex_muldiv_started' \in BOOLEAN
<1> USE Typed DEF FieldTypes
<1>1. mul \in MulType /\ div \in DivType /\ ex_muldiv_started \in BOOLEAN
  BY DEF TypeOK
<1> DEFINE mstart == ex_is_muldiv /\ id_ex.instr.kind = "mul" /\ ~ex_muldiv_started
           dstart == ex_is_muldiv /\ id_ex.instr.kind = "div" /\ ~ex_muldiv_started
<1>2. mstart => id_ex.instr.op \in MulOp
  BY InstructionFields DEF OpFits
<1>3. MulClock(mstart, fwd_rs1, fwd_rs2, id_ex.instr.op, if_flush)
      /\ DivClock(dstart, fwd_rs1, fwd_rs2, id_ex.instr.op, if_flush)
  BY DEF Clock, MulDivUnits
<1> HIDE DEF mstart, dstart
<1>4. mul' \in MulType /\ div' \in DivType
  BY <1>1, <1>2, <1>3, OperandsTyped, MulTyped, DivTyped
<1>5. ex_muldiv_started' \in BOOLEAN
  BY <1>1 DEF Clock, MulDivStarted
<1>6. QED
  BY <1>4, <1>5

-----------------------------------------------------------------------------
(* The CSR file and the predictor under the pipeline's clock. *)

LEMMA WrittenTyped == ASSUME TypeOK PROVE csr_we_ex => csr_wdata \in Word
<1> USE Typed DEF FieldTypes
<1>1. csr \in Csr!CsrType /\ mip_in \in Word
  BY PinAssumption DEF TypeOK
<1>2. id_ex.instr.csr \in CsrName /\ id_ex.instr.imm \in Word
  BY InstructionFields
<1>3. csr_rdata \in Word /\ csr_rmask \in Word
  BY <1>1, <1>2, CsrReadInWord, OperandsTyped DEF csr_rdata, csr_rmask
<1>4. csr_we_ex => id_ex.instr.op \in CsrOp
  BY InstructionFields DEF csr_we_ex, IsCsr, OpFits
<1>5. QED
  BY <1>3, <1>4, CsrRmwInWord DEF csr_wdata

LEMMA CsrTyped == ASSUME TypeOK, Clock PROVE csr' \in Csr!CsrType
<1> USE Typed DEF FieldTypes
<1>1. csr \in Csr!CsrType /\ mip_in \in Word
  BY PinAssumption DEF TypeOK
<1> DEFINE cause == IF ex_trap THEN ex_trap_cause
                    ELSE Csr!IrqCause(Csr!IrqId(mip_in, csr))
           epc   == IF ex_trap THEN id_ex.pc ELSE irq_mepc
           tval  == IF ex_trap THEN ex_trap_tval ELSE 0
<1>2. cause \in Word
  <2>1. ex_trap_cause \in {2, 3, 11} /\ Csr!IrqId(mip_in, csr) \in {3, 7, 11}
    BY DEF ex_trap_cause, Csr!IrqId
  <2>2. QED
    BY <2>1, Causes
<1>3. epc \in Word /\ tval \in Word
  BY TargetsTyped, InstructionFields, ConstantsInRange DEF ex_trap_tval
<1>4. csr_we_ex => csr_wdata \in Word
  BY WrittenTyped
<1>5. Csr!Clock(mem_wb.valid, ex_tick /\ ex_is_cf, ex_tick /\ ex_misp_raw, trap_valid,
                cause, epc, tval, ex_mret, csr_we_ex, id_ex.instr.csr, csr_wdata)
  BY DEF Clock, CsrClock
<1> HIDE DEF cause, epc, tval
<1>6. QED
  BY <1>1, <1>2, <1>3, <1>4, <1>5, CsrClockTyped

LEMMA PredictorTyped == ASSUME TypeOK, Clock PROVE BP!TypeOK'
<1> USE Typed DEF FieldTypes
<1>1. /\ bht \in [0 .. BHT_ENTRIES - 1 -> 0 .. 3]
      /\ btb \in [0 .. BTB_ENTRIES - 1 -> BP!BtbEntry]
  BY DEF TypeOK, BP!TypeOK
<1>2. rd_addr' \in BP!Word
  BY TargetsTyped, SameWords DEF Clock, PredictorClock, BP!Clock
<1>3. bht' \in [0 .. BHT_ENTRIES - 1 -> 0 .. 3]
  <2>1. \A n \in 0 .. 3 : BP!CtrNext(n, ex_actual_taken) \in 0 .. 3
    BY DEF BP!CtrNext
  <2>2. QED
    BY <1>1, <2>1 DEF Clock, PredictorClock, BP!Clock
<1>4. btb' \in [0 .. BTB_ENTRIES - 1 -> BP!BtbEntry]
  <2>1. BP!AlignDown(ex_actual_target, 2) \in BP!Word
    BY TargetsTyped, AlignInWord, SameWords
  <2>2. BP!BtbTag(id_ex.pc) \in BP!Word
    <3> DEFINE d == 4 * BTB_ENTRIES
    <3>1. id_ex.pc \in Nat /\ id_ex.pc < Base /\ Base \in Nat /\ d \in Nat /\ d > 0
      BY WordIsBelowBase, PredictorAssumption
    <3>2. BP!BtbTag(id_ex.pc) = id_ex.pc \div d
      BY DEF BP!BtbTag
    <3> HIDE DEF d
    <3>3. id_ex.pc \div d \in Nat /\ id_ex.pc \div d <= id_ex.pc
      <4>1. /\ id_ex.pc \div d \in Nat /\ id_ex.pc % d \in Nat
            /\ id_ex.pc = (d * (id_ex.pc \div d)) + (id_ex.pc % d)
        BY <3>1, Division
      <4>2. ASSUME NEW q \in Nat, NEW e \in Nat, e > 0 PROVE q <= e * q /\ e * q \in Nat
        <5>1. e * q = q + ((e - 1) * q) /\ e - 1 \in Nat
          BY <4>2
        <5>2. ASSUME NEW y \in Nat, NEW z \in Nat PROVE y * z \in Nat
          BY <5>2
        <5>3. (e - 1) * q \in Nat
          BY <5>1, <5>2
        <5>4. QED
          BY <4>2, <5>1, <5>3
      <4>3. id_ex.pc \div d <= d * (id_ex.pc \div d) /\ d * (id_ex.pc \div d) \in Nat
        BY <3>1, <4>1, <4>2
      <4>4. QED
        BY <3>1, <4>1, <4>3
    <3>4. QED
      BY <3>1, <3>2, <3>3, SameWords DEF Word
  <2>3. QED
    BY <1>1, <2>1, <2>2 DEF Clock, PredictorClock, BP!Clock, BP!BtbEntry
<1>5. QED
  BY <1>2, <1>3, <1>4 DEF BP!TypeOK

LEMMA StartTyped == Init => TypeOK
<1> SUFFICES ASSUME Init PROVE TypeOK
  OBVIOUS
<1> USE ConstantsInRange, PlainIsInstruction DEF Init
<1>1. /\ BP!TypeOK /\ pc \in Word
      /\ regs \in [Reg -> Word] /\ dmem \in DataMemory
  BY PowerUpAssumption, SameWords DEF BP!TypeOK
<1>2. fbuf \in FbufType /\ if_id \in IfIdType /\ id_ex \in IdExType
  BY DEF NoFbuf, FbufType, IfIdBubble, IfIdType, IdExBubble, IdExType
<1>3. ex_mem \in ExMemType /\ mem_wb \in MemWbType
  BY DEF ExMemBubble, ExMemType, MemWbBubble, MemWbType
<1>4. mem_rdata0 \in Beat
  <2>1. 0 \in Byte
    BY LsuAssumption DEF Byte
  <2>2. QED
    BY <2>1 DEF Beat
<1>5. mul \in MulType
  BY DEF MulInit, MulReset, MulType, MulOp
<1>6. div \in DivType
  <2>1. 0 \in 0 .. XLEN - 1 /\ 0 \in 0 .. 2 * Base - 1
    BY XLENAssumption, WordIsBelowBase
  <2>2. QED
    BY <2>1 DEF DivInit, DivReset, DivType
<1>7. csr \in Csr!CsrType
  <2>1. 0 \in Csr!Counter
    BY CsrAssumption DEF Csr!Counter
  <2>2. QED
    BY <2>1, SameWords DEF Csr!CsrInit, Csr!CsrReset, Csr!CsrType
<1>8. QED
  BY <1>1, <1>2, <1>3, <1>4, <1>5, <1>6, <1>7 DEF TypeOK

LEMMA ClockTyped == ASSUME TypeOK, Clock PROVE TypeOK'
<1>1. /\ prog' \in Programs
      /\ imem_wait' \in ImemWaits /\ dmem_wait' \in DmemWaits /\ mip_in' \in MipValues
  BY DEF TypeOK, Clock, Pins
<1>2. QED
  BY <1>1, FrontTyped, BackTyped, StorageTyped, UnitsTyped, CsrTyped, PredictorTyped DEF TypeOK

LEMMA TypeOKNext == TypeOK /\ [Next]_vars => TypeOK'
<1>1. ASSUME TypeOK, UNCHANGED vars PROVE TypeOK'
  BY <1>1 DEF vars, pins, pipeline, TypeOK, BP!TypeOK
<1>2. QED
  BY <1>1, ClockTyped DEF Next

(* Every register of the pipeline holds a value of its width, and a stage  *)
(* that holds no instruction holds the bubble, at every clock (the clocked *)
(* blocks of rv32imc_top.v and of the modules it instantiates).            *)
THEOREM Types == Spec => []TypeOK
BY StartTyped, TypeOKNext, PTL DEF Spec

-----------------------------------------------------------------------------
(* Every address the pipeline fetches from is even. *)

Even(w) == w % 2 = 0

EvenInv == /\ Even(pc) /\ Even(fbuf.pc) /\ Even(fbuf.pred_target)
           /\ Even(if_id.pc) /\ Even(if_id.pred_target) /\ Even(id_ex.pc)
           /\ Even(csr.mtvec) /\ Even(csr.mepc)

LEMMA EvenSum ==
    ASSUME NEW x \in Word, NEW y \in Word, Even(x), Even(y) PROVE Even(Trunc(x + y))
<1>1. PICK h \in Nat : h > 0 /\ Base = 2 * h
  BY EvenBase
<1>2. x \in Nat /\ y \in Nat /\ x < Base /\ y < Base /\ Base \in Nat /\ Base > 0
  BY WordIsBelowBase
<1>3. (x + y) % Base \in {x + y, (x + y) - Base}
  BY <1>2, Remainders
<1>4. (x + y) % 2 = 0 /\ ((x + y) - Base) % 2 = 0
  BY <1>1, <1>2 DEF Even
<1>5. QED
  BY <1>3, <1>4 DEF Even, Trunc

LEMMA EvenAlign ==
    ASSUME NEW w \in Word
    PROVE  /\ Even(AlignDown(w, 2)) /\ Even(AlignDown(w, 4))
           /\ Even(w) => AlignDown(w, 2) = w
<1>1. w \in Nat
  BY WordIsBelowBase
<1>2. QED
  BY <1>1 DEF Even, AlignDown

LEMMA EvenNext == ASSUME NEW a \in Word, Even(a), NEW c PROVE Even(NextPc(a, c))
<1>1. PICK h \in Nat : h > 0 /\ Base = 2 * h
  BY EvenBase
<1>2. a \in Nat /\ a < Base /\ Base \in Nat /\ Base > 0
  BY WordIsBelowBase
<1>3. ASSUME NEW n \in {2, 4} PROVE Even(Trunc(a + n))
  <2> DEFINE x == a + n
             q == x \div Base
             r == x % Base
  <2>1. x \in Nat /\ x % 2 = 0
    BY <1>2 DEF Even
  <2>2. q \in Nat /\ r \in Nat /\ x = (Base * q) + r
    BY <1>2, <2>1, Division
  <2> HIDE DEF q, r, x
  <2>3. Base * q = 2 * (h * q) /\ h * q \in Nat
    BY <1>1, <2>2
  <2>4. r % 2 = 0
    BY <2>1, <2>2, <2>3
  <2>5. QED
    BY <2>4 DEF Even, Trunc, x, r
<1>4. QED
  BY <1>3 DEF NextPc

LEMMA EvenTargets ==
    ASSUME TypeOK, EvenInv
    PROVE  /\ Even(fetch_next) /\ Even(BP!pred_target) /\ Even(irq_mepc)
           /\ ex_is_cf => Even(ex_actual_target)
           /\ Even(pc_d)
<1> USE Typed DEF FieldTypes, EvenInv
<1>1. pc \in Word
  BY DEF TypeOK
<1>2. Even(BP!pred_target)
  <2>1. BTB_ENTRIES \in Nat /\ BTB_ENTRIES > 0 /\ rd_addr \in Nat
    BY PredictorAssumption, SameWords, WordIsBelowBase DEF TypeOK, BP!TypeOK
  <2>2. BP!BtbIdx(rd_addr) \in 0 .. BTB_ENTRIES - 1
    BY <2>1 DEF BP!BtbIdx
  <2>3. BP!btb_ent.target \in Word
    BY <2>2, SameWords DEF TypeOK, BP!TypeOK, BP!btb_ent, BP!BtbEntry
  <2>4. QED
    BY <2>3, EvenAlign, SameWords DEF BP!pred_target
<1>3. Even(NextPc(pc, ~pc_half_is32)) /\ Even(Trunc(fbuf.pc + 4)) /\ Even(Trunc(pc + 2))
  BY <1>1, EvenNext DEF NextPc
<1>4. Even(fetch_next)
  BY <1>2, <1>3, FetchTyped, PredictionTyped DEF fetch_next
<1>5. Even(ex_fallthrough) /\ ex_fallthrough \in Word
  BY EvenNext, NextPcInWord DEF ex_fallthrough
<1>6. ex_is_cf => Even(ex_actual_target)
  <2>1. CASE id_ex.instr.kind = "jalr"
    BY <2>1, OperandsTyped, EvenAlign DEF ex_actual_target
  <2>2. CASE id_ex.instr.kind \in {"branch", "jal"}
    <3>1. Even(id_ex.instr.imm) /\ id_ex.instr.imm \in Word
      BY <2>2, InstructionFields DEF OffsetFits, Even
    <3>2. Even(Trunc(id_ex.pc + id_ex.instr.imm))
      BY <3>1, EvenSum
    <3>3. QED
      BY <1>5, <2>2, <3>2 DEF ex_actual_target
  <2>3. QED
    BY <2>1, <2>2 DEF ex_is_cf, IsCf, IsJump
<1>7. Even(ex_target)
  BY <1>5, <1>6 DEF ex_target
<1>8. Even(pc_next)
  BY <1>4, <1>7 DEF pc_next
<1>9. QED
  BY <1>2, <1>4, <1>6, <1>8 DEF pc_d, irq_mepc

LEMMA CsrEven ==
    ASSUME csr \in Csr!CsrType, Even(csr.mtvec), Even(csr.mepc),
           NEW retire, NEW branch, NEW mispredict, NEW trap,
           NEW cause, NEW epc \in Word, Even(epc), NEW tval, NEW mret, NEW we,
           NEW name, NEW wdata, we => wdata \in Word,
           Csr!Clock(retire, branch, mispredict, trap, cause, epc, tval, mret, we, name, wdata)
    PROVE  Even(csr'.mtvec) /\ Even(csr'.mepc)
<1> DEFINE ticked == Csr!Tick(csr, retire, branch, mispredict)
<1>2. ticked.mtvec = csr.mtvec /\ ticked.mepc = csr.mepc /\ DOMAIN ticked = DOMAIN csr
      /\ {"mtvec", "mepc"} \subseteq DOMAIN csr
  BY DEF Csr!Tick, Csr!CsrType
<1> HIDE DEF ticked
<1>3. csr' \in {Csr!TrapEntry(ticked, cause, epc, tval), Csr!MretExit(ticked),
                IF we THEN Csr!CsrWrite(ticked, name, wdata) ELSE ticked, ticked}
  BY DEF Csr!Clock, ticked
<1>4. CASE csr' = Csr!TrapEntry(ticked, cause, epc, tval)
  BY <1>2, <1>4 DEF Csr!TrapEntry
<1>5. CASE csr' = Csr!MretExit(ticked)
  BY <1>2, <1>5 DEF Csr!MretExit
<1>6. CASE csr' = ticked
  BY <1>2, <1>6
<1>7. CASE we /\ csr' = Csr!CsrWrite(ticked, name, wdata)
  <2>1. Even(AlignDown(wdata, 2)) /\ Even(AlignDown(wdata, 4))
    BY <1>7, EvenAlign
  <2>2. QED
    BY <1>2, <1>7, <2>1, SameWords DEF Csr!CsrWrite
<1>8. QED
  BY <1>3, <1>4, <1>5, <1>6, <1>7

LEMMA EvenClock == ASSUME TypeOK, EvenInv, Clock PROVE EvenInv'
<1> USE Typed DEF FieldTypes
<1>1. Even(pc')
  BY EvenTargets DEF Clock, Pc
<1>2. Even(0)
  BY DEF Even
<1>3. Even(fbuf'.pc) /\ Even(fbuf'.pred_target) /\ Even(if_id'.pc) /\ Even(if_id'.pred_target)
  <2>1. CASE FlushFetch
    BY <1>2, <2>1 DEF FlushFetch, NoFbuf, IfIdBubble
  <2>2. CASE DrainFetch \/ HoldFetch
    BY <1>2, <2>2 DEF DrainFetch, HoldFetch, IfIdBubble, EvenInv
  <2>3. CASE CompleteSplit
    BY <1>2, <2>3 DEF CompleteSplit, NoFbuf, EvenInv
  <2>4. CASE SetupSplit
    BY <1>2, <2>4, EvenTargets DEF SetupSplit, IfIdBubble, EvenInv
  <2>5. CASE FetchWhole
    BY <2>5, EvenTargets DEF FetchWhole, EvenInv
  <2>6. QED
    BY <2>1, <2>2, <2>3, <2>4, <2>5 DEF Clock, IfId
<1>4. Even(id_ex'.pc)
  BY <1>2 DEF Clock, IdEx, IdExBubble, EvenInv
<1>5. Even(csr'.mtvec) /\ Even(csr'.mepc)
  <2>1. csr \in Csr!CsrType /\ mip_in \in Word
    BY PinAssumption DEF TypeOK
  <2> DEFINE cause == IF ex_trap THEN ex_trap_cause
                      ELSE Csr!IrqCause(Csr!IrqId(mip_in, csr))
             epc   == IF ex_trap THEN id_ex.pc ELSE irq_mepc
             tval  == IF ex_trap THEN ex_trap_tval ELSE 0
  <2>2. epc \in Word /\ Even(epc)
    BY TargetsTyped, EvenTargets DEF EvenInv
  <2>3. csr_we_ex => csr_wdata \in Word
    BY WrittenTyped
  <2>4. Csr!Clock(mem_wb.valid, ex_tick /\ ex_is_cf, ex_tick /\ ex_misp_raw, trap_valid,
                  cause, epc, tval, ex_mret, csr_we_ex, id_ex.instr.csr, csr_wdata)
    BY DEF Clock, CsrClock
  <2> HIDE DEF cause, epc, tval
  <2>5. QED
    BY <2>1, <2>2, <2>3, <2>4, CsrEven DEF EvenInv
<1>6. QED
  BY <1>1, <1>3, <1>4, <1>5 DEF EvenInv

-----------------------------------------------------------------------------
(* What a stage holds is the code at its address, or what is decoded while *)
(* the instruction port has nothing to show.                               *)

FromMemory(stage) == \/ stage.instr = Code(prog, stage.pc)
                     \/ stage.instr.kind = "illegal"

Fetched == /\ if_id.valid => FromMemory(if_id)
           /\ id_ex.valid => FromMemory(id_ex)

LEMMA FetchedClock == ASSUME TypeOK, Fetched, Clock PROVE Fetched'
<1>1. prog' = prog
  BY DEF Clock
<1>2. if_id'.valid => FromMemory(if_id')
  <2>1. CASE FlushFetch \/ SetupSplit
    BY <2>1 DEF FlushFetch, SetupSplit, IfIdBubble
  <2>2. CASE DrainFetch \/ HoldFetch
    BY <2>2 DEF DrainFetch, HoldFetch, IfIdBubble, Fetched, FromMemory
  <2>3. CASE CompleteSplit
    BY <2>3 DEF CompleteSplit, FromMemory, joined, Junk, Plain
  <2>4. CASE FetchWhole
    BY <2>4 DEF FetchWhole, FromMemory, fetched, Junk, Plain
  <2>5. QED
    BY <2>1, <2>2, <2>3, <2>4 DEF Clock, IfId
<1>3. id_ex'.valid => FromMemory(id_ex')
  BY DEF Clock, IdEx, IdExBubble, Fetched, FromMemory
<1>4. QED
  BY <1>1, <1>2, <1>3 DEF Fetched, FromMemory

\* The BTB is written for a branch or a jump that is taken, where it goes.
LEMMA BtbWritten ==
    ASSUME TypeOK, EvenInv, Fetched, btb_upd_valid
    PROVE  /\ IsCf(Code(prog, id_ex.pc))
           /\ Code(prog, id_ex.pc).kind # "jalr" =>
                 BP!AlignDown(ex_actual_target, 2) = Trunc(id_ex.pc + Code(prog, id_ex.pc).imm)
<1>1. id_ex.valid /\ IsCf(id_ex.instr) /\ ex_is_cf /\ ex_actual_taken
  BY DEF btb_upd_valid, ex_is_cf
<1>2. id_ex.instr = Code(prog, id_ex.pc)
  BY <1>1 DEF Fetched, FromMemory, IsCf, IsJump
<1>3. id_ex.instr.kind # "jalr" => ex_actual_target = Trunc(id_ex.pc + id_ex.instr.imm)
  BY <1>1 DEF ex_actual_taken, IsJump, IsCf, ex_actual_target
<1>4. BP!AlignDown(ex_actual_target, 2) = ex_actual_target
  BY <1>1, EvenTargets, EvenAlign, TargetsTyped, SameWords
<1>5. QED
  BY <1>1, <1>2, <1>3, <1>4

LEMMA BtbClock ==
    ASSUME TypeOK, EvenInv, Fetched, BtbHoldsControlFlow, Clock
    PROVE  BtbHoldsControlFlow'
<1>1. prog' = prog
  BY DEF Clock
<1> DEFINE n0 == BP!BtbIdx(id_ex.pc)
           entry == [valid |-> TRUE, tag |-> BP!BtbTag(id_ex.pc),
                     target |-> BP!AlignDown(ex_actual_target, 2)]
<1>2. CASE ~btb_upd_valid
  <2>1. btb' = btb
    BY <1>2 DEF Clock, PredictorClock, BP!Clock
  <2>2. QED
    BY <1>1, <2>1 DEF BtbHoldsControlFlow
<1>3. CASE btb_upd_valid
  <2>1. btb' = [btb EXCEPT ![n0] = entry]
    BY <1>3 DEF Clock, PredictorClock, BP!Clock
  <2>2. btb \in [0 .. BTB_ENTRIES - 1 -> BP!BtbEntry]
    BY DEF TypeOK, BP!TypeOK
  <2>3. DOMAIN btb' = DOMAIN btb
    BY <2>1
  <2> SUFFICES ASSUME NEW n \in DOMAIN btb, btb'[n].valid
               PROVE  \E a \in Word :
                         /\ BP!BtbIdx(a) = n /\ BP!BtbTag(a) = btb'[n].tag
                         /\ IsCf(Code(prog, a))
                         /\ Code(prog, a).kind # "jalr" =>
                               btb'[n].target = Trunc(a + Code(prog, a).imm)
    BY <1>1, <2>3 DEF BtbHoldsControlFlow
  <2>4. CASE n = n0
    <3>1. btb'[n] = entry
      BY <2>1, <2>4
    <3>2. id_ex.pc \in Word
      BY Typed DEF FieldTypes
    <3>3. QED
      BY <1>3, <2>4, <3>1, <3>2, BtbWritten
  <2>5. CASE n # n0
    <3>1. btb'[n] = btb[n]
      BY <2>1, <2>2, <2>5
    <3>2. QED
      BY <3>1 DEF BtbHoldsControlFlow
  <2>6. QED
    BY <2>4, <2>5
<1>4. QED
  BY <1>2, <1>3

\* The simulation's initial block empties the BTB (branch_pred.v).
BtbStartsEmpty == \A f \in BtbInits : \A n \in DOMAIN f : ~f[n].valid

BtbInv == TypeOK /\ EvenInv /\ Fetched /\ BtbHoldsControlFlow

LEMMA BtbStart == ASSUME BtbStartsEmpty, Init PROVE BtbInv
<1>1. Even(0)
  BY DEF Even
<1>2. EvenInv
  BY <1>1 DEF Init, EvenInv, NoFbuf, IfIdBubble, IdExBubble, Csr!CsrInit, Csr!CsrReset
<1>3. Fetched
  BY DEF Init, Fetched, IfIdBubble, IdExBubble
<1>4. BtbHoldsControlFlow
  BY DEF Init, BtbStartsEmpty, BtbHoldsControlFlow
<1>5. QED
  BY <1>2, <1>3, <1>4, StartTyped DEF BtbInv

LEMMA BtbNext == BtbInv /\ [Next]_vars => BtbInv'
<1>1. ASSUME BtbInv, UNCHANGED vars PROVE BtbInv'
  <2>1. TypeOK'
    BY <1>1, TypeOKNext DEF BtbInv
  <2>2. EvenInv'
    BY <1>1 DEF vars, pipeline, BtbInv, EvenInv
  <2>3. Fetched'
    BY <1>1 DEF vars, pipeline, BtbInv, Fetched, FromMemory
  <2>4. BtbHoldsControlFlow'
    BY <1>1 DEF vars, pipeline, BtbInv, BtbHoldsControlFlow
  <2>5. QED
    BY <2>1, <2>2, <2>3, <2>4 DEF BtbInv
<1>2. ASSUME BtbInv, Clock PROVE BtbInv'
  BY <1>2, ClockTyped, EvenClock, FetchedClock, BtbClock DEF BtbInv
<1>3. QED
  BY <1>1, <1>2 DEF Next

(* From an empty BTB on, every valid entry was left by a branch or a jump   *)
(* of its word, and a direct one's target is where that instruction goes    *)
(* (branch_pred.v: "the BTB only ever holds taken control-flow              *)
(* instructions"; btb_upd_valid of rv32imc_top.v).  Only a prediction for   *)
(* another instruction of the same word can be a false positive.            *)
THEOREM BtbEntries == ASSUME BtbStartsEmpty PROVE Spec => []BtbHoldsControlFlow
<1>1. Init => BtbInv
  BY BtbStart
<1>2. BtbInv => BtbHoldsControlFlow
  BY DEF BtbInv
<1>3. QED
  BY <1>1, <1>2, BtbNext, PTL DEF Spec

=============================================================================
