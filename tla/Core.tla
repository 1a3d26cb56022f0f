-------------------------------- MODULE Core --------------------------------
(***************************************************************************)
(* rtl/rv32imc_top.v: the five-stage pipeline.  The design is synchronous: *)
(* a step is one clock edge, every register takes its next value at once,  *)
(* and the wires are state functions with the names they have in the       *)
(* source.  Pins (imem_wait, dmem_wait, mip_in) are variables that take an *)
(* arbitrary new value at each edge.                                       *)
(*                                                                         *)
(* Fetched data is modelled by the address it was fetched from: Code(p, a) *)
(* is the instruction program p has at address a.  The fields of a stage   *)
(* register whose valid bit is 0 are kept at a fixed value; no wire reads  *)
(* them without its valid bit.                                             *)
(***************************************************************************)
EXTENDS Instructions, Multiplier, Divider

CONSTANTS
    Programs,           \* names of the programs in instruction memory
    Code(_, _),         \* the instruction of a program at an even address
    ImemWaits,          \* values the imem_wait pin may take
    DmemWaits,          \* values the dmem_wait pin may take
    MipValues,          \* values the mip_in pins may take
    RegInits,           \* register contents at power-up
    MemInits,           \* data memory contents at power-up
    BhtInits, BtbInits, \* predictor contents at power-up
    BHT_ENTRIES, BTB_ENTRIES, CNTMOD,
    MIE_BIT, MPIE_BIT, MSI_BIT, MTI_BIT, MEI_BIT

ASSUME PredictorAssumption == BHT_ENTRIES \in Nat \ {0} /\ BTB_ENTRIES \in Nat \ {0}

ASSUME CsrAssumption ==
    /\ {MIE_BIT, MPIE_BIT, MSI_BIT, MTI_BIT, MEI_BIT} \subseteq 0 .. XLEN - 1
    /\ MIE_BIT # MPIE_BIT
    /\ MSI_BIT # MTI_BIT /\ MSI_BIT # MEI_BIT /\ MTI_BIT # MEI_BIT
    /\ CNTMOD \in Nat \ {0}
    /\ 11 < 2^(XLEN - 1)       \* the cause of an interrupt fits under its flag

\* Everything in memory decodes, if only to an illegal instruction.
ASSUME CodeAssumption == \A p \in Programs : \A a \in Word : Code(p, a) \in Instruction

ASSUME PinAssumption == /\ ImemWaits \subseteq BOOLEAN /\ DmemWaits \subseteq BOOLEAN
                        /\ MipValues \subseteq Word

VARIABLES
    prog,                                   \* contents of instruction memory
    imem_wait, dmem_wait, mip_in,           \* pins
    pc, fbuf, if_id, id_ex, ex_mem, mem_wb, \* pipeline registers
    mem_xword, mem_rdata0,                  \* second beat of a crossing access
    ex_muldiv_started,                      \* M-extension units: also mul, div
    csr, regs, bht, btb, rd_addr,
    dmem                                    \* data memory (external)

pins     == <<imem_wait, dmem_wait, mip_in>>
pipeline == <<pc, fbuf, if_id, id_ex, ex_mem, mem_wb, mem_xword, mem_rdata0,
              ex_muldiv_started, mul, div, csr, regs, bht, btb, rd_addr>>
vars     == <<prog, pins, pipeline, dmem>>

BP  == INSTANCE BranchPred
Csr == INSTANCE CsrFile

\* At power-up the memories hold anything of their width.
ASSUME PowerUpAssumption ==
    /\ \A f \in RegInits : f \in [Reg -> Word]
    /\ \A f \in MemInits : f \in DataMemory
    /\ \A f \in BhtInits : f \in [0 .. BHT_ENTRIES - 1 -> 0 .. 3]
    /\ \A f \in BtbInits : f \in [0 .. BTB_ENTRIES - 1 -> BP!BtbEntry]

NoFbuf      == [valid |-> FALSE, pc |-> 0, pred_taken |-> FALSE, pred_target |-> 0]
IfIdBubble  == [valid |-> FALSE, pc |-> 0, instr |-> Plain, is_compressed |-> FALSE,
                pred_taken |-> FALSE, pred_target |-> 0]
IdExBubble  == [valid |-> FALSE, pc |-> 0, instr |-> Plain, is_compressed |-> FALSE,
                rs1_data |-> 0, rs2_data |-> 0, pred_taken |-> FALSE, pred_target |-> 0]
ExMemBubble == [valid |-> FALSE, pc |-> 0, instr |-> Plain, is_compressed |-> FALSE,
                alu_result |-> 0, store_data |-> 0, csr_rdata |-> 0, need_xword |-> FALSE]
MemWbBubble == [valid |-> FALSE, pc |-> 0, rd |-> 0, rd_write |-> FALSE, wdata |-> 0]

NextPc(a, compressed) == Trunc(a + (IF compressed THEN 2 ELSE 4))

-----------------------------------------------------------------------------
(* IF stage *)

\* What the I-port shows at pc: not an instruction while imem_wait is up.
fetched      == IF imem_wait THEN Junk ELSE Code(prog, pc)
pc_half_is32 == fetched.size = 4
need_pending == (pc \div 2) % 2 = 1 /\ pc_half_is32 /\ ~fbuf.valid

\* {imem_rdata[15:0], fbuf}: an instruction when the two halves are adjacent.
joined == IF imem_wait \/ pc # Trunc(fbuf.pc + 2) THEN [Junk EXCEPT !.size = 4]
                                                  ELSE Code(prog, fbuf.pc)

-----------------------------------------------------------------------------
(* MEM and WB stages *)

dmem_en    == ex_mem.valid /\ IsMem(ex_mem.instr)
dmem_addr  == BeatAddr(ex_mem.alu_result, mem_xword)
dmem_wstrb == IF ex_mem.valid /\ MemWrite(ex_mem.instr)
              THEN Strobe(MemSize(ex_mem.instr), ex_mem.alu_result, mem_xword) ELSE {}
dmem_wdata == WData(ex_mem.store_data, ex_mem.alu_result, mem_xword)
dmem_rdata == ReadBeat(dmem, dmem_addr)
dmem_stall == dmem_wait /\ dmem_en

mem_hold      == ex_mem.valid /\ ex_mem.need_xword /\ ~mem_xword
mem_load_data == LoadData(MemSize(ex_mem.instr), MemUnsigned(ex_mem.instr),
                          ex_mem.alu_result, mem_xword, mem_rdata0, dmem_rdata)

ex_mem_link_addr == NextPc(ex_mem.pc, ex_mem.is_compressed)
mem_wdata_sel    == CASE WbSel(ex_mem.instr) = "mem"  -> mem_load_data
                      [] WbSel(ex_mem.instr) = "link" -> ex_mem_link_addr
                      [] WbSel(ex_mem.instr) = "csr"  -> ex_mem.csr_rdata
                      [] WbSel(ex_mem.instr) = "alu"  -> ex_mem.alu_result

rf_we == mem_wb.valid /\ mem_wb.rd_write

\* Register read with the write-first bypass of regfile.v.
RegRead(r) == IF r = 0 THEN 0
              ELSE IF rf_we /\ mem_wb.rd = r THEN mem_wb.wdata ELSE regs[r]

-----------------------------------------------------------------------------
(* EX stage *)

ex_mem_fwd_data == CASE WbSel(ex_mem.instr) = "link" -> ex_mem_link_addr
                     [] WbSel(ex_mem.instr) = "csr"  -> ex_mem.csr_rdata
                     [] OTHER                        -> ex_mem.alu_result

ExMemForwards(r) == /\ ex_mem.valid /\ RdWrite(ex_mem.instr) /\ ~MemRead(ex_mem.instr)
                    /\ ex_mem.instr.rd # 0 /\ ex_mem.instr.rd = r
MemWbForwards(r) == rf_we /\ mem_wb.rd # 0 /\ mem_wb.rd = r

\* Mutant: the older result wins.
ForwardOldest(r, data) == IF MemWbForwards(r) THEN mem_wb.wdata
                          ELSE IF ExMemForwards(r) THEN ex_mem_fwd_data ELSE data
Forward(r, data) == IF ExMemForwards(r) THEN ex_mem_fwd_data
                    ELSE IF MemWbForwards(r) THEN mem_wb.wdata ELSE data

fwd_rs1 == Forward(id_ex.instr.rs1, id_ex.rs1_data)
fwd_rs2 == Forward(id_ex.instr.rs2, id_ex.rs2_data)

alu_a == CASE ASel(id_ex.instr) = "pc"   -> id_ex.pc
           [] ASel(id_ex.instr) = "zero" -> 0
           [] ASel(id_ex.instr) = "rs1"  -> fwd_rs1
alu_b == IF BSelImm(id_ex.instr) THEN id_ex.instr.imm ELSE fwd_rs2
alu_result == Alu(IdAluOp(id_ex.instr), alu_a, alu_b)

ex_is_muldiv        == id_ex.valid /\ IsMulDiv(id_ex.instr)
muldiv_result_valid == \/ id_ex.instr.kind = "mul" /\ mul.valid
                       \/ id_ex.instr.kind = "div" /\ div.valid
ex_muldiv_stall     == ex_is_muldiv /\ ~muldiv_result_valid
muldiv_result       == IF id_ex.instr.kind = "mul" THEN mul.result ELSE div.result
ex_result           == IF ex_is_muldiv THEN muldiv_result ELSE alu_result

need_xword_d == id_ex.valid /\ IsMem(id_ex.instr)
                /\ NeedXword(MemSize(id_ex.instr), ex_result)

imem_wait_eff == imem_wait /\ ~ex_is_muldiv
\* Mutant: a waited request does not hold EX/MEM.
backend_hold_no_dmem == mem_hold \/ imem_wait_eff
backend_hold  == mem_hold \/ dmem_stall \/ imem_wait_eff

\* Control flow, resolved against the prediction made in IF.
br_taken_raw     == id_ex.instr.kind = "branch" /\ BrTakenRaw(id_ex.instr.op, alu_result)
ex_is_cf         == id_ex.valid /\ IsCf(id_ex.instr)
ex_actual_taken  == id_ex.valid /\ (br_taken_raw \/ IsJump(id_ex.instr))
ex_fallthrough   == NextPc(id_ex.pc, id_ex.is_compressed)
ex_actual_target ==
    CASE id_ex.instr.kind = "jalr" -> AlignDown(alu_result, 2)
      [] id_ex.instr.kind = "branch" /\ ~br_taken_raw -> ex_fallthrough
      [] OTHER -> Trunc(id_ex.pc + id_ex.instr.imm)

\* Mutants: a wrong target, or a false positive, goes unnoticed.
ex_misp_direction_only ==
    /\ id_ex.valid
    /\ \/ ex_is_cf /\ ex_actual_taken # id_ex.pred_taken
       \/ ~ex_is_cf /\ id_ex.pred_taken
ex_misp_cf_only ==
    /\ id_ex.valid /\ ex_is_cf
    /\ \/ ex_actual_taken # id_ex.pred_taken
       \/ ex_actual_taken /\ ex_actual_target # id_ex.pred_target
ex_misp_raw ==
    /\ id_ex.valid
    /\ \/ ex_is_cf /\ ex_actual_taken # id_ex.pred_taken
       \/ ex_is_cf /\ ex_actual_taken /\ ex_actual_target # id_ex.pred_target
       \/ ~ex_is_cf /\ id_ex.pred_taken
ex_redirect == ex_misp_raw /\ ~ex_muldiv_stall
ex_target   == IF ex_is_cf THEN ex_actual_target ELSE ex_fallthrough

\* Mutant: a tick at every clock a crossing access holds the instruction.
ex_tick_while_held == id_ex.valid /\ ~ex_muldiv_stall /\ ~dmem_stall /\ ~imem_wait_eff
ex_tick       == id_ex.valid /\ ~ex_muldiv_stall /\ ~mem_hold /\ ~dmem_stall /\ ~imem_wait_eff
bht_upd_valid == ex_tick /\ (ex_is_cf \/ id_ex.pred_taken)
\* Mutant: branches that are not taken allocate too.
btb_upd_untaken == ex_tick /\ ex_is_cf
btb_upd_valid == ex_tick /\ ex_is_cf /\ ex_actual_taken

\* CSR access and traps, all in EX.
csr_rdata == Csr!CsrRead(csr, id_ex.instr.csr, mip_in)
csr_rmask == IF id_ex.instr.kind = "csri" THEN id_ex.instr.imm ELSE fwd_rs1
csr_wdata == Csr!CsrRmw(id_ex.instr.op, csr_rdata, csr_rmask)
csr_we_ex == /\ id_ex.valid /\ IsCsr(id_ex.instr)
             /\ id_ex.instr.op = "rw" \/ csr_rmask # 0

ex_trap == id_ex.valid /\ (IsIllegal(id_ex.instr) \/ id_ex.instr.kind \in {"ecall", "ebreak"})
ex_trap_cause == CASE IsIllegal(id_ex.instr) -> 2
                   [] ~IsIllegal(id_ex.instr) /\ id_ex.instr.kind = "ecall" -> 11
                   [] OTHER -> 3
ex_trap_tval  == IF IsIllegal(id_ex.instr) THEN id_ex.instr.imm ELSE 0
ex_mret       == id_ex.valid /\ id_ex.instr.kind = "mret"

-----------------------------------------------------------------------------
(* Interrupts: drain the pipeline, take the interrupt when it is empty. *)

\* Mutant: the drain also waits for the fetch buffer, which it holds.
pipe_empty_and_fbuf == /\ ~fbuf.valid /\ ~if_id.valid /\ ~id_ex.valid
                       /\ ~ex_mem.valid /\ ~mem_wb.valid
pipe_empty  == ~if_id.valid /\ ~id_ex.valid /\ ~ex_mem.valid /\ ~mem_wb.valid
irq_armed   == Csr!IrqEnabled(mip_in, csr) # {} /\ csr.MIE /\ ~ex_trap
irq_drain   == irq_armed /\ ~pipe_empty
irq_take    == irq_armed /\ pipe_empty
\* Mutant: a pending split fetch is forgotten.
irq_mepc_pc == pc
irq_mepc    == IF fbuf.valid THEN fbuf.pc ELSE pc

trap_valid == ex_trap \/ irq_take
if_flush   == ex_trap \/ ex_mret \/ ex_redirect \/ irq_take

-----------------------------------------------------------------------------
(* ID stage hazards and stalls *)

\* Mutant: store data and second operands are not interlocked.
load_use_stall_rs1_only ==
    /\ if_id.valid /\ id_ex.valid /\ MemRead(id_ex.instr) /\ id_ex.instr.rd # 0
    /\ UsesRs1(if_id.instr) /\ if_id.instr.rs1 = id_ex.instr.rd
load_use_stall ==
    /\ if_id.valid /\ id_ex.valid /\ MemRead(id_ex.instr) /\ id_ex.instr.rd # 0
    /\ \/ UsesRs1(if_id.instr) /\ if_id.instr.rs1 = id_ex.instr.rd
       \/ UsesRs2(if_id.instr) /\ if_id.instr.rs2 = id_ex.instr.rd

csr_stall == /\ if_id.valid /\ (IsCsr(if_id.instr) \/ if_id.instr.kind = "mret")
             /\ id_ex.valid /\ IsCsr(id_ex.instr)

pc_stall == \/ load_use_stall \/ csr_stall \/ ex_muldiv_stall
            \/ mem_hold \/ dmem_stall \/ imem_wait_eff
pc_hold  == pc_stall \/ irq_drain

\* Mutant: a split fetch forgets the prediction latched in its setup cycle.
fetch_next_unpredicted ==
    CASE fbuf.valid   -> Trunc(fbuf.pc + 4)
      [] need_pending -> Trunc(pc + 2)
      [] ~fbuf.valid /\ ~need_pending -> IF BP!pred_taken THEN BP!pred_target
                                         ELSE NextPc(pc, ~pc_half_is32)
fetch_next ==
    CASE fbuf.valid /\ fbuf.pred_taken  -> fbuf.pred_target
      [] fbuf.valid /\ ~fbuf.pred_taken -> Trunc(fbuf.pc + 4)
      [] need_pending -> Trunc(pc + 2)
      [] ~fbuf.valid /\ ~need_pending -> IF BP!pred_taken THEN BP!pred_target
                                         ELSE NextPc(pc, ~pc_half_is32)

pc_next == CASE trap_valid -> csr.mtvec
             [] ~trap_valid /\ ex_mret -> csr.mepc
             [] ~trap_valid /\ ~ex_mret /\ ex_redirect -> ex_target
             [] OTHER -> fetch_next
pc_d == IF if_flush \/ ~pc_hold THEN pc_next ELSE pc

-----------------------------------------------------------------------------
(* The clocked blocks *)

Pc == pc' = pc_d

\* Mutant: a flush keeps the half instruction in fbuf.
FlushFetchKeepsFbuf == if_flush /\ if_id' = IfIdBubble /\ fbuf' = fbuf
FlushFetch == if_flush /\ if_id' = IfIdBubble /\ fbuf' = NoFbuf

\* ID/EX takes the instruction in IF/ID if it can; nothing new is fetched.
DrainFetch == /\ ~if_flush /\ irq_drain
              /\ if_id' = IF pc_stall THEN if_id ELSE IfIdBubble
              /\ fbuf' = fbuf

HoldFetch == ~if_flush /\ ~irq_drain /\ pc_stall /\ UNCHANGED <<if_id, fbuf>>

Fetching == ~if_flush /\ ~pc_hold

CompleteSplit ==
    /\ Fetching /\ fbuf.valid
    /\ if_id' = [valid |-> TRUE, pc |-> fbuf.pc, instr |-> joined, is_compressed |-> FALSE,
                 pred_taken |-> fbuf.pred_taken, pred_target |-> fbuf.pred_target]
    /\ fbuf' = NoFbuf

SetupSplit ==
    /\ Fetching /\ need_pending
    /\ if_id' = IfIdBubble
    /\ fbuf' = [valid |-> TRUE, pc |-> pc, pred_taken |-> BP!pred_taken,
                pred_target |-> BP!pred_target]

FetchWhole ==
    /\ Fetching /\ ~fbuf.valid /\ ~need_pending
    /\ if_id' = [valid |-> TRUE, pc |-> pc, instr |-> fetched,
                 is_compressed |-> ~pc_half_is32,
                 pred_taken |-> BP!pred_taken, pred_target |-> BP!pred_target]
    /\ UNCHANGED fbuf

IfId == FlushFetch \/ DrainFetch \/ HoldFetch \/ CompleteSplit \/ SetupSplit \/ FetchWhole

\* Holds, bubbles and the capture, in the priority order of the source.
IdExFlush == if_flush /\ ~mem_hold
IdExHold  == mem_hold \/ (~if_flush /\ (dmem_stall \/ imem_wait_eff \/ ex_muldiv_stall))

IdEx == id_ex' =
    IF IdExHold THEN id_ex
    ELSE IF IdExFlush \/ load_use_stall \/ csr_stall \/ ~if_id.valid THEN IdExBubble
    ELSE [valid |-> TRUE, pc |-> if_id.pc, instr |-> if_id.instr,
          is_compressed |-> if_id.is_compressed,
          rs1_data |-> RegRead(if_id.instr.rs1), rs2_data |-> RegRead(if_id.instr.rs2),
          pred_taken |-> if_id.pred_taken, pred_target |-> if_id.pred_target]

\* Mutant: a stalled multiply enters MEM at every clock.
ExMemNoMulBubble == ex_mem' =
    IF backend_hold THEN ex_mem
    ELSE IF ~id_ex.valid THEN ExMemBubble
    ELSE [valid |-> TRUE, pc |-> id_ex.pc, instr |-> id_ex.instr,
          is_compressed |-> id_ex.is_compressed, alu_result |-> ex_result,
          store_data |-> fwd_rs2, csr_rdata |-> csr_rdata, need_xword |-> need_xword_d]
ExMem == ex_mem' =
    IF backend_hold THEN ex_mem
    ELSE IF ex_muldiv_stall \/ ~id_ex.valid THEN ExMemBubble
    ELSE [valid |-> TRUE, pc |-> id_ex.pc, instr |-> id_ex.instr,
          is_compressed |-> id_ex.is_compressed, alu_result |-> ex_result,
          store_data |-> fwd_rs2, csr_rdata |-> csr_rdata, need_xword |-> need_xword_d]

MemWb == mem_wb' =
    IF backend_hold THEN mem_wb
    ELSE IF ~ex_mem.valid THEN MemWbBubble
    ELSE [valid |-> TRUE, pc |-> ex_mem.pc, rd |-> ex_mem.instr.rd,
          rd_write |-> RdWrite(ex_mem.instr), wdata |-> mem_wdata_sel]

\* Mutant: the second beat starts although the first one waits.
XwordIgnoresWait ==
    \/ mem_hold /\ mem_xword' = TRUE /\ mem_rdata0' = dmem_rdata
    \/ ~mem_hold /\ mem_xword' = FALSE /\ UNCHANGED mem_rdata0
Xword == \/ (dmem_stall \/ imem_wait_eff) /\ UNCHANGED <<mem_xword, mem_rdata0>>
         \/ /\ ~dmem_stall /\ ~imem_wait_eff /\ mem_hold
            /\ mem_xword' = TRUE /\ mem_rdata0' = dmem_rdata
         \/ /\ ~dmem_stall /\ ~imem_wait_eff /\ ~mem_hold
            /\ mem_xword' = FALSE /\ UNCHANGED mem_rdata0

\* Mutant: a result that was not used is not asked for again.
MulDivStartedForGood == ex_muldiv_started' =
    (~if_flush /\ id_ex.valid /\ (ex_is_muldiv \/ ex_muldiv_started))
MulDivStarted == ex_muldiv_started' =
    CASE if_flush \/ ~id_ex.valid -> FALSE
      [] ~if_flush /\ ex_is_muldiv /\ ~ex_muldiv_started -> TRUE
      [] OTHER -> ex_muldiv_started /\ ~muldiv_result_valid

MulDivUnits ==
    /\ MulClock(ex_is_muldiv /\ id_ex.instr.kind = "mul" /\ ~ex_muldiv_started,
                fwd_rs1, fwd_rs2, id_ex.instr.op, if_flush)
    /\ DivClock(ex_is_muldiv /\ id_ex.instr.kind = "div" /\ ~ex_muldiv_started,
                fwd_rs1, fwd_rs2, id_ex.instr.op, if_flush)

RegFile == regs' = IF rf_we /\ mem_wb.rd # 0
                   THEN [regs EXCEPT ![mem_wb.rd] = mem_wb.wdata] ELSE regs

CsrClock ==
    Csr!Clock(mem_wb.valid, ex_tick /\ ex_is_cf, ex_tick /\ ex_misp_raw,
              trap_valid,
              IF ex_trap THEN ex_trap_cause ELSE Csr!IrqCause(Csr!IrqId(mip_in, csr)),
              IF ex_trap THEN id_ex.pc ELSE irq_mepc,
              IF ex_trap THEN ex_trap_tval ELSE 0,
              ex_mret, csr_we_ex, id_ex.instr.csr, csr_wdata)

PredictorClock ==
    BP!Clock(pc_d, bht_upd_valid, btb_upd_valid, id_ex.pc, ex_actual_taken, ex_actual_target)

\* The memory commits a beat when its wait is down (verify/tb/tb_rv32imc.v).
DataMemoryClock ==
    dmem' = IF dmem_en /\ dmem_wstrb # {} /\ ~dmem_wait
            THEN WriteBeat(dmem, dmem_addr, dmem_wstrb, dmem_wdata) ELSE dmem

Pins == imem_wait' \in ImemWaits /\ dmem_wait' \in DmemWaits /\ mip_in' \in MipValues

Clock ==
    /\ Pc /\ IfId /\ IdEx /\ ExMem /\ MemWb /\ Xword
    /\ MulDivStarted /\ MulDivUnits /\ RegFile /\ CsrClock /\ PredictorClock
    /\ DataMemoryClock /\ Pins /\ UNCHANGED prog

Init ==
    /\ prog \in Programs
    /\ imem_wait \in ImemWaits /\ dmem_wait \in DmemWaits /\ mip_in \in MipValues
    /\ regs \in RegInits /\ dmem \in MemInits /\ bht \in BhtInits /\ btb \in BtbInits
    /\ pc = 0 /\ rd_addr = 0
    /\ fbuf = NoFbuf /\ if_id = IfIdBubble /\ id_ex = IdExBubble
    /\ ex_mem = ExMemBubble /\ mem_wb = MemWbBubble
    /\ mem_xword = FALSE /\ mem_rdata0 = [j \in Lane |-> 0]
    /\ ex_muldiv_started = FALSE /\ MulInit /\ DivInit /\ Csr!CsrInit

Next == Clock
Spec == Init /\ [][Next]_vars
=============================================================================
