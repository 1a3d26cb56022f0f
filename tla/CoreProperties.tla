--------------------------- MODULE CoreProperties ---------------------------
(***************************************************************************)
(* What must be true of the pipeline.                                      *)
(***************************************************************************)
EXTENDS Core

FbufType  == [valid : BOOLEAN, pc : Word, pred_taken : BOOLEAN, pred_target : Word]
IfIdType  == [valid : BOOLEAN, pc : Word, instr : Instruction, is_compressed : BOOLEAN,
              pred_taken : BOOLEAN, pred_target : Word]
IdExType  == [valid : BOOLEAN, pc : Word, instr : Instruction, is_compressed : BOOLEAN,
              rs1_data : Word, rs2_data : Word, pred_taken : BOOLEAN, pred_target : Word]
ExMemType == [valid : BOOLEAN, pc : Word, instr : Instruction, is_compressed : BOOLEAN,
              alu_result : Word, store_data : Word, csr_rdata : Word, need_xword : BOOLEAN]
MemWbType == [valid : BOOLEAN, pc : Word, rd : Reg, rd_write : BOOLEAN, wdata : Word]
MulType   == [busy : BOOLEAN, valid : BOOLEAN, result : Word,
              a_r : Word, b_r : Word, op_r : MulOp]
DivType   == [state : {"idle", "busy", "done"}, busy : BOOLEAN, valid : BOOLEAN,
              result : Word, count : 0 .. XLEN - 1, divisor_r : Word,
              rem_r : 0 .. 2 * Base - 1, quot_r : Word,
              dividend_neg : BOOLEAN, divisor_neg : BOOLEAN,
              is_rem : BOOLEAN, is_signed : BOOLEAN, fast_done : BOOLEAN]

(* Every register holds a value of its width; a stage whose valid bit is 0 *)
(* holds the bubble.                                                       *)
TypeOK ==
    /\ prog \in Programs
    /\ imem_wait \in ImemWaits /\ dmem_wait \in DmemWaits /\ mip_in \in MipValues
    /\ pc \in Word /\ BP!TypeOK /\ fbuf \in FbufType /\ if_id \in IfIdType
    /\ id_ex \in IdExType /\ ex_mem \in ExMemType /\ mem_wb \in MemWbType
    /\ mem_xword \in BOOLEAN /\ mem_rdata0 \in Beat /\ ex_muldiv_started \in BOOLEAN
    /\ mul \in MulType /\ div \in DivType
    /\ csr \in Csr!CsrType /\ regs \in [Reg -> Word] /\ dmem \in DataMemory
    /\ ~if_id.valid => if_id = IfIdBubble
    /\ ~id_ex.valid => id_ex = IdExBubble
    /\ ~ex_mem.valid => ex_mem = ExMemBubble
    /\ ~mem_wb.valid => mem_wb = MemWbBubble

-----------------------------------------------------------------------------
(* The architectural state the pipeline stands for.  An instruction takes  *)
(* effect when it leaves EX: the state after it is the register file and   *)
(* the data memory overlaid with what MEM and WB have still to write.      *)

absPc == IF id_ex.valid THEN id_ex.pc
         ELSE IF if_id.valid THEN if_id.pc
         ELSE IF fbuf.valid THEN fbuf.pc ELSE pc

ex_mem_final == IF MemRead(ex_mem.instr)
                THEN LoadRef(dmem, MemSize(ex_mem.instr), MemUnsigned(ex_mem.instr),
                             ex_mem.alu_result)
                ELSE mem_wdata_sel

absRegs == [r \in Reg |->
    IF r = 0 THEN 0
    ELSE IF ex_mem.valid /\ RdWrite(ex_mem.instr) /\ ex_mem.instr.rd = r THEN ex_mem_final
    ELSE IF rf_we /\ mem_wb.rd = r THEN mem_wb.wdata
    ELSE regs[r]]

absMem == IF ex_mem.valid /\ MemWrite(ex_mem.instr)
          THEN StoreRef(dmem, MemSize(ex_mem.instr), ex_mem.alu_result, ex_mem.store_data)
          ELSE dmem

absCsr == [csr EXCEPT !.mcycle = 0, !.minstret = 0, !.br_exec = 0, !.br_misp = 0]

\* x0 is 0 whatever the register file powers up with.
Machine == INSTANCE Isa WITH pc <- absPc, regs <- absRegs, mem <- absMem,
                             csr <- absCsr, mip <- mip_in,
                             RegInits <- {[f EXCEPT ![0] = 0] : f \in RegInits}

(* The pipeline executes the instruction set: whatever the hazards, stalls, *)
(* predictions, traps and interrupts, what it does is one instruction after *)
(* the other (rtl/rv32imc_top.v, whole file).                               *)
ImplementsIsa == Machine!Spec

-----------------------------------------------------------------------------
(* Where the promise holds.  The statements at the end of this module name *)
(* what the design does not keep; these are the states just before it.     *)

\* The I-port does not wait at the clock a unit's result lets the front end go.
PortsSeparate == imem_wait /\ ex_is_muldiv => ex_muldiv_stall

\* What a wait on either port flushes from ID/EX writes no register.
RedirectsRetire ==
    (dmem_stall \/ imem_wait_eff) /\ ~mem_hold /\ ex_redirect
        => \/ ex_trap \/ ex_mret \/ id_ex.instr.kind = "branch"
           \/ IsJump(id_ex.instr) /\ id_ex.instr.rd = 0

\* An instruction that stays in EX does not write a CSR, trap or return.
NoTrapHeld == id_ex.valid => /\ mem_hold => ~ex_trap /\ ~ex_mret
                             /\ backend_hold => ~csr_we_ex

\* The program has no reserved encoding with a legal opcode.
NoReserved == id_ex.valid => ~id_ex.instr.illegal

Orderly == PortsSeparate /\ RedirectsRetire /\ NoTrapHeld /\ NoReserved

-----------------------------------------------------------------------------
(* Front end *)

PredictedNext(stage) == IF stage.pred_taken THEN stage.pred_target
                        ELSE NextPc(stage.pc, stage.is_compressed)
Front == IF fbuf.valid THEN fbuf.pc ELSE pc

(* The two halves of a split fetch are adjacent: while the first half waits *)
(* in fbuf, pc addresses the word that holds the second (rv32imc_top.v, IF  *)
(* stage), whatever stall, drain or redirect happens in between.            *)
SplitFetchContiguous == fbuf.valid => pc = Trunc(fbuf.pc + 2)

(* What is fetched after an instruction is what was predicted to follow it: *)
(* the prediction an instruction carries to EX describes the instruction    *)
(* behind it, so comparing it with the outcome decides exactly whether the  *)
(* younger instructions are on the right path.  Behind a crossing access    *)
(* the instruction in EX may have redirected already and be held in EX; a   *)
(* multiply that did so starts again.                                       *)
MayHaveRedirected == \/ ex_mem.valid /\ ex_mem.need_xword
                     \/ ex_is_muldiv /\ id_ex.pred_taken

FetchFollowsPrediction ==
    /\ if_id.valid => Front = PredictedNext(if_id)
    /\ id_ex.valid /\ if_id.valid => if_id.pc = PredictedNext(id_ex)
    /\ id_ex.valid /\ ~if_id.valid => \/ Front = PredictedNext(id_ex)
                                     \/ MayHaveRedirected

(* "The BTB only ever holds taken control-flow instructions"                *)
(* (branch_pred.v): every valid entry was left by a branch or a jump of its *)
(* word, and the target of a direct one is where that instruction goes.     *)
BtbHoldsControlFlow ==
    \A n \in DOMAIN btb : btb[n].valid =>
        \E a \in Word :
            /\ BP!BtbIdx(a) = n /\ BP!BtbTag(a) = btb[n].tag
            /\ IsCf(Code(prog, a))
            /\ Code(prog, a).kind # "jalr" =>
                  btb[n].target = Trunc(a + Code(prog, a).imm)

-----------------------------------------------------------------------------
(* Back end *)

(* A load's destination is never wanted in EX while the load is in MEM: its *)
(* data cannot be forwarded from there (load_use_stall).                    *)
NoLoadUseInEx ==
    ~ /\ id_ex.valid /\ ex_mem.valid /\ MemRead(ex_mem.instr) /\ ex_mem.instr.rd # 0
      /\ \/ UsesRs1(id_ex.instr) /\ id_ex.instr.rs1 = ex_mem.instr.rd
         \/ UsesRs2(id_ex.instr) /\ id_ex.instr.rs2 = ex_mem.instr.rd

(* A unit runs only for the multiply or divide in EX: nothing a flush or a  *)
(* restart leaves behind can be taken for a later instruction's result.     *)
UnitsServeEx ==
    /\ mul.busy \/ mul.valid => id_ex.valid /\ id_ex.instr.kind = "mul" /\ mul.op_r = id_ex.instr.op
    /\ div.busy \/ div.valid => id_ex.valid /\ id_ex.instr.kind = "div"
    /\ ex_muldiv_started <=> mul.busy \/ mul.valid \/ div.busy \/ div.valid

DataRequest == <<dmem_en, dmem_addr, dmem_wstrb, dmem_wdata>>

(* While a data request waits it is held, neither dropped nor changed       *)
(* ("dmem_en/addr/wdata/wstrb stay stable", dmem_stall).                    *)
RequestHeld == [][dmem_stall => DataRequest' = DataRequest]_vars

-----------------------------------------------------------------------------
(* Liveness.  The clock ticks, and both ports are ready together again and  *)
(* again: the testbench's wait generators all end their waits, and a port   *)
(* that is ready stays ready while the pipeline holds its request.          *)

PortsReady == []<>(~imem_wait /\ ~dmem_wait)
LiveSpec   == Spec /\ WF_vars(Next) /\ PortsReady

(* A pending interrupt that is enabled and stays pending is taken, or       *)
(* something the program does (a trap, a write to mstatus or mie) disables  *)
(* it: the drain always ends (irq_drain, irq_take).                         *)
IrqEnabledAndPending == csr.MIE /\ Csr!IrqEnabled(mip_in, csr) # {}
InterruptServed == IrqEnabledAndPending ~> ~IrqEnabledAndPending

(* The pipeline never locks up: again and again an instruction leaves EX or *)
(* an interrupt is taken (pc_stall, backend_hold, ex_muldiv_started).       *)
Progress == []<>(ex_tick \/ irq_take)

-----------------------------------------------------------------------------
(* Statements of the source that the design does not keep. *)

(* An instruction in EX is never lost: it stays or goes on to MEM.  A       *)
(* "redirecting/trapping/mret instruction in EX has to retire" under an     *)
(* instruction-port wait, and the data-port stalls "win over a flush, the   *)
(* EX instruction is held in ID/EX and re-resolves after"                   *)
(* (rv32imc_top.v, comment at backend_hold).                                *)
ExInstructionSurvives ==
    [][id_ex.valid => id_ex' = id_ex \/ (ex_mem'.valid /\ ex_mem'.pc = id_ex.pc)]_vars

(* Masking imem_wait during a mul/div is safe "because pc_stall covers      *)
(* ex_muldiv_stall" (rv32imc_top.v, comment at imem_wait_eff): nothing is   *)
(* captured from the I-port while it waits.                                 *)
NoFetchWhileWaiting ==
    [][imem_wait /\ if_id'.valid => if_id' = if_id]_vars

(* "exactly-once semantics": an instruction held in EX "re-resolves after"  *)
(* (rv32imc_top.v, comment at backend_hold), so it changes no CSR before:   *)
(* it neither enters a trap nor writes the CSR it will read when it leaves. *)
HeldInstructionKeepsCsrs ==
    [][id_ex.valid /\ IdExHold => absCsr' = absCsr]_vars

(* "Trap faulting instructions flow through harmlessly: no rd write"        *)
(* (rv32imc_top.v, comment at the EX/MEM register).                         *)
FaultingInstructionIsHarmless ==
    ex_mem.valid /\ IsIllegal(ex_mem.instr)
        => ~RdWrite(ex_mem.instr) /\ ~MemWrite(ex_mem.instr)

(* A store is committed once ("exactly-once commit", test_wait_soc.S): the  *)
(* beat the memory has taken is not presented to it again.                  *)
StoreBeatCommitsOnce ==
    [][dmem_en /\ dmem_wstrb # {} /\ ~dmem_wait
          => ~(ex_mem' = ex_mem /\ mem_xword' = mem_xword)]_vars

(* 0x7C0 counts "control-flow insns resolved in EX", 0x7C1 "... of which    *)
(* mispredicted" (csr.v).                                                   *)
MispredictsAreBranches == csr.br_misp <= csr.br_exec
=============================================================================
