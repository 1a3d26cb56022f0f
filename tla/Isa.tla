-------------------------------- MODULE Isa --------------------------------
(***************************************************************************)
(* What the core promises: one instruction at a time, in program order,    *)
(* RV32IMC machine mode with direct-mode traps (rtl/rv32imc_top.v header,  *)
(* rtl/csr.v).  There is no pipeline, no predictor and no wait here.  The  *)
(* counters are not architectural state of this specification: reading one *)
(* may return any value.                                                   *)
(***************************************************************************)
EXTENDS Instructions

CONSTANTS Programs, Code(_, _), MipValues, RegInits, MemInits,
          MIE_BIT, MPIE_BIT, MSI_BIT, MTI_BIT, MEI_BIT

VARIABLES prog, pc, regs, mem, csr, mip

vars == <<prog, pc, regs, mem, csr, mip>>

\* The CSR file's operators for software reads and writes.
File == INSTANCE CsrFile WITH CNTMOD <- 1

Init == /\ prog \in Programs /\ regs \in RegInits /\ mem \in MemInits
        /\ mip \in MipValues /\ pc = 0 /\ csr = File!CsrReset

i    == Code(prog, pc)
Rs1  == IF i.rs1 = 0 THEN 0 ELSE regs[i.rs1]
Rs2  == IF i.rs2 = 0 THEN 0 ELSE regs[i.rs2]
Step == Trunc(pc + i.size)

SetReg(v) == regs' = IF i.rd = 0 THEN regs ELSE [regs EXCEPT ![i.rd] = v]

Compute ==
    /\ ~IsIllegal(i) /\ i.kind \in {"op", "opimm", "lui", "auipc", "mul", "div", "fence"}
    /\ CASE i.kind = "op"    -> SetReg(AluRef(i.op, Rs1, Rs2))
         [] i.kind = "opimm" -> SetReg(AluRef(i.op, Rs1, i.imm))
         [] i.kind = "lui"   -> SetReg(i.imm)
         [] i.kind = "auipc" -> SetReg(Trunc(pc + i.imm))
         [] i.kind = "mul"   -> SetReg(MulRef(i.op, Rs1, Rs2))
         [] i.kind = "div"   -> SetReg(DivRef(i.op, Rs1, Rs2))
         [] i.kind = "fence" -> UNCHANGED regs
    /\ pc' = Step
    /\ UNCHANGED <<mem, csr>>

Load == /\ ~IsIllegal(i) /\ i.kind = "load"
        /\ SetReg(LoadRef(mem, MemSize(i), MemUnsigned(i), Trunc(Rs1 + i.imm)))
        /\ pc' = Step
        /\ UNCHANGED <<mem, csr>>

Store == /\ ~IsIllegal(i) /\ i.kind = "store"
         /\ mem' = StoreRef(mem, MemSize(i), Trunc(Rs1 + i.imm), Rs2)
         /\ pc' = Step
         /\ UNCHANGED <<regs, csr>>

Branch == /\ i.kind = "branch"
          /\ pc' = IF BranchRef(i.op, Rs1, Rs2) THEN Trunc(pc + i.imm) ELSE Step
          /\ UNCHANGED <<regs, mem, csr>>

Jump == /\ ~IsIllegal(i) /\ IsJump(i)
        /\ SetReg(Step)
        /\ pc' = IF i.kind = "jal" THEN Trunc(pc + i.imm)
                                   ELSE AlignDown(Trunc(Rs1 + i.imm), 2)
        /\ UNCHANGED <<mem, csr>>

\* Read-modify-write of a CSR; set and clear with a zero mask do not write.
CsrAccess ==
    /\ IsCsr(i)
    /\ \E old \in IF i.csr \in {"mcycle", "minstret", "br_exec", "br_misp"}
                  THEN Word ELSE {File!CsrRead(csr, i.csr, mip)} :
         LET mask == IF i.kind = "csri" THEN i.imm ELSE Rs1
         IN  /\ SetReg(old)
             /\ csr' = IF i.op = "rw" \/ mask # 0
                       THEN File!CsrWrite(csr, i.csr, File!CsrRmw(i.op, old, mask)) ELSE csr
    /\ pc' = Step
    /\ UNCHANGED mem

\* A faulting instruction changes nothing but the trap CSRs and the pc.
Enter(cause, tval) ==
    csr' = [csr EXCEPT !.mepc = pc, !.mcause = cause, !.mtval = tval,
                       !.MPIE = csr.MIE, !.MIE = FALSE]

Trap == /\ \/ IsIllegal(i) /\ Enter(2, i.imm)
           \/ ~IsIllegal(i) /\ i.kind = "ecall"  /\ Enter(11, 0)
           \/ ~IsIllegal(i) /\ i.kind = "ebreak" /\ Enter(3, 0)
        /\ pc' = csr.mtvec
        /\ UNCHANGED <<regs, mem>>

Mret == /\ i.kind = "mret"
        /\ csr' = [csr EXCEPT !.MIE = csr.MPIE, !.MPIE = TRUE]
        /\ pc' = csr.mepc
        /\ UNCHANGED <<regs, mem>>

Execute == Compute \/ Load \/ Store \/ Branch \/ Jump \/ CsrAccess \/ Trap \/ Mret

\* Between two instructions, when an enabled interrupt is pending: external
\* before software before timer.
Pending(line) == Bit(mip, line) /\ Bit(csr.mie, line)

Interrupt == /\ csr.MIE
             /\ \/ Pending(MEI_BIT) /\ Enter(2^(XLEN - 1) + 11, 0)
                \/ ~Pending(MEI_BIT) /\ Pending(MSI_BIT) /\ Enter(2^(XLEN - 1) + 3, 0)
                \/ /\ ~Pending(MEI_BIT) /\ ~Pending(MSI_BIT) /\ Pending(MTI_BIT)
                   /\ Enter(2^(XLEN - 1) + 7, 0)
             /\ pc' = csr.mtvec
             /\ UNCHANGED <<regs, mem>>

\* The interrupt lines belong to the environment and move at any time.
Lines == UNCHANGED <<pc, regs, mem, csr>>

Next == (Execute \/ Interrupt \/ Lines) /\ mip' \in MipValues /\ UNCHANGED prog
Spec == Init /\ [][Next]_vars
=============================================================================
