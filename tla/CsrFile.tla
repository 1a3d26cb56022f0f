------------------------------ MODULE CsrFile ------------------------------
(***************************************************************************)
(* rtl/csr.v: the machine-mode CSRs, trap entry and return, and the        *)
(* performance counters.  mcycle and minstret are 64 bits in two halves    *)
(* and br_exec, br_misp 32 bits in the source; here one counter each,      *)
(* wrapping at CNTMOD (CNTMOD = 1 switches counting off in a run that is   *)
(* not about it).                                                          *)
(***************************************************************************)
EXTENDS Words

CONSTANTS MIE_BIT, MPIE_BIT,            \* mstatus bits 3 and 7
          MSI_BIT, MTI_BIT, MEI_BIT,    \* mip/mie bits 3, 7 and 11
          CNTMOD

VARIABLE csr

Counter == 0 .. CNTMOD - 1

CsrType == [MIE : BOOLEAN, MPIE : BOOLEAN, mie : Word, mtvec : Word, mscratch : Word,
            mepc : Word, mcause : Word, mtval : Word,
            mcycle : Counter, minstret : Counter, br_exec : Counter, br_misp : Counter]

CsrReset == [MIE |-> FALSE, MPIE |-> FALSE, mie |-> 0, mtvec |-> 0, mscratch |-> 0,
             mepc |-> 0, mcause |-> 0, mtval |-> 0,
             mcycle |-> 0, minstret |-> 0, br_exec |-> 0, br_misp |-> 0]

CsrInit == csr = CsrReset

\* Only MIE and MPIE of mstatus exist.
Mstatus(c) == (IF c.MIE THEN 2^MIE_BIT ELSE 0) + (IF c.MPIE THEN 2^MPIE_BIT ELSE 0)

\* Combinational read; an address no register has reads 0.
CsrRead(c, name, mip) ==
    CASE name = "mstatus" -> Mstatus(c)
      [] name = "mip"     -> mip
      [] name = "none"    -> 0
      [] OTHER            -> Trunc(c[name])

\* Software write: mtvec and mepc are aligned, mip and the counters ignore it.
CsrWrite(c, name, w) ==
    CASE name = "mstatus" -> [c EXCEPT !.MIE = Bit(w, MIE_BIT), !.MPIE = Bit(w, MPIE_BIT)]
      [] name = "mtvec"   -> [c EXCEPT !.mtvec = AlignDown(w, 4)]
      [] name = "mepc"    -> [c EXCEPT !.mepc = AlignDown(w, 2)]
      [] name \in {"mie", "mscratch", "mcause", "mtval"} -> [c EXCEPT ![name] = w]
      [] OTHER -> c

TrapEntry(c, cause, epc, tval) ==
    [c EXCEPT !.mepc = epc, !.mcause = cause, !.mtval = tval,
              !.MPIE = c.MIE, !.MIE = FALSE]

MretExit(c) == [c EXCEPT !.MIE = c.MPIE, !.MPIE = TRUE]

Tick(c, retire, branch, mispredict) ==
    LET Inc(n, tick) == IF tick THEN (n + 1) % CNTMOD ELSE n
    IN  [c EXCEPT !.mcycle = Inc(@, TRUE), !.minstret = Inc(@, retire),
                  !.br_exec = Inc(@, branch), !.br_misp = Inc(@, mispredict)]

\* csr_wdata: the read-modify-write of the three CSR operations.
CsrRmw(op, old, mask) == CASE op = "rw" -> mask
                           [] op = "rs" -> Or(old, mask)
                           [] op = "rc" -> AndNot(old, mask)

-----------------------------------------------------------------------------
\* One clock edge: a trap wins over mret, mret over a software write.
Clock(retire, branch, mispredict, trap, cause, epc, tval, mret, we, name, wdata) ==
    LET ticked == Tick(csr, retire, branch, mispredict)
    IN \/ trap /\ csr' = TrapEntry(ticked, cause, epc, tval)
       \/ ~trap /\ mret /\ csr' = MretExit(ticked)
       \/ ~trap /\ ~mret /\ we /\ csr' = CsrWrite(ticked, name, wdata)
       \/ ~trap /\ ~mret /\ ~we /\ csr' = ticked

-----------------------------------------------------------------------------
(* Interrupt selection (rv32imc_top.v): machine external, then software,   *)
(* then timer; other pending bits are not serviced.                        *)
IrqEnabled(mip, c) == {i \in {MSI_BIT, MTI_BIT, MEI_BIT} : Bit(mip, i) /\ Bit(c.mie, i)}

IrqId(mip, c) == CASE MEI_BIT \in IrqEnabled(mip, c) -> 11
                   [] MEI_BIT \notin IrqEnabled(mip, c) /\ MSI_BIT \in IrqEnabled(mip, c) -> 3
                   [] OTHER -> 7

IrqCause(id) == Trunc(2^(XLEN - 1) + id)
=============================================================================
