----------------------------- MODULE MCPipeline -----------------------------
(***************************************************************************)
(* The programs the core is checked on, one family for each question asked *)
(* of the pipeline; a configuration picks the family and the pins that may *)
(* move.                                                                   *)
(***************************************************************************)
EXTENDS MCCore

-----------------------------------------------------------------------------
(***************************************************************************)
(* Every program of four instructions over an alphabet chosen so that each *)
(* instruction may read what any earlier one writes: forwarding distances  *)
(* 1 to 3, load-use, mul/div results.  The data port waits at any clock,   *)
(* for any time, so that a unit's one-clock valid pulse may come while MEM *)
(* is stalled, and the operation starts again.                             *)
(***************************************************************************)
HazardAlphabet == << RType("add", 2, 2, 1),
                     Load("lw", 1, 2, 0), Load("lw", 2, 0, 1), Store("sw", 1, 0, 2),
                     Mul_("mulhsu", 1, 1, 2), Mul_("mul", 2, 2, 1), Div_("rem", 1, 2, 1) >>

HazardPrograms == AllPrograms(4, HazardAlphabet)
HazardLayouts  == [p \in HazardPrograms |-> Layout(Spell(p, HazardAlphabet))]
HazardCode(p, a) == HazardLayouts[p][a]

HazardRegInits == {RegPair(50, 7)}

-----------------------------------------------------------------------------
(***************************************************************************)
(* Control flow against a predictor with a two-entry BTB: 2- and 4-byte    *)
(* branches, jumps and returns that alias, loops that train and mistrain,  *)
(* split fetches predicted taken, and a multiply or a load that inherits   *)
(* a branch's prediction.                                                  *)
(***************************************************************************)
ControlAlphabet == << Compressed(IType("add", 1, 1, -1)),
                      Branch("bne", 1, 0, -4), Compressed(Branch("bne", 1, 0, -2)),
                      Branch("bge", 2, 1, 6), Compressed(Branch("beq", 1, 2, 4)),
                      Jal(2, 6), Compressed(Jalr(0, 2, 0)),
                      Mul_("mulhu", 1, 1, 2), Load("lw", 1, 2, 0) >>

ControlPrograms == AllPrograms(4, ControlAlphabet)
ControlLayouts  == [p \in ControlPrograms |-> Layout(Spell(p, ControlAlphabet))]
ControlCode(p, a) == ControlLayouts[p][a]

ControlRegInits == {RegPair(3, 1)}

-----------------------------------------------------------------------------
(***************************************************************************)
(* Traps, returns, CSR accesses and interrupts.  A preamble sets mtvec,    *)
(* mie and mstatus.MIE; then every program of two instructions of an       *)
(* alphabet; a handler at 32 records mcause and returns.  The interrupt    *)
(* lines change arbitrarily at every clock.                                *)
(***************************************************************************)
TrapAlphabet == << System("ecall"), Compressed(IType("and", 1, 1, 12)), System("mret"),
                   CsrI("rc", 2, "mstatus", 8), CsrR("rs", 1, "mie", 0),
                   Branch("bltu", 1, 2, -4), Load("lw", 1, 0, 0), Illegal(21) >>

Preamble == << CsrR("rw", 0, "mtvec", 2), CsrR("rw", 1, "mie", 1),
               Compressed(Nop), CsrI("rs", 0, "mstatus", 8) >>
Handler  == << CsrR("rs", 1, "mcause", 0), System("mret") >>

TrapPrograms == AllPrograms(2, TrapAlphabet)
TrapLayouts  == [p \in TrapPrograms |->
    LET low  == Layout(Preamble \o Spell(p, TrapAlphabet))
        high == Layout(Handler)
    IN  [a \in Word |-> IF a < 32 THEN low[a] ELSE high[a - 32]]]
TrapCode(p, a) == TrapLayouts[p][a]

TrapRegInits == {RegPair(2^MSI_BIT + 2^MEI_BIT + 2^MTI_BIT, 32)}
TrapMip      == {0, 2^MTI_BIT, 2^MSI_BIT + 2^MTI_BIT + 2^MEI_BIT}

-----------------------------------------------------------------------------
(***************************************************************************)
(* Both memory ports may insert waits at any clock, for any time.  Loads   *)
(* and stores that cross a word, split fetches, forward branches and       *)
(* jumps without a link.  And looping programs for liveness: interrupts    *)
(* that arrive while a divide runs, while a crossing access waits, inside  *)
(* a loop and inside a handler.                                            *)
(***************************************************************************)
WaitAlphabet == << Compressed(IType("add", 1, 1, 2)), RType("sub", 2, 1, 2),
                   Load("lw", 1, 2, 1), Load("lb", 2, 1, 1), Store("sw", 1, 2, 1),
                   Store("sb", 2, 1, 0), Branch("bltu", 2, 1, 8), Jal(0, 6) >>

WaitPrograms == AllPrograms(3, WaitAlphabet)
WaitLayouts  == [p \in WaitPrograms |-> Layout(Spell(p, WaitAlphabet))]
WaitCode(p, a) == WaitLayouts[p][a]

WaitRegInits == {RegPair(9, 14)}

Enable == << CsrR("rw", 0, "mtvec", 2), CsrR("rw", 0, "mie", 1), CsrI("rs", 0, "mstatus", 8) >>

Loops == << << Div_("rem", 1, 2, 1), Jal(0, -4) >>,
            << Load("lw", 1, 2, 1), Mul_("mul", 1, 1, 2), Branch("bge", 1, 0, -8) >>,
            << Compressed(Store("sw", 1, 2, 1)), Jal(0, -2) >>,
            << System("ecall") >> >>

LivePrograms == DOMAIN Loops
LiveLayouts  == [p \in LivePrograms |->
    LET low  == Layout(Enable \o Loops[p])
        high == Layout(<< CsrI("rc", 0, "mie", 8), System("mret") >>)
    IN  [a \in Word |-> IF a < 32 THEN low[a] ELSE high[a - 32]]]
LiveCode(p, a) == LiveLayouts[p][a]

LiveRegInits == {RegPair(2^MSI_BIT + 2^MTI_BIT, 32)}
LiveMip      == {0, 2^MTI_BIT}
=============================================================================
