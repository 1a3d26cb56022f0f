------------------------------ MODULE MCPowerUp ------------------------------
(***************************************************************************)
(* The predictor's memories power up with any contents ("correctness never *)
(* depends on the initial state", branch_pred.v): every instruction may be *)
(* predicted taken, to any address.  One BHT and one BTB entry, every      *)
(* counter value, tag and halfword target in and around the programs.  All *)
(* pairs of an alphabet are for the performance counters: mispredictions,  *)
(* interlocks, multiplies and accesses that cross a word.                  *)
(***************************************************************************)
EXTENDS CoreHistory, MCCore

Snippets == <<
    << Compressed(IType("add", 1, 1, 1)), Jal(1, 6), Compressed(Jal(0, -2)) >>,
    << Branch("beq", 1, 2, 8), Mul_("mul", 2, 1, 2), Compressed(Jalr(2, 1, 0)) >>,
    << Compressed(Nop), Load("lw", 1, 0, 0), Store("sw", 1, 0, 2), System("ecall") >>,
    << Compressed(Nop), Div_("div", 1, 2, 1), Branch("bne", 1, 0, -4) >>,
    << CsrI("rw", 0, "mepc", 8), CsrI("rs", 0, "mstatus", 16), System("mret"), Jal(2, 0) >>,
    << Load("lw", 1, 0, 1), Compressed(IType("add", 2, 1, 1)), Store("sw", 2, 0, 1),
       Mul_("mulh", 1, 1, 2), Compressed(Branch("bge", 1, 2, -4)) >>,
    << Store("sw", 1, 0, 1), Nop, System("ebreak"), Compressed(Nop) >>,
    << Compressed(Jal(1, 6)), Auipc(2, 4), Lui(1, 33), Jalr(1, 1, 0) >>,
    << Store("sw", 2, 0, 1), Branch("bne", 1, 2, 6), Compressed(Jal(1, 4)) >>,
    << Mul_("mul", 1, 1, 2), CsrR("rs", 2, "br_exec", 0), Load("lw", 1, 0, 0),
       Compressed(IType("add", 2, 1, 1)) >> >>

Alphabet == << Branch("bne", 1, 2, 6), Compressed(Jal(1, 4)), Jal(1, 8),
               Load("lw", 1, 0, 1), Store("sw", 2, 0, 1),
               Mul_("mul", 1, 1, 2), CsrR("rs", 2, "br_exec", 0) >>
Pairs == [n \in 1 .. 49 |-> << Alphabet[(n - 1) \div 7 + 1], Alphabet[((n - 1) % 7) + 1] >>]

MCPrograms == DOMAIN (Snippets \o Pairs)
MCLayouts  == [p \in MCPrograms |-> Layout((Snippets \o Pairs)[p])]
MCCode(p, a) == MCLayouts[p][a]

MCRegInits == {RegPair(12, 5)}
AnyBht     == [{0} -> 0 .. 3]
AnyBtb     == [{0} -> [valid : BOOLEAN, tag : 0 .. 3, target : {2 * h : h \in 0 .. 8}]]
=============================================================================
