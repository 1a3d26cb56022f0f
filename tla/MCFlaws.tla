------------------------------- MODULE MCFlaws -------------------------------
(***************************************************************************)
(* Short programs for statements of the source that the design does not    *)
(* keep.  Each configuration picks one program and the pins that matter.   *)
(***************************************************************************)
EXTENDS MCCore

Snippets ==
    [jal      |-> << Jal(1, 8) >>,
     store    |-> << Store("sw", 1, 0, 0), Nop >>,
     storeJal |-> << Store("sw", 1, 0, 0), Jal(1, 8) >>,
     mul      |-> << Mul_("mul", 1, 1, 2), RType("add", 2, 1, 1), Nop >>,
     trap     |-> << CsrI("rs", 0, "mstatus", 8), Nop, Store("sw", 1, 0, 1), System("ecall") >>,
     reserved |-> << [RType("add", 1, 1, 2) EXCEPT !.illegal = TRUE] >>,
     alias    |-> << Compressed(IType("add", 1, 1, -1)), Compressed(Branch("bne", 1, 0, -2)) >>]

MCLayouts    == [p \in DOMAIN Snippets |-> Layout(Snippets[p])]
MCCode(p, a) == MCLayouts[p][a]

JalProgram      == {"jal"}
StoreProgram    == {"store"}
StoreJalProgram == {"storeJal"}
MulProgram      == {"mul"}
TrapProgram     == {"trap"}
ReservedProgram == {"reserved"}
AliasProgram    == {"alias"}

MCRegInits == {RegPair(3, 1)}
=============================================================================
