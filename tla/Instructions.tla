---------------------------- MODULE Instructions ----------------------------
(***************************************************************************)
(* Decoded instructions and the control signals the ID stage derives from  *)
(* them (rtl/rv32imc_top.v, "ID combinational decode").  An instruction is *)
(* a record; its encoding and the RVC expansion are not part of it.        *)
(*   kind     the major opcode, refined to the unit that executes it       *)
(*   op       the operation within the kind                                *)
(*   imm      the immediate; for kind "illegal" it stands for the word     *)
(*   size     2 or 4 bytes of code                                         *)
(*   illegal  a legal opcode with a reserved funct field: the decoder sets *)
(*            id_illegal and keeps the other control signals it has set    *)
(***************************************************************************)
EXTENDS Alu, Lsu, MulDivRef

CONSTANT NREGS      \* architectural registers, x0 included
ASSUME NREGSAssumption == NREGS \in Nat \ {0}

Reg == 0 .. NREGS - 1

Kind == {"op", "opimm", "lui", "auipc", "load", "store", "branch", "jal", "jalr",
         "mul", "div", "csr", "csri", "ecall", "ebreak", "mret", "fence", "illegal"}

LoadOp  == {"lw", "lh", "lhu", "lb", "lbu"}
StoreOp == {"sw", "sh", "sb"}
CsrOp   == {"rw", "rs", "rc"}
CsrName == {"mstatus", "mie", "mtvec", "mscratch", "mepc", "mcause", "mtval", "mip",
            "mcycle", "minstret", "br_exec", "br_misp", "none"}

Fields ==
    [kind : Kind, op : AluOp \cup BranchOp \cup LoadOp \cup StoreOp \cup MulOp
                       \cup DivOp \cup CsrOp \cup {"none"},
     rd : Reg, rs1 : Reg, rs2 : Reg, imm : Word, csr : CsrName,
     size : {2, 4}, illegal : BOOLEAN]

\* The operation is one of its kind's.
OpFits(i) == /\ i.kind \in {"op", "opimm"} => i.op \in AluOp
             /\ i.kind = "branch" => i.op \in BranchOp
             /\ i.kind = "load"   => i.op \in LoadOp
             /\ i.kind = "store"  => i.op \in StoreOp
             /\ i.kind = "mul"    => i.op \in MulOp
             /\ i.kind = "div"    => i.op \in DivOp
             /\ i.kind \in {"csr", "csri"} => i.op \in CsrOp

\* The immediate of a branch and of jal has no bit 0.
OffsetFits(i) == i.kind \in {"branch", "jal"} => i.imm % 2 = 0

Instruction ==
    {i \in Fields : /\ OpFits(i) /\ OffsetFits(i)
                    /\ i.illegal => i.kind \in {"op", "opimm", "load", "store", "jalr"}}

\* The fields an instruction does not use.
Plain == [kind |-> "fence", op |-> "none", rd |-> 0, rs1 |-> 0, rs2 |-> 0,
          imm |-> 0, csr |-> "none", size |-> 4, illegal |-> FALSE]

\* What the decoder makes of fetch data that is not an instruction.
Junk == [Plain EXCEPT !.kind = "illegal", !.size = 2]

IsIllegal(i) == i.illegal \/ i.kind = "illegal"

UsesRs1(i) == i.kind \in {"op", "opimm", "load", "store", "branch", "jalr", "mul", "div", "csr"}
UsesRs2(i) == i.kind \in {"op", "store", "branch", "mul", "div"}

RdWrite(i) == i.kind \in {"op", "opimm", "lui", "auipc", "load", "jal", "jalr",
                          "mul", "div", "csr", "csri"}

MemRead(i)  == i.kind = "load"
MemWrite(i) == i.kind = "store"
IsMem(i)    == MemRead(i) \/ MemWrite(i)
IsCsr(i)    == i.kind \in {"csr", "csri"}
IsMulDiv(i) == i.kind \in {"mul", "div"}
IsJump(i)   == i.kind \in {"jal", "jalr"}
IsCf(i)     == IsJump(i) \/ i.kind = "branch"

\* wb_sel: where the value written to rd comes from.
WbSel(i) == CASE MemRead(i) -> "mem" [] IsJump(i) -> "link" [] IsCsr(i) -> "csr"
              [] OTHER -> "alu"

\* mem_size and mem_unsigned.
MemSize(i) == CASE i.op \in {"lw", "sw"} -> "word"
                [] i.op \in {"lh", "lhu", "sh"} -> "half"
                [] i.op \in {"lb", "lbu", "sb"} -> "byte"
MemUnsigned(i) == i.op \in {"lhu", "lbu"}

\* alu_op, a_sel and b_sel: what the ALU computes in EX.
IdAluOp(i) == CASE i.kind \in {"op", "opimm"} -> i.op
                [] i.kind = "branch" -> BranchAluOp(i.op)
                [] OTHER -> "add"
ASel(i) == CASE i.kind = "auipc" -> "pc" [] i.kind = "lui" -> "zero" [] OTHER -> "rs1"
BSelImm(i) == i.kind \in {"opimm", "load", "store", "jalr", "lui", "auipc"}
=============================================================================
