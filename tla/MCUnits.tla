------------------------------ MODULE MCUnits ------------------------------
(***************************************************************************)
(* The units of the data path, one at a time: a behaviour picks a unit and *)
(* the others rest.  Words have four bits, and four one-bit bytes, as many *)
(* as the core's words have.  The ALU gets every operand, the byte lanes   *)
(* every access to a few contents of the memory, and the multipliers and   *)
(* the divider the operands of Operands.                                   *)
(***************************************************************************)
EXTENDS DecoderSpec, LsuSpec, MultiplierSpec, Multiplier3, DividerSpec

CONSTANTS Operands, Operands3

\* Memories that are all alike, have one odd byte at either end of a word, or
\* alternate: the value of Memories in the configuration.
Patterns == { [x \in 0 .. DBYTES - 1 |-> IF x \in s THEN 1 ELSE 0] :
                 s \in {{}, {0}, {3}, {4}, {7}, {0, 2, 5, 7}, {1, 3, 4, 6}, 0 .. 7} }

VARIABLE unit

\* The ALU's operation and operands are op0, a0 and b0; the decoder's input is
\* a0, and for a compressed instruction b0 fills the halfword behind it.
history == <<op0, a0, b0, age>>
vars    == <<unit, history, mul, mul3, div, lvars>>

LanesRest == /\ mem = <<>> /\ mem0 = <<>> /\ size = "byte" /\ uns = FALSE /\ addr = 0
             /\ data = 0 /\ write = FALSE /\ xword = FALSE /\ rdata0 = <<>>
             /\ result = 0 /\ phase = "rest"

UnitsRest == MulInit /\ Mul3Init /\ DivInit

Init ==
    \/ /\ unit = "alu" /\ op0 \in AluOp \cup BranchOp /\ a0 \in Word /\ b0 \in Word
       /\ age = 0 /\ UnitsRest /\ LanesRest
    \/ /\ \/ unit = "rvc" /\ a0 \in Halfwords /\ b0 \in {0, 1}
          \/ unit = "word" /\ a0 \in Words32 \cup ReservedWords32 /\ b0 = 0
       /\ op0 = "add" /\ age = 0 /\ UnitsRest /\ LanesRest
    \/ /\ unit = "lanes" /\ LanesInit
       /\ op0 = "add" /\ a0 = 0 /\ b0 = 0 /\ age = 0 /\ UnitsRest
    \/ unit = "mul" /\ MulSpecInit /\ Mul3Init /\ DivInit /\ LanesRest
    \/ unit = "mul3" /\ Mul3SpecInit /\ MulInit /\ DivInit /\ LanesRest
    \/ unit = "div" /\ DivSpecInit /\ MulInit /\ Mul3Init /\ LanesRest

Combinational == unit \in {"alu", "rvc", "word"} /\ UNCHANGED vars
LanesStep == unit = "lanes" /\ LanesNext /\ UNCHANGED <<unit, history, mul, mul3, div>>
MulStep   == /\ unit = "mul" /\ UNCHANGED <<unit, mul3, div, lvars>>
             /\ MulRunOn(Operands) \/ MulWait \/ MulFlush
Mul3Step  == /\ unit = "mul3" /\ UNCHANGED <<unit, mul, div, lvars>>
             /\ Mul3RunOn(Operands3) \/ Mul3Wait \/ Mul3Flush
DivStep   == /\ unit = "div" /\ UNCHANGED <<unit, mul, mul3, lvars>>
             /\ DivRunOn(Operands) \/ DivWait \/ DivFlush

Next == Combinational \/ LanesStep \/ MulStep \/ Mul3Step \/ DivStep
Spec == Init /\ [][Next]_vars

(* The one-adder datapath of alu.v computes every operation; the signed and *)
(* the unsigned comparison hold for operands whose difference overflows,    *)
(* and a branch decided from the zero flag or bit 0 of SUB, SLT or SLTU is  *)
(* the comparison its name says (rv32imc_top.v, br_taken_raw).              *)
AluCorrect ==
    unit = "alu" =>
        IF op0 \in BranchOp
        THEN BrTakenRaw(op0, Alu(BranchAluOp(op0), a0, b0)) = BranchRef(op0, a0, b0)
        ELSE Alu(op0, a0, b0) = AluRef(op0, a0, b0)

(* Every 16-bit encoding expands to the instruction the manual says it      *)
(* stands for, whatever halfword is fetched behind it, and every            *)
(* instruction gets the control signals the pipeline model gives it,        *)
(* reserved encodings included (compressed_decoder.v, and the ID stage of   *)
(* rv32imc_top.v).  All but C.EBREAK, which expands to the word of ECALL.   *)
DecodeCorrect ==
    /\ unit = "rvc" /\ a0 # C_EBREAK => DecodesTo(FetchedHalf(a0, b0), Rvc(a0))
    /\ unit = "word" => DecodesTo(Encoding(a0), a0)
=============================================================================
