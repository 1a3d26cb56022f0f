------------------------------- MODULE MCCore -------------------------------
(***************************************************************************)
(* What the TLC models of the core share: constructors for instructions,   *)
(* the layout of a program in memory, and the scaled machine of 6-bit      *)
(* words, 3-bit bytes, two bytes to a data word and three registers.       *)
(* The instruction side keeps its real geometry: 2- and 4-byte             *)
(* instructions in 4-byte words.                                           *)
(***************************************************************************)
EXTENDS CoreProperties, Sequences, FiniteSetsExt

Compressed(i) == [i EXCEPT !.size = 2]

RType(op, rd, rs1, rs2)   == [Plain EXCEPT !.kind = "op", !.op = op, !.rd = rd, !.rs1 = rs1, !.rs2 = rs2]
IType(op, rd, rs1, imm)   == [Plain EXCEPT !.kind = "opimm", !.op = op, !.rd = rd, !.rs1 = rs1, !.imm = Trunc(imm)]
Mul_(op, rd, rs1, rs2)    == [Plain EXCEPT !.kind = "mul", !.op = op, !.rd = rd, !.rs1 = rs1, !.rs2 = rs2]
Div_(op, rd, rs1, rs2)    == [Plain EXCEPT !.kind = "div", !.op = op, !.rd = rd, !.rs1 = rs1, !.rs2 = rs2]
Load(op, rd, rs1, imm)    == [Plain EXCEPT !.kind = "load", !.op = op, !.rd = rd, !.rs1 = rs1, !.imm = Trunc(imm)]
Store(op, rs2, rs1, imm)  == [Plain EXCEPT !.kind = "store", !.op = op, !.rs2 = rs2, !.rs1 = rs1, !.imm = Trunc(imm)]
Branch(op, rs1, rs2, off) == [Plain EXCEPT !.kind = "branch", !.op = op, !.rs1 = rs1, !.rs2 = rs2, !.imm = Trunc(off)]
Lui(rd, imm)              == [Plain EXCEPT !.kind = "lui", !.rd = rd, !.imm = imm]
Auipc(rd, imm)            == [Plain EXCEPT !.kind = "auipc", !.rd = rd, !.imm = imm]
Jal(rd, off)              == [Plain EXCEPT !.kind = "jal", !.rd = rd, !.imm = Trunc(off)]
Jalr(rd, rs1, imm)        == [Plain EXCEPT !.kind = "jalr", !.rd = rd, !.rs1 = rs1, !.imm = Trunc(imm)]
CsrR(op, rd, name, rs1)   == [Plain EXCEPT !.kind = "csr", !.op = op, !.rd = rd, !.csr = name, !.rs1 = rs1]
CsrI(op, rd, name, imm)   == [Plain EXCEPT !.kind = "csri", !.op = op, !.rd = rd, !.csr = name, !.imm = imm]
System(kind)              == [Plain EXCEPT !.kind = kind]
Illegal(word)             == [Plain EXCEPT !.kind = "illegal", !.imm = word]
Nop                       == IType("add", 0, 0, 0)

\* Address of the k-th instruction of a program laid out from address 0.
Start(code, k) == MapThenSumSet(LAMBDA j : code[j].size, 1 .. k - 1)

\* Instruction memory: the program, then a jump to itself everywhere else.
Layout(code) ==
    LET at == [k \in 1 .. Len(code) |-> Start(code, k)]
    IN  [a \in Word |-> IF \E k \in DOMAIN at : at[k] = a
                        THEN code[CHOOSE k \in DOMAIN at : at[k] = a] ELSE Jal(0, 0)]

\* All programs of n instructions of an alphabet, as sequences of its indices.
AllPrograms(n, alphabet) == [1 .. n -> DOMAIN alphabet]
Spell(p, alphabet)       == [k \in DOMAIN p |-> alphabet[p[k]]]

\* Predictor and memory at power-up, as the simulation initialises them.
ColdBht  == {[i \in 0 .. BHT_ENTRIES - 1 |-> 1]}
ColdBtb  == {[i \in 0 .. BTB_ENTRIES - 1 |-> [valid |-> FALSE, tag |-> 0, target |-> 0]]}
OneMem  == {[a \in 0 .. DBYTES - 1 |-> (a + 3) % BYTE]}
RegPair(x, y) == [r \in Reg |-> CASE r = 0 -> 0 [] r = 1 -> x [] OTHER -> y]

\* Pins: never a wait, a wait at any clock, no interrupt line.
Never   == {FALSE}
MayWait == BOOLEAN
NoIrq   == {0}
=============================================================================
