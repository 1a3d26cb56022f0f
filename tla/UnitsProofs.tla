---------------------------- MODULE UnitsProofs ----------------------------
(***************************************************************************)
(* The ALU and the byte lanes of the core's data path, for words of every   *)
(* size: what MCUnits enumerates on words of four bits.                     *)
(***************************************************************************)
EXTENDS MCUnits, DatapathProofs

(* The ALU's inputs do not change, so its result is the reference's always. *)
AluInv == unit = "alu" => op0 \in AluOp \cup BranchOp /\ a0 \in Word /\ b0 \in Word

LEMMA AluInit_Inv == Init => AluInv
<1> SUFFICES ASSUME Init, unit = "alu" PROVE op0 \in AluOp \cup BranchOp /\ a0 \in Word /\ b0 \in Word
  BY DEF AluInv
<1>1. QED
  BY DEF Init

LEMMA AluNext_Inv == AluInv /\ [Next]_vars => AluInv'
<1> SUFFICES ASSUME AluInv, [Next]_vars, unit' = "alu"
             PROVE  op0' \in AluOp \cup BranchOp /\ a0' \in Word /\ b0' \in Word
  BY DEF AluInv
<1>1. CASE Combinational \/ UNCHANGED vars
  BY <1>1 DEF AluInv, Combinational, vars, history
<1>2. CASE LanesStep \/ MulStep \/ Mul3Step \/ DivStep
  BY <1>2 DEF LanesStep, MulStep, Mul3Step, DivStep
<1>3. QED
  BY <1>1, <1>2 DEF Next

LEMMA AluInvCorrect == AluInv => AluCorrect
<1> SUFFICES ASSUME AluInv, unit = "alu"
             PROVE  IF op0 \in BranchOp
                    THEN BrTakenRaw(op0, Alu(BranchAluOp(op0), a0, b0)) = BranchRef(op0, a0, b0)
                    ELSE Alu(op0, a0, b0) = AluRef(op0, a0, b0)
  BY DEF AluCorrect
<1>1. op0 \in AluOp \cup BranchOp /\ a0 \in Word /\ b0 \in Word
  BY DEF AluInv
<1>2. CASE op0 \in BranchOp
  BY <1>1, <1>2, BranchIsReference
<1>3. CASE op0 \notin BranchOp
  BY <1>1, <1>3, AluIsReference
<1>4. QED
  BY <1>2, <1>3

(* The one-adder data path, the shifters and the bitwise operations of      *)
(* alu.v compute the ten operations and the six branch conditions of the    *)
(* manual, on every pair of operands of every width.                        *)
THEOREM AluTheorem == Spec => []AluCorrect
<1>1. QED
  BY AluInit_Inv, AluNext_Inv, AluInvCorrect, PTL DEF Spec

-----------------------------------------------------------------------------
(* Between the two beats of an access the first word has been written, or   *)
(* read into rdata0; the access itself does not change.                     *)
LanesBusy ==
    /\ Spans(mem0) /\ size \in Size /\ addr \in Word
    /\ phase \in {"request", "done"} /\ xword \in BOOLEAN
    /\ xword = TRUE => NeedXword(size, addr)
    /\ phase = "request" /\ xword = FALSE => mem = mem0
    /\ phase = "request" /\ xword = TRUE =>
          IF write THEN mem = StoreA(mem0, size, addr, data)
                   ELSE mem = mem0 /\ rdata0 = ReadBeat(mem0, BeatAddr(addr, FALSE))
    /\ LanesCorrect
LanesInv == IF unit = "lanes" THEN LanesBusy ELSE phase = "rest"

LEMMA LanesInit_Inv == Init => LanesInv
<1> SUFFICES ASSUME Init PROVE LanesInv
  OBVIOUS
<1>1. CASE unit = "lanes"
  <2>1. LanesInit
    BY <1>1 DEF Init
  <2>2. Spans(mem0)
    BY <2>1, MemoriesAssumption DEF LanesInit, DataMemory, Spans
  <2>3. QED
    BY <1>1, <2>1, <2>2 DEF LanesInv, LanesBusy, LanesInit, LanesCorrect, Size
<1>2. CASE unit # "lanes"
  BY <1>2 DEF Init, LanesRest, LanesInv
<1>3. QED
  BY <1>1, <1>2

LEMMA LanesNext_Inv == LanesInv /\ [Next]_vars => LanesInv'
<1> SUFFICES ASSUME LanesInv, [Next]_vars PROVE LanesInv'
  OBVIOUS
<1>1. CASE UNCHANGED <<unit, lvars>>
  BY <1>1 DEF LanesInv, LanesBusy, LanesCorrect, lvars
<1>2. CASE LanesStep /\ FirstBeat
  <2>1. /\ unit = "lanes" /\ phase = "request" /\ xword = FALSE /\ mem = mem0 /\ NeedXword(size, addr)
        /\ Spans(mem0) /\ size \in Size /\ addr \in Word
    BY <1>2 DEF LanesInv, LanesBusy, LanesStep, FirstBeat
  <2>2. /\ xword' = TRUE /\ phase' = "request" /\ unit' = "lanes"
        /\ UNCHANGED <<mem0, size, uns, addr, data, write>>
    BY <1>2, <2>1 DEF LanesStep, FirstBeat, Access
  <2>3. IF write THEN mem' = StoreA(mem0, size, addr, data)
                 ELSE mem' = mem0 /\ rdata0' = ReadBeat(mem0, BeatAddr(addr, FALSE))
    BY <1>2, <2>1 DEF FirstBeat, StoreBeat, StoreA
  <2>4. QED
    BY <2>1, <2>2, <2>3 DEF LanesInv, LanesBusy, LanesCorrect
<1>3. CASE LanesStep /\ LastBeat
  <2>1. /\ unit = "lanes" /\ phase = "request" /\ Spans(mem0) /\ size \in Size /\ addr \in Word
        /\ xword \in BOOLEAN /\ (xword <=> NeedXword(size, addr))
    BY <1>3 DEF LanesInv, LanesBusy, LanesStep, LastBeat
  <2>2. /\ phase' = "done" /\ xword' = xword /\ unit' = "lanes"
        /\ UNCHANGED <<mem0, size, uns, addr, data, write>>
    BY <1>3, <2>1 DEF LanesStep, LastBeat, Access
  <2>3. CASE write
    <3>1. mem' = WriteBeat(mem, BeatAddr(addr, xword), Strobe(size, addr, xword),
                           WData(data, addr, xword))
      BY <1>3, <2>3 DEF LastBeat, StoreBeat
    <3>2. ASSUME xword = TRUE PROVE mem' = StoreRef(mem0, size, addr, data)
      <4>1. mem = StoreA(mem0, size, addr, data)
        BY <2>1, <2>3, <3>2 DEF LanesInv, LanesBusy
      <4>2. mem' = StoreB(mem, size, addr, data)
        BY <3>1, <3>2 DEF StoreB
      <4>3. QED
        BY <2>1, <4>1, <4>2, StoreInTwoBeats
    <3>3. ASSUME xword = FALSE PROVE mem' = StoreRef(mem0, size, addr, data)
      <4>1. mem = mem0 /\ ~NeedXword(size, addr)
        BY <2>1, <3>3 DEF LanesInv, LanesBusy
      <4>2. mem' = StoreA(mem, size, addr, data)
        BY <2>1, <3>1, <3>3 DEF StoreA
      <4>3. QED
        BY <2>1, <4>1, <4>2, StoreInOneBeat
    <3>4. mem' = StoreRef(mem0, size, addr, data)
      BY <2>1, <3>2, <3>3
    <3>5. QED
      BY <2>1, <2>2, <2>3, <3>4 DEF LanesInv, LanesBusy, LanesCorrect
  <2>4. CASE ~write
    <3>1. mem' = mem /\ mem = mem0
      BY <1>3, <2>1, <2>4 DEF LastBeat, StoreBeat, LanesInv, LanesBusy
    <3>2. result' = LoadData(size, uns, addr, xword, rdata0, ReadBeat(mem, BeatAddr(addr, xword)))
      BY <1>3 DEF LastBeat
    <3>3. ASSUME xword = TRUE PROVE result' = LoadRef(mem0, size, uns, addr)
      <4>1. rdata0 = ReadBeat(mem0, BeatAddr(addr, FALSE))
        BY <2>1, <2>4, <3>3 DEF LanesInv, LanesBusy
      <4>2. QED
        BY <2>1, <3>1, <3>2, <3>3, <4>1, LoadInTwoBeats
    <3>4. ASSUME xword = FALSE PROVE result' = LoadRef(mem0, size, uns, addr)
      BY <2>1, <3>1, <3>2, <3>4, LoadInOneBeat
    <3>5. result' = LoadRef(mem0, size, uns, addr)
      BY <2>1, <3>3, <3>4
    <3>6. QED
      BY <2>1, <2>2, <2>4, <3>1, <3>5 DEF LanesInv, LanesBusy, LanesCorrect
  <2>5. QED
    BY <2>3, <2>4
<1>4. QED
  BY <1>1, <1>2, <1>3
     DEF Next, Combinational, LanesStep, LanesNext, Done, MulStep, Mul3Step, DivStep, vars, lvars

(* A load returns the bytes at its address and a store changes the bytes it *)
(* names and no other (rv32imc_top.v: mem_load_data, mem_strb0, mem_strb1,  *)
(* dmem_wdata): for every width of a byte and every content of the memory,  *)
(* so that loads of either sign are extended, for every size, alignment and *)
(* value, in one beat or in two, at the wrap of the address space too.      *)
THEOREM LanesTheorem == Spec => []LanesCorrect
<1>1. LanesInv => LanesCorrect
  BY DEF LanesInv, LanesBusy, LanesCorrect
<1>2. QED
  BY <1>1, LanesInit_Inv, LanesNext_Inv, PTL DEF Spec
=============================================================================
