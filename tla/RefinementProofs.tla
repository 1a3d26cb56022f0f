--------------------------- MODULE RefinementProofs ---------------------------
(***************************************************************************)
(* The pipeline implements the instruction set: every clock is one         *)
(* instruction, one interrupt or nothing, for every program, every word    *)
(* size, every prediction and every behaviour of the ports, as long as the *)
(* situations Orderly excludes do not come up.                             *)
(***************************************************************************)
EXTENDS PipelineProofs, MulDivProofs

-----------------------------------------------------------------------------
(* The instruction set's operators are those of the core. *)

LEMMA SameFields ==
    /\ \A x : Machine!Trunc(x) = Trunc(x)
    /\ \A x, n : Machine!AlignDown(x, n) = AlignDown(x, n)
    /\ \A x, n : Machine!Bit(x, n) = Bit(x, n)
    /\ \A x : /\ Machine!IsIllegal(x) = IsIllegal(x) /\ Machine!IsCsr(x) = IsCsr(x)
              /\ Machine!IsJump(x) = IsJump(x)
              /\ Machine!MemSize(x) = MemSize(x) /\ Machine!MemUnsigned(x) = MemUnsigned(x)
BY DEF Machine!Trunc, Trunc, Machine!Base, Base, Machine!AlignDown, AlignDown, Machine!Bit, Bit,
       Machine!IsIllegal, IsIllegal, Machine!IsCsr, IsCsr, Machine!IsJump, IsJump,
       Machine!MemSize, MemSize, Machine!MemUnsigned, MemUnsigned

LEMMA SameMulDiv ==
    \A op, a, b : Machine!MulRef(op, a, b) = MulRef(op, a, b) /\ Machine!DivRef(op, a, b) = DivRef(op, a, b)
BY DEF Machine!MulRef, MulRef, Machine!DivRef, DivRef, Machine!Trunc, Trunc, Machine!Base, Base,
       Machine!Signed, Signed, Machine!Msb, Msb, Machine!AbsVal, AbsVal

LEMMA SameBranch ==
    \A op, a, b : Machine!BranchRef(op, a, b) = BranchRef(op, a, b)
BY DEF Machine!BranchRef, BranchRef, Machine!Base, Base, Machine!Signed, Signed, Machine!Msb, Msb

LEMMA SameBits ==
    /\ \A S : Machine!FromBits(S) = FromBits(S)
    /\ \A a : Machine!Bits(a) = Bits(a)
    /\ \A a, b : Machine!And(a, b) = And(a, b) /\ Machine!Or(a, b) = Or(a, b)
                 /\ Machine!Xor(a, b) = Xor(a, b) /\ Machine!AndNot(a, b) = AndNot(a, b)
<1>1. \A S : Machine!FromBits(S) = FromBits(S)
  BY DEF Machine!FromBits, FromBits, Machine!SumBelow, SumBelow
<1>2. \A a : Machine!Bits(a) = Bits(a)
  BY DEF Machine!Bits, Bits, Machine!Bit, Bit
<1>3. QED
  BY <1>1, <1>2 DEF Machine!And, And, Machine!Or, Or, Machine!Xor, Xor, Machine!AndNot, AndNot

LEMMA SameAlu ==
    ASSUME NEW op, NEW a, NEW b PROVE Machine!AluRef(op, a, b) = AluRef(op, a, b)
<1>1. /\ Machine!Shamt(b) = Shamt(b) /\ Machine!Signed(a) = Signed(a)
      /\ Machine!Signed(b) = Signed(b) /\ Machine!Msb(a) = Msb(a)
      /\ \A x : Machine!Trunc(x) = Trunc(x) /\ Machine!Flag(x) = Flag(x)
  BY DEF Machine!Shamt, Shamt, Machine!Signed, Signed, Machine!Msb, Msb, Machine!Base, Base,
         Machine!Trunc, Trunc, Machine!Flag, Flag
<1>2. /\ Machine!Bits(a) = Bits(a) /\ \A S : Machine!FromBits(S) = FromBits(S)
      /\ Machine!And(a, b) = And(a, b) /\ Machine!Xor(a, b) = Xor(a, b)
      /\ Machine!AndNot(a, b) = AndNot(a, b)
  BY SameBits
<1>3. QED
  BY <1>1, <1>2 DEF Machine!AluRef, AluRef

LEMMA SameMemory ==
    /\ \A m, size, uns, addr : Machine!LoadRef(m, size, uns, addr) = LoadRef(m, size, uns, addr)
    /\ \A m, size, addr, data : Machine!StoreRef(m, size, addr, data) = StoreRef(m, size, addr, data)
BY DEF Machine!LoadRef, LoadRef, Machine!StoreRef, StoreRef, Machine!NBytes, NBytes,
       Machine!ByteOf, ByteOf, Machine!FromBytes, FromBytes, Machine!SumBelow, SumBelow,
       Machine!Trunc, Trunc, Machine!Base, Base

-----------------------------------------------------------------------------
(* The CSR file: what a clock does to the registers that are architectural. *)

Hidden(c) == [c EXCEPT !.mcycle = 0, !.minstret = 0, !.br_exec = 0, !.br_misp = 0]

\* What a trap or an interrupt writes, and what mret writes.
Entered(c, cause, epc, tval) ==
    [c EXCEPT !.mepc = epc, !.mcause = cause, !.mtval = tval, !.MPIE = c.MIE, !.MIE = FALSE]
Returned(c) == [c EXCEPT !.MIE = c.MPIE, !.MPIE = TRUE]

LEMMA SameCsr ==
    /\ Machine!File!CsrReset = Csr!CsrReset
    /\ \A op, old, mask : Machine!File!CsrRmw(op, old, mask) = Csr!CsrRmw(op, old, mask)
    /\ \A c, name, w : Machine!File!CsrWrite(c, name, w) = Csr!CsrWrite(c, name, w)
    /\ \A c, name, m : Machine!File!CsrRead(c, name, m) = Csr!CsrRead(c, name, m)
BY DEF Machine!File!CsrReset, Csr!CsrReset, Machine!File!CsrRmw, Csr!CsrRmw,
       Machine!File!CsrWrite, Csr!CsrWrite, Machine!File!CsrRead, Csr!CsrRead,
       Machine!File!Mstatus, Csr!Mstatus, Machine!File!Trunc, Csr!Trunc, Machine!File!Base, Csr!Base,
       Machine!File!Bit, Csr!Bit, Machine!File!AlignDown, Csr!AlignDown,
       Machine!File!Or, Csr!Or, Machine!File!AndNot, Csr!AndNot,
       Machine!File!FromBits, Csr!FromBits, Machine!File!SumBelow, Csr!SumBelow,
       Machine!File!Bits, Csr!Bits

LEMMA HiddenTick ==
    ASSUME NEW c \in Csr!CsrType, NEW retire, NEW branch, NEW mispredict
    PROVE  Hidden(Csr!Tick(c, retire, branch, mispredict)) = Hidden(c)
BY DEF Hidden, Csr!Tick, Csr!CsrType

LEMMA HiddenTrap ==
    ASSUME NEW c \in Csr!CsrType, NEW retire, NEW branch, NEW mispredict,
           NEW cause, NEW epc, NEW tval
    PROVE  Hidden(Csr!TrapEntry(Csr!Tick(c, retire, branch, mispredict), cause, epc, tval))
               = Entered(Hidden(c), cause, epc, tval)
<1>1. Csr!TrapEntry(Csr!Tick(c, retire, branch, mispredict), cause, epc, tval)
          = Entered(Csr!Tick(c, retire, branch, mispredict), cause, epc, tval)
  BY DEF Csr!TrapEntry, Entered
<1>2. Hidden(Entered(Csr!Tick(c, retire, branch, mispredict), cause, epc, tval))
          = Entered(Hidden(c), cause, epc, tval)
  BY DEF Hidden, Entered, Csr!Tick, Csr!CsrType
<1>3. QED
  BY <1>1, <1>2

LEMMA HiddenMret ==
    ASSUME NEW c \in Csr!CsrType, NEW retire, NEW branch, NEW mispredict
    PROVE  Hidden(Csr!MretExit(Csr!Tick(c, retire, branch, mispredict)))
               = Returned(Hidden(c))
BY DEF Hidden, Returned, Csr!Tick, Csr!MretExit, Csr!CsrType

LEMMA HiddenWrite ==
    ASSUME NEW c \in Csr!CsrType, NEW retire, NEW branch, NEW mispredict, NEW name, NEW w
    PROVE  Hidden(Csr!CsrWrite(Csr!Tick(c, retire, branch, mispredict), name, w))
               = Csr!CsrWrite(Hidden(c), name, w)
<1> DEFINE t == Csr!Tick(c, retire, branch, mispredict)
<1>1. CASE name = "mstatus"
  <2> DEFINE Set(x, p, q) == [x EXCEPT !.MIE = p, !.MPIE = q]
  <2>1. \A x : Csr!CsrWrite(x, name, w) = Set(x, Csr!Bit(w, MIE_BIT), Csr!Bit(w, MPIE_BIT))
    BY <1>1 DEF Csr!CsrWrite
  <2>2. ASSUME NEW p, NEW q PROVE Hidden(Set(t, p, q)) = Set(Hidden(c), p, q)
    BY DEF Hidden, Csr!Tick, Csr!CsrType
  <2> HIDE DEF Set
  <2>3. QED
    BY <2>1, <2>2
<1>2. CASE name = "mtvec"
  <2>1. \A x : Csr!CsrWrite(x, name, w) = [x EXCEPT !.mtvec = Csr!AlignDown(w, 4)]
    BY <1>2 DEF Csr!CsrWrite
  <2>2. ASSUME NEW v PROVE Hidden([t EXCEPT !.mtvec = v]) = [Hidden(c) EXCEPT !.mtvec = v]
    BY DEF Hidden, Csr!Tick, Csr!CsrType
  <2>3. QED
    BY <2>1, <2>2
<1>3. CASE name = "mepc"
  <2>1. \A x : Csr!CsrWrite(x, name, w) = [x EXCEPT !.mepc = Csr!AlignDown(w, 2)]
    BY <1>3 DEF Csr!CsrWrite
  <2>2. ASSUME NEW v PROVE Hidden([t EXCEPT !.mepc = v]) = [Hidden(c) EXCEPT !.mepc = v]
    BY DEF Hidden, Csr!Tick, Csr!CsrType
  <2>3. QED
    BY <2>1, <2>2
<1>4. CASE name = "mie"
  <2>1. \A x : Csr!CsrWrite(x, name, w) = [x EXCEPT !.mie = w]
    BY <1>4 DEF Csr!CsrWrite
  <2>2. ASSUME NEW v PROVE Hidden([t EXCEPT !.mie = v]) = [Hidden(c) EXCEPT !.mie = v]
    BY DEF Hidden, Csr!Tick, Csr!CsrType
  <2>3. QED
    BY <2>1, <2>2
<1>5. CASE name = "mscratch"
  <2>1. \A x : Csr!CsrWrite(x, name, w) = [x EXCEPT !.mscratch = w]
    BY <1>5 DEF Csr!CsrWrite
  <2>2. ASSUME NEW v PROVE Hidden([t EXCEPT !.mscratch = v]) = [Hidden(c) EXCEPT !.mscratch = v]
    BY DEF Hidden, Csr!Tick, Csr!CsrType
  <2>3. QED
    BY <2>1, <2>2
<1>6. CASE name = "mcause"
  <2>1. \A x : Csr!CsrWrite(x, name, w) = [x EXCEPT !.mcause = w]
    BY <1>6 DEF Csr!CsrWrite
  <2>2. ASSUME NEW v PROVE Hidden([t EXCEPT !.mcause = v]) = [Hidden(c) EXCEPT !.mcause = v]
    BY DEF Hidden, Csr!Tick, Csr!CsrType
  <2>3. QED
    BY <2>1, <2>2
<1>7. CASE name = "mtval"
  <2>1. \A x : Csr!CsrWrite(x, name, w) = [x EXCEPT !.mtval = w]
    BY <1>7 DEF Csr!CsrWrite
  <2>2. ASSUME NEW v PROVE Hidden([t EXCEPT !.mtval = v]) = [Hidden(c) EXCEPT !.mtval = v]
    BY DEF Hidden, Csr!Tick, Csr!CsrType
  <2>3. QED
    BY <2>1, <2>2
<1>8. CASE name \notin {"mstatus", "mtvec", "mepc", "mie", "mscratch", "mcause", "mtval"}
  BY <1>8, HiddenTick DEF Csr!CsrWrite
<1>9. QED
  BY <1>1, <1>2, <1>3, <1>4, <1>5, <1>6, <1>7, <1>8

LEMMA HiddenRead ==
    ASSUME NEW c \in Csr!CsrType, NEW m,
           NEW name \in CsrName \ {"mcycle", "minstret", "br_exec", "br_misp"}
    PROVE  Csr!CsrRead(Hidden(c), name, m) = Csr!CsrRead(c, name, m)
BY DEF Hidden, Csr!CsrRead, Csr!Mstatus, Csr!CsrType, CsrName

-----------------------------------------------------------------------------
(* Writing again what memory already holds changes nothing: a beat that is *)
(* repeated while the core waits for the other port does no harm.          *)

IsFunction(m) == m = [x \in DOMAIN m |-> m[x]]

LEMMA RepeatedFirstBeat ==
    ASSUME NEW m, Spans(m), IsFunction(m), NEW size \in Size, NEW addr \in Word, NEW data,
           \A k \in 0 .. NBytes(size) - 1 : Bsel(addr) + k < BPW =>
               m[(addr + k) % DBYTES] = ByteOf(data, k)
    PROVE  StoreA(m, size, addr, data) = m
<1> DEFINE A == StoreA(m, size, addr, data)
<1>1. Spans(A) /\ A = [x \in DOMAIN A |-> A[x]]
  <2>1. Spans(A)
    BY StoreAAt
  <2>2. A = [x \in DOMAIN A |-> A[x]]
    BY DEF StoreA, WriteBeat
  <2>3. QED
    BY <2>1, <2>2
<1>2. ASSUME NEW x \in 0 .. DBYTES - 1 PROVE A[x] = m[x]
  <2>1. CASE \E k \in 0 .. NBytes(size) - 1 : Bsel(addr) + k < BPW /\ x = (addr + k) % DBYTES
    BY <2>1, StoreAAt
  <2>2. CASE \A k \in 0 .. NBytes(size) - 1 : Bsel(addr) + k < BPW => x # (addr + k) % DBYTES
    BY <2>2, StoreAAt
  <2>3. QED
    BY <2>1, <2>2
<1> HIDE DEF A
<1>3. QED
  BY <1>1, <1>2, SameFunction DEF A, IsFunction

LEMMA RepeatedStore ==
    ASSUME NEW m, Spans(m), IsFunction(m), NEW size \in Size, NEW addr \in Word, NEW data,
           \A k \in 0 .. NBytes(size) - 1 : m[(addr + k) % DBYTES] = ByteOf(data, k)
    PROVE  StoreRef(m, size, addr, data) = m
<1> DEFINE R == StoreRef(m, size, addr, data)
<1>1. Spans(R) /\ R = [x \in DOMAIN R |-> R[x]]
  <2>1. Spans(R)
    BY StoreRefAt
  <2>2. R = [x \in DOMAIN R |-> R[x]]
    BY DEF StoreRef
  <2>3. QED
    BY <2>1, <2>2
<1>2. ASSUME NEW x \in 0 .. DBYTES - 1 PROVE R[x] = m[x]
  <2>1. CASE \E k \in 0 .. NBytes(size) - 1 : x = (addr + k) % DBYTES
    BY <2>1, StoreRefAt
  <2>2. CASE \A k \in 0 .. NBytes(size) - 1 : x # (addr + k) % DBYTES
    BY <2>2, StoreRefAt
  <2>3. QED
    BY <2>1, <2>2
<1> HIDE DEF R
<1>3. QED
  BY <1>1, <1>2, SameFunction DEF R, IsFunction

LEMMA StoreAgain ==
    ASSUME NEW m \in DataMemory, NEW size \in Size, NEW addr \in Word, NEW data
    PROVE  LET A == StoreA(m, size, addr, data)
               R == StoreRef(m, size, addr, data)
           IN  /\ StoreRef(A, size, addr, data) = R
               /\ StoreRef(R, size, addr, data) = R
               /\ StoreA(R, size, addr, data) = R
               /\ StoreA(A, size, addr, data) = A
               /\ StoreB(A, size, addr, data) = R
<1> DEFINE A == StoreA(m, size, addr, data)
           R == StoreRef(m, size, addr, data)
<1>1. Spans(m)
  BY DEF Spans, DataMemory
<1>2. /\ Spans(R) /\ Spans(A)
      /\ \A k \in 0 .. NBytes(size) - 1 : R[(addr + k) % DBYTES] = ByteOf(data, k)
      /\ \A k \in 0 .. NBytes(size) - 1 : Bsel(addr) + k < BPW =>
            A[(addr + k) % DBYTES] = ByteOf(data, k)
  BY <1>1, StoreRefAt, StoreAAt
<1>3. IsFunction(R) /\ IsFunction(A)
  BY DEF IsFunction, StoreRef, StoreA, WriteBeat
<1>4. StoreB(A, size, addr, data) = R /\ StoreRef(A, size, addr, data) = R
  BY <1>1, StoreInTwoBeats
<1> HIDE DEF A, R
<1>5. StoreRef(R, size, addr, data) = R
  BY <1>2, <1>3, RepeatedStore
<1>6. StoreA(R, size, addr, data) = R
  BY <1>2, <1>3, RepeatedFirstBeat
<1>7. StoreA(A, size, addr, data) = A
  BY <1>2, <1>3, RepeatedFirstBeat
<1>8. QED
  BY <1>4, <1>5, <1>6, <1>7 DEF A, R

-----------------------------------------------------------------------------
(* The data port *)

StoredA(m)   == StoreA(m, MemSize(ex_mem.instr), ex_mem.alu_result, ex_mem.store_data)
StoredB(m)   == StoreB(m, MemSize(ex_mem.instr), ex_mem.alu_result, ex_mem.store_data)
Stored(m)    == StoreRef(m, MemSize(ex_mem.instr), ex_mem.alu_result, ex_mem.store_data)

\* What the second beat of a crossing access finds.
FirstBeatDone ==
    /\ ex_mem.valid /\ ex_mem.need_xword
    /\ MemRead(ex_mem.instr) => mem_rdata0 = ReadBeat(dmem, BeatAddr(ex_mem.alu_result, FALSE))
    /\ MemWrite(ex_mem.instr) => dmem = StoredA(dmem)

MemInv == /\ ex_mem.valid =>
                (ex_mem.need_xword <=> /\ IsMem(ex_mem.instr)
                                       /\ NeedXword(MemSize(ex_mem.instr), ex_mem.alu_result))
          /\ mem_xword => FirstBeatDone

LEMMA NothingWritten ==
    ASSUME NEW m \in DataMemory, NEW a, NEW data PROVE WriteBeat(m, a, {}, data) = m
BY DEF WriteBeat, DataMemory

LEMMA DataPortClock ==
    ASSUME TypeOK, Clock
    PROVE  /\ ~(ex_mem.valid /\ MemWrite(ex_mem.instr)) \/ dmem_wait => dmem' = dmem
           /\ ex_mem.valid /\ MemWrite(ex_mem.instr) /\ ~dmem_wait =>
                 dmem' = IF mem_xword THEN StoredB(dmem) ELSE StoredA(dmem)
<1>1. dmem \in DataMemory /\ mem_xword \in BOOLEAN
  BY DEF TypeOK
<1>2. dmem' = IF dmem_en /\ dmem_wstrb # {} /\ ~dmem_wait
              THEN WriteBeat(dmem, dmem_addr, dmem_wstrb, dmem_wdata) ELSE dmem
  BY DEF Clock, DataMemoryClock
<1>3. ~(ex_mem.valid /\ MemWrite(ex_mem.instr)) => dmem_wstrb = {}
  BY DEF dmem_wstrb
<1>4. ASSUME ex_mem.valid /\ MemWrite(ex_mem.instr), ~dmem_wait
      PROVE  dmem' = WriteBeat(dmem, dmem_addr, dmem_wstrb, dmem_wdata)
  <2>1. CASE dmem_wstrb = {}
    BY <1>1, <1>2, <2>1, NothingWritten
  <2>2. CASE dmem_wstrb # {}
    BY <1>2, <1>4, <2>2 DEF dmem_en, IsMem
  <2>3. QED
    BY <2>1, <2>2
<1>5. ASSUME ex_mem.valid /\ MemWrite(ex_mem.instr)
      PROVE  WriteBeat(dmem, dmem_addr, dmem_wstrb, dmem_wdata)
                 = IF mem_xword THEN StoredB(dmem) ELSE StoredA(dmem)
  <2>1. CASE mem_xword = TRUE
    BY <1>5, <2>1 DEF dmem_addr, dmem_wstrb, dmem_wdata, StoredB, StoreB
  <2>2. CASE mem_xword = FALSE
    BY <1>5, <2>2 DEF dmem_addr, dmem_wstrb, dmem_wdata, StoredA, StoreA
  <2>3. QED
    BY <1>1, <2>1, <2>2
<1>6. QED
  BY <1>2, <1>3, <1>4, <1>5

LEMMA MemClock == ASSUME TypeOK, MemInv, Clock PROVE MemInv'
<1> USE Typed DEF FieldTypes
<1>0. dmem \in DataMemory /\ mem_xword \in BOOLEAN
  BY DEF TypeOK
<1>1. CASE ~backend_hold
  <2>1. mem_xword' = FALSE
    BY <1>1 DEF backend_hold, Clock, Xword
  <2>2. ex_mem'.valid => /\ ex_mem'.need_xword = need_xword_d /\ ex_mem'.instr = id_ex.instr
                         /\ ex_mem'.alu_result = ex_result /\ id_ex.valid
    BY <1>1 DEF Clock, ExMem, ExMemBubble
  <2>3. QED
    BY <2>1, <2>2 DEF MemInv, need_xword_d
<1>2. CASE backend_hold
  <2>1. ex_mem' = ex_mem
    BY <1>2 DEF Clock, ExMem
  <2>2. CASE ~mem_xword'
    BY <2>1, <2>2 DEF MemInv
  <2>3. CASE mem_xword'
    <3>1. \/ mem_xword /\ mem_rdata0' = mem_rdata0
          \/ ~mem_xword /\ ~dmem_stall /\ mem_hold /\ mem_rdata0' = dmem_rdata
      BY <2>3 DEF Clock, Xword, mem_hold
    <3>2. ex_mem.valid /\ ex_mem.need_xword
      BY <3>1 DEF mem_hold, MemInv, FirstBeatDone
    <3>3. IsMem(ex_mem.instr) /\ MemSize(ex_mem.instr) \in Size
      BY <3>2, Control DEF MemInv
    <3>4. ASSUME MemRead(ex_mem.instr)
          PROVE  mem_rdata0' = ReadBeat(dmem', BeatAddr(ex_mem'.alu_result, FALSE))
      <4>1. dmem' = dmem
        BY <3>4, DataPortClock DEF MemRead, MemWrite
      <4>2. CASE mem_xword
        BY <2>1, <3>1, <3>4, <4>1, <4>2 DEF MemInv, FirstBeatDone
      <4>3. CASE ~mem_xword
        BY <1>0, <2>1, <3>1, <4>1, <4>3 DEF dmem_rdata, dmem_addr
      <4>4. QED
        BY <4>2, <4>3
    <3>5. ASSUME MemWrite(ex_mem.instr) PROVE dmem' = StoredA(dmem)'
      <4>1. /\ StoredA(StoredA(dmem)) = StoredA(dmem)
            /\ StoredB(StoredA(dmem)) = Stored(dmem)
            /\ StoredA(Stored(dmem)) = Stored(dmem)
        BY <1>0, <3>3, StoreAgain DEF StoredA, StoredB, Stored
      <4>2. StoredA(dmem)' = StoredA(dmem')
        BY <2>1 DEF StoredA
      <4>3. CASE mem_xword
        <5>1. dmem = StoredA(dmem)
          BY <3>5, <4>3 DEF MemInv, FirstBeatDone
        <5>2. dmem' = dmem \/ dmem' = StoredB(dmem)
          BY <3>2, <3>5, <4>3, DataPortClock
        <5>3. dmem' = dmem \/ dmem' = Stored(dmem)
          BY <4>1, <5>1, <5>2
        <5>4. dmem' = StoredA(dmem')
          BY <4>1, <5>1, <5>3
        <5>5. QED
          BY <4>2, <5>4
      <4>4. CASE ~mem_xword
        <5>1. ~dmem_wait
          BY <3>1, <3>2, <3>3, <4>4 DEF dmem_stall, dmem_en
        <5>2. dmem' = StoredA(dmem)
          BY <3>2, <3>5, <4>4, <5>1, DataPortClock
        <5>3. QED
          BY <4>1, <4>2, <5>2
      <4>5. QED
        BY <4>3, <4>4
    <3>6. QED
      BY <2>1, <3>2, <3>3, <3>4, <3>5 DEF MemInv, FirstBeatDone
  <2>4. QED
    BY <2>2, <2>3
<1>3. QED
  BY <1>1, <1>2

-----------------------------------------------------------------------------
(* The architectural registers and memory at a clock. *)

LEMMA LoadRefInWord ==
    ASSUME NEW m \in DataMemory, NEW size \in Size, NEW uns, NEW addr \in Word
    PROVE  LoadRef(m, size, uns, addr) \in Word
<1>1. ReadBeat(m, BeatAddr(addr, FALSE)) \in Beat /\ ReadBeat(m, BeatAddr(addr, TRUE)) \in Beat
  BY BeatAddrTyped, ReadBeatTyped
<1>2. QED
  BY <1>1, LoadDataInWord, LoadInTwoBeats

LEMMA FinalTyped ==
    ASSUME TypeOK PROVE ex_mem.valid => ex_mem_final \in Word
<1> USE Typed DEF FieldTypes
<1>1. dmem \in DataMemory
  BY DEF TypeOK
<1>2. MemRead(ex_mem.instr) => MemSize(ex_mem.instr) \in Size
  BY Control DEF IsMem
<1>3. QED
  BY <1>1, <1>2, LoadRefInWord, MemoryTyped DEF ex_mem_final

LEMMA AbsRegsTyped ==
    ASSUME TypeOK PROVE absRegs \in [Reg -> Word] /\ absRegs[0] = 0
<1> USE Typed DEF FieldTypes
<1>1. regs \in [Reg -> Word]
  BY DEF TypeOK
<1>2. QED
  BY <1>1, FinalTyped, ConstantsInRange DEF absRegs

LEMMA RegistersClock ==
    ASSUME TypeOK, Clock
    PROVE  \A r \in Reg : r # 0 =>
              regs'[r] = IF rf_we /\ mem_wb.rd = r THEN mem_wb.wdata ELSE regs[r]
<1>1. regs \in [Reg -> Word]
  BY DEF TypeOK
<1>2. regs' = IF rf_we /\ mem_wb.rd # 0
              THEN [regs EXCEPT ![mem_wb.rd] = mem_wb.wdata] ELSE regs
  BY DEF Clock, RegFile
<1>3. QED
  BY <1>1, <1>2

\* A held back end keeps what MEM and WB have still to write.
LEMMA HeldState ==
    ASSUME TypeOK, MemInv, Clock, backend_hold
    PROVE  absRegs' = absRegs /\ absMem' = absMem
<1> USE Typed DEF FieldTypes
<1>1. ex_mem' = ex_mem /\ mem_wb' = mem_wb
  BY DEF Clock, ExMem, MemWb
<1>2. dmem \in DataMemory /\ mem_xword \in BOOLEAN
  BY DEF TypeOK
<1>3. ex_mem.valid => ex_mem_final' = ex_mem_final
  <2>1. CASE MemRead(ex_mem.instr)
    BY <1>1, <2>1, DataPortClock DEF ex_mem_final, MemRead, MemWrite
  <2>2. CASE ~MemRead(ex_mem.instr)
    <3>1. WbSel(ex_mem.instr) \in {"link", "csr", "alu"}
      BY <2>2, Control
    <3>2. mem_wdata_sel' = mem_wdata_sel
      BY <1>1, <3>1 DEF mem_wdata_sel, ex_mem_link_addr
    <3>3. QED
      BY <1>1, <2>2, <3>2 DEF ex_mem_final
  <2>3. QED
    BY <2>1, <2>2
<1>4. ASSUME NEW r \in Reg PROVE absRegs'[r] = absRegs[r]
  <2>1. r # 0 => (IF rf_we' /\ mem_wb'.rd = r THEN mem_wb'.wdata ELSE regs'[r])
                   = (IF rf_we /\ mem_wb.rd = r THEN mem_wb.wdata ELSE regs[r])
    BY <1>1, RegistersClock DEF rf_we
  <2>2. QED
    BY <1>1, <1>3, <2>1 DEF absRegs
<1>5. absRegs' = absRegs
  BY <1>4 DEF absRegs
<1>6. absMem' = absMem
  <2>1. CASE ~(ex_mem.valid /\ MemWrite(ex_mem.instr))
    BY <1>1, <2>1, DataPortClock DEF absMem
  <2>2. CASE ex_mem.valid /\ MemWrite(ex_mem.instr)
    <3>1. MemSize(ex_mem.instr) \in Size
      BY <2>2, Control DEF IsMem
    <3>2. /\ Stored(StoredA(dmem)) = Stored(dmem)
          /\ Stored(Stored(dmem)) = Stored(dmem)
          /\ StoredB(StoredA(dmem)) = Stored(dmem)
      BY <1>2, <3>1, StoreAgain DEF StoredA, StoredB, Stored
    <3>3. absMem = Stored(dmem)
      BY <2>2 DEF absMem, Stored
    <3>4. absMem' = Stored(dmem')
      BY <1>1, <2>2 DEF absMem, Stored
    <3>5. CASE mem_xword
      <4>1. dmem = StoredA(dmem)
        BY <2>2, <3>5 DEF MemInv, FirstBeatDone
      <4>2. dmem' = dmem \/ dmem' = StoredB(dmem)
        BY <2>2, <3>5, DataPortClock
      <4>3. dmem' = dmem \/ dmem' = Stored(dmem)
        BY <3>2, <4>1, <4>2
      <4>4. QED
        BY <3>2, <3>3, <3>4, <4>3
    <3>6. CASE ~mem_xword
      <4>1. dmem' = dmem \/ dmem' = StoredA(dmem)
        BY <2>2, <3>6, DataPortClock
      <4>2. QED
        BY <3>2, <3>3, <3>4, <4>1
    <3>7. QED
      BY <3>5, <3>6
  <2>3. QED
    BY <2>1, <2>2
<1>7. QED
  BY <1>5, <1>6

LEMMA LoadedWhole ==
    ASSUME TypeOK, MemSize(ex_mem.instr) \in Size,
           ~NeedXword(MemSize(ex_mem.instr), ex_mem.alu_result)
    PROVE  LoadData(MemSize(ex_mem.instr), MemUnsigned(ex_mem.instr), ex_mem.alu_result, FALSE,
                    mem_rdata0, ReadBeat(dmem, BeatAddr(ex_mem.alu_result, FALSE)))
               = LoadRef(dmem, MemSize(ex_mem.instr), MemUnsigned(ex_mem.instr), ex_mem.alu_result)
<1>1. ex_mem.alu_result \in Word
  BY Typed DEF FieldTypes
<1>2. QED
  BY <1>1, LoadInOneBeat

\* A back end that moves writes it.
LEMMA DrainedState ==
    ASSUME TypeOK, MemInv, Clock, ~backend_hold
    PROVE  /\ dmem' = absMem
           /\ \A r \in Reg : r # 0 =>
                 (IF rf_we' /\ mem_wb'.rd = r THEN mem_wb'.wdata ELSE regs'[r]) = absRegs[r]
<1> USE Typed DEF FieldTypes
<1>0. dmem \in DataMemory /\ mem_xword \in BOOLEAN
  BY DEF TypeOK
<1>1. ~mem_hold /\ ~dmem_stall
  BY DEF backend_hold
<1>2. ex_mem.valid /\ ex_mem.need_xword <=> mem_xword
  BY <1>1 DEF mem_hold, MemInv, FirstBeatDone
<1>3. ex_mem.valid => mem_wdata_sel = ex_mem_final
  <2>1. SUFFICES ASSUME ex_mem.valid, MemRead(ex_mem.instr)
                 PROVE  mem_wdata_sel = LoadRef(dmem, MemSize(ex_mem.instr),
                                                MemUnsigned(ex_mem.instr), ex_mem.alu_result)
    BY DEF ex_mem_final
  <2>2. MemSize(ex_mem.instr) \in Size /\ WbSel(ex_mem.instr) = "mem" /\ IsMem(ex_mem.instr)
    BY <2>1, Control DEF IsMem
  <2>3. mem_wdata_sel = mem_load_data
    BY <2>2 DEF mem_wdata_sel
  <2>4. CASE mem_xword
    <3>1. mem_rdata0 = ReadBeat(dmem, BeatAddr(ex_mem.alu_result, FALSE))
      BY <2>1, <2>4 DEF MemInv, FirstBeatDone
    <3>2. mem_xword = TRUE
      BY <1>0, <2>4
    <3>3. QED
      BY <2>2, <2>3, <3>1, <3>2, LoadInTwoBeats DEF mem_load_data, dmem_rdata, dmem_addr
  <2>5. CASE ~mem_xword
    <3>1. ~NeedXword(MemSize(ex_mem.instr), ex_mem.alu_result) /\ mem_xword = FALSE
      BY <1>0, <1>2, <2>1, <2>2, <2>5 DEF MemInv
    <3>2. LoadData(MemSize(ex_mem.instr), MemUnsigned(ex_mem.instr), ex_mem.alu_result, FALSE,
                   mem_rdata0, ReadBeat(dmem, BeatAddr(ex_mem.alu_result, FALSE)))
              = LoadRef(dmem, MemSize(ex_mem.instr), MemUnsigned(ex_mem.instr), ex_mem.alu_result)
      BY <2>2, <3>1, LoadedWhole
    <3>3. QED
      BY <2>3, <3>1, <3>2 DEF mem_load_data, dmem_rdata, dmem_addr
  <2>6. QED
    BY <2>4, <2>5
<1>4. dmem' = absMem
  <2>1. CASE ~(ex_mem.valid /\ MemWrite(ex_mem.instr))
    BY <2>1, DataPortClock DEF absMem
  <2>2. CASE ex_mem.valid /\ MemWrite(ex_mem.instr)
    <3>1. IsMem(ex_mem.instr) /\ MemSize(ex_mem.instr) \in Size
      BY <2>2, Control DEF IsMem
    <3>2. dmem' = IF mem_xword THEN StoredB(dmem) ELSE StoredA(dmem)
      BY <1>1, <2>2, <3>1, DataPortClock DEF dmem_stall, dmem_en
    <3>3. absMem = Stored(dmem)
      BY <2>2 DEF absMem, Stored
    <3>4. CASE mem_xword
      <4>1. dmem = StoredA(dmem)
        BY <2>2, <3>4 DEF MemInv, FirstBeatDone
      <4>2. StoredB(StoredA(dmem)) = Stored(dmem)
        BY <1>0, <3>1, StoreAgain DEF StoredA, StoredB, Stored
      <4>3. QED
        BY <3>2, <3>3, <3>4, <4>1, <4>2
    <3>5. CASE ~mem_xword
      <4>1. ~NeedXword(MemSize(ex_mem.instr), ex_mem.alu_result)
        BY <1>2, <2>2, <3>1, <3>5 DEF MemInv
      <4>2. StoredA(dmem) = Stored(dmem)
        BY <1>0, <3>1, <4>1, StoreInOneBeat DEF StoredA, Stored, Spans, DataMemory
      <4>3. QED
        BY <3>2, <3>3, <3>5, <4>2
    <3>6. QED
      BY <3>4, <3>5
  <2>3. QED
    BY <2>1, <2>2
<1>5. ASSUME NEW r \in Reg, r # 0
      PROVE  (IF rf_we' /\ mem_wb'.rd = r THEN mem_wb'.wdata ELSE regs'[r]) = absRegs[r]
  <2>1. mem_wb' = IF ~ex_mem.valid THEN MemWbBubble
                  ELSE [valid |-> TRUE, pc |-> ex_mem.pc, rd |-> ex_mem.instr.rd,
                        rd_write |-> RdWrite(ex_mem.instr), wdata |-> mem_wdata_sel]
    BY DEF Clock, MemWb
  <2>2. regs'[r] = IF rf_we /\ mem_wb.rd = r THEN mem_wb.wdata ELSE regs[r]
    BY <1>5, RegistersClock
  <2>3. QED
    BY <1>3, <1>5, <2>1, <2>2 DEF absRegs, rf_we, MemWbBubble
<1>6. QED
  BY <1>4, <1>5

\* Without an instruction that leaves EX nothing changes.
LEMMA QuietState ==
    ASSUME TypeOK, MemInv, Clock, ~ex_tick
    PROVE  absRegs' = absRegs /\ absMem' = absMem
<1>1. CASE backend_hold
  BY <1>1, HeldState
<1>2. CASE ~backend_hold
  <2>1. ~ex_mem'.valid
    BY <1>2 DEF ex_tick, backend_hold, Clock, ExMem, ExMemBubble
  <2>2. absMem' = absMem
    BY <1>2, <2>1, DrainedState DEF absMem
  <2>3. ASSUME NEW r \in Reg PROVE absRegs'[r] = absRegs[r]
    BY <1>2, <2>1, DrainedState DEF absRegs
  <2>4. QED
    BY <2>2, <2>3 DEF absRegs
<1>3. QED
  BY <1>1, <1>2

\* What an instruction that leaves EX writes to its rd.
Written_rd ==
    IF MemRead(id_ex.instr)
    THEN LoadRef(absMem, MemSize(id_ex.instr), MemUnsigned(id_ex.instr), ex_result)
    ELSE IF IsJump(id_ex.instr) THEN ex_fallthrough
    ELSE IF IsCsr(id_ex.instr) THEN csr_rdata ELSE ex_result

LEMMA TickState ==
    ASSUME TypeOK, MemInv, Clock, ex_tick
    PROVE  /\ absRegs' = IF RdWrite(id_ex.instr) /\ id_ex.instr.rd # 0
                         THEN [absRegs EXCEPT ![id_ex.instr.rd] = Written_rd] ELSE absRegs
           /\ absMem' = IF MemWrite(id_ex.instr)
                        THEN StoreRef(absMem, MemSize(id_ex.instr), ex_result, fwd_rs2) ELSE absMem
<1> USE Typed DEF FieldTypes
<1>1. ~backend_hold /\ id_ex.valid /\ ~ex_muldiv_stall
  BY DEF ex_tick, backend_hold
<1>2. ex_mem' = [valid |-> TRUE, pc |-> id_ex.pc, instr |-> id_ex.instr,
                 is_compressed |-> id_ex.is_compressed, alu_result |-> ex_result,
                 store_data |-> fwd_rs2, csr_rdata |-> csr_rdata, need_xword |-> need_xword_d]
  BY <1>1 DEF Clock, ExMem
<1>3. dmem' = absMem
  BY <1>1, DrainedState
<1>4. absMem' = IF MemWrite(id_ex.instr)
                THEN StoreRef(absMem, MemSize(id_ex.instr), ex_result, fwd_rs2) ELSE absMem
  BY <1>2, <1>3 DEF absMem
<1>5. RdWrite(id_ex.instr) => ex_mem_final' = Written_rd
  <2>1. CASE MemRead(id_ex.instr)
    BY <1>2, <1>3, <2>1 DEF ex_mem_final, Written_rd
  <2>2. CASE ~MemRead(id_ex.instr)
    <3>1. ex_mem_final' = mem_wdata_sel'
      BY <1>2, <2>2 DEF ex_mem_final
    <3>2. ex_mem_link_addr' = ex_fallthrough
      BY <1>2 DEF ex_mem_link_addr, ex_fallthrough
    <3>3. QED
      BY <1>2, <2>2, <3>1, <3>2 DEF mem_wdata_sel, WbSel, Written_rd, IsJump, IsCsr, MemRead
  <2>3. QED
    BY <2>1, <2>2
<1>6. ASSUME NEW r \in Reg
      PROVE  absRegs'[r] = IF r # 0 /\ RdWrite(id_ex.instr) /\ id_ex.instr.rd = r
                           THEN Written_rd ELSE absRegs[r]
  <2>1. r # 0 => (IF rf_we' /\ mem_wb'.rd = r THEN mem_wb'.wdata ELSE regs'[r]) = absRegs[r]
    BY <1>1, DrainedState
  <2>2. QED
    BY <1>2, <1>5, <2>1 DEF absRegs
<1>7. absRegs \in [Reg -> Word]
  BY AbsRegsTyped
<1>8. absRegs' = [r \in Reg |-> absRegs'[r]]
  BY DEF absRegs
<1>9. QED
  BY <1>4, <1>6, <1>7, <1>8, InstructionFields

-----------------------------------------------------------------------------
(* The operands in EX are the architectural registers. *)

OperandInv ==
    id_ex.valid /\ (IsMulDiv(id_ex.instr) /\ ex_muldiv_started => ex_mem.valid) =>
        /\ UsesRs1(id_ex.instr) => fwd_rs1 = absRegs[id_ex.instr.rs1]
        /\ UsesRs2(id_ex.instr) => fwd_rs2 = absRegs[id_ex.instr.rs2]

\* A register read and what is forwarded over it.
LEMMA ForwardOverlay ==
    ASSUME TypeOK, NEW r \in Reg,
           ~(ex_mem.valid /\ MemRead(ex_mem.instr) /\ ex_mem.instr.rd # 0 /\ ex_mem.instr.rd = r)
    PROVE  Forward(r, IF r = 0 THEN 0 ELSE regs[r]) = absRegs[r]
<1>1. ~MemRead(ex_mem.instr) => ex_mem_fwd_data = ex_mem_final
  BY DEF ex_mem_fwd_data, ex_mem_final, mem_wdata_sel, WbSel, MemRead, IsJump, IsCsr
<1>2. QED
  BY <1>1 DEF Forward, ExMemForwards, MemWbForwards, absRegs

\* ID/EX has just read the register file.
JustRead == id_ex.valid =>
    /\ id_ex.rs1_data = IF id_ex.instr.rs1 = 0 THEN 0 ELSE regs[id_ex.instr.rs1]
    /\ id_ex.rs2_data = IF id_ex.instr.rs2 = 0 THEN 0 ELSE regs[id_ex.instr.rs2]

LEMMA OperandsRead == TypeOK /\ NoLoadUseInEx /\ JustRead => OperandInv
<1> SUFFICES ASSUME TypeOK, NoLoadUseInEx, JustRead, id_ex.valid
             PROVE  /\ UsesRs1(id_ex.instr) => fwd_rs1 = absRegs[id_ex.instr.rs1]
                    /\ UsesRs2(id_ex.instr) => fwd_rs2 = absRegs[id_ex.instr.rs2]
  BY DEF OperandInv
<1>1. id_ex.instr.rs1 \in Reg /\ id_ex.instr.rs2 \in Reg
  BY Typed, InstructionFields DEF FieldTypes
<1>2. UsesRs1(id_ex.instr) => fwd_rs1 = absRegs[id_ex.instr.rs1]
  BY <1>1, ForwardOverlay DEF NoLoadUseInEx, JustRead, fwd_rs1
<1>3. UsesRs2(id_ex.instr) => fwd_rs2 = absRegs[id_ex.instr.rs2]
  BY <1>1, ForwardOverlay DEF NoLoadUseInEx, JustRead, fwd_rs2
<1>4. QED
  BY <1>2, <1>3

LEMMA OperandsCaptured ==
    ASSUME TypeOK, TypeOK', NoLoadUseInEx', Clock, ~IdExHold PROVE OperandInv'
<1>1. JustRead'
  <2>1. SUFFICES ASSUME id_ex'.valid
                 PROVE  /\ id_ex'.rs1_data = IF id_ex'.instr.rs1 = 0 THEN 0 ELSE regs'[id_ex'.instr.rs1]
                        /\ id_ex'.rs2_data = IF id_ex'.instr.rs2 = 0 THEN 0 ELSE regs'[id_ex'.instr.rs2]
    BY DEF JustRead
  <2>2. /\ id_ex'.instr = if_id.instr
        /\ id_ex'.rs1_data = RegRead(if_id.instr.rs1)
        /\ id_ex'.rs2_data = RegRead(if_id.instr.rs2)
    BY <2>1 DEF Clock, IdEx, IdExBubble
  <2>3. \A r \in Reg : RegRead(r) = IF r = 0 THEN 0 ELSE regs'[r]
    BY RegistersClock DEF RegRead
  <2>4. if_id.instr.rs1 \in Reg /\ if_id.instr.rs2 \in Reg
    BY Typed, InstructionFields DEF FieldTypes
  <2>5. QED
    BY <2>2, <2>3, <2>4
<1>2. (TypeOK /\ NoLoadUseInEx /\ JustRead => OperandInv)'
  BY OperandsRead, PTL
<1>3. QED
  BY <1>1, <1>2

\* A multiply or divide is held behind another instruction only while that
\* one is in MEM.
LEMMA HeldBehind ==
    ASSUME backend_hold, ex_is_muldiv PROVE ex_mem.valid
BY DEF backend_hold, mem_hold, dmem_stall, dmem_en, imem_wait_eff

LEMMA OperandsHeld ==
    ASSUME TypeOK, MemInv, OperandInv, Clock, IdExHold PROVE OperandInv'
<1>1. id_ex' = id_ex
  BY DEF Clock, IdEx
<1>2. CASE backend_hold
  <2>1. ex_mem' = ex_mem /\ mem_wb' = mem_wb /\ absRegs' = absRegs
    BY <1>2, HeldState DEF Clock, ExMem, MemWb
  <2>2. fwd_rs1' = fwd_rs1 /\ fwd_rs2' = fwd_rs2
    BY <1>1, <2>1 DEF fwd_rs1, fwd_rs2, Forward, ExMemForwards, MemWbForwards, rf_we,
                      ex_mem_fwd_data, ex_mem_link_addr
  <2>3. id_ex.valid /\ IsMulDiv(id_ex.instr) => ex_mem.valid
    BY <1>2, HeldBehind DEF ex_is_muldiv
  <2>4. QED
    BY <1>1, <2>1, <2>2, <2>3 DEF OperandInv
<1>3. CASE ~backend_hold
  <2>1. ~if_flush /\ ex_muldiv_stall
    BY <1>3 DEF backend_hold, IdExHold
  <2>2. ex_muldiv_started' /\ ~ex_mem'.valid
    BY <1>3, <2>1 DEF Clock, MulDivStarted, ExMem, ExMemBubble, ex_muldiv_stall, ex_is_muldiv
  <2>3. id_ex'.valid /\ IsMulDiv(id_ex'.instr)
    BY <1>1, <2>1 DEF ex_muldiv_stall, ex_is_muldiv
  <2>4. QED
    BY <2>2, <2>3 DEF OperandInv
<1>4. QED
  BY <1>2, <1>3

-----------------------------------------------------------------------------
(* The M-extension units compute on the architectural registers. *)

UnitOn(a, b) ==
    /\ mul.busy => mul.a_r = a /\ mul.b_r = b
    /\ mul.valid => mul.result = MulRef(id_ex.instr.op, a, b)
    /\ div.busy \/ div.valid => Working(div, id_ex.instr.op, a, b)

UnitInv == UnitOn(absRegs[id_ex.instr.rs1], absRegs[id_ex.instr.rs2])

UnitActive == mul.busy \/ mul.valid \/ div.busy \/ div.valid

\* A unit that is at work after a clock was asked to, and EX waits for it.
LEMMA ActiveWaits ==
    ASSUME UnitsInv, Clock, UnitActive'
    PROVE  ~if_flush /\ ex_muldiv_stall /\ id_ex' = id_ex /\ ~ex_tick
<1>1. ex_muldiv_started'
  BY UnitsClock DEF UnitsInv, UnitsServeEx, UnitActive
<1>2. ~if_flush /\ id_ex.valid
  <2>1. if_flush \/ ~id_ex.valid => ex_muldiv_started' = FALSE
    BY DEF Clock, MulDivStarted, ex_is_muldiv
  <2>2. QED
    BY <1>1, <2>1
<1>3. \/ ex_is_muldiv /\ ~ex_muldiv_started
      \/ ex_muldiv_started /\ ~muldiv_result_valid
  BY <1>1 DEF Clock, MulDivStarted
<1>4. ex_muldiv_started => ex_is_muldiv
  BY DEF UnitsInv, UnitsServeEx, ex_is_muldiv, IsMulDiv
<1>5. ~ex_muldiv_started => ~muldiv_result_valid
  BY DEF UnitsInv, UnitsServeEx, muldiv_result_valid
<1>6. ex_muldiv_stall
  BY <1>3, <1>4, <1>5 DEF ex_muldiv_stall
<1>7. id_ex' = id_ex
  BY <1>2, <1>6 DEF Clock, IdEx, IdExHold
<1>8. QED
  BY <1>2, <1>6, <1>7 DEF ex_tick

LEMMA MulWorks ==
    ASSUME mul \in MulType, MulHandshake, NEW start \in BOOLEAN, NEW a, NEW b, NEW op,
           MulClock(start, a, b, op, FALSE)
    PROVE  /\ mul'.busy => start /\ mul'.a_r = a /\ mul'.b_r = b
           /\ mul'.valid => /\ mul.busy /\ ~mul.valid
                            /\ mul'.result = MulSelect(mul.op_r, Prod66(mul.op_r, mul.a_r, mul.b_r))
<1> DEFINE res == MulSelect(mul.op_r, Prod66(mul.op_r, mul.a_r, mul.b_r))
<1>1. \/ start /\ ~mul.busy /\ mul' = [mul EXCEPT !.valid = FALSE, !.busy = TRUE,
                                             !.a_r = a, !.b_r = b, !.op_r = op]
      \/ mul.busy /\ mul' = [mul EXCEPT !.valid = TRUE, !.busy = FALSE, !.result = res]
      \/ ~start /\ ~mul.busy /\ mul' = [mul EXCEPT !.valid = FALSE]
  BY DEF MulClock
<1> HIDE DEF res
<1>2. QED
  BY <1>1 DEF MulType, MulHandshake, MulIdle, res

LEMMA UnitClock ==
    ASSUME TypeOK, MemInv, UnitsInv, OperandInv, UnitInv, Clock PROVE UnitInv'
<1> DEFINE a == absRegs[id_ex.instr.rs1]
           b == absRegs[id_ex.instr.rs2]
           op == id_ex.instr.op
           mstart == ex_is_muldiv /\ id_ex.instr.kind = "mul" /\ ~ex_muldiv_started
           dstart == ex_is_muldiv /\ id_ex.instr.kind = "div" /\ ~ex_muldiv_started
<1> SUFFICES ASSUME UnitActive' PROVE UnitInv'
  BY DEF UnitInv, UnitOn, UnitActive
<1>0. /\ id_ex.instr \in Instruction /\ mul \in MulType /\ div \in DivType
      /\ ex_muldiv_started \in BOOLEAN
  BY Typed DEF FieldTypes, TypeOK
<1>1. ~if_flush /\ ex_muldiv_stall /\ id_ex' = id_ex /\ ~ex_tick
  BY ActiveWaits
<1>2. absRegs' = absRegs
  BY <1>1, QuietState
<1>3. UnitOn(a, b)
  BY DEF UnitInv
<1>4. SUFFICES UnitOn(a, b)'
  BY <1>1, <1>2 DEF UnitInv
<1>5. a \in Word /\ b \in Word
  BY <1>0, AbsRegsTyped, InstructionFields
<1>6. mstart \in BOOLEAN /\ dstart \in BOOLEAN
  OBVIOUS
<1>7. mstart \/ dstart => fwd_rs1 = a /\ fwd_rs2 = b
  BY DEF OperandInv, ex_is_muldiv, IsMulDiv, UsesRs1, UsesRs2
<1>8. MulClock(mstart, fwd_rs1, fwd_rs2, op, FALSE) /\ DivClock(dstart, fwd_rs1, fwd_rs2, op, FALSE)
  BY <1>1 DEF Clock, MulDivUnits, MulClock, DivClock
<1>9. OpFits(id_ex.instr)
  BY <1>0, InstructionFields
<1>10. mul.busy \/ mul.valid => id_ex.instr.kind = "mul" /\ mul.op_r = op
  BY DEF UnitsInv, UnitsServeEx
<1>11. div.busy \/ div.valid => id_ex.instr.kind = "div"
  BY DEF UnitsInv, UnitsServeEx
<1> HIDE DEF mstart, dstart
<1>12. (mul.busy => mul.a_r = a /\ mul.b_r = b)'
  BY <1>0, <1>1, <1>2, <1>6, <1>7, <1>8, MulWorks DEF UnitsInv
<1>13. mul'.valid => mul'.result = MulRef(op, a, b)
  <2>1. SUFFICES ASSUME mul'.valid PROVE mul'.result = MulRef(op, a, b)
    OBVIOUS
  <2>2. mul.busy /\ mul'.result = MulSelect(mul.op_r, Prod66(mul.op_r, mul.a_r, mul.b_r))
    BY <1>0, <1>6, <1>8, <2>1, MulWorks DEF UnitsInv
  <2>3. mul.op_r = op /\ mul.a_r = a /\ mul.b_r = b /\ op \in MulOp
    BY <1>3, <1>9, <1>10, <2>2 DEF UnitOn, OpFits
  <2>4. QED
    BY <2>2, <2>3, SelectIsReference
<1>14. div'.busy \/ div'.valid => Working(div', op, a, b)
  <2>1. SUFFICES ASSUME div'.busy \/ div'.valid PROVE Working(div', op, a, b)
    OBVIOUS
  <2>2. HasFields(div)
    BY <1>0 DEF HasFields, DivFields, SignFields, DivType
  <2>3. /\ ~dstart /\ DivIdle => DivIdle'
        /\ div.valid /\ ~dstart => DivIdle'
    BY <1>6, <1>8, DivSteps DEF UnitsInv
  <2>4. CASE div.state = "idle" /\ dstart
    <3>1. Accept(a, b, op)
      BY <1>7, <1>8, <2>4 DEF DivClock
    <3>2. op \in DivOp
      BY <1>9, <2>4 DEF OpFits, dstart
    <3>3. QED
      BY <1>5, <2>2, <3>1, <3>2, WorkStarts
  <2>5. CASE ~(div.state = "idle" /\ dstart)
    <3>1. div.busy
      BY <2>1, <2>3, <2>5 DEF UnitsInv, DivHandshake, DivIdle
    <3>2. op \in DivOp /\ Working(div, op, a, b)
      BY <1>3, <1>9, <1>11, <3>1 DEF OpFits, UnitOn
    <3>3. QED
      BY <1>5, <1>6, <1>8, <2>2, <2>5, <3>2, WorkStep
  <2>6. QED
    BY <2>4, <2>5
<1>15. QED
  BY <1>1, <1>2, <1>12, <1>13, <1>14 DEF UnitOn

-----------------------------------------------------------------------------
(* The stages hold the program's instructions. *)

Exact(stage) == stage.valid => /\ stage.instr = Code(prog, stage.pc)
                               /\ stage.is_compressed <=> stage.instr.size = 2

CodeInv == /\ Exact(if_id) /\ Exact(id_ex)
           /\ fbuf.valid => Code(prog, fbuf.pc).size = 4

LEMMA CodeClock ==
    ASSUME TypeOK, SplitFetchContiguous, CodeInv, PortsSeparate, Clock PROVE CodeInv'
<1>0. prog' = prog /\ pc \in Word /\ prog \in Programs
  BY DEF Clock, TypeOK
<1>1. Exact(id_ex')
  <2>1. id_ex' = id_ex \/ id_ex' = IdExBubble
        \/ (if_id.valid /\ id_ex'.pc = if_id.pc /\ id_ex'.instr = if_id.instr
            /\ id_ex'.is_compressed = if_id.is_compressed)
    BY DEF Clock, IdEx
  <2>2. QED
    BY <1>0, <2>1 DEF CodeInv, Exact, IdExBubble
<1>2. Fetching => ~imem_wait
  BY DEF Fetching, pc_hold, pc_stall, imem_wait_eff, PortsSeparate
<1>3. Code(prog, pc).size \in {2, 4}
  BY <1>0, CodeAssumption, InstructionFields
<1>4. Exact(if_id') /\ (fbuf'.valid => Code(prog, fbuf'.pc).size = 4)
  <2>1. CASE FlushFetch
    BY <2>1 DEF FlushFetch, IfIdBubble, NoFbuf, Exact
  <2>2. CASE DrainFetch \/ HoldFetch
    BY <2>2 DEF DrainFetch, HoldFetch, IfIdBubble, CodeInv, Exact
  <2>3. CASE CompleteSplit
    <3>1. joined = Code(prog, fbuf.pc) /\ fbuf.valid
      BY <1>2, <2>3 DEF CompleteSplit, joined, SplitFetchContiguous
    <3>2. QED
      BY <2>3, <3>1 DEF CompleteSplit, NoFbuf, CodeInv, Exact
  <2>4. CASE SetupSplit
    BY <1>2, <2>4 DEF SetupSplit, IfIdBubble, Exact, need_pending, pc_half_is32, fetched
  <2>5. CASE FetchWhole
    <3>1. fetched = Code(prog, pc) /\ (pc_half_is32 <=> Code(prog, pc).size = 4)
      BY <1>2, <2>5 DEF FetchWhole, fetched, pc_half_is32
    <3>2. ~pc_half_is32 <=> Code(prog, pc).size = 2
      BY <1>3, <3>1
    <3>3. /\ if_id'.instr = fetched /\ if_id'.pc = pc /\ ~fbuf'.valid
          /\ if_id'.is_compressed = ~pc_half_is32
      BY <2>5 DEF FetchWhole
    <3>4. if_id'.is_compressed <=> ~pc_half_is32
      BY <3>3
    <3>5. QED
      BY <1>0, <3>1, <3>2, <3>3, <3>4 DEF Exact
  <2>6. QED
    BY <2>1, <2>2, <2>3, <2>4, <2>5 DEF Clock, IfId
<1>5. QED
  BY <1>0, <1>1, <1>4 DEF CodeInv, Exact

-----------------------------------------------------------------------------
(* The architectural program counter *)

\* Where the instruction behind EX is.
Behind == IF if_id.valid THEN if_id.pc ELSE Front

LEMMA AbsPcBehind == ASSUME ~id_ex.valid PROVE absPc = Behind
BY DEF absPc, Behind, Front

\* A flush that empties EX leaves the address it fetches from.
LEMMA FlushedPc ==
    ASSUME Clock, if_flush, ~mem_hold PROVE absPc' = pc_next
<1>1. id_ex' = IdExBubble
  BY DEF Clock, IdEx, IdExHold, IdExFlush
<1>2. if_id' = IfIdBubble /\ fbuf' = NoFbuf
  BY DEF Clock, IfId, FlushFetch, DrainFetch, HoldFetch, Fetching,
         CompleteSplit, SetupSplit, FetchWhole
<1>3. pc' = pc_next
  BY DEF Clock, Pc, pc_d
<1>4. QED
  BY <1>1, <1>2, <1>3 DEF absPc, IdExBubble, IfIdBubble, NoFbuf

\* An instruction that is held keeps its place.
LEMMA HeldPc ==
    ASSUME Clock, IdExHold, ~if_flush \/ id_ex.valid PROVE absPc' = absPc
<1>1. id_ex' = id_ex
  BY DEF Clock, IdEx
<1>2. CASE id_ex.valid
  BY <1>1, <1>2 DEF absPc
<1>3. CASE ~if_flush
  <2>1. pc_stall
    BY <1>3, HoldStalls
  <2>2. if_id' = if_id /\ fbuf' = fbuf
    BY <1>3, <2>1 DEF Clock, IfId, FlushFetch, DrainFetch, HoldFetch, Fetching, pc_hold,
                      CompleteSplit, SetupSplit, FetchWhole
  <2>3. pc' = pc
    BY <1>3, <2>1, PcHeld DEF pc_hold
  <2>4. QED
    BY <1>1, <2>2, <2>3 DEF absPc
<1>4. QED
  BY <1>2, <1>3

\* When EX is free the next instruction is the one behind it.
LEMMA AdvancedPc ==
    ASSUME Clock, ~if_flush, ~IdExHold PROVE absPc' = Behind
<1>1. CASE load_use_stall \/ csr_stall
  <2>1. id_ex' = IdExBubble /\ if_id.valid
    BY <1>1 DEF Clock, IdEx, load_use_stall, csr_stall
  <2>2. if_id' = if_id
    BY <1>1 DEF Clock, IfId, FlushFetch, DrainFetch, HoldFetch, Fetching, pc_hold, pc_stall,
                CompleteSplit, SetupSplit, FetchWhole
  <2>3. QED
    BY <2>1, <2>2 DEF absPc, Behind, IdExBubble
<1>2. CASE ~(load_use_stall \/ csr_stall) /\ if_id.valid
  <2>1. id_ex'.valid /\ id_ex'.pc = if_id.pc
    BY <1>2 DEF Clock, IdEx, IdExFlush
  <2>2. QED
    BY <1>2, <2>1 DEF absPc, Behind
<1>3. CASE ~if_id.valid
  <2>1. id_ex' = IdExBubble
    BY <1>3 DEF Clock, IdEx
  <2>2. ~pc_stall
    BY <1>3 DEF pc_stall, IdExHold, load_use_stall, csr_stall
  <2>3. Behind = Front
    BY <1>3 DEF Behind
  <2>4. CASE irq_drain
    <3>1. if_id' = IfIdBubble /\ fbuf' = fbuf
      BY <2>2, <2>4 DEF Clock, IfId, FlushFetch, DrainFetch, HoldFetch, Fetching, pc_hold,
                        CompleteSplit, SetupSplit, FetchWhole
    <3>2. pc' = pc
      BY <2>4, PcHeld DEF pc_hold
    <3>3. QED
      BY <2>1, <2>3, <3>1, <3>2 DEF absPc, Front, IdExBubble, IfIdBubble
  <2>5. CASE CompleteSplit
    BY <2>1, <2>3, <2>5 DEF CompleteSplit, absPc, Front, IdExBubble
  <2>6. CASE SetupSplit
    BY <2>1, <2>3, <2>6 DEF SetupSplit, need_pending, absPc, Front, IdExBubble, IfIdBubble
  <2>7. CASE FetchWhole
    BY <2>1, <2>3, <2>7 DEF FetchWhole, absPc, Front, IdExBubble
  <2>8. QED
    BY <2>2, <2>4, <2>5, <2>6, <2>7 DEF Clock, IfId, FlushFetch, DrainFetch, HoldFetch
<1>4. QED
  BY <1>1, <1>2, <1>3

\* What follows the instruction in EX.
OutcomePc == IF ex_is_cf /\ ex_actual_taken THEN ex_actual_target ELSE ex_fallthrough

LEMMA PredictionKept ==
    ASSUME TypeOK, id_ex.valid, ~ex_misp_raw PROVE PredictedNext(id_ex) = OutcomePc
BY Typed DEF FieldTypes, ex_misp_raw, PredictedNext, OutcomePc, ex_fallthrough, ex_is_cf, ex_actual_taken

LEMMA RedirectTarget ==
    ASSUME ex_misp_raw PROVE ex_target = OutcomePc
BY DEF ex_misp_raw, ex_target, OutcomePc, ex_is_cf, ex_actual_taken, ex_actual_target, IsCf, IsJump

LEMMA TickPc ==
    ASSUME TypeOK, FetchInv, Clock, id_ex.valid, ~ex_muldiv_stall, ~mem_hold,
           if_flush \/ ~backend_hold
    PROVE  absPc' = IF ex_trap THEN csr.mtvec ELSE IF ex_mret THEN csr.mepc ELSE OutcomePc
<1>1. ~irq_take
  BY DEF irq_take, pipe_empty
<1>2. CASE if_flush
  <2>1. absPc' = pc_next
    BY <1>2, FlushedPc
  <2>2. ~ex_trap /\ ~ex_mret => ex_redirect
    BY <1>1, <1>2 DEF if_flush
  <2>3. QED
    BY <1>1, <2>1, <2>2, RedirectTarget DEF pc_next, trap_valid, ex_redirect
<1>3. CASE ~if_flush
  <2>1. ~ex_trap /\ ~ex_mret /\ ~ex_misp_raw
    BY <1>3 DEF if_flush, ex_redirect
  <2>2. absPc' = Behind
    BY <1>3, AdvancedPc DEF IdExHold, backend_hold
  <2>3. Behind = PredictedNext(id_ex)
    BY <2>1 DEF FetchInv, FetchFollowsPrediction, OffPathRedirects, Behind
  <2>4. QED
    BY <2>1, <2>2, <2>3, PredictionKept
<1>4. QED
  BY <1>2, <1>3

-----------------------------------------------------------------------------
(* The CSRs after a clock *)

LEMMA CsrQuiet ==
    ASSUME TypeOK, Clock, ~trap_valid, ~ex_mret, ~csr_we_ex PROVE absCsr' = absCsr
<1>1. csr \in Csr!CsrType
  BY DEF TypeOK
<1>2. csr' = Csr!Tick(csr, mem_wb.valid, ex_tick /\ ex_is_cf, ex_tick /\ ex_misp_raw)
  BY DEF Clock, CsrClock, Csr!Clock
<1>3. Hidden(csr') = Hidden(csr)
  BY <1>1, <1>2, HiddenTick
<1>4. QED
  BY <1>3 DEF Hidden, absCsr

LEMMA CsrTrapped ==
    ASSUME TypeOK, Clock, trap_valid
    PROVE  absCsr' = Entered(absCsr,
                        IF ex_trap THEN ex_trap_cause ELSE Csr!IrqCause(Csr!IrqId(mip_in, csr)),
                        IF ex_trap THEN id_ex.pc ELSE irq_mepc,
                        IF ex_trap THEN ex_trap_tval ELSE 0)
<1>1. csr \in Csr!CsrType
  BY DEF TypeOK
<1>2. PICK cause, epc, tval :
          /\ cause = IF ex_trap THEN ex_trap_cause ELSE Csr!IrqCause(Csr!IrqId(mip_in, csr))
          /\ epc = IF ex_trap THEN id_ex.pc ELSE irq_mepc
          /\ tval = IF ex_trap THEN ex_trap_tval ELSE 0
  OBVIOUS
<1>3. csr' = Csr!TrapEntry(Csr!Tick(csr, mem_wb.valid, ex_tick /\ ex_is_cf, ex_tick /\ ex_misp_raw),
                           cause, epc, tval)
  BY <1>2 DEF Clock, CsrClock, Csr!Clock
<1>4. Hidden(csr') = Entered(Hidden(csr), cause, epc, tval)
  BY <1>1, <1>3, HiddenTrap
<1>5. absCsr' = Hidden(csr') /\ absCsr = Hidden(csr)
  BY DEF Hidden, absCsr
<1>6. QED
  BY <1>2, <1>4, <1>5

LEMMA CsrReturned ==
    ASSUME TypeOK, Clock, ~trap_valid, ex_mret
    PROVE  absCsr' = Returned(absCsr)
<1>1. csr \in Csr!CsrType
  BY DEF TypeOK
<1>2. csr' = Csr!MretExit(Csr!Tick(csr, mem_wb.valid, ex_tick /\ ex_is_cf, ex_tick /\ ex_misp_raw))
  BY DEF Clock, CsrClock, Csr!Clock
<1>3. Hidden(csr') = Returned(Hidden(csr))
  BY <1>1, <1>2, HiddenMret
<1>4. absCsr' = Hidden(csr') /\ absCsr = Hidden(csr)
  BY DEF Hidden, absCsr
<1>5. QED
  BY <1>3, <1>4

LEMMA CsrWritten ==
    ASSUME TypeOK, Clock, ~trap_valid, ~ex_mret, csr_we_ex
    PROVE  absCsr' = Csr!CsrWrite(absCsr, id_ex.instr.csr, csr_wdata)
<1>1. csr \in Csr!CsrType
  BY DEF TypeOK
<1>2. csr' = Csr!CsrWrite(
                 Csr!Tick(csr, mem_wb.valid, ex_tick /\ ex_is_cf, ex_tick /\ ex_misp_raw),
                 id_ex.instr.csr, csr_wdata)
  BY DEF Clock, CsrClock, Csr!Clock
<1>3. Hidden(csr') = Csr!CsrWrite(Hidden(csr), id_ex.instr.csr, csr_wdata)
  BY <1>1, <1>2, HiddenWrite
<1>4. absCsr' = Hidden(csr') /\ absCsr = Hidden(csr)
  BY DEF Hidden, absCsr
<1>5. QED
  BY <1>3, <1>4

\* The fields that are read from absCsr are those of csr.
LEMMA CsrSeen ==
    ASSUME TypeOK
    PROVE  /\ absCsr.MIE = csr.MIE /\ absCsr.mie = csr.mie
           /\ absCsr.mtvec = csr.mtvec /\ absCsr.mepc = csr.mepc
BY DEF TypeOK, absCsr, Csr!CsrType

-----------------------------------------------------------------------------
(* The instruction in EX, as the instruction set sees it *)

LEMMA InEx ==
    ASSUME TypeOK, CodeInv, id_ex.valid
    PROVE  /\ Machine!i = id_ex.instr /\ absPc = id_ex.pc
           /\ Machine!Step = ex_fallthrough
<1>1. absPc = id_ex.pc
  BY DEF absPc
<1>2. Machine!i = id_ex.instr
  BY <1>1 DEF Machine!i, CodeInv, Exact
<1>3. id_ex.instr.size = IF id_ex.is_compressed THEN 2 ELSE 4
  <2>1. id_ex.instr.size \in {2, 4}
    BY Typed, InstructionFields DEF FieldTypes
  <2>2. QED
    BY <2>1 DEF CodeInv, Exact
<1>4. QED
  BY <1>1, <1>2, <1>3, SameFields DEF Machine!Step, ex_fallthrough, NextPc

LEMMA OperandsSeen ==
    ASSUME TypeOK, CodeInv, OperandInv, id_ex.valid, ~IsMulDiv(id_ex.instr)
    PROVE  /\ UsesRs1(id_ex.instr) => fwd_rs1 = Machine!Rs1
           /\ UsesRs2(id_ex.instr) => fwd_rs2 = Machine!Rs2
<1>1. id_ex.instr.rs1 \in Reg /\ id_ex.instr.rs2 \in Reg
  BY Typed, InstructionFields DEF FieldTypes
<1>2. absRegs[0] = 0
  BY AbsRegsTyped
<1>3. QED
  BY <1>1, <1>2, InEx DEF OperandInv, Machine!Rs1, Machine!Rs2

LEMMA UnitResult ==
    ASSUME TypeOK, CodeInv, UnitsInv, UnitInv, ex_tick, IsMulDiv(id_ex.instr)
    PROVE  ex_result = IF id_ex.instr.kind = "mul"
                       THEN Machine!MulRef(id_ex.instr.op, Machine!Rs1, Machine!Rs2)
                       ELSE Machine!DivRef(id_ex.instr.op, Machine!Rs1, Machine!Rs2)
<1>1. id_ex.valid /\ muldiv_result_valid /\ ex_result = muldiv_result
  BY DEF ex_tick, ex_muldiv_stall, ex_is_muldiv, ex_result
<1>2. Machine!Rs1 = absRegs[id_ex.instr.rs1] /\ Machine!Rs2 = absRegs[id_ex.instr.rs2]
  BY <1>1, InEx, AbsRegsTyped DEF Machine!Rs1, Machine!Rs2
<1>3. id_ex.instr.kind = "mul" =>
          muldiv_result = MulRef(id_ex.instr.op, Machine!Rs1, Machine!Rs2)
  BY <1>1, <1>2 DEF muldiv_result_valid, muldiv_result, UnitInv, UnitOn
<1>4. id_ex.instr.kind = "div" =>
          muldiv_result = DivRef(id_ex.instr.op, Machine!Rs1, Machine!Rs2)
  BY <1>1, <1>2 DEF muldiv_result_valid, muldiv_result, UnitInv, UnitOn, Working,
                    UnitsInv, DivHandshake, DivIdle
<1>5. QED
  BY <1>1, <1>3, <1>4, SameMulDiv DEF IsMulDiv

\* What the ALU computes for each kind of instruction.
LEMMA AluSeen ==
    ASSUME TypeOK, CodeInv, OperandInv, id_ex.valid
    PROVE  LET in == id_ex.instr IN
           /\ in.kind = "op"    => alu_result = Machine!AluRef(in.op, Machine!Rs1, Machine!Rs2)
           /\ in.kind = "opimm" => alu_result = Machine!AluRef(in.op, Machine!Rs1, in.imm)
           /\ in.kind = "lui"   => alu_result = in.imm
           /\ in.kind = "auipc" => alu_result = Trunc(id_ex.pc + in.imm)
           /\ in.kind \in {"load", "store", "jalr"} => alu_result = Trunc(Machine!Rs1 + in.imm)
           /\ in.kind = "branch" =>
                  (br_taken_raw <=> BranchRef(in.op, Machine!Rs1, Machine!Rs2))
<1> DEFINE in == id_ex.instr
<1>1. /\ in.imm \in Word /\ id_ex.pc \in Word /\ in.kind \in Kind /\ OpFits(in)
  BY Typed, InstructionFields DEF FieldTypes
<1>2. fwd_rs1 \in Word /\ fwd_rs2 \in Word
  BY OperandsTyped
<1>3. /\ ~IsMulDiv(in) /\ UsesRs1(in) => fwd_rs1 = Machine!Rs1
      /\ ~IsMulDiv(in) /\ UsesRs2(in) => fwd_rs2 = Machine!Rs2
  BY OperandsSeen
<1>4. ASSUME NEW a \in Word, NEW b \in Word PROVE Alu("add", a, b) = Trunc(a + b)
  BY <1>4, Adder DEF Alu
<1>5. \A w \in Word : Trunc(0 + w) = w
  BY WordIsBelowBase, Remainders DEF Trunc
<1>6. CASE in.kind = "op"
  <2>1. alu_result = Alu(in.op, Machine!Rs1, Machine!Rs2) /\ in.op \in AluOp
    BY <1>1, <1>3, <1>6 DEF alu_result, IdAluOp, alu_a, alu_b, ASel, BSelImm, UsesRs1, UsesRs2,
                            IsMulDiv, OpFits
  <2>2. Machine!Rs1 \in Word /\ Machine!Rs2 \in Word
    BY <1>2, <1>3, <1>6 DEF UsesRs1, UsesRs2, IsMulDiv
  <2>3. QED
    BY <1>6, <2>1, <2>2, AluIsReference, SameAlu
<1>7. CASE in.kind = "opimm"
  <2>1. alu_result = Alu(in.op, Machine!Rs1, in.imm) /\ in.op \in AluOp
    BY <1>1, <1>3, <1>7 DEF alu_result, IdAluOp, alu_a, alu_b, ASel, BSelImm, UsesRs1,
                            IsMulDiv, OpFits
  <2>2. Machine!Rs1 \in Word
    BY <1>2, <1>3, <1>7 DEF UsesRs1, IsMulDiv
  <2>3. QED
    BY <1>1, <1>7, <2>1, <2>2, AluIsReference, SameAlu
<1>8. CASE in.kind = "lui"
  <2>1. alu_result = Alu("add", 0, in.imm)
    BY <1>8 DEF alu_result, IdAluOp, alu_a, alu_b, ASel, BSelImm
  <2>2. QED
    BY <1>1, <1>4, <1>5, <1>8, <2>1, ConstantsInRange
<1>9. CASE in.kind = "auipc"
  <2>1. alu_result = Alu("add", id_ex.pc, in.imm)
    BY <1>9 DEF alu_result, IdAluOp, alu_a, alu_b, ASel, BSelImm
  <2>2. QED
    BY <1>1, <1>4, <1>9, <2>1
<1>10. CASE in.kind \in {"load", "store", "jalr"}
  <2>1. alu_result = Alu("add", fwd_rs1, in.imm)
    BY <1>10 DEF alu_result, IdAluOp, alu_a, alu_b, ASel, BSelImm
  <2>2. fwd_rs1 = Machine!Rs1
    BY <1>3, <1>10 DEF UsesRs1, IsMulDiv
  <2>3. QED
    BY <1>1, <1>2, <1>4, <1>10, <2>1, <2>2
<1>11. CASE in.kind = "branch"
  <2>1. /\ alu_result = Alu(BranchAluOp(in.op), Machine!Rs1, Machine!Rs2)
        /\ in.op \in BranchOp
    BY <1>1, <1>3, <1>11 DEF alu_result, IdAluOp, alu_a, alu_b, ASel, BSelImm, UsesRs1, UsesRs2,
                             IsMulDiv, OpFits
  <2>2. Machine!Rs1 \in Word /\ Machine!Rs2 \in Word
    BY <1>2, <1>3, <1>11 DEF UsesRs1, UsesRs2, IsMulDiv
  <2>3. BrTakenRaw(in.op, alu_result) = BranchRef(in.op, Machine!Rs1, Machine!Rs2)
    BY <2>1, <2>2, BranchIsReference
  <2>4. QED
    BY <1>11, <2>3 DEF br_taken_raw
<1>12. QED
  BY <1>6, <1>7, <1>8, <1>9, <1>10, <1>11

-----------------------------------------------------------------------------
(* An instruction that leaves EX is one step of the instruction set. *)

LEMMA SetsRd ==
    ASSUME TypeOK, CodeInv, MemInv, Clock, ex_tick, RdWrite(id_ex.instr)
    PROVE  Machine!SetReg(Written_rd)
<1>1. Machine!i = id_ex.instr
  BY InEx DEF ex_tick
<1>2. absRegs' = IF id_ex.instr.rd = 0 THEN absRegs
                 ELSE [absRegs EXCEPT ![id_ex.instr.rd] = Written_rd]
  BY TickState
<1>3. QED
  BY <1>1, <1>2 DEF Machine!SetReg

\* What the pipeline does to the rest of the state when nothing special happens.
LEMMA Plainly ==
    ASSUME TypeOK, FetchInv, CodeInv, MemInv, Clock, ex_tick, NoReserved,
           id_ex.instr.kind \notin {"illegal", "ecall", "ebreak", "mret"}
    PROVE  /\ ~IsIllegal(id_ex.instr) /\ ~Machine!IsIllegal(Machine!i)
           /\ Machine!i = id_ex.instr /\ id_ex.valid
           /\ absPc' = OutcomePc
           /\ ~IsCsr(id_ex.instr) => absCsr' = absCsr
           /\ ~MemWrite(id_ex.instr) => absMem' = absMem
           /\ ~RdWrite(id_ex.instr) => absRegs' = absRegs
<1>1. id_ex.valid /\ ~ex_muldiv_stall /\ ~mem_hold /\ ~backend_hold
  BY DEF ex_tick, backend_hold
<1>2. ~IsIllegal(id_ex.instr) /\ ~ex_trap /\ ~ex_mret
  BY <1>1 DEF NoReserved, IsIllegal, ex_trap, ex_mret
<1>3. ~trap_valid
  BY <1>1, <1>2 DEF trap_valid, irq_take, pipe_empty
<1>4. absPc' = OutcomePc
  BY <1>1, <1>2, TickPc
<1>5. ~IsCsr(id_ex.instr) => absCsr' = absCsr
  BY <1>2, <1>3, CsrQuiet DEF csr_we_ex
<1>6. QED
  BY <1>1, <1>2, <1>4, <1>5, InEx, TickState, SameFields

LEMMA StraightOn ==
    ASSUME TypeOK, CodeInv, id_ex.valid, ~IsCf(id_ex.instr) PROVE OutcomePc = Machine!Step
BY InEx DEF OutcomePc, ex_is_cf

LEMMA DoesCompute ==
    ASSUME TypeOK, FetchInv, CodeInv, MemInv, OperandInv, UnitsInv, UnitInv, Clock,
           ex_tick, NoReserved,
           id_ex.instr.kind \in {"op", "opimm", "lui", "auipc", "mul", "div", "fence"}
    PROVE  Machine!Compute
<1> DEFINE in == id_ex.instr
<1>1. /\ ~Machine!IsIllegal(Machine!i) /\ Machine!i = in /\ id_ex.valid
      /\ absPc' = OutcomePc /\ absCsr' = absCsr /\ absMem' = absMem
      /\ ~RdWrite(in) => absRegs' = absRegs
  BY Plainly DEF IsCsr, MemWrite
<1>2. absPc' = Machine!Step
  BY <1>1, StraightOn DEF IsCf, IsJump
<1>3. Written_rd = ex_result
  BY DEF Written_rd, MemRead, IsJump, IsCsr
<1>4. in.kind # "fence" => Machine!SetReg(ex_result)
  BY <1>3, SetsRd DEF RdWrite
<1>5. in.kind = "op" => ex_result = Machine!AluRef(in.op, Machine!Rs1, Machine!Rs2)
  BY <1>1, AluSeen DEF ex_result, ex_is_muldiv, IsMulDiv
<1>6. in.kind = "opimm" => ex_result = Machine!AluRef(in.op, Machine!Rs1, in.imm)
  BY <1>1, AluSeen DEF ex_result, ex_is_muldiv, IsMulDiv
<1>7. in.kind = "lui" => ex_result = in.imm
  BY <1>1, AluSeen DEF ex_result, ex_is_muldiv, IsMulDiv
<1>8. in.kind = "auipc" => ex_result = Machine!Trunc(absPc + in.imm)
  BY <1>1, AluSeen, SameFields, InEx DEF ex_result, ex_is_muldiv, IsMulDiv
<1>9. in.kind = "mul" => ex_result = Machine!MulRef(in.op, Machine!Rs1, Machine!Rs2)
  BY UnitResult DEF IsMulDiv
<1>10. in.kind = "div" => ex_result = Machine!DivRef(in.op, Machine!Rs1, Machine!Rs2)
  BY UnitResult DEF IsMulDiv
<1>11. in.kind = "fence" => UNCHANGED absRegs
  BY <1>1 DEF RdWrite
<1>12. QED
  BY <1>1, <1>2, <1>4, <1>5, <1>6, <1>7, <1>8, <1>9, <1>10, <1>11 DEF Machine!Compute

LEMMA DoesLoad ==
    ASSUME TypeOK, FetchInv, CodeInv, MemInv, OperandInv, Clock,
           ex_tick, NoReserved, id_ex.instr.kind = "load"
    PROVE  Machine!Load
<1> DEFINE in == id_ex.instr
<1>1. /\ ~Machine!IsIllegal(Machine!i) /\ Machine!i = in /\ id_ex.valid
      /\ absPc' = OutcomePc /\ absCsr' = absCsr /\ absMem' = absMem
  BY Plainly DEF IsCsr, MemWrite
<1>2. absPc' = Machine!Step
  BY <1>1, StraightOn DEF IsCf, IsJump
<1>3. ex_result = Trunc(Machine!Rs1 + in.imm)
  BY <1>1, AluSeen DEF ex_result, ex_is_muldiv, IsMulDiv
<1>4. Written_rd = LoadRef(absMem, MemSize(in), MemUnsigned(in), ex_result)
  BY DEF Written_rd, MemRead
<1>5. Machine!SetReg(Written_rd)
  BY SetsRd DEF RdWrite
<1>6. QED
  BY <1>1, <1>2, <1>3, <1>4, <1>5, SameFields, SameMemory DEF Machine!Load

LEMMA DoesStore ==
    ASSUME TypeOK, FetchInv, CodeInv, MemInv, OperandInv, Clock,
           ex_tick, NoReserved, id_ex.instr.kind = "store"
    PROVE  Machine!Store
<1> DEFINE in == id_ex.instr
<1>1. /\ ~Machine!IsIllegal(Machine!i) /\ Machine!i = in /\ id_ex.valid
      /\ absPc' = OutcomePc /\ absCsr' = absCsr /\ absRegs' = absRegs
  BY Plainly DEF IsCsr, RdWrite
<1>2. absPc' = Machine!Step
  BY <1>1, StraightOn DEF IsCf, IsJump
<1>3. ex_result = Trunc(Machine!Rs1 + in.imm)
  BY <1>1, AluSeen DEF ex_result, ex_is_muldiv, IsMulDiv
<1>4. fwd_rs2 = Machine!Rs2
  BY <1>1, OperandsSeen DEF IsMulDiv, UsesRs2
<1>5. absMem' = StoreRef(absMem, MemSize(in), ex_result, fwd_rs2)
  BY TickState DEF MemWrite
<1>6. QED
  BY <1>1, <1>2, <1>3, <1>4, <1>5, SameFields, SameMemory DEF Machine!Store

LEMMA DoesBranch ==
    ASSUME TypeOK, FetchInv, CodeInv, MemInv, OperandInv, Clock,
           ex_tick, NoReserved, id_ex.instr.kind = "branch"
    PROVE  Machine!Branch
<1> DEFINE in == id_ex.instr
<1>1. /\ Machine!i = in /\ id_ex.valid /\ absPc' = OutcomePc
      /\ absCsr' = absCsr /\ absMem' = absMem /\ absRegs' = absRegs
  BY Plainly DEF IsCsr, MemWrite, RdWrite
<1>2. br_taken_raw <=> Machine!BranchRef(in.op, Machine!Rs1, Machine!Rs2)
  BY <1>1, AluSeen, SameBranch
<1>3. OutcomePc = IF br_taken_raw THEN Trunc(id_ex.pc + in.imm) ELSE ex_fallthrough
  BY <1>1 DEF OutcomePc, ex_is_cf, IsCf, IsJump, ex_actual_taken, ex_actual_target
<1>4. QED
  BY <1>1, <1>2, <1>3, InEx, SameFields DEF Machine!Branch

LEMMA DoesJump ==
    ASSUME TypeOK, FetchInv, CodeInv, MemInv, OperandInv, Clock,
           ex_tick, NoReserved, IsJump(id_ex.instr)
    PROVE  Machine!Jump
<1> DEFINE in == id_ex.instr
<1>0. in.kind \in {"jal", "jalr"}
  BY DEF IsJump
<1>1. /\ ~Machine!IsIllegal(Machine!i) /\ Machine!i = in /\ id_ex.valid
      /\ absPc' = OutcomePc /\ absCsr' = absCsr /\ absMem' = absMem
  BY <1>0, Plainly DEF IsCsr, MemWrite
<1>2. OutcomePc = IF in.kind = "jal" THEN Trunc(id_ex.pc + in.imm) ELSE AlignDown(alu_result, 2)
  BY <1>0, <1>1 DEF OutcomePc, ex_is_cf, IsCf, IsJump, ex_actual_taken, ex_actual_target
<1>3. in.kind = "jalr" => alu_result = Trunc(Machine!Rs1 + in.imm)
  BY <1>1, AluSeen
<1>4. Written_rd = Machine!Step
  BY <1>0, <1>1, InEx DEF Written_rd, MemRead, IsJump
<1>5. Machine!SetReg(Written_rd)
  BY <1>0, SetsRd DEF RdWrite
<1>6. Machine!IsJump(Machine!i)
  BY <1>1, SameFields
<1>7. QED
  BY <1>0, <1>1, <1>2, <1>3, <1>4, <1>5, <1>6, InEx, SameFields DEF Machine!Jump

LEMMA DoesCsr ==
    ASSUME TypeOK, FetchInv, CodeInv, MemInv, OperandInv, Clock,
           ex_tick, NoReserved, IsCsr(id_ex.instr)
    PROVE  Machine!CsrAccess
<1> DEFINE in == id_ex.instr
           counters == {"mcycle", "minstret", "br_exec", "br_misp"}
<1>0. in.kind \in {"csr", "csri"}
  BY DEF IsCsr
<1>1. /\ Machine!i = in /\ id_ex.valid /\ absPc' = OutcomePc /\ absMem' = absMem
  BY <1>0, Plainly DEF MemWrite
<1>2. absPc' = Machine!Step
  BY <1>0, <1>1, StraightOn DEF IsCf, IsJump
<1>3. Written_rd = csr_rdata
  BY <1>0 DEF Written_rd, MemRead, IsJump, IsCsr
<1>4. Machine!SetReg(csr_rdata)
  BY <1>0, <1>3, SetsRd DEF RdWrite
<1>5. in.csr \in CsrName /\ csr \in Csr!CsrType /\ mip_in \in Word
  BY Typed, InstructionFields, PinAssumption DEF FieldTypes, TypeOK
<1>6. csr_rdata \in IF in.csr \in counters THEN Word
                    ELSE {Machine!File!CsrRead(absCsr, in.csr, mip_in)}
  <2>1. csr_rdata \in Word
    BY <1>5, CsrReadInWord DEF csr_rdata
  <2>2. in.csr \notin counters => csr_rdata = Csr!CsrRead(absCsr, in.csr, mip_in)
    <3>1. absCsr = Hidden(csr)
      BY DEF absCsr, Hidden
    <3>2. QED
      BY <1>5, <3>1, HiddenRead DEF csr_rdata
  <2>3. QED
    BY <2>1, <2>2, SameCsr
<1>7. csr_rmask = IF in.kind = "csri" THEN in.imm ELSE Machine!Rs1
  BY <1>0, <1>1, OperandsSeen DEF csr_rmask, IsMulDiv, UsesRs1
<1>8. ~trap_valid /\ ~ex_mret
  BY <1>0, <1>1 DEF NoReserved, IsIllegal, ex_trap, ex_mret, trap_valid, irq_take, pipe_empty
<1>9. absCsr' = IF in.op = "rw" \/ csr_rmask # 0
                THEN Machine!File!CsrWrite(absCsr, in.csr, Machine!File!CsrRmw(in.op, csr_rdata, csr_rmask))
                ELSE absCsr
  BY <1>1, <1>8, CsrQuiet, CsrWritten, SameCsr DEF csr_we_ex, csr_wdata
<1>10. Machine!IsCsr(Machine!i) /\ Machine!Word = Word
  BY <1>1, SameFields DEF Machine!Word, Word, Machine!Base, Base
<1>11. QED
  BY <1>1, <1>2, <1>4, <1>6, <1>7, <1>9, <1>10 DEF Machine!CsrAccess

LEMMA DoesTrap ==
    ASSUME TypeOK, FetchInv, CodeInv, MemInv, Clock, ex_tick, NoReserved, ex_trap
    PROVE  Machine!Trap
<1> DEFINE in == id_ex.instr
<1>1. id_ex.valid /\ ~ex_muldiv_stall /\ ~mem_hold /\ ~backend_hold
  BY DEF ex_tick, backend_hold
<1>2. in.kind \in {"illegal", "ecall", "ebreak"} /\ (IsIllegal(in) <=> in.kind = "illegal")
  BY <1>1 DEF NoReserved, IsIllegal, ex_trap
<1>3. Machine!i = in /\ absPc = id_ex.pc /\ (Machine!IsIllegal(in) <=> in.kind = "illegal")
  BY <1>1, <1>2, InEx, SameFields
<1>4. absPc' = absCsr.mtvec
  BY <1>1, TickPc, CsrSeen
<1>5. absMem' = absMem /\ absRegs' = absRegs
  BY <1>2, TickState DEF MemWrite, RdWrite
<1>6. absCsr' = Entered(absCsr, ex_trap_cause, absPc, ex_trap_tval)
  BY <1>3, CsrTrapped DEF trap_valid
<1>7. Machine!Enter(ex_trap_cause, ex_trap_tval)
  BY <1>6 DEF Machine!Enter, Entered
<1>8. /\ in.kind = "illegal" => ex_trap_cause = 2 /\ ex_trap_tval = in.imm
      /\ in.kind = "ecall" => ex_trap_cause = 11 /\ ex_trap_tval = 0
      /\ in.kind = "ebreak" => ex_trap_cause = 3 /\ ex_trap_tval = 0
  BY <1>2 DEF ex_trap_cause, ex_trap_tval
<1>9. QED
  BY <1>2, <1>3, <1>4, <1>5, <1>7, <1>8 DEF Machine!Trap

LEMMA DoesMret ==
    ASSUME TypeOK, FetchInv, CodeInv, MemInv, Clock, ex_tick, NoReserved, ex_mret
    PROVE  Machine!Mret
<1>1. id_ex.valid /\ ~ex_muldiv_stall /\ ~mem_hold /\ ~backend_hold
  BY DEF ex_tick, backend_hold
<1>2. id_ex.instr.kind = "mret" /\ ~ex_trap
  BY <1>1 DEF ex_mret, ex_trap, NoReserved, IsIllegal
<1>3. absPc' = absCsr.mepc
  BY <1>1, <1>2, TickPc, CsrSeen
<1>4. absMem' = absMem /\ absRegs' = absRegs
  BY <1>2, TickState DEF MemWrite, RdWrite
<1>5. ~trap_valid
  BY <1>1, <1>2 DEF trap_valid, irq_take, pipe_empty
<1>6. absCsr' = [absCsr EXCEPT !.MIE = absCsr.MPIE, !.MPIE = TRUE]
  BY <1>5, CsrReturned DEF Returned
<1>7. QED
  BY <1>1, <1>2, <1>3, <1>4, <1>6, InEx DEF Machine!Mret

LEMMA TickExecutes ==
    ASSUME TypeOK, FetchInv, CodeInv, MemInv, OperandInv, UnitsInv, UnitInv, Clock,
           ex_tick, NoReserved
    PROVE  Machine!Execute
<1>1. id_ex.valid /\ id_ex.instr.kind \in Kind
  BY Typed, InstructionFields DEF FieldTypes, ex_tick
<1>2. CASE id_ex.instr.kind \in {"op", "opimm", "lui", "auipc", "mul", "div", "fence"}
  BY <1>2, DoesCompute DEF Machine!Execute
<1>3. CASE id_ex.instr.kind \in {"load", "store", "branch"}
  BY <1>3, DoesLoad, DoesStore, DoesBranch DEF Machine!Execute
<1>4. CASE id_ex.instr.kind \in {"jal", "jalr"}
  BY <1>4, DoesJump DEF Machine!Execute, IsJump
<1>5. CASE id_ex.instr.kind \in {"csr", "csri"}
  BY <1>5, DoesCsr DEF Machine!Execute, IsCsr
<1>6. CASE id_ex.instr.kind \in {"illegal", "ecall", "ebreak"}
  BY <1>1, <1>6, DoesTrap DEF Machine!Execute, ex_trap, IsIllegal
<1>7. CASE id_ex.instr.kind = "mret"
  BY <1>1, <1>7, DoesMret DEF Machine!Execute, ex_mret
<1>8. QED
  BY <1>1, <1>2, <1>3, <1>4, <1>5, <1>6, <1>7 DEF Kind

-----------------------------------------------------------------------------
(* The other clocks *)

LEMMA TakesInterrupt ==
    ASSUME TypeOK, MemInv, Clock, irq_take PROVE Machine!Interrupt
<1>1. ~id_ex.valid /\ ~if_id.valid /\ ~ex_mem.valid /\ ~ex_trap /\ irq_armed
  BY DEF irq_take, pipe_empty, ex_trap
<1>2. if_flush /\ trap_valid /\ ~mem_hold /\ ~ex_tick
  BY <1>1 DEF if_flush, trap_valid, mem_hold, ex_tick
<1>3. absRegs' = absRegs /\ absMem' = absMem
  BY <1>2, QuietState
<1>4. absPc' = absCsr.mtvec
  BY <1>2, FlushedPc, CsrSeen DEF pc_next
<1>5. absPc = irq_mepc
  BY <1>1 DEF absPc, irq_mepc
<1>6. absCsr' = Entered(absCsr, Csr!IrqCause(Csr!IrqId(mip_in, csr)), absPc, 0)
  BY <1>1, <1>2, <1>5, CsrTrapped
<1>7. ASSUME NEW n PROVE Machine!Pending(n) <=> Bit(mip_in, n) /\ Bit(csr.mie, n)
  BY SameFields, CsrSeen DEF Machine!Pending
<1>8. ASSUME NEW n \in {MSI_BIT, MTI_BIT, MEI_BIT}
      PROVE  Machine!Pending(n) <=> n \in Csr!IrqEnabled(mip_in, csr)
  BY <1>7, SameWords DEF Csr!IrqEnabled
<1>9. Csr!IrqEnabled(mip_in, csr) # {}
  BY <1>1 DEF irq_armed
<1>10. \E n \in {MSI_BIT, MTI_BIT, MEI_BIT} : n \in Csr!IrqEnabled(mip_in, csr)
  BY <1>9 DEF Csr!IrqEnabled
<1>11. Csr!IrqId(mip_in, csr) = IF Machine!Pending(MEI_BIT) THEN 11
                                ELSE IF Machine!Pending(MSI_BIT) THEN 3 ELSE 7
  BY <1>8 DEF Csr!IrqId
<1>12. \A n \in {3, 7, 11} : Csr!IrqCause(n) = 2^(XLEN - 1) + n
  BY Causes
<1>13. absCsr.MIE
  BY <1>1, CsrSeen DEF irq_armed
<1>14. \E n \in {3, 7, 11} :
          /\ Machine!Enter(2^(XLEN - 1) + n, 0)
          /\ n = IF Machine!Pending(MEI_BIT) THEN 11
                 ELSE IF Machine!Pending(MSI_BIT) THEN 3 ELSE 7
  <2>1. PICK n \in {3, 7, 11} : n = Csr!IrqId(mip_in, csr)
    BY <1>11
  <2>2. absCsr' = Entered(absCsr, 2^(XLEN - 1) + n, absPc, 0)
    BY <1>6, <1>12, <2>1
  <2>3. Machine!Enter(2^(XLEN - 1) + n, 0)
    BY <2>2 DEF Machine!Enter, Entered
  <2>4. QED
    BY <1>11, <2>1, <2>3
<1>15. \/ Machine!Pending(MEI_BIT) \/ Machine!Pending(MSI_BIT) \/ Machine!Pending(MTI_BIT)
  BY <1>8, <1>10
<1>16. QED
  BY <1>3, <1>4, <1>13, <1>14, <1>15 DEF Machine!Interrupt

\* A trap, a return or a jump leaves EX although MEM waits.
LEMMA FlushedExecutes ==
    ASSUME TypeOK, FetchInv, CodeInv, MemInv, OperandInv, Clock,
           ~ex_tick, if_flush, ~mem_hold, ~irq_take, NoReserved, RedirectsRetire
    PROVE  Machine!Execute
<1> DEFINE in == id_ex.instr
<1>1. id_ex.valid /\ (ex_trap \/ ex_mret \/ ex_redirect)
  BY DEF if_flush, ex_trap, ex_mret, ex_redirect, ex_misp_raw
<1>2. ~ex_muldiv_stall /\ (dmem_stall \/ imem_wait_eff)
  BY <1>1 DEF ex_tick, ex_redirect, ex_muldiv_stall, ex_is_muldiv, IsMulDiv, ex_trap, ex_mret,
              NoReserved, IsIllegal
<1>3. absMem' = absMem /\ absRegs' = absRegs
  BY QuietState
<1>4. Machine!i = in /\ absPc = id_ex.pc /\ Machine!Step = ex_fallthrough
  BY <1>1, InEx
<1>5. absPc' = IF ex_trap THEN absCsr.mtvec ELSE IF ex_mret THEN absCsr.mepc ELSE OutcomePc
  BY <1>1, <1>2, TickPc, CsrSeen
<1>6. CASE ex_trap
  <2>1. in.kind \in {"illegal", "ecall", "ebreak"} /\ (IsIllegal(in) <=> in.kind = "illegal")
    BY <1>1, <1>6 DEF NoReserved, IsIllegal, ex_trap
  <2>2. absCsr' = Entered(absCsr, ex_trap_cause, absPc, ex_trap_tval)
    BY <1>4, <1>6, CsrTrapped DEF trap_valid
  <2>3. Machine!Enter(ex_trap_cause, ex_trap_tval)
    BY <2>2 DEF Machine!Enter, Entered
  <2>4. /\ in.kind = "illegal" => ex_trap_cause = 2 /\ ex_trap_tval = in.imm
        /\ in.kind = "ecall" => ex_trap_cause = 11 /\ ex_trap_tval = 0
        /\ in.kind = "ebreak" => ex_trap_cause = 3 /\ ex_trap_tval = 0
    BY <2>1 DEF ex_trap_cause, ex_trap_tval
  <2>5. Machine!IsIllegal(in) <=> in.kind = "illegal"
    BY <2>1, SameFields
  <2>6. Machine!Trap
    BY <1>3, <1>4, <1>5, <1>6, <2>1, <2>3, <2>4, <2>5 DEF Machine!Trap
  <2>7. QED
    BY <2>6 DEF Machine!Execute
<1>7. CASE ~ex_trap /\ ex_mret
  <2>1. absCsr' = [absCsr EXCEPT !.MIE = absCsr.MPIE, !.MPIE = TRUE]
    BY <1>7, CsrReturned DEF Returned, trap_valid
  <2>2. Machine!Mret
    BY <1>3, <1>4, <1>5, <1>7, <2>1 DEF Machine!Mret, ex_mret
  <2>3. QED
    BY <2>2 DEF Machine!Execute
<1>8. CASE ~ex_trap /\ ~ex_mret
  <2>1. in.kind = "branch" \/ (IsJump(in) /\ in.rd = 0)
    BY <1>1, <1>2, <1>8 DEF RedirectsRetire
  <2>2. absPc' = OutcomePc
    BY <1>5, <1>8
  <2>3. absCsr' = absCsr
    BY <1>8, <2>1, CsrQuiet DEF trap_valid, csr_we_ex, IsCsr, IsJump
  <2>4. CASE in.kind = "branch"
    <3>1. br_taken_raw <=> Machine!BranchRef(in.op, Machine!Rs1, Machine!Rs2)
      BY <1>1, <2>4, AluSeen, SameBranch
    <3>2. OutcomePc = IF br_taken_raw THEN Trunc(id_ex.pc + in.imm) ELSE ex_fallthrough
      BY <1>1, <2>4 DEF OutcomePc, ex_is_cf, IsCf, IsJump, ex_actual_taken, ex_actual_target
    <3>3. Machine!Branch
      BY <1>3, <1>4, <2>2, <2>3, <2>4, <3>1, <3>2, SameFields DEF Machine!Branch
    <3>4. QED
      BY <3>3 DEF Machine!Execute
  <2>5. CASE IsJump(in) /\ in.rd = 0
    <3>1. in.kind \in {"jal", "jalr"}
      BY <2>5 DEF IsJump
    <3>2. OutcomePc = IF in.kind = "jal" THEN Trunc(id_ex.pc + in.imm)
                                         ELSE AlignDown(alu_result, 2)
      BY <1>1, <3>1 DEF OutcomePc, ex_is_cf, IsCf, IsJump, ex_actual_taken, ex_actual_target
    <3>3. in.kind = "jalr" => alu_result = Trunc(Machine!Rs1 + in.imm)
      BY <1>1, AluSeen
    <3>4. Machine!SetReg(Machine!Step)
      BY <1>3, <1>4, <2>5 DEF Machine!SetReg
    <3>5. Machine!IsJump(in) /\ ~Machine!IsIllegal(in)
      BY <1>1, <2>5, <3>1, SameFields DEF NoReserved, IsIllegal
    <3>6. Machine!Jump
      BY <1>3, <1>4, <2>2, <2>3, <3>1, <3>2, <3>3, <3>4, <3>5, SameFields DEF Machine!Jump
    <3>7. QED
      BY <3>6 DEF Machine!Execute
  <2>6. QED
    BY <2>1, <2>4, <2>5
<1>9. QED
  BY <1>6, <1>7, <1>8

\* Nothing leaves EX: waits, holds, bubbles and the cycles a drain takes.
LEMMA NothingLeaves ==
    ASSUME TypeOK, MemInv, Clock, ~ex_tick, ~irq_take, ~if_flush \/ mem_hold, NoTrapHeld
    PROVE  Machine!Lines
<1>1. absMem' = absMem /\ absRegs' = absRegs
  BY QuietState
<1>2. if_flush => id_ex.valid
  BY DEF if_flush, ex_trap, ex_mret, ex_redirect, ex_misp_raw
<1>3. ~ex_trap /\ ~ex_mret
  BY <1>2 DEF if_flush, NoTrapHeld
<1>4. ~csr_we_ex
  <2>1. ASSUME csr_we_ex PROVE backend_hold
    <3>1. id_ex.valid /\ ~ex_muldiv_stall
      BY <2>1 DEF csr_we_ex, ex_muldiv_stall, ex_is_muldiv, IsCsr, IsMulDiv
    <3>2. QED
      BY <3>1 DEF ex_tick, backend_hold
  <2>2. QED
    BY <2>1 DEF NoTrapHeld, csr_we_ex
<1>5. absCsr' = absCsr
  BY <1>3, <1>4, CsrQuiet DEF trap_valid
<1>6. absPc' = absPc
  <2>1. CASE IdExHold
    BY <1>2, <2>1, HeldPc
  <2>2. CASE ~IdExHold
    <3>1. ~if_flush /\ ~id_ex.valid
      BY <2>2 DEF IdExHold, ex_tick
    <3>2. QED
      BY <2>2, <3>1, AdvancedPc, AbsPcBehind
  <2>3. QED
    BY <2>1, <2>2
<1>7. QED
  BY <1>1, <1>5, <1>6 DEF Machine!Lines

\* Every clock is a step of the instruction set.
LEMMA ClockRefines ==
    ASSUME TypeOK, FetchInv, CodeInv, MemInv, OperandInv, UnitsInv, UnitInv, Orderly, Clock
    PROVE  Machine!Next
<1>1. Machine!Execute \/ Machine!Interrupt \/ Machine!Lines
  BY TickExecutes, TakesInterrupt, FlushedExecutes, NothingLeaves DEF Orderly
<1>2. mip_in' \in MipValues /\ UNCHANGED prog
  BY DEF Clock, Pins
<1>3. QED
  BY <1>1, <1>2 DEF Machine!Next

-----------------------------------------------------------------------------
(* The theorem *)

\* What holds whatever the pins and the program do.
Sound == TypeOK /\ SplitFetchContiguous /\ NoLoadUseInEx /\ FetchInv /\ UnitsInv

\* What holds as long as the clocks are orderly.
Faithful == CodeInv /\ MemInv /\ OperandInv /\ UnitInv

LEMMA SoundAlways == Spec => []Sound
<1>1. TypeOK /\ SplitFetchContiguous /\ NoLoadUseInEx /\ FetchInv /\ UnitsInv => Sound
  BY DEF Sound
<1>2. QED
  BY <1>1, Types, SplitFetch, LoadUse, FetchAlways, UnitsAlways, PTL

LEMMA FaithfulStarts == Init => Faithful
<1> SUFFICES ASSUME Init PROVE Faithful
  OBVIOUS
<1>1. CodeInv
  BY DEF Init, IfIdBubble, IdExBubble, NoFbuf, CodeInv, Exact
<1>2. MemInv
  BY DEF Init, ExMemBubble, MemInv
<1>3. OperandInv
  BY DEF Init, IdExBubble, OperandInv
<1>4. UnitInv
  BY DEF Init, MulInit, MulReset, DivInit, DivReset, UnitInv, UnitOn
<1>5. QED
  BY <1>1, <1>2, <1>3, <1>4 DEF Faithful

LEMMA FaithfulClock ==
    ASSUME Sound, Sound', Faithful, PortsSeparate, Clock PROVE Faithful'
<1>1. CodeInv'
  BY CodeClock DEF Sound, Faithful
<1>2. MemInv'
  BY MemClock DEF Sound, Faithful
<1>3. OperandInv'
  BY OperandsCaptured, OperandsHeld DEF Sound, Faithful
<1>4. UnitInv'
  BY UnitClock DEF Sound, Faithful
<1>5. QED
  BY <1>1, <1>2, <1>3, <1>4 DEF Faithful

\* The architectural state between two clocks.
LEMMA SameState ==
    ASSUME UNCHANGED vars
    PROVE  /\ absPc' = absPc /\ absRegs' = absRegs /\ absMem' = absMem /\ absCsr' = absCsr
           /\ fwd_rs1' = fwd_rs1 /\ fwd_rs2' = fwd_rs2
<1>1. /\ prog' = prog /\ pc' = pc /\ fbuf' = fbuf /\ if_id' = if_id /\ id_ex' = id_ex
      /\ ex_mem' = ex_mem /\ mem_wb' = mem_wb /\ mem_xword' = mem_xword
      /\ mem_rdata0' = mem_rdata0 /\ csr' = csr /\ regs' = regs /\ dmem' = dmem
  BY DEF vars, pipeline
<1>2. absPc' = absPc /\ absCsr' = absCsr
  BY <1>1 DEF absPc, absCsr
<1>3. mem_wdata_sel' = mem_wdata_sel
  BY <1>1 DEF mem_wdata_sel, mem_load_data, dmem_rdata, dmem_addr, ex_mem_link_addr
<1>4. ex_mem_final' = ex_mem_final /\ rf_we' = rf_we
  BY <1>1, <1>3 DEF ex_mem_final, rf_we
<1>5. absRegs' = absRegs
  BY <1>1, <1>4 DEF absRegs
<1>6. absMem' = absMem
  BY <1>1 DEF absMem
<1>7. fwd_rs1' = fwd_rs1 /\ fwd_rs2' = fwd_rs2
  BY <1>1, <1>4 DEF fwd_rs1, fwd_rs2, Forward, ExMemForwards, MemWbForwards, ex_mem_fwd_data,
                    ex_mem_link_addr
<1>8. QED
  BY <1>2, <1>5, <1>6, <1>7

LEMMA FaithfulStutters == ASSUME Faithful, UNCHANGED vars PROVE Faithful'
<1>1. /\ prog' = prog /\ fbuf' = fbuf /\ if_id' = if_id /\ id_ex' = id_ex /\ ex_mem' = ex_mem
      /\ mem_xword' = mem_xword /\ mem_rdata0' = mem_rdata0 /\ dmem' = dmem
      /\ mul' = mul /\ div' = div /\ ex_muldiv_started' = ex_muldiv_started
  BY DEF vars, pipeline
<1>2. CodeInv'
  BY <1>1 DEF Faithful, CodeInv, Exact
<1>3. MemInv'
  BY <1>1 DEF Faithful, MemInv, FirstBeatDone, StoredA
<1>4. OperandInv' /\ UnitInv'
  BY <1>1, SameState DEF Faithful, OperandInv, UnitInv, UnitOn
<1>5. QED
  BY <1>2, <1>3, <1>4 DEF Faithful

LEMMA FaithfulNext ==
    Sound /\ Sound' /\ Faithful /\ Orderly /\ [Next]_vars => Faithful'
BY FaithfulClock, FaithfulStutters DEF Orderly, Next

LEMMA StepRefines ==
    Sound /\ Faithful /\ Orderly /\ [Next]_vars => [Machine!Next]_(Machine!vars)
<1>1. ASSUME UNCHANGED vars PROVE UNCHANGED Machine!vars
  BY <1>1, SameState DEF vars, pins, Machine!vars
<1>2. Sound /\ Faithful /\ Orderly /\ Clock => Machine!Next
  BY ClockRefines DEF Sound, Faithful
<1>3. QED
  BY <1>1, <1>2 DEF Next

LEMMA InitRefines == Init => Machine!Init
<1> SUFFICES ASSUME Init PROVE Machine!Init
  OBVIOUS
<1>1. regs \in [Reg -> Word] /\ 0 \in Reg
  BY StartTyped, ConstantsInRange DEF TypeOK
<1>2. absRegs = [regs EXCEPT ![0] = 0]
  BY <1>1 DEF Init, absRegs, ExMemBubble, MemWbBubble, rf_we
<1>3. absMem = dmem /\ absPc = 0
  BY DEF Init, absMem, absPc, ExMemBubble, IdExBubble, IfIdBubble, NoFbuf
<1>4. absCsr = Machine!File!CsrReset
  <2>1. csr = Csr!CsrReset /\ csr \in Csr!CsrType
    BY StartTyped DEF Init, Csr!CsrInit, TypeOK
  <2>2. csr.mcycle = 0 /\ csr.minstret = 0 /\ csr.br_exec = 0 /\ csr.br_misp = 0
    BY <2>1 DEF Csr!CsrReset
  <2>3. absCsr = csr
    BY <2>1, <2>2 DEF absCsr, Csr!CsrType
  <2>4. QED
    BY <2>1, <2>3, SameCsr
<1>5. QED
  BY <1>2, <1>3, <1>4 DEF Init, Machine!Init

(* The pipeline executes the instruction set (rtl/rv32imc_top.v against    *)
(* the machine of Isa.tla): its clocks are the instructions of the program *)
(* in order, the interrupts the file accepts, and clocks that change no    *)
(* architectural state, for every program, word size, register and memory  *)
(* content, prediction, and timing of the two ports and the interrupt      *)
(* lines.  Orderly leaves out the states just before the disagreements the *)
(* runs of MCFlaws exhibit, and nothing else: an I-port that waits at the  *)
(* clock a unit's result lets fetch go on, an rd that a redirect under a   *)
(* wait drops, a CSR write, trap or return that is held in EX, and a       *)
(* reserved encoding that still writes.                                    *)
THEOREM Refinement == Spec /\ []Orderly => ImplementsIsa
<1>1. Spec /\ []Orderly => []Faithful
  BY SoundAlways, FaithfulStarts, FaithfulNext, PTL DEF Spec
<1>2. Init => Machine!Init
  BY InitRefines
<1>3. QED
  BY <1>1, <1>2, SoundAlways, StepRefines, PTL DEF Spec, ImplementsIsa, Machine!Spec

-----------------------------------------------------------------------------
(* Where every clock is orderly by itself: ports that do not wait, and     *)
(* programs that do not mix accesses that may cross a word with system     *)
(* instructions.                                                           *)

NoWaits == ImemWaits = {FALSE} /\ DmemWaits = {FALSE}

System(i) == i.kind \in {"csr", "csri", "ecall", "ebreak", "mret", "illegal"}

Unmixed == \A p \in Programs :
    /\ \A a \in Word : ~Code(p, a).illegal
    /\ \/ \A a \in Word : ~System(Code(p, a))
       \/ \A a \in Word : IsMem(Code(p, a)) => MemSize(Code(p, a)) = "byte"

\* MEM holds the program's instruction too.
Placed == ex_mem.valid => ex_mem.instr = Code(prog, ex_mem.pc)

LEMMA PlacedNext == Sound /\ Faithful /\ Placed /\ [Next]_vars => Placed'
<1>1. ASSUME Placed, UNCHANGED vars PROVE Placed'
  BY <1>1 DEF vars, pipeline, Placed
<1>2. ASSUME Faithful, Placed, Clock PROVE Placed'
  <2>1. prog' = prog
    BY <1>2 DEF Clock
  <2>2. \/ ex_mem' = ex_mem \/ ex_mem' = ExMemBubble
        \/ id_ex.valid /\ ex_mem'.instr = id_ex.instr /\ ex_mem'.pc = id_ex.pc
    BY <1>2 DEF Clock, ExMem
  <2>3. QED
    BY <1>2, <2>1, <2>2 DEF Placed, Faithful, CodeInv, Exact, ExMemBubble
<1>3. QED
  BY <1>1, <1>2 DEF Next

LEMMA AlwaysOrderly ==
    ASSUME NoWaits, Unmixed PROVE Sound /\ Faithful /\ Placed => Orderly
<1> SUFFICES ASSUME Sound, Faithful, Placed PROVE Orderly
  OBVIOUS
<1>1. ~imem_wait /\ ~dmem_wait /\ prog \in Programs
  BY DEF Sound, TypeOK, NoWaits
<1>2. id_ex.valid => id_ex.pc \in Word /\ id_ex.instr = Code(prog, id_ex.pc)
  BY Typed DEF Sound, FieldTypes, Faithful, CodeInv, Exact
<1>3. ASSUME mem_hold, id_ex.valid PROVE ~System(id_ex.instr)
  <2>1. /\ ex_mem.valid /\ ex_mem.instr = Code(prog, ex_mem.pc) /\ ex_mem.pc \in Word
        /\ ex_mem.alu_result \in Word /\ ex_mem.instr \in Instruction
    BY <1>3, Typed DEF mem_hold, Placed, Sound, FieldTypes
  <2>2. IsMem(ex_mem.instr) /\ NeedXword(MemSize(ex_mem.instr), ex_mem.alu_result)
    BY <1>3, <2>1 DEF mem_hold, Faithful, MemInv
  <2>3. ~NeedXword("byte", ex_mem.alu_result)
    BY <2>1, LaneFacts DEF NeedXword
  <2>4. QED
    BY <1>1, <1>2, <1>3, <2>1, <2>2, <2>3 DEF Unmixed
<1>4. NoReserved
  BY <1>1, <1>2 DEF NoReserved, Unmixed
<1>5. backend_hold => mem_hold
  BY <1>1 DEF backend_hold, dmem_stall, imem_wait_eff
<1>6. NoTrapHeld
  BY <1>3, <1>4, <1>5 DEF NoTrapHeld, NoReserved, System, ex_trap, ex_mret, csr_we_ex, IsIllegal, IsCsr
<1>7. PortsSeparate /\ RedirectsRetire
  BY <1>1 DEF PortsSeparate, RedirectsRetire, dmem_stall, imem_wait_eff
<1>8. QED
  BY <1>4, <1>6, <1>7 DEF Orderly

(* With tightly coupled memories, which never wait, and programs that do   *)
(* not mix accesses of more than a byte with system instructions, nothing  *)
(* is left to assume: the pipeline executes the instruction set, whatever  *)
(* it forwards, stalls for, predicts, multiplies, divides and is           *)
(* interrupted by (rtl/rv32imc_top.v).                                     *)
THEOREM ZeroWaitRefinement == ASSUME NoWaits, Unmixed PROVE Spec => ImplementsIsa
<1>1. Init => Placed
  BY DEF Init, Placed, ExMemBubble
<1>2. Spec => []Orderly
  BY <1>1, SoundAlways, FaithfulStarts, FaithfulNext, PlacedNext, AlwaysOrderly, PTL DEF Spec
<1>3. QED
  BY <1>2, Refinement, PTL
=============================================================================
