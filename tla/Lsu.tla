-------------------------------- MODULE Lsu --------------------------------
(***************************************************************************)
(* Byte lanes of the data port (MEM stage of rtl/rv32imc_top.v).  A memory *)
(* word has BPW bytes (4 in the core); an access that crosses a word       *)
(* boundary takes two beats, the second on the next word.                  *)
(* A beat's data is a function from lanes 0..BPW-1 to bytes.               *)
(***************************************************************************)
EXTENDS Words

CONSTANTS BPW,      \* bytes in a memory word
          BYTE,     \* number of values of a byte (256 in the core)
          DBYTES    \* bytes of data memory; addresses wrap (testbench memory)

\* The core has four bytes to a word; need_xword_d also serves two.  The
\* memory has a power of two of bytes.  The last line says of BYTE^n what the
\* provers have to be told.
ASSUME LsuAssumption == /\ BPW \in {2, 4} /\ BYTE \in Nat \ {0, 1}
                        /\ DBYTES \in Nat \ {0} /\ DBYTES % BPW = 0 /\ Base % DBYTES = 0
                        /\ BYTE^BPW = Base
                        /\ BYTE^0 = 1 /\ \A n \in 0 .. BPW - 1 : BYTE^(n + 1) = BYTE * BYTE^n

Byte   == 0 .. BYTE - 1
Lane   == 0 .. BPW - 1
Beat   == [Lane -> Byte]
DataMemory == [0 .. DBYTES - 1 -> Byte]

ByteOf(w, k)     == (w \div BYTE^k) % BYTE
FromBytes(f, n)  == SumBelow([k \in 0 .. n - 1 |-> f[k] * BYTE^k], n)

-----------------------------------------------------------------------------
(* Access sizes.  With BPW = 4: word = 4, half = 2, byte = 1. *)
NBytes(size) == CASE size = "word" -> BPW
                  [] size = "half" -> BPW \div 2
                  [] size = "byte" -> 1

Bsel(addr)  == addr % BPW
Word0(addr) == AlignDown(addr, BPW)

\* Mutant: a halfword never crosses.
NeedXwordWordOnly(size, addr) == size = "word" /\ Bsel(addr) # 0

\* need_xword_d: only a word off its alignment or a halfword at the last lane.
NeedXword(size, addr) ==
    \/ size = "word" /\ Bsel(addr) # 0
    \/ size = "half" /\ Bsel(addr) = BPW - 1

BeatAddr(addr, xword) == IF xword THEN Trunc(Word0(addr) + BPW) ELSE Word0(addr)

MemEnd(size, addr) == Bsel(addr) + NBytes(size)

\* mem_strb0 / mem_strb1: the lanes a store's beat writes.
Strobe(size, addr, xword) ==
    IF xword THEN {j \in Lane : j < MemEnd(size, addr) - BPW}
             ELSE {j \in Lane : Bsel(addr) <= j /\ j < MemEnd(size, addr)}

\* dmem_wdata: the store data shifted up in beat A, its remaining high bytes
\* in beat B.  Lanes outside the strobe are not looked at by the memory.
WData(data, addr, xword) ==
    [j \in Lane |-> IF xword THEN ByteOf(data, j + BPW - Bsel(addr))
                    ELSE IF j >= Bsel(addr) THEN ByteOf(data, j - Bsel(addr)) ELSE 0]

\* mem_r64 then mem_load_data: the bytes at bsel.. of word0 (and word1).
LoadData(size, uns, addr, xword, rdata0, rdata) ==
    LET r64 == [j \in 0 .. 2 * BPW - 1 |->
                   IF xword THEN IF j < BPW THEN rdata0[j] ELSE rdata[j - BPW]
                            ELSE IF j < BPW THEN rdata[j]  ELSE 0]
        n   == NBytes(size)
        raw == FromBytes([k \in 0 .. n - 1 |-> r64[Bsel(addr) + k]], n)
    IN  IF size # "word" /\ ~uns /\ 2 * raw >= BYTE^n THEN Trunc(raw - BYTE^n) ELSE raw

-----------------------------------------------------------------------------
(* The memory behind the port: combinational read, byte-enabled write.     *)
ReadBeat(mem, a) == [j \in Lane |-> mem[(a + j) % DBYTES]]

WriteBeat(mem, a, lanes, wdata) ==
    [x \in DOMAIN mem |->
        IF \E j \in lanes : x = (a + j) % DBYTES
        THEN wdata[CHOOSE j \in lanes : x = (a + j) % DBYTES] ELSE mem[x]]

-----------------------------------------------------------------------------
(* What an access means, byte by byte at the address it names.             *)
LoadRef(mem, size, uns, addr) ==
    LET n   == NBytes(size)
        raw == FromBytes([k \in 0 .. n - 1 |-> mem[(addr + k) % DBYTES]], n)
    IN  IF size # "word" /\ ~uns /\ 2 * raw >= BYTE^n THEN Trunc(raw - BYTE^n) ELSE raw

StoreRef(mem, size, addr, data) ==
    [x \in DOMAIN mem |->
        IF \E k \in 0 .. NBytes(size) - 1 : x = (addr + k) % DBYTES
        THEN ByteOf(data, CHOOSE k \in 0 .. NBytes(size) - 1 : x = (addr + k) % DBYTES)
        ELSE mem[x]]
=============================================================================
