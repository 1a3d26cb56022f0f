------------------------------ MODULE LsuSpec ------------------------------
(***************************************************************************)
(* The byte lanes at work: every access size, signedness, alignment and    *)
(* store value, in one or two beats, over a memory that wraps.             *)
(***************************************************************************)
EXTENDS Lsu

CONSTANT Memories   \* the contents memory may start with

\* Any set of them: DataMemory, all there are, is one.
ASSUME MemoriesAssumption == Memories \subseteq DataMemory

VARIABLES mem, mem0,            \* memory now and before the access
          size, uns, addr, data, write,
          xword, rdata0, result, phase

lvars == <<mem, mem0, size, uns, addr, data, write, xword, rdata0, result, phase>>

LanesInit ==
    /\ mem \in Memories /\ mem0 = mem
    /\ size \in {"word", "half", "byte"} /\ uns \in BOOLEAN
    /\ addr \in Word /\ write \in BOOLEAN
    /\ data \in IF write THEN Word ELSE {0}
    /\ xword = FALSE /\ rdata0 = [j \in Lane |-> 0] /\ result = 0 /\ phase = "request"

Access == <<mem0, size, uns, addr, data, write>>

StoreBeat ==
    mem' = IF write THEN WriteBeat(mem, BeatAddr(addr, xword), Strobe(size, addr, xword),
                                   WData(data, addr, xword))
                    ELSE mem

FirstBeat == /\ phase = "request" /\ NeedXword(size, addr) /\ ~xword
             /\ StoreBeat /\ rdata0' = ReadBeat(mem, BeatAddr(addr, FALSE)) /\ xword' = TRUE
             /\ UNCHANGED <<result, phase, Access>>

LastBeat == /\ phase = "request" /\ (NeedXword(size, addr) => xword)
            /\ StoreBeat /\ phase' = "done"
            /\ result' = LoadData(size, uns, addr, xword, rdata0,
                                  ReadBeat(mem, BeatAddr(addr, xword)))
            /\ UNCHANGED <<xword, rdata0, Access>>

Done == phase = "done" /\ UNCHANGED lvars

LanesNext == FirstBeat \/ LastBeat \/ Done
LanesSpec == LanesInit /\ [][LanesNext]_lvars

(* A load returns the bytes at its address, extended as its size says, and  *)
(* a store changes the bytes it names and no other, whether they lie in one *)
(* word or in two (rv32imc_top.v: mem_load_data, mem_strb0, mem_strb1,      *)
(* dmem_wdata).                                                             *)
LanesCorrect ==
    phase = "done" =>
        IF write THEN mem = StoreRef(mem0, size, addr, data)
                 ELSE mem = mem0 /\ result = LoadRef(mem0, size, uns, addr)
=============================================================================
