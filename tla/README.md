# The RV32IMC core and its benchmark in TLA+

A verification development for the five-stage RV32IMC processor core in
`src/rtl`, for the CoreMark program and port in `src/verify/coremark` it is
measured with, and for the protocol by which that program ends a simulation. The
TLA+ modules model the pipeline clock by clock and the program loop turn by loop
turn; TLC checks that they implement what they are meant to; TLAPS proves that
the pipeline implements the instruction set, for every program, word size and
memory, that CoreMark's list kernel implements a list and leaves it as it was,
for every size and order of it, and what the units, the other kernels and the
port promise.

## 1. The system

### The core

`rv32imc_top.v` is one synchronous machine: five stages, registers between them,
and the units it instantiates. Nothing is asynchronous except the active-low
reset, and every behaviour is a sequence of clock edges. Its environment drives
five pins at every clock: read data and wait line of the instruction port, the
same of the data port, and the interrupt lines `mip_in`.

| Component | Source | State | Operations at a clock edge |
|---|---|---|---|
| IF: pc, split-fetch buffer, IF/ID | `rtl/rv32imc_top.v` 139-291 | `pc`, `fbuf`, `if_id` | fetch whole, set up or complete a split fetch, hold, drain, flush |
| ID: decode, interlocks, ID/EX | 293-622 | `id_ex` | capture, hold, bubble, flush |
| EX: forwarding, branch, redirect, CSR, traps | 625-862 | `ex_mem`, `ex_muldiv_started` | resolve, redirect, trap, start and await a unit |
| MEM: load/store, two-beat crossing accesses | 864-950 | `mem_xword`, `mem_rdata0`, `mem_wb` | one beat, second beat, wait |
| WB, register file | 952-963, `rtl/regfile.v` | `regs` | write, with bypass to ID |
| Branch predictor | `rtl/branch_pred.v` | `bht`, `btb`, `rd_addr` | look up at the registered address, train, allocate |
| CSR file | `rtl/csr.v` | the CSRs and four counters | count, enter a trap, return, write |
| Multipliers | `rtl/mul_div.v` 34-161 | `mul`, `mul3` | start, advance, finish, flush |
| Divider | `rtl/mul_div.v` 163-290 | `div` | accept, iterate, finish, flush |
| ALU, load/store lanes | `rtl/alu.v`, top 770-800 and 864-935 | none | combinational |
| Decoders | `rtl/compressed_decoder.v`, top 325-545 | none | combinational |

The components talk by wires within a clock, and that is where the difficulty
lies: six stall conditions (load-use and CSR interlocks, the mul/div wait, the
second beat of a crossing access, a wait on either port), four flushes
(mispredict, trap, mret, interrupt) and the interrupt drain may all be up at the
same clock, and each pipeline register ranks them for itself. Hard are

* *stalls that meet flushes*: a branch resolving in EX while an older access
  is stuck in MEM, while the instruction port waits, or while a unit runs;
* *side effects of an instruction that stays in EX*: CSR writes, trap entry,
  predictor training, counter ticks, unit starts;
* *prediction*: entries are found by word, so any instruction may be predicted
  taken to any address, and the prediction has to travel with the instruction;
* *split fetches*: a 32-bit instruction at an odd halfword takes two clocks;
* *one-clock pulses*: the units' `valid` may fall into a stall and be missed;
* *precise interrupts*: `mepc` is reconstructed from the drained front end;
* *encodings and arithmetic*: scattered immediates, sign extension, the restoring
  divider's extra bit, lanes of accesses that cross a word.

The core is correct if the pipeline executes one instruction after the other
(`ImplementsIsa`), and that rests on these: a word decodes to the signals of its
instruction; the front end fetches what was predicted; a unit's result is that
of its operands and belongs to the instruction in EX; a waiting request is held;
counters count once; interrupts are served and the pipeline never locks up.

### The program and its port

| Component | Source | State | Operations |
|---|---|---|---|
| List kernel | `coremark/src/core_list_join.c` | a block of list cells and data | build, find, reverse, move to front, remove and undo, merge sort with two comparison functions |
| State-machine kernel | `core_state.c` | a text, counts of states | build the text, scan, corrupt, scan, correct |
| Matrix kernel | `core_matrix.c` | three matrices | build, add a constant, four products, take it off again |
| CRC | `core_util.c` | none | 8, 16, 32 bits at a time |
| Main program | `core_main.c` | results, iterations, seconds, errors | size and lay out memory, init, calibrate, run, validate, report |
| Port | `coremark/port` | counters read at start and stop, log buffer | read counters, print to the log, scan it, report by tohost |
| Testbench | `verify/tb/tb_rv32imc.v` | `done`, clocks left; memories, wait generators, interrupt lines | monitor the stores to tohost, watchdog; drive the core's pins |

The main program calls the list kernel; its comparison function calls the two
other kernels and caches what they returned in the item it compares, so that the
order in which the sort compares decides how often they run, and their check
value enters the order. The port's report crosses to the testbench as stores to
one address, in halves of 16 bits, and the word 1 ends the simulation.

Hard are pointers rewired in place while the list is in several pieces; five
nested loops whose ends depend on data; data corrupted in place that has to be
restored exactly (16-bit wraps, XOR with exceptions); three blocks without
alignment; a clock of 32 bits that wraps in a measurement; a result read from
the text of a log that may be cut; and a monitor and a watchdog that are two
blocks on one clock edge. The program is correct if it computes the check values
it knows, leaves each structure as it found it, stays in its blocks and
ends; the port if its words say what the counters did and its result
is that of the comparison, and comes once, after the rest.

`PROJECT.json` lists the hazards line by line.

## 2. Modules

```
Words
 |- Alu  Lsu  MulDivRef  Multiplier  Divider  BranchPred   CsrFile
 |                            \         |        |         /
 |- Instructions ------------------- Core (one action per clock edge)
 |      |                              |
 |      |                 Isa  <==  CoreProperties --- CoreHistory
 |      |                              |                    |
 |      |                           MCCore                  |
 |      |                              |- MCPipeline        |
 |      |                              '- MCPowerUp --------'    MCFlaws
 |- Decoder -- DecoderSpec ------------------------------.
 '- LsuSpec, MulDivHistory -- MultiplierSpec, Multiplier3, DividerSpec -- MCUnits
Crc -- ListOps, CoreState, CoreMatrix -- CoreMark
                             ListSpec  <==  CoreMarkProperties -- MCCoreMark
EePrintf, Tohost -- Port -- PortProperties -- MCPort

Alu, Lsu          -- DatapathProofs -- UnitsProofs (with MCUnits)
                          |
CoreHistory       -- CoreProofs -- PipelineProofs -- RefinementProofs
MultiplierSpec, Multiplier3, DividerSpec -- MulDivProofs ----'
CoreMarkProperties -- CoreMarkProofs
PortProperties    -- PortProofs
```

| Module | What it is |
|---|---|
| `Words` | Machine words of `XLEN` bits as naturals: truncation, sign, bits. |
| `Alu`, `Lsu` | The combinational datapaths as the Verilog builds them, and reference definitions that say what they mean. |
| `MulDivRef`, `MulDivHistory` | What MUL* and DIV*/REM* mean; which operands a unit accepted last, and when. |
| `Instructions` | The instruction as data: its kind, operation, registers, immediate and size; each decode signal is an operator named as in the source (`UsesRs1`, `RdWrite`, `MemSize`, `WbSel` ...). |
| `Decoder` | The compressed decoder and the decode of the ID stage on sequences of bits, each concatenation and slice as in the Verilog. |
| `DecoderSpec` | The instructions' encodings the other way: each compressed instruction as the instruction it stands for, its immediate bit by bit from the manual's places, and the signals `Instructions` gives it. |
| `Multiplier`, `Multiplier3`, `Divider`, `BranchPred`, `CsrFile` | One unit each: its registers, its reset value and what its `always` block does. |
| `Core` | `rv32imc_top`: one definition per wire, under the source's name, and one per `always` block (`Pc`, `IfId`, `IdEx`, `ExMem`, `MemWb`, `Xword` ...). `Clock` is their conjunction, `Pins` chooses the next wait and interrupt lines, `Next` is both. |
| `Isa` | The abstract specification: pc, registers, memory, CSRs; one instruction, one interrupt, or a change of the interrupt lines per step. |
| `CoreProperties`, `CoreHistory` | Type invariant, refinement mapping, the states in which it holds (`Orderly`), invariants, action and liveness properties; counts of what left ID/EX. |
| `LsuSpec`, `MultiplierSpec`, `DividerSpec` | The byte lanes at work on an access of one or two beats, and the units in an environment that starts, stalls and flushes them at will. |
| `Crc` | The C integers of fixed width, and the CRC bit by bit. |
| `ListOps` | The heap and the pointer operations: insert, find, remove, undo, one turn of a reversal or a merge. |
| `CoreState`, `CoreMatrix` | The text, its patterns, the transition table and the corruption; the matrices and their products in 16 and 32 bits. |
| `CoreMark` | The program: `pc` names the loop it is in, an action is one turn of it or what happens between two loops. |
| `ListSpec` | The list kernel without pointers: a sequence that is permuted, sorted by value, loses an item, gets it back, is sorted by index and is what it was. |
| `CoreMarkProperties` | The properties, and two history variables: the data as the init functions left them, and the items when the current reversal or sort began; what some properties need of the inputs. |
| `EePrintf` | The log buffer, its appending, dropping and terminating, the printing of numbers, and the two scans of the final report. |
| `Tohost` | The stores to tohost, the monitor and the watchdog, in either order at a clock. |
| `Port`, `PortProperties` | `core_main.c` around the kernels with the port's clock, log and report, down to the result; the properties. |
| `DatapathProofs` | Lemmas about words: bits, the ALU's operations, the byte lanes; induction over the naturals for a set. |
| The other `*Proofs` | Theorems, each beside the module it is about (section 4). |
| `MC*` | Programs, inputs and the constants of each run. |

The definitions whose comment begins with "Mutant:" are bugs of a plausible
kind beside the definition they vary. No specification uses them; substituting
one for its definition makes the property it is listed with fail.

### How state and actions correspond to the code

A variable of `Core` is the group of registers its `always` block writes:
`id_ex.pred_taken` is `id_ex_pred_taken`. A primed assignment of an `always`
block keeps the block's order of tests; for instance `IdEx` is `IdExFlush` when
the flush wins, unchanged under `IdExHold`, a bubble under an interlock, and a
capture otherwise. A wire reads the unprimed variables, as combinational logic
reads the flip-flops.

In `CoreMark` a variable is a data structure (`heap`, `block`, `mat`) or the
locals of a function (`fr` of `core_bench_list`, `ms` of the merge sort, `st` of
`core_bench_state`). The merge sort's two comparison functions are its two merge
actions; a comparison that has to compute values goes on once `CalcData` has
computed one, which is `calc_func` with its cache in bit 7, and which is spread
over the scans when the kernel is the state machine. `matrix_test` touches nothing
but the matrices and is one step.

In `Port` an action is a call: `portable_init`, a timed run, the validation, a
line that is printed, a store to tohost. Time passes in the actions that run the
kernels, by the clocks of an iteration, which is part of the input.

### Abstractions

* *Instructions are data.* In `Core`, `Code(prog, a)` is the instruction at an
  address; the fetch path is modelled by where its halves come from. A split
  fetch whose two halves come from one instruction's two halfwords yields that
  instruction; anything else, and any word captured while `imem_wait` is up, yields
  `Junk`. `Decoder` is the way from a word to an instruction, and
  `DecodeCorrect` says that it gives what `Core` takes.
* *Bubbles are canonical.* Registers of a stage whose valid bit is 0 keep old
  data in the circuit. Every reader tests the valid bit first, so the model
  clears them; the same holds for the operands a unit keeps when it is idle.
* *mtval* of an illegal instruction is a value the instruction carries (`imm`).
* *Small machine.* In the runs of the core words have 6 bits, bytes 3, a data
  word two bytes, the register file three registers, the data memory four bytes.
  The instruction side keeps its geometry of 2- and 4-byte instructions in
  4-byte words. The CSR bit positions are constants so that they fit a word.
* *mcycle and minstret are counted modulo* `CNTMOD`. They are not architectural
  state of `Isa`.
* *Reset* is the initial state, and that leaves open what a reset in mid-run does
  not clear: registers, memories, the predictor's tables (`RegInits`,
  `MemInits`, `BhtInits`, `BtbInits`). A run that starts there is what happens
  after such a reset.
* *C memory is not bytes.* List cells and data are addressed by their position
  in the two arrays `core_list_init` carves out; `BlocksDisjoint` speaks of the
  bytes they take.
* *The log* has the characters the scans look at (an `ERROR` and a `crc` are one
  character each); every other text is `PLAIN` of its length in such units.

### What the abstract specifications promise

*Isa.* An instruction takes effect when it leaves EX. The abstract pc is the pc
of the oldest instruction at or before EX (`absPc`); the abstract registers and
memory are the real ones overlaid with what MEM and WB have still to write
(`absRegs`, `absMem`); the CSRs map to themselves without the counters. Every
clock is one step of `Isa` (an instruction, an interrupt, or a change of
the interrupt lines) or a stutter.

*ListSpec.* The abstract sequence is the items as they were when the current
reversal or sort began (`before`), so the turns in which the list is in pieces
stutter and the last one is the abstract step. `Sorts` demands a stable sort by
a key; the sort by value may leave an item with its value computed, the sort by
index rebuilds it.

## 3. What TLC checks

| Run | Question | Bounds |
|---|---|---|
| `MCUnits` | Does each instruction decode to its signals? Do the ALU, the branch decision and the byte lanes compute what they should, and are product, quotient and remainder right and on time under any order of starts and flushes? | all compressed halfwords with two different following ones, all kinds of 32-bit words, reserved ones included; 4-bit words of four one-bit bytes: every operand pair for the ALU, every access to eight contents of an eight-byte memory for the lanes (a byte is its own sign bit); six operands for the units (0, 1, 5, the largest, the smallest, -1), three for the three-stage multiplier |
| `MCHazards` | Does every mix of data hazards execute correctly while the data port waits, and are results missed in a stall computed again correctly? | all 2401 programs of four instructions over seven; waits of any length at any clock |
| `MCControl` | Does every mix of 2- and 4-byte control flow execute correctly, with tables of two entries that alias? | all 6561 programs of four over nine |
| `MCTraps` | Are traps, mret, CSR accesses and interrupts precise? | all 64 programs of two over eight, after a preamble and with a handler; three settings of the lines, changing at every clock |
| `MCWaits` | Do waits at any clock on both ports change nothing? | all 512 programs of three over eight with crossing accesses |
| `MCPowerUp` | Does correctness depend on what the predictor powers up with, and do the counters count once? | every counter value, tag and halfword target in one BHT and one BTB entry; ten programs chosen for mispredictions and all 49 pairs of seven instructions; counters modulo 8; no waits |
| `MCLive` | Is every interrupt served, and does the core always progress? | four looping programs (in `MCPipeline.tla`), waits on both ports, a line that moves |
| `MCCoreMark` | Are the known check values computed, every structure restored, the blocks kept, the list kernel a list, and does it end? | the five inputs `core_main.c` knows the results of, with the sizes and full 16- and 32-bit data, and 200 short runs (lists of 3 to 9 nodes, eight seeds, 0 to 6 finds) |
| `MCPort` | Does calibration do what it says, do the reported words tell what the counters did, is the result that of the comparisons, and does the run end once? | a 16-bit clock at 1526 ticks a second, which wraps after 42.9 seconds as 32 bits do at 100 MHz; iterations from the shortest to the longest the clock allows; counters that wrap or not; a log of 50, shorter than the longest output; the watchdog running out before, among and after the reports; one repeated store |
| `FlawRedirect`, `FlawTrap`, `FlawReserved` | Statements of the source the code does not keep (below). | one program each |

The bounds are enough for what they are for. A pipeline hazard involves at most
the instructions in flight, five of them; programs of three and four
instructions followed by a jump to itself, with every combination enumerated,
fill it with every pair and triple of the alphabet. Three registers (one of them
x0) give every equality pattern of two sources and one destination. Two BTB
entries make every alias happen. Words of six bits hold a program of sixteen
instructions; where the width matters to arithmetic, all operands of a small
width are checked, and the ALU, the lanes and the units are proved for every width. The decoder's run
takes the registers to 32 and each immediate field as it is. CoreMark's data
are not scaled: widths, sizes and tables are the program's, since the known
check values depend on each bit of them.

Longest runs: `MCCoreMark` (146,369 distinct states) and `MCLive` (44,912, with
the liveness graph) under two minutes each; `MCUnits` has 260,181 states and
`MCPort` 250,400. Each run stops by itself; only the programs that end (the
list of `MCCoreMark`, the end of `MCPort`) need a stuttering step, an action
of their own (`Park`, `Finished`), so deadlock is checked everywhere.

What is *kept apart* in the passing refinement runs, because of the findings
below: CSR, trap and mret instructions do not meet crossing accesses or waits;
jumps that link, false-positive predictions and mul/div do not meet
instruction-port waits; instructions in the passing runs of the core are not
reserved encodings. `MCWaits` uses branches and jumps without a link, so that a
redirect lost under a port wait loses nothing architectural; `MCHazards` has no
branches at all. `DecodeCorrect` leaves out C.EBREAK.

Two things of the decoder are stated as the code has them, since nothing in
the repository says otherwise: hints to x0 among the compressed instructions are
illegal, and bit 12 of C.SUB to C.AND is not looked at, so that the RV64 forms
execute as these.

### Fairness

`LiveSpec` of the core assumes that the clock ticks (`WF_vars(Next)`) and that
both ports are ready together again and again (`PortsReady`). The second is
justified by the testbench's wait generators: the LFSR pattern and the window
pattern end on their own, and the address-triggered pattern waits a fixed number
of clocks after a new address, while the core holds its address. Nothing is
assumed of the interrupt lines; `InterruptServed` speaks of lines that stay up.

`CoreMark` and `Port` assume weak fairness of their whole next-state relation: a
sequential program goes on, and the testbench's clock ticks. Within `Port` this
decides nothing between the program and the watchdog; a program whose stores are
repeated makes progress since a repetition is bounded (`MAX_HELD`).

### Statements the code does not keep

The three violation runs, which `PROJECT.json` quotes with the sentences they
contradict:

| Configuration | Property | What happens |
|---|---|---|
| `FlawRedirect` | `ExInstructionSurvives` | A jump resolving while the instruction port waits is flushed from ID/EX and never reaches EX/MEM: its link register is not written (top, 234, marked `BUGGY REVERT`). |
| `FlawTrap` | `HeldInstructionKeepsCsrs` | An ecall held in EX by a crossing access enters the trap twice and loses MIE (top, 798); CSR writes ignore the hold in the same way (top, 815). |
| `FlawReserved` | `FaultingInstructionIsHarmless` | A reserved encoding traps and writes rd (top, 826). |

Others can be seen by changing a line or two of a configuration; each property
stands in its module with the sentence it takes from the source. The first four
vary `FlawRedirect.cfg`.

| Change | Property | What happens |
|---|---|---|
| `Programs <- MulProgram` | `NoFetchWhileWaiting` | `imem_wait` is masked while a mul/div is in EX, also at the clock its result lets the front end go: IF/ID takes the data of a waiting port (top, 183). |
| `Programs <- StoreProgram` | `StoreBeatCommitsOnce` | A store frozen in MEM by an instruction-port wait is presented to the memory at every clock (top, 834; `verify/d0_tests/test_wait_soc.S` expects exactly one commit). |
| `Programs <- StoreJalProgram`, `ImemWaits <- Never`, `DmemWaits <- MayWait` | `ExInstructionSurvives` | The flush is tested before the stall in ID/EX: a jump behind a waiting store is lost (top, 570). |
| `Programs <- AliasProgram`, `ImemWaits <- Never`, `CNTMOD = 8` | `MispredictsAreBranches` | False positives count as mispredicted branches: `0x7C1 > 0x7C0` (top, 721; csr.v, 52-53). |
| `MCPowerUp.cfg` with `INVARIANT NoDuplicateRetire` | | An instruction held in WB counts several times (top, 937). `RetireCounterExact` says that this is the only way minstret errs. |
| `MCPort.cfg` with `INVARIANT ValidatedMeansChecked` | | With unknown seeds `total_errors` is -1, a short run adds one, and the program prints "Correct operation validated" (core_main.c, 377, 401). |
| `MCCoreMark.cfg` with `SPECIFICATION HistorySpec`, `Inputs <- DuplicateIdx` | `ListRestored` | Two items have the same index, and the sort by index does not restore their order: "original state" (core_list_join.c, 156) is not reached. |
| the same with `Inputs <- DigitToComma` | `TextRestored` | The corruption turns a digit into a comma, which the correction skips (core_state.c, 99). |
| `DecodeCorrect` without the exclusion of `C_EBREAK` | | C.EBREAK expands to the word of ECALL (compressed_decoder.v, 182). |

One boundary is outside the checked inputs. A block of 8N*N+1 or 8N*N+2 bytes
(a total of 219 or 387, for instance) leaves no room for the alignment of the
matrices, and the third one ends one or two bytes behind its block
(core_matrix.c, 217). `BlocksDisjoint` holds for the sizes of the port's inputs,
and is proved for all others.

## 4. What TLAPS proves

All theorems are safety. `Words!XLENAssumption` says that `XLEN` is positive
and states the facts about powers of two from 0 to `XLEN` that the provers have
no rules for. The other assumptions are those the modules name about their
constants: the size of a byte and of a word (`LsuAssumption`), that causes fit a
word (`CsrAssumption`), that a program decodes to instructions
(`CodeAssumption`), that pins and power-up values are values (`PinAssumption`,
`PowerUpAssumption`), the clock and the kernel's speed (`ClockAssumption`), a log
with room for its zero (`LogSizeAssumption`), that the lanes' memory starts with
bytes (`MemoriesAssumption`: any set of contents, all of them included), and that
CoreMark's seeds are not negative and its 360 to 6000 bytes give a list of at
least three nodes (`InputsAssumption`). TLC evaluates all of them. The
theorems about `Core` hold for every program, every initial memory, register
file and predictor content, and every behaviour of the pins, but for those that
say otherwise by a hypothesis of their own.

| Theorem | Property | Argument |
|---|---|---|
| `RefinementProofs!Refinement` | `ImplementsIsa` | As long as every clock is `Orderly`, each clock of the pipeline is one step of `Isa` or none. See below. |
| `RefinementProofs!ZeroWaitRefinement` | `ImplementsIsa` | Ports that do not wait and a program that does not mix accesses of more than a byte with system instructions are `Orderly` at every clock (`Placed`: what MEM holds is the program's too). |
| `PipelineProofs!Types` | `TypeOK` | Inductive as it stands; one lemma per register. The ranges of the ALU's and the units' results come from the arithmetic of `DatapathProofs` and `MulDivProofs`. |
| `PipelineProofs!BtbEntries` | `BtbHoldsControlFlow` | `BtbInv`: types, even pcs (`EvenInv`), and that a valid instruction in IF/ID or ID/EX is the program's at its pc, or illegal (`Fetched`); an entry is written only for the branch or jump in EX. |
| `UnitsProofs!AluTheorem` | `AluCorrect` | `DatapathProofs`: the adder's carry is the unsigned comparison, its sign and overflow the signed one, a shifter's stages add up, and the bits of the logic are those of the reference, by induction over them. |
| `UnitsProofs!LanesTheorem` | `LanesCorrect` | `Memories`, the contents memory may start with, is any set of functions to bytes, `DataMemory` (all of them) among others, so a load of any width finds its sign bit set or clear. `DatapathProofs`: the lanes of one beat, or of two, are the bytes the reference names, the second beat's address wrapping at the end of memory. |
| `CoreProofs!SplitFetch` | `SplitFetchContiguous` | Inductive as it stands: `fbuf` becomes valid only in `SetupSplit`, with the pc moving by 2, and while it is valid pc moves only when it is cleared. |
| `CoreProofs!LoadUse` | `NoLoadUseInEx` | Inductive as it stands: ID/EX takes an instruction behind a load only when `load_use_stall` is down, and the load is in MEM one clock later; if the load is held, so is ID/EX. |
| `CoreProofs!RequestStable` | `RequestHeld` | `dmem_stall` implies `backend_hold`, so `ex_mem` and `mem_xword` are unchanged, and the request is a function of them. |
| `CoreProofs!FetchPrediction` | `FetchFollowsPrediction` | Not inductive alone: an instruction in EX whose successor is not what it predicted must be one that redirects. `FetchInv` adds that (`OffPathRedirects`), then each of the front end's moves preserves it. |
| `CoreProofs!UnitsServe` | `UnitsServeEx` | `UnitsInv` adds the handshake of each unit (idle, busy or valid, never two of them) in terms of `ex_muldiv_started`. |
| `CoreProofs!RetireExact`, `BranchExact` | `RetireCounterExact`, `BranchCounterExact` | `CountInv`: the ports do not wait, what is in the pipe is decoded from the program, counts are in range, and both equations. What leaves ID/EX is what EX/MEM captures, clock by clock. |
| `MulDivProofs!MultiplierCorrect` | `MulCorrect` | `MulInFlight` says that the operand registers hold what was accepted last; a lemma per operation shows that the double-length product's upper or lower word is the reference's. |
| `MulDivProofs!Multiplier3Correct` | `Mul3Correct` | The invariant follows the operation through the two stages; the partial products of the split operand add up to the product. |
| `MulDivProofs!RemainderBound` | `RemainderBelowDivisor` | From `rem_r < divisor_r`, the shifted remainder is below twice the divisor, so the sign bit of the (XLEN+1)-bit difference decides whether the divisor fits, and the outcome is below it again. |
| `MulDivProofs!DivTiming` | `DivOnTime` | `DivInv` has one conjunct for each state and relates `count` to the clocks since the operands were accepted. |
| `MulDivProofs!DivisionCorrect` | `DivCorrect` | See below. |
| `CoreMarkProofs!ListRefines` | `ImplementsList` | See below. |
| `CoreMarkProofs!ListStaysRestored` | `ListRestored` | `ListInv`, and that at a return the nodes stand in strictly rising idx (`InOrder`): there is one such order (`OnlyOrder`), so it is the one the init functions left. |
| `CoreMarkProofs!NoNodeGetsLost` | `NoNodeLost` | `ListInv` at the two places: the parts are stretches that follow each other in one order of all nodes. |
| `CoreMarkProofs!TextStaysRestored` | `TextRestored` | `TextInv`: between the scans the block is the pristine one under the first XOR; the second meets the same bytes (`XorBack`), since the first neither made nor met a comma there. |
| `CoreMarkProofs!ScansEnd` | `ScanStaysInBlock` | `ZerosInv`: the last two bytes are zeros, a period of 34 or more corrupts one of them at most, and a scan that has not reached a zero has one ahead (`ListInv` for the caller and the period; the recursion of the scan by induction on the bytes left). |
| `CoreMarkProofs!MatrixStaysRestored` | `MatrixRestored` | `matrix_test` adds and takes off one constant modulo 2^16, element by element; the elements start in range (`MatrixInv`). |
| `CoreMarkProofs!BlocksStayDisjoint` | `BlocksDisjoint` | Arithmetic: the list takes twelve bytes for every twenty of its block, and aligning takes at most three of those the matrices leave. |
| `PortProofs!AtMostOneEnding` | `OneEnding` | `EndingInv`: there is an ending only when `done` is up, and then one; monitor and watchdog each keep it, so both orders do. |
| `PortProofs!Calibration` | `CalibratedRun` | `TimeInv`: while it calibrates, ten times a run too short to measure still fits the clock (`Calibrating`); the count that is settled on takes from 10 to 100 seconds (`Settled`), and the window is what that count costs (`Measured`); the arithmetic is `ScaledTime`. |
| `PortProofs!ReportsTold` | `ReportsExact` | `TimeInv` and `ReportInv`: each word `Tells` what it stands for. A difference of wrapped counters is how far they moved (`Distance`), and the two halves of one add up to it (`TwoHalves`). |
| `PortProofs!PassReported` | `PassMeansReported` | `ReportInv`: what is still to send (`ToSend`) follows, in the order of the report, what was `Heard`; a repeated store is heard in its place, no word before the last is the pass word. |
| `PortProofs!LogHolds` | `LogTerminated` | `LogInv` for every print main makes. |
| `PortProofs!CrcOk` | `CrcOkTruthful` | See below. |
| `PortProofs!LogStaysTerminated` | `LogTerminated` | `LogInv` adds the types; a character is stored below the old end or dropped, and a zero is stored behind it either way. |

`RetireExact` and `BranchExact` assume that the ports never wait (`PortsFree`)
and that no multiply or divide is marked illegal (`CodeSound`). The first is
needed: with waits an instruction can be lost or repeated, which is what
`ExInstructionSurvives` and `StoreBeatCommitsOnce` show. The second holds of
the decoder, which marks no M-extension encoding illegal. `BtbEntries` assumes a
buffer without valid entries at the start (`BtbStartsEmpty`), which is what the
simulation's initial block does; in silicon the SRAM powers up with anything
(branch_pred.v, 102), and the other theorems allow for that. `CrcOk` assumes that the log holds the text up to the line about a
short run (`LogReachesErrors`); the log of `MCPort` does and is cut later, and the
real one is far larger (ee_printf.c, 13).

The theorems about CoreMark hold for every size of the list, text and matrices,
every seed and every number of finds and iterations in the ranges of
`InputsAssumption`, under hypotheses about the inputs that `CoreMarkProperties`
defines, each where the code needs it:
`ZeroOnlyHead` (a second item with idx 0 can get in front of the header, which
`core_results` goes on naming as the list), `DistinctIdx` (the sort by idx orders
items of one idx by where they were), `RoomToAlign` (the sizes of section 3),
`ZerosReturn` (equal seeds, as core_main.c:99 demands; a corrupted zero that reads
as a comma would not be corrected) and `NoNewComma` (a byte the corruption turns into a comma
is not corrected either). The findings' inputs break them: `DuplicateIdx`
`DistinctIdx`, `DigitToComma` `NoNewComma`. The inputs core_main.c knows meet all,
and so do the other inputs of `MCCoreMark`, but that seed 2 does not meet
`NoNewComma`: TLC evaluates this when it starts (`MCInputsSuffice`).

*Refinement.* `ImplementsIsa` maps the pipeline to the instruction set: what
left EX has happened, and what is behind it has not. The inductive invariant is
`Sound` (types, `SplitFetchContiguous`, `NoLoadUseInEx`, `FetchInv`, `UnitsInv`)
and `Faithful`, which relates the pipe to the program and to the mapped state:
what ID/EX holds is the program's (`CodeInv`), the first beat of a
crossing access is done when the second is due (`MemInv`), operands read in ID are the mapped registers' once
forwarded (`OperandInv`), and what a unit works on are the operands of the
instruction in EX (`UnitInv`). A clock at which something leaves EX is one step
of `Isa`, by a lemma per kind of instruction (`DoesCompute`, `DoesLoad`,
`DoesStore`, `DoesBranch`, `DoesJump`, `DoesCsr`, `DoesTrap`, `DoesMret`, collected
in `TickExecutes`) or an interrupt (`TakesInterrupt`); one at which nothing
leaves is a stutter (`NothingLeaves`); `ClockRefines` puts them together.
`Orderly` says which states the design does not get right, the ones just before
the disagreements of section 3: an instruction port that waits at the clock a
unit's result lets the front end go (`PortsSeparate`), a link register's write
flushed by a wait (`RedirectsRetire`), a trap or CSR write held in EX
(`NoTrapHeld`), a reserved encoding (`NoReserved`). TLC finds it true in every
state of `MCHazards`, `MCControl`, `MCTraps`, `MCWaits` and `MCPowerUp` when it is
added to their invariants, so the hypothesis is met wherever the refinement is
checked, with waits on both ports among them; for `ZeroWaitRefinement` it is
proved instead of assumed.

*Division.* While the divider iterates, `quot_r` holds two numbers at once: the
bits of the dividend not yet taken, m, above the bits of the quotient found so
far, q. After k steps the invariant (`Partial`, an instance of `LongDivision`) is

    quot_r     = m * 2^k + q                                  q < 2^k
    |dividend| = (|divisor| * q + rem) * 2^(XLEN - k) + m     m < 2^(XLEN - k)

and `rem < |divisor|`. A step moves the top bit of m into the remainder and decides one bit of q
(`DivisionStep`, from `ShiftLeft`, `CarryOut` and `Subtraction`). At the end k is
`XLEN`, m is 0, and the quotient and remainder are unique (`QuotientUnique`). The
magnitudes and signs are those of the signed operands (`MagnitudeIsAbsolute`,
`NegateIsMinus`, `FixupIsReference`), which includes the overflow of the most
negative number; a zero divisor and that overflow take the fast path
(`FastResult`). The invariant has to follow the operands across a flush, since
the next result must not depend on what an abandoned divide left. While the divider
works, `Working` relates it to the operands it was given (`WorkStarts`, `WorkGoesOn`, `WorkEnds`);
the refinement uses the same three lemmas.

*The text of the log.* `crc_ok` is read off the log's text (core_portme.c), so its
proof has to say what text is there. `LogSays` adds to `LogInv` that at every
control point the buffer shows what fits of the text printed so far, a
concatenation that grows with `pc`. Whether a text tells of a wrong check value
or of an error is kept by concatenation (`Signs`), so it is decided part by part
(`WholeText`), although the scan runs over the whole buffer and a word might have
begun in one part and ended in the next (`Scans`). The digits of printed numbers
are handled by an induction over their value: they are digits and nothing else.

*The list.* None of CoreMark's list properties is inductive: each speaks of the
list where it is whole, and the loops keep it in pieces. `ListInv` speaks of every
step. There is one order w of all n nodes (`Arranged`) and a rank r of each node,
and what the pointers hold are stretches of w: the whole list (`ListAt`), the part
already reversed and the rest (`ReverseAt`), the merged part, the two runs and what
is to come (`PassState`, `MergeState`), or the list without its second node and that
node (`Removed`). While it sorts, every run of `insize` nodes is in the order of the
key, and nodes of equal keys in the order of r (`AllOrd` when one run is left); the
runs double until one pass makes a single merge. The data keep their
idx and upper byte (`DataKept`), and their cached lower byte is built again by the
sort by idx (`Settled`). When a loop starts, w and r are chosen anew. `PastInv` ties
`before`, the items at the start of the current reversal or sort, to w and r, so
that the end of each loop is a step of `ListSpec` (`UseFoundTurns`, `SortEnds`,
`RemoveRemoves`, `UndoUndoes`, `CheckReturns`, `TextBuilds`) and every turn before
it a stutter (`Unseen`); `AbstractSteps` puts them together. The walk along a chain
and the scan are recursive functions, and what they return is shown by induction
over their length, for a set of the lengths for which it holds. That the kernels run
inside the comparisons matters to these proofs only by what they leave alone and by
the value they cache, which may be any.

*Only model-checked:* `DecodeCorrect`, a table of finitely many words that the run
goes through from end to end; `KnownCrcs`, which speaks of particular check values
of particular inputs. *Out of the prover's reach:* the liveness properties
(`InterruptServed`, `Progress`, `Terminates`, `Decided`) and `ENABLED`. Induction
over data cannot cite the library's theorems; where a proof needs it, it is done
over the set of the values for which the statement holds (`Induction` in
`DatapathProofs`, `StrongInduction` in `PortProofs`, both in `CoreMarkProofs`), which serves the sums over
bits, the digits of numbers, the chains of the list and the scans of the text. Of
the CRC only its range is proved.

## 5. Not modelled

* The testbench's wait patterns as such (the core's pins do anything at any
  clock, which includes them), its MMIO interrupt register and its memories'
  loading; the smoke, extended and equivalence testbenches, which are stimulus
  and expected values.
* What the port does not build of CoreMark: several contexts, malloc and stack
  memory, floating point, command line seeds, a selection of algorithms by seed,
  the debug output.
* The conversions of `ee_printf` beyond the length and the digits of a number.
* The support library and the microbenchmarks, straight-line loops without state
  that outlives them; scripts; the physical design flows.

## 6. Plan

1. *Done:* units with their references; decoders against the instruction set;
   both multipliers; the pipeline, `Isa` and the refinement; hazards, control,
   traps, waits, power-up, counters, liveness; CoreMark's kernels, program and
   port with the tohost protocol; the theorems of section 4.
2. *Environment:* the three wait patterns as a module composed with
   `Core`, with `PortsReady` as a property instead of an assumption; the MMIO
   interrupt register.
3. *Composition:* `Tohost` behind `Core`'s data port, so that a store's repetition
   is the pipeline's instead of a bound.
4. *Inputs:* negative seeds, for which `XorWord` and the mixing of the indices
   need the sign, and `NoNewComma` in terms of the places a period reaches, which
   would take in seed 2.

Run everything from this directory: `tlc -config MCHazards.cfg MCPipeline`
(`MCHazards`, `MCControl`, `MCTraps`, `MCWaits` and `MCLive` are five configurations of
`MCPipeline`), `tlapm RefinementProofs.tla`, `tlapm CoreMarkProofs.tla` (the
longest, about a quarter of an hour).
