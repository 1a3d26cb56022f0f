---------------------------- MODULE CoreHistory ----------------------------
(***************************************************************************)
(* The core with a history: how many instructions, and how many branches   *)
(* and jumps, the ID/EX register has let go, counted as the performance    *)
(* counters count (modulo CNTMOD).                                         *)
(***************************************************************************)
EXTENDS CoreProperties

VARIABLES left, cf_left,
          frozen              \* an instruction has been held in MEM/WB

LeavesIdEx == id_ex.valid /\ ~IdExHold

Count(n, event) == IF event THEN (n + 1) % CNTMOD ELSE n

HistoryInit == Init /\ left = 0 /\ cf_left = 0 /\ frozen = FALSE
HistoryNext == /\ Next
               /\ left' = Count(left, LeavesIdEx)
               /\ cf_left' = Count(cf_left, LeavesIdEx /\ ex_is_cf)
               /\ frozen' = (frozen \/ (mem_wb.valid /\ backend_hold))
HistorySpec == HistoryInit /\ [][HistoryNext]_<<vars, left, cf_left, frozen>>

InFlight == (IF ex_mem.valid THEN 1 ELSE 0) + (IF mem_wb.valid THEN 1 ELSE 0)

(* The instructions minstret has counted and those still in MEM and WB are  *)
(* the ones that left EX ("no duplicate retire", rv32imc_top.v).            *)
NoDuplicateRetire == (csr.minstret + InFlight) % CNTMOD = left

(* minstret loses no instruction and counts none twice, except the ones     *)
(* that were held in MEM/WB (retire_valid, csr.v).                          *)
RetireCounterExact == ~frozen => NoDuplicateRetire

(* 0x7C0 counts each branch and jump once when it leaves EX, however long   *)
(* it was held there ("Both count exactly-once per EX resolution",          *)
(* verify/PREDICTOR_VERIF.md; ex_tick).                                     *)
BranchCounterExact == csr.br_exec = cf_left
=============================================================================
