----------------------------- MODULE CoreProofs -----------------------------
(***************************************************************************)
(* Properties of the pipeline's control, for every program, every word     *)
(* size, every behaviour of the pins and every content of the memories and *)
(* the predictor at power-up.                                              *)
(***************************************************************************)
EXTENDS CoreHistory, TLAPS

\* A stalled pipeline holds its pc; a flush or a fetch gives it a new one.
LEMMA PcHeld == ASSUME Clock, ~if_flush, pc_hold PROVE pc' = pc
BY DEF Clock, Pc, pc_d

LEMMA PcFetches == ASSUME Clock, Fetching PROVE pc' = fetch_next
BY DEF Clock, Pc, pc_d, pc_next, Fetching, if_flush, trap_valid

-----------------------------------------------------------------------------
(* The two halves of a split fetch stay adjacent. *)

(* While half an instruction waits in fbuf, pc addresses the word with its *)
(* other half, through every stall, drain and redirect (IF/ID register).   *)
THEOREM SplitFetch == Spec => []SplitFetchContiguous
<1>1. Init => SplitFetchContiguous
  BY DEF Init, NoFbuf, SplitFetchContiguous
<1>2. SplitFetchContiguous /\ [Next]_vars => SplitFetchContiguous'
  <2> SUFFICES ASSUME SplitFetchContiguous, [Next]_vars PROVE SplitFetchContiguous'
    OBVIOUS
  <2>1. CASE UNCHANGED vars
    BY <2>1 DEF vars, pipeline, SplitFetchContiguous
  <2>2. CASE Clock
    <3>1. CASE FlushFetch \/ CompleteSplit
      BY <3>1 DEF FlushFetch, CompleteSplit, NoFbuf, SplitFetchContiguous
    <3>2. CASE DrainFetch \/ HoldFetch
      <4>1. pc' = pc
        BY <2>2, <3>2, PcHeld DEF DrainFetch, HoldFetch, pc_hold
      <4>2. QED
        BY <3>2, <4>1 DEF DrainFetch, HoldFetch, SplitFetchContiguous
    <3>3. CASE SetupSplit
      <4>1. pc' = Trunc(pc + 2)
        BY <2>2, <3>3, PcFetches DEF SetupSplit, fetch_next, need_pending
      <4>2. fbuf'.pc = pc
        BY <3>3 DEF SetupSplit
      <4>3. QED
        BY <4>1, <4>2 DEF SplitFetchContiguous
    <3>4. CASE FetchWhole
      BY <3>4 DEF FetchWhole, SplitFetchContiguous
    <3>5. QED
      BY <2>2, <3>1, <3>2, <3>3, <3>4 DEF Clock, IfId
  <2>3. QED
    BY <2>1, <2>2 DEF Next
<1>3. QED
  BY <1>1, <1>2, PTL DEF Spec

-----------------------------------------------------------------------------
(* Loads are not forwarded from MEM, and need not be. *)

(* No instruction is in EX that needs the register a load in MEM has still *)
(* to write (load_use_stall).                                              *)
THEOREM LoadUse == Spec => []NoLoadUseInEx
<1>1. Init => NoLoadUseInEx
  BY DEF Init, IdExBubble, NoLoadUseInEx
<1>2. NoLoadUseInEx /\ [Next]_vars => NoLoadUseInEx'
  <2> SUFFICES ASSUME NoLoadUseInEx, [Next]_vars PROVE NoLoadUseInEx'
    OBVIOUS
  <2>1. CASE UNCHANGED vars
    BY <2>1 DEF vars, pipeline, NoLoadUseInEx
  <2>2. CASE Clock
    <3> USE <2>2 DEF Clock
    <3>1. CASE backend_hold
      <4>1. ex_mem' = ex_mem
        BY <3>1 DEF ExMem
      <4>2. id_ex' = id_ex \/ id_ex' = IdExBubble
        BY <3>1 DEF backend_hold, IdEx, IdExHold, IdExFlush
      <4>3. QED
        BY <4>1, <4>2 DEF NoLoadUseInEx, IdExBubble
    <3>2. CASE ~backend_hold /\ (ex_muldiv_stall \/ ~id_ex.valid)
      BY <3>2 DEF ExMem, ExMemBubble, NoLoadUseInEx
    <3>3. CASE ~backend_hold /\ ~ex_muldiv_stall /\ id_ex.valid
      <4>1. ex_mem'.instr = id_ex.instr
        BY <3>3 DEF ExMem
      <4>2. ~IdExHold
        BY <3>3 DEF backend_hold, IdExHold
      <4>3. \/ id_ex' = IdExBubble
            \/ ~load_use_stall /\ if_id.valid /\ id_ex'.instr = if_id.instr
        BY <4>2 DEF IdEx
      <4>4. QED
        BY <3>3, <4>1, <4>3 DEF NoLoadUseInEx, IdExBubble, load_use_stall
    <3>4. QED
      BY <3>1, <3>2, <3>3
  <2>3. QED
    BY <2>1, <2>2 DEF Next
<1>3. QED
  BY <1>1, <1>2, PTL DEF Spec

-----------------------------------------------------------------------------
(* A data request that waits is held. *)

(* Nothing in the pipeline moves a request while dmem_wait is up for it    *)
(* (dmem_stall, backend_hold, the second-beat register).                   *)
THEOREM RequestStable == Spec => RequestHeld
<1>1. ASSUME Clock, dmem_stall PROVE DataRequest' = DataRequest
  <2>1. ex_mem' = ex_mem
    BY <1>1 DEF Clock, ExMem, backend_hold
  <2>2. mem_xword' = mem_xword
    BY <1>1 DEF Clock, Xword
  <2>3. dmem_en' = dmem_en
    BY <2>1 DEF dmem_en
  <2>4. dmem_addr' = dmem_addr
    BY <2>1, <2>2 DEF dmem_addr
  <2>5. dmem_wstrb' = dmem_wstrb
    BY <2>1, <2>2 DEF dmem_wstrb
  <2>6. dmem_wdata' = dmem_wdata
    BY <2>1, <2>2 DEF dmem_wdata
  <2>7. QED
    BY <2>3, <2>4, <2>5, <2>6 DEF DataRequest
<1>2. [Next]_vars => [dmem_stall => DataRequest' = DataRequest]_vars
  BY <1>1 DEF Next
<1>3. QED
  BY <1>2, PTL DEF Spec, RequestHeld

-----------------------------------------------------------------------------
(* What is fetched follows the prediction. *)

\* An instruction in EX that is not followed by what was predicted to follow
\* it has a reason to redirect, and keeps it for as long as it is held there.
OffPathRedirects ==
    id_ex.valid /\ ~if_id.valid /\ Front # PredictedNext(id_ex)
        => ex_trap \/ ex_mret \/ ex_misp_raw

FetchInv == FetchFollowsPrediction /\ OffPathRedirects

\* The first beat of a crossing access freezes EX and everything behind it.
LEMMA MemHoldFreezes ==
    ASSUME Clock, mem_hold
    PROVE  id_ex' = id_ex /\ ex_mem' = ex_mem /\ mem_wb' = mem_wb
BY DEF Clock, IdEx, IdExHold, ExMem, MemWb, backend_hold

\* What an instruction in EX does depends on id_ex and on what is forwarded.
LEMMA FrozenOutcome ==
    ASSUME id_ex' = id_ex, ex_mem' = ex_mem, mem_wb' = mem_wb
    PROVE  ex_trap' = ex_trap /\ ex_mret' = ex_mret /\ ex_misp_raw' = ex_misp_raw
<1>1. ex_mem_fwd_data' = ex_mem_fwd_data
  BY DEF ex_mem_fwd_data, ex_mem_link_addr
<1>2. fwd_rs1' = fwd_rs1
  BY <1>1 DEF fwd_rs1, Forward, ExMemForwards, MemWbForwards, rf_we
<1>3. fwd_rs2' = fwd_rs2
  BY <1>1 DEF fwd_rs2, Forward, ExMemForwards, MemWbForwards, rf_we
<1>4. alu_result' = alu_result
  BY <1>2, <1>3 DEF alu_result, alu_a, alu_b
<1>5. br_taken_raw' = br_taken_raw
  BY <1>4 DEF br_taken_raw
<1>6. ex_is_cf' = ex_is_cf /\ ex_actual_taken' = ex_actual_taken
  BY <1>5 DEF ex_is_cf, ex_actual_taken
<1>7. ex_actual_target' = ex_actual_target
  BY <1>4, <1>5 DEF ex_actual_target, ex_fallthrough
<1>8. ex_misp_raw' = ex_misp_raw
  BY <1>6, <1>7 DEF ex_misp_raw
<1>9. ex_trap' = ex_trap /\ ex_mret' = ex_mret
  BY DEF ex_trap, ex_mret
<1>10. QED
  BY <1>8, <1>9

\* A multiply or divide redirects only if it was predicted taken.
LEMMA MulDivOutcome ==
    ASSUME ex_is_muldiv PROVE ex_misp_raw <=> id_ex.pred_taken
BY DEF ex_is_muldiv, ex_misp_raw, ex_is_cf, IsMulDiv, IsCf, IsJump

\* An instruction that stays in EX without a flush stalls the front end.
LEMMA HoldStalls ==
    ASSUME ~if_flush PROVE IdExHold => pc_stall
BY DEF IdExHold, pc_stall

\* When nothing stalls, EX takes the instruction in IF/ID.
LEMMA IdExCaptures ==
    ASSUME Clock, ~if_flush, ~pc_stall, id_ex'.valid
    PROVE  if_id.valid /\ PredictedNext(id_ex') = PredictedNext(if_id)
<1>1. ~IdExHold
  BY HoldStalls
<1>2. CASE IdExFlush \/ load_use_stall \/ csr_stall \/ ~if_id.valid
  BY <1>1, <1>2 DEF Clock, IdEx, IdExBubble
<1>3. CASE ~(IdExFlush \/ load_use_stall \/ csr_stall \/ ~if_id.valid)
  BY <1>1, <1>3 DEF Clock, IdEx, PredictedNext
<1>4. QED
  BY <1>2, <1>3

LEMMA FetchFlush ==
    ASSUME Clock, if_flush PROVE FetchInv'
<1>1. if_id' = IfIdBubble
  BY DEF Clock, IfId, FlushFetch, DrainFetch, HoldFetch, Fetching,
         CompleteSplit, SetupSplit, FetchWhole
<1>2. CASE mem_hold
  <2>1. id_ex' = id_ex /\ ex_mem' = ex_mem /\ mem_wb' = mem_wb
    BY <1>2, MemHoldFreezes
  <2>2. ex_mem'.valid /\ ex_mem'.need_xword
    BY <1>2, <2>1 DEF mem_hold
  <2>3. id_ex.valid => ex_trap \/ ex_mret \/ ex_misp_raw
    BY DEF if_flush, ex_redirect, irq_take, pipe_empty
  <2>4. id_ex'.valid => (ex_trap \/ ex_mret \/ ex_misp_raw)'
    BY <2>1, <2>3, FrozenOutcome
  <2>5. QED
    BY <1>1, <2>2, <2>4
       DEF FetchInv, FetchFollowsPrediction, OffPathRedirects, MayHaveRedirected, IfIdBubble
<1>3. CASE ~mem_hold
  <2>1. id_ex' = IdExBubble
    BY <1>3 DEF Clock, IdEx, IdExHold, IdExFlush
  <2>2. QED
    BY <1>1, <2>1
       DEF FetchInv, FetchFollowsPrediction, OffPathRedirects, IfIdBubble, IdExBubble
<1>4. QED
  BY <1>2, <1>3

LEMMA FetchHold ==
    ASSUME FetchInv, Clock, ~if_flush, pc_hold PROVE FetchInv'
<1>1. pc' = pc
  BY PcHeld
<1>2. fbuf' = fbuf /\ if_id' = (IF pc_stall THEN if_id ELSE IfIdBubble)
  BY DEF Clock, IfId, FlushFetch, DrainFetch, HoldFetch, Fetching,
         CompleteSplit, SetupSplit, FetchWhole, pc_hold
<1>3. Front' = Front
  BY <1>1, <1>2 DEF Front
<1>4. CASE pc_stall /\ IdExHold
  <2>1. id_ex' = id_ex /\ if_id' = if_id
    BY <1>2, <1>4 DEF Clock, IdEx
  <2>2. ASSUME id_ex.valid, ~if_id.valid, Front # PredictedNext(id_ex)
        PROVE  ex_is_muldiv /\ ex_misp_raw
    BY <2>2 DEF FetchInv, OffPathRedirects, if_flush, ex_redirect, ex_muldiv_stall
  <2>3. ASSUME ex_is_muldiv, ex_misp_raw
        PROVE  MayHaveRedirected' /\ ex_misp_raw'
    <3>1. ex_is_muldiv' /\ id_ex'.pred_taken
      BY <2>1, <2>3, MulDivOutcome DEF ex_is_muldiv
    <3>2. ex_misp_raw'
      BY <3>1 DEF ex_is_muldiv, ex_misp_raw, ex_is_cf, IsMulDiv, IsCf, IsJump
    <3>3. QED
      BY <3>1, <3>2 DEF MayHaveRedirected
  <2>4. FetchFollowsPrediction'
    BY <1>3, <2>1, <2>2, <2>3 DEF FetchInv, FetchFollowsPrediction, PredictedNext
  <2>5. OffPathRedirects'
    BY <1>3, <2>1, <2>2, <2>3 DEF OffPathRedirects, PredictedNext
  <2>6. QED
    BY <2>4, <2>5 DEF FetchInv
<1>5. CASE pc_stall /\ ~IdExHold
  <2>1. load_use_stall \/ csr_stall
    BY <1>5 DEF pc_stall, IdExHold
  <2>2. id_ex' = IdExBubble /\ if_id' = if_id
    BY <1>2, <1>5, <2>1 DEF Clock, IdEx
  <2>3. QED
    BY <1>3, <2>2
       DEF FetchInv, FetchFollowsPrediction, OffPathRedirects, IdExBubble, PredictedNext
<1>6. CASE ~pc_stall
  <2>1. if_id' = IfIdBubble
    BY <1>2, <1>6
  <2>2. id_ex'.valid => Front' = PredictedNext(id_ex')
    BY <1>3, <1>6, IdExCaptures DEF FetchInv, FetchFollowsPrediction
  <2>3. QED
    BY <2>1, <2>2 DEF FetchInv, FetchFollowsPrediction, OffPathRedirects,
                      IfIdBubble, PredictedNext
<1>7. QED
  BY <1>4, <1>5, <1>6

LEMMA FetchAdvance ==
    ASSUME FetchInv, Clock, Fetching PROVE FetchInv'
<1>1. pc' = fetch_next
  BY PcFetches
<1>2. ~if_flush /\ ~pc_stall /\ ~irq_drain
  BY DEF Fetching, pc_hold
<1>3. id_ex'.valid => Front = PredictedNext(id_ex')
  BY <1>2, IdExCaptures DEF FetchInv, FetchFollowsPrediction
<1>4. CASE CompleteSplit
  <2>1. ~fbuf'.valid /\ if_id'.pc = Front /\ if_id'.valid
    BY <1>4 DEF CompleteSplit, NoFbuf, Front
  <2>2. PredictedNext(if_id') = fetch_next
    BY <1>4 DEF CompleteSplit, fetch_next, need_pending, PredictedNext, NextPc
  <2>3. QED
    BY <1>1, <1>3, <2>1, <2>2
       DEF FetchInv, FetchFollowsPrediction, OffPathRedirects, Front, PredictedNext
<1>5. CASE SetupSplit
  <2>1. if_id' = IfIdBubble
    BY <1>5 DEF SetupSplit
  <2>2. Front' = Front
    BY <1>5 DEF SetupSplit, need_pending, Front
  <2>3. QED
    BY <1>3, <2>1, <2>2
       DEF FetchInv, FetchFollowsPrediction, OffPathRedirects, IfIdBubble, PredictedNext
<1>6. CASE FetchWhole
  <2>1. ~fbuf'.valid /\ if_id'.pc = Front /\ if_id'.valid
    BY <1>6 DEF FetchWhole, Front
  <2>2. PredictedNext(if_id') = fetch_next
    BY <1>6 DEF FetchWhole, fetch_next, PredictedNext, NextPc
  <2>3. QED
    BY <1>1, <1>3, <2>1, <2>2
       DEF FetchInv, FetchFollowsPrediction, OffPathRedirects, Front, PredictedNext
<1>7. QED
  BY <1>2, <1>4, <1>5, <1>6
     DEF Clock, IfId, FlushFetch, DrainFetch, HoldFetch

LEMMA FetchAlways == Spec => []FetchInv
<1>1. Init => FetchInv
  BY DEF Init, IfIdBubble, IdExBubble, FetchInv, FetchFollowsPrediction, OffPathRedirects
<1>2. FetchInv /\ [Next]_vars => FetchInv'
  <2> SUFFICES ASSUME FetchInv, [Next]_vars PROVE FetchInv'
    OBVIOUS
  <2>1. CASE UNCHANGED vars
    <3>1. /\ id_ex' = id_ex /\ ex_mem' = ex_mem /\ mem_wb' = mem_wb
          /\ if_id' = if_id /\ fbuf' = fbuf /\ pc' = pc
      BY <2>1 DEF vars, pipeline
    <3>2. ex_trap' = ex_trap /\ ex_mret' = ex_mret /\ ex_misp_raw' = ex_misp_raw
      BY <3>1, FrozenOutcome
    <3>3. QED
      BY <3>1, <3>2 DEF FetchInv, FetchFollowsPrediction, OffPathRedirects, Front,
                        PredictedNext, MayHaveRedirected, ex_is_muldiv
  <2>2. CASE Clock
    BY <2>2, FetchFlush, FetchHold, FetchAdvance DEF Fetching
  <2>3. QED
    BY <2>1, <2>2 DEF Next
<1>3. QED
  BY <1>1, <1>2, PTL DEF Spec

(* The prediction an instruction carries to EX describes what was fetched  *)
(* behind it, unless it redirected already and is held in EX: the compare  *)
(* of ex_misp_raw decides exactly whether the younger instructions are on  *)
(* the right path.                                                         *)
THEOREM FetchPrediction == Spec => []FetchFollowsPrediction
<1>1. FetchInv => FetchFollowsPrediction
  BY DEF FetchInv
<1>2. QED
  BY <1>1, FetchAlways, PTL

-----------------------------------------------------------------------------
(* The M-extension units work for the instruction in EX and no other. *)

MulIdle == mul.busy = FALSE /\ mul.valid = FALSE
DivIdle == div.busy = FALSE /\ div.valid = FALSE /\ div.state = "idle"

\* The handshake of each unit: idle, working or presenting its result.
MulHandshake == /\ {"busy", "valid", "op_r"} \subseteq DOMAIN mul
                /\ \/ MulIdle
                   \/ mul.busy = TRUE /\ mul.valid = FALSE
                   \/ mul.busy = FALSE /\ mul.valid = TRUE
DivHandshake == /\ {"busy", "valid", "state"} \subseteq DOMAIN div
                /\ \/ DivIdle
                   \/ div.busy = TRUE /\ div.valid = FALSE /\ div.state \in {"busy", "done"}
                   \/ div.busy = FALSE /\ div.valid = TRUE /\ div.state = "idle"

UnitsInv == UnitsServeEx /\ MulHandshake /\ DivHandshake

\* One clock of the multiplier.
LEMMA MulSteps ==
    ASSUME MulHandshake, NEW start \in BOOLEAN, NEW flush \in BOOLEAN,
           NEW a, NEW b, NEW op, MulClock(start, a, b, op, flush)
    PROVE  /\ MulHandshake'
           /\ mul'.busy <=> ~flush /\ start /\ ~mul.busy
           /\ mul'.valid <=> ~flush /\ mul.busy
           /\ mul'.busy => mul'.op_r = op
           /\ mul'.valid => mul'.op_r = mul.op_r
BY DEF MulHandshake, MulIdle, MulClock

\* One clock of the divider.
LEMMA DivSteps ==
    ASSUME DivHandshake, NEW start \in BOOLEAN, NEW flush \in BOOLEAN,
           NEW a, NEW b, NEW op, DivClock(start, a, b, op, flush)
    PROVE  /\ DivHandshake'
           /\ flush => DivIdle'
           /\ ~flush /\ start /\ ~div.busy => div'.busy
           /\ ~start /\ DivIdle => DivIdle'
           /\ div.valid /\ ~start => DivIdle'
           /\ ~flush /\ div.busy => div'.busy \/ div'.valid
<1>1. CASE flush
  BY <1>1 DEF DivHandshake, DivIdle, DivClock
<1>2. CASE ~flush /\ div.state = "idle" /\ start
  BY <1>2 DEF DivHandshake, DivIdle, DivClock, Accept
<1>3. CASE ~flush /\ div.state = "idle" /\ ~start
  BY <1>3 DEF DivHandshake, DivIdle, DivClock
<1>4. CASE ~flush /\ div.state = "busy"
  BY <1>4 DEF DivHandshake, DivIdle, DivClock, Iterate
<1>5. CASE ~flush /\ div.state = "done"
  BY <1>5 DEF DivHandshake, DivIdle, DivClock
<1>6. QED
  BY <1>1, <1>2, <1>3, <1>4, <1>5 DEF DivHandshake, DivIdle

\* One clock of both units and of the bit that remembers the request.
LEMMA UnitsClock ==
    ASSUME UnitsInv, Clock PROVE UnitsInv'
<1> DEFINE mstart == ex_is_muldiv /\ id_ex.instr.kind = "mul" /\ ~ex_muldiv_started
           dstart == ex_is_muldiv /\ id_ex.instr.kind = "div" /\ ~ex_muldiv_started
<1>0. mstart \in BOOLEAN /\ dstart \in BOOLEAN /\ if_flush \in BOOLEAN
  BY DEF if_flush, ex_trap, ex_mret, ex_redirect, irq_take, irq_armed
<1>1. /\ MulHandshake'
      /\ mul'.busy <=> ~if_flush /\ mstart /\ ~mul.busy
      /\ mul'.valid <=> ~if_flush /\ mul.busy
      /\ mul'.busy => mul'.op_r = id_ex.instr.op
      /\ mul'.valid => mul'.op_r = mul.op_r
  <2>1. MulClock(mstart, fwd_rs1, fwd_rs2, id_ex.instr.op, if_flush)
    BY DEF Clock, MulDivUnits
  <2> HIDE DEF mstart
  <2>2. QED
    BY <1>0, <2>1, MulSteps DEF UnitsInv
<1>2. /\ DivHandshake'
      /\ if_flush => DivIdle'
      /\ ~if_flush /\ dstart /\ ~div.busy => div'.busy
      /\ ~dstart /\ DivIdle => DivIdle'
      /\ div.valid /\ ~dstart => DivIdle'
      /\ ~if_flush /\ div.busy => div'.busy \/ div'.valid
  <2>1. DivClock(dstart, fwd_rs1, fwd_rs2, id_ex.instr.op, if_flush)
    BY DEF Clock, MulDivUnits
  <2> HIDE DEF dstart
  <2>2. QED
    BY <1>0, <2>1, DivSteps DEF UnitsInv
<1>3. CASE if_flush
  <2>1. ex_muldiv_started' = FALSE
    BY <1>3 DEF Clock, MulDivStarted
  <2>2. ~mul'.busy /\ ~mul'.valid /\ ~div'.busy /\ ~div'.valid
    BY <1>1, <1>2, <1>3 DEF DivIdle
  <2>3. QED
    BY <1>1, <1>2, <2>1, <2>2 DEF UnitsInv, UnitsServeEx
<1>4. CASE ~if_flush /\ ~ex_is_muldiv
  <2>1. ~mul.busy /\ ~mul.valid /\ ~div.busy /\ ~div.valid /\ ~ex_muldiv_started
    BY <1>4 DEF UnitsInv, UnitsServeEx, ex_is_muldiv, IsMulDiv
  <2>2. ~mstart /\ ~dstart
    BY <1>4
  <2>3. ~mul'.busy /\ ~mul'.valid /\ ~div'.busy /\ ~div'.valid
    BY <1>1, <1>2, <2>1, <2>2 DEF UnitsInv, DivHandshake, DivIdle
  <2>4. ~ex_muldiv_started'
    BY <1>4, <2>1 DEF Clock, MulDivStarted
  <2>5. QED
    BY <1>1, <1>2, <2>3, <2>4 DEF UnitsInv, UnitsServeEx
<1>5. CASE ~if_flush /\ ex_is_muldiv /\ ~muldiv_result_valid
  <2>1. id_ex' = id_ex
    BY <1>5 DEF Clock, IdEx, IdExHold, ex_muldiv_stall
  <2>2. id_ex.valid /\ (id_ex.instr.kind = "mul" \/ id_ex.instr.kind = "div")
    BY <1>5 DEF ex_is_muldiv, IsMulDiv
  <2>3. ex_muldiv_started'
    BY <1>5, <2>2 DEF Clock, MulDivStarted
  <2>4. CASE id_ex.instr.kind = "mul"
    <3>1. ~div.busy /\ ~div.valid /\ ~mul.valid /\ ~dstart
      BY <1>5, <2>4 DEF UnitsInv, UnitsServeEx, muldiv_result_valid
    <3>2. ~div'.busy /\ ~div'.valid
      BY <1>2, <3>1 DEF UnitsInv, DivHandshake, DivIdle
    <3>3. mul.busy => mul.op_r = id_ex.instr.op
      BY DEF UnitsInv, UnitsServeEx
    <3>4. mul'.busy \/ mul'.valid
      BY <1>1, <1>5, <2>4, <3>1 DEF UnitsInv, UnitsServeEx
    <3>5. QED
      BY <1>1, <1>2, <2>1, <2>2, <2>3, <2>4, <3>2, <3>3, <3>4 DEF UnitsInv, UnitsServeEx
  <2>5. CASE id_ex.instr.kind = "div"
    <3>1. ~mul.busy /\ ~mul.valid /\ ~div.valid /\ ~mstart
      BY <1>5, <2>5 DEF UnitsInv, UnitsServeEx, muldiv_result_valid
    <3>2. ~mul'.busy /\ ~mul'.valid
      BY <1>1, <3>1
    <3>3. div'.busy \/ div'.valid
      BY <1>2, <1>5, <2>5, <3>1 DEF UnitsInv, UnitsServeEx
    <3>4. QED
      BY <1>1, <1>2, <2>1, <2>2, <2>3, <2>5, <3>2, <3>3 DEF UnitsInv, UnitsServeEx
  <2>6. QED
    BY <2>2, <2>4, <2>5
<1>6. CASE ~if_flush /\ ex_is_muldiv /\ muldiv_result_valid
  <2>1. ex_muldiv_started /\ ~mstart /\ ~dstart
    BY <1>6 DEF muldiv_result_valid, UnitsInv, UnitsServeEx
  <2>2. ~ex_muldiv_started'
    BY <1>6, <2>1 DEF Clock, MulDivStarted, ex_is_muldiv
  <2>3. ~mul.busy /\ ~div.busy
    BY <1>6 DEF muldiv_result_valid, UnitsInv, UnitsServeEx, MulHandshake, DivHandshake,
                MulIdle, DivIdle
  <2>4. ~mul'.busy /\ ~mul'.valid
    BY <1>1, <2>1, <2>3
  <2>5. ~div'.busy /\ ~div'.valid
    BY <1>2, <2>1, <2>3 DEF UnitsInv, DivHandshake, DivIdle
  <2>6. QED
    BY <1>1, <1>2, <2>2, <2>4, <2>5 DEF UnitsInv, UnitsServeEx
<1>7. QED
  BY <1>3, <1>4, <1>5, <1>6

LEMMA UnitsAlways == Spec => []UnitsInv
<1>1. Init => UnitsInv
  BY DEF Init, MulInit, MulReset, DivInit, DivReset,
         UnitsInv, UnitsServeEx, MulHandshake, DivHandshake, MulIdle, DivIdle
<1>2. UnitsInv /\ [Next]_vars => UnitsInv'
  <2>1. UnitsInv /\ Clock => UnitsInv'
    BY UnitsClock
  <2>2. UnitsInv /\ UNCHANGED vars => UnitsInv'
    BY DEF vars, pipeline, UnitsInv, UnitsServeEx, MulHandshake, DivHandshake,
           MulIdle, DivIdle
  <2>3. QED
    BY <2>1, <2>2 DEF Next
<1>3. QED
  BY <1>1, <1>2, PTL DEF Spec

(* A unit that works or presents a result does so for the multiply or      *)
(* divide now in EX, through stalls, restarts and flushes                  *)
(* (ex_muldiv_started, muldiv_flush).                                      *)
THEOREM UnitsServe == Spec => []UnitsServeEx
<1>1. UnitsInv => UnitsServeEx
  BY DEF UnitsInv
<1>2. QED
  BY <1>1, UnitsAlways, PTL

-----------------------------------------------------------------------------
(***************************************************************************)
(* The performance counters of a core whose ports never wait, for every    *)
(* program, every word size, every width of the counters and every content *)
(* of the memories and the predictor at power-up.  With waits they are not *)
(* exact: an instruction can be lost or repeated.                          *)
(***************************************************************************)

hvars   == <<vars, left, cf_left, frozen>>
Counter == 0 .. CNTMOD - 1

\* No multiply or divide is illegal.
LegalUnitOp(i)  == IsMulDiv(i) => ~i.illegal
PortsFree == ImemWaits = {FALSE} /\ DmemWaits = {FALSE}
CodeSound == \A p \in Programs : \A a : LegalUnitOp(Code(p, a))

NoWait  == imem_wait = FALSE /\ dmem_wait = FALSE
Decoded == /\ prog \in Programs
           /\ if_id.valid => LegalUnitOp(if_id.instr)
           /\ id_ex.valid => LegalUnitOp(id_ex.instr)
Counts  == /\ {"minstret", "br_exec"} \subseteq DOMAIN csr
           /\ csr.minstret \in Counter /\ csr.br_exec \in Counter
           /\ left \in Counter /\ cf_left \in Counter
CountInv == NoWait /\ Decoded /\ Counts /\ RetireCounterExact /\ BranchCounterExact

-----------------------------------------------------------------------------
(* Counting *)

One(event) == IF event THEN 1 ELSE 0

LEMMA CountInRange ==
    ASSUME NEW n \in Counter, NEW event PROVE Count(n, event) \in Counter
BY CsrAssumption DEF Count, Counter

LEMMA QuotientAndRest ==
    ASSUME NEW c \in Nat, c > 0, NEW x \in Nat
    PROVE  x \div c \in Nat /\ x % c \in Nat /\ x % c < c /\ x = c * (x \div c) + (x % c)
OBVIOUS

LEMMA Remainder ==
    ASSUME NEW c \in Nat, NEW k \in Nat, NEW r \in Nat, r < c
    PROVE  (c * k + r) % c = r
OBVIOUS

LEMMA Multiples ==
    ASSUME NEW c \in Nat, c > 0, NEW k \in Nat, NEW x \in Nat
    PROVE  (c * k + x) % c = x % c
<1>1. PICK q, r \in Nat : q = x \div c /\ r = x % c
  BY QuotientAndRest
<1>2. r < c /\ x = c * q + r
  BY <1>1, QuotientAndRest
<1>3. c * k + x = c * (k + q) + r /\ k + q \in Nat
  BY <1>2
<1>4. (c * (k + q) + r) % c = r
  BY <1>2, <1>3, Remainder
<1>5. QED
  BY <1>1, <1>3, <1>4

LEMMA CountModulo ==
    ASSUME NEW c \in Nat, c > 0, NEW x \in Nat, NEW y \in Nat
    PROVE  ((x % c) + y) % c = (x + y) % c
<1>1. PICK q, r \in Nat : q = x \div c /\ r = x % c
  BY QuotientAndRest
<1>2. x = c * q + r
  BY <1>1, QuotientAndRest
<1>3. x + y = c * q + (r + y) /\ r + y \in Nat
  BY <1>2
<1>4. (c * q + (r + y)) % c = (r + y) % c
  BY <1>3, Multiples
<1>5. QED
  BY <1>1, <1>3, <1>4

\* What is counted and what is in flight add up, one instruction later too.
LEMMA CountedOn ==
    ASSUME NEW x \in Nat, NEW m, NEW event, x % CNTMOD = m
    PROVE  (x + One(event)) % CNTMOD = Count(m, event)
<1>1. CNTMOD \in Nat /\ CNTMOD > 0
  BY CsrAssumption
<1>2. CASE event
  BY <1>1, <1>2, CountModulo DEF Count, One
<1>3. CASE ~event
  BY <1>1, <1>3 DEF Count, One
<1>4. QED
  BY <1>2, <1>3

-----------------------------------------------------------------------------
(* The pipeline without waits *)

LEMMA NoStall == ASSUME NoWait PROVE ~dmem_stall /\ ~imem_wait_eff
BY DEF NoWait, dmem_stall, imem_wait_eff

\* No flush meets a multiply or divide that has no result yet.
LEMMA FlushIsNotStalled ==
    ASSUME Decoded, if_flush PROVE ~ex_muldiv_stall
<1>1. CASE ex_trap \/ ex_mret
  BY <1>1 DEF ex_trap, ex_mret, Decoded, LegalUnitOp, ex_muldiv_stall, ex_is_muldiv, IsMulDiv, IsIllegal
<1>2. CASE ex_redirect
  BY <1>2 DEF ex_redirect
<1>3. CASE irq_take
  BY <1>3 DEF irq_take, pipe_empty, ex_muldiv_stall, ex_is_muldiv
<1>4. QED
  BY <1>1, <1>2, <1>3 DEF if_flush

\* An instruction leaves EX when the counters tick, and goes on to MEM.
LEMMA LeavingTicks ==
    ASSUME NoWait, Decoded
    PROVE  /\ LeavesIdEx <=> ex_tick
           /\ backend_hold <=> mem_hold
           /\ ~mem_hold => (LeavesIdEx <=> id_ex.valid /\ ~ex_muldiv_stall)
BY NoStall, FlushIsNotStalled DEF LeavesIdEx, IdExHold, ex_tick, backend_hold

LEMMA CounterClock ==
    ASSUME Counts, NEW retire, NEW branch, NEW mispredict, NEW trap, NEW cause, NEW epc,
           NEW tval, NEW mret, NEW we, NEW name, NEW wdata,
           Csr!Clock(retire, branch, mispredict, trap, cause, epc, tval, mret, we, name, wdata)
    PROVE  /\ {"minstret", "br_exec"} \subseteq DOMAIN csr'
           /\ csr'.minstret = Count(csr.minstret, retire)
           /\ csr'.br_exec = Count(csr.br_exec, branch)
<1> DEFINE ticked == Csr!Tick(csr, retire, branch, mispredict)
<1>1. /\ DOMAIN ticked = DOMAIN csr
      /\ ticked.minstret = Count(csr.minstret, retire)
      /\ ticked.br_exec = Count(csr.br_exec, branch)
  BY DEF Csr!Tick, Counts, Count
<1> HIDE DEF ticked
<1>2. \/ csr' = Csr!TrapEntry(ticked, cause, epc, tval)
      \/ csr' = Csr!MretExit(ticked)
      \/ csr' = Csr!CsrWrite(ticked, name, wdata)
      \/ csr' = ticked
  BY DEF Csr!Clock, ticked
<1>3. CASE csr' = Csr!TrapEntry(ticked, cause, epc, tval)
  BY <1>1, <1>3 DEF Csr!TrapEntry, Counts
<1>4. CASE csr' = Csr!MretExit(ticked)
  BY <1>1, <1>4 DEF Csr!MretExit, Counts
<1>5. CASE csr' = Csr!CsrWrite(ticked, name, wdata)
  BY <1>1, <1>5 DEF Csr!CsrWrite, Counts
<1>6. CASE csr' = ticked
  BY <1>1, <1>6 DEF Counts
<1>7. QED
  BY <1>2, <1>3, <1>4, <1>5, <1>6

LEMMA DecodedStep ==
    ASSUME CodeSound, Decoded, Clock PROVE Decoded'
<1>1. LegalUnitOp(fetched) /\ LegalUnitOp(joined)
  BY DEF CodeSound, Decoded, LegalUnitOp, fetched, joined, Junk, Plain, IsMulDiv
<1>2. if_id'.valid => LegalUnitOp(if_id'.instr)
  BY <1>1 DEF Clock, IfId, FlushFetch, DrainFetch, HoldFetch, CompleteSplit, SetupSplit,
              FetchWhole, IfIdBubble, Decoded
<1>3. id_ex'.valid => LegalUnitOp(id_ex'.instr)
  BY DEF Clock, IdEx, IdExBubble, Decoded
<1>4. prog' \in Programs
  BY DEF Clock, Decoded
<1>5. QED
  BY <1>2, <1>3, <1>4 DEF Decoded

LEMMA CountStep ==
    ASSUME PortsFree, CodeSound, CountInv, HistoryNext PROVE CountInv'
<1>0. Clock /\ NoWait /\ Decoded /\ Counts
  BY DEF HistoryNext, Next, CountInv
<1>1. NoWait'
  BY <1>0 DEF Clock, Pins, NoWait, PortsFree
<1>2. Decoded'
  BY <1>0, DecodedStep
<1>3. /\ {"minstret", "br_exec"} \subseteq DOMAIN csr'
      /\ csr'.minstret = Count(csr.minstret, mem_wb.valid)
      /\ csr'.br_exec = Count(csr.br_exec, ex_tick /\ ex_is_cf)
  BY <1>0, CounterClock DEF Clock, CsrClock
<1>4. left' = Count(left, LeavesIdEx) /\ cf_left' = Count(cf_left, LeavesIdEx /\ ex_is_cf)
  BY DEF HistoryNext
<1>5. Counts'
  BY <1>0, <1>3, <1>4, CountInRange DEF Counts
<1>6. BranchCounterExact'
  BY <1>0, <1>3, <1>4, LeavingTicks DEF CountInv, BranchCounterExact
<1>7. ASSUME ~frozen' PROVE NoDuplicateRetire'
  <2>1. ~frozen /\ ~(mem_wb.valid /\ backend_hold)
    BY <1>7 DEF HistoryNext
  <2>2. (csr.minstret + InFlight) % CNTMOD = left
    BY <2>1 DEF CountInv, RetireCounterExact, NoDuplicateRetire
  <2>3. csr.minstret \in Nat
    BY <1>0, CsrAssumption DEF Counts, Counter
  <2>4. InFlight = One(ex_mem.valid) + One(mem_wb.valid)
    BY DEF InFlight, One
  <2>5. InFlight' = One(ex_mem'.valid) + One(mem_wb'.valid)
    BY DEF InFlight, One
  <2>6. CASE mem_hold
    <3>1. ~mem_wb.valid /\ ~LeavesIdEx
      BY <1>0, <2>1, <2>6, LeavingTicks DEF LeavesIdEx, IdExHold
    <3>2. ex_mem' = ex_mem /\ mem_wb' = mem_wb
      BY <1>0, <2>6 DEF Clock, ExMem, MemWb, backend_hold
    <3>3. csr'.minstret = csr.minstret /\ left' = left
      BY <1>3, <1>4, <3>1 DEF Count
    <3>4. QED
      BY <2>2, <2>4, <2>5, <3>2, <3>3 DEF NoDuplicateRetire
  <2>7. CASE ~mem_hold
    <3>1. ~backend_hold
      BY <1>0, <2>7, LeavingTicks
    <3>2. mem_wb'.valid <=> ex_mem.valid
      BY <1>0, <3>1 DEF Clock, MemWb, MemWbBubble
    <3>3. ex_mem'.valid <=> LeavesIdEx
      BY <1>0, <2>7, <3>1, LeavingTicks DEF Clock, ExMem, ExMemBubble
    <3>4. InFlight' = One(LeavesIdEx) + One(ex_mem.valid)
      BY <2>5, <3>2, <3>3 DEF One
    <3> DEFINE e == One(LeavesIdEx)
               f == One(ex_mem.valid)
               w == One(mem_wb.valid)
               n == csr.minstret
    <3>5. e \in Nat /\ f \in Nat /\ w \in Nat
      BY DEF One
    <3>6. csr'.minstret = (n + w) % CNTMOD
      <4>1. n % CNTMOD = n
        BY <1>0, CsrAssumption DEF Counts, Counter
      <4>2. QED
        BY <1>3, <2>3, <4>1, CountedOn
    <3>7. left' = (n + (f + w) + e) % CNTMOD
      <4>1. (n + (f + w)) % CNTMOD = left
        BY <2>2, <2>4
      <4>2. n + (f + w) \in Nat
        BY <2>3, <3>5
      <4>3. QED
        BY <1>4, <4>1, <4>2, CountedOn
    <3> HIDE DEF e, f, w, n
    <3>8. n \in Nat /\ n + w \in Nat /\ e + f \in Nat /\ n + (f + w) + e = (n + w) + (e + f)
      BY <2>3, <3>5 DEF n
    <3>9. PICK x, y \in Nat : x = n + w /\ y = e + f
      BY <3>8
    <3>10. CNTMOD \in Nat /\ CNTMOD > 0
      BY CsrAssumption
    <3>11. ((x % CNTMOD) + y) % CNTMOD = (x + y) % CNTMOD
      BY <3>10, CountModulo
    <3>12. left' = (x + y) % CNTMOD
      BY <3>7, <3>8, <3>9
    <3>13. (csr'.minstret + InFlight') % CNTMOD = ((x % CNTMOD) + y) % CNTMOD
      BY <3>4, <3>6, <3>9 DEF e, f
    <3>14. QED
      BY <3>11, <3>12, <3>13 DEF NoDuplicateRetire
  <2>8. QED
    BY <2>6, <2>7
<1>8. QED
  BY <1>1, <1>2, <1>5, <1>6, <1>7 DEF CountInv, RetireCounterExact

LEMMA CountNext == ASSUME PortsFree, CodeSound PROVE CountInv /\ [HistoryNext]_hvars => CountInv'
<1>1. CountInv /\ HistoryNext => CountInv'
  BY CountStep
<1>2. CountInv /\ UNCHANGED hvars => CountInv'
  BY DEF hvars, vars, pins, pipeline, CountInv, NoWait, Decoded, Counts, RetireCounterExact,
         NoDuplicateRetire, InFlight, BranchCounterExact
<1>3. QED
  BY <1>1, <1>2

LEMMA CountStart == ASSUME PortsFree PROVE HistoryInit => CountInv
<1> SUFFICES ASSUME HistoryInit PROVE CountInv
  OBVIOUS
<1>1. NoWait
  BY DEF HistoryInit, Init, PortsFree, NoWait
<1>2. Decoded
  BY DEF HistoryInit, Init, Decoded, IfIdBubble, IdExBubble
<1>3. csr = Csr!CsrReset /\ left = 0 /\ cf_left = 0
  BY DEF HistoryInit, Init, Csr!CsrInit
<1>4. Counts /\ BranchCounterExact
  BY <1>3, CsrAssumption DEF Counts, Counter, Csr!CsrReset, BranchCounterExact
<1>5. NoDuplicateRetire
  <2>1. InFlight = 0
    BY DEF HistoryInit, Init, InFlight, ExMemBubble, MemWbBubble
  <2>2. 0 % CNTMOD = 0
    BY CsrAssumption
  <2>3. QED
    BY <1>3, <2>1, <2>2 DEF NoDuplicateRetire, Csr!CsrReset
<1>6. QED
  BY <1>1, <1>2, <1>4, <1>5 DEF CountInv, RetireCounterExact

(* Without waits minstret loses no instruction that leaves EX and counts   *)
(* none twice, through flushes, restarts, traps and writes to the CSRs,    *)
(* but for what a crossing access holds in MEM/WB (retire_valid, csr.v).   *)
THEOREM RetireExact == ASSUME PortsFree, CodeSound PROVE HistorySpec => []RetireCounterExact
<1>1. CountInv => RetireCounterExact
  BY DEF CountInv
<1>2. QED
  BY <1>1, CountStart, CountNext, PTL DEF HistorySpec, hvars

(* Without waits 0x7C0 counts each branch and jump that leaves EX once     *)
(* (ex_tick, csr.v).                                                       *)
THEOREM BranchExact == ASSUME PortsFree, CodeSound PROVE HistorySpec => []BranchCounterExact
<1>1. CountInv => BranchCounterExact
  BY DEF CountInv
<1>2. QED
  BY <1>1, CountStart, CountNext, PTL DEF HistorySpec, hvars
=============================================================================
