----------------------------- MODULE BranchPred -----------------------------
(***************************************************************************)
(* rtl/branch_pred.v: a table of 2-bit counters (BHT) and a tagged target  *)
(* buffer (BTB), both indexed by the word address of the pc, read through  *)
(* a registered address.  The pipeline drives lookup_pc with the pc        *)
(* register's D input and trains the tables from EX.                       *)
(***************************************************************************)
EXTENDS Words

CONSTANTS BHT_ENTRIES,  \* 512 in the core
          BTB_ENTRIES   \* 64 in the core

VARIABLES bht,      \* 2-bit counters
          btb,      \* [valid, tag, target]
          rd_addr   \* registered read address

bp_vars == <<bht, btb, rd_addr>>

BhtIdx(a) == (a \div 4) % BHT_ENTRIES
BtbIdx(a) == (a \div 4) % BTB_ENTRIES
BtbTag(a) == a \div (4 * BTB_ENTRIES)

BtbEntry == [valid : BOOLEAN, tag : Word, target : Word]
NoEntry  == [valid |-> FALSE, tag |-> 0, target |-> 0]

TypeOK == /\ bht \in [0 .. BHT_ENTRIES - 1 -> 0 .. 3]
          /\ btb \in [0 .. BTB_ENTRIES - 1 -> BtbEntry]
          /\ rd_addr \in Word

\* The "initial" block: simulation starts with weakly-not-taken counters and
\* an empty BTB.
ColdBht == [i \in 0 .. BHT_ENTRIES - 1 |-> 1]
ColdBtb == [i \in 0 .. BTB_ENTRIES - 1 |-> NoEntry]

-----------------------------------------------------------------------------
(* Lookup, combinational on the registered address. *)
btb_ent     == btb[BtbIdx(rd_addr)]
btb_hit     == btb_ent.valid /\ btb_ent.tag = BtbTag(rd_addr)
pred_taken  == btb_hit /\ bht[BhtIdx(rd_addr)] >= 2
pred_target == AlignDown(btb_ent.target, 2)

-----------------------------------------------------------------------------
(* bht_ctr_nx: saturating count toward the outcome. *)
CtrNext(ctr, taken) == IF taken THEN (IF ctr = 3 THEN 3 ELSE ctr + 1)
                                ELSE (IF ctr = 0 THEN 0 ELSE ctr - 1)

Clock(lookup_pc, bht_upd_valid, btb_upd_valid, upd_pc, upd_taken, upd_target) ==
    /\ rd_addr' = lookup_pc
    /\ bht' = IF bht_upd_valid
              THEN [bht EXCEPT ![BhtIdx(upd_pc)] = CtrNext(@, upd_taken)] ELSE bht
    /\ btb' = IF btb_upd_valid
              THEN [btb EXCEPT ![BtbIdx(upd_pc)] =
                        [valid |-> TRUE, tag |-> BtbTag(upd_pc),
                         target |-> AlignDown(upd_target, 2)]] ELSE btb
=============================================================================
