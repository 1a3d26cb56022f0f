---------------------------- MODULE PortProperties ----------------------------
(***************************************************************************)
(* What the report of a CoreMark run may be relied on for.                 *)
(***************************************************************************)
EXTENDS Port

\* Calibration makes the run last "between 10 to 100 secs"
\* (core_main.c:101-103), from seconds rounded down and a 32-bit clock that
\* may wrap meanwhile.
Secs(n) == n * EE_TICKS_PER_SEC
CalibratedRun ==
    run.iterations = 0 /\ pc \notin {"init", "calibrate", "timed"}
        => window["mcycle"] >= Secs(10) /\ window["mcycle"] <= Secs(100)

Passed == \E i \in DOMAIN tb.endings : tb.endings[i] = "PASS"
Value(id) == tb.reports[CHOOSE i \in DOMAIN tb.reports : tb.reports[i].id = id].value
Rebuilt(id) == Value(id) + HALF * Value(id + 1)

\* The halves the testbench displays are how far the counters moved in the
\* timed window and in the whole program, wherever the counters stood when it
\* began (finish.c:44-90, core_portme.c:76).
ReportsExact ==
    Passed =>
        /\ \A id \in {1, 3, 12, 14} :
               Rebuilt(id) = window[CASE id = 1 -> "mcycle" [] id = 3 -> "minstret"
                                      [] id = 12 -> "branch" [] id = 14 -> "mispredict"]
        /\ Rebuilt(7) = whole["mcycle"] /\ Rebuilt(9) = whole["minstret"]

\* "crc_ok": 1 if and only if none of the check values that were compared is
\* wrong, although the report itself prints "crc" after an "ERROR!" that is
\* no mismatch; 11 tells of either (finish.c:74-79, ee_printf.c:142-145).
CrcOkTruthful ==
    Passed => LET wrong == run.known_id >= 0 /\ run.wrong # {}
              IN  /\ Value(6) = Flag(~wrong)
                  /\ Value(11) = Flag(wrong \/ window["mcycle"] < Secs(10))

\* The simulation ends once: PASS and TIMEOUT may come at the same
\* clock (tb_rv32imc.v:239, :263).
OneEnding == Len(tb.endings) <= 1

\* PASS comes after every report, and the reports in their order, a store the
\* core repeats being displayed twice (finish.c:64-92).
ReportOrder == <<1, 2, 3, 4, 12, 13, 14, 15, 5, 6, 11, 7, 8, 9, 10>>
Place(r) == CHOOSE k \in 1 .. Len(ReportOrder) : ReportOrder[k] = r.id
PassMeansReported ==
    Passed => /\ {Place(tb.reports[i]) : i \in DOMAIN tb.reports} = 1 .. Len(ReportOrder)
              /\ \A i, j \in DOMAIN tb.reports : i < j => Place(tb.reports[i]) <= Place(tb.reports[j])

\* Calibration ends, and so does the simulation (core_main.c:247).
Decided == <>(tb.endings # <<>>)

-----------------------------------------------------------------------------
\* "Cannot validate operation for these seed values" is not what a short run
\* with unknown seeds prints: its one error brings total_errors from -1 to 0,
\* and 0 prints "Correct operation validated" (core_main.c:377, :401).
ValidatedMeansChecked == pc = "finish" /\ total_errors = 0 => run.known_id >= 0
=============================================================================
