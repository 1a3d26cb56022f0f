-------------------------------- MODULE Port --------------------------------
(***************************************************************************)
(* What core_main.c does around the kernels, with the port's clock, log    *)
(* and final report: the number of iterations is calibrated, the timed run *)
(* bracketed by start_time and stop_time, the results validated, the log   *)
(* written character by character, and everything reported by tohost.      *)
(*                                                                         *)
(* An ee_u32 is a number modulo HALF * HALF (HALF stands for 2^16); the    *)
(* kernels are the time they take and the check values they get wrong.     *)
(***************************************************************************)
EXTENDS EePrintf, Tohost

CONSTANTS HALF, EE_TICKS_PER_SEC,
          Runs     \* records: known_id, wrong, iterations (0: calibrate), tpi
                   \* (clocks of one iteration), csr (the counters at start)
Counters == {"mcycle", "minstret", "branch", "mispredict"}
ASSUME PortAssumption ==
    /\ HALF \in Nat \ {0} /\ EE_TICKS_PER_SEC \in Nat \ {0}
    /\ Runs \subseteq [known_id : -1 .. 4, wrong : SUBSET {"list", "matrix", "state"},
                       iterations : Nat, tpi : Nat \ {0}, csr : Nat]

WORD == HALF * HALF

\* The clock wraps after 22 to 100 seconds (2^32 ticks at 100 MHz are 42.9),
\* and no run is asked for that outlasts it: not the iterations given, nor the
\* first ten of a calibration.
ASSUME ClockAssumption ==
    /\ 22 * EE_TICKS_PER_SEC <= WORD /\ WORD <= 100 * EE_TICKS_PER_SEC
    /\ \A r \in Runs : IF r.iterations = 0 THEN 10 * r.tpi < WORD ELSE r.iterations * r.tpi < WORD

VARIABLES
    pc,            \* the part of main the program is in
    run,           \* the element of Runs
    iterations, secs_passed,
    csr,           \* the performance counters
    start, stop, prog_start,            \* what the port has read of them
    window, whole, \* how far they moved: in the last timed window, altogether
                   \* (modulo the word)
    total_errors,
    text           \* characters main has printed and log_putc not yet stored

logVars == <<ee_log_buf, ee_log_len>>
tbVars  == <<words, held, tb>>
timing  == <<iterations, secs_passed, csr, start, stop, prog_start, window, whole>>
vars    == <<pc, run, timing, total_errors, text, logVars, tbVars>>

Zero == [c \in Counters |-> 0]
U32(counts) == [c \in Counters |-> counts[c] % WORD]
Sum(x, y)   == [c \in Counters |-> x[c] + y[c]]

\* Mutant: the difference is not taken modulo the word.
MYTIMEDIFF_Abs(fin, ini) == IF fin >= ini THEN fin - ini ELSE ini - fin
MYTIMEDIFF(fin, ini) == (fin - ini) % WORD

get_time            == MYTIMEDIFF(stop["mcycle"], start["mcycle"])
time_in_secs(ticks) == ticks \div EE_TICKS_PER_SEC

\* How far the counters move in n clocks: an instruction every other clock,
\* every other one a branch, every other of these mispredicted.
Moved(n) == [c \in Counters |-> CASE c = "mcycle" -> n [] c = "minstret" -> n \div 2
                                  [] c = "branch" -> n \div 4 [] c = "mispredict" -> n \div 8]

Init ==
    /\ run \in Runs /\ pc = "init" /\ iterations = run.iterations /\ secs_passed = 0
    /\ csr = [c \in Counters |-> run.csr] /\ start = Zero /\ stop = Zero /\ prog_start = Zero
    /\ window = Zero /\ whole = Zero /\ total_errors = 0 /\ text = <<>>
    /\ LogInit /\ TohostInit

\* The program goes on: nothing is left to print, and nobody ended the run.
At(p) == pc = p /\ text = <<>> /\ ~tb.done

PortableInit ==
    /\ At("init")
    /\ prog_start' = csr
    /\ IF iterations = 0 THEN pc' = "calibrate" /\ iterations' = 1
                         ELSE pc' = "timed" /\ UNCHANGED iterations
    /\ UNCHANGED <<run, secs_passed, csr, start, stop, window, whole, total_errors, text,
                   logVars, tbVars>>

\* start_time, n iterations of the kernels, stop_time
TimedRun(n) ==
    /\ start' = csr
    /\ csr' = U32(Sum(csr, Moved(n * run.tpi)))
    /\ stop' = csr'
    /\ window' = Moved(n * run.tpi)
    /\ whole' = U32(Sum(whole, Moved(n * run.tpi)))

\* Mutant: the number of iterations does not grow.
SameIterations(n) == n
MoreIterations(n) == 10 * n
Calibrate ==
    /\ At("calibrate") /\ secs_passed < 1
    /\ iterations' = MoreIterations(iterations)
    /\ TimedRun(iterations')
    /\ secs_passed' = time_in_secs(get_time)'
    /\ UNCHANGED <<pc, run, prog_start, total_errors, text, logVars, tbVars>>

\* Mutant: ten seconds over the seconds it took, rounded down.
ScaledDown(n, secs) == n * (10 \div secs)
Scaled(n, secs) == n * (1 + 10 \div secs)
EndCalibrate ==
    /\ At("calibrate") /\ secs_passed >= 1
    /\ iterations' = Scaled(iterations, secs_passed) /\ pc' = "timed"
    /\ UNCHANGED <<run, secs_passed, csr, start, stop, prog_start, window, whole, total_errors,
                   text, logVars, tbVars>>

-----------------------------------------------------------------------------
\* Validation and the log.  The lines of the log, with what the scans see.

Line           == <<PLAIN, EOL>>
MismatchLine   == <<PLAIN, ERROR, BANG, PLAIN, CRC, PLAIN, EOL>>
TenSecondsLine == <<ERROR, BANG, PLAIN, EOL>>
CrcLine        == <<CRC, PLAIN, EOL>>
TicksLine(t)   == <<TICKS>> \o log_putu(t, 10, 0, Digit(0)) \o <<EOL>>

Printed(line, next) ==
    /\ text' = line /\ pc' = next
    /\ UNCHANGED <<run, timing, logVars, tbVars>>

Putc ==
    /\ ~tb.done /\ text # <<>>
    /\ log_putc(Head(text)) /\ text' = Tail(text)
    /\ UNCHANGED <<pc, run, timing, total_errors, tbVars>>

Timed ==
    /\ At("timed")
    /\ TimedRun(iterations)
    /\ text' = IF run.known_id >= 0 THEN Line ELSE <<>>
    /\ total_errors' = IF run.known_id >= 0 THEN 0 ELSE -1
    /\ pc' = IF run.known_id >= 0 THEN "list" ELSE "totals"
    /\ UNCHANGED <<run, iterations, secs_passed, prog_start, logVars, tbVars>>

\* One kernel's check value against the known one.
CheckKernel(kernel, next) ==
    /\ At(kernel)
    /\ Printed(IF kernel \in run.wrong THEN MismatchLine ELSE <<>>, next)
    /\ total_errors' = total_errors + (IF kernel \in run.wrong THEN 1 ELSE 0)
CheckList   == CheckKernel("list", "matrix")
CheckMatrix == CheckKernel("matrix", "state")
CheckState  == CheckKernel("state", "totals")

\* Size, ticks, seconds, and the rate if there is one.
Totals ==
    /\ At("totals")
    /\ Printed(Line \o TicksLine(get_time) \o Line
             \o (IF time_in_secs(get_time) > 0 THEN Line ELSE <<>>), "seconds")
    /\ UNCHANGED total_errors

TooShort == time_in_secs(get_time) < 10
TenSeconds ==
    /\ At("seconds")
    /\ Printed(IF TooShort THEN TenSecondsLine ELSE <<>>, "crcs")
    /\ total_errors' = total_errors + (IF TooShort THEN 1 ELSE 0)

\* Iterations, compiler, flags, memory; seedcrc, crclist, crcmatrix, crcstate
\* and crcfinal; then the result.
Crcs ==
    /\ At("crcs")
    /\ Printed(Line \o Line \o CrcLine \o CrcLine \o CrcLine \o CrcLine \o CrcLine \o Line, "finish")
    /\ UNCHANGED total_errors

-----------------------------------------------------------------------------
\* coremark_report_and_finish

\* Mutant: the upper half is not shifted down.
UpperUnshifted(v) == v % HALF
Upper(v) == (v \div HALF) % HALF
Halves(id, v) == <<report(id, v % HALF), report(id + 1, Upper(v))>>
Flag(b) == IF b THEN 1 ELSE 0
Elapsed(c, from, to) == MYTIMEDIFF(to[c], from[c])

ReportAndFinish ==
    /\ At("finish")
    /\ words' = Halves(1, Elapsed("mcycle", start, stop))
                \o Halves(3, Elapsed("minstret", start, stop))
                \o Halves(12, Elapsed("branch", start, stop))
                \o Halves(14, Elapsed("mispredict", start, stop))
                \o <<report(5, run.iterations), report(6, Flag(~ee_log_has_crc_error)),
                     report(11, Flag(ee_log_has_error))>>
                \o Halves(7, Elapsed("mcycle", prog_start, csr))
                \o Halves(9, Elapsed("minstret", prog_start, csr))
                \o <<PassWord>>
    /\ pc' = "report"
    /\ UNCHANGED <<run, timing, total_errors, text, logVars, held, tb>>

programVars == <<pc, run, timing, total_errors, text, logVars>>
Report == pc = "report" /\ Store /\ UNCHANGED programVars
Idle   == pc = "report" /\ QuietClock /\ UNCHANGED programVars
\* The clocks run out before there is a report.
EarlyTimeout ==
    /\ pc # "report" /\ ~tb.done
    /\ tb' = Finish(tb, "TIMEOUT")
    /\ UNCHANGED <<programVars, words, held>>
\* $finish
Finished == tb.done /\ UNCHANGED vars

Program == \/ PortableInit \/ Calibrate \/ EndCalibrate \/ Timed
           \/ CheckList \/ CheckMatrix \/ CheckState \/ Totals \/ TenSeconds \/ Crcs
           \/ Putc \/ ReportAndFinish
Next == Program \/ Report \/ Idle \/ EarlyTimeout \/ Finished
\* The program and the clock go on until the simulation is finished.
Spec == Init /\ [][Next]_vars /\ WF_vars(Next)
=============================================================================
