----------------------------- MODULE PortProofs -----------------------------
(***************************************************************************)
(* What surrounds a CoreMark run, for every run, every size of the log and *)
(* every moment the watchdog may choose: the log stays terminated and      *)
(* holds what fits of the text; calibration makes the run as long as it    *)
(* says; the words the monitor hears are those of the report, in order,    *)
(* and tell what the counters and the comparisons said; the simulation     *)
(* ends at most once, and with PASS only behind all the words.             *)
(***************************************************************************)
EXTENDS PortProperties, WellFoundedInduction, TLAPS

LogTypeOK == /\ ee_log_buf \in [0 .. LOG_SIZE - 1 -> Char]
             /\ ee_log_len \in 0 .. LOG_SIZE - 1
LogInv == LogTypeOK /\ LogTerminated

LEMMA LogInitInv == LogInit => LogInv
  BY LogSizeAssumption DEF LogInit, LogInv, LogTypeOK, LogTerminated, Char, NUL

\* A character written below the old end, or a new zero at the old end.
LEMMA PutcKeepsInv ==
  ASSUME LogInv, NEW c \in Char \ {NUL}, log_putc(c)
  PROVE  LogInv'
  <1> USE LogSizeAssumption DEF LogInv, LogTypeOK, LogTerminated
  <1>0. NUL \in Char
    BY DEF NUL, Char
  <1>1. CASE Fits(ee_log_len)
    <2>1. /\ ee_log_len' = ee_log_len + 1
          /\ ee_log_buf' = [[ee_log_buf EXCEPT ![ee_log_len] = c] EXCEPT ![ee_log_len + 1] = NUL]
      BY <1>1 DEF log_putc
    <2>2. ee_log_len + 1 \in 0 .. LOG_SIZE - 1
      BY <1>1 DEF Fits
    <2>3. \A i \in 0 .. LOG_SIZE - 1 :
             ee_log_buf'[i] = IF i = ee_log_len + 1 THEN NUL
                              ELSE IF i = ee_log_len THEN c ELSE ee_log_buf[i]
      BY <2>1, <2>2
    <2>4. ee_log_buf' \in [0 .. LOG_SIZE - 1 -> Char]
      BY <1>0, <2>1
    <2>5. \A i \in 0 .. ee_log_len : ee_log_buf'[i] # NUL
      BY <2>2, <2>3
    <2> QED
      BY <2>1, <2>2, <2>3, <2>4, <2>5
  <1>2. CASE ~Fits(ee_log_len)
    <2>1. ee_log_len' = ee_log_len /\ ee_log_buf' = [ee_log_buf EXCEPT ![ee_log_len] = NUL]
      BY <1>2 DEF log_putc
    <2> QED
      BY <1>0, <2>1
  <1> QED
    BY <1>1, <1>2

\* The log never writes outside its buffer and always ends in a zero, however
\* much is printed and however small the buffer (ee_printf.c:18-23).
THEOREM LogStaysTerminated == LogSpec => []LogTerminated
  <1>1. LogInv /\ [LogNext]_<<ee_log_buf, ee_log_len>> => LogInv'
    <2> SUFFICES ASSUME LogInv, [LogNext]_<<ee_log_buf, ee_log_len>> PROVE LogInv'
      OBVIOUS
    <2>1. CASE LogNext
      BY <2>1, PutcKeepsInv DEF LogNext
    <2>2. CASE UNCHANGED <<ee_log_buf, ee_log_len>>
      BY <2>2 DEF LogInv, LogTypeOK, LogTerminated
    <2> QED
      BY <2>1, <2>2
  <1>2. LogInv => LogTerminated
    BY DEF LogInv
  <1> QED
    BY LogInitInv, <1>1, <1>2, PTL DEF LogSpec

-----------------------------------------------------------------------------
\* The ending: done says whether there is one.
EndingInv(t) ==
    /\ {"done", "left", "endings", "reports"} \subseteq DOMAIN t
    /\ t.done \in BOOLEAN
    /\ ~t.done => t.endings = <<>>
    /\ t.done => Len(t.endings) = 1

LEMMA FinishKeepsEnding ==
    ASSUME NEW t, EndingInv(t), ~t.done, NEW how
    PROVE  EndingInv(Finish(t, how))
<1>1. t.endings = <<>> /\ "endings" \in DOMAIN t /\ "done" \in DOMAIN t
  BY DEF EndingInv
<1>a. Append(<<>>, how) = <<how>>
  OBVIOUS
<1>2. Finish(t, how).endings = <<how>> /\ Finish(t, how).done = TRUE
  BY <1>1, <1>a DEF Finish
<1>3. DOMAIN Finish(t, how) = DOMAIN t
  BY DEF Finish
<1>4. QED
  BY <1>2, <1>3 DEF EndingInv

LEMMA MonitorKeepsEnding ==
    ASSUME NEW t, EndingInv(t), NEW store PROVE EndingInv(Monitor(t, store))
<1>1. CASE t.done \/ store = <<>>
  BY <1>1 DEF Monitor
<1>2. CASE ~t.done /\ store # <<>>
  <2> DEFINE reported == [t EXCEPT !.reports = Append(@, store[1])]
  <2>1. EndingInv(reported)
    BY DEF EndingInv
  <2>2. QED
    BY <1>2, <2>1, FinishKeepsEnding DEF Monitor
<1>3. QED
  BY <1>1, <1>2

LEMMA WatchdogKeepsEnding ==
    ASSUME NEW t, EndingInv(t) PROVE EndingInv(Watchdog(t))
<1> DEFINE counted == [t EXCEPT !.left = @ - 1]
<1>1. EndingInv(counted)
  BY DEF EndingInv
<1>2. QED
  BY <1>1, FinishKeepsEnding DEF Watchdog

LEMMA ClockKeepsEnding ==
    ASSUME EndingInv(tb), NEW store, Clock(store) PROVE EndingInv(tb')
BY MonitorKeepsEnding, WatchdogKeepsEnding DEF Clock

LEMMA ProgramLeavesTestbench == Program => UNCHANGED tb
BY DEF Program, PortableInit, Calibrate, EndCalibrate, Timed, CheckList, CheckMatrix,
       CheckState, CheckKernel, Totals, TenSeconds, Crcs, Putc, ReportAndFinish, Printed, tbVars

TbInv == EndingInv(tb)
LEMMA NextKeepsEnding == TbInv /\ [Next]_vars => TbInv'
<1> SUFFICES ASSUME EndingInv(tb), [Next]_vars PROVE EndingInv(tb')
  BY DEF TbInv
<1>1. CASE Program
  BY <1>1, ProgramLeavesTestbench
<1>2. CASE Report
  BY <1>2, ClockKeepsEnding DEF Report, Store
<1>3. CASE Idle
  BY <1>3, ClockKeepsEnding DEF Idle, QuietClock
<1>4. CASE EarlyTimeout
  BY <1>4, FinishKeepsEnding DEF EarlyTimeout
<1>5. CASE UNCHANGED vars
  BY <1>5 DEF vars, tbVars
<1>6. QED
  BY <1>1, <1>2, <1>3, <1>4, <1>5 DEF Next, Finished

\* The monitor and the watchdog share done without an order between them, and
\* the program may stop at any clock: there is never a second ending
\* (tb_rv32imc.v:239-272).
THEOREM AtMostOneEnding == Spec => []OneEnding
<1>1. Init => TbInv
  BY DEF Init, TohostInit, TbInv, EndingInv
<1>2. TbInv => OneEnding
  <2>1. Len(<<>>) = 0
    OBVIOUS
  <2>2. ASSUME TbInv PROVE Len(tb.endings) <= 1
    <3>1. (tb.endings = <<>>) \/ Len(tb.endings) = 1
      BY <2>2, Zenon DEF TbInv, EndingInv
    <3>2. Len(tb.endings) \in {0, 1}
      BY <2>1, <3>1, Zenon
    <3>3. \A n \in {0, 1} : n <= 1
      OBVIOUS
    <3>4. QED
      BY <3>2, <3>3, Zenon
  <2>3. QED
    BY <2>2 DEF OneEnding
<1>3. QED
  BY <1>1, <1>2, NextKeepsEnding, PTL DEF Spec
-----------------------------------------------------------------------------
(* The clock: differences of counters that wrap.                            *)
LEMMA WordPositive == WORD \in Nat /\ WORD > 0
BY PortAssumption DEF WORD

LEMMA Division ==
    ASSUME NEW m \in Nat, NEW d \in Nat, d > 0
    PROVE  /\ m \div d \in Nat /\ m % d \in Nat /\ m % d < d
           /\ m = (d * (m \div d)) + (m % d)
OBVIOUS

LEMMA UniqueRemainder ==
    ASSUME NEW w \in Nat, w > 0, NEW q \in Int, NEW r \in Nat, r < w
    PROVE  (q * w + r) % w = r
OBVIOUS

LEMMA DropMultiple ==
    ASSUME NEW w \in Nat, w > 0, NEW a \in Int, NEW k \in Int
    PROVE  (a + k * w) % w = a % w
<1> DEFINE q == a \div w
           r == a % w
<1>1. q \in Int /\ r \in Nat /\ r < w /\ a = q * w + r
  OBVIOUS
<1> HIDE DEF q, r
<1>2. (q + k) * w = q * w + k * w
  BY <1>1
<1>3. a + k * w = (q + k) * w + r
  BY <1>1, <1>2
<1>4. ((q + k) * w + r) % w = r
  BY <1>1, UniqueRemainder
<1>5. r = a % w
  BY DEF r
<1>6. QED
  BY <1>3, <1>4, <1>5

\* How far a counter that wraps is from where it was p before it moved by m.
LEMMA Distance ==
    ASSUME NEW w \in Nat, w > 0, NEW x \in Nat, NEW p \in Nat, NEW m \in Nat
    PROVE  (((x + m) % w) - p) % w = (((x - p) % w) + m) % w
<1> DEFINE q == (x + m) \div w
           r == (x + m) % w
           q2 == (x - p) \div w
           r2 == (x - p) % w
<1>1. q \in Int /\ r \in Nat /\ x + m = q * w + r
  OBVIOUS
<1>2. q2 \in Int /\ r2 \in Nat /\ x - p = q2 * w + r2
  OBVIOUS
<1>3. r = (x + m) % w /\ r2 = (x - p) % w
  BY DEF r, r2
<1> HIDE DEF q, r, q2, r2
<1>4. (q2 - q) * w = q2 * w - q * w
  BY <1>1, <1>2
<1>5. r - p = (r2 + m) + (q2 - q) * w
  BY <1>1, <1>2, <1>4
<1>6. ((r2 + m) + (q2 - q) * w) % w = (r2 + m) % w
  <2>1. r2 + m \in Int /\ q2 - q \in Int
    BY <1>1, <1>2
  <2>2. QED
    BY <2>1, DropMultiple
<1>7. QED
  BY <1>3, <1>5, <1>6
LEMMA FromItself ==
    ASSUME NEW w \in Nat, w > 0, NEW x \in Nat, NEW m \in Nat, m < w
    PROVE  (((x + m) % w) - x) % w = m
<1>1. (x - x) % w = 0 /\ m % w = m
  OBVIOUS
<1>2. (((x + m) % w) - x) % w = (((x - x) % w) + m) % w
  BY Distance
<1>3. QED
  BY <1>1, <1>2

-----------------------------------------------------------------------------
(* Calibration.                                                             *)

\* The time of a run of n iterations.
RunTime(r, n) == n * r.tpi

Phases == {"init", "calibrate", "timed", "list", "matrix", "state", "totals",
           "seconds", "crcs", "finish", "report"}
Times  == [Counters -> Nat]
TimeType == /\ pc \in Phases /\ run \in Runs /\ iterations \in Nat /\ secs_passed \in Nat
            /\ csr \in Times /\ start \in Times /\ stop \in Times /\ prog_start \in Times
            /\ window \in Times /\ whole \in Times

\* The calibration loop leaves iterations that take less than the clock can
\* measure, and secs_passed says how long.
Calibrating ==
    /\ run.iterations = 0 /\ iterations > 0
    /\ secs_passed = 0 => 10 * RunTime(run, iterations) < WORD
    /\ secs_passed > 0 => /\ RunTime(run, iterations) < WORD
                          /\ secs_passed = RunTime(run, iterations) \div EE_TICKS_PER_SEC

Settled ==
    /\ RunTime(run, iterations) < WORD
    /\ run.iterations = 0 => /\ RunTime(run, iterations) >= Secs(10)
                             /\ RunTime(run, iterations) <= Secs(100)

Measured ==
    /\ window = Moved(RunTime(run, iterations))
    /\ \A c \in Counters : (stop[c] - start[c]) % WORD = window[c]

TimeInv ==
    /\ TimeType
    /\ pc = "init" => iterations = run.iterations /\ secs_passed = 0 /\ whole = Zero
    /\ pc = "calibrate" => Calibrating
    /\ pc \notin {"init", "calibrate"} => Settled
    /\ pc \notin {"init", "calibrate", "timed"} => Measured
    /\ pc # "init" => \A c \in Counters : (csr[c] - prog_start[c]) % WORD = whole[c]

LEMMA RunFacts ==
    ASSUME NEW r \in Runs
    PROVE  /\ r.tpi \in Nat /\ r.tpi > 0 /\ r.iterations \in Nat /\ r.csr \in Nat
           /\ r.iterations = 0 => 10 * r.tpi < WORD
           /\ r.iterations # 0 => r.iterations * r.tpi < WORD
<1>1. r \in [known_id : -1 .. 4, wrong : SUBSET {"list", "matrix", "state"},
             iterations : Nat, tpi : Nat \ {0}, csr : Nat]
  BY PortAssumption
<1>2. QED
  BY <1>1, ClockAssumption

LEMMA MovedTimes ==
    ASSUME NEW n \in Nat
    PROVE  /\ Moved(n) \in Times /\ Moved(n)["mcycle"] = n
           /\ \A c \in Counters : Moved(n)[c] <= n
BY DEF Moved, Times, Counters

\* What a timed run leaves, when the clock can measure it.
LEMMA TimedRunMeasures ==
    ASSUME NEW n \in Nat, n * run.tpi \in Nat, n * run.tpi < WORD, TimeType, TimedRun(n)
    PROVE  /\ start' \in Times /\ stop' \in Times /\ csr' \in Times
           /\ window' \in Times /\ whole' \in Times
           /\ window' = Moved(n * run.tpi)
           /\ \A c \in Counters : (stop'[c] - start'[c]) % WORD = window'[c]
           /\ get_time' = n * run.tpi
<1> DEFINE m == n * run.tpi
<1> HIDE DEF m
<1>1. m \in Nat /\ m < WORD
  BY DEF m
<1>2. Moved(m) \in Times /\ \A c \in Counters : Moved(m)[c] \in Nat /\ Moved(m)[c] < WORD
  BY <1>1, MovedTimes, WordPositive DEF Times
<1>3. start' = csr /\ window' = Moved(m) /\ stop' = csr'
  BY DEF TimedRun, m
<1>4. csr' = [c \in Counters |-> (csr[c] + Moved(m)[c]) % WORD]
  BY DEF TimedRun, m, U32, Sum
<1>5. whole' = [c \in Counters |-> (whole[c] + Moved(m)[c]) % WORD]
  BY DEF TimedRun, m, U32, Sum
<1>6. csr \in Times /\ whole \in Times
  BY DEF TimeType
<1>7. csr' \in Times /\ whole' \in Times
  <2>1. \A x, y \in Nat : (x + y) % WORD \in Nat
    BY WordPositive
  <2>2. QED
    BY <1>2, <1>4, <1>5, <1>6, <2>1 DEF Times
<1>8. ASSUME NEW c \in Counters PROVE (stop'[c] - start'[c]) % WORD = window'[c]
  <2>1. csr[c] \in Nat /\ Moved(m)[c] \in Nat /\ Moved(m)[c] < WORD
    BY <1>2, <1>6 DEF Times
  <2>2. QED
    BY <1>3, <1>4, <2>1, FromItself, WordPositive
<1>9. get_time' = m
  <2>1. (stop'["mcycle"] - start'["mcycle"]) % WORD = Moved(m)["mcycle"]
    BY <1>3, <1>8 DEF Counters
  <2>2. QED
    BY <2>1, <1>1, MovedTimes DEF get_time, MYTIMEDIFF
<1>10. QED
  BY <1>2, <1>3, <1>6, <1>7, <1>8, <1>9 DEF m

\* The counters and the account of the whole program move together.
LEMMA TimedRunAccounts ==
    ASSUME NEW n \in Nat, n * run.tpi \in Nat, TimeType, TimedRun(n), prog_start' = prog_start,
           \A c \in Counters : (csr[c] - prog_start[c]) % WORD = whole[c]
    PROVE  \A c \in Counters : (csr'[c] - prog_start'[c]) % WORD = whole'[c]
<1> DEFINE m == n * run.tpi
<1> HIDE DEF m
<1>1. m \in Nat
  BY DEF m
<1>2. csr' = [c \in Counters |-> (csr[c] + Moved(m)[c]) % WORD]
  BY DEF TimedRun, m, U32, Sum
<1>3. whole' = [c \in Counters |-> (whole[c] + Moved(m)[c]) % WORD]
  BY DEF TimedRun, m, U32, Sum
<1>4. ASSUME NEW c \in Counters PROVE (csr'[c] - prog_start'[c]) % WORD = whole'[c]
  <2>1. csr[c] \in Nat /\ prog_start[c] \in Nat /\ Moved(m)[c] \in Nat
    BY <1>1, MovedTimes DEF TimeType, Times
  <2>2. (((csr[c] + Moved(m)[c]) % WORD) - prog_start[c]) % WORD
            = (((csr[c] - prog_start[c]) % WORD) + Moved(m)[c]) % WORD
    <3>1. \A x, q, k \in Nat : (((x + k) % WORD) - q) % WORD = (((x - q) % WORD) + k) % WORD
      BY Distance, WordPositive
    <3>2. QED
      BY <2>1, <3>1
  <2>3. QED
    BY <1>2, <1>3, <2>2
<1>5. QED
  BY <1>4
\* Ten seconds over the seconds it took, rounded down, and one more: at least
\* ten seconds and at most twenty-two, or the time measured when it was longer.
LEMMA ScaledTime ==
    ASSUME NEW t \in Nat, t < WORD, NEW s \in Nat, s > 0, s = t \div EE_TICKS_PER_SEC
    PROVE  LET f == 1 + 10 \div s
           IN  /\ f \in Nat /\ t * f \in Nat /\ t * f < WORD
               /\ Secs(10) <= t * f /\ t * f <= Secs(100)
<1> DEFINE T == EE_TICKS_PER_SEC
           f == 1 + 10 \div s
           d == 10 \div s
<1>1. T \in Nat /\ T > 0 /\ 22 * T <= WORD /\ WORD <= 100 * T /\ WORD \in Nat
  BY PortAssumption, ClockAssumption, WordPositive
<1>2. t >= s * T /\ t < s * T + T
  <2>1. t % T \in Nat /\ t % T < T /\ t = (T * s) + (t % T)
    BY <1>1, Division
  <2>2. T * s = s * T
    BY <1>1
  <2>3. QED
    BY <1>1, <2>1, <2>2
<1>3. d \in Nat
  OBVIOUS
<1> HIDE DEF T
<1>4. CASE s > 10
  <2>1. d = 0 /\ f = 1
    BY <1>4
  <2>2. s * T >= 10 * T
    BY <1>1, <1>4
  <2>3. t * f = t
    BY <2>1
  <2>4. QED
    BY <1>1, <1>2, <2>1, <2>2, <2>3 DEF Secs, T
<1>5. CASE s \in 1 .. 10
  <2>1. s * T >= T
    BY <1>1, <1>5
  <2>2. \/ s = 1 /\ f = 11
        \/ s = 2 /\ f = 6
        \/ s = 3 /\ f = 4
        \/ s \in {4, 5} /\ f = 3
        \/ s \in 6 .. 10 /\ f = 2
    BY <1>5
  <2>3. /\ t * 11 = 11 * t /\ t * 6 = 6 * t /\ t * 4 = 4 * t /\ t * 3 = 3 * t /\ t * 2 = 2 * t
    OBVIOUS
  <2>4. 10 * T <= t * f /\ t * f < 22 * T
    <3>1. CASE s = 1
      BY <1>1, <1>2, <2>2, <2>3, <3>1
    <3>2. CASE s = 2
      BY <1>1, <1>2, <2>2, <2>3, <3>2
    <3>3. CASE s = 3
      BY <1>1, <1>2, <2>2, <2>3, <3>3
    <3>4. CASE s = 4
      BY <1>1, <1>2, <2>2, <2>3, <3>4
    <3>5. CASE s = 5
      BY <1>1, <1>2, <2>2, <2>3, <3>5
    <3>6. CASE s \in 6 .. 10
      <4>1. f = 2
        BY <2>2, <3>6
      <4>2. s * T >= 6 * T /\ s * T <= 10 * T
        BY <1>1, <3>6
      <4>3. QED
        BY <1>1, <1>2, <2>3, <4>1, <4>2
    <3>7. QED
      BY <1>5, <3>1, <3>2, <3>3, <3>4, <3>5, <3>6
  <2>5. t * f \in Nat /\ f \in Nat
    BY <2>2, <2>3
  <2>6. QED
    BY <1>1, <2>4, <2>5 DEF Secs, T
<1>6. QED
  BY <1>4, <1>5

LEMMA CalibrateKeepsTime == ASSUME TimeInv, Calibrate PROVE TimeInv'
<1>1. /\ pc = "calibrate" /\ pc' = pc /\ run' = run /\ prog_start' = prog_start
      /\ iterations' = 10 * iterations /\ secs_passed = 0
  BY DEF Calibrate, At, MoreIterations, TimeInv, TimeType
<1>2. Calibrating /\ TimeType /\ run.tpi \in Nat /\ iterations \in Nat /\ iterations' \in Nat
  BY <1>1, RunFacts DEF TimeInv, TimeType
<1> DEFINE t == iterations * run.tpi
<1>3. t \in Nat /\ iterations' * run.tpi = 10 * t /\ 10 * t < WORD /\ 10 * t \in Nat
  BY <1>1, <1>2 DEF Calibrating, RunTime
<1>4. /\ TimedRun(iterations') /\ secs_passed' = get_time' \div EE_TICKS_PER_SEC
  BY DEF Calibrate, time_in_secs
<1>5. /\ start' \in Times /\ stop' \in Times /\ csr' \in Times
      /\ window' \in Times /\ whole' \in Times /\ get_time' = 10 * t
  BY <1>2, <1>3, <1>4, TimedRunMeasures
<1> HIDE DEF t
<1>6. secs_passed' = (10 * t) \div EE_TICKS_PER_SEC /\ secs_passed' \in Nat
  BY <1>3, <1>4, <1>5, PortAssumption
<1>7. TimeType'
  BY <1>1, <1>2, <1>5, <1>6 DEF TimeType
<1>8. Calibrating'
  <2>1. RunTime(run', iterations') = 10 * t
    BY <1>1, <1>3 DEF RunTime
  <2>2. secs_passed' = 0 => 10 * t < EE_TICKS_PER_SEC
    <3>1. \A a, k \in Nat : k > 0 /\ a \div k = 0 => a < k
      OBVIOUS
    <3>2. QED
      BY <1>3, <1>6, <3>1, PortAssumption
  <2>3. secs_passed' = 0 => 10 * (10 * t) < WORD
    BY <1>3, <2>2, ClockAssumption, WordPositive, PortAssumption
  <2>4. QED
    BY <1>1, <1>2, <1>3, <1>6, <2>1, <2>3 DEF Calibrating
<1>9. \A c \in Counters : (csr'[c] - prog_start'[c]) % WORD = whole'[c]
  BY <1>1, <1>2, <1>3, <1>4, TimedRunAccounts DEF TimeInv
<1>10. QED
  BY <1>1, <1>7, <1>8, <1>9 DEF TimeInv

LEMMA EndCalibrateKeepsTime == ASSUME TimeInv, EndCalibrate PROVE TimeInv'
<1>1. /\ pc = "calibrate" /\ pc' = "timed" /\ secs_passed > 0
      /\ iterations' = iterations * (1 + 10 \div secs_passed)
      /\ UNCHANGED <<run, secs_passed, csr, start, stop, prog_start, window, whole>>
  BY DEF EndCalibrate, At, Scaled, TimeInv, TimeType
<1>2. Calibrating /\ TimeType /\ run.tpi \in Nat /\ iterations \in Nat /\ secs_passed \in Nat
  BY <1>1, RunFacts DEF TimeInv, TimeType
<1> DEFINE t == iterations * run.tpi
           f == 1 + 10 \div secs_passed
<1>3. t \in Nat /\ t < WORD /\ secs_passed = t \div EE_TICKS_PER_SEC
  BY <1>1, <1>2 DEF Calibrating, RunTime
<1>4. f \in Nat /\ t * f \in Nat /\ t * f < WORD /\ Secs(10) <= t * f /\ t * f <= Secs(100)
  BY <1>1, <1>2, <1>3, ScaledTime
<1>5. iterations' = iterations * f
  BY <1>1
<1> HIDE DEF f
<1>6. iterations' \in Nat /\ RunTime(run', iterations') = t * f
  BY <1>1, <1>2, <1>4, <1>5 DEF RunTime
<1> HIDE DEF t
<1>7. Settled'
  BY <1>4, <1>6 DEF Settled, Secs
<1>8. TimeType'
  BY <1>1, <1>2, <1>6 DEF TimeType, Phases
<1>9. QED
  BY <1>1, <1>7, <1>8 DEF TimeInv

LEMMA TimedKeepsTime == ASSUME TimeInv, Timed PROVE TimeInv'
<1>1. /\ pc = "timed" /\ pc' \in {"list", "totals"} /\ TimedRun(iterations)
      /\ UNCHANGED <<run, iterations, secs_passed, prog_start>>
  BY DEF Timed, At
<1>2. Settled /\ TimeType /\ run.tpi \in Nat /\ iterations \in Nat
  BY <1>1, RunFacts DEF TimeInv, TimeType
<1>3. iterations * run.tpi \in Nat /\ iterations * run.tpi < WORD
  BY <1>2 DEF Settled, RunTime
<1>4. /\ start' \in Times /\ stop' \in Times /\ csr' \in Times
      /\ window' \in Times /\ whole' \in Times
      /\ window' = Moved(iterations * run.tpi)
      /\ \A c \in Counters : (stop'[c] - start'[c]) % WORD = window'[c]
  BY <1>1, <1>2, <1>3, TimedRunMeasures
<1>5. Measured'
  BY <1>1, <1>4 DEF Measured, RunTime
<1>6. TimeType'
  BY <1>1, <1>2, <1>4 DEF TimeType, Phases
<1>7. \A c \in Counters : (csr'[c] - prog_start'[c]) % WORD = whole'[c]
  BY <1>1, <1>2, <1>3, TimedRunAccounts DEF TimeInv
<1>8. Settled'
  BY <1>1, <1>2 DEF Settled
<1>9. QED
  BY <1>1, <1>5, <1>6, <1>7, <1>8 DEF TimeInv

LEMMA PortableInitKeepsTime == ASSUME TimeInv, PortableInit PROVE TimeInv'
<1>1. /\ pc = "init" /\ prog_start' = csr
      /\ UNCHANGED <<run, secs_passed, csr, start, stop, window, whole>>
      /\ iterations = run.iterations /\ secs_passed = 0 /\ whole = Zero /\ TimeType
      /\ IF iterations = 0 THEN pc' = "calibrate" /\ iterations' = 1
                           ELSE pc' = "timed" /\ UNCHANGED iterations
  BY DEF PortableInit, At, TimeInv
<1>2. /\ run.tpi \in Nat /\ run.iterations \in Nat
      /\ run.iterations = 0 => 10 * run.tpi < WORD
      /\ run.iterations # 0 => run.iterations * run.tpi < WORD
  BY <1>1, RunFacts DEF TimeType
<1>3. TimeType' /\ pc' \in {"calibrate", "timed"}
  BY <1>1 DEF TimeType, Phases
<1>4. pc' = "calibrate" => Calibrating'
  BY <1>1, <1>2 DEF Calibrating, RunTime
<1>5. pc' = "timed" => Settled'
  BY <1>1, <1>2 DEF Settled, RunTime
<1>6. \A c \in Counters : (csr'[c] - prog_start'[c]) % WORD = whole'[c]
  <2>1. \A x \in Nat : (x - x) % WORD = 0
    BY WordPositive
  <2>2. ASSUME NEW c \in Counters PROVE csr[c] \in Nat /\ whole[c] = 0
    BY <1>1 DEF TimeType, Times, Zero
  <2>3. QED
    BY <1>1, <2>1, <2>2
<1>7. QED
  BY <1>3, <1>4, <1>5, <1>6 DEF TimeInv
LEMMA TimeStarts == Init => TimeInv
<1> SUFFICES ASSUME Init PROVE TimeInv
  OBVIOUS
<1>1. Zero \in Times /\ run.iterations \in Nat /\ run.csr \in Nat
  BY RunFacts DEF Init, Zero, Times
<1>2. TimeType
  BY <1>1 DEF Init, TimeType, Phases, Times
<1>3. QED
  BY <1>2 DEF Init, TimeInv

LEMMA TimeNext == TimeInv /\ [Next]_vars => TimeInv'
<1> SUFFICES ASSUME TimeInv, [Next]_vars PROVE TimeInv'
  OBVIOUS
<1>1. ASSUME UNCHANGED <<run, timing>>,
             pc' = pc \/ (pc \notin {"init", "calibrate", "timed"}
                          /\ pc' \in Phases \ {"init", "calibrate", "timed"})
      PROVE  TimeInv'
  <2>1. TimeType'
    BY <1>1 DEF timing, TimeInv, TimeType
  <2>2. Calibrating' = Calibrating /\ Settled' = Settled /\ Measured' = Measured
    BY <1>1 DEF timing, Calibrating, Settled, Measured
  <2>3. QED
    BY <1>1, <2>1, <2>2 DEF timing, TimeInv
<1>2. CASE PortableInit
  BY <1>2, PortableInitKeepsTime
<1>3. CASE Calibrate
  BY <1>3, CalibrateKeepsTime
<1>4. CASE EndCalibrate
  BY <1>4, EndCalibrateKeepsTime
<1>5. CASE Timed
  BY <1>5, TimedKeepsTime
<1>6. CASE CheckList \/ CheckMatrix \/ CheckState \/ Totals \/ TenSeconds \/ Crcs \/ ReportAndFinish
  BY <1>1, <1>6 DEF CheckList, CheckMatrix, CheckState, CheckKernel, Totals, TenSeconds, Crcs,
                    ReportAndFinish, Printed, At, Phases
<1>7. CASE Putc \/ Report \/ Idle \/ EarlyTimeout \/ UNCHANGED vars
  BY <1>1, <1>7 DEF Putc, Report, Idle, EarlyTimeout, programVars, vars
<1>8. QED
  BY <1>2, <1>3, <1>4, <1>5, <1>6, <1>7 DEF Next, Program, Finished

\* Whatever an iteration takes, as long as the clock can count ten of them,
\* the calibrated run lasts from 10 to 100 seconds (core_main.c:101-103).
THEOREM Calibration == Spec => []CalibratedRun
<1>1. TimeInv => CalibratedRun
  <2> SUFFICES ASSUME TimeInv, run.iterations = 0, pc \notin {"init", "calibrate", "timed"}
               PROVE  window["mcycle"] >= Secs(10) /\ window["mcycle"] <= Secs(100)
    BY DEF CalibratedRun
  <2>1. Settled /\ Measured /\ run.tpi \in Nat /\ iterations \in Nat
    BY RunFacts DEF TimeInv, TimeType
  <2>2. RunTime(run, iterations) \in Nat
    BY <2>1 DEF RunTime
  <2>3. window["mcycle"] = RunTime(run, iterations)
    BY <2>1, <2>2, MovedTimes DEF Measured
  <2>4. QED
    BY <2>1, <2>3 DEF Settled
<1>2. QED
  BY <1>1, TimeStarts, TimeNext, PTL DEF Spec
-----------------------------------------------------------------------------
(* The log: what main has printed, as far as it fits.                       *)

\* The least natural number outside a set has its predecessor inside.
LEMMA LessThan == \A x, y \in Nat : <<x, y>> \in OpToRel(<, Nat) <=> x < y
BY DEF OpToRel

LEMMA StrongInduction ==
    ASSUME NEW S, \A n \in Nat : (\A m \in Nat : m < n => m \in S) => n \in S
    PROVE  Nat \subseteq S
<1> DEFINE T == Nat \ S
           R == OpToRel(<, Nat)
<1>1. SUFFICES ASSUME T # {} PROVE FALSE
  OBVIOUS
<1>2. IsWellFoundedOn(R, Nat) /\ T \subseteq Nat
  BY NatLessThanWellFounded
<1>3. \A x, y \in Nat : <<x, y>> \in R <=> x < y
  BY LessThan
<1> HIDE DEF T, R
<1>4. PICK x \in T : \A y \in T : ~ (<<y, x>> \in R)
  BY <1>1, <1>2, WFMin
<1>5. \A m \in Nat : m < x => m \in S
  BY <1>2, <1>3, <1>4 DEF T
<1>6. QED
  BY <1>2, <1>4, <1>5 DEF T

(* The digits of a number: only digits.  The recursion ends, since a number *)
(* without its last digit is smaller.                                       *)
DecimalDigits == {Digit(d) : d \in 0 .. 9}
Peeled(f, w) == IF w = 0 THEN <<>> ELSE <<Digit(w % 10)>> \o f[w \div 10]
Peels(f, n) == \A w \in 0 .. n : f[w] = Peeled(f, w)

LEMMA Smaller ==
    ASSUME NEW w \in Nat, w # 0
    PROVE  /\ w \div 10 \in Nat /\ w \div 10 < w /\ <<Digit(w % 10)>> \in Seq(DecimalDigits)
<1>1. w \div 10 \in Nat /\ w \div 10 < w /\ w % 10 \in 0 .. 9
  OBVIOUS
<1>2. Digit(w % 10) \in DecimalDigits
  BY <1>1 DEF DecimalDigits
<1>3. QED
  BY <1>1, <1>2

LEMMA PeelsUnique ==
    ASSUME NEW f, NEW n \in Nat, Peels(f, n), NEW g, NEW m \in Nat, Peels(g, m),
           NEW k \in Nat, k <= n, k <= m
    PROVE  f[k] = g[k] /\ f[k] \in Seq(DecimalDigits)
<1> DEFINE S == {w \in Nat : w <= n /\ w <= m => f[w] = g[w] /\ f[w] \in Seq(DecimalDigits)}
<1>1. ASSUME NEW w \in Nat, \A v \in Nat : v < w => v \in S, w <= n, w <= m
      PROVE  f[w] = g[w] /\ f[w] \in Seq(DecimalDigits)
  <2>1. f[w] = Peeled(f, w) /\ g[w] = Peeled(g, w)
    BY <1>1 DEF Peels
  <2>2. CASE w = 0
    BY <2>1, <2>2 DEF Peeled
  <2>3. CASE w # 0
    <3>1. w \div 10 \in Nat /\ w \div 10 < w /\ <<Digit(w % 10)>> \in Seq(DecimalDigits)
      BY <2>3, Smaller
    <3>2. f[w \div 10] = g[w \div 10] /\ f[w \div 10] \in Seq(DecimalDigits)
      BY <1>1, <3>1
    <3>3. f[w] = <<Digit(w % 10)>> \o f[w \div 10] /\ g[w] = <<Digit(w % 10)>> \o f[w \div 10]
      BY <2>1, <2>3, <3>2 DEF Peeled
    <3>4. \A s, t \in Seq(DecimalDigits) : s \o t \in Seq(DecimalDigits)
      OBVIOUS
    <3>5. QED
      BY <3>1, <3>2, <3>3, <3>4
  <2>4. QED
    BY <2>2, <2>3
<1>2. \A w \in Nat : (\A v \in Nat : v < w => v \in S) => w \in S
  BY <1>1
<1> HIDE DEF S
<1>3. k \in S
  BY <1>2, StrongInduction
<1>4. QED
  BY <1>3 DEF S

LEMMA PeelsExists ==
    ASSUME NEW n \in Nat PROVE \E f : Peels(f, n)
<1> DEFINE S == {m \in Nat : \E f : Peels(f, m)}
<1>1. ASSUME NEW m \in Nat, \A v \in Nat : v < m => v \in S PROVE m \in S
  <2>1. CASE m = 0
    <3> DEFINE f == [w \in 0 .. 0 |-> <<>>]
    <3>1. Peels(f, 0)
      BY DEF Peels, Peeled
    <3>2. QED
      BY <2>1, <3>1
  <2>2. CASE m # 0
    <3>1. m - 1 \in Nat /\ m - 1 < m
      BY <2>2
    <3>2. PICK f : Peels(f, m - 1)
      BY <1>1, <3>1
    <3> DEFINE h == [w \in 0 .. m |-> IF w < m THEN f[w] ELSE Peeled(f, w)]
    <3>3. \A w \in 0 .. m : h[w] = IF w < m THEN f[w] ELSE Peeled(f, w)
      OBVIOUS
    <3> HIDE DEF h
    <3>4. ASSUME NEW w \in 0 .. m PROVE h[w] = Peeled(h, w)
      <4>1. h[w] = Peeled(f, w)
        <5>1. w < m => w \in 0 .. m - 1
          OBVIOUS
        <5>2. QED
          BY <3>2, <3>3, <5>1 DEF Peels
      <4>2. w # 0 => h[w \div 10] = f[w \div 10]
        <5>1. w # 0 => w \div 10 \in 0 .. m /\ w \div 10 < m
          BY Smaller
        <5>2. QED
          BY <3>3, <5>1
      <4>3. QED
        BY <4>1, <4>2 DEF Peeled
    <3>5. Peels(h, m)
      BY <3>4 DEF Peels
    <3>6. QED
      BY <3>5
  <2>3. QED
    BY <2>1, <2>2
<1>2. \A m \in Nat : (\A v \in Nat : v < m => v \in S) => m \in S
  BY <1>1
<1> HIDE DEF S
<1>3. n \in S
  BY <1>2, StrongInduction
<1>4. QED
  BY <1>3 DEF S

LEMMA DigitsAreDigits ==
    ASSUME NEW v \in Nat PROVE Digits(v, 10) \in Seq(DecimalDigits)
<1> DEFINE Def(f) == f = [w \in Nat |-> IF w = 0 THEN <<>> ELSE <<Digit(w % 10)>> \o f[w \div 10]]
           more   == CHOOSE f : Def(f)
           Pick(n) == CHOOSE f : Peels(f, n)
           all    == [n \in Nat |-> Pick(n)[n]]
<1>1. \A n \in Nat : Peels(Pick(n), n)
  BY PeelsExists
<1>2. \A n \in Nat : all[n] = Pick(n)[n]
  OBVIOUS
<1> HIDE DEF Pick
<1>3. ASSUME NEW n \in Nat PROVE all[n] = Peeled(all, n)
  <2>1. all[n] = Peeled(Pick(n), n)
    BY <1>1, <1>2 DEF Peels
  <2>2. n # 0 => all[n \div 10] = Pick(n)[n \div 10]
    <3>1. n # 0 => n \div 10 \in Nat /\ n \div 10 <= n /\ n \div 10 <= n \div 10
      BY Smaller
    <3>2. QED
      BY <1>1, <1>2, <3>1, PeelsUnique
  <2>3. QED
    BY <2>1, <2>2 DEF Peeled
<1>4. Def(all)
  BY <1>3 DEF Peeled
<1>5. Def(more)
  BY <1>4
<1> HIDE DEF more
<1>6. \A n \in Nat : more[n] = Peeled(more, n)
  BY <1>5 DEF Peeled
<1>7. Peels(more, v)
  BY <1>6 DEF Peels
<1>8. more[v] \in Seq(DecimalDigits)
  BY <1>7, PeelsUnique
<1>9. Digits(v, 10) = IF v = 0 THEN <<Digit(0)>> ELSE more[v]
  BY DEF Digits, more
<1>10. <<Digit(0)>> \in Seq(DecimalDigits)
  BY DEF DecimalDigits
<1>11. QED
  BY <1>8, <1>9, <1>10

LEMMA PrintedNumber ==
    ASSUME NEW v \in Nat PROVE log_putu(v, 10, 0, Digit(0)) \in Seq(DecimalDigits)
<1> DEFINE s == Digits(v, 10)
           n == Len(s)
           p == [i \in 1 .. (IF 0 > n THEN 0 - n ELSE 0) |-> Digit(0)]
           r == [i \in 1 .. n |-> s[n + 1 - i]]
<1>1. s \in Seq(DecimalDigits) /\ n \in Nat /\ \A i \in 1 .. n : s[i] \in DecimalDigits
  BY DigitsAreDigits
<1>2. p \in Seq(DecimalDigits)
  <2>1. 1 .. (IF 0 > n THEN 0 - n ELSE 0) = {}
    BY <1>1
  <2>2. p = <<>>
    BY <2>1
  <2>3. QED
    BY <2>2
<1>3. r \in Seq(DecimalDigits)
  <2>1. \A i \in 1 .. n : n + 1 - i \in 1 .. n
    BY <1>1
  <2>2. r \in [1 .. n -> DecimalDigits]
    BY <1>1, <2>1
  <2>3. QED
    BY <1>1, <2>2
<1>4. log_putu(v, 10, 0, Digit(0)) = p \o r
  BY DEF log_putu
<1>5. \A x, y \in Seq(DecimalDigits) : x \o y \in Seq(DecimalDigits)
  OBVIOUS
<1> HIDE DEF p, r
<1>6. QED
  BY <1>2, <1>3, <1>4, <1>5

Visible == Char \ {NUL}

\* s is printed, and t of it still to be stored: the buffer has the rest.
Shown(buf, len, s, t) ==
    /\ s \in Seq(Visible) /\ t \in Seq(Visible) /\ Len(t) <= Len(s)
    /\ \A i \in 1 .. Len(t) : t[i] = s[(Len(s) - Len(t)) + i]
    /\ len = IF Len(s) - Len(t) < LOG_SIZE THEN Len(s) - Len(t) ELSE LOG_SIZE - 1
    /\ \A i \in 0 .. len - 1 : buf[i] = s[i + 1]

LEMMA StoresNext ==
    ASSUME NEW buf, NEW len, NEW s, NEW t, Shown(buf, len, s, t), t # <<>>, NEW buf2, NEW len2,
           len2 = IF len + 1 < LOG_SIZE THEN len + 1 ELSE len,
           \A i \in 0 .. len - 1 : buf2[i] = buf[i],
           len + 1 < LOG_SIZE => buf2[len] = Head(t)
    PROVE  Shown(buf2, len2, s, Tail(t))
<1> DEFINE n == Len(s) - Len(t)
           r == Tail(t)
<1>1. /\ s \in Seq(Visible) /\ t \in Seq(Visible) /\ Len(s) \in Nat /\ Len(t) \in Nat
      /\ Len(t) > 0 /\ Len(t) <= Len(s) /\ n \in Nat
  BY DEF Shown
<1>2. /\ r \in Seq(Visible) /\ Len(r) = Len(t) - 1 /\ Head(t) = t[1]
      /\ \A i \in 1 .. Len(r) : r[i] = t[i + 1]
  BY <1>1
<1>3. /\ \A i \in 1 .. Len(t) : t[i] = s[n + i]
      /\ len = IF n < LOG_SIZE THEN n ELSE LOG_SIZE - 1
      /\ \A i \in 0 .. len - 1 : buf[i] = s[i + 1]
  BY DEF Shown
<1> HIDE DEF r
<1>4. Len(s) - Len(r) = n + 1
  BY <1>1, <1>2
<1> HIDE DEF n
<1>5. len2 = IF n + 1 < LOG_SIZE THEN n + 1 ELSE LOG_SIZE - 1
  BY <1>1, <1>3, LogSizeAssumption
<1>6. \A i \in 1 .. Len(r) : r[i] = s[(n + 1) + i]
  BY <1>1, <1>2, <1>3
<1>7. ASSUME NEW i \in 0 .. len2 - 1 PROVE buf2[i] = s[i + 1]
  <2>1. CASE i < len
    BY <1>1, <1>3, <2>1, LogSizeAssumption
  <2>2. CASE ~(i < len)
    <3>1. len + 1 < LOG_SIZE /\ i = len /\ len = n
      BY <1>1, <1>3, <2>2, LogSizeAssumption
    <3>2. QED
      BY <1>1, <1>2, <1>3, <3>1
  <2>3. QED
    BY <2>1, <2>2
<1>8. Shown(buf2, len2, s, r)
  BY <1>1, <1>2, <1>4, <1>5, <1>6, <1>7 DEF Shown
<1>9. QED
  BY <1>8 DEF r

Follow(u, s, t) == u = s \o t

LEMMA Following ==
    ASSUME NEW s \in Seq(Visible), NEW t \in Seq(Visible), NEW u, Follow(u, s, t)
    PROVE  /\ u \in Seq(Visible) /\ Len(u) = Len(s) + Len(t) /\ Len(s) \in Nat /\ Len(t) \in Nat
           /\ \A i \in 1 .. Len(s) : u[i] = s[i]
           /\ \A i \in 1 .. Len(t) : u[Len(s) + i] = t[i]
BY DEF Follow

LEMMA PrintsNext ==
    ASSUME NEW buf, NEW len, NEW s, Shown(buf, len, s, <<>>), NEW t \in Seq(Visible),
           NEW u, Follow(u, s, t)
    PROVE  Shown(buf, len, u, t)
<1>1. /\ s \in Seq(Visible) /\ Len(s) \in Nat /\ Len(t) \in Nat
      /\ len = IF Len(s) < LOG_SIZE THEN Len(s) ELSE LOG_SIZE - 1
      /\ \A i \in 0 .. len - 1 : buf[i] = s[i + 1]
  BY DEF Shown
<1>2. /\ u \in Seq(Visible) /\ Len(u) = Len(s) + Len(t)
      /\ \A i \in 1 .. Len(s) : u[i] = s[i]
      /\ \A i \in 1 .. Len(t) : u[Len(s) + i] = t[i]
  BY <1>1, Following
<1>3. \A i \in 0 .. len - 1 : buf[i] = u[i + 1]
  BY <1>1, <1>2, LogSizeAssumption
<1>4. Len(u) - Len(t) = Len(s) /\ Len(t) <= Len(u)
  BY <1>1, <1>2
<1>5. \A i \in 1 .. Len(t) : t[i] = u[(Len(u) - Len(t)) + i]
  BY <1>2, <1>4
<1>6. len = IF Len(u) - Len(t) < LOG_SIZE THEN Len(u) - Len(t) ELSE LOG_SIZE - 1
  BY <1>1, <1>4
<1>7. QED
  BY <1>2, <1>3, <1>4, <1>5, <1>6 DEF Shown

\* What the scans look for.
Quiet(s)     == \A i \in 1 .. Len(s) : s[i] # ERROR
Ends(s)      == \A i \in 1 .. Len(s) : s[i] = ERROR => \E m \in i + 1 .. Len(s) : s[m] = EOL
Clean(s)     == \A i, j \in 1 .. Len(s) : i < j /\ s[i] = ERROR /\ s[j] = CRC
                                         => \E m \in i .. j : s[m] = EOL
Mismatch(s)  == /\ Len(s) >= 7 /\ s[4] = ERROR /\ s[5] = BANG /\ s[7] = CRC
                /\ \A m \in 4 .. 7 : s[m] # EOL
ErrorKept(s) == \E i \in 1 .. Len(s) : i < LOG_SIZE /\ s[i] = ERROR

LEMMA QuietIsClean == ASSUME NEW s, Quiet(s) PROVE Clean(s) /\ Ends(s)
BY DEF Quiet, Clean, Ends

LEMMA Signs ==
    ASSUME NEW s \in Seq(Visible), NEW t \in Seq(Visible), NEW u, Follow(u, s, t)
    PROVE  /\ u \in Seq(Visible)
           /\ Quiet(s) /\ Quiet(t) => Quiet(u)
           /\ Ends(s) /\ Ends(t) => Ends(u)
           /\ Clean(s) /\ Ends(s) /\ Clean(t) => Clean(u)
           /\ Mismatch(s) => Mismatch(u)
           /\ ErrorKept(s) => ErrorKept(u)
<1>1. /\ u \in Seq(Visible) /\ Len(u) = Len(s) + Len(t) /\ Len(s) \in Nat /\ Len(t) \in Nat
      /\ \A i \in 1 .. Len(s) : u[i] = s[i]
      /\ \A i \in 1 .. Len(t) : u[Len(s) + i] = t[i]
  BY Following
<1>2. \A i \in 1 .. Len(u) : \/ i \in 1 .. Len(s) /\ u[i] = s[i]
                             \/ i - Len(s) \in 1 .. Len(t) /\ u[i] = t[i - Len(s)] /\ i > Len(s)
  <2> TAKE i \in 1 .. Len(u)
  <2>0. i \in Int /\ Len(s) \in Int
    BY <1>1
  <2>1. CASE i <= Len(s)
    <3>1. i \in 1 .. Len(s)
      BY <2>0, <2>1
    <3>2. u[i] = s[i]
      BY <1>1, <3>1
    <3>3. QED
      BY <3>1, <3>2
  <2>2. CASE i > Len(s)
    <3>1. i - Len(s) \in 1 .. Len(t) /\ Len(s) + (i - Len(s)) = i
      BY <1>1, <2>2
    <3>2. QED
      BY <1>1, <2>2, <3>1
  <2>3. i <= Len(s) \/ i > Len(s)
    BY <2>0
  <2>4. QED
    BY <2>1, <2>2, <2>3
<1>3. Quiet(s) /\ Quiet(t) => Quiet(u)
  BY <1>2 DEF Quiet
<1>4. Ends(s) /\ Ends(t) => Ends(u)
  <2> SUFFICES ASSUME Ends(s), Ends(t), NEW i \in 1 .. Len(u), u[i] = ERROR
               PROVE  \E m \in i + 1 .. Len(u) : u[m] = EOL
    BY DEF Ends
  <2>1. CASE i \in 1 .. Len(s) /\ u[i] = s[i]
    <3>1. PICK m \in i + 1 .. Len(s) : s[m] = EOL
      BY <2>1 DEF Ends
    <3>2. m \in i + 1 .. Len(u) /\ u[m] = EOL
      BY <1>1, <2>1, <3>1
    <3>3. QED
      BY <3>2
  <2>2. CASE i - Len(s) \in 1 .. Len(t) /\ u[i] = t[i - Len(s)]
    <3>1. PICK m \in (i - Len(s)) + 1 .. Len(t) : t[m] = EOL
      BY <2>2 DEF Ends
    <3>2. m + Len(s) \in i + 1 .. Len(u) /\ u[Len(s) + m] = EOL /\ Len(s) + m = m + Len(s)
      BY <1>1, <2>2, <3>1
    <3>3. QED
      BY <3>2
  <2>3. QED
    BY <1>2, <2>1, <2>2
<1>5. Clean(s) /\ Ends(s) /\ Clean(t) => Clean(u)
  <2> SUFFICES ASSUME Clean(s), Ends(s), Clean(t), NEW i \in 1 .. Len(u), NEW j \in 1 .. Len(u),
                      i < j, u[i] = ERROR, u[j] = CRC
               PROVE  \E m \in i .. j : u[m] = EOL
    BY DEF Clean
  <2>1. CASE j <= Len(s)
    <3>0. i \in 1 .. Len(s) /\ j \in 1 .. Len(s) /\ s[i] = ERROR /\ s[j] = CRC
      BY <1>1, <2>1
    <3>1. PICK m \in i .. j : s[m] = EOL
      BY <3>0 DEF Clean
    <3>2. u[m] = EOL
      BY <1>1, <2>1, <3>1
    <3>3. QED
      BY <3>2
  <2>2. CASE i <= Len(s) /\ j > Len(s)
    <3>1. PICK m \in i + 1 .. Len(s) : s[m] = EOL
      BY <1>1, <2>2 DEF Ends
    <3>2. m \in i .. j /\ u[m] = EOL
      BY <1>1, <2>2, <3>1
    <3>3. QED
      BY <3>2
  <2>3. CASE i > Len(s)
    <3>1. /\ i - Len(s) \in 1 .. Len(t) /\ u[i] = t[i - Len(s)]
          /\ j - Len(s) \in 1 .. Len(t) /\ u[j] = t[j - Len(s)] /\ i - Len(s) < j - Len(s)
      BY <1>1, <1>2, <2>3
    <3>2. PICK m \in i - Len(s) .. j - Len(s) : t[m] = EOL
      BY <3>1 DEF Clean
    <3>3. Len(s) + m \in i .. j /\ m \in 1 .. Len(t)
      BY <1>1, <3>1, <3>2
    <3>4. u[Len(s) + m] = EOL
      BY <1>1, <3>2, <3>3
    <3>5. QED
      BY <3>3, <3>4
  <2>4. QED
    BY <1>1, <2>1, <2>2, <2>3
<1>6. Mismatch(s) => Mismatch(u)
  BY <1>1 DEF Mismatch
<1>7. ErrorKept(s) => ErrorKept(u)
  <2> SUFFICES ASSUME NEW i \in 1 .. Len(s), i < LOG_SIZE, s[i] = ERROR
               PROVE  i \in 1 .. Len(u) /\ u[i] = ERROR
    BY DEF ErrorKept
  <2>1. QED
    BY <1>1
<1>8. QED
  BY <1>1, <1>3, <1>4, <1>5, <1>6, <1>7

\* The text main has printed, part by part.
Known         == run.known_id >= 0
Wrong         == Known /\ run.wrong # {}
TotalsText    == Line \o TicksLine(get_time) \o Line
                 \o (IF time_in_secs(get_time) > 0 THEN Line ELSE <<>>)
CrcText       == Line \o Line \o CrcLine \o CrcLine \o CrcLine \o CrcLine \o CrcLine \o Line
WrongText(k)  == IF Known /\ k \in run.wrong THEN MismatchLine ELSE <<>>
ShortText     == IF TooShort THEN TenSecondsLine ELSE <<>>

UpToStart   == IF Known THEN Line ELSE <<>>
UpToList    == UpToStart \o WrongText("list")
UpToMatrix  == UpToList \o WrongText("matrix")
UpToState   == UpToMatrix \o WrongText("state")
UpToTotals  == UpToState \o TotalsText
UpToSeconds == UpToTotals \o ShortText
UpToCrcs    == UpToSeconds \o CrcText

Out == CASE pc = "list"    -> UpToStart  [] pc = "matrix" -> UpToList   [] pc = "state" -> UpToMatrix
         [] pc = "totals"  -> UpToState  [] pc = "seconds" -> UpToTotals [] pc = "crcs" -> UpToSeconds
         [] pc \in {"finish", "report"} -> UpToCrcs
         [] OTHER -> <<>>

LogSays ==
    /\ LogInv /\ Shown(ee_log_buf, ee_log_len, Out, text)
    /\ pc \in {"list", "matrix", "state"} => Known

\* The lines, and what is in them.
QuietText == {s \in Seq(Visible) : Quiet(s)}

LEMMA Lines ==
    /\ <<>> \in QuietText /\ Line \in QuietText /\ CrcLine \in QuietText
    /\ <<TICKS>> \in QuietText /\ <<EOL>> \in QuietText
    /\ Seq(DecimalDigits) \subseteq QuietText
    /\ MismatchLine \in Seq(Visible)
    /\ TenSecondsLine \in Seq(Visible) /\ Clean(TenSecondsLine) /\ Ends(TenSecondsLine)
    /\ TenSecondsLine[1] = ERROR /\ Len(TenSecondsLine) = 4
<1> USE DEF Visible, Char, NUL, ERROR, BANG, CRC, EOL, PLAIN, TICKS
<1>1. /\ <<>> \in Seq(Visible) /\ Line \in Seq(Visible) /\ CrcLine \in Seq(Visible)
      /\ <<TICKS>> \in Seq(Visible) /\ <<EOL>> \in Seq(Visible)
      /\ MismatchLine \in Seq(Visible) /\ TenSecondsLine \in Seq(Visible)
  BY DEF Line, CrcLine, MismatchLine, TenSecondsLine
<1>2. /\ Quiet(<<>>) /\ Quiet(Line) /\ Quiet(CrcLine) /\ Quiet(<<TICKS>>) /\ Quiet(<<EOL>>)
  BY DEF Line, CrcLine, Quiet
<1>3. Seq(DecimalDigits) \subseteq QuietText
  <2>1. \A d \in DecimalDigits : d \in Visible /\ d # ERROR
    BY DEF DecimalDigits, Digit
  <2>2. ASSUME NEW s \in Seq(DecimalDigits) PROVE s \in Seq(Visible) /\ Quiet(s)
    <3>1. \A i \in 1 .. Len(s) : s[i] \in DecimalDigits
      OBVIOUS
    <3>2. s \in [1 .. Len(s) -> DecimalDigits] /\ Len(s) \in Nat
      OBVIOUS
    <3>3. s \in Seq(Visible)
      <4> HIDE DEF Visible
      <4>1. s \in [1 .. Len(s) -> Visible]
        BY <2>1, <3>2
      <4>2. QED
        BY <3>2, <4>1
    <3>4. QED
      BY <2>1, <3>1, <3>3 DEF Quiet
  <2>3. QED
    BY <2>2 DEF QuietText
<1>4. TenSecondsLine[1] = ERROR /\ Len(TenSecondsLine) = 4 /\ TenSecondsLine[4] = EOL
      /\ \A i \in 2 .. 4 : TenSecondsLine[i] # ERROR /\ TenSecondsLine[i] # CRC
  BY DEF TenSecondsLine
<1>5. Clean(TenSecondsLine)
  BY <1>4 DEF Clean
<1>6. Ends(TenSecondsLine)
  BY <1>4 DEF Ends
<1>7. QED
  BY <1>1, <1>2, <1>3, <1>4, <1>5, <1>6 DEF QuietText

LEMMA JoinedLength ==
    ASSUME NEW s \in Seq(Visible), NEW t \in Seq(Visible)
    PROVE  s \o t \in Seq(Visible) /\ Len(s \o t) = Len(s) + Len(t)
OBVIOUS

LEMMA QuietJoin == ASSUME NEW s \in QuietText, NEW t \in QuietText PROVE s \o t \in QuietText
<1>1. s \in Seq(Visible) /\ t \in Seq(Visible) /\ Quiet(s) /\ Quiet(t) /\ Follow(s \o t, s, t)
  BY DEF QuietText, Follow
<1>2. QED
  BY <1>1, Signs DEF QuietText

LEMMA TimeTaken == ASSUME TimeType PROVE get_time \in 0 .. WORD - 1
<1>1. stop["mcycle"] \in Nat /\ start["mcycle"] \in Nat
  BY DEF TimeType, Times, Counters
<1>2. QED
  BY <1>1, WordPositive DEF get_time, MYTIMEDIFF

LEMMA Parts ==
    ASSUME TimeType
    PROVE  /\ TotalsText \in QuietText /\ CrcText \in QuietText
           /\ \A k : WrongText(k) \in Seq(Visible) /\ (~Wrong => WrongText(k) = <<>>)
           /\ ShortText \in Seq(Visible) /\ Clean(ShortText) /\ Ends(ShortText)
           /\ ~TooShort => Quiet(ShortText)
           /\ UpToStart \in QuietText
           /\ Len(TotalsText) <= 8 + Len(log_putu(get_time, 10, 0, Digit(0)))
<1> DEFINE d == log_putu(get_time, 10, 0, Digit(0))
<1>1. d \in Seq(DecimalDigits)
  BY TimeTaken, PrintedNumber
<1>2. TicksLine(get_time) \in QuietText /\ Len(TicksLine(get_time)) = Len(d) + 2 /\ Len(d) \in Nat
  <2>1. d \in QuietText /\ <<TICKS>> \in QuietText /\ <<EOL>> \in QuietText
    BY <1>1, Lines
  <2>2. TicksLine(get_time) = (<<TICKS>> \o d) \o <<EOL>>
    BY DEF TicksLine
  <2> HIDE DEF d
  <2>3. (<<TICKS>> \o d) \o <<EOL>> \in QuietText
    BY <2>1, QuietJoin
  <2>4. /\ d \in Seq(Visible) /\ <<TICKS>> \in Seq(Visible) /\ <<EOL>> \in Seq(Visible)
        /\ Len(<<TICKS>>) = 1 /\ Len(<<EOL>>) = 1
    BY <2>1 DEF QuietText
  <2> DEFINE s == <<TICKS>>
             e == <<EOL>>
  <2>5. s \in Seq(Visible) /\ e \in Seq(Visible) /\ Len(s) = 1 /\ Len(e) = 1
    BY <2>4
  <2> HIDE DEF s, e
  <2>6. Len((s \o d) \o e) = Len(d) + 2 /\ Len(d) \in Nat
    <3>1. s \o d \in Seq(Visible) /\ Len(s \o d) = 1 + Len(d)
      BY <2>4, <2>5, JoinedLength
    <3>2. Len((s \o d) \o e) = Len(s \o d) + 1
      BY <2>5, <3>1, JoinedLength
    <3>3. Len(d) \in Nat
      BY <2>4
    <3>4. QED
      BY <3>1, <3>2, <3>3
  <2>7. QED
    BY <2>2, <2>3, <2>6 DEF s, e
<1> HIDE DEF d
<1>3. TotalsText \in QuietText /\ Len(TotalsText) <= 8 + Len(d)
  <2> DEFINE t == TicksLine(get_time)
             r == IF time_in_secs(get_time) > 0 THEN Line ELSE <<>>
  <2>1. TotalsText = ((Line \o t) \o Line) \o r
    BY DEF TotalsText
  <2>2. r \in QuietText /\ Len(r) <= 2 /\ Len(Line) = 2
    BY Lines DEF Line
  <2>3. t \in QuietText /\ Len(t) = Len(d) + 2 /\ Len(d) \in Nat
    BY <1>2
  <2> HIDE DEF t, r
  <2>4. ((Line \o t) \o Line) \o r \in QuietText
    BY <2>2, <2>3, Lines, QuietJoin
  <2>5. Line \in Seq(Visible) /\ t \in Seq(Visible) /\ r \in Seq(Visible)
    BY <2>2, <2>3, Lines DEF QuietText
  <2>6. Line \o t \in Seq(Visible) /\ Len(Line \o t) = 2 + (Len(d) + 2)
    BY <2>2, <2>3, <2>5, JoinedLength
  <2>7. (Line \o t) \o Line \in Seq(Visible) /\ Len((Line \o t) \o Line) = (2 + (Len(d) + 2)) + 2
    BY <2>2, <2>5, <2>6, JoinedLength
  <2>8. Len(((Line \o t) \o Line) \o r) = ((2 + (Len(d) + 2)) + 2) + Len(r) /\ Len(r) \in Nat
    <3>1. Len(((Line \o t) \o Line) \o r) = Len((Line \o t) \o Line) + Len(r)
      BY <2>5, <2>7, JoinedLength
    <3>2. Len(r) \in Nat
      BY <2>5
    <3>3. QED
      BY <2>7, <3>1, <3>2
  <2>9. QED
    BY <2>1, <2>2, <2>3, <2>4, <2>8
<1>4. CrcText \in QuietText
  <2>1. \A s, t \in QuietText : s \o t \in QuietText
    BY QuietJoin
  <2>2. QED
    BY <2>1, Lines DEF CrcText
<1>5. \A k : WrongText(k) \in Seq(Visible) /\ (~Wrong => WrongText(k) = <<>>)
  BY Lines DEF WrongText, Wrong, QuietText
<1>6. /\ ShortText \in Seq(Visible) /\ Clean(ShortText) /\ Ends(ShortText)
      /\ ~TooShort => Quiet(ShortText)
  <2>1. <<>> \in Seq(Visible) /\ Quiet(<<>>) /\ Clean(<<>>) /\ Ends(<<>>)
    BY Lines, QuietIsClean DEF QuietText
  <2>2. QED
    BY <2>1, Lines DEF ShortText
<1>7. UpToStart \in QuietText
  BY Lines DEF UpToStart
<1>8. QED
  BY <1>3, <1>4, <1>5, <1>6, <1>7 DEF d

LEMMA AllVisible ==
    ASSUME TimeType
    PROVE  {UpToStart, UpToList, UpToMatrix, UpToState, UpToTotals, UpToSeconds, UpToCrcs}
           \subseteq Seq(Visible)
<1>1. /\ TotalsText \in Seq(Visible) /\ CrcText \in Seq(Visible) /\ ShortText \in Seq(Visible)
      /\ \A k : WrongText(k) \in Seq(Visible)
      /\ UpToStart \in Seq(Visible)
  BY Parts DEF QuietText
<1>2. \A s, t \in Seq(Visible) : s \o t \in Seq(Visible)
  OBVIOUS
<1>3. UpToList \in Seq(Visible) /\ UpToMatrix \in Seq(Visible) /\ UpToState \in Seq(Visible)
  BY <1>1, <1>2 DEF UpToList, UpToMatrix, UpToState
<1>4. UpToTotals \in Seq(Visible) /\ UpToSeconds \in Seq(Visible) /\ UpToCrcs \in Seq(Visible)
  BY <1>1, <1>2, <1>3 DEF UpToTotals, UpToSeconds, UpToCrcs
<1>5. QED
  BY <1>1, <1>3, <1>4

\* The log has room for what comes before the line of a short run.
LogReachesErrors == \A t \in 0 .. WORD - 1 : Len(log_putu(t, 10, 0, Digit(0))) + 12 <= LOG_SIZE

(* All of the text says whether a check value was wrong and whether the run *)
(* was short.                                                               *)
LEMMA WholeText ==
    ASSUME TimeType, LogReachesErrors
    PROVE  /\ Wrong => Mismatch(UpToCrcs) /\ LOG_SIZE > 7
           /\ ~Wrong => Clean(UpToCrcs)
           /\ ~Wrong /\ ~TooShort => Quiet(UpToCrcs)
           /\ ~Wrong /\ TooShort => ErrorKept(UpToCrcs)
<1>1. /\ UpToStart \in Seq(Visible) /\ UpToList \in Seq(Visible) /\ UpToMatrix \in Seq(Visible)
      /\ UpToState \in Seq(Visible) /\ UpToTotals \in Seq(Visible) /\ UpToSeconds \in Seq(Visible)
      /\ UpToCrcs \in Seq(Visible)
  BY AllVisible
<1>2. /\ TotalsText \in Seq(Visible) /\ CrcText \in Seq(Visible) /\ ShortText \in Seq(Visible)
      /\ \A k : WrongText(k) \in Seq(Visible)
  BY Parts DEF QuietText
<1>3. /\ Follow(UpToList, UpToStart, WrongText("list"))
      /\ Follow(UpToMatrix, UpToList, WrongText("matrix"))
      /\ Follow(UpToState, UpToMatrix, WrongText("state"))
      /\ Follow(UpToTotals, UpToState, TotalsText)
      /\ Follow(UpToSeconds, UpToTotals, ShortText)
      /\ Follow(UpToCrcs, UpToSeconds, CrcText)
  BY DEF Follow, UpToList, UpToMatrix, UpToState, UpToTotals, UpToSeconds, UpToCrcs
<1> DEFINE d == Len(log_putu(get_time, 10, 0, Digit(0)))
<1>4. d \in Nat /\ d + 12 <= LOG_SIZE
  <2>1. log_putu(get_time, 10, 0, Digit(0)) \in Seq(DecimalDigits)
    BY TimeTaken, PrintedNumber
  <2>2. QED
    BY <2>1, TimeTaken DEF LogReachesErrors
<1>5. ASSUME Wrong PROVE Mismatch(UpToCrcs)
  <2>1. Mismatch(Line \o MismatchLine)
    BY DEF Mismatch, Line, MismatchLine, ERROR, BANG, CRC, EOL, PLAIN
  <2>2. UpToStart = Line /\ run.wrong # {} /\ run.wrong \subseteq {"list", "matrix", "state"}
    BY <1>5, PortAssumption DEF Wrong, UpToStart, TimeType
  <2>3. \A k : k \in run.wrong => WrongText(k) = MismatchLine
    BY <1>5 DEF Wrong, WrongText
  <2>4. \A k : k \notin run.wrong => WrongText(k) = <<>>
    BY DEF WrongText
  <2>5. \A s \in Seq(Visible) : s \o <<>> = s
    OBVIOUS
  <2>6. Mismatch(UpToList) \/ (UpToList = Line /\ "list" \notin run.wrong)
    BY <1>1, <2>1, <2>2, <2>3, <2>4, <2>5 DEF UpToList
  <2>7. \/ Mismatch(UpToMatrix)
        \/ UpToMatrix = Line /\ "list" \notin run.wrong /\ "matrix" \notin run.wrong
    <3>1. Mismatch(UpToList) => Mismatch(UpToMatrix)
      BY <1>1, <1>2, <1>3, Signs
    <3>2. QED
      BY <1>1, <2>1, <2>3, <2>4, <2>5, <2>6, <3>1 DEF UpToMatrix
  <2>8. Mismatch(UpToState)
    <3>1. Mismatch(UpToMatrix) => Mismatch(UpToState)
      BY <1>1, <1>2, <1>3, Signs
    <3>2. QED
      BY <1>1, <2>1, <2>2, <2>3, <2>7, <3>1 DEF UpToState
  <2>9. Mismatch(UpToTotals)
    BY <1>1, <1>2, <1>3, <2>8, Signs
  <2>10. Mismatch(UpToSeconds)
    BY <1>1, <1>2, <1>3, <2>9, Signs
  <2>11. QED
    BY <1>1, <1>2, <1>3, <2>10, Signs
<1>6. ASSUME ~Wrong
      PROVE  /\ Clean(UpToCrcs)
             /\ ~TooShort => Quiet(UpToCrcs)
             /\ TooShort => ErrorKept(UpToCrcs)
  <2>1. UpToState = UpToStart
    <3>1. \A k : WrongText(k) = <<>>
      BY <1>6, Parts
    <3>2. \A s \in Seq(Visible) : s \o <<>> = s
      OBVIOUS
    <3>3. QED
      BY <1>1, <3>1, <3>2 DEF UpToState, UpToMatrix, UpToList
  <2>2. Quiet(UpToTotals)
    <3>1. Quiet(UpToState) /\ Quiet(TotalsText)
      BY <2>1, Parts DEF QuietText
    <3>2. QED
      BY <1>1, <1>2, <1>3, <3>1, Signs
  <2>3. Clean(UpToTotals) /\ Ends(UpToTotals)
    BY <2>2, QuietIsClean
  <2>4. Clean(UpToSeconds) /\ Ends(UpToSeconds) /\ (~TooShort => Quiet(UpToSeconds))
    BY <1>1, <1>2, <1>3, <2>2, <2>3, Parts, Signs
  <2>5. Quiet(CrcText) /\ Clean(CrcText)
    BY Parts, QuietIsClean DEF QuietText
  <2>6. Clean(UpToCrcs) /\ (~TooShort => Quiet(UpToCrcs))
    BY <1>1, <1>2, <1>3, <2>4, <2>5, Signs
  <2>7. ASSUME TooShort PROVE ErrorKept(UpToSeconds)
    <3>1. ShortText = TenSecondsLine /\ ShortText[1] = ERROR /\ Len(ShortText) = 4
      BY <2>7, Lines DEF ShortText
    <3>2. Len(UpToStart) <= 2
      BY DEF UpToStart, Line
    <3>3. Len(TotalsText) <= 8 + d
      BY Parts
    <3> HIDE DEF d
    <3>4. /\ Len(UpToTotals) = Len(UpToState) + Len(TotalsText) /\ Len(UpToTotals) \in Nat
          /\ Len(TotalsText) \in Nat /\ Len(UpToState) \in Nat
      BY <1>1, <1>2, <1>3, Following
    <3>5. /\ Len(UpToSeconds) = Len(UpToTotals) + Len(ShortText)
          /\ \A i \in 1 .. Len(ShortText) : UpToSeconds[Len(UpToTotals) + i] = ShortText[i]
      BY <1>1, <1>2, <1>3, Following
    <3>6. Len(UpToTotals) + 1 < LOG_SIZE /\ Len(UpToTotals) + 1 \in 1 .. Len(UpToSeconds)
      BY <1>4, <2>1, <3>1, <3>2, <3>3, <3>4, <3>5, LogSizeAssumption
    <3>7. UpToSeconds[Len(UpToTotals) + 1] = ERROR
      BY <3>1, <3>5
    <3>8. QED
      BY <3>6, <3>7 DEF ErrorKept
  <2>8. TooShort => ErrorKept(UpToCrcs)
    BY <1>1, <1>2, <1>3, <2>7, Signs
  <2>9. QED
    BY <2>6, <2>8
<1> HIDE DEF d
<1>7. LOG_SIZE > 7
  BY <1>4, LogSizeAssumption
<1>8. QED
  BY <1>5, <1>6, <1>7

\* What is printed so far depends on the run and its time only.
LEMMA PartsStay ==
    ASSUME UNCHANGED <<run, start, stop>>
    PROVE  /\ UpToStart' = UpToStart /\ UpToList' = UpToList /\ UpToMatrix' = UpToMatrix
           /\ UpToState' = UpToState /\ UpToTotals' = UpToTotals /\ UpToSeconds' = UpToSeconds
           /\ UpToCrcs' = UpToCrcs /\ Known' = Known
<1>1. Known' = Known /\ UpToStart' = UpToStart /\ get_time' = get_time
  BY DEF Known, UpToStart, get_time
<1>2. /\ WrongText("list")' = WrongText("list") /\ WrongText("matrix")' = WrongText("matrix")
      /\ WrongText("state")' = WrongText("state")
  BY <1>1 DEF WrongText
<1>3. TotalsText' = TotalsText /\ ShortText' = ShortText /\ CrcText' = CrcText
  BY <1>1 DEF TotalsText, ShortText, TooShort, CrcText
<1>4. UpToList' = UpToList
  BY <1>1, <1>2 DEF UpToList
<1>5. UpToMatrix' = UpToMatrix
  BY <1>2, <1>4 DEF UpToMatrix
<1>6. UpToState' = UpToState
  BY <1>2, <1>5 DEF UpToState
<1>7. UpToTotals' = UpToTotals
  BY <1>3, <1>6 DEF UpToTotals
<1>8. UpToSeconds' = UpToSeconds
  BY <1>3, <1>7 DEF UpToSeconds
<1>9. UpToCrcs' = UpToCrcs
  BY <1>3, <1>8 DEF UpToCrcs
<1>10. QED
  BY <1>1, <1>4, <1>5, <1>6, <1>7, <1>8, <1>9

\* The next part is printed and waits to be stored.
LEMMA PartPrinted ==
    ASSUME LogSays, text = <<>>, UNCHANGED logVars, text' \in Seq(Visible), Follow(Out', Out, text'),
           pc' \in {"list", "matrix", "state"} => Known'
    PROVE  LogSays'
<1>1. LogInv'
  BY DEF LogSays, LogInv, LogTypeOK, LogTerminated, logVars
<1>2. Shown(ee_log_buf, ee_log_len, Out, <<>>)
  BY DEF LogSays
<1>3. Shown(ee_log_buf, ee_log_len, Out', text')
  BY <1>2, PrintsNext
<1>4. Shown(ee_log_buf, ee_log_len, Out, text)'
  BY <1>3 DEF logVars
<1>5. QED
  BY <1>1, <1>4 DEF LogSays

LEMMA PutcKeepsLog == ASSUME LogSays, Putc PROVE LogSays'
<1>1. /\ text # <<>> /\ log_putc(Head(text)) /\ text' = Tail(text)
      /\ pc' = pc /\ UNCHANGED <<run, start, stop>>
  BY DEF Putc, timing
<1>2. LogInv /\ Shown(ee_log_buf, ee_log_len, Out, text) /\ text \in Seq(Visible)
  BY DEF LogSays, Shown
<1>3. Head(text) \in Visible
  BY <1>1, <1>2
<1>4. LogInv'
  BY <1>1, <1>2, <1>3, PutcKeepsInv DEF Visible
<1>5. /\ ee_log_len \in 0 .. LOG_SIZE - 1 /\ ee_log_buf \in [0 .. LOG_SIZE - 1 -> Char]
      /\ LOG_SIZE \in Nat
  BY <1>2, LogSizeAssumption DEF LogInv, LogTypeOK
<1>6. /\ ee_log_len' = IF ee_log_len + 1 < LOG_SIZE THEN ee_log_len + 1 ELSE ee_log_len
      /\ \A i \in 0 .. ee_log_len - 1 : ee_log_buf'[i] = ee_log_buf[i]
      /\ ee_log_len + 1 < LOG_SIZE => ee_log_buf'[ee_log_len] = Head(text)
  <2>1. CASE ee_log_len + 1 < LOG_SIZE
    <3>1. /\ ee_log_len' = ee_log_len + 1
          /\ ee_log_buf' = [[ee_log_buf EXCEPT ![ee_log_len] = Head(text)] EXCEPT ![ee_log_len + 1] = NUL]
      BY <1>1, <2>1 DEF log_putc, Fits
    <3>2. QED
      BY <1>5, <2>1, <3>1
  <2>2. CASE ~(ee_log_len + 1 < LOG_SIZE)
    <3>1. /\ ee_log_len' = ee_log_len
          /\ ee_log_buf' = [ee_log_buf EXCEPT ![ee_log_len] = NUL]
      BY <1>1, <2>2 DEF log_putc, Fits
    <3>2. QED
      BY <1>5, <2>2, <3>1
  <2>3. QED
    BY <2>1, <2>2
<1>7. Shown(ee_log_buf', ee_log_len', Out, Tail(text))
  BY <1>1, <1>2, <1>6, StoresNext
<1>8. Out' = Out /\ Known' = Known
  BY <1>1, PartsStay DEF Out
<1>9. Shown(ee_log_buf, ee_log_len, Out, text)'
  BY <1>1, <1>7, <1>8
<1>10. QED
  BY <1>1, <1>4, <1>8, <1>9 DEF LogSays

\* Where nothing is printed.
LEMMA QuietKeepsLog ==
    ASSUME LogSays, UNCHANGED <<logVars, text>>, Out' = Out,
           pc' \in {"list", "matrix", "state"} => Known'
    PROVE  LogSays'
<1>1. LogInv'
  BY DEF LogSays, LogInv, LogTypeOK, LogTerminated, logVars
<1>2. Shown(ee_log_buf, ee_log_len, Out, text)'
  BY DEF LogSays, logVars
<1>3. QED
  BY <1>1, <1>2 DEF LogSays

LEMMA LogStarts == Init => LogSays
<1> SUFFICES ASSUME Init PROVE LogSays
  OBVIOUS
<1>1. LogInv
  BY LogInitInv DEF Init
<1>2. Out = <<>> /\ text = <<>> /\ ee_log_len = 0
  BY DEF Init, Out, LogInit
<1>3. Shown(ee_log_buf, 0, <<>>, <<>>)
  <2>1. <<>> \in Seq(Visible) /\ Len(<<>>) = 0
    OBVIOUS
  <2>2. QED
    BY <2>1, LogSizeAssumption DEF Shown
<1>4. QED
  BY <1>1, <1>2, <1>3 DEF LogSays, Init

LEMMA PrintKeepsLog ==
    ASSUME TimeInv, LogSays, CheckList \/ CheckMatrix \/ CheckState \/ Totals \/ TenSeconds \/ Crcs
    PROVE  LogSays'
<1>1. /\ text = <<>> /\ UNCHANGED logVars /\ UNCHANGED <<run, start, stop>> /\ TimeType
  BY DEF CheckList, CheckMatrix, CheckState, CheckKernel, Totals, TenSeconds, Crcs, Printed, At,
         timing, TimeInv
<1>2. /\ TotalsText \in Seq(Visible) /\ CrcText \in Seq(Visible) /\ ShortText \in Seq(Visible)
      /\ \A k : WrongText(k) \in Seq(Visible)
  BY <1>1, Parts DEF QuietText
<1>3. CASE CheckList
  <2>1. pc = "list" /\ pc' = "matrix" /\ text' = WrongText("list") /\ Known
    BY <1>3 DEF CheckList, CheckKernel, Printed, At, LogSays, WrongText
  <2>2. Follow(Out', Out, text') /\ Known'
    BY <1>1, <2>1, PartsStay DEF Out, Follow, UpToList
  <2>3. QED
    BY <1>1, <1>2, <2>1, <2>2, PartPrinted
<1>4. CASE CheckMatrix
  <2>1. pc = "matrix" /\ pc' = "state" /\ text' = WrongText("matrix") /\ Known
    BY <1>4 DEF CheckMatrix, CheckKernel, Printed, At, LogSays, WrongText
  <2>2. Follow(Out', Out, text') /\ Known'
    BY <1>1, <2>1, PartsStay DEF Out, Follow, UpToMatrix
  <2>3. QED
    BY <1>1, <1>2, <2>1, <2>2, PartPrinted
<1>5. CASE CheckState
  <2>1. pc = "state" /\ pc' = "totals" /\ text' = WrongText("state") /\ Known
    BY <1>5 DEF CheckState, CheckKernel, Printed, At, LogSays, WrongText
  <2>2. Follow(Out', Out, text') /\ Known'
    BY <1>1, <2>1, PartsStay DEF Out, Follow, UpToState
  <2>3. QED
    BY <1>1, <1>2, <2>1, <2>2, PartPrinted
<1>6. CASE Totals
  <2>1. pc = "totals" /\ pc' = "seconds" /\ text' = TotalsText
    BY <1>6 DEF Totals, Printed, At, TotalsText
  <2>2. Follow(Out', Out, text')
    BY <1>1, <2>1, PartsStay DEF Out, Follow, UpToTotals
  <2>3. QED
    BY <1>1, <1>2, <2>1, <2>2, PartPrinted
<1>7. CASE TenSeconds
  <2>1. pc = "seconds" /\ pc' = "crcs" /\ text' = ShortText
    BY <1>7 DEF TenSeconds, Printed, At, ShortText
  <2>2. Follow(Out', Out, text')
    BY <1>1, <2>1, PartsStay DEF Out, Follow, UpToSeconds
  <2>3. QED
    BY <1>1, <1>2, <2>1, <2>2, PartPrinted
<1>8. CASE Crcs
  <2>1. pc = "crcs" /\ pc' = "finish" /\ text' = CrcText
    BY <1>8 DEF Crcs, Printed, At, CrcText
  <2>2. Follow(Out', Out, text')
    BY <1>1, <2>1, PartsStay DEF Out, Follow, UpToCrcs
  <2>3. QED
    BY <1>1, <1>2, <2>1, <2>2, PartPrinted
<1>9. QED
  BY <1>3, <1>4, <1>5, <1>6, <1>7, <1>8

LEMMA TimedKeepsLog == ASSUME LogSays, Timed PROVE LogSays'
<1>1. /\ pc = "timed" /\ text = <<>> /\ UNCHANGED logVars /\ run' = run /\ Known' = Known
      /\ text' = UpToStart /\ UpToStart' = UpToStart
      /\ pc' = IF Known THEN "list" ELSE "totals"
  BY DEF Timed, At, Known, UpToStart
<1>2. Out = <<>> /\ UpToStart \in Seq(Visible)
  BY <1>1, Lines DEF Out, UpToStart, QuietText
<1>3. CASE Known
  <2>1. Out' = UpToStart
    BY <1>1, <1>3 DEF Out
  <2>2. Follow(Out', Out, text')
    BY <1>1, <1>2, <2>1 DEF Follow
  <2>3. QED
    BY <1>1, <1>2, <1>3, <2>2, PartPrinted
<1>4. CASE ~Known
  <2>1. Out' = UpToState'
    BY <1>1, <1>4 DEF Out
  <2>2. \A k : WrongText(k)' = <<>>
    BY <1>1, <1>4 DEF WrongText
  <2>3. UpToStart' = <<>> /\ text' = <<>>
    BY <1>1, <1>4 DEF UpToStart
  <2>4. <<>> \o <<>> = <<>>
    OBVIOUS
  <2>5. UpToList' = <<>>
    BY <2>2, <2>3, <2>4 DEF UpToList
  <2>6. UpToMatrix' = <<>>
    BY <2>2, <2>4, <2>5 DEF UpToMatrix
  <2>7. UpToState' = <<>>
    BY <2>2, <2>4, <2>6 DEF UpToState
  <2>8. Out' = Out
    BY <1>2, <2>1, <2>7
  <2>9. QED
    BY <1>1, <1>4, <2>3, <2>8, QuietKeepsLog
<1>5. QED
  BY <1>3, <1>4

LEMMA LogNextSays == TimeInv /\ LogSays /\ [Next]_vars => LogSays'
<1> SUFFICES ASSUME TimeInv, LogSays, [Next]_vars PROVE LogSays'
  OBVIOUS
<1>1. CASE PortableInit \/ Calibrate \/ EndCalibrate
  <2>1. /\ pc \in {"init", "calibrate"} /\ pc' \in {"init", "calibrate", "timed"}
        /\ UNCHANGED <<logVars, text>>
    BY <1>1 DEF PortableInit, Calibrate, EndCalibrate, At
  <2>2. Out' = Out
    BY <2>1 DEF Out
  <2>3. QED
    BY <2>1, <2>2, QuietKeepsLog
<1>2. CASE Timed
  BY <1>2, TimedKeepsLog
<1>3. CASE CheckList \/ CheckMatrix \/ CheckState \/ Totals \/ TenSeconds \/ Crcs
  BY <1>3, PrintKeepsLog
<1>4. CASE Putc
  BY <1>4, PutcKeepsLog
<1>5. CASE ReportAndFinish \/ Report \/ Idle \/ EarlyTimeout \/ UNCHANGED vars
  <2>1. /\ pc' = pc \/ (pc = "finish" /\ pc' = "report")
        /\ UNCHANGED <<logVars, text>> /\ UNCHANGED <<run, start, stop>>
    BY <1>5 DEF ReportAndFinish, Report, Idle, EarlyTimeout, At, programVars, vars, timing
  <2>2. Out' = Out /\ Known' = Known
    BY <2>1, PartsStay DEF Out
  <2>3. QED
    BY <2>1, <2>2, QuietKeepsLog DEF LogSays
<1>6. QED
  BY <1>1, <1>2, <1>3, <1>4, <1>5 DEF Next, Program, Finished

\* The whole run keeps the log terminated, whatever is cut off (ee_printf.c:18-23).
THEOREM LogHolds == Spec => []LogTerminated
<1>1. LogSays => LogTerminated
  BY DEF LogSays, LogInv
<1>2. QED
  BY <1>1, TimeStarts, TimeNext, LogStarts, LogNextSays, PTL DEF Spec

\* What the scans find in a log that shows s.
LEMMA Scans ==
    ASSUME LogInv, NEW s, Shown(ee_log_buf, ee_log_len, s, <<>>)
    PROVE  /\ Quiet(s) => ~ee_log_has_error
           /\ Clean(s) => ~ee_log_has_crc_error
           /\ ErrorKept(s) => ee_log_has_error
           /\ Mismatch(s) /\ LOG_SIZE > 7 => ee_log_has_crc_error /\ ee_log_has_error
<1> DEFINE n == ee_log_len
<1>1. TextLen = n /\ n \in Nat
  <2>1. /\ DOMAIN ee_log_buf = 0 .. LOG_SIZE - 1 /\ n \in 0 .. LOG_SIZE - 1 /\ ee_log_buf[n] = NUL
        /\ \A i \in 0 .. n - 1 : ee_log_buf[i] # NUL /\ LOG_SIZE \in Nat
    BY LogSizeAssumption DEF LogInv, LogTypeOK, LogTerminated
  <2> HIDE DEF n
  <2>2. ASSUME NEW m \in DOMAIN ee_log_buf, ee_log_buf[m] = NUL,
               \A i \in 0 .. m - 1 : ee_log_buf[i] # NUL
        PROVE  m = n
    <3>1. ~(m < n) /\ ~(n < m)
      BY <2>1, <2>2
    <3>2. QED
      BY <2>1, <3>1, LogSizeAssumption
  <2>3. QED
    BY <2>1, <2>2 DEF TextLen
<1>2. /\ s \in Seq(Visible) /\ Len(s) \in Nat
      /\ n = IF Len(s) < LOG_SIZE THEN Len(s) ELSE LOG_SIZE - 1
      /\ \A i \in 0 .. n - 1 : ee_log_buf[i] = s[i + 1]
  BY DEF Shown
<1>3. \A i \in 0 .. n - 1 : i + 1 \in 1 .. Len(s)
  BY <1>1, <1>2, LogSizeAssumption
<1> HIDE DEF n
<1>4. Text = 0 .. n - 1
  BY <1>1 DEF Text
<1>5. Quiet(s) => ~ee_log_has_error
  BY <1>2, <1>3, <1>4 DEF Quiet, ee_log_has_error
<1>6. Clean(s) => ~ee_log_has_crc_error
  <2> SUFFICES ASSUME Clean(s), NEW i \in 0 .. n - 1, ee_log_buf[i] = ERROR,
                      NEW j \in i + 2 .. n - 1, ee_log_buf[j] = CRC
               PROVE  \E m \in i .. j : ee_log_buf[m] = EOL
    BY <1>1, <1>4 DEF ee_log_has_crc_error
  <2>1. /\ j \in 0 .. n - 1 /\ s[i + 1] = ERROR /\ s[j + 1] = CRC /\ i + 1 < j + 1
        /\ i + 1 \in 1 .. Len(s) /\ j + 1 \in 1 .. Len(s)
    BY <1>1, <1>2, <1>3
  <2>2. PICK m \in i + 1 .. j + 1 : s[m] = EOL
    BY <2>1 DEF Clean
  <2>3. m - 1 \in i .. j /\ m - 1 \in 0 .. n - 1 /\ (m - 1) + 1 = m
    BY <1>1, <2>1, <2>2
  <2>4. QED
    BY <1>2, <2>2, <2>3
<1>7. ErrorKept(s) => ee_log_has_error
  <2> SUFFICES ASSUME NEW i \in 1 .. Len(s), i < LOG_SIZE, s[i] = ERROR PROVE ee_log_has_error
    BY DEF ErrorKept
  <2>1. i - 1 \in 0 .. n - 1 /\ (i - 1) + 1 = i
    BY <1>2, LogSizeAssumption
  <2>2. QED
    BY <1>2, <1>4, <2>1 DEF ee_log_has_error
<1>8. ASSUME Mismatch(s), LOG_SIZE > 7 PROVE ee_log_has_crc_error /\ ee_log_has_error
  <2>1. n >= 7 /\ n \in Nat
    BY <1>1, <1>2, <1>8, LogSizeAssumption DEF Mismatch
  <2>2. /\ ee_log_buf[3] = ERROR /\ ee_log_buf[4] = BANG /\ ee_log_buf[6] = CRC
        /\ \A m \in 3 .. 6 : ee_log_buf[m] # EOL
    BY <1>2, <1>8, <2>1 DEF Mismatch
  <2>3. /\ 3 \in Text /\ 6 \in 3 + 2 .. TextLen - 1 /\ 3 + 1 = 4
    BY <1>1, <1>4, <2>1
  <2>4. QED
    BY <2>2, <2>3 DEF ee_log_has_crc_error, ee_log_has_error
<1>9. QED
  BY <1>5, <1>6, <1>7, <1>8

\* What the two flags of the report are.
LEMMA Flags ==
    ASSUME TimeInv, LogSays, LogReachesErrors, pc = "finish", text = <<>>
    PROVE  /\ ee_log_has_crc_error <=> Wrong
           /\ ee_log_has_error <=> Wrong \/ TooShort
<1>1. TimeType /\ LogInv /\ Shown(ee_log_buf, ee_log_len, UpToCrcs, <<>>)
  BY DEF TimeInv, LogSays, Out
<1>2. /\ Wrong => Mismatch(UpToCrcs) /\ LOG_SIZE > 7
      /\ ~Wrong => Clean(UpToCrcs)
      /\ ~Wrong /\ ~TooShort => Quiet(UpToCrcs)
      /\ ~Wrong /\ TooShort => ErrorKept(UpToCrcs)
  BY <1>1, WholeText
<1>3. QED
  BY <1>1, <1>2, Scans

-----------------------------------------------------------------------------
(* The report: fifteen words in their order, each telling what it should,   *)
(* and then the word that passes.                                           *)

Rep == [id : Nat, value : Nat]

\* What a report word says of the counters, and of the check values and the
\* time when the log holds the lines about them.
Tells(w) ==
    /\ \A id \in {1, 3, 12, 14} :
          LET c == CASE id = 1 -> "mcycle" [] id = 3 -> "minstret"
                     [] id = 12 -> "branch" [] id = 14 -> "mispredict"
          IN  /\ w.id = id => w.value = window[c] % HALF
              /\ w.id = id + 1 => w.value = Upper(window[c])
    /\ w.id = 7 => w.value = whole["mcycle"] % HALF
    /\ w.id = 8 => w.value = Upper(whole["mcycle"])
    /\ w.id = 9 => w.value = whole["minstret"] % HALF
    /\ w.id = 10 => w.value = Upper(whole["minstret"])
    /\ LogReachesErrors /\ w.id = 6  => w.value = Flag(~Wrong)
    /\ LogReachesErrors /\ w.id = 11 => w.value = Flag(Wrong \/ window["mcycle"] < Secs(10))

Sent      == 16 - Len(words)      \* stores that are over
WordAt(k) == words[k - Sent]      \* the k-th word of the report
ToSend ==
    /\ words \in Seq(Rep) /\ Len(words) <= 16
    /\ \A k \in Sent + 1 .. 16 : /\ k <= 15 => WordAt(k).id = ReportOrder[k] /\ Tells(WordAt(k))
                                 /\ k = 16 => WordAt(k) = PassWord

Has(r, k)     == \E i \in DOMAIN r : r[i].id = ReportOrder[k]
PassedIn(t)   == \E i \in DOMAIN t.endings : t.endings[i] = "PASS"
InOrder(r, n) == /\ \A i \in DOMAIN r : \E k \in 1 .. 15 : k <= n /\ r[i].id = ReportOrder[k]
                 /\ \A i, j \in DOMAIN r : i < j => Place(r[i]) <= Place(r[j])

\* The testbench when n words of the report are over.  The one it reads next
\* may be one it has read.
Heard(t, n) ==
    /\ t.reports \in Seq(Rep)
    /\ InOrder(t.reports, n + 1)
    /\ \A i \in DOMAIN t.reports : Tells(t.reports[i])
    /\ ~t.done \/ PassedIn(t) => \A k \in 1 .. 15 : k <= n => Has(t.reports, k)
    /\ PassedIn(t) => n >= 15

ReportInv ==
    /\ TbInv
    /\ pc = "report" => ToSend /\ Heard(tb, Sent)
    /\ pc # "report" => words = <<>> /\ tb.reports = <<>> /\ ~PassedIn(tb)

LEMMA PlaceIs ==
    ASSUME NEW r, NEW k \in 1 .. 15, r.id = ReportOrder[k]
    PROVE  Place(r) = k
<1>1. Len(ReportOrder) = 15
  BY DEF ReportOrder
<1>2. \A j \in 1 .. 15 : ReportOrder[j] = ReportOrder[k] => j = k
  BY DEF ReportOrder
<1>3. QED
  BY <1>1, <1>2 DEF Place

LEMMA OrderWidens ==
    ASSUME NEW r, NEW n \in Int, InOrder(r, n) PROVE InOrder(r, n + 1)
<1>1. \A k \in 1 .. 15 : k <= n => k <= n + 1
  OBVIOUS
<1>2. QED
  BY <1>1 DEF InOrder

LEMMA Places ==
    ASSUME NEW r, NEW n \in Int, InOrder(r, n), NEW i \in DOMAIN r
    PROVE  Place(r[i]) \in 1 .. 15 /\ Place(r[i]) <= n /\ r[i].id = ReportOrder[Place(r[i])]
BY PlaceIs DEF InOrder

\* A word behind the others keeps the order.
LEMMA OrderGrows ==
    ASSUME NEW r \in Seq(Rep), NEW n \in 1 .. 15, InOrder(r, n), NEW w \in Rep, w.id = ReportOrder[n]
    PROVE  InOrder(Append(r, w), n)
<1> DEFINE s == Append(r, w)
<1>1. /\ DOMAIN s = 1 .. Len(r) + 1 /\ DOMAIN r = 1 .. Len(r) /\ Len(r) \in Nat
      /\ s[Len(r) + 1] = w /\ \A i \in DOMAIN r : s[i] = r[i]
  OBVIOUS
<1> HIDE DEF s
<1>2. Place(w) = n
  BY PlaceIs
<1>3. \A i \in DOMAIN r : Place(s[i]) \in 1 .. 15 /\ Place(s[i]) <= n
                          /\ s[i].id = ReportOrder[Place(s[i])]
  BY <1>1, Places
<1>4. \A i \in DOMAIN s : \E k \in 1 .. 15 : k <= n /\ s[i].id = ReportOrder[k]
  <2> TAKE i \in DOMAIN s
  <2>1. CASE i = Len(r) + 1
    BY <1>1, <2>1
  <2>2. CASE i \in DOMAIN r
    BY <1>3, <2>2
  <2>3. QED
    BY <1>1, <2>1, <2>2
<1>5. \A i, j \in DOMAIN s : i < j => Place(s[i]) <= Place(s[j])
  <2> SUFFICES ASSUME NEW i \in DOMAIN s, NEW j \in DOMAIN s, i < j
               PROVE  Place(s[i]) <= Place(s[j])
    OBVIOUS
  <2>1. i \in DOMAIN r
    BY <1>1
  <2>2. CASE j \in DOMAIN r
    <3>1. Place(r[i]) <= Place(r[j])
      BY <2>1, <2>2 DEF InOrder
    <3>2. QED
      BY <1>1, <2>1, <2>2, <3>1
  <2>3. CASE j = Len(r) + 1
    BY <1>1, <1>2, <1>3, <2>1, <2>3
  <2>4. QED
    BY <1>1, <2>2, <2>3
<1>6. QED
  BY <1>4, <1>5 DEF InOrder, s

LEMMA WatchdogHears ==
    ASSUME NEW t, EndingInv(t), NEW n \in Int, Heard(t, n)
    PROVE  Heard(Watchdog(t), n)
<1>1. CASE t.done
  BY <1>1 DEF Watchdog
<1>2. CASE ~t.done
  <2> DEFINE u == Watchdog(t)
  <2>1. ~PassedIn(t) /\ t.endings = <<>>
    BY <1>2 DEF EndingInv, PassedIn
  <2>2. u.reports = t.reports /\ (u.endings = <<>> \/ u.endings = <<"TIMEOUT">>)
    BY <1>2, <2>1 DEF Watchdog, Finish, EndingInv
  <2>3. ~PassedIn(u)
    BY <2>2 DEF PassedIn
  <2> HIDE DEF u
  <2>4. Heard(u, n)
    BY <1>2, <2>1, <2>2, <2>3 DEF Heard
  <2>5. QED
    BY <2>4 DEF u
<1>3. QED
  BY <1>1, <1>2

\* The next word arrives: it is over, or it will come again.
LEMMA MonitorHears ==
    ASSUME NEW t, EndingInv(t), NEW n \in 0 .. 15, Heard(t, n), NEW w \in Rep,
           n < 15 => w.id = ReportOrder[n + 1] /\ Tells(w),
           n = 15 => w = PassWord
    PROVE  Heard(Monitor(t, <<w>>), n) /\ Heard(Monitor(t, <<w>>), n + 1)
<1> DEFINE u == Monitor(t, <<w>>)
<1>0. <<w>> # <<>> /\ <<w>>[1] = w
  OBVIOUS
<1>a. \A k \in 1 .. 15 : ReportOrder[k] # 0
  BY DEF ReportOrder
<1>b. InOrder(t.reports, n + 1) /\ InOrder(t.reports, (n + 1) + 1) /\ t.reports \in Seq(Rep)
  BY OrderWidens DEF Heard
<1>1. CASE t.done
  <2>1. u = t
    BY <1>1 DEF Monitor
  <2>2. PassedIn(t) => n = 15
    BY DEF Heard
  <2>3. Heard(t, n + 1)
    BY <1>1, <1>b, <2>2 DEF Heard
  <2>4. QED
    BY <2>1, <2>3
<1>2. CASE ~t.done /\ n < 15
  <2>1. w.id # 0 /\ w # PassWord
    BY <1>2, <1>a DEF PassWord
  <2>2. u = [t EXCEPT !.reports = Append(@, w)]
    BY <1>0, <1>2, <2>1 DEF Monitor
  <2>3. /\ u.reports = Append(t.reports, w) /\ u.endings = t.endings /\ u.done = t.done
    BY <2>2 DEF EndingInv
  <2> DEFINE s == Append(t.reports, w)
  <2>4. /\ DOMAIN s = 1 .. Len(t.reports) + 1 /\ DOMAIN t.reports = 1 .. Len(t.reports)
        /\ s[Len(t.reports) + 1] = w /\ \A i \in DOMAIN t.reports : s[i] = t.reports[i]
        /\ s \in Seq(Rep) /\ Len(t.reports) \in Nat
    BY <1>b
  <2>5. InOrder(s, n + 1)
    BY <1>2, <1>b, OrderGrows
  <2>6. InOrder(s, (n + 1) + 1)
    BY <2>5, OrderWidens
  <2> HIDE DEF s, u
  <2>7. \A i \in DOMAIN s : Tells(s[i])
    <3>1. \A i \in DOMAIN s : i \in DOMAIN t.reports \/ i = Len(t.reports) + 1
      BY <2>4
    <3>2. QED
      BY <1>2, <2>4, <3>1 DEF Heard
  <2>8. \A k \in 1 .. 15 : k <= n + 1 => Has(s, k)
    <3>1. \A k \in 1 .. 15 : k <= n => Has(t.reports, k)
      BY <1>2 DEF Heard
    <3>2. \A k \in 1 .. 15 : Has(t.reports, k) => Has(s, k)
      <4>1. DOMAIN t.reports \subseteq DOMAIN s
        BY <2>4
      <4>2. QED
        BY <2>4, <4>1 DEF Has
    <3>3. Has(s, n + 1)
      BY <1>2, <2>4 DEF Has
    <3>4. QED
      BY <3>1, <3>2, <3>3
  <2>9. ~PassedIn(u)
    <3>1. t.endings = <<>>
      BY <1>2 DEF EndingInv
    <3>2. QED
      BY <2>3, <3>1 DEF PassedIn
  <2>10. s = u.reports
    BY <2>3 DEF s
  <2>11. Heard(u, n) /\ Heard(u, n + 1)
    <3>1. /\ u.reports \in Seq(Rep) /\ InOrder(u.reports, n + 1) /\ InOrder(u.reports, (n + 1) + 1)
          /\ \A i \in DOMAIN u.reports : Tells(u.reports[i])
          /\ \A k \in 1 .. 15 : k <= n + 1 => Has(u.reports, k)
      BY <2>4, <2>5, <2>6, <2>7, <2>8, <2>10
    <3>2. \A k \in 1 .. 15 : k <= n => k <= n + 1
      OBVIOUS
    <3>3. \A k \in 1 .. 15 : k <= n => Has(u.reports, k)
      BY <3>1, <3>2
    <3>4. QED
      BY <2>9, <3>1, <3>3 DEF Heard
  <2>12. QED
    BY <2>11 DEF u
<1>3. CASE ~t.done /\ n = 15
  <2>1. u = Finish(t, "PASS")
    BY <1>0, <1>3 DEF Monitor
  <2>2. u.reports = t.reports
    BY <2>1 DEF Finish, EndingInv
  <2> HIDE DEF u
  <2>3. \A k \in 1 .. 15 : Has(t.reports, k)
    BY <1>3 DEF Heard
  <2>4. Heard(u, n) /\ Heard(u, n + 1)
    BY <1>3, <1>b, <2>2, <2>3 DEF Heard
  <2>5. QED
    BY <2>4 DEF u
<1>4. QED
  BY <1>1, <1>2, <1>3
\* The stores of the report, one clock each or two.
LEMMA ClockHears ==
    ASSUME NEW n \in 0 .. 15, EndingInv(tb), Heard(tb, n), NEW w \in Rep, Clock(<<w>>),
           n < 15 => w.id = ReportOrder[n + 1] /\ Tells(w),
           n = 15 => w = PassWord
    PROVE  Heard(tb', n) /\ Heard(tb', n + 1)
<1>1. EndingInv(Watchdog(tb)) /\ Heard(Watchdog(tb), n)
  BY WatchdogKeepsEnding, WatchdogHears
<1>2. Heard(Monitor(Watchdog(tb), <<w>>), n) /\ Heard(Monitor(Watchdog(tb), <<w>>), n + 1)
  BY <1>1, MonitorHears
<1>3. EndingInv(Monitor(tb, <<w>>))
  BY MonitorKeepsEnding
<1>4. Heard(Monitor(tb, <<w>>), n) /\ Heard(Monitor(tb, <<w>>), n + 1)
  BY MonitorHears
<1>5. Heard(Watchdog(Monitor(tb, <<w>>)), n) /\ Heard(Watchdog(Monitor(tb, <<w>>)), n + 1)
  BY <1>3, <1>4, WatchdogHears
<1>6. QED
  BY <1>2, <1>5 DEF Clock

LEMMA QuietHears ==
    ASSUME NEW n \in 0 .. 16, EndingInv(tb), Heard(tb, n), Clock(<<>>) PROVE Heard(tb', n)
<1>1. \A t : Monitor(t, <<>>) = t
  BY DEF Monitor
<1>2. QED
  BY <1>1, WatchdogHears DEF Clock

\* Both sides agree on what the words tell: the counters do not move.
LEMMA TellsStays ==
    ASSUME UNCHANGED <<window, whole, run>>
    PROVE  /\ \A w : Tells(w)' = Tells(w)
           /\ \A t, n : Heard(t, n)' = Heard(t, n)
BY DEF Tells, Heard, InOrder, Has, PassedIn, Wrong, Known

LEMMA ReportKeepsOrder == ASSUME ReportInv, Report PROVE ReportInv'
<1>1. /\ pc = "report" /\ pc' = "report" /\ UNCHANGED <<window, whole, run>>
      /\ ~tb.done /\ words # <<>> /\ Clock(<<Head(words)>>)
      /\ words' = Tail(words) \/ words' = words
  BY DEF Report, Store, programVars, timing
<1>2. TbInv /\ EndingInv(tb) /\ ToSend /\ Heard(tb, Sent)
  BY <1>1 DEF ReportInv, TbInv
<1> DEFINE n == Sent
           w == Head(words)
<1>3. /\ words \in Seq(Rep) /\ Len(words) \in 1 .. 16 /\ n \in 0 .. 15 /\ w \in Rep
      /\ w = words[1]
  <2>1. words \in Seq(Rep) /\ Len(words) <= 16
    BY <1>2 DEF ToSend
  <2>2. \A s \in Seq(Rep) : s # <<>> => /\ Len(s) \in Nat /\ Len(s) > 0
                                       /\ Head(s) \in Rep /\ Head(s) = s[1]
    OBVIOUS
  <2>3. Len(words) \in Nat /\ Len(words) > 0 /\ w \in Rep /\ w = words[1]
    BY <1>1, <2>1, <2>2
  <2>4. Len(words) \in 1 .. 16 /\ n \in 0 .. 15
    <3>1. \A m \in Nat : m > 0 /\ m <= 16 => m \in 1 .. 16 /\ 16 - m \in 0 .. 15
      OBVIOUS
    <3>2. QED
      BY <2>1, <2>3, <3>1 DEF Sent
  <2>5. QED
    BY <2>1, <2>3, <2>4
<1>4. /\ n < 15 => w.id = ReportOrder[n + 1] /\ Tells(w)
      /\ n = 15 => w = PassWord
  <2>1. n + 1 \in Sent + 1 .. 16 /\ WordAt(n + 1) = w
    BY <1>3 DEF WordAt, Sent
  <2> HIDE DEF n, w
  <2>2. /\ n + 1 <= 15 => WordAt(n + 1).id = ReportOrder[n + 1] /\ Tells(WordAt(n + 1))
        /\ n + 1 = 16 => WordAt(n + 1) = PassWord
    BY <1>2, <2>1 DEF ToSend
  <2>3. QED
    BY <1>3, <2>1, <2>2
<1>5. Heard(tb', n) /\ Heard(tb', n + 1)
  <2> HIDE DEF n, w
  <2>1. Heard(tb, n) /\ Clock(<<w>>)
    BY <1>1, <1>2 DEF n, w
  <2>2. QED
    BY <1>2, <1>3, <1>4, <2>1, ClockHears
<1>6. TbInv'
  BY <1>1, <1>2, ClockKeepsEnding DEF TbInv
<1>7. CASE words' = words
  <2>1. ToSend' /\ Sent' = n
    BY <1>1, <1>2, <1>7, TellsStays DEF ToSend, Sent, WordAt
  <2>2. (\A t, k : Heard(t, k)' = Heard(t, k)) => Heard(tb, Sent)'
    BY <1>5, <2>1
  <2>3. QED
    BY <1>1, <1>6, <2>1, <2>2, TellsStays DEF ReportInv
<1>8. CASE words' = Tail(words)
  <2>1. words' \in Seq(Rep) /\ Len(words') = Len(words) - 1 /\ Sent' = n + 1
        /\ \A j \in 1 .. Len(words) - 1 : words'[j] = words[j + 1]
    <3>1. \A s \in Seq(Rep) : s # <<>> => /\ Tail(s) \in Seq(Rep) /\ Len(Tail(s)) = Len(s) - 1
                                         /\ \A j \in 1 .. Len(s) - 1 : Tail(s)[j] = s[j + 1]
      OBVIOUS
    <3>2. QED
      BY <1>1, <1>3, <1>8, <3>1 DEF Sent
  <2>2. ASSUME NEW k \in Sent' + 1 .. 16 PROVE k \in Sent + 1 .. 16 /\ WordAt(k)' = WordAt(k)
    <3>1. k \in Sent + 1 .. 16 /\ k - Sent' \in 1 .. Len(words) - 1
          /\ (k - Sent') + 1 = k - Sent
      BY <1>3, <2>1 DEF Sent
    <3>2. QED
      BY <2>1, <3>1 DEF WordAt
  <2>3. ToSend'
    <3>1. Len(words') <= 16
      BY <1>3, <2>1
    <3>2. ASSUME NEW k \in Sent' + 1 .. 16
          PROVE  /\ k <= 15 => WordAt(k)'.id = ReportOrder[k] /\ Tells(WordAt(k))'
                 /\ k = 16 => WordAt(k)' = PassWord
      <4>1. k \in Sent + 1 .. 16 /\ WordAt(k)' = WordAt(k)
        BY <2>2
      <4>2. /\ k <= 15 => WordAt(k).id = ReportOrder[k] /\ Tells(WordAt(k))
            /\ k = 16 => WordAt(k) = PassWord
        BY <1>2, <4>1 DEF ToSend
      <4>3. QED
        BY <1>1, <4>1, <4>2, TellsStays
    <3>3. QED
      BY <2>1, <3>1, <3>2 DEF ToSend
  <2>4. (\A t, k : Heard(t, k)' = Heard(t, k)) => Heard(tb, Sent)'
    BY <1>5, <2>1
  <2>5. QED
    BY <1>1, <1>6, <2>3, <2>4, TellsStays DEF ReportInv
<1>9. QED
  BY <1>1, <1>7, <1>8
\* m words of the report, behind the first n.
Follows(t, n, m) == /\ t \in Seq(Rep) /\ Len(t) = m
                    /\ \A j \in 1 .. m : t[j].id = ReportOrder[n + j] /\ Tells(t[j])
\* The first n words of the report.
Begins(s, n) == /\ s \in Seq(Rep) /\ Len(s) = n
                /\ \A k \in 1 .. n : s[k].id = ReportOrder[k] /\ Tells(s[k])

Joined(u, s, t) == u = s \o t

LEMMA Concatenation ==
    ASSUME NEW s \in Seq(Rep), NEW t \in Seq(Rep), NEW u, Joined(u, s, t)
    PROVE  /\ u \in Seq(Rep) /\ Len(u) = Len(s) + Len(t)
           /\ \A i \in 1 .. Len(s) + Len(t) : u[i] = IF i <= Len(s) THEN s[i] ELSE t[i - Len(s)]
BY DEF Joined

LEMMA BeginsLonger ==
    ASSUME NEW n \in Nat, NEW s, Begins(s, n), NEW m \in Nat, NEW t, Follows(t, n, m),
           NEW u, Joined(u, s, t), NEW k \in Nat, k = n + m
    PROVE  Begins(u, k)
<1>1. s \in Seq(Rep) /\ Len(s) = n /\ t \in Seq(Rep) /\ Len(t) = m
  BY DEF Begins, Follows
<1>2. /\ u \in Seq(Rep) /\ Len(u) = n + m
      /\ \A i \in 1 .. n + m : u[i] = IF i <= n THEN s[i] ELSE t[i - n]
  BY <1>1, Concatenation
<1>3. ASSUME NEW i \in 1 .. n + m
      PROVE  u[i].id = ReportOrder[i] /\ Tells(u[i])
  <2>1. CASE i <= n
    BY <1>2, <2>1 DEF Begins
  <2>2. CASE i > n
    <3>1. i - n \in 1 .. m /\ n + (i - n) = i
      BY <2>2
    <3>2. QED
      BY <1>2, <2>2, <3>1 DEF Follows
  <2>3. QED
    BY <2>1, <2>2
<1>4. QED
  BY <1>2, <1>3 DEF Begins

LEMMA HalvesFit ==
    ASSUME NEW id \in Nat, NEW v \in Nat
    PROVE  /\ Halves(id, v) \in Seq(Rep) /\ Len(Halves(id, v)) = 2
           /\ Halves(id, v)[1] = report(id, v % HALF)
           /\ Halves(id, v)[2] = report(id + 1, Upper(v))
<1>1. v % HALF \in Nat /\ Upper(v) \in Nat
  BY Division, PortAssumption DEF Upper
<1>2. QED
  BY <1>1 DEF Halves, report, Rep

\* Two halves next in order, of a counter in the window and in the whole program.
LEMMA WindowHalves ==
    ASSUME NEW c \in Counters, window[c] \in Nat, NEW n \in Nat, NEW id \in Nat,
           \/ n = 0 /\ c = "mcycle" /\ id = 1
           \/ n = 2 /\ c = "minstret" /\ id = 3
           \/ n = 4 /\ c = "branch" /\ id = 12
           \/ n = 6 /\ c = "mispredict" /\ id = 14
    PROVE  Follows(Halves(id, window[c]), n, 2)
<1> DEFINE h == Halves(id, window[c])
<1>1. /\ h \in Seq(Rep) /\ Len(h) = 2
      /\ h[1] = report(id, window[c] % HALF) /\ h[2] = report(id + 1, Upper(window[c]))
  BY HalvesFit
<1> HIDE DEF h
<1>2. ReportOrder[n + 1] = id /\ ReportOrder[n + 2] = id + 1
  BY DEF ReportOrder
<1>3. /\ h[1].id = id /\ h[1].value = window[c] % HALF
      /\ h[2].id = id + 1 /\ h[2].value = Upper(window[c])
  BY <1>1 DEF report
<1>4. Tells(h[1]) /\ Tells(h[2])
  BY <1>3 DEF Tells
<1>5. \A j \in 1 .. 2 : h[j].id = ReportOrder[n + j] /\ Tells(h[j])
  <2>1. \A j \in 1 .. 2 : j = 1 \/ j = 2
    OBVIOUS
  <2>2. QED
    BY <1>2, <1>3, <1>4, <2>1
<1>6. QED
  BY <1>1, <1>5 DEF Follows, h

LEMMA WholeHalves ==
    ASSUME NEW c \in Counters, whole[c] \in Nat, NEW n \in Nat, NEW id \in Nat,
           \/ n = 11 /\ c = "mcycle" /\ id = 7
           \/ n = 13 /\ c = "minstret" /\ id = 9
    PROVE  Follows(Halves(id, whole[c]), n, 2)
<1> DEFINE h == Halves(id, whole[c])
<1>1. /\ h \in Seq(Rep) /\ Len(h) = 2
      /\ h[1] = report(id, whole[c] % HALF) /\ h[2] = report(id + 1, Upper(whole[c]))
  BY HalvesFit
<1> HIDE DEF h
<1>2. ReportOrder[n + 1] = id /\ ReportOrder[n + 2] = id + 1
  BY DEF ReportOrder
<1>3. /\ h[1].id = id /\ h[1].value = whole[c] % HALF
      /\ h[2].id = id + 1 /\ h[2].value = Upper(whole[c])
  BY <1>1 DEF report
<1>4. Tells(h[1]) /\ Tells(h[2])
  BY <1>3 DEF Tells
<1>5. \A j \in 1 .. 2 : h[j].id = ReportOrder[n + j] /\ Tells(h[j])
  <2>1. \A j \in 1 .. 2 : j = 1 \/ j = 2
    OBVIOUS
  <2>2. QED
    BY <1>2, <1>3, <1>4, <2>1
<1>6. QED
  BY <1>1, <1>5 DEF Follows, h

LEMMA FinishSends == ASSUME TimeInv, LogSays, ReportInv, ReportAndFinish PROVE ReportInv'
<1>1. /\ pc = "finish" /\ pc' = "report" /\ UNCHANGED <<timing, tb>> /\ ~tb.done /\ text = <<>>
      /\ UNCHANGED <<window, whole, run>>
  BY DEF ReportAndFinish, At, timing
<1>2. Measured /\ TimeType /\ run.iterations \in Nat
      /\ \A c \in Counters : (csr[c] - prog_start[c]) % WORD = whole[c]
  BY <1>1, RunFacts DEF TimeInv, TimeType
<1>3. \A c \in Counters : /\ Elapsed(c, start, stop) = window[c] /\ window[c] \in Nat
                          /\ Elapsed(c, prog_start, csr) = whole[c] /\ whole[c] \in Nat
  BY <1>2 DEF Elapsed, MYTIMEDIFF, Measured, TimeType, Times
<1> DEFINE h1  == Halves(1, window["mcycle"])
           h3  == Halves(3, window["minstret"])
           h12 == Halves(12, window["branch"])
           h14 == Halves(14, window["mispredict"])
           f   == <<report(5, run.iterations), report(6, Flag(~ee_log_has_crc_error)),
                    report(11, Flag(ee_log_has_error))>>
           h7  == Halves(7, whole["mcycle"])
           h9  == Halves(9, whole["minstret"])
<1>4. words' = h1 \o h3 \o h12 \o h14 \o f \o h7 \o h9 \o <<PassWord>>
  BY <1>3 DEF ReportAndFinish, Counters
<1>5. /\ Follows(h1, 0, 2) /\ Follows(h3, 2, 2) /\ Follows(h12, 4, 2) /\ Follows(h14, 6, 2)
  <2>1. /\ \A c \in Counters : window[c] \in Nat
        /\ {"mcycle", "minstret", "branch", "mispredict"} = Counters
    BY <1>3 DEF Counters
  <2>2. QED
    BY <2>1, WindowHalves
<1>6. Follows(h7, 11, 2) /\ Follows(h9, 13, 2)
  <2>1. /\ \A c \in Counters : whole[c] \in Nat
        /\ {"mcycle", "minstret", "branch", "mispredict"} = Counters
    BY <1>3 DEF Counters
  <2>2. QED
    BY <2>1, WholeHalves
<1>7. Follows(f, 8, 3)
  <2>1. \A b \in BOOLEAN : Flag(b) \in Nat
    BY DEF Flag
  <2>2. (ee_log_has_crc_error \in BOOLEAN) /\ (ee_log_has_error \in BOOLEAN)
    BY DEF ee_log_has_crc_error, ee_log_has_error
  <2>3. \A v : report(5, v).id = 5 /\ report(6, v).id = 6 /\ report(11, v).id = 11
    BY DEF report
  <2>4. \A v \in Nat : report(5, v) \in Rep /\ report(6, v) \in Rep /\ report(11, v) \in Rep
    BY DEF report, Rep
  <2>5. ASSUME LogReachesErrors
        PROVE  /\ ~ee_log_has_crc_error <=> ~Wrong
               /\ ee_log_has_error <=> (Wrong \/ window["mcycle"] < Secs(10))
    <3>1. TooShort <=> window["mcycle"] < Secs(10)
      <4>1. get_time = window["mcycle"] /\ window["mcycle"] \in Nat
        BY <1>2, <1>3 DEF get_time, MYTIMEDIFF, Measured, Counters
      <4>2. \A t \in Nat : t \div EE_TICKS_PER_SEC < 10 <=> t < 10 * EE_TICKS_PER_SEC
        <5>1. EE_TICKS_PER_SEC \in Nat /\ EE_TICKS_PER_SEC > 0
          BY PortAssumption
        <5>2. TAKE t \in Nat
        <5> DEFINE e == EE_TICKS_PER_SEC
                   k == t \div e
        <5>3. k \in Nat /\ t % e \in Nat /\ t % e < e /\ t = (e * k) + (t % e) /\ e \in Nat
          BY <5>1, Division
        <5> HIDE DEF e, k
        <5>4. ASSUME k < 10 PROVE t < 10 * e
          <6>1. e * k <= e * 9
            BY <5>3, <5>4
          <6>2. QED
            BY <5>3, <6>1
        <5>5. ASSUME k >= 10 PROVE t >= 10 * e
          <6>1. e * k >= e * 10
            BY <5>3, <5>5
          <6>2. QED
            BY <5>3, <6>1
        <5>6. QED
          BY <5>3, <5>4, <5>5 DEF e, k
      <4>3. QED
        BY <4>1, <4>2 DEF TooShort, time_in_secs, Secs
    <3>2. (ee_log_has_crc_error <=> Wrong) /\ (ee_log_has_error <=> (Wrong \/ TooShort))
      BY <1>1, <2>5, Flags
    <3>3. QED
      BY <3>1, <3>2
  <2>6. ReportOrder[8 + 1] = 5 /\ ReportOrder[8 + 2] = 6 /\ ReportOrder[8 + 3] = 11
    BY DEF ReportOrder
  <2>7. /\ f[1] = report(5, run.iterations) /\ f[2] = report(6, Flag(~ee_log_has_crc_error))
        /\ f[3] = report(11, Flag(ee_log_has_error)) /\ Len(f) = 3
    OBVIOUS
  <2>8. Flag(~ee_log_has_crc_error) \in Nat /\ Flag(ee_log_has_error) \in Nat
    BY <2>1, <2>2
  <2>9. f \in Seq(Rep)
    BY <1>2, <2>4, <2>8
  <2> HIDE DEF f
  <2>10. Tells(f[1]) /\ Tells(f[2]) /\ Tells(f[3])
    <3>1. LogReachesErrors => /\ f[2].value = Flag(~Wrong)
                              /\ f[3].value = Flag(Wrong \/ window["mcycle"] < Secs(10))
      BY <2>5, <2>7 DEF report, Flag
    <3>2. QED
      BY <2>3, <2>7, <3>1 DEF Tells
  <2>11. \A j \in 1 .. 3 : f[j].id = ReportOrder[8 + j] /\ Tells(f[j])
    <3>1. \A j \in 1 .. 3 : j = 1 \/ j = 2 \/ j = 3
      OBVIOUS
    <3>2. QED
      BY <2>3, <2>6, <2>7, <2>10, <3>1
  <2>12. QED
    BY <2>7, <2>9, <2>11 DEF Follows
<1> HIDE DEF h1, h3, h12, h14, f, h7, h9
<1> DEFINE s4  == h1 \o h3
           s6  == s4 \o h12
           s8  == s6 \o h14
           s11 == s8 \o f
           s13 == s11 \o h7
           s   == s13 \o h9
<1>9. /\ Joined(s4, h1, h3) /\ Joined(s6, s4, h12) /\ Joined(s8, s6, h14) /\ Joined(s11, s8, f)
      /\ Joined(s13, s11, h7) /\ Joined(s, s13, h9) /\ Joined(words', s, <<PassWord>>)
  BY <1>4 DEF Joined
<1> HIDE DEF s4, s6, s8, s11, s13, s
<1>10. Begins(s, 15)
  <2>1. Begins(h1, 2)
    BY <1>5 DEF Begins, Follows
  <2>2. Begins(s4, 4)
    BY <1>5, <1>6, <1>7, <1>9, <2>1, BeginsLonger
  <2>3. Begins(s6, 6)
    BY <1>5, <1>6, <1>7, <1>9, <2>2, BeginsLonger
  <2>4. Begins(s8, 8)
    BY <1>5, <1>6, <1>7, <1>9, <2>3, BeginsLonger
  <2>5. Begins(s11, 11)
    BY <1>5, <1>6, <1>7, <1>9, <2>4, BeginsLonger
  <2>6. Begins(s13, 13)
    BY <1>5, <1>6, <1>7, <1>9, <2>5, BeginsLonger
  <2>7. QED
    BY <1>5, <1>6, <1>7, <1>9, <2>6, BeginsLonger
<1>11. /\ words' \in Seq(Rep) /\ Len(words') = 16 /\ words'[16] = PassWord
       /\ \A k \in 1 .. 15 : words'[k] = s[k]
  <2>1. s \in Seq(Rep) /\ Len(s) = 15 /\ PassWord \in Rep
    BY <1>10 DEF Begins, PassWord, Rep
  <2>2. Joined(words', s, <<PassWord>>)
    BY <1>9
  <2>3. /\ <<PassWord>> \in Seq(Rep) /\ Len(<<PassWord>>) = 1 /\ <<PassWord>>[1] = PassWord
    BY <2>1
  <2> DEFINE t == <<PassWord>>
  <2> HIDE DEF t
  <2>4. t \in Seq(Rep) /\ Len(t) = 1 /\ t[1] = PassWord /\ Joined(words', s, t)
    BY <2>2, <2>3 DEF t
  <2>5. /\ words' \in Seq(Rep) /\ Len(words') = Len(s) + Len(t)
        /\ \A k \in 1 .. Len(s) + Len(t) : words'[k] = IF k <= Len(s) THEN s[k] ELSE t[k - Len(s)]
    BY <2>1, <2>4, Concatenation
  <2>6. Len(s) + Len(t) = 16 /\ 16 - Len(s) = 1 /\ ~(16 <= Len(s))
    BY <2>1, <2>4
  <2>7. QED
    BY <2>1, <2>4, <2>5, <2>6
<1>12. ToSend'
  <2>1. Sent' = 0 /\ \A k \in 1 .. 16 : WordAt(k)' = words'[k]
    BY <1>11 DEF Sent, WordAt
  <2>2. \A k \in 1 .. 15 : s[k].id = ReportOrder[k] /\ Tells(s[k])
    BY <1>10 DEF Begins
  <2>3. \A w : Tells(w)' = Tells(w)
    BY <1>1, TellsStays
  <2>4. ASSUME NEW k \in 1 .. 16
        PROVE  /\ k <= 15 => WordAt(k)'.id = ReportOrder[k] /\ Tells(WordAt(k))'
               /\ k = 16 => WordAt(k)' = PassWord
    BY <1>11, <2>1, <2>2, <2>3
  <2>5. QED
    BY <1>11, <2>1, <2>4 DEF ToSend
<1>13. Heard(tb, Sent)'
  <2>1. tb' = tb /\ tb.reports = <<>> /\ ~PassedIn(tb)
    BY <1>1 DEF ReportInv
  <2>2. Sent' = 0
    BY <1>11 DEF Sent
  <2>3. <<>> \in Seq(Rep) /\ DOMAIN <<>> = {}
    OBVIOUS
  <2>4. \A k \in 1 .. 15 : ~(k <= 0)
    OBVIOUS
  <2>5. PassedIn(tb)' = PassedIn(tb)
    BY <2>1 DEF PassedIn
  <2>6. QED
    BY <2>1, <2>2, <2>3, <2>4, <2>5 DEF Heard, InOrder
<1>14. TbInv'
  BY <1>1 DEF ReportInv, TbInv
<1>15. QED
  BY <1>1, <1>12, <1>13, <1>14 DEF ReportInv
LEMMA IdleKeepsReports == ASSUME ReportInv, Idle PROVE ReportInv'
<1>1. /\ pc = "report" /\ pc' = "report" /\ UNCHANGED <<window, whole, run>> /\ words' = words
      /\ Clock(<<>>)
  BY DEF Idle, QuietClock, programVars, timing
<1>2. TbInv /\ EndingInv(tb) /\ ToSend /\ Heard(tb, Sent)
  BY <1>1 DEF ReportInv, TbInv
<1>3. Sent \in 0 .. 16
  <2>1. words \in Seq(Rep) /\ Len(words) <= 16
    BY <1>2 DEF ToSend
  <2>2. Len(words) \in Nat
    BY <2>1
  <2>3. \A m \in Nat : m <= 16 => 16 - m \in 0 .. 16
    OBVIOUS
  <2>4. QED
    BY <2>1, <2>2, <2>3 DEF Sent
<1> DEFINE n == Sent
<1>4. n \in 0 .. 16 /\ Heard(tb, n)
  BY <1>2, <1>3
<1> HIDE DEF n
<1>5. Heard(tb', n)
  BY <1>1, <1>2, <1>4, QuietHears
<1>6. ToSend' /\ Sent' = n
  BY <1>1, <1>2, TellsStays DEF ToSend, Sent, WordAt, n
<1>7. (\A t, k : Heard(t, k)' = Heard(t, k)) => Heard(tb, Sent)'
  BY <1>5, <1>6
<1>8. TbInv'
  BY <1>1, <1>2, ClockKeepsEnding DEF TbInv
<1>9. QED
  BY <1>1, <1>6, <1>7, <1>8, TellsStays DEF ReportInv

LEMMA ReportStarts == Init => ReportInv
BY DEF Init, TohostInit, ReportInv, TbInv, EndingInv, PassedIn

LEMMA ReportNext == TimeInv /\ LogSays /\ ReportInv /\ [Next]_vars => ReportInv'
<1> SUFFICES ASSUME TimeInv, LogSays, ReportInv, [Next]_vars PROVE ReportInv'
  OBVIOUS
<1>1. CASE Program /\ ~ReportAndFinish
  <2>1. (pc # "report" /\ pc' # "report") \/ (pc' = pc /\ UNCHANGED <<window, whole, run>>)
    BY <1>1 DEF Program, PortableInit, Calibrate, EndCalibrate, Timed, CheckList, CheckMatrix,
                CheckState, CheckKernel, Totals, TenSeconds, Crcs, Putc, Printed, At, timing
  <2>2. UNCHANGED <<words, tb>>
    BY <1>1 DEF Program, PortableInit, Calibrate, EndCalibrate, Timed, CheckList, CheckMatrix,
                CheckState, CheckKernel, Totals, TenSeconds, Crcs, Putc, Printed, tbVars
  <2>3. TbInv' /\ PassedIn(tb)' = PassedIn(tb)
    BY <2>2 DEF ReportInv, TbInv, PassedIn
  <2>4. CASE pc # "report" /\ pc' # "report"
    BY <2>2, <2>3, <2>4 DEF ReportInv
  <2>5. CASE pc' = pc /\ UNCHANGED <<window, whole, run>>
    <3>1. ToSend' = ToSend /\ Heard(tb, Sent)' = Heard(tb, Sent)
      BY <2>2, <2>5 DEF ToSend, Heard, Sent, WordAt, Tells, InOrder, Has, PassedIn, Wrong, Known
    <3>2. QED
      BY <2>2, <2>3, <2>5, <3>1 DEF ReportInv
  <2>6. QED
    BY <2>1, <2>4, <2>5
<1>2. CASE ReportAndFinish
  BY <1>2, FinishSends
<1>3. CASE Report
  BY <1>3, ReportKeepsOrder
<1>4. CASE Idle
  BY <1>4, IdleKeepsReports
<1>5. CASE EarlyTimeout
  <2>1. /\ pc # "report" /\ pc' = pc /\ words' = words /\ ~tb.done /\ tb' = Finish(tb, "TIMEOUT")
    BY <1>5 DEF EarlyTimeout, programVars
  <2>2. EndingInv(tb) /\ tb.reports = <<>> /\ words = <<>>
    BY <2>1 DEF ReportInv, TbInv
  <2>3. EndingInv(tb')
    BY <2>1, <2>2, FinishKeepsEnding
  <2>4. tb'.reports = <<>> /\ tb'.endings = <<"TIMEOUT">>
    <3>1. Append(<<>>, "TIMEOUT") = <<"TIMEOUT">>
      OBVIOUS
    <3>2. tb.endings = <<>> /\ "endings" \in DOMAIN tb /\ "done" \in DOMAIN tb
      BY <2>1, <2>2 DEF EndingInv
    <3>3. QED
      BY <2>1, <2>2, <3>1, <3>2 DEF Finish
  <2>5. ~PassedIn(tb')
    BY <2>4 DEF PassedIn
  <2>6. ~PassedIn(tb)' /\ TbInv'
    BY <2>3, <2>5 DEF TbInv, PassedIn
  <2>7. QED
    BY <2>1, <2>2, <2>4, <2>6 DEF ReportInv
<1>6. CASE UNCHANGED vars
  <2>1. UNCHANGED <<pc, words, tb, window, whole, run>>
    BY <1>6 DEF vars, timing, tbVars
  <2>2. ToSend' = ToSend /\ Heard(tb, Sent)' = Heard(tb, Sent) /\ PassedIn(tb)' = PassedIn(tb) /\ TbInv' = TbInv
    BY <2>1 DEF ToSend, Heard, Sent, WordAt, Tells, InOrder, Has, PassedIn, TbInv, Wrong, Known
  <2>3. QED
    BY <2>1, <2>2 DEF ReportInv
<1>7. QED
  BY <1>1, <1>2, <1>3, <1>4, <1>5, <1>6 DEF Next, Finished

LEMMA PassedHears ==
    ASSUME ReportInv, Passed
    PROVE  /\ tb.reports \in Seq(Rep) /\ InOrder(tb.reports, 16 + 1)
           /\ \A i \in DOMAIN tb.reports : Tells(tb.reports[i])
           /\ \A k \in 1 .. 15 : Has(tb.reports, k)
<1>1. PassedIn(tb)
  BY DEF Passed, PassedIn
<1>2. ToSend /\ Heard(tb, Sent)
  BY <1>1 DEF ReportInv
<1> DEFINE n == Sent
<1>3. n \in 0 .. 16 /\ n >= 15
  <2>1. words \in Seq(Rep) /\ Len(words) <= 16 /\ Sent >= 15
    BY <1>1, <1>2 DEF ToSend, Heard
  <2>2. Len(words) \in Nat
    BY <2>1
  <2>3. QED
    BY <2>1, <2>2 DEF Sent
<1>4. Heard(tb, n)
  BY <1>2
<1> HIDE DEF n
<1>5. InOrder(tb.reports, n + 1)
  BY <1>4 DEF Heard
<1>6. InOrder(tb.reports, 16 + 1)
  <2>1. \A k \in 1 .. 15 : k <= n + 1 => k <= 16 + 1
    BY <1>3
  <2>2. QED
    BY <1>5, <2>1 DEF InOrder
<1>7. QED
  BY <1>1, <1>3, <1>4, <1>6 DEF Heard

\* PASS comes after all fifteen reports, and these in their order, whichever of
\* the stores the core repeats and whichever of the monitor and the watchdog is
\* first at a clock (finish.c:64-92, tb_rv32imc.v:239).
THEOREM PassReported == Spec => []PassMeansReported
<1>1. ReportInv => PassMeansReported
  <2> SUFFICES ASSUME ReportInv, Passed
               PROVE  /\ {Place(tb.reports[i]) : i \in DOMAIN tb.reports} = 1 .. Len(ReportOrder)
                      /\ \A i, j \in DOMAIN tb.reports :
                            i < j => Place(tb.reports[i]) <= Place(tb.reports[j])
    BY DEF PassMeansReported
  <2>1. Len(ReportOrder) = 15
    BY DEF ReportOrder
  <2>2. \A i \in DOMAIN tb.reports : Place(tb.reports[i]) \in 1 .. 15
    BY PassedHears, Places
  <2>3. \A k \in 1 .. 15 : \E i \in DOMAIN tb.reports : Place(tb.reports[i]) = k
    BY PassedHears, PlaceIs DEF Has
  <2>4. QED
    BY <2>1, <2>2, <2>3, PassedHears DEF InOrder
<1>2. QED
  BY <1>1, TimeStarts, TimeNext, LogStarts, LogNextSays, ReportStarts, ReportNext, PTL DEF Spec

\* A number below the square of HALF is its two halves.
LEMMA TwoHalves ==
    ASSUME NEW v \in Nat, v < WORD
    PROVE  (v % HALF) + HALF * Upper(v) = v
<1>1. HALF \in Nat /\ HALF > 0
  BY PortAssumption
<1> DEFINE q == v \div HALF
<1>2. q \in Nat /\ v % HALF \in Nat /\ v = (HALF * q) + (v % HALF)
  BY <1>1, Division
<1>3. q < HALF
  <2>1. ASSUME q >= HALF PROVE HALF * q >= HALF * HALF
    BY <1>1, <1>2, <2>1
  <2>2. QED
    BY <1>1, <1>2, <2>1 DEF WORD
<1> HIDE DEF q
<1>4. q % HALF = q
  BY <1>1, <1>2, <1>3
<1>5. Upper(v) = q
  BY <1>4 DEF Upper, q
<1>6. HALF * q = q * HALF
  BY <1>1, <1>2
<1>7. QED
  BY <1>1, <1>2, <1>5, <1>6

LEMMA ValueTells ==
    ASSUME ReportInv, Passed, NEW k \in 1 .. 15
    PROVE  \E w \in Rep : w.id = ReportOrder[k] /\ Tells(w) /\ Value(ReportOrder[k]) = w.value
<1>1. \E i \in DOMAIN tb.reports : tb.reports[i].id = ReportOrder[k]
  BY PassedHears DEF Has
<1> DEFINE i == CHOOSE i \in DOMAIN tb.reports : tb.reports[i].id = ReportOrder[k]
<1>2. i \in DOMAIN tb.reports /\ tb.reports[i].id = ReportOrder[k]
  BY <1>1
<1>3. Value(ReportOrder[k]) = tb.reports[i].value
  BY DEF Value
<1> HIDE DEF i
<1>4. tb.reports[i] \in Rep /\ Tells(tb.reports[i])
  BY <1>2, PassedHears
<1>5. QED
  BY <1>2, <1>3, <1>4

\* A run the testbench passes displays how far the counters have moved, to the
\* clock, in the timed window and in the whole program, although the counters
\* and their differences wrap and travel in halves (finish.c:44-90).
THEOREM ReportsTold == Spec => []ReportsExact
<1>1. TimeInv /\ ReportInv => ReportsExact
  <2> SUFFICES ASSUME TimeInv, ReportInv, Passed
               PROVE  /\ \A id \in {1, 3, 12, 14} :
                            Rebuilt(id) = window[CASE id = 1 -> "mcycle" [] id = 3 -> "minstret"
                                                   [] id = 12 -> "branch" [] id = 14 -> "mispredict"]
                      /\ Rebuilt(7) = whole["mcycle"] /\ Rebuilt(9) = whole["minstret"]
    BY DEF ReportsExact
  <2>1. pc = "report"
    BY DEF ReportInv, Passed, PassedIn
  <2>2. \A c \in Counters : window[c] \in Nat /\ window[c] < WORD /\ whole[c] \in Nat /\ whole[c] < WORD
    <3>1. Measured /\ TimeType /\ \A c \in Counters : (csr[c] - prog_start[c]) % WORD = whole[c]
      BY <2>1 DEF TimeInv
    <3>2. \A x, y \in Nat : (x - y) % WORD \in Nat /\ (x - y) % WORD < WORD
      BY WordPositive
    <3>3. ASSUME NEW c \in Counters
          PROVE  /\ csr[c] \in Nat /\ prog_start[c] \in Nat /\ start[c] \in Nat /\ stop[c] \in Nat
                 /\ window[c] = (stop[c] - start[c]) % WORD
                 /\ whole[c] = (csr[c] - prog_start[c]) % WORD
      BY <3>1 DEF Measured, TimeType, Times
    <3>4. QED
      BY <3>2, <3>3
  <2>3. /\ Value(1) = window["mcycle"] % HALF /\ Value(2) = Upper(window["mcycle"])
        /\ Value(3) = window["minstret"] % HALF /\ Value(4) = Upper(window["minstret"])
        /\ Value(12) = window["branch"] % HALF /\ Value(13) = Upper(window["branch"])
        /\ Value(14) = window["mispredict"] % HALF /\ Value(15) = Upper(window["mispredict"])
        /\ Value(7) = whole["mcycle"] % HALF /\ Value(8) = Upper(whole["mcycle"])
        /\ Value(9) = whole["minstret"] % HALF /\ Value(10) = Upper(whole["minstret"])
    <3>1. \A id \in {1, 2, 3, 4, 12, 13, 14, 15, 7, 8, 9, 10} :
             \E w \in Rep : w.id = id /\ Tells(w) /\ Value(id) = w.value
      <4>1. \A id \in {1, 2, 3, 4, 12, 13, 14, 15, 7, 8, 9, 10} : \E k \in 1 .. 15 : ReportOrder[k] = id
        <5>1. /\ ReportOrder[1] = 1 /\ ReportOrder[2] = 2 /\ ReportOrder[3] = 3 /\ ReportOrder[4] = 4
              /\ ReportOrder[5] = 12 /\ ReportOrder[6] = 13 /\ ReportOrder[7] = 14
              /\ ReportOrder[8] = 15 /\ ReportOrder[12] = 7 /\ ReportOrder[13] = 8
              /\ ReportOrder[14] = 9 /\ ReportOrder[15] = 10
          BY DEF ReportOrder
        <5>2. QED
          BY <5>1
      <4>2. \A k \in 1 .. 15 :
               \E w \in Rep : w.id = ReportOrder[k] /\ Tells(w) /\ Value(ReportOrder[k]) = w.value
        BY ValueTells
      <4>3. TAKE id \in {1, 2, 3, 4, 12, 13, 14, 15, 7, 8, 9, 10}
      <4>4. PICK k \in 1 .. 15 : ReportOrder[k] = id
        BY <4>1
      <4>5. QED
        BY <4>2, <4>4
    <3>2. QED
      BY <3>1 DEF Tells
  <2>4. QED
    BY <2>2, <2>3, TwoHalves DEF Rebuilt, Counters
<1>2. QED
  BY <1>1, TimeStarts, TimeNext, LogStarts, LogNextSays, ReportStarts, ReportNext, PTL DEF Spec

(* crc_ok tells the truth: the scan of the log's text finds an "ERROR!" with *)
(* "crc" behind it on the line if and only if a check value that was        *)
(* compared is wrong, and an "ERROR!" at all if and only if one is or the   *)
(* run was short, for every log that holds the text up to the line about a  *)
(* short run (finish.c:74-79, ee_printf.c:142-145).                         *)
THEOREM CrcOk == ASSUME LogReachesErrors PROVE Spec => []CrcOkTruthful
<1>1. ReportInv => CrcOkTruthful
  <2> SUFFICES ASSUME ReportInv, Passed
               PROVE  /\ Value(6) = Flag(~Wrong)
                      /\ Value(11) = Flag(Wrong \/ window["mcycle"] < Secs(10))
    BY DEF CrcOkTruthful, Wrong, Known
  <2>1. ReportOrder[10] = 6 /\ ReportOrder[11] = 11
    BY DEF ReportOrder
  <2>2. /\ \E w \in Rep : w.id = ReportOrder[10] /\ Tells(w) /\ Value(ReportOrder[10]) = w.value
        /\ \E w \in Rep : w.id = ReportOrder[11] /\ Tells(w) /\ Value(ReportOrder[11]) = w.value
    BY ValueTells
  <2>3. QED
    BY <2>1, <2>2 DEF Tells
<1>2. QED
  BY <1>1, TimeStarts, TimeNext, LogStarts, LogNextSays, ReportStarts, ReportNext, PTL DEF Spec
=============================================================================
