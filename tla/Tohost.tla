------------------------------- MODULE Tohost -------------------------------
(***************************************************************************)
(* The tohost protocol between a program and the testbench: the program    *)
(* stores report words and at last the word 1; the testbench's monitor     *)
(* reads the stores off the data port, and its watchdog ends the           *)
(* simulation when the clocks run out.  Both are blocks of their own on    *)
(* the same clock edge, in no order, that share `done`.                    *)
(***************************************************************************)
EXTENDS Integers, Sequences

CONSTANTS Lefts,      \* clocks the watchdog may have left at the first report
          MAX_HELD    \* bound: clocks for which stores are repeated
ASSUME TohostAssumption == Lefts \subseteq Nat /\ MAX_HELD \in Nat

VARIABLES words,      \* stores the program has still to make
          held,       \* clocks for which a store was repeated
          tb          \* the testbench

PassWord      == [id |-> 0, value |-> 1]
report(id, v) == [id |-> id, value |-> v]

TohostInit ==
    /\ words = <<>> /\ held = 0
    /\ \E n \in Lefts : tb = [done |-> FALSE, left |-> n, endings |-> <<>>, reports |-> <<>>]

Finish(t, how) == [t EXCEPT !.done = TRUE, !.endings = Append(@, how)]

\* Mutant: any word whose value is 1 is taken for the end.
MonitorValueOnly(t, store) ==
    IF t.done \/ store = <<>> THEN t
    ELSE IF store[1].value = 1 THEN Finish(t, "PASS")
    ELSE [t EXCEPT !.reports = Append(@, store[1])]
\* store is empty when no store to tohost is on the port
Monitor(t, store) ==
    IF t.done \/ store = <<>> THEN t
    ELSE IF store[1] = PassWord THEN Finish(t, "PASS")
    ELSE IF store[1].id # 0 THEN [t EXCEPT !.reports = Append(@, store[1])]
    ELSE Finish(t, "FAIL")

\* Mutant: the watchdog does not look whether the run is over.
WatchdogAlways(t) == IF t.left = 0 THEN Finish(t, "TIMEOUT") ELSE [t EXCEPT !.left = @ - 1]
Watchdog(t) ==
    IF t.done THEN t
    ELSE IF t.left = 0 THEN Finish(t, "TIMEOUT") ELSE [t EXCEPT !.left = @ - 1]

Clock(store) == \/ tb' = Monitor(Watchdog(tb), store)
                \/ tb' = Watchdog(Monitor(tb, store))

\* A store reaches the port.  While the instruction port waits, the core
\* repeats it at the next clock.
Store ==
    /\ ~tb.done /\ words # <<>>
    /\ Clock(<<Head(words)>>)
    /\ \/ words' = Tail(words) /\ UNCHANGED held
       \/ held < MAX_HELD /\ held' = held + 1 /\ UNCHANGED words

\* A clock of other instructions, or of the endless loop after the last store.
QuietClock == ~tb.done /\ Clock(<<>>) /\ UNCHANGED <<words, held>>
=============================================================================
