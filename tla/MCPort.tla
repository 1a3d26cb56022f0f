-------------------------------- MODULE MCPort --------------------------------
(***************************************************************************)
(* Words of 16 bits and 1526 ticks to a second, so that the clock wraps    *)
(* after 42.9 seconds as 32 bits do at 100 MHz.  Iterations from the       *)
(* shortest to the longest whose first ten fit the clock, runs that are    *)
(* just under and over a number of seconds, counters that wrap in the      *)
(* window; known and unknown seeds, no, some and all check values wrong;   *)
(* a log that the longest output does not fit.                             *)
(***************************************************************************)
EXTENDS PortProperties

Results == { [known_id |-> 3, wrong |-> w] : w \in {{}, {"list"}, {"matrix", "state"},
                                                   {"list", "matrix", "state"}} }
           \cup { [known_id |-> -1, wrong |-> {}] }
Times == { [iterations |-> 0, tpi |-> t] : t \in {1, 152, 153, 305, 1024, 1525, 6553} }
         \cup { [iterations |-> n, tpi |-> 1090] : n \in {1, 14, 15} }
MCRuns == { [known_id |-> r.known_id, wrong |-> r.wrong, iterations |-> t.iterations,
             tpi |-> t.tpi, csr |-> c] : r \in Results, t \in Times, c \in {0, 65500} }
MCLefts == {0, 7, 15, 16, 20}
=============================================================================
