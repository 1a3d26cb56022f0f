------------------------------ MODULE MCCoreMark ------------------------------
(***************************************************************************)
(* The five runs whose results core_main.c knows, as its inputs give them: *)
(* performance and validation seeds with 2000 and 6000 bytes and the       *)
(* profile run, this one for two iterations.  And short runs: lists        *)
(* of 3 to 9 nodes, seeds that give them different orders, kernels and     *)
(* data, and no, few or many finds.                                        *)
(***************************************************************************)
EXTENDS CoreMarkProperties

MCRun(a, b, c, bytes, n) ==
    [seed1 |-> a, seed2 |-> b, seed3 |-> c, total |-> bytes, iterations |-> n]
MCOfficial == {MCRun(0, 0, 0, 2000, 1), MCRun(1, 0, 0, 2000, 1), MCRun(8, 8, 8, 1200, 2),
               MCRun(0, 0, 0, 6000, 1), MCRun(1, 0, 0, 6000, 1)}
MCShort == {MCRun(s, s, finds, bytes, 1) : s \in {2, 5, 8, 13, 16, 35, 1030, 13333},
                finds \in {0, 1, 2, 3, 6}, bytes \in {360, 420, 480, 600, 720}}
MCInputs == MCOfficial \cup MCShort

\* What the theorems about CoreMark need of the inputs holds of these, but that
\* seed 2 would turn a point into a comma; the run meets none at such a place.
ASSUME MCInputsSuffice ==
    Inputs = MCInputs =>
        /\ DistinctIdx /\ ZeroOnlyHead /\ RoomToAlign /\ ZerosReturn
        /\ \A x \in MCInputs : x.seed1 = 2 \/ MakesNoComma(U8(Defaults(x).seed1))

\* Runs of which a property does not hold (README): two items of the list have
\* the same index, and it is not restored; a digit of the text becomes a comma,
\* and it is not restored.
DuplicateIdx == {MCRun(7, 7, 1, 720, 1)}
DigitToComma == {MCRun(26, 26, 1, 2000, 1)}
=============================================================================
