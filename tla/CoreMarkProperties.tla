-------------------------- MODULE CoreMarkProperties --------------------------
(***************************************************************************)
(* What must be true of a CoreMark run, and two history variables to say   *)
(* it with: pristine is the data as the init functions left it, before the *)
(* items of the list, while it is reversed or sorted those it had when     *)
(* that began.                                                             *)
(***************************************************************************)
EXTENDS CoreMark

VARIABLES pristine, before
hvars == <<vars, pristine, before>>

Items    == Contents(heap, IF pc \in {"iterate", "done"} THEN res.list ELSE fr.list, Max)
Building == pc \in {"items", "cells", "text"} \/ (pc \in {"pass", "merge"} /\ ms.after = "cells")
Sorting  == pc \in {"pass", "merge", "scan1", "scan2"}
Busy     == Sorting \/ pc = "reverse"

HistoryInit == Init /\ pristine = [items |-> <<>>, A |-> mat.A, block |-> block] /\ before = <<>>
HistoryNext ==
    /\ Next
    /\ pristine' = IF Building THEN [items |-> IF Building' THEN <<>> ELSE Items',
                                     A |-> mat'.A, block |-> block']
                               ELSE pristine
    /\ before' = IF Building' THEN <<>> ELSE IF Busy /\ Busy' THEN before ELSE Items'
HistorySpec == HistoryInit /\ [][HistoryNext]_hvars
LiveHistorySpec == HistorySpec /\ Fairness

-----------------------------------------------------------------------------
\* The runs core_main.c knows, as its comments describe them (:294-316).
KnownRuns == << <<0, 0, 102, 2000>>, <<13333, 13333, 102, 2000>>, <<8, 8, 8, 400>>,
                <<0, 0, 102, 666>>, <<13333, 13333, 102, 666>> >>
\* Each of them is recognised by the CRC of its inputs, and none of its three
\* check values differs from the known one (core_main.c:36-50, :287-356).
KnownCrcs ==
    \A k \in DOMAIN KnownRuns :
        pc = "done" /\ KnownRuns[k] = <<in.seed1, in.seed2, in.seed3, in.total>>
            => out = [known_id |-> k - 1, errors |-> 0]

\* "At the end of this function, the list is back to original state"
\* (core_list_join.c:156): items, order and uncached data, through two sorts,
\* a removal and a hundred reversals.
ListRestored ==
    pc = "iterate" \/ (pc = "find" /\ fr.i = 0) => Items = pristine.items

\* "After the last step, matrix A is back to original contents"
\* (core_matrix.c:127), although its elements wrap at 16 bits.
MatrixRestored == mat.A = pristine.A

\* Outside the window between the two passes the text is what core_init_state
\* wrote: the second XOR undoes the first (core_state.c:99).
TextRestored == ~Building /\ pc # "scan2" => block = pristine.block

\* Both passes end inside the block: at every token there is a zero ahead,
\* corruption included (core_state.c:72, :91).
ScanStaysInBlock ==
    Scanning => \E i \in st.p .. in.total - 1 : block[i] = NUL

\* The blocks core_main.c:204-217 assigns, whatever the alignment of the
\* static memory: list cells of 8 bytes and data of 4, two matrices of 2-byte
\* and one of 4-byte elements at aligned addresses.
AlignUp(x) == 4 * ((x + 3) \div 4)
BlocksDisjoint ==
    \A base \in 0 .. 3 :
        LET n == mat.N * mat.N
            B == AlignUp(base + in.total) + 2 * n
        IN  /\ base + 12 * Size <= base + in.total
            /\ AlignUp(B + 2 * n) + 4 * n <= base + 2 * in.total

\* No node is lost or seen twice while pointers are rewired: the reversed and
\* the remaining part, or the merged part and the two runs, are disjoint
\* and are the whole list (core_list_join.c:464, :499).
Prefix(n, last) ==
    LET c == ChainOf(heap, n, Max)
    IN  IF n = NULL THEN <<>>
        ELSE SubSeq(c, 1, CHOOSE i \in 1 .. Len(c) :
                              c[i] = last /\ \A j \in 1 .. i - 1 : c[j] # last)
Parts ==
    IF pc = "reverse" THEN ChainOf(heap, fr.prev, Max) \o ChainOf(heap, fr.cur, Max)
    ELSE Prefix(ms.list, ms.tail)
         \o (IF pc = "pass" THEN <<>> ELSE ChainOf(heap, ms.p, ms.psize))
         \o ChainOf(heap, IF pc = "pass" THEN ms.p ELSE ms.q, Max)
NoNodeLost ==
    Busy /\ ~Building =>
        LET parts == Parts
        IN  /\ Len(parts) = Len(before)
            /\ {Info(heap, parts[i]).idx : i \in 1 .. Len(parts)}
                   = {before[i].idx : i \in 1 .. Len(before)}

\* The list kernel implements its abstract specification.
Phase ==
    CASE Building -> "build"
      [] pc \in {"iterate", "done"} -> "idle"
      [] pc \in {"find", "reverse"} \/ (Sorting /\ ms.after = "remove") -> "find"
      [] pc = "remove" -> IF fr.finder_idx > 0 THEN "sorted" ELSE "find"
      [] pc = "undo" -> "removed"
      [] pc = "check" -> "checked"
      [] OTHER -> "undone"
L == INSTANCE ListSpec WITH
        Value    <- LAMBDA x : x.data16 % 128,
        Rebuilt  <- LAMBDA x : [x EXCEPT !.data16 = 257 * HighByte(@)],
        Computed <- LAMBDA x, y : /\ HighByte(y.data16) = HighByte(x.data16)
                                  /\ Field(y.data16, 7, 1) = 1
                                  /\ Field(x.data16, 7, 1) = 1 => y = x,
        phase    <- Phase,
        items    <- before,
        removed  <- IF pc = "undo" THEN <<Info(heap, fr.remover)>> ELSE <<>>,
        original <- pristine.items
ImplementsList == L!Spec

\* Every loop of the kernels ends: the program reports (bounded finds, sorts
\* whose runs double, scans that stop at the zero).
Terminates == <>(pc = "done")

-----------------------------------------------------------------------------
(* What of this holds only for some seeds and sizes, and for which.         *)
Addr(z) == 0 .. z - 1
\* The item that core_list_init gives to node x of n.
Base(n, seed, x) ==
    IF x = 0 THEN [idx |-> 0, data16 |-> 32896]
    ELSE IF x = 1 THEN LastItem
    ELSE [idx |-> ItemIdx(n + 1, seed, n - x), data16 |-> DataPattern(seed, x - 2)]

\* Every item but the header has an idx other than 0.
ZeroOnlyHead ==
    \A x \in Inputs : \A i \in 1 .. ListSize(SizeOf(x)) - 3 :
        ItemIdx(ListSize(SizeOf(x)), Defaults(x).seed1, i) # 0

\* No two items have one idx.
DistinctAt(n, seed) == \A x, y \in Addr(n) : Base(n, seed, x).idx = Base(n, seed, y).idx => x = y
DistinctIdx == \A x \in Inputs : DistinctAt(ListSize(SizeOf(x)) - 1, Defaults(x).seed1)

\* The matrices leave the three bytes that aligning the first one can take.
RoomToAlign ==
    \A x \in Inputs : LET N == Dimension(SizeOf(x))
                      IN  SizeOf(x) \notin {8 * (N * N) + 1, 8 * (N * N) + 2}

\* The two XORs take off what they put into the zeros behind the text.
ZerosReturn ==
    \A x \in Inputs : LET s == U8(Defaults(x).seed1)
                      IN  s # Comma /\ s = U8(Defaults(x).seed2)

\* The characters of the patterns: + - . 0 to 8 F T ^ e q z.
Letters == {43, 45, 46, 48, 49, 50, 51, 52, 53, 54, 55, 56, 70, 84, 94, 101, 113, 122}

\* The XORs take each other off, and the first makes no comma, which the
\* second would leave alone.
MakesNoComma(s) == \A c \in Letters \cup {NUL} : XorByte(c, s) # Comma
NoNewComma ==
    \A x \in Inputs : LET s == U8(Defaults(x).seed1)
                      IN  s = U8(Defaults(x).seed2) /\ MakesNoComma(s)
=============================================================================
