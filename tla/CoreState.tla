------------------------------ MODULE CoreState ------------------------------
(***************************************************************************)
(* core_state.c: the text the state-machine kernel scans, its transition   *)
(* table and its two passes with corruption in between.  Characters are    *)
(* their codes; a block is a function from its offsets.                    *)
(***************************************************************************)
EXTENDS Crc, Sequences

CORE_STATE == {"START", "INVALID", "S1", "S2", "INT", "FLOAT", "EXPONENT", "SCIENTIFIC"}
StateOrder == <<"START", "INVALID", "S1", "S2", "INT", "FLOAT", "EXPONENT", "SCIENTIFIC">>

NUL    == 0
Comma  == 44
Point  == 46
Sign   == {43, 45}       \* + -
Expo   == {69, 101}      \* E e

intpat   == <<<<53, 48, 49, 50>>,
              <<49, 50, 51, 52>>,
              <<45, 56, 55, 52>>,
              <<43, 49, 50, 50>>>>
floatpat == <<<<51, 53, 46, 53, 52, 52, 48, 48>>,
              <<46, 49, 50, 51, 52, 53, 48, 48>>,
              <<45, 49, 49, 48, 46, 55, 48, 48>>,
              <<43, 48, 46, 54, 52, 52, 48, 48>>>>
scipat   == <<<<53, 46, 53, 48, 48, 101, 43, 51>>,
              <<45, 46, 49, 50, 51, 101, 45, 50>>,
              <<45, 56, 55, 101, 43, 56, 51, 50>>,
              <<43, 48, 46, 54, 101, 45, 49, 50>>>>
errpat   == <<<<84, 48, 46, 51, 101, 45, 49, 70>>,
              <<45, 84, 46, 84, 43, 43, 84, 113>>,
              <<49, 84, 51, 46, 52, 101, 52, 122>>,
              <<51, 52, 46, 48, 101, 45, 84, 94>>>>

Pattern(seed) ==
    LET kind == seed % 8
        k    == Field(seed, 3, 2) + 1
    IN  CASE kind <= 2 -> intpat[k]
          [] kind \in {3, 4} -> floatpat[k]
          [] kind \in {5, 6} -> scipat[k]
          [] kind = 7 -> errpat[k]

\* Mutant: no room is kept.
HasRoomForSome(total, n, size) == total < size
\* Is there room for a pattern of n characters, its comma and the zeros?
HasRoom(total, n, size) == total + n + 1 < size - 1

\* core_init_state, one turn of its loop: a pattern and its comma at offset
\* total; then the rest of the block is filled with zeros.
PutPattern(block, total, pattern) ==
    [i \in DOMAIN block |-> IF i \in total .. total + Len(pattern) - 1 THEN pattern[i - total + 1]
                            ELSE IF i = total + Len(pattern) THEN Comma ELSE block[i]]
FillZero(block, total) == [i \in DOMAIN block |-> IF i < total THEN block[i] ELSE NUL]

ee_isdigit(c) == c \in 48 .. 57

\* The switch of core_state_transition.
NextState(s, c) ==
    CASE s = "START"    -> IF ee_isdigit(c) THEN "INT" ELSE IF c \in Sign THEN "S1"
                           ELSE IF c = Point THEN "FLOAT" ELSE "INVALID"
      [] s = "S1"       -> IF ee_isdigit(c) THEN "INT" ELSE IF c = Point THEN "FLOAT" ELSE "INVALID"
      [] s = "INT"      -> IF c = Point THEN "FLOAT" ELSE IF ee_isdigit(c) THEN s ELSE "INVALID"
      [] s = "FLOAT"    -> IF c \in Expo THEN "S2" ELSE IF ee_isdigit(c) THEN s ELSE "INVALID"
      [] s = "S2"       -> IF c \in Sign THEN "EXPONENT" ELSE "INVALID"
      [] s = "EXPONENT" -> IF ee_isdigit(c) THEN "SCIENTIFIC" ELSE "INVALID"
      [] OTHER          -> IF ee_isdigit(c) THEN s ELSE "INVALID"

\* The counters a transition increments: the state it leaves, if it does; an
\* invalid first character counts twice, and SCIENTIFIC counts as INVALID.
Counted(s, t) ==
    CASE s = t -> {}
      [] s = "START" -> {s} \cup ({t} \cap {"INVALID"})
      [] s = "SCIENTIFIC" -> {"INVALID"}
      [] OTHER -> {s}

\* A block is followed by zeroed memory (ScanStaysInBlock: it is never read).
ByteAt(block, p) == IF p \in DOMAIN block THEN block[p] ELSE NUL

\* core_state_transition: from offset p to the end of the token, which is
\* behind a comma, at the zero, or behind the character that made it invalid.
core_state_transition(block, p, track_counts) ==
    LET Scan[c \in [p : Nat, state : CORE_STATE, track : [CORE_STATE -> Nat]]] ==
            LET ch == ByteAt(block, c.p)
                t  == NextState(c.state, ch)
            IN  IF ch = NUL \/ c.state = "INVALID" THEN c
                ELSE IF ch = Comma THEN [c EXCEPT !.p = @ + 1]
                ELSE Scan[[p |-> c.p + 1, state |-> t,
                           track |-> [s \in CORE_STATE |->
                                         IF s \in Counted(c.state, t) THEN c.track[s] + 1
                                                                      ELSE c.track[s]]]]
    IN  Scan[[p |-> p, state |-> "START", track |-> track_counts]]

\* The corruption loop: `if (*p != ',') *p ^= seed` at every step-th byte.
XorEvery(block, step, seed) ==
    [i \in DOMAIN block |->
        IF i % step = 0 /\ block[i] # Comma THEN XorByte(block[i], U8(seed)) ELSE block[i]]

\* Mutant: the second loop of core_bench_state is missing.
UndoNothing(block, step, seed) == block
UndoCorruption(block, step, seed) == XorEvery(block, step, seed)

NoCounts == [s \in CORE_STATE |-> 0]

\* The final loop: both counts of every state, in the order of the enum.
CountsCrc(final, track, crc) ==
    LET c[i \in 0 .. Len(StateOrder)] ==
            IF i = 0 THEN crc
            ELSE crcu32(track[StateOrder[i]], crcu32(final[StateOrder[i]], c[i - 1]))
    IN  c[Len(StateOrder)]
=============================================================================
