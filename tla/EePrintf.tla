------------------------------- MODULE EePrintf -------------------------------
(***************************************************************************)
(* The log buffer of ee_printf.c: characters go in one by one and are      *)
(* dropped when the buffer is full; the final report scans it for errors.  *)
(* Characters are small numbers: ERROR and CRC stand for the words the     *)
(* scans look for, EOL for a newline, TICKS for the words before the time, *)
(* a digit for itself, PLAIN for any other text.                           *)
(***************************************************************************)
EXTENDS Integers, Sequences

CONSTANT LOG_SIZE
ASSUME LogSizeAssumption == LOG_SIZE \in Nat \ {0}

VARIABLES ee_log_buf, ee_log_len

NUL   == 0
ERROR == 1
BANG  == 2
CRC   == 3
EOL   == 4
PLAIN == 5
TICKS == 6
Digit(d) == 100 + d
Char  == (0 .. 6) \cup (100 .. 115)

LogInit ==
    /\ ee_log_buf = [i \in 0 .. LOG_SIZE - 1 |-> NUL]
    /\ ee_log_len = 0

\* Mutant: the zero is forgotten.
FitsWithoutZero(n) == n < LOG_SIZE
\* Room for one more character and the terminating zero?
Fits(n) == n + 1 < LOG_SIZE

log_putc(c) ==
    LET b == IF Fits(ee_log_len) THEN [ee_log_buf EXCEPT ![ee_log_len] = c] ELSE ee_log_buf
        n == IF Fits(ee_log_len) THEN ee_log_len + 1 ELSE ee_log_len
    IN  ee_log_buf' = [b EXCEPT ![n] = NUL] /\ ee_log_len' = n

LogNext == \E c \in Char \ {NUL} : log_putc(c)
LogSpec == LogInit /\ [][LogNext]_<<ee_log_buf, ee_log_len>>

\* The buffer always holds a string that ends inside it: no write is out of
\* bounds and the scans stop (ee_printf.c:18, :129, :145).
LogTerminated ==
    /\ ee_log_len \in 0 .. LOG_SIZE - 1
    /\ ee_log_buf[ee_log_len] = NUL
    /\ \A i \in 0 .. ee_log_len - 1 : ee_log_buf[i] # NUL

-----------------------------------------------------------------------------
\* The digits of v, the least significant first.
Digits(v, base) ==
    LET more[w \in Nat] == IF w = 0 THEN <<>> ELSE <<Digit(w % base)>> \o more[w \div base]
    IN  IF v = 0 THEN <<Digit(0)>> ELSE more[v]

\* log_putu: the characters it stores, in order
log_putu(v, base, width, pad) ==
    LET n == Len(Digits(v, base))
    IN  [i \in 1 .. (IF width > n THEN width - n ELSE 0) |-> pad]
        \o [i \in 1 .. n |-> Digits(v, base)[n + 1 - i]]

\* The string in the buffer, as the scans read it: up to the first zero.
TextLen == CHOOSE n \in DOMAIN ee_log_buf :
               ee_log_buf[n] = NUL /\ \A i \in 0 .. n - 1 : ee_log_buf[i] # NUL
Text    == 0 .. TextLen - 1

ee_log_has_error == \E i \in Text : ee_log_buf[i] = ERROR

\* Mutant: the scan for "crc" does not stop at the end of the line.
has_crc_error_any_line ==
    \E i \in Text : /\ ee_log_buf[i] = ERROR /\ ee_log_buf[i + 1] = BANG
                    /\ \E j \in i + 2 .. TextLen - 1 : ee_log_buf[j] = CRC
\* "ERROR!" and, before the end of that line, "crc".
ee_log_has_crc_error ==
    \E i \in Text : /\ ee_log_buf[i] = ERROR /\ ee_log_buf[i + 1] = BANG
                    /\ \E j \in i + 2 .. TextLen - 1 :
                           ee_log_buf[j] = CRC /\ \A m \in i .. j : ee_log_buf[m] # EOL
=============================================================================
