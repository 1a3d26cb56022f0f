------------------------------ MODULE CoreMatrix ------------------------------
(***************************************************************************)
(* core_matrix.c: the operand matrices and the four products summed into a *)
(* check value.  A matrix of dimension N is a function of 0 .. N * N - 1;  *)
(* A and B hold 16-bit numbers (MATDAT), C 32-bit ones (MATRES).           *)
(***************************************************************************)
EXTENDS Crc

\* Mutant: one row and column too many.
DimensionNext(blksize) ==
    CHOOSE n \in 1 .. blksize : (n - 1) * (n - 1) * 8 < blksize /\ n * n * 8 >= blksize
\* The largest N whose three matrices take less than blksize bytes.
Dimension(blksize) ==
    CHOOSE n \in 0 .. blksize : n * n * 8 < blksize /\ (n + 1) * (n + 1) * 8 >= blksize

Cells(N) == 0 .. N * N - 1
Row(N, i) == i \div N
Col(N, i) == i % N

\* core_init_matrix, one turn of its loops: cell i of both matrices, from the
\* pseudo-random sequence the seed of the turn before continues.
NextSeed(i, seed) == ((i + 1) * seed) % 65536
InitCell(m, i, seed) ==
    LET val == NextSeed(i, seed) + i + 1
    IN  [m EXCEPT !.B[i] = S16(val), !.A[i] = LowByte(val + i + 1)]

matrix_add_const(A, val) == [i \in DOMAIN A |-> S16(A[i] + val)]
matrix_big(val)          == S16(61440 + val)        \* 0xf000 | val, for a byte

\* The sum of f over 0 .. N - 1.
Dot(N, f(_)) == LET s[k \in 0 .. N] == IF k = 0 THEN 0 ELSE s[k - 1] + f(k - 1) IN s[N]

matrix_mul_const(A, val) == [i \in DOMAIN A |-> A[i] * val]
\* only the first N cells of C are written
matrix_mul_vect(N, C, A, B) ==
    [i \in DOMAIN C |-> IF i < N THEN Dot(N, LAMBDA j : A[i * N + j] * B[j]) ELSE C[i]]
matrix_mul_matrix(N, A, B) ==
    [c \in Cells(N) |-> Dot(N, LAMBDA k : A[Row(N, c) * N + k] * B[k * N + Col(N, c)])]
BitExtract(x) == Field(x, 2, 4) * Field(x, 5, 7)
matrix_mul_matrix_bitextract(N, A, B) ==
    [c \in Cells(N) |->
        Dot(N, LAMBDA k : BitExtract(A[Row(N, c) * N + k] * B[k * N + Col(N, c)]))]

\* matrix_sum: ten for every overrun of clipval, one for every rise.
matrix_sum(C, n, clipval) ==
    LET s[k \in 0 .. n] ==
            IF k = 0 THEN [ret |-> 0, tmp |-> 0, prev |-> 0]
            ELSE LET t   == s[k - 1]
                     cur == C[k - 1]
                 IN  IF t.tmp + cur > clipval
                     THEN [ret |-> t.ret + 10, tmp |-> 0, prev |-> cur]
                     ELSE [ret |-> t.ret + (IF cur > t.prev THEN 1 ELSE 0),
                           tmp |-> t.tmp + cur, prev |-> cur]
    IN  U16(s[n].ret)

\* matrix_test: the check value, and A as it is left behind.
TestCrc(N, A, B, val) ==
    LET clip == matrix_big(val)
        n    == N * N
        C1   == matrix_mul_const(A, val)
        c1   == crc16(matrix_sum(C1, n, clip), 0)
        c2   == crc16(matrix_sum(matrix_mul_vect(N, C1, A, B), n, clip), c1)
        c3   == crc16(matrix_sum(matrix_mul_matrix(N, A, B), n, clip), c2)
    IN  crc16(matrix_sum(matrix_mul_matrix_bitextract(N, A, B), n, clip), c3)
\* Mutant: what was added is not taken off again.
matrix_test_no_restore(m, val) ==
    LET A == matrix_add_const(m.A, val)
    IN  [crc |-> TestCrc(m.N, A, m.B, val), A |-> A]
matrix_test(m, val) ==
    LET A == matrix_add_const(m.A, val)
    IN  [crc |-> TestCrc(m.N, A, m.B, val), A |-> matrix_add_const(A, -val)]

core_bench_matrix(m, seed, crc) ==
    LET t == matrix_test(m, seed) IN [crc |-> crc16(t.crc, crc), A |-> t.A]
=============================================================================
