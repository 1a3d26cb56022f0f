------------------------------- MODULE Words -------------------------------
(***************************************************************************)
(* Machine words of XLEN bits, written as naturals.  The core has          *)
(* XLEN = 32; the width is a parameter so that TLC can enumerate whole     *)
(* operand spaces and the proofs hold for every width.                     *)
(***************************************************************************)
EXTENDS Integers

CONSTANT XLEN   \* bits in a register

\* The last three conjuncts say of 2^i what the provers have to be told.
ASSUME XLENAssumption == /\ XLEN \in Nat \ {0}
                         /\ 2^0 = 1
                         /\ \A i \in 0 .. XLEN : 2^i \in Nat \ {0}
                         /\ \A i \in 0 .. XLEN - 1 : 2^(i + 1) = 2 * 2^i

Base == 2^XLEN
Word == 0 .. Base - 1

Trunc(x)  == x % Base                      \* what a XLEN-bit assignment keeps
Not(w)    == Base - 1 - w                  \* ~w
Msb(w)    == 2 * w >= Base                 \* w[XLEN-1]
Signed(w) == IF Msb(w) THEN w - Base ELSE w

Bit(w, i)   == (w \div 2^i) % 2 = 1
Bits(w)     == {i \in 0 .. XLEN - 1 : Bit(w, i)}
\* g[0] + ... + g[n - 1].
SumBelow(g, n) == LET sum[k \in 0 .. n] == IF k = 0 THEN 0 ELSE sum[k - 1] + g[k - 1]
                  IN  sum[n]

FromBits(S) == SumBelow([i \in 0 .. XLEN - 1 |-> IF i \in S THEN 2^i ELSE 0], XLEN)

And(a, b)    == FromBits(Bits(a) \cap Bits(b))
Or(a, b)     == FromBits(Bits(a) \cup Bits(b))
Xor(a, b)    == FromBits((Bits(a) \cup Bits(b)) \ (Bits(a) \cap Bits(b)))
AndNot(a, b) == FromBits(Bits(a) \ Bits(b))

AlignDown(w, n) == w - (w % n)             \* clears the low bits below n
=============================================================================
