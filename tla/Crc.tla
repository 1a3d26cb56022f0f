--------------------------------- MODULE Crc ---------------------------------
(***************************************************************************)
(* The fixed-width integers of the C programs (ee_u8, ee_u16, ee_s16) and  *)
(* the 16-bit CRC of core_util.c, the check value of every CoreMark        *)
(* kernel.  An unsigned object holds a natural below 2^w, a signed one the *)
(* number its two's complement stands for.                                 *)
(***************************************************************************)
EXTENDS Integers

Byte   == 0 .. 255
Word16 == 0 .. 65535

U8(x)  == x % 256
U16(x) == x % 65536
S16(x) == LET u == x % 65536 IN IF u >= 32768 THEN u - 65536 ELSE u

\* x << n on a value the result still fits, x >> n, and one bit of x; \div
\* rounds down, which is the arithmetic shift of a negative number.
Shr(x, n)     == x \div 2^n
Field(x, n, w) == (x \div 2^n) % 2^w
HighByte(x)   == (x \div 256) % 256
LowByte(x)    == x % 256

\* The byte whose bits are F of the bits of two bytes; x ^ y and x | y.
PerBit(F(_, _), x, y) ==
    LET sum[i \in 0 .. 8] ==
            IF i = 0 THEN 0
            ELSE sum[i - 1] + 2^(i - 1) * F(Field(x, i - 1, 1), Field(y, i - 1, 1))
    IN  sum[8]
XorByte(x, y) == PerBit(LAMBDA a, b : (a + b) % 2, x, y)
OrByte(x, y)  == PerBit(LAMBDA a, b : IF a + b > 0 THEN 1 ELSE 0, x, y)
XorWord(x, y) ==
    256 * XorByte(HighByte(x), HighByte(y)) + XorByte(LowByte(x), LowByte(y))

\* x ^ mask for a mask of one bit
FlipBit(x, i) == IF Field(x, i, 1) = 1 THEN x - 2^i ELSE x + 2^i

-----------------------------------------------------------------------------
\* Mutant: the carry is lost.
CrcBitNoCarry(bit, crc) ==
    IF bit # crc % 2 THEN Shr(FlipBit(FlipBit(crc, 1), 14), 1)
                     ELSE Shr(crc, 1)

\* One turn of crcu8's loop: `crc ^= 0x4002` flips bits 1 and 14, and the
\* carry comes back as bit 15.
CrcBit(bit, crc) ==
    IF bit # crc % 2 THEN Shr(FlipBit(FlipBit(crc, 1), 14), 1) + 32768
                     ELSE Shr(crc, 1)

crcu8(data, crc) ==
    LET turn[x \in (0 .. 8) \X Byte \X Word16] ==
            IF x[1] = 8 THEN x[3] ELSE turn[<<x[1] + 1, Shr(x[2], 1), CrcBit(x[2] % 2, x[3])>>]
    IN  turn[<<0, data, crc>>]

crcu16(newval, crc) == crcu8(HighByte(newval), crcu8(LowByte(newval), crc))
crc16(newval, crc)  == crcu16(newval, crc)
crcu32(newval, crc) == crc16(Shr(newval, 16), crc16(U16(newval), crc))
=============================================================================
