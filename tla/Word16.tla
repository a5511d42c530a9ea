------------------------------- MODULE Word16 -------------------------------
(***************************************************************************)
(* The fixed-width integers of the interpreter: uint8_t, uint16_t, the sign *)
(* tests and extensions of include/utils.h, and the bitwise operators of C. *)
(* A byte or word is its unsigned value; int16_t is read with Signed16.     *)
(***************************************************************************)
EXTENDS Integers

UINT8_MAX  == 255
UINT16_MAX == 65535

Byte == 0 .. UINT8_MAX
Word == 0 .. UINT16_MAX

\* Mutation of Wrap: the destination is as wide as the int.
WrapInt(n) == n

\* What an assignment to uint16_t keeps of a C int.
Wrap(n) == n % 65536

LowByte(x)   == x % 256
HighByte(x)  == (x \div 256) % 256
Join(lo, hi) == lo + 256 * hi

IsNeg16(x)   == Wrap(x) >= 32768
IsNeg8(x)    == LowByte(x) >= 128
IsNeg(x, w)  == IF w = 1 THEN IsNeg16(x) ELSE IsNeg8(x)

Signed16(x)  == IF IsNeg16(x) THEN x - 65536 ELSE x
Signed8(b)   == IF IsNeg8(b) THEN b - 256 ELSE b

\* A signed char widened to 16 bits: get_memory of a byte, SIGN_EXTEND16.
SignExtend16(x) == LowByte(x) + (IF IsNeg8(x) THEN 65280 ELSE 0)

\* OVERFLOW of utils.h: the sign rule of an ADDITION left + right.
Overflow(left, right, result, w) ==
  \/ ~IsNeg(left, w) /\ ~IsNeg(right, w) /\  IsNeg(result, w)
  \/  IsNeg(left, w) /\  IsNeg(right, w) /\ ~IsNeg(result, w)

-----------------------------------------------------------------------------
(* C's  &  |  ^  on bytes and words, one bit at a time. *)

Bit(x, weight) == (x \div weight) % 2 = 1

FromBits(b128, b64, b32, b16, b8, b4, b2, b1) ==
    (IF b128 THEN 128 ELSE 0) + (IF b64 THEN 64 ELSE 0)
  + (IF b32 THEN 32 ELSE 0) + (IF b16 THEN 16 ELSE 0)
  + (IF b8 THEN 8 ELSE 0) + (IF b4 THEN 4 ELSE 0)
  + (IF b2 THEN 2 ELSE 0) + (IF b1 THEN 1 ELSE 0)

And8(x, y) == LET B(n) == Bit(x, n) /\ Bit(y, n) IN
  FromBits(B(128), B(64), B(32), B(16), B(8), B(4), B(2), B(1))
Xor8(x, y) == LET B(n) == Bit(x, n) # Bit(y, n) IN
  FromBits(B(128), B(64), B(32), B(16), B(8), B(4), B(2), B(1))

And(x, y) == Join(And8(LowByte(x), LowByte(y)), And8(HighByte(x), HighByte(y)))
Xor(x, y) == Join(Xor8(LowByte(x), LowByte(y)), Xor8(HighByte(x), HighByte(y)))
Or(x, y)  == 65535 - And(65535 - x, 65535 - y)
=============================================================================
