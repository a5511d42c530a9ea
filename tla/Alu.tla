-------------------------------- MODULE Alu ---------------------------------
(***************************************************************************)
(* What the arithmetic, logic and shift handlers compute: results and the  *)
(* four flags the program reads back (OF, SF, ZF, CF).  AF, PF and DF are  *)
(* written by some handlers and read by none.                              *)
(* l and r are the uint16_t the handler holds: a byte read from a register *)
(* is zero-extended, a byte read from memory is sign-extended.             *)
(***************************************************************************)
EXTENDS Word16

Flags == [OF : BOOLEAN, SF : BOOLEAN, ZF : BOOLEAN, CF : BOOLEAN]

NoFlags == [OF |-> FALSE, SF |-> FALSE, ZF |-> FALSE, CF |-> FALSE]

Add(l, r) == Wrap(l + r)
Sub(l, r) == Wrap(l - r)

-----------------------------------------------------------------------------
(* Addition *)

Fits(n, lo, hi) == lo <= n /\ n <= hi

\* op_add_0: __builtin_add_overflow into an UNSIGNED result of width w.
AddFlags(l, r, w) ==
  LET res == Add(l, r) IN
  [OF |-> \/ w = 1 /\ ~Fits(l + r, 0, 65535)
          \/ w = 0 /\ ~Fits(Signed8(LowByte(l)) + Signed8(LowByte(r)), 0, 255),
   SF |-> IsNeg(res, w), ZF |-> res = 0, CF |-> l > res]

\* op_add_1: into int16_t for a register, into int8_t for memory (where the
\* immediate is taken unsigned).
AddImmFlags(inMemory, l, imm, w) ==
  LET res == Add(l, imm) IN
  [OF |-> \/  inMemory /\ ~Fits(Signed16(l) + imm, -128, 127)
          \/ ~inMemory /\ ~Fits(Signed16(l) + Signed16(imm), -32768, 32767),
   SF |-> IsNeg(res, w), ZF |-> res = 0, CF |-> res < l \/ res < imm]

(* Subtraction and comparison *)

\* op_sub_0: the sign rule of a subtraction, spelled out.
SubFlags(l, r, w) ==
  LET res == Sub(l, r) IN
  [OF |-> \/  IsNeg(l, w) /\ ~IsNeg(r, w) /\ ~IsNeg(res, w)
          \/ ~IsNeg(l, w) /\  IsNeg(r, w) /\  IsNeg(res, w),
   SF |-> IsNeg(res, w), ZF |-> res = 0, CF |-> l < r]

\* Mutation of CmpFlags: the addition rule applied to l + r.
CmpFlagsOfSum(l, r, w) ==
  LET res == Sub(l, r) IN
  [OF |-> Overflow(l, r, res, w),
   SF |-> IsNeg(res, w), ZF |-> res = 0, CF |-> l < r]

\* op_cmp_*, op_sub_1, op_sub_2: the addition rule applied to l + (-r).
CmpFlags(l, r, w) ==
  LET res == Sub(l, r) IN
  [OF |-> Overflow(l, -r, res, w),
   SF |-> IsNeg(res, w), ZF |-> res = 0, CF |-> l < r]

(* Increment, decrement, negation: C computes the flags on the promoted int *)

Largest(w) == IF w = 1 THEN 65535 ELSE 255

IncFlags(f, data, w) ==
  [OF |-> data = Largest(w),
   SF |-> IsNeg(data + 1, w), ZF |-> data + 1 = 0, CF |-> f.CF]

DecFlags(f, val) ==
  [OF |-> FALSE, SF |-> IsNeg16(val - 1), ZF |-> val - 1 = 0, CF |-> f.CF]

NegFlags(data, w) ==
  [OF |-> FALSE, SF |-> IsNeg(-data, w), ZF |-> -data = 0, CF |-> data # 0]

LogicFlags(res, w) ==
  [OF |-> FALSE, SF |-> IsNeg(res, w), ZF |-> res = 0, CF |-> FALSE]

-----------------------------------------------------------------------------
(* Shifts by count: 1 or CL.  gcc's x86 shifts take the count modulo 32. *)

\* 2 ^ n for n in 0 .. 31, from the binary digits of n.
Power(n) ==
  LET Factor(weight, factor) == IF Bit(n, weight) THEN factor ELSE 1
  IN  Factor(1, 2) * Factor(2, 4) * Factor(4, 16) * Factor(8, 256) * Factor(16, 65536)

Shl(val, count) ==
  IF count % 32 < 16 THEN Wrap(val * Power(count % 32)) ELSE 0

\* CF compares the isolated bit with 1: it is set only if the mask
\* (w ? 0x8000 : 0x80) >> (count - 1) is itself 1.
ShlFlags(val, count, w) ==
  LET res  == Shl(val, count)
      mask == (count - 1) % 32 = (IF w = 1 THEN 15 ELSE 7)
      cf   == mask /\ res % 2 = 1 IN
  [OF |-> IsNeg(res, w) # cf, SF |-> IsNeg(res, w), ZF |-> res = 0, CF |-> cf]

Smaller(m, n) == IF m < n THEN m ELSE n

SarOperand(val, w) == Signed16(IF w = 1 THEN val ELSE SignExtend16(val))

Sar(val, count, w) ==
  Wrap(SarOperand(val, w) \div Power(Smaller(count, 16)))

SarFlags(f, val, count, w) ==
  LET res     == Sar(val, count, w)
      lastOut == (SarOperand(val, w) \div Power(Smaller(count, 17) - 1)) % 2 IN
  [OF |-> f.OF /\ count # 1, SF |-> IsNeg(res, w), ZF |-> res = 0,
   CF |-> IF count = 0 THEN f.CF ELSE lastOut = 1]

-----------------------------------------------------------------------------
(* op_div, w = 1: DX:AX by d # 0, base 256, quotient truncated to uint16_t. *)

DivLong(hi, lo, d) ==
  LET t1 == Join(HighByte(lo), hi % d)
      t2 == Join(LowByte(lo), t1 % d) IN
  [q |-> Wrap(Join(t2 \div d, t1 \div d)), r |-> t2 % d]
=============================================================================
