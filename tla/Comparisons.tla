---------------------------- MODULE Comparisons -----------------------------
(***************************************************************************)
(* The interpreter and a record of the comparison its flags come from: the  *)
(* two numbers, at their width, that the last cmp, sub, neg, inc, dec or     *)
(* logic instruction related, as long as no other has overlaid its flags.    *)
(* A conditional jump is then judged by what it is for, a relation between   *)
(* two numbers, and not by the flags.                                       *)
(***************************************************************************)
EXTENDS Cpu

\* [l, r, w], and which of the three questions a jump may ask about l and r
\* the code answers rightly: their signed order, their equality, their
\* unsigned order.
VARIABLE compared

AtWidth(n, w) == IF w = 1 THEN n ELSE LowByte(n)

Comparison(l, r, w, signed, equal, unsigned) ==
  [l |-> AtWidth(l, w), r |-> AtWidth(r, w), w |-> w,
   signed |-> signed, equal |-> equal, unsigned |-> unsigned]

NoComparison == Comparison(0, 0, 1, FALSE, FALSE, FALSE)

Least(w) == IF w = 1 THEN 32768 ELSE 128

\* l - r.  A byte of memory comes sign-extended, and differs from the same byte
\* of a register.
Difference(l, r, signed) ==
  LET alike == W = 1 \/ (l < 256 /\ r < 256) IN
  Comparison(l, r, W, signed, alike, alike)

\* Computed as l + -r: the overflow is wrong when r is its own negation.
Subtraction(l, r) == Difference(l, r, AtWidth(r, W) # Least(W))

\* op_sub_0 alone takes the overflow from l, r and l - r, and rightly.
DirectSubtraction(l, r) == Difference(l, r, TRUE)

\* 0 - d.
Negation(d) == Comparison(0, d, W, AtWidth(d, W) # Least(W), TRUE, TRUE)

\* d + 1 against 0 is d against -1: wrong where the sum wraps, in sign or to 0.
\* The carry is that of an earlier instruction.
Increment(d, w) ==
  LET minusOne == AtWidth(65535, w) IN
  Comparison(d, minusOne, w, AtWidth(d, w) \notin {minusOne, Least(w) - 1},
             AtWidth(d, w) # minusOne, FALSE)

\* d - 1 against 0 is d against 1.  The sign is taken from bit 15, which the
\* byte of a register does not have.
Decrement(d, w) ==
  Comparison(d, 1, w, IF w = 1 THEN d # Least(1) ELSE d \notin 128 .. 255, TRUE, FALSE)

\* and, or, xor, test: the result against 0.
Result(res) == Comparison(res, 0, W, TRUE, W = 1 \/ res < 256, TRUE)

handler == Handler[byte1][Reg(byte2)]

ExtendedImmediate ==
  IF D = 1 /\ W = 1 THEN SignExtend16(Immediate(D)) ELSE Immediate(D)

AccumulatorForm == handler = "sub_2" \/ (handler = "cmp_2" /\ W = 1)

RegisterData == get_data(Store, RegOperand(Reg(byte2)), W)

ComparisonMade ==
  CASE handler = "cmp_0"  -> Subtraction(DwLeft, DwRight)
    [] handler = "sub_0"  -> DirectSubtraction(DwLeft, DwRight)
    [] handler = "cmp_1"  -> Subtraction(RmData, ExtendedImmediate)
    [] handler = "sub_1"  -> Subtraction(RmData, Immediate(D))
    [] AccumulatorForm    -> Subtraction(get_registers(Store, AX, W), AccImm)
    [] handler = "neg"    -> Negation(RmData)
    [] handler = "inc_0"  -> Increment(RmData, W)
    [] handler = "inc_1"  -> Increment(regs[Reg1], 1)
    [] handler = "dec_0"  -> Decrement(RmData, W)
    [] handler = "dec_1"  -> Decrement(regs[Reg1], 1)
    [] handler = "and_0"  -> Result(And(DwLeft, DwRight))
    [] handler = "or_0"   -> Result(Or(DwLeft, DwRight))
    [] handler = "xor_0"  -> Result(Xor(DwLeft, DwRight))
    [] handler = "test_0" -> Result(And(RmData, RegisterData))
    [] handler \in {"and_1", "test_1"} -> Result(And(RmData, Immediate(0)))
    [] handler = "or_1"   -> Result(Or(RmData, Immediate(0)))
    [] handler = "xor_1"  -> Result(Xor(RmData, Immediate(0)))
    [] OTHER -> IF flags' = flags THEN compared ELSE NoComparison

ComparingInit == Init /\ compared = NoComparison

ComparingNext ==
  /\ Next
  /\ compared' = IF Running THEN ComparisonMade ELSE compared

ComparingVars == <<vars, compared>>

ComparingSpec == ComparingInit /\ [][ComparingNext]_ComparingVars

-----------------------------------------------------------------------------
(* What the conditional jumps are for *)

Signed(n, w) == IF w = 1 THEN Signed16(n) ELSE Signed8(n)

Relation(b1, c) ==
  CASE b1 = 116 -> c.l = c.r                                \* je
    [] b1 = 117 -> c.l # c.r                                \* jne
    [] b1 = 114 -> c.l < c.r                                \* jb
    [] b1 = 115 -> c.l >= c.r                               \* jnb
    [] b1 = 118 -> c.l <= c.r                               \* jbe
    [] b1 = 119 -> c.l > c.r                                \* jnbe
    [] b1 = 124 -> Signed(c.l, c.w) < Signed(c.r, c.w)      \* jl
    [] b1 = 125 -> Signed(c.l, c.w) >= Signed(c.r, c.w)     \* jnl
    [] b1 = 126 -> Signed(c.l, c.w) <= Signed(c.r, c.w)     \* jle
    [] b1 = 127 -> Signed(c.l, c.w) > Signed(c.r, c.w)      \* jnle

\* The questions each jump asks.
Answered(b1, c) ==
  /\ b1 \in {124, 125, 126, 127} => c.signed
  /\ b1 \in {114, 115, 118, 119} => c.unsigned
  /\ b1 \in {116, 117, 118, 119, 126, 127} => c.equal

Judged ==
  /\ Running /\ mode = "INTERPRET"
  /\ byte1 \in (114 .. 119) \cup (124 .. 127)
  /\ Answered(byte1, compared)

Taken == PC' = Wrap(PC + 2 + SignExtend16(byte2))
NotTaken == PC' = Wrap(PC + 2)

BranchIsRight == IF Relation(byte1, compared) THEN Taken ELSE NotTaken

\* A conditional jump reached with the flags of a comparison is taken exactly
\* when the numbers compared are related as the jump says, signed or
\* unsigned, byte or word, in registers, memory or the instruction, and
\* whatever was moved, pushed or jumped over in between.  The exceptions,
\* which the code does get wrong, are those the definitions of Difference,
\* Subtraction, Negation, Increment, Decrement and Result name, and no others.
BranchesFollowComparison == [][Judged => BranchIsRight]_ComparingVars
=============================================================================
