--------------------------- MODULE MachineProofs ----------------------------
(***************************************************************************)
(* The data side of the interpreter: words and their halves, results and    *)
(* flags of the arithmetic (what cmp and sub tell a conditional jump, for   *)
(* all words), and a store that stays well typed under every access of      *)
(* utils.c and changes under a push only where it is pushed to.             *)
(* A literal bound such as 65535 is kept out of the goals the SMT solver    *)
(* sees inside a range: WordDef and ByteDef say what the ranges mean.       *)
(***************************************************************************)
EXTENDS Machine, Alu, WellFoundedInduction, TLAPS

\* A set of numbers has a least one.
LEMMA LeastElement ==
  ASSUME NEW S \in SUBSET Nat, S # {} PROVE \E x \in S : \A y \in S : x <= y
<1>1. \E R : IsWellFoundedOn(R, Nat) /\ R = {p \in Nat \X Nat : p[1] < p[2]}
  BY NatLessThanWellFounded, Zenon DEF OpToRel
<1>2. PICK R : IsWellFoundedOn(R, Nat) /\ R = {p \in Nat \X Nat : p[1] < p[2]}
  BY <1>1
<1>3. \E x \in S : \A y \in S : ~(<<y, x>> \in R)
  BY <1>2, WFMin
<1>4. ASSUME NEW x \in S, NEW y \in S PROVE <<y, x>> \in R <=> y < x
  BY <1>2
<1>5. \E x \in S : \A y \in S : ~(y < x)
  BY <1>3, <1>4, Zenon
<1>6. ASSUME NEW x \in S, NEW y \in S, ~(y < x) PROVE x <= y
  <2>1. x \in Nat /\ y \in Nat
    OBVIOUS
  <2> QED
    BY <1>6, <2>1
<1> QED
  BY <1>5, <1>6, Zenon

-----------------------------------------------------------------------------
(* Types of the operators of Word16 *)

\* A word is an integer that fits in a uint16_t.
LEMMA WordDef == \A n : n \in Word <=> n \in Int /\ 0 <= n /\ n <= 65535
<1>1. UINT16_MAX \in Int
  BY DEF UINT16_MAX
<1>2. \A n : n \in Word <=> n \in Int /\ 0 <= n /\ n <= UINT16_MAX
  BY <1>1 DEF Word
<1> QED
  BY <1>2 DEF UINT16_MAX

\* A byte is an integer that fits in a uint8_t.
LEMMA ByteDef == \A n : n \in Byte <=> n \in Int /\ 0 <= n /\ n <= 255
  BY DEF Byte, UINT8_MAX

\* A byte zero-extended is a word.
LEMMA ByteIsWord == Byte \subseteq Word
  BY ByteDef, WordDef

\* An assignment to a uint16_t keeps a word.
LEMMA WrapType == ASSUME NEW n \in Int PROVE Wrap(n) \in Word
  BY WordDef DEF Wrap

\* Both halves of an integer are bytes.
LEMMA HalvesType ==
  ASSUME NEW n \in Int PROVE LowByte(n) \in Byte /\ HighByte(n) \in Byte
  BY ByteDef DEF LowByte, HighByte

\* Two bytes make a word.
LEMMA JoinType ==
  ASSUME NEW lo \in Byte, NEW hi \in Byte PROVE Join(lo, hi) \in Word
  BY ByteDef, WordDef DEF Join

\* A sign-extended byte is a word.
LEMMA SignExtendType == ASSUME NEW n \in Int PROVE SignExtend16(n) \in Word
  BY WordDef DEF SignExtend16, LowByte, IsNeg8

\* The signed reading of a word is an int16_t.
LEMMA SignedType ==
  ASSUME NEW n \in Word
  PROVE  Signed16(n) \in Int /\ -32768 <= Signed16(n) /\ Signed16(n) <= 32767
  BY WordDef DEF Signed16, IsNeg16, Wrap

\* A sign test is a truth value.
LEMMA IsNegType == ASSUME NEW n \in Int, NEW w PROVE IsNeg(n, w) \in BOOLEAN
<1>1. IsNeg8(n) \in BOOLEAN /\ IsNeg16(n) \in BOOLEAN
  BY DEF IsNeg8, IsNeg16
<1>2. CASE w = 1
  BY <1>1, <1>2 DEF IsNeg
<1>3. CASE w # 1
  BY <1>1, <1>3 DEF IsNeg
<1> QED
  BY <1>2, <1>3

\* Eight bits make a byte.
LEMMA FromBitsType ==
  ASSUME NEW b128, NEW b64, NEW b32, NEW b16, NEW b8, NEW b4, NEW b2, NEW b1
  PROVE  FromBits(b128, b64, b32, b16, b8, b4, b2, b1) \in Byte
  BY ByteDef DEF FromBits

\* The bitwise operators make words.
LEMMA BitwiseType ==
  ASSUME NEW x, NEW y
  PROVE  And(x, y) \in Word /\ Xor(x, y) \in Word /\ Or(x, y) \in Word
<1>1. ASSUME NEW u, NEW v PROVE And8(u, v) \in Byte /\ Xor8(u, v) \in Byte
  BY FromBitsType DEF And8, Xor8
<1>2. ASSUME NEW u, NEW v PROVE And(u, v) \in Word /\ Xor(u, v) \in Word
  BY <1>1, JoinType DEF And, Xor
<1>3. And(65535 - x, 65535 - y) \in Word
  BY <1>2
<1>4. Or(x, y) \in Word
  BY <1>3, WordDef DEF Or
<1> QED
  BY <1>2, <1>4

\* A power of two is a positive number.
LEMMA PowerType == ASSUME NEW n \in Nat PROVE Power(n) \in Nat /\ Power(n) > 0
  BY DEF Power, Bit

\* C's division of integers by a positive one.
LEMMA DivisionType ==
  ASSUME NEW a \in Int, NEW b \in Nat, b > 0
  PROVE  /\ a \div b \in Int /\ a % b \in Int
         /\ 0 <= a % b /\ a % b < b
         /\ a \in Nat => a \div b \in Nat
  OBVIOUS

-----------------------------------------------------------------------------
(* Types of the results and flags of Alu *)

\* Four truth values make a flag record.
LEMMA FlagsRecord ==
  ASSUME NEW o \in BOOLEAN, NEW s \in BOOLEAN, NEW z \in BOOLEAN, NEW c \in BOOLEAN
  PROVE  [OF |-> o, SF |-> s, ZF |-> z, CF |-> c] \in Flags
  BY DEF Flags

\* The flags g_flags starts with.
LEMMA NoFlagsType == NoFlags \in Flags
  BY FlagsRecord DEF NoFlags

\* Results of the additions and subtractions.
LEMMA SumType ==
  ASSUME NEW l \in Word, NEW r \in Word PROVE Add(l, r) \in Word /\ Sub(l, r) \in Word
  BY WrapType, WordDef DEF Add, Sub

\* The flags of an addition are truth values.
LEMMA AddFlagsType ==
  ASSUME NEW l \in Word, NEW r \in Word, NEW w, NEW m
  PROVE  AddFlags(l, r, w) \in Flags /\ AddImmFlags(m, l, r, w) \in Flags
<1>1. l \in Int /\ r \in Int /\ Add(l, r) \in Int
  BY WordDef, SumType
<1>2. IsNeg(Add(l, r), w) \in BOOLEAN
  BY <1>1, IsNegType
<1>3. (Add(l, r) = 0) \in BOOLEAN /\ (l > Add(l, r)) \in BOOLEAN
  BY <1>1
<1> DEFINE o1 == \/ w = 1 /\ ~Fits(l + r, 0, 65535)
                 \/ w = 0 /\ ~Fits(Signed8(LowByte(l)) + Signed8(LowByte(r)), 0, 255)
           o2 == \/  m /\ ~Fits(Signed16(l) + r, -128, 127)
                 \/ ~m /\ ~Fits(Signed16(l) + Signed16(r), -32768, 32767)
           c2 == Add(l, r) < l \/ Add(l, r) < r
<1>4. o1 \in BOOLEAN /\ o2 \in BOOLEAN /\ c2 \in BOOLEAN
  OBVIOUS
<1>5. AddFlags(l, r, w) = [OF |-> o1, SF |-> IsNeg(Add(l, r), w),
                           ZF |-> Add(l, r) = 0, CF |-> l > Add(l, r)]
  BY DEF AddFlags
<1>6. AddImmFlags(m, l, r, w) = [OF |-> o2, SF |-> IsNeg(Add(l, r), w),
                                 ZF |-> Add(l, r) = 0, CF |-> c2]
  BY DEF AddImmFlags
<1> DEFINE n == IsNeg(Add(l, r), w)  z == Add(l, r) = 0  c1 == l > Add(l, r)
<1>7. n \in BOOLEAN /\ z \in BOOLEAN /\ c1 \in BOOLEAN
  BY <1>2, <1>3
<1> HIDE DEF o1, o2, c1, c2, n, z
<1>8. [OF |-> o1, SF |-> n, ZF |-> z, CF |-> c1] \in Flags
  BY <1>4, <1>7, FlagsRecord
<1>9. [OF |-> o2, SF |-> n, ZF |-> z, CF |-> c2] \in Flags
  BY <1>4, <1>7, FlagsRecord
<1> QED
  BY <1>5, <1>6, <1>8, <1>9 DEF c1, n, z

\* The flags of a subtraction or a comparison are truth values.
LEMMA SubFlagsType ==
  ASSUME NEW l \in Word, NEW r \in Word, NEW w
  PROVE  SubFlags(l, r, w) \in Flags /\ CmpFlags(l, r, w) \in Flags
<1>1. l \in Int /\ r \in Int /\ Sub(l, r) \in Int
  BY WordDef, SumType
<1>2. IsNeg(Sub(l, r), w) \in BOOLEAN
  BY <1>1, IsNegType
<1>3. (Sub(l, r) = 0) \in BOOLEAN /\ (l < r) \in BOOLEAN
  BY <1>1
<1>4. (\/  IsNeg(l, w) /\ ~IsNeg(r, w) /\ ~IsNeg(Sub(l, r), w)
       \/ ~IsNeg(l, w) /\  IsNeg(r, w) /\  IsNeg(Sub(l, r), w)) \in BOOLEAN
  OBVIOUS
<1>5. Overflow(l, -r, Sub(l, r), w) \in BOOLEAN
  BY DEF Overflow
<1> QED
  BY <1>2, <1>3, <1>4, <1>5, FlagsRecord DEF SubFlags, CmpFlags

\* The flags of the one-operand and logic instructions are truth values.
LEMMA UnaryFlagsType ==
  ASSUME NEW f \in Flags, NEW x \in Word, NEW w
  PROVE  /\ IncFlags(f, x, w) \in Flags
         /\ DecFlags(f, x) \in Flags
         /\ NegFlags(x, w) \in Flags
         /\ LogicFlags(x, w) \in Flags
<1>1. x \in Int /\ x + 1 \in Int /\ x - 1 \in Int /\ -x \in Int
  BY WordDef
<1>2. /\ IsNeg(x + 1, w) \in BOOLEAN /\ IsNeg(-x, w) \in BOOLEAN
      /\ IsNeg(x, w) \in BOOLEAN /\ IsNeg16(x - 1) \in BOOLEAN
  BY <1>1, IsNegType DEF IsNeg16
<1>3. (x = Largest(w)) \in BOOLEAN
  OBVIOUS
<1>4. /\ (x + 1 = 0) \in BOOLEAN /\ (x - 1 = 0) \in BOOLEAN /\ (-x = 0) \in BOOLEAN
      /\ (x # 0) \in BOOLEAN /\ (x = 0) \in BOOLEAN
  OBVIOUS
<1>5. f.CF \in BOOLEAN
  BY DEF Flags
<1>6. IncFlags(f, x, w) \in Flags
  BY <1>2, <1>3, <1>4, <1>5, FlagsRecord DEF IncFlags
<1>8. DecFlags(f, x) \in Flags
  BY <1>2, <1>4, <1>5, FlagsRecord DEF DecFlags
<1>7. NegFlags(x, w) \in Flags /\ LogicFlags(x, w) \in Flags
  BY <1>2, <1>4, FlagsRecord DEF NegFlags, LogicFlags
<1> QED
  BY <1>6, <1>7, <1>8

\* Shifts make words and flags.
LEMMA ShiftType ==
  ASSUME NEW f \in Flags, NEW x \in Word, NEW n \in Byte, NEW w
  PROVE  /\ Shl(x, n) \in Word /\ ShlFlags(x, n, w) \in Flags
         /\ Sar(x, n, w) \in Word /\ SarFlags(f, x, n, w) \in Flags
<1>1. x \in Int /\ n \in Nat /\ n % 32 \in Nat
  BY WordDef, ByteDef
<1>2. Shl(x, n) \in Word
  <2>1. x * Power(n % 32) \in Int
    BY <1>1, PowerType
  <2>2. Wrap(x * Power(n % 32)) \in Word /\ 0 \in Word
    BY <2>1, WrapType, WordDef
  <2> QED
    BY <2>2 DEF Shl
<1>3. ShlFlags(x, n, w) \in Flags
  <2>1. Shl(x, n) \in Int
    BY <1>2, WordDef
  <2>2. IsNeg(Shl(x, n), w) \in BOOLEAN
    BY <2>1, IsNegType
  <2> DEFINE cf == ((n - 1) % 32 = (IF w = 1 THEN 15 ELSE 7)) /\ Shl(x, n) % 2 = 1
  <2>3. cf \in BOOLEAN /\ (IsNeg(Shl(x, n), w) # cf) \in BOOLEAN
        /\ (Shl(x, n) = 0) \in BOOLEAN
    BY Zenon
  <2> QED
    BY <2>2, <2>3, FlagsRecord DEF ShlFlags
<1>4. SarOperand(x, w) \in Int
  <2>1. (IF w = 1 THEN x ELSE SignExtend16(x)) \in Word
    BY <1>1, SignExtendType
  <2> QED
    BY <2>1, SignedType DEF SarOperand
<1>5. Sar(x, n, w) \in Word
  <2>1. Smaller(n, 16) \in Nat
    BY <1>1 DEF Smaller
  <2>2. SarOperand(x, w) \div Power(Smaller(n, 16)) \in Int
    BY <2>1, <1>4, PowerType, DivisionType
  <2> QED
    BY <2>2, WrapType DEF Sar
<1>6. SarFlags(f, x, n, w) \in Flags
  <2> DEFINE lastOut == (SarOperand(x, w) \div Power(Smaller(n, 17) - 1)) % 2
  <2>1. IsNeg(Sar(x, n, w), w) \in BOOLEAN
    BY <1>5, WordDef, IsNegType
  <2>2. (f.OF /\ n # 1) \in BOOLEAN /\ (Sar(x, n, w) = 0) \in BOOLEAN
    OBVIOUS
  <2>3. (IF n = 0 THEN f.CF ELSE lastOut = 1) \in BOOLEAN
    <3>1. CASE n = 0
      BY <3>1 DEF Flags
    <3>2. CASE n # 0
      BY <3>2, Zenon
    <3> QED
      BY <3>1, <3>2
  <2> QED
    BY <2>1, <2>2, <2>3, FlagsRecord DEF SarFlags
<1> QED
  BY <1>2, <1>3, <1>5, <1>6

\* The quotient and the remainder of a long division are words.
LEMMA DivLongType ==
  ASSUME NEW hi \in Word, NEW lo \in Word, NEW d \in Word, d # 0
  PROVE  DivLong(hi, lo, d).q \in Word /\ DivLong(hi, lo, d).r \in Word
<1> DEFINE t1 == Join(HighByte(lo), hi % d)
           t2 == Join(LowByte(lo), t1 % d)
<1>1. d \in Nat /\ d > 0 /\ d <= 65535 /\ hi \in Nat /\ lo \in Nat
  BY WordDef
<1>2. t1 \in Nat
  BY <1>1, DivisionType, HalvesType, ByteDef DEF Join
<1>3. t1 % d \in Nat /\ t1 \div d \in Nat
  BY <1>1, <1>2, DivisionType
<1> HIDE DEF t1
<1>4. t2 \in Nat
  BY <1>1, <1>3, HalvesType, ByteDef DEF Join
<1> HIDE DEF t2
<1>5. t2 % d \in Word /\ t2 \div d \in Nat
  BY <1>1, <1>4, DivisionType, WordDef
<1>6. Wrap(Join(t2 \div d, t1 \div d)) \in Word
  BY <1>3, <1>5, WrapType DEF Join
<1>7. DivLong(hi, lo, d) = [q |-> Wrap(Join(t2 \div d, t1 \div d)), r |-> t2 % d]
  BY DEF DivLong, t1, t2
<1> QED
  BY <1>5, <1>6, <1>7

-----------------------------------------------------------------------------
(* What the operators of Word16 and Alu compute *)

\* Quotient and remainder are the only numbers that divide.
LEMMA DivisionUnique ==
  ASSUME NEW a \in Int, NEW d \in Nat, d > 0, NEW q \in Int, NEW r \in Int,
         a = d * q + r, 0 <= r, r < d
  PROVE  q = a \div d /\ r = a % d
<1> DEFINE q2 == a \div d
           r2 == a % d
<1>1. q2 \in Int /\ r2 \in Int /\ 0 <= r2 /\ r2 < d /\ a = d * q2 + r2
  OBVIOUS
<1> HIDE DEF q2, r2
<1>2. d * (q - q2) = r2 - r
  BY <1>1
<1> DEFINE x == q - q2
<1>3. x \in Int /\ d * x = r2 - r
  BY <1>1, <1>2
<1> HIDE DEF x
<1>4. ~(x >= 1)
  <2>1. SUFFICES ASSUME x >= 1 PROVE FALSE
    OBVIOUS
  <2>2. d * x >= d
    BY <1>3, <2>1
  <2> QED
    BY <1>1, <1>3, <2>2
<1>5. ~(x <= -1)
  <2>1. SUFFICES ASSUME x <= -1 PROVE FALSE
    OBVIOUS
  <2>2. d * x <= -d
    BY <1>3, <2>1
  <2> QED
    BY <1>1, <1>3, <2>2
<1>6. x = 0
  BY <1>3, <1>4, <1>5
<1>7. q = q2 /\ d * x = 0
  BY <1>1, <1>6 DEF x
<1>8. r = r2
  BY <1>1, <1>3, <1>7
<1> QED
  BY <1>7, <1>8 DEF q2, r2

\* div in base 256, digit by digit, divides DX:AX: AX takes the low word of
\* the quotient, DX the remainder.
THEOREM LongDivisionExact ==
  ASSUME NEW hi \in Word, NEW lo \in Word, NEW d \in Word, d # 0
  PROVE  LET n == 65536 * hi + lo IN
         /\ DivLong(hi, lo, d).q = Wrap(n \div d)
         /\ DivLong(hi, lo, d).r = n % d
<1> DEFINE n  == 65536 * hi + lo
           h  == HighByte(lo)
           l  == LowByte(lo)
           t1 == Join(h, hi % d)
           t2 == Join(l, t1 % d)
           q0 == hi \div d
           r0 == hi % d
           q1 == t1 \div d
           r1 == t1 % d
           q2 == t2 \div d
           r2 == t2 % d
<1>1. /\ d \in Nat /\ d > 0 /\ hi \in Nat /\ lo \in Nat
      /\ h \in Nat /\ l \in Nat /\ lo = 256 * h + l
  BY WordDef DEF HighByte, LowByte
<1>2. q0 \in Nat /\ r0 \in Nat /\ hi = d * q0 + r0
  BY <1>1, DivisionType
<1>3. t1 = 256 * r0 + h
  BY <1>1, <1>2 DEF Join
<1> HIDE DEF h, l, q0, r0, t1
<1>4. q1 \in Nat /\ r1 \in Nat /\ t1 = d * q1 + r1
  BY <1>1, <1>2, <1>3, DivisionType
<1>5. t2 = 256 * r1 + l
  BY <1>1, <1>4 DEF Join
<1> HIDE DEF q1, r1, t2
<1>6. q2 \in Nat /\ r2 \in Nat /\ r2 < d /\ t2 = d * q2 + r2
  BY <1>1, <1>4, <1>5, DivisionType
<1> HIDE DEF q2, r2
<1> DEFINE q == 65536 * q0 + 256 * q1 + q2
<1>7. n = d * q + r2
  <2>1. n = 65536 * (d * q0) + 65536 * r0 + 256 * h + l
    BY <1>1, <1>2
  <2>2. 65536 * r0 + 256 * h = 256 * (d * q1) + 256 * r1
    BY <1>1, <1>2, <1>3, <1>4
  <2>3. 256 * r1 + l = d * q2 + r2
    BY <1>5, <1>6
  <2>4. d * q = 65536 * (d * q0) + 256 * (d * q1) + d * q2
    BY <1>1, <1>2, <1>4, <1>6
  <2> HIDE DEF n, q
  <2> QED
    BY <1>1, <1>2, <1>4, <1>6, <2>1, <2>2, <2>3, <2>4
<1>8. n \in Int /\ q \in Int
  BY <1>1, <1>2, <1>4, <1>6
<1> HIDE DEF n, q
<1>9. q = n \div d /\ r2 = n % d
  BY <1>1, <1>6, <1>7, <1>8, DivisionUnique
<1>10. DivLong(hi, lo, d) = [q |-> Wrap(Join(q2, q1)), r |-> r2]
  BY DEF DivLong, t1, t2, h, l, q1, r1, q2, r2, r0
<1>11. Wrap(Join(q2, q1)) = Wrap(q)
  BY <1>2, <1>4, <1>6 DEF Join, Wrap, q
<1> QED
  BY <1>9, <1>10, <1>11 DEF n

Weights == {1, 2, 4, 8, 16, 32, 64, 128}

\* The lower eight bits of a word are those of its low byte, the upper eight
\* those of its high byte.
LEMMA BitsOfWord ==
  ASSUME NEW lo \in Byte, NEW hi \in Byte, NEW n \in Weights
  PROVE  /\ Bit(Join(lo, hi), n) <=> Bit(lo, n)
         /\ Bit(Join(lo, hi), 256 * n) <=> Bit(hi, n)
<1>1. lo \in Int /\ 0 <= lo /\ lo <= 255 /\ hi \in Int /\ 0 <= hi /\ hi <= 255
  BY ByteDef
<1>2. SUFFICES /\ ((lo + 256 * hi) \div n) % 2 = (lo \div n) % 2
               /\ ((lo + 256 * hi) \div (256 * n)) % 2 = (hi \div n) % 2
  BY DEF Join, Bit
<1>3. CASE n = 1
  BY <1>1, <1>3
<1>4. CASE n = 2
  BY <1>1, <1>4
<1>5. CASE n = 4
  BY <1>1, <1>5
<1>6. CASE n = 8
  BY <1>1, <1>6
<1>7. CASE n = 16
  BY <1>1, <1>7
<1>8. CASE n = 32
  BY <1>1, <1>8
<1>9. CASE n = 64
  BY <1>1, <1>9
<1>10. CASE n = 128
  BY <1>1, <1>10
<1> QED
  BY <1>3, <1>4, <1>5, <1>6, <1>7, <1>8, <1>9, <1>10 DEF Weights

LEMMA BitsOfHalves ==
  ASSUME NEW x \in Word, NEW n \in Weights
  PROVE  /\ Bit(x, n) <=> Bit(LowByte(x), n)
         /\ Bit(x, 256 * n) <=> Bit(HighByte(x), n)
<1>1. x \in Int /\ 0 <= x /\ x <= 65535
  BY WordDef
<1>2. LowByte(x) \in Byte /\ HighByte(x) \in Byte
  BY <1>1, HalvesType
<1>3. x = Join(LowByte(x), HighByte(x))
  BY <1>1 DEF LowByte, HighByte, Join
<1> QED
  BY <1>2, <1>3, BitsOfWord

\* The complement of a word has the bits the word has not.
LEMMA BitsOfComplement ==
  ASSUME NEW x \in Word, NEW n \in Weights
  PROVE  /\ 65535 - x \in Word
         /\ Bit(65535 - x, n) <=> ~Bit(x, n)
         /\ Bit(65535 - x, 256 * n) <=> ~Bit(x, 256 * n)
<1>1. x \in Int /\ 0 <= x /\ x <= 65535
  BY WordDef
<1>2. 65535 - x \in Word
  BY <1>1, WordDef
<1>3. /\ Bit(65535 - x, n) <=> ~Bit(x, n)
      /\ Bit(65535 - x, 256 * n) <=> ~Bit(x, 256 * n)
  BY <1>1 DEF Weights, Bit
<1> QED
  BY <1>2, <1>3

\* And8 and Xor8, bit by bit.
LEMMA ByteBits ==
  ASSUME NEW x, NEW y, NEW n \in Weights
  PROVE  /\ And8(x, y) \in Byte /\ Xor8(x, y) \in Byte
         /\ Bit(And8(x, y), n) <=> Bit(x, n) /\ Bit(y, n)
         /\ Bit(Xor8(x, y), n) <=> (Bit(x, n) # Bit(y, n))
<1>1. And8(x, y) \in Byte /\ Xor8(x, y) \in Byte
  BY FromBitsType DEF And8, Xor8
<1>2. Bit(And8(x, y), n) <=> Bit(x, n) /\ Bit(y, n)
  BY DEF Weights, And8, FromBits, Bit
<1>3. Bit(Xor8(x, y), n) <=> (Bit(x, n) # Bit(y, n))
  BY DEF Weights, Xor8, FromBits, Bit
<1> QED
  BY <1>1, <1>2, <1>3

\* The bitwise operators of C on words, bit by bit.
THEOREM BitwiseExact ==
  ASSUME NEW x \in Word, NEW y \in Word, NEW k \in Weights, NEW n \in {k, 256 * k}
  PROVE  /\ Bit(And(x, y), n) <=> Bit(x, n) /\ Bit(y, n)
         /\ Bit(Or(x, y), n) <=> Bit(x, n) \/ Bit(y, n)
         /\ Bit(Xor(x, y), n) <=> (Bit(x, n) # Bit(y, n))
<1>1. ASSUME NEW u \in Word, NEW v \in Word
      PROVE  /\ Bit(And(u, v), n) <=> Bit(u, n) /\ Bit(v, n)
             /\ Bit(Xor(u, v), n) <=> (Bit(u, n) # Bit(v, n))
  <2> DEFINE ul == LowByte(u)
             uh == HighByte(u)
             vl == LowByte(v)
             vh == HighByte(v)
             a  == And(u, v)
             b  == Xor(u, v)
             al == And8(ul, vl)
             ah == And8(uh, vh)
             bl == Xor8(ul, vl)
             bh == Xor8(uh, vh)
             m  == 256 * k
  <2>1. /\ Bit(u, k) <=> Bit(ul, k)
        /\ Bit(u, m) <=> Bit(uh, k)
        /\ Bit(v, k) <=> Bit(vl, k)
        /\ Bit(v, m) <=> Bit(vh, k)
    BY BitsOfHalves
  <2>2. a = Join(al, ah) /\ b = Join(bl, bh)
    BY DEF And, Xor
  <2>3. /\ Bit(al, k) <=> Bit(ul, k) /\ Bit(vl, k)
        /\ Bit(ah, k) <=> Bit(uh, k) /\ Bit(vh, k)
    BY ByteBits
  <2>4. /\ Bit(bl, k) <=> (Bit(ul, k) # Bit(vl, k))
        /\ Bit(bh, k) <=> (Bit(uh, k) # Bit(vh, k))
    BY ByteBits
  <2>5. al \in Byte /\ ah \in Byte /\ bl \in Byte /\ bh \in Byte
    BY ByteBits
  <2> HIDE DEF ul, uh, vl, vh, a, b, al, ah, bl, bh
  <2>6. /\ Bit(a, k) <=> Bit(al, k)
        /\ Bit(a, m) <=> Bit(ah, k)
        /\ Bit(b, k) <=> Bit(bl, k)
        /\ Bit(b, m) <=> Bit(bh, k)
    BY <2>2, <2>5, BitsOfWord
  <2>7. n = k \/ n = m
    OBVIOUS
  <2> HIDE DEF m
  <2>8. /\ Bit(a, n) <=> Bit(u, n) /\ Bit(v, n)
        /\ Bit(b, n) <=> (Bit(u, n) # Bit(v, n))
    BY <2>1, <2>3, <2>4, <2>6, <2>7 DEF Bit
  <2> QED
    BY <2>8 DEF a, b
<1> DEFINE cx == 65535 - x
           cy == 65535 - y
           both == And(cx, cy)
<1>2. /\ cx \in Word /\ cy \in Word
      /\ Bit(cx, n) <=> ~Bit(x, n)
      /\ Bit(cy, n) <=> ~Bit(y, n)
  BY BitsOfComplement
<1>3. Or(x, y) = 65535 - both /\ both \in Word
  BY BitwiseType DEF Or
<1>4. Bit(Or(x, y), n) <=> ~Bit(both, n)
  BY <1>3, BitsOfComplement
<1> HIDE DEF cx, cy
<1>5. Bit(both, n) <=> Bit(cx, n) /\ Bit(cy, n)
  BY <1>1, <1>2
<1> HIDE DEF both
<1>6. Bit(Or(x, y), n) <=> Bit(x, n) \/ Bit(y, n)
  BY <1>2, <1>4, <1>5 DEF Bit
<1> QED
  BY <1>1, <1>6

\* The weights of Bit are the powers of two a shift multiplies by.
THEOREM PowerExact ==
  /\ Power(0) = 1
  /\ \A n \in 0 .. 30 : Power(n + 1) = 2 * Power(n)
<1>1. Power(0) = 1
  BY DEF Power, Bit
<1>2. ASSUME NEW n \in 0 .. 30 PROVE Power(n + 1) = 2 * Power(n)
  BY DEF Power, Bit
<1> QED
  BY <1>1, <1>2

\* The carry of an addition of words, which op_add_0 takes from the left operand
\* and op_add_1 from either: both find it whatever the operands.
THEOREM AddCarryExact ==
  ASSUME NEW l \in Word, NEW r \in Word, NEW inMemory
  PROVE  /\ AddFlags(l, r, 1).CF <=> l + r > 65535
         /\ AddImmFlags(inMemory, l, r, 1).CF <=> l + r > 65535
<1> DEFINE res == Add(l, r)
<1>1. /\ l \in Int /\ 0 <= l /\ l <= 65535
      /\ r \in Int /\ 0 <= r /\ r <= 65535
  BY WordDef
<1>2. res = IF l + r > 65535 THEN l + r - 65536 ELSE l + r
  BY <1>1 DEF Add, Wrap
<1> DEFINE o1 == \/ 1 = 1 /\ ~Fits(l + r, 0, 65535)
                 \/ 1 = 0 /\ ~Fits(Signed8(LowByte(l)) + Signed8(LowByte(r)), 0, 255)
           o2 == \/  inMemory /\ ~Fits(Signed16(l) + r, -128, 127)
                 \/ ~inMemory /\ ~Fits(Signed16(l) + Signed16(r), -32768, 32767)
           n  == IsNeg(res, 1)
           z  == res = 0
           c1 == l > res
           c2 == res < l \/ res < r
<1>3. /\ AddFlags(l, r, 1) = [OF |-> o1, SF |-> n, ZF |-> z, CF |-> c1]
      /\ AddImmFlags(inMemory, l, r, 1) = [OF |-> o2, SF |-> n, ZF |-> z, CF |-> c2]
  BY DEF AddFlags, AddImmFlags
<1> HIDE DEF o1, o2, n, z, c1, c2
<1>4. AddFlags(l, r, 1).CF = c1 /\ AddImmFlags(inMemory, l, r, 1).CF = c2
  BY <1>3
<1> HIDE DEF res
<1>5. /\ l > res <=> l + r > 65535
      /\ res < l \/ res < r <=> l + r > 65535
  BY <1>1, <1>2
<1>6. (c1 <=> l + r > 65535) /\ (c2 <=> l + r > 65535)
  BY <1>5 DEF c1, c2
<1> QED
  BY <1>4, <1>6

-----------------------------------------------------------------------------
(* What the flags of a subtraction say of its operands *)

\* After SUB of two words the flags decide every relation the conditional
\* jumps test: ZF is equality, CF the unsigned order, SF # OF the signed one.
THEOREM SubFlagsExact ==
  ASSUME NEW l \in Word, NEW r \in Word
  PROVE  /\ SubFlags(l, r, 1).ZF <=> l = r
         /\ SubFlags(l, r, 1).CF <=> l < r
         /\ (SubFlags(l, r, 1).SF # SubFlags(l, r, 1).OF) <=> Signed16(l) < Signed16(r)
<1>1. l \in Int /\ r \in Int /\ 0 <= l /\ l <= 65535 /\ 0 <= r /\ r <= 65535
  BY WordDef
<1> DEFINE res == Sub(l, r)
<1>2. res = (IF l < r THEN l - r + 65536 ELSE l - r)
  BY <1>1 DEF Sub, Wrap
<1>3. /\ IsNeg(l, 1) <=> l >= 32768
      /\ IsNeg(r, 1) <=> r >= 32768
      /\ IsNeg(res, 1) <=> res >= 32768
  BY <1>1, <1>2 DEF IsNeg, IsNeg16, Wrap
<1>4. /\ Signed16(l) = (IF l >= 32768 THEN l - 65536 ELSE l)
      /\ Signed16(r) = (IF r >= 32768 THEN r - 65536 ELSE r)
  BY <1>1 DEF Signed16, IsNeg16, Wrap
<1> DEFINE subOF == \/  IsNeg(l, 1) /\ ~IsNeg(r, 1) /\ ~IsNeg(res, 1)
                    \/ ~IsNeg(l, 1) /\  IsNeg(r, 1) /\  IsNeg(res, 1)
<1>5. SubFlags(l, r, 1) = [OF |-> subOF, SF |-> IsNeg(res, 1), ZF |-> res = 0, CF |-> l < r]
  BY DEF SubFlags
<1>6. subOF \in BOOLEAN /\ IsNeg(res, 1) \in BOOLEAN
  BY <1>1, <1>2, IsNegType
<1>7. (IsNeg(res, 1) # subOF) <=> ~(IsNeg(res, 1) <=> subOF)
  BY <1>6
<1> HIDE DEF res
<1>8. /\ res = 0 <=> l = r
      /\ ~(IsNeg(res, 1) <=> subOF) <=> Signed16(l) < Signed16(r)
  BY <1>1, <1>2, <1>3, <1>4
<1> DEFINE n == IsNeg(res, 1)  z == res = 0  c == l < r
<1>9. SubFlags(l, r, 1) = [OF |-> subOF, SF |-> n, ZF |-> z, CF |-> c]
  BY <1>5
<1> HIDE DEF subOF, n, z, c
<1>10. /\ SubFlags(l, r, 1).OF = subOF /\ SubFlags(l, r, 1).SF = n
       /\ SubFlags(l, r, 1).ZF = z /\ SubFlags(l, r, 1).CF = c
  BY <1>9
<1>11. (SubFlags(l, r, 1).SF # SubFlags(l, r, 1).OF) <=> Signed16(l) < Signed16(r)
  BY <1>7, <1>8, <1>10 DEF n
<1>12. z <=> l = r
  BY <1>8 DEF z
<1>13. c <=> l < r
  BY DEF c
<1> QED
  BY <1>10, <1>11, <1>12, <1>13

\* CMP computes OF from l + (-r): its flags are those of SUB, and as exact,
\* unless r is -32768, whose negation is itself.
THEOREM CmpFlagsExact ==
  ASSUME NEW l \in Word, NEW r \in Word, r # 32768
  PROVE  CmpFlags(l, r, 1) = SubFlags(l, r, 1)
<1>1. l \in Int /\ r \in Int /\ 0 <= l /\ l <= 65535 /\ 0 <= r /\ r <= 65535
  BY WordDef
<1> DEFINE res == Sub(l, r)
<1>2. res = (IF l < r THEN l - r + 65536 ELSE l - r)
  BY <1>1 DEF Sub, Wrap
<1>3. /\ IsNeg(l, 1) <=> l >= 32768
      /\ IsNeg(r, 1) <=> r >= 32768
      /\ IsNeg(-r, 1) <=> r > 0 /\ r <= 32768
      /\ IsNeg(res, 1) <=> res >= 32768
  BY <1>1, <1>2 DEF IsNeg, IsNeg16, Wrap
<1> DEFINE subOF == \/  IsNeg(l, 1) /\ ~IsNeg(r, 1) /\ ~IsNeg(res, 1)
                    \/ ~IsNeg(l, 1) /\  IsNeg(r, 1) /\  IsNeg(res, 1)
<1>4. Overflow(l, -r, res, 1) <=> subOF
  <2> HIDE DEF res
  <2> QED
    BY <1>1, <1>2, <1>3 DEF Overflow
<1>5. Overflow(l, -r, res, 1) \in BOOLEAN /\ subOF \in BOOLEAN
  BY DEF Overflow
<1>6. /\ CmpFlags(l, r, 1) = [OF |-> Overflow(l, -r, res, 1), SF |-> IsNeg(res, 1),
                              ZF |-> res = 0, CF |-> l < r]
      /\ SubFlags(l, r, 1) = [OF |-> subOF, SF |-> IsNeg(res, 1),
                              ZF |-> res = 0, CF |-> l < r]
  BY DEF CmpFlags, SubFlags
<1> HIDE DEF subOF, res
<1>7. Overflow(l, -r, res, 1) = subOF
  BY <1>4, <1>5
<1> QED
  BY <1>6, <1>7

-----------------------------------------------------------------------------
(* Stores *)


IsStore(s) ==
  /\ s = [regs |-> s.regs, mem |-> s.mem]
  /\ s.regs \in [RegNum -> Word] /\ IsMem(s.mem)

\* A register or an effective address: what get_mod returns.
IsPlace(o) ==
  \/ \E r \in RegNum : o = RegOperand(r)
  \/ \E ea \in Word : o = EaOperand(ea)

-----------------------------------------------------------------------------

\* An effective address and the byte after it are addresses.
LEMMA AddressType == \A ea \in Word : ea \in Address /\ ea + 1 \in Address
<1>1. UINT16_MAX \in Int
  BY DEF UINT16_MAX
<1>2. \A n : n \in Address <=> n \in Int /\ 0 <= n /\ n <= UINT16_MAX + 1
  BY <1>1 DEF Address
<1> QED
  BY <1>1, <1>2 DEF Word

\* Any address reads as a byte.
LEMMA ByteAtType == ASSUME NEW m, IsMem(m), NEW a PROVE ByteAt(m, a) \in Byte
<1>1. 0 \in Byte
  BY ByteDef
<1> QED
  BY <1>1 DEF ByteAt, IsMem

\* Writing a byte keeps a memory.
LEMMA WriteByteType ==
  ASSUME NEW m, IsMem(m), NEW a \in Address, NEW b \in Byte
  PROVE  IsMem(WriteByte(m, a, b))
<1> DEFINE n == WriteByte(m, a, b)
<1>1. DOMAIN n = DOMAIN m \cup {a}
  BY DEF WriteByte
<1>2. \A x \in DOMAIN n : n[x] = IF x = a THEN b ELSE m[x]
  BY DEF WriteByte
<1> HIDE DEF n
<1>3. IsMem(n)
  BY <1>1, <1>2 DEF IsMem
<1> QED
  BY <1>3 DEF n

\* Writing a word keeps a memory.
LEMMA WriteWordType ==
  ASSUME NEW m, IsMem(m), NEW ea \in Word, NEW v \in Word
  PROVE  IsMem(WriteWord(m, ea, v))
<1>1. LowByte(v) \in Byte /\ HighByte(v) \in Byte
  BY WordDef, HalvesType
<1>2. IsMem(WriteByte(m, ea, LowByte(v)))
  BY <1>1, AddressType, WriteByteType
<1> QED
  BY <1>1, <1>2, AddressType, WriteByteType DEF WriteWord

-----------------------------------------------------------------------------
(* Registers *)

\* A register, or half of one, reads as a word.
LEMMA GetRegistersType ==
  ASSUME NEW s, IsStore(s), NEW r \in RegNum, NEW w
  PROVE  get_registers(s, r, w) \in Word
<1>1. r % 4 \in RegNum
  BY DEF RegNum
<1>2. s.regs[r] \in Word /\ s.regs[r % 4] \in Word
  BY <1>1 DEF IsStore
<1>3. HighByte(s.regs[r % 4]) \in Word /\ LowByte(s.regs[r]) \in Word
  BY <1>2, WordDef, HalvesType, ByteIsWord
<1> QED
  BY <1>2, <1>3 DEF get_registers

\* A store with one register replaced by a word is a store.
LEMMA ExceptRegister ==
  ASSUME NEW s, IsStore(s), NEW r \in RegNum, NEW v \in Word
  PROVE  /\ IsStore([s EXCEPT !.regs[r] = v])
         /\ [s EXCEPT !.regs[r] = v].mem = s.mem
         /\ [s EXCEPT !.regs[r] = v].regs = [s.regs EXCEPT ![r] = v]
<1>1. [s EXCEPT !.regs[r] = v] = [regs |-> [s.regs EXCEPT ![r] = v], mem |-> s.mem]
  BY DEF IsStore
<1>2. [s.regs EXCEPT ![r] = v] \in [RegNum -> Word]
  BY DEF IsStore
<1> QED
  BY <1>1, <1>2 DEF IsStore

\* Writing a register, or half of one, keeps a store and its memory.
LEMMA SetRegistersType ==
  ASSUME NEW s, IsStore(s), NEW r \in RegNum, NEW w, NEW v \in Word
  PROVE  IsStore(set_registers(s, r, w, v))
<1>1. r % 4 \in RegNum /\ s.regs[r % 4] \in Word /\ s.regs[r] \in Word
  BY DEF RegNum, IsStore
<1>2. ASSUME NEW x \in Word, NEW y \in Word
      PROVE  Join(LowByte(x), HighByte(y)) \in Word
  BY WordDef, HalvesType, JoinType
<1>3. /\ Join(LowByte(s.regs[r % 4]), HighByte(v)) \in Word
      /\ Join(LowByte(v), HighByte(s.regs[r])) \in Word
  BY <1>1, <1>2
<1>4. CASE w = 1
  BY <1>4, ExceptRegister DEF set_registers
<1>5. CASE w # 1 /\ r >= 4
  <2>1. set_registers(s, r, w, v)
          = [s EXCEPT !.regs[r % 4] = Join(LowByte(s.regs[r % 4]), HighByte(v))]
    BY <1>5 DEF set_registers
  <2> QED
    BY <2>1, <1>1, <1>3, ExceptRegister
<1>6. CASE w # 1 /\ ~(r >= 4)
  <2>1. set_registers(s, r, w, v)
          = [s EXCEPT !.regs[r] = Join(LowByte(v), HighByte(s.regs[r]))]
    BY <1>6 DEF set_registers
  <2> QED
    BY <2>1, <1>3, ExceptRegister
<1> QED
  BY <1>4, <1>5, <1>6

-----------------------------------------------------------------------------
(* Memory and operands *)

\* A byte (sign-extended) or a word of memory reads as a word.
LEMMA GetMemoryType ==
  ASSUME NEW s, IsStore(s), NEW ea, NEW w PROVE get_memory(s, ea, w) \in Word
<1>1. ByteAt(s.mem, ea) \in Byte /\ ByteAt(s.mem, ea + 1) \in Byte
  BY ByteAtType DEF IsStore
<1>2. Join(ByteAt(s.mem, ea), ByteAt(s.mem, ea + 1)) \in Word
  BY <1>1, JoinType
<1>3. SignExtend16(ByteAt(s.mem, ea)) \in Word
  BY <1>1, ByteDef, SignExtendType
<1> QED
  BY <1>2, <1>3 DEF get_memory

\* Writing to memory keeps a store.
LEMMA SetMemoryType ==
  ASSUME NEW s, IsStore(s), NEW ea \in Word, NEW w, NEW v \in Word
  PROVE  IsStore(set_memory(s, ea, w, v))
<1>1. LowByte(v) \in Byte /\ ea \in Address
  BY WordDef, HalvesType, AddressType
<1>2. IsMem(WriteWord(s.mem, ea, v)) /\ IsMem(WriteByte(s.mem, ea, LowByte(v)))
  BY <1>1, WriteByteType, WriteWordType DEF IsStore
<1> DEFINE m == IF w = 1 THEN WriteWord(s.mem, ea, v)
                         ELSE WriteByte(s.mem, ea, LowByte(v))
<1>3. IsMem(m)
  BY <1>2
<1>4. set_memory(s, ea, w, v) = [s EXCEPT !.mem = m]
  BY DEF set_memory
<1> HIDE DEF m
<1>5. [s EXCEPT !.mem = m] = [regs |-> s.regs, mem |-> m]
  BY DEF IsStore
<1> QED
  BY <1>3, <1>4, <1>5 DEF IsStore

\* Reading an operand yields a word, writing one keeps a store.
LEMMA PlaceType ==
  ASSUME NEW s, IsStore(s), NEW o, IsPlace(o), NEW w, NEW v \in Word
  PROVE  get_data(s, o, w) \in Word /\ IsStore(set_data(s, o, w, v))
<1>1. ASSUME NEW r \in RegNum, o = RegOperand(r)
      PROVE  get_data(s, o, w) \in Word /\ IsStore(set_data(s, o, w, v))
  <2>1. o.type = "reg" /\ o.val = r
    BY <1>1 DEF RegOperand
  <2>2. get_data(s, o, w) = get_registers(s, r, w)
        /\ set_data(s, o, w, v) = set_registers(s, r, w, v)
    BY <2>1 DEF get_data, set_data
  <2> QED
    BY <2>2, GetRegistersType, SetRegistersType
<1>2. ASSUME NEW ea \in Word, o = EaOperand(ea)
      PROVE  get_data(s, o, w) \in Word /\ IsStore(set_data(s, o, w, v))
  <2>1. o.type = "ea" /\ o.val = ea
    BY <1>2 DEF EaOperand
  <2>2. get_data(s, o, w) = get_memory(s, ea, w)
        /\ set_data(s, o, w, v) = set_memory(s, ea, w, v)
    BY <2>1 DEF get_data, set_data
  <2> QED
    BY <2>2, GetMemoryType, SetMemoryType
<1> QED
  BY <1>1, <1>2 DEF IsPlace

\* A push keeps a store.
LEMMA PushType ==
  ASSUME NEW s, IsStore(s), NEW v \in Word, NEW w \in {0, 1}
  PROVE  IsStore(push_stack(s, v, w))
<1> DEFINE sp == Wrap(s.regs[SP] - 1 - w)
<1>1. SP \in RegNum /\ s.regs[SP] \in Word
  BY DEF SP, RegNum, IsStore
<1>2. sp \in Word
  BY <1>1, WordDef, WrapType
<1> HIDE DEF sp
<1>3. IsStore([s EXCEPT !.regs[SP] = sp])
  BY <1>1, <1>2, ExceptRegister
<1> QED
  BY <1>2, <1>3, SetMemoryType DEF push_stack, sp

\* A pop yields a word and keeps a store.
LEMMA PopType ==
  ASSUME NEW s, IsStore(s) PROVE PopValue(s) \in Word /\ IsStore(PopStore(s))
<1>1. SP \in RegNum /\ s.regs[SP] \in Word
  BY DEF SP, RegNum, IsStore
<1>2. Wrap(s.regs[SP] + 2) \in Word
  BY <1>1, WordDef, WrapType
<1>3. IsStore(PopStore(s))
  BY <1>1, <1>2, ExceptRegister DEF PopStore
<1> QED
  BY <1>3, GetMemoryType DEF PopValue

\* The base of an effective address is an integer.
LEMMA EaBaseType ==
  ASSUME NEW s, IsStore(s), NEW r \in RegNum PROVE EaBase(s, r) \in Int
<1>1. \A n \in RegNum : s.regs[n] \in Int
  BY WordDef DEF IsStore
<1>2. /\ s.regs[BX] \in Int /\ s.regs[SI] \in Int /\ s.regs[BP] \in Int
      /\ s.regs[DI] \in Int
  BY <1>1 DEF BX, SI, BP, DI, RegNum
<1> QED
  BY <1>2 DEF EaBase, RegNum

-----------------------------------------------------------------------------
(* Pushes *)

\* st2 is st after n bytes have been pushed: SP has moved by n and no other
\* byte has changed.
Pushed(st, st2, n) ==
  /\ IsStore(st2)
  /\ st2.regs[SP] = st.regs[SP] - n
  /\ \A a \in Int : a < st.regs[SP] - n \/ a >= st.regs[SP]
                      => ByteAt(st2.mem, a) = ByteAt(st.mem, a)

\* SP is a word.
LEMMA StackPointer ==
  ASSUME NEW st, IsStore(st)
  PROVE  /\ SP \in RegNum /\ st.regs[SP] \in Int
         /\ 0 <= st.regs[SP] /\ st.regs[SP] <= 65535
<1>1. SP \in RegNum
  BY DEF SP, RegNum
<1> QED
  BY <1>1, WordDef DEF IsStore

\* A byte written is read again, the others are as before.
LEMMA ByteWritten ==
  ASSUME NEW m, NEW a, NEW b
  PROVE  /\ ByteAt(WriteByte(m, a, b), a) = b
         /\ \A x : x # a => ByteAt(WriteByte(m, a, b), x) = ByteAt(m, x)
<1> DEFINE n == WriteByte(m, a, b)
<1>1. DOMAIN n = DOMAIN m \cup {a}
      /\ \A x \in DOMAIN n : n[x] = IF x = a THEN b ELSE m[x]
  BY DEF WriteByte
<1> HIDE DEF n
<1>2. ByteAt(n, a) = b /\ \A x : x # a => ByteAt(n, x) = ByteAt(m, x)
  BY <1>1 DEF ByteAt
<1> QED
  BY <1>2 DEF n

\* The store a push leaves, SP not passing zero.
LEMMA PushStore ==
  ASSUME NEW st, IsStore(st), NEW v \in Word, NEW w \in {0, 1},
         st.regs[SP] >= 1 + w
  PROVE  LET sp == st.regs[SP] - 1 - w IN
         /\ IsStore(push_stack(st, v, w))
         /\ push_stack(st, v, w).regs[SP] = sp
         /\ push_stack(st, v, w).mem
              = IF w = 1 THEN WriteWord(st.mem, sp, v)
                         ELSE WriteByte(st.mem, sp, LowByte(v))
<1> DEFINE sp == Wrap(st.regs[SP] - 1 - w)
           moved == [st EXCEPT !.regs[SP] = sp]
           m == IF w = 1 THEN WriteWord(st.mem, sp, v)
                         ELSE WriteByte(st.mem, sp, LowByte(v))
<1>1. sp = st.regs[SP] - 1 - w /\ sp \in Word
  BY StackPointer, WordDef DEF Wrap
<1>2. IsStore(push_stack(st, v, w))
  BY PushType
<1>3. push_stack(st, v, w) = set_memory(moved, sp, w, v)
  BY DEF push_stack
<1> HIDE DEF sp
<1>4. /\ IsStore(moved) /\ moved.mem = st.mem
      /\ moved.regs = [st.regs EXCEPT ![SP] = sp]
  BY <1>1, StackPointer, ExceptRegister
<1>5. moved.regs[SP] = sp
  BY <1>4, StackPointer DEF IsStore
<1>6. set_memory(moved, sp, w, v) = [moved EXCEPT !.mem = m]
  BY <1>4 DEF set_memory
<1> HIDE DEF moved, m
<1>7. [moved EXCEPT !.mem = m] = [regs |-> moved.regs, mem |-> m]
  BY <1>4 DEF IsStore
<1> QED
  BY <1>1, <1>2, <1>3, <1>5, <1>6, <1>7 DEF m

\* A byte pushed lies where SP points, and nothing else has changed.
LEMMA BytePushed ==
  ASSUME NEW st, IsStore(st), NEW b \in Byte, st.regs[SP] >= 1
  PROVE  /\ Pushed(st, push_stack(st, b, 0), 1)
         /\ ByteAt(push_stack(st, b, 0).mem, st.regs[SP] - 1) = b
<1> DEFINE st2 == push_stack(st, b, 0)
           sp == st.regs[SP] - 1
<1>1. b \in Word /\ LowByte(b) = b
  BY ByteDef, WordDef DEF LowByte
<1>2. st.regs[SP] \in Int /\ sp \in Int
  BY StackPointer
<1>3. IsStore(st2) /\ st2.regs[SP] = sp /\ st2.mem = WriteByte(st.mem, sp, b)
  BY <1>1, <1>2, PushStore
<1> HIDE DEF st2
<1>4. /\ ByteAt(st2.mem, sp) = b
      /\ \A x : x # sp => ByteAt(st2.mem, x) = ByteAt(st.mem, x)
  BY <1>3, ByteWritten
<1>5. Pushed(st, st2, 1)
  BY <1>2, <1>3, <1>4 DEF Pushed
<1> QED
  BY <1>4, <1>5 DEF st2

\* A word pushed is read where SP points, and nothing else has changed.
LEMMA WordPushed ==
  ASSUME NEW st, IsStore(st), NEW v \in Word, st.regs[SP] >= 2
  PROVE  /\ Pushed(st, push_stack(st, v, 1), 2)
         /\ get_memory(push_stack(st, v, 1), st.regs[SP] - 2, 1) = v
<1> DEFINE st2 == push_stack(st, v, 1)
           sp == st.regs[SP] - 2
           m == WriteByte(st.mem, sp, LowByte(v))
<1>1. st.regs[SP] \in Int /\ sp \in Int
  BY StackPointer
<1>2. IsStore(st2) /\ st2.regs[SP] = sp /\ st2.mem = WriteWord(st.mem, sp, v)
  BY <1>1, PushStore
<1>3. st2.mem = WriteByte(m, sp + 1, HighByte(v))
  BY <1>2 DEF WriteWord
<1>4. /\ ByteAt(m, sp) = LowByte(v)
      /\ \A x : x # sp => ByteAt(m, x) = ByteAt(st.mem, x)
  BY ByteWritten
<1> HIDE DEF st2, m
<1>5. /\ ByteAt(st2.mem, sp + 1) = HighByte(v)
      /\ \A x : x # sp + 1 => ByteAt(st2.mem, x) = ByteAt(m, x)
  BY <1>3, ByteWritten
<1>6. ByteAt(st2.mem, sp) = LowByte(v)
  BY <1>1, <1>4, <1>5
<1>7. Pushed(st, st2, 2)
  <2>1. \A a \in Int : a < sp \/ a >= st.regs[SP]
                         => ByteAt(st2.mem, a) = ByteAt(st.mem, a)
    BY <1>1, <1>4, <1>5
  <2> QED
    BY <1>2, <2>1 DEF Pushed
<1>8. Join(LowByte(v), HighByte(v)) = v
  BY WordDef DEF Join, LowByte, HighByte
<1>9. get_memory(st2, sp, 1) = v
  BY <1>5, <1>6, <1>8 DEF get_memory
<1> QED
  BY <1>7, <1>9 DEF st2

\* A word above SP is read as before.
LEMMA WordByPush ==
  ASSUME NEW st, IsStore(st), NEW st2, NEW n \in Nat, Pushed(st, st2, n),
         NEW a \in Int, a >= st.regs[SP]
  PROVE  get_memory(st2, a, 1) = get_memory(st, a, 1)
<1>1. \A x \in Int : x >= st.regs[SP] => ByteAt(st2.mem, x) = ByteAt(st.mem, x)
  BY DEF Pushed
<1>2. st.regs[SP] \in Int /\ a + 1 \in Int /\ a + 1 >= st.regs[SP]
  BY StackPointer
<1>3. ByteAt(st2.mem, a) = ByteAt(st.mem, a) /\ ByteAt(st2.mem, a + 1) = ByteAt(st.mem, a + 1)
  BY <1>1, <1>2
<1> QED
  BY <1>3 DEF get_memory
=============================================================================
