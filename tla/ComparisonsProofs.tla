------------------------- MODULE ComparisonsProofs --------------------------
(***************************************************************************)
(* A conditional jump follows the comparison its flags come from, whatever   *)
(* the program: what the flags of each instruction tell, that they tell it   *)
(* until another instruction writes them, and what the jumps read in them.   *)
(***************************************************************************)
EXTENDS Comparisons, CpuProofs, DecoderProofs

-----------------------------------------------------------------------------
(* What flags tell of a comparison *)

\* The numbers of a width.
AtWidths(w) == IF w = 1 THEN Word ELSE Byte

IsComparison(c) == c.w \in {0, 1} /\ c.l \in AtWidths(c.w) /\ c.r \in AtWidths(c.w)

\* The flags answer the questions that c says they answer.
Tells(f, c) ==
  /\ IsComparison(c)
  /\ c.signed => ((f.SF # f.OF) <=> Signed(c.l, c.w) < Signed(c.r, c.w))
  /\ c.equal => (f.ZF <=> c.l = c.r)
  /\ c.unsigned => (f.CF <=> c.l < c.r)

\* What a comparison of l and r has to tell.
LEMMA ComparisonTells ==
  ASSUME NEW f, NEW c, NEW l \in Word, NEW r \in Word,
         c.w \in {0, 1}, c.l = AtWidth(l, c.w), c.r = AtWidth(r, c.w),
         c.signed => ((f.SF # f.OF) <=> Signed(c.l, c.w) < Signed(c.r, c.w)),
         c.equal => (f.ZF <=> c.l = c.r),
         c.unsigned => (f.CF <=> c.l < c.r)
  PROVE  Tells(f, c)
<1>1. AtWidth(l, c.w) \in AtWidths(c.w) /\ AtWidth(r, c.w) \in AtWidths(c.w)
  BY WordDef, ByteDef, HalvesType DEF AtWidth, AtWidths
<1> QED
  BY <1>1 DEF IsComparison, Tells

\* The fields of a comparison.
LEMMA ComparisonFields ==
  ASSUME NEW l, NEW r, NEW w, NEW s, NEW e, NEW u
  PROVE  LET c == Comparison(l, r, w, s, e, u) IN
         /\ c.l = AtWidth(l, w) /\ c.r = AtWidth(r, w) /\ c.w = w
         /\ c.signed = s /\ c.equal = e /\ c.unsigned = u
  BY DEF Comparison

\* No comparison tells nothing.
LEMMA NothingTold == ASSUME NEW f PROVE Tells(f, NoComparison)
<1>1. 0 \in Word
  BY WordDef
<1>2. /\ NoComparison.l = AtWidth(0, 1) /\ NoComparison.r = AtWidth(0, 1)
      /\ NoComparison.w = 1
      /\ ~NoComparison.signed /\ ~NoComparison.equal /\ ~NoComparison.unsigned
  BY DEF NoComparison, Comparison
<1> QED
  BY <1>1, <1>2, ComparisonTells

-----------------------------------------------------------------------------
(* The flags of each kind of instruction *)

\* The four flags of a record that writes them out.
LEMMA FlagFields ==
  ASSUME NEW o, NEW s, NEW z, NEW c
  PROVE  /\ [OF |-> o, SF |-> s, ZF |-> z, CF |-> c].OF = o
         /\ [OF |-> o, SF |-> s, ZF |-> z, CF |-> c].SF = s
         /\ [OF |-> o, SF |-> s, ZF |-> z, CF |-> c].ZF = z
         /\ [OF |-> o, SF |-> s, ZF |-> z, CF |-> c].CF = c
  OBVIOUS

\* SF # OF after a subtraction of bytes, whatever fills the other half of the
\* operands.
LEMMA ByteOrder ==
  ASSUME NEW l \in Word, NEW r \in Word
  PROVE  /\ (SubFlags(l, r, 0).SF # SubFlags(l, r, 0).OF)
              <=> Signed8(LowByte(l)) < Signed8(LowByte(r))
         /\ SubFlags(l, r, 0).ZF <=> l = r
         /\ SubFlags(l, r, 0).CF <=> l < r
<1>1. l \in Int /\ r \in Int /\ 0 <= l /\ l <= 65535 /\ 0 <= r /\ r <= 65535
  BY WordDef
<1> DEFINE res == Sub(l, r)  lo == LowByte(l)  ro == LowByte(r)
<1>2. res = (IF l < r THEN l - r + 65536 ELSE l - r)
  BY <1>1 DEF Sub, Wrap
<1>3. lo \in Int /\ ro \in Int /\ 0 <= lo /\ lo <= 255 /\ 0 <= ro /\ ro <= 255
  BY <1>1 DEF LowByte
<1>4. LowByte(res) = IF lo < ro THEN lo - ro + 256 ELSE lo - ro
  BY <1>1, <1>2 DEF LowByte
<1>5. /\ IsNeg(l, 0) <=> lo >= 128
      /\ IsNeg(r, 0) <=> ro >= 128
      /\ IsNeg(res, 0) <=> LowByte(res) >= 128
  BY DEF IsNeg, IsNeg8
<1>6. /\ Signed8(lo) = (IF lo >= 128 THEN lo - 256 ELSE lo)
      /\ Signed8(ro) = (IF ro >= 128 THEN ro - 256 ELSE ro)
  <2> HIDE DEF lo, ro
  <2>1. LowByte(lo) = lo /\ LowByte(ro) = ro
    BY <1>3 DEF LowByte
  <2> QED
    BY <2>1 DEF Signed8, IsNeg8
<1> DEFINE o == \/  IsNeg(l, 0) /\ ~IsNeg(r, 0) /\ ~IsNeg(res, 0)
                \/ ~IsNeg(l, 0) /\  IsNeg(r, 0) /\  IsNeg(res, 0)
           n == IsNeg(res, 0)  z == res = 0  c == l < r
<1>7. SubFlags(l, r, 0) = [OF |-> o, SF |-> n, ZF |-> z, CF |-> c]
  BY DEF SubFlags
<1>8. o \in BOOLEAN /\ n \in BOOLEAN
  BY <1>1, <1>2, IsNegType
<1>9. z <=> l = r
  BY <1>1, <1>2
<1>10. ~(n <=> o) <=> Signed8(lo) < Signed8(ro)
  <2> HIDE DEF res, lo, ro
  <2> QED
    BY <1>3, <1>4, <1>5, <1>6
<1>11. c <=> l < r
  OBVIOUS
<1> HIDE DEF o, n, z, c
<1>12. /\ SubFlags(l, r, 0).OF = o /\ SubFlags(l, r, 0).SF = n
       /\ SubFlags(l, r, 0).ZF = z /\ SubFlags(l, r, 0).CF = c
  BY <1>7, FlagFields
<1>13. (n # o) <=> ~(n <=> o)
  BY <1>8
<1> QED
  BY <1>9, <1>10, <1>11, <1>12, <1>13

\* CMP of bytes is SUB of bytes unless the right one is -128.
LEMMA ByteCmpFlags ==
  ASSUME NEW l \in Word, NEW r \in Word, LowByte(r) # 128
  PROVE  CmpFlags(l, r, 0) = SubFlags(l, r, 0)
<1>1. l \in Int /\ r \in Int /\ 0 <= l /\ l <= 65535 /\ 0 <= r /\ r <= 65535
  BY WordDef
<1> DEFINE res == Sub(l, r)  lo == LowByte(l)  ro == LowByte(r)
<1>2. res = (IF l < r THEN l - r + 65536 ELSE l - r)
  BY <1>1 DEF Sub, Wrap
<1>3. lo \in Int /\ ro \in Int /\ 0 <= lo /\ lo <= 255 /\ 0 <= ro /\ ro <= 255
  BY <1>1 DEF LowByte
<1>4. LowByte(res) = IF lo < ro THEN lo - ro + 256 ELSE lo - ro
  BY <1>1, <1>2 DEF LowByte
<1>5. LowByte(-r) = IF ro = 0 THEN 0 ELSE 256 - ro
  BY <1>1 DEF LowByte
<1>6. /\ IsNeg(l, 0) <=> lo >= 128
      /\ IsNeg(r, 0) <=> ro >= 128
      /\ IsNeg(-r, 0) <=> ro > 0 /\ ro <= 128
      /\ IsNeg(res, 0) <=> LowByte(res) >= 128
  <2>1. IsNeg(-r, 0) <=> LowByte(-r) >= 128
    BY DEF IsNeg, IsNeg8
  <2> HIDE DEF res, lo, ro
  <2>2. IsNeg(-r, 0) <=> ro > 0 /\ ro <= 128
    BY <1>3, <1>5, <2>1
  <2> QED
    BY <2>2 DEF IsNeg, IsNeg8, lo, ro
<1> DEFINE o == \/  IsNeg(l, 0) /\ ~IsNeg(r, 0) /\ ~IsNeg(res, 0)
                \/ ~IsNeg(l, 0) /\  IsNeg(r, 0) /\  IsNeg(res, 0)
<1>7. Overflow(l, -r, res, 0) <=> o
  <2>1. ro # 128
    OBVIOUS
  <2> HIDE DEF res, lo, ro
  <2> QED
    BY <1>3, <1>4, <1>6, <2>1 DEF Overflow
<1>8. Overflow(l, -r, res, 0) \in BOOLEAN /\ o \in BOOLEAN
  BY DEF Overflow
<1>9. /\ CmpFlags(l, r, 0) = [OF |-> Overflow(l, -r, res, 0), SF |-> IsNeg(res, 0),
                              ZF |-> res = 0, CF |-> l < r]
      /\ SubFlags(l, r, 0) = [OF |-> o, SF |-> IsNeg(res, 0), ZF |-> res = 0, CF |-> l < r]
  BY DEF CmpFlags, SubFlags
<1> HIDE DEF o, res
<1>10. Overflow(l, -r, res, 0) = o
  BY <1>7, <1>8
<1> QED
  BY <1>9, <1>10

\* The flags of op_sub_0 tell what DirectSubtraction says, and those of the
\* other handlers that subtract what Subtraction says.
LEMMA SubtractionTells ==
  ASSUME W \in {0, 1}, NEW l \in Word, NEW r \in Word
  PROVE  /\ Tells(SubFlags(l, r, W), DirectSubtraction(l, r))
         /\ Tells(CmpFlags(l, r, W), Subtraction(l, r))
<1> DEFINE alike == W = 1 \/ (l < 256 /\ r < 256)
           signed == AtWidth(r, W) # Least(W)
           always == TRUE
           c == Subtraction(l, r)
           e == DirectSubtraction(l, r)
           f == SubFlags(l, r, W)
           g == CmpFlags(l, r, W)
<1>1. l \in Int /\ r \in Int /\ 0 <= l /\ 0 <= r
  BY WordDef
<1>2. /\ c = Comparison(l, r, W, signed, alike, alike)
      /\ e = Comparison(l, r, W, always, alike, alike)
  BY DEF Subtraction, DirectSubtraction, Difference
<1> HIDE DEF signed, always, alike, c, e
<1>3. /\ c.l = AtWidth(l, W) /\ c.r = AtWidth(r, W) /\ c.w = W
      /\ c.signed = signed /\ c.equal = alike /\ c.unsigned = alike
      /\ e.l = AtWidth(l, W) /\ e.r = AtWidth(r, W) /\ e.w = W
      /\ e.equal = alike /\ e.unsigned = alike
  BY <1>2, ComparisonFields
<1>4. /\ (f.SF # f.OF) <=> Signed(c.l, W) < Signed(c.r, W)
      /\ f.ZF <=> l = r
      /\ f.CF <=> l < r
  <2>1. CASE W = 1
    BY <1>3, <2>1, SubFlagsExact DEF AtWidth, Signed
  <2>2. CASE W = 0
    BY <1>3, <2>2, ByteOrder DEF AtWidth, Signed
  <2> QED
    BY <2>1, <2>2
<1>5. alike => c.l = l /\ c.r = r
  BY <1>1, <1>3 DEF alike, AtWidth, LowByte
<1>6. signed => g = f
  <2>1. CASE W = 1
    BY <2>1, CmpFlagsExact DEF signed, AtWidth, Least
  <2>2. CASE W = 0
    BY <2>2, ByteCmpFlags DEF signed, AtWidth, Least
  <2> QED
    BY <2>1, <2>2
<1>7. g.ZF = f.ZF /\ g.CF = f.CF
  <2> DEFINE z == Sub(l, r) = 0  k == l < r
             o1 == Overflow(l, -r, Sub(l, r), W)
             o2 == \/  IsNeg(l, W) /\ ~IsNeg(r, W) /\ ~IsNeg(Sub(l, r), W)
                   \/ ~IsNeg(l, W) /\  IsNeg(r, W) /\  IsNeg(Sub(l, r), W)
  <2>1. /\ g = [OF |-> o1, SF |-> IsNeg(Sub(l, r), W), ZF |-> z, CF |-> k]
        /\ f = [OF |-> o2, SF |-> IsNeg(Sub(l, r), W), ZF |-> z, CF |-> k]
    BY DEF CmpFlags, SubFlags
  <2> HIDE DEF z, k, o1, o2, f, g
  <2> QED
    BY <2>1, FlagFields
<1> HIDE DEF f, g
<1>8. Tells(f, e)
  BY <1>3, <1>4, <1>5, ComparisonTells
<1>9. Tells(g, c)
  BY <1>3, <1>4, <1>5, <1>6, <1>7, ComparisonTells
<1> QED
  BY <1>8, <1>9 DEF f, g, c, e

\* A byte as the handlers hold it: of a register, or sign-extended.
ByteOrWord(d, w) == d \in Word /\ (w = 0 => d < 256 \/ d >= 65408)

\* Numbers at their width, signed.
LEMMA SignedWord ==
  ASSUME NEW d \in Word
  PROVE  AtWidth(d, 1) = d /\ Signed(d, 1) = IF d >= 32768 THEN d - 65536 ELSE d
  BY WordDef DEF AtWidth, Signed, Signed16, IsNeg16, Wrap

LEMMA SignedByte ==
  ASSUME NEW d, ByteOrWord(d, 0)
  PROVE  /\ AtWidth(d, 0) = IF d < 256 THEN d ELSE d - 65280
         /\ Signed(AtWidth(d, 0), 0) = IF d < 128 THEN d ELSE AtWidth(d, 0) - 256
<1> DEFINE n == AtWidth(d, 0)
<1>1. d \in Int /\ 0 <= d /\ d <= 65535 /\ (d < 256 \/ d >= 65408)
  BY WordDef DEF ByteOrWord
<1>2. n = IF d < 256 THEN d ELSE d - 65280
  BY <1>1 DEF AtWidth, LowByte
<1>3. n \in Int /\ 0 <= n /\ n <= 255 /\ (n < 128 <=> d < 128) /\ (d < 128 => n = d)
  BY <1>1, <1>2
<1> HIDE DEF n
<1>4. LowByte(n) = n
  BY <1>3 DEF LowByte
<1>5. Signed(n, 0) = IF n < 128 THEN n ELSE n - 256
  BY <1>3, <1>4 DEF Signed, Signed8, IsNeg8
<1> QED
  BY <1>2, <1>3, <1>5 DEF n

\* neg compares 0 with its operand.
LEMMA NegationTells ==
  ASSUME W \in {0, 1}, NEW d, ByteOrWord(d, W)
  PROVE  Tells(NegFlags(d, W), Negation(d))
<1> DEFINE s == IsNeg(-d, W)  z == -d = 0  k == d # 0
           f == NegFlags(d, W)
           c == Negation(d)
<1>1. d \in Int /\ 0 <= d /\ d <= 65535 /\ 0 \in Word /\ d \in Word
  BY WordDef DEF ByteOrWord
<1>2. AtWidth(0, W) = 0 /\ Signed(0, W) = 0
  BY DEF AtWidth, LowByte, Signed, Signed16, IsNeg16, Wrap, Signed8, IsNeg8
<1>3. f = [OF |-> FALSE, SF |-> s, ZF |-> z, CF |-> k]
  BY DEF NegFlags
<1>4. /\ c.l = 0 /\ c.r = AtWidth(d, W) /\ c.w = W
      /\ c.signed => AtWidth(d, W) # Least(W)
  BY <1>2 DEF Negation, Comparison
<1>5. /\ c.signed => (s <=> 0 < Signed(c.r, W))
      /\ z <=> 0 = c.r
      /\ k <=> 0 < c.r
  <2> HIDE DEF c
  <2>1. CASE W = 1
    <3>1. s <=> 0 < d /\ d <= 32768
      BY <1>1, <2>1 DEF IsNeg, IsNeg16, Wrap
    <3> QED
      BY <1>1, <1>4, <2>1, <3>1, SignedWord DEF Least
  <2>2. CASE W = 0
    <3>1. c.r = (IF d < 256 THEN d ELSE d - 65280) /\ (d < 256 \/ d >= 65408)
          /\ Signed(c.r, W) = IF d < 128 THEN d ELSE c.r - 256
      BY <1>4, <2>2, SignedByte DEF ByteOrWord
    <3>2. s <=> (0 < d /\ d <= 128) \/ d = 65408
      BY <1>1, <2>2, <3>1 DEF IsNeg, IsNeg8, LowByte
    <3> QED
      BY <1>1, <1>4, <2>2, <3>1, <3>2 DEF Least
  <2> QED
    BY <2>1, <2>2
<1>6. s \in BOOLEAN
  BY <1>1, IsNegType
<1> HIDE DEF s, z, k, f, c
<1>7. f.OF = FALSE /\ f.SF = s /\ f.ZF = z /\ f.CF = k
  BY <1>3, FlagFields
<1>8. (f.SF # f.OF) <=> s
  BY <1>6, <1>7
<1>9. Tells(f, c)
  BY <1>1, <1>2, <1>4, <1>5, <1>7, <1>8, ComparisonTells
<1> QED
  BY <1>9 DEF f, c

\* inc compares with -1, and leaves the carry.
LEMMA IncrementTells ==
  ASSUME NEW w \in {0, 1}, NEW h \in Flags, NEW d, ByteOrWord(d, w)
  PROVE  Tells(IncFlags(h, d, w), Increment(d, w))
<1> DEFINE o == d = Largest(w)  s == IsNeg(d + 1, w)  z == d + 1 = 0
           f == IncFlags(h, d, w)
           c == Increment(d, w)
<1>1. d \in Int /\ 0 <= d /\ d <= 65535 /\ d \in Word /\ 65535 \in Word
  BY WordDef DEF ByteOrWord
<1>2. /\ AtWidth(65535, w) = IF w = 1 THEN 65535 ELSE 255
      /\ Signed(AtWidth(65535, w), w) = -1
  BY DEF AtWidth, LowByte, Signed, Signed16, IsNeg16, Wrap, Signed8, IsNeg8
<1>3. f = [OF |-> o, SF |-> s, ZF |-> z, CF |-> h.CF]
  BY DEF IncFlags
<1>4. /\ c.l = AtWidth(d, w) /\ c.r = AtWidth(65535, w) /\ c.w = w
      /\ c.signed => c.l # c.r /\ c.l # Least(w) - 1
      /\ c.equal => c.l # c.r
      /\ ~c.unsigned
  <2>1. AtWidth(AtWidth(65535, w), w) = AtWidth(65535, w)
    BY DEF AtWidth, LowByte
  <2> DEFINE signed == AtWidth(d, w) \notin {AtWidth(65535, w), Least(w) - 1}
             equal == AtWidth(d, w) # AtWidth(65535, w)
             unsigned == FALSE
  <2>2. c = Comparison(d, AtWidth(65535, w), w, signed, equal, unsigned)
    BY DEF Increment
  <2>3. /\ ~unsigned
        /\ signed => /\ AtWidth(d, w) # AtWidth(65535, w)
                     /\ AtWidth(d, w) # Least(w) - 1
        /\ equal => AtWidth(d, w) # AtWidth(65535, w)
    OBVIOUS
  <2> HIDE DEF c, signed, equal, unsigned
  <2>4. /\ c.l = AtWidth(d, w) /\ c.r = AtWidth(65535, w) /\ c.w = w
        /\ c.signed = signed /\ c.equal = equal /\ c.unsigned = unsigned
    BY <2>1, <2>2, ComparisonFields
  <2> QED
    BY <2>3, <2>4
<1>5. c.signed => ~o /\ (s <=> Signed(c.l, w) < -1)
  <2> HIDE DEF c
  <2>1. CASE w = 1
    <3>1. s <=> d >= 32767 /\ d < 65535
      BY <1>1, <2>1 DEF IsNeg, IsNeg16, Wrap
    <3> QED
      BY <1>1, <1>2, <1>4, <2>1, <3>1, SignedWord DEF Least, Largest
  <2>2. CASE w = 0
    <3>1. c.l = (IF d < 256 THEN d ELSE d - 65280) /\ (d < 256 \/ d >= 65408)
          /\ Signed(c.l, w) = IF d < 128 THEN d ELSE c.l - 256
      BY <1>4, <2>2, SignedByte DEF ByteOrWord
    <3>2. s <=> (127 <= d /\ d < 255) \/ (65408 <= d /\ d < 65535)
      BY <1>1, <2>2, <3>1 DEF IsNeg, IsNeg8, LowByte
    <3> QED
      BY <1>1, <1>2, <1>4, <2>2, <3>1, <3>2 DEF Least, Largest
  <2> QED
    BY <2>1, <2>2
<1>6. ~z
  BY <1>1
<1>7. s \in BOOLEAN /\ o \in BOOLEAN
  BY <1>1, IsNegType
<1> HIDE DEF o, s, z, f, c
<1>8. f.OF = o /\ f.SF = s /\ f.ZF = z
  BY <1>3, FlagFields
<1>9. /\ c.signed => ((f.SF # f.OF) <=> Signed(c.l, w) < Signed(c.r, w))
      /\ c.equal => (f.ZF <=> c.l = c.r)
  BY <1>2, <1>4, <1>5, <1>6, <1>7, <1>8
<1>10. Tells(f, c)
  BY <1>1, <1>4, <1>9, ComparisonTells
<1> QED
  BY <1>10 DEF f, c

\* dec compares with 1, and leaves the carry.
LEMMA DecrementTells ==
  ASSUME NEW w \in {0, 1}, NEW h \in Flags, NEW d, ByteOrWord(d, w)
  PROVE  Tells(DecFlags(h, d), Decrement(d, w))
<1> DEFINE s == IsNeg16(d - 1)  z == d - 1 = 0
           f == DecFlags(h, d)
           c == Decrement(d, w)
<1>1. d \in Int /\ 0 <= d /\ d <= 65535 /\ d \in Word /\ 1 \in Word
  BY WordDef DEF ByteOrWord
<1>2. AtWidth(1, w) = 1 /\ Signed(1, w) = 1
  BY DEF AtWidth, LowByte, Signed, Signed16, IsNeg16, Wrap, Signed8, IsNeg8
<1>3. f = [OF |-> FALSE, SF |-> s, ZF |-> z, CF |-> h.CF]
  BY DEF DecFlags
<1>4. /\ c.l = AtWidth(d, w) /\ c.r = 1 /\ c.w = w
      /\ c.signed => IF w = 1 THEN d # Least(1) ELSE d \notin 128 .. 255
      /\ ~c.unsigned
  BY <1>2 DEF Decrement, Comparison
<1>5. s <=> d = 0 \/ d >= 32769
  BY <1>1 DEF IsNeg16, Wrap
<1>6. c.signed => (s <=> Signed(c.l, w) < 1)
  <2> HIDE DEF c, s
  <2>1. CASE w = 1
    BY <1>1, <1>4, <1>5, <2>1, SignedWord DEF Least
  <2>2. CASE w = 0
    <3>1. c.l = (IF d < 256 THEN d ELSE d - 65280) /\ (d < 256 \/ d >= 65408)
          /\ Signed(c.l, w) = IF d < 128 THEN d ELSE c.l - 256
      BY <1>4, <2>2, SignedByte DEF ByteOrWord
    <3> QED
      BY <1>1, <1>4, <1>5, <2>2, <3>1
  <2> QED
    BY <2>1, <2>2
<1>7. z <=> c.l = 1
  <2> HIDE DEF c
  <2>1. CASE w = 1
    BY <1>1, <1>4, <2>1 DEF AtWidth
  <2>2. CASE w = 0
    <3>1. c.l = (IF d < 256 THEN d ELSE d - 65280) /\ (d < 256 \/ d >= 65408)
      BY <1>4, <2>2, SignedByte DEF ByteOrWord
    <3> QED
      BY <1>1, <3>1
  <2> QED
    BY <2>1, <2>2
<1>8. s \in BOOLEAN
  BY <1>1, IsNegType DEF IsNeg16
<1> HIDE DEF s, z, f, c
<1>9. f.OF = FALSE /\ f.SF = s /\ f.ZF = z
  BY <1>3, FlagFields
<1>10. (f.SF # f.OF) <=> s
  BY <1>8, <1>9
<1>11. Tells(f, c)
  BY <1>1, <1>2, <1>4, <1>6, <1>7, <1>9, <1>10, ComparisonTells
<1> QED
  BY <1>11 DEF f, c

\* The logic instructions and test compare their result with 0.
LEMMA ResultTells ==
  ASSUME W \in {0, 1}, NEW d \in Word
  PROVE  Tells(LogicFlags(d, W), Result(d))
<1> DEFINE s == IsNeg(d, W)  z == d = 0
           f == LogicFlags(d, W)
           c == Result(d)
<1>1. d \in Int /\ 0 <= d /\ d <= 65535 /\ 0 \in Word
  BY WordDef
<1>2. AtWidth(0, W) = 0 /\ Signed(0, W) = 0
  BY DEF AtWidth, LowByte, Signed, Signed16, IsNeg16, Wrap, Signed8, IsNeg8
<1>3. f = [OF |-> FALSE, SF |-> s, ZF |-> z, CF |-> FALSE]
  BY DEF LogicFlags
<1>4. /\ c.l = AtWidth(d, W) /\ c.r = 0 /\ c.w = W
      /\ c.equal => W = 1 \/ d < 256
  BY <1>2 DEF Result, Comparison
<1>5. c.l \in Int /\ c.l >= 0
  BY <1>1, <1>4 DEF AtWidth, LowByte
<1>6. s <=> Signed(c.l, W) < 0
  <2>1. CASE W = 1
    BY <1>1, <1>4, <2>1, SignedWord DEF IsNeg, IsNeg16, Wrap
  <2>2. CASE W = 0
    <3> DEFINE n == LowByte(d)
    <3>1. n \in Int /\ 0 <= n /\ n <= 255
      BY <1>1 DEF LowByte
    <3>2. c.l = n /\ (s <=> n >= 128)
      BY <1>4, <2>2 DEF AtWidth, IsNeg, IsNeg8
    <3> HIDE DEF n, c, s
    <3>3. LowByte(n) = n
      BY <3>1 DEF LowByte
    <3> QED
      BY <2>2, <3>1, <3>2, <3>3 DEF Signed, Signed8, IsNeg8
  <2> QED
    BY <2>1, <2>2
<1>7. c.equal => (z <=> c.l = 0)
  BY <1>1, <1>4 DEF AtWidth, LowByte
<1>8. s \in BOOLEAN
  BY <1>1, IsNegType
<1> HIDE DEF s, z, f, c
<1>9. f.OF = FALSE /\ f.SF = s /\ f.ZF = z /\ f.CF = FALSE
  BY <1>3, FlagFields
<1>10. ((f.SF # f.OF) <=> s) /\ ~f.CF
  BY <1>8, <1>9
<1>11. ~(c.l < c.r)
  BY <1>4, <1>5
<1>12. Tells(f, c)
  BY <1>1, <1>2, <1>4, <1>6, <1>7, <1>9, <1>10, <1>11, ComparisonTells
<1> QED
  BY <1>12 DEF f, c

-----------------------------------------------------------------------------
(* What the conditional jumps read *)

\* Signed numbers are equal when the numbers are.
LEMMA SignedEquality ==
  ASSUME NEW w \in {0, 1}, NEW l \in AtWidths(w), NEW r \in AtWidths(w)
  PROVE  /\ Signed(l, w) \in Int /\ Signed(r, w) \in Int /\ l \in Int /\ r \in Int
         /\ Signed(l, w) = Signed(r, w) <=> l = r
<1>1. CASE w = 1
  <2>1. l \in Word /\ r \in Word
    BY <1>1 DEF AtWidths
  <2> QED
    BY <1>1, <2>1, SignedWord, WordDef
<1>2. CASE w = 0
  <2>1. l \in Int /\ 0 <= l /\ l <= 255 /\ r \in Int /\ 0 <= r /\ r <= 255
    BY <1>2, ByteDef DEF AtWidths
  <2>2. /\ Signed(l, w) = IF l >= 128 THEN l - 256 ELSE l
        /\ Signed(r, w) = IF r >= 128 THEN r - 256 ELSE r
    BY <1>2, <2>1 DEF Signed, Signed8, IsNeg8, LowByte
  <2> QED
    BY <2>1, <2>2
<1> QED
  BY <1>1, <1>2

\* A jump reads the relation it is for in flags that tell it.
LEMMA JumpAsks ==
  ASSUME NEW f \in Flags, NEW c, NEW b, NEW cx, Tells(f, c), Answered(b, c),
         b \in (114 .. 119) \cup (124 .. 127)
  PROVE  CanJump(b, f, cx) <=> Relation(b, c)
<1> DEFINE sl == Signed(c.l, c.w)  sr == Signed(c.r, c.w)
           less == sl < sr  same == c.l = c.r  below == c.l < c.r
           sign == f.SF # f.OF
<1>1. /\ c.l \in Int /\ c.r \in Int /\ sl \in Int /\ sr \in Int
      /\ sl = sr <=> same
  BY SignedEquality DEF Tells, IsComparison
<1>2. /\ CanJump(116, f, cx) = f.ZF /\ CanJump(117, f, cx) = ~f.ZF
      /\ CanJump(114, f, cx) = f.CF /\ CanJump(115, f, cx) = ~f.CF
      /\ CanJump(118, f, cx) = (f.CF \/ f.ZF) /\ CanJump(119, f, cx) = (~f.CF /\ ~f.ZF)
      /\ CanJump(124, f, cx) = sign /\ CanJump(125, f, cx) = (f.SF = f.OF)
      /\ CanJump(126, f, cx) = (f.ZF \/ sign)
      /\ CanJump(127, f, cx) = (~f.ZF /\ f.OF = f.SF)
  BY DEF CanJump
<1>3. (f.SF = f.OF <=> ~sign) /\ (f.OF = f.SF <=> ~sign)
  OBVIOUS
<1>4. /\ Relation(116, c) = same /\ Relation(117, c) = (c.l # c.r)
      /\ Relation(114, c) = below /\ Relation(115, c) = (c.l >= c.r)
      /\ Relation(118, c) = (c.l <= c.r) /\ Relation(119, c) = (c.l > c.r)
      /\ Relation(124, c) = less /\ Relation(125, c) = (sl >= sr)
      /\ Relation(126, c) = (sl <= sr) /\ Relation(127, c) = (sl > sr)
  BY DEF Relation
<1>5. /\ c.l # c.r <=> ~same
      /\ c.l >= c.r <=> ~below
      /\ c.l <= c.r <=> below \/ same
      /\ c.l > c.r <=> ~below /\ ~same
      /\ sl >= sr <=> ~less
      /\ sl <= sr <=> less \/ same
      /\ sl > sr <=> ~less /\ ~same
  <2> HIDE DEF sl, sr
  <2> QED
    BY <1>1
<1>6. /\ c.signed => (sign <=> less)
      /\ c.equal => (f.ZF <=> same)
      /\ c.unsigned => (f.CF <=> below)
  BY DEF Tells
<1> DEFINE Asked(k) == b = k => (CanJump(b, f, cx) <=> Relation(b, c))
<1> HIDE DEF sl, sr, less, same, below, sign
<1>7. Asked(116) /\ Asked(117)
  BY <1>2, <1>4, <1>5, <1>6 DEF Answered
<1>8. Asked(114) /\ Asked(115)
  BY <1>2, <1>4, <1>5, <1>6 DEF Answered
<1>9. Asked(118) /\ Asked(119)
  BY <1>2, <1>4, <1>5, <1>6 DEF Answered
<1>10. Asked(124) /\ Asked(125)
  BY <1>2, <1>3, <1>4, <1>5, <1>6 DEF Answered
<1>11. Asked(126) /\ Asked(127)
  BY <1>2, <1>3, <1>4, <1>5, <1>6 DEF Answered
<1>12. b \in {114, 115, 116, 117, 118, 119, 124, 125, 126, 127}
  OBVIOUS
<1> QED
  BY <1>7, <1>8, <1>9, <1>10, <1>11, <1>12

-----------------------------------------------------------------------------
(* The operands compared *)

\* A byte operand comes out of a register as it is, of memory sign-extended.
LEMMA DataForm ==
  ASSUME NEW s, IsStore(s), NEW o, IsPlace(o), NEW w \in {0, 1}
  PROVE  ByteOrWord(get_data(s, o, w), w)
<1>1. 0 \in Word
  BY WordDef
<1>2. get_data(s, o, w) \in Word
  BY <1>1, PlaceType
<1>3. ASSUME w = 0, NEW r \in RegNum, o = RegOperand(r)
      PROVE  get_data(s, o, w) < 256
  <2>1. get_data(s, o, w) = get_registers(s, r, 0)
    BY <1>3 DEF RegOperand, get_data
  <2>2. s.regs[r] \in Int /\ s.regs[r % 4] \in Int
    BY WordDef DEF IsStore, RegNum
  <2> QED
    BY <2>1, <2>2 DEF get_registers, HighByte, LowByte
<1>4. ASSUME w = 0, NEW ea \in Word, o = EaOperand(ea)
      PROVE  get_data(s, o, w) < 256 \/ get_data(s, o, w) >= 65408
  <2>1. get_data(s, o, w) = SignExtend16(ByteAt(s.mem, ea))
    BY <1>4 DEF EaOperand, get_data, get_memory
  <2>2. ByteAt(s.mem, ea) \in Int
    BY ByteAtType, ByteDef DEF IsStore
  <2> QED
    BY <2>1, <2>2 DEF SignExtend16, IsNeg8, LowByte
<1> QED
  BY <1>2, <1>3, <1>4 DEF ByteOrWord, IsPlace

\* What the instructions that compare work on.
LEMMA ComparedType ==
  ASSUME TypeOK
  PROVE  /\ DwLeft \in Word /\ DwRight \in Word /\ ByteOrWord(RmData, W)
         /\ RegisterData \in Word /\ ExtendedImmediate \in Word
         /\ Immediate(0) \in Word /\ Immediate(D) \in Word /\ AccImm \in Word
         /\ get_registers(Store, AX, W) \in Word
         /\ ByteOrWord(regs[Reg1], 1)
<1>1. IsStore(Store) /\ W \in {0, 1} /\ D \in {0, 1} /\ 0 \in Word
  BY StoreType, BytesType, WordDef
<1>2. /\ DwLeft \in Word /\ DwRight \in Word /\ RegisterData \in Word
      /\ ByteOrWord(RmData, W)
  BY <1>1, OperandType, PlaceType, DataForm DEF DwLeft, DwRight, RegisterData, RmData
<1>3. Immediate(0) \in Word /\ Immediate(D) \in Word /\ AccImm \in Word
  BY <1>1, ImmediateType
<1>4. ExtendedImmediate \in Word
  BY <1>3, SignExtendType, WordDef DEF ExtendedImmediate
<1>5. get_registers(Store, AX, W) \in Word
  BY <1>1, GetRegistersType DEF AX, RegNum
<1>6. ByteOrWord(regs[Reg1], 1)
  BY BytesType DEF TypeOK, ByteOrWord
<1> QED
  BY <1>2, <1>3, <1>4, <1>5, <1>6

-----------------------------------------------------------------------------
(* The steps *)

\* The handlers whose flags a comparison is recorded for.
Compared ==
  {"cmp_0", "cmp_1", "cmp_2", "sub_0", "sub_1", "sub_2", "neg", "inc_0", "inc_1",
   "dec_0", "dec_1", "and_0", "or_0", "xor_0", "test_0", "and_1", "test_1", "or_1",
   "xor_1"}

Comparing ==
  \/ op_cmp_0 \/ op_cmp_1 \/ op_cmp_2 \/ op_sub_0 \/ op_sub_1 \/ op_sub_2 \/ op_neg
  \/ op_inc_0 \/ op_inc_1 \/ op_dec_0 \/ op_dec_1 \/ op_and_0 \/ op_or_0 \/ op_xor_0
  \/ op_test_0 \/ op_and_1 \/ op_test_1 \/ op_or_1 \/ op_xor_1

\* The other actions fetch another handler.
LEMMA OnlyComparing ==
  ASSUME TypeOK, Running, Next, handler \in Compared PROVE Comparing
<1>1. ASSUME NEW n, n \notin Compared PROVE ~Fetch(n)
  BY <1>1 DEF Fetch, handler
<1>2. ASSUME NEW n PROVE ~FetchPc(n)
  BY DEF FetchPc, handler, Compared
<1>3. ~StackAndControl
  BY <1>1, <1>2 DEF StackAndControl, Compared, op_push_0, op_pop_0, op_push_1, op_pop_1,
     op_push_2, op_call_1, op_jmp_2, op_ret, op_call_0, op_jmp, op_cond_jmp
<1>4. ~NoEffect
  <2>1. \A n \in OneByteNoOps \cup {"in_0", "out_0", "rep"} \cup AccNoOps
               \cup {"mov_3", "mov_4"} \cup ModRmNoOps \cup {"ssb_1"} : n \notin Compared
    BY DEF OneByteNoOps, Ports, FlagTransfers, ProcessorControl, AccNoOps, AddImmediates,
       ModRmNoOps, Multiplications, LoadPointers, Compared
  <2> QED
    BY <1>1, <1>2, <2>1 DEF NoEffect, SkipByte, SkipByte2, SkipAcc, SkipAddr, SkipRM,
       op_ssb_1, unmatched
<1>5. ~Syscalls
  BY <1>1 DEF Syscalls, Compared, Syscall, sys_exit_1, sys_write_4, sys_brk_17,
     sys_ioctl_54, sys_missing, int_disassemble
<1>6. ~main_return
  <2>1. PC \in Int /\ a_text \in Int
    BY ImagesAssumption, WordDef DEF TypeOK
  <2> QED
    BY <2>1 DEF main_return, Running
<1>7. Computation
  BY <1>3, <1>4, <1>5, <1>6 DEF Next
<1>8. ~op_mov_0 /\ ~op_add_0 /\ ~op_add_1 /\ ~op_mov_1 /\ ~op_xchg_0
  BY <1>1 DEF Compared, op_mov_0, op_add_0, op_add_1, op_mov_1, op_xchg_0
<1>9. ~op_div
  BY <1>1 DEF Compared, op_div
<1>10. ~op_xchg_1 /\ ~op_lea /\ ~op_mov_2 /\ ~op_cbw /\ ~op_cwd
  BY <1>1 DEF Compared, op_xchg_1, op_lea, op_mov_2, op_cbw, op_cwd
<1>11. ~op_shl /\ ~op_sar /\ ~op_rotate
  BY <1>1 DEF Compared, op_shl, op_sar, op_rotate
<1> QED
  BY <1>7, <1>8, <1>9, <1>10, <1>11 DEF Computation, Comparing

\* The comparison recorded for each handler.
LEMMA MadeBy ==
  /\ handler = "cmp_0" => ComparisonMade = Subtraction(DwLeft, DwRight)
  /\ handler = "sub_0" => ComparisonMade = DirectSubtraction(DwLeft, DwRight)
  /\ handler = "cmp_1" => ComparisonMade = Subtraction(RmData, ExtendedImmediate)
  /\ handler = "sub_1" => ComparisonMade = Subtraction(RmData, Immediate(D))
  /\ handler = "sub_2" \/ (handler = "cmp_2" /\ W = 1)
       => ComparisonMade = Subtraction(get_registers(Store, AX, W), AccImm)
  /\ handler = "neg" => ComparisonMade = Negation(RmData)
  /\ handler = "inc_0" => ComparisonMade = Increment(RmData, W)
  /\ handler = "inc_1" => ComparisonMade = Increment(regs[Reg1], 1)
  /\ handler = "dec_0" => ComparisonMade = Decrement(RmData, W)
  /\ handler = "dec_1" => ComparisonMade = Decrement(regs[Reg1], 1)
  /\ handler = "and_0" => ComparisonMade = Result(And(DwLeft, DwRight))
  /\ handler = "or_0" => ComparisonMade = Result(Or(DwLeft, DwRight))
  /\ handler = "xor_0" => ComparisonMade = Result(Xor(DwLeft, DwRight))
  /\ handler = "test_0" => ComparisonMade = Result(And(RmData, RegisterData))
  /\ handler \in {"and_1", "test_1"} => ComparisonMade = Result(And(RmData, Immediate(0)))
  /\ handler = "or_1" => ComparisonMade = Result(Or(RmData, Immediate(0)))
  /\ handler = "xor_1" => ComparisonMade = Result(Xor(RmData, Immediate(0)))
<1>1. /\ handler = "cmp_0" => ComparisonMade = Subtraction(DwLeft, DwRight)
      /\ handler = "sub_0" => ComparisonMade = DirectSubtraction(DwLeft, DwRight)
  BY DEF ComparisonMade, AccumulatorForm
<1>2. handler = "cmp_1" => ComparisonMade = Subtraction(RmData, ExtendedImmediate)
  BY DEF ComparisonMade, AccumulatorForm
<1>3. handler = "sub_1" => ComparisonMade = Subtraction(RmData, Immediate(D))
  BY DEF ComparisonMade, AccumulatorForm
<1>4. handler = "sub_2" \/ (handler = "cmp_2" /\ W = 1)
       => ComparisonMade = Subtraction(get_registers(Store, AX, W), AccImm)
  BY DEF ComparisonMade, AccumulatorForm
<1>5. handler = "neg" => ComparisonMade = Negation(RmData)
  BY DEF ComparisonMade, AccumulatorForm
<1>6. handler = "inc_0" => ComparisonMade = Increment(RmData, W)
  BY DEF ComparisonMade, AccumulatorForm
<1>7. handler = "inc_1" => ComparisonMade = Increment(regs[Reg1], 1)
  BY DEF ComparisonMade, AccumulatorForm
<1>8. handler = "dec_0" => ComparisonMade = Decrement(RmData, W)
  BY DEF ComparisonMade, AccumulatorForm
<1>9. handler = "dec_1" => ComparisonMade = Decrement(regs[Reg1], 1)
  BY DEF ComparisonMade, AccumulatorForm
<1>10. handler = "and_0" => ComparisonMade = Result(And(DwLeft, DwRight))
  BY DEF ComparisonMade, AccumulatorForm
<1>11. handler = "or_0" => ComparisonMade = Result(Or(DwLeft, DwRight))
  BY DEF ComparisonMade, AccumulatorForm
<1>12. handler = "xor_0" => ComparisonMade = Result(Xor(DwLeft, DwRight))
  BY DEF ComparisonMade, AccumulatorForm
<1>13. handler = "test_0" => ComparisonMade = Result(And(RmData, RegisterData))
  BY DEF ComparisonMade, AccumulatorForm
<1>14. handler \in {"and_1", "test_1"} => ComparisonMade = Result(And(RmData, Immediate(0)))
  BY DEF ComparisonMade, AccumulatorForm
<1>15. handler = "or_1" => ComparisonMade = Result(Or(RmData, Immediate(0)))
  BY DEF ComparisonMade, AccumulatorForm
<1>16. handler = "xor_1" => ComparisonMade = Result(Xor(RmData, Immediate(0)))
  BY DEF ComparisonMade, AccumulatorForm
<1> QED
  BY <1>1, <1>2, <1>3, <1>4, <1>5, <1>6, <1>7, <1>8, <1>9, <1>10, <1>11, <1>12, <1>13, <1>14, <1>15, <1>16

\* Any other handler overlays the flags or leaves them.
LEMMA MadeByOthers ==
  ASSUME handler \notin Compared \/ (handler = "cmp_2" /\ W # 1)
  PROVE  ComparisonMade = IF flags' = flags THEN compared ELSE NoComparison
  BY DEF ComparisonMade, AccumulatorForm, Compared

\* An instruction that computes is fetched from a handler.
LEMMA ComputationFetches == ASSUME Computation PROVE \E n : n # "none" /\ Fetch(n)
<1>1. CASE op_mov_0 \/ op_add_0 \/ op_sub_0 \/ op_cmp_0 \/ op_and_0
  BY <1>1 DEF op_mov_0, op_add_0, op_sub_0, op_cmp_0, op_and_0
<1>2. CASE op_or_0 \/ op_xor_0 \/ op_add_1 \/ op_sub_1 \/ op_cmp_1
  BY <1>2 DEF op_or_0, op_xor_0, op_add_1, op_sub_1, op_cmp_1
<1>3. CASE op_mov_1 \/ op_and_1 \/ op_or_1 \/ op_xor_1 \/ op_test_1
  BY <1>3 DEF op_mov_1, op_and_1, op_or_1, op_xor_1, op_test_1
<1>4. CASE op_test_0 \/ op_inc_0 \/ op_dec_0 \/ op_neg \/ op_xchg_0
  BY <1>4 DEF op_test_0, op_inc_0, op_dec_0, op_neg, op_xchg_0
<1>5. CASE op_div \/ op_cmp_2 \/ op_sub_2
  BY <1>5 DEF op_div, op_cmp_2, op_sub_2
<1>6. CASE op_xchg_1 \/ op_inc_1 \/ op_dec_1 \/ op_lea \/ op_mov_2
  BY <1>6 DEF op_xchg_1, op_inc_1, op_dec_1, op_lea, op_mov_2
<1>7. CASE op_cbw \/ op_cwd
  BY <1>7 DEF op_cbw, op_cwd
<1>8. CASE op_shl
  BY <1>8 DEF op_shl
<1>9. CASE op_sar
  BY <1>9 DEF op_sar
<1>10. CASE op_rotate
  BY <1>10 DEF op_rotate
<1> QED
  BY <1>1, <1>2, <1>3, <1>4, <1>5, <1>6, <1>7, <1>8, <1>9, <1>10 DEF Computation

\* A turn of the loop runs while PC is in the text area.
LEMMA StepsRun == ASSUME Next, ~main_return PROVE Running
<1>1. ASSUME NEW n PROVE (Fetch(n) => Running) /\ (FetchPc(n) => Running)
  BY DEF Fetch, FetchPc
<1>2. Computation => Running
  BY <1>1, ComputationFetches
<1>3. StackAndControl => Running
  BY <1>1 DEF StackAndControl, op_push_0, op_pop_0, op_push_1, op_pop_1, op_push_2,
     op_call_1, op_jmp_2, op_ret, op_call_0, op_jmp, op_cond_jmp
<1>4. NoEffect => Running
  BY <1>1 DEF NoEffect, SkipByte, SkipByte2, SkipAcc, SkipAddr, SkipRM, op_ssb_1, unmatched
<1>5. Syscalls => Running
  BY <1>1 DEF Syscalls, Syscall, sys_exit_1, sys_write_4, sys_brk_17, sys_ioctl_54,
     sys_missing, int_disassemble
<1> QED
  BY <1>2, <1>3, <1>4, <1>5 DEF Next

\* An instruction that compares leaves flags that tell of its comparison.
LEMMA ComparingTells ==
  ASSUME TypeOK, Comparing, Tells(flags, compared), status' = "run"
  PROVE  Tells(flags', ComparisonMade)
<1> USE ComparedType
<1>1. W \in {0, 1} /\ flags \in Flags
  BY BytesType DEF TypeOK
<1>2. ASSUME NEW how \in {"exit", "crash"}, NEW k PROVE ~Halt(how, k)
  BY <1>2 DEF Halt
<1>3. CASE op_cmp_0 \/ op_sub_0
  <2>1. \/ handler = "cmp_0" /\ flags' = CmpFlags(DwLeft, DwRight, W)
        \/ handler = "sub_0" /\ flags' = SubFlags(DwLeft, DwRight, W)
    BY <1>3 DEF op_cmp_0, op_sub_0, DwRetire, Retire, Fetch, handler
  <2> QED
    BY <1>1, <2>1, MadeBy, SubtractionTells
<1>4. CASE op_cmp_1
  <2>1. handler = "cmp_1" /\ flags' = CmpFlags(RmData, ExtendedImmediate, W)
    BY <1>2, <1>4 DEF op_cmp_1, Retire, Fetch, handler, ExtendedImmediate
  <2> QED
    BY <1>1, <2>1, MadeBy, SubtractionTells DEF ByteOrWord
<1>5. CASE op_sub_1
  <2>1. handler = "sub_1" /\ flags' = CmpFlags(RmData, Immediate(D), W)
    BY <1>2, <1>5 DEF op_sub_1, Retire, Fetch, handler
  <2> QED
    BY <1>1, <2>1, MadeBy, SubtractionTells DEF ByteOrWord
<1>6. CASE op_sub_2 \/ (op_cmp_2 /\ W = 1)
  <2>1. /\ handler = "sub_2" \/ (handler = "cmp_2" /\ W = 1)
        /\ flags' = CmpFlags(get_registers(Store, AX, W), AccImm, W)
    BY <1>6 DEF op_sub_2, op_cmp_2, Retire, Fetch, handler
  <2> QED
    BY <1>1, <2>1, MadeBy, SubtractionTells
<1>7. CASE op_cmp_2 /\ W # 1
  <2>1. handler = "cmp_2"
    BY <1>7 DEF op_cmp_2, Fetch, handler
  <2> QED
    BY <1>7, <2>1, MadeByOthers, NothingTold
<1>8. CASE op_neg
  <2>1. handler = "neg" /\ flags' = NegFlags(RmData, W)
    BY <1>8 DEF op_neg, Retire, Fetch, handler
  <2> QED
    BY <1>1, <2>1, MadeBy, NegationTells
<1>9. CASE op_inc_0
  <2>1. handler = "inc_0" /\ flags' = IncFlags(flags, RmData, W)
    BY <1>9 DEF op_inc_0, Retire, Fetch, handler
  <2> QED
    BY <1>1, <2>1, MadeBy, IncrementTells
<1>10. CASE op_inc_1
  <2>1. handler = "inc_1" /\ flags' = IncFlags(flags, regs[Reg1], 1)
    BY <1>10 DEF op_inc_1, Retire, Fetch, handler
  <2> QED
    BY <1>1, <2>1, MadeBy, IncrementTells
<1>11. CASE op_dec_0
  <2>1. handler = "dec_0" /\ flags' = DecFlags(flags, RmData)
    BY <1>11 DEF op_dec_0, Retire, Fetch, handler
  <2> QED
    BY <1>1, <2>1, MadeBy, DecrementTells
<1>12. CASE op_dec_1
  <2>1. handler = "dec_1" /\ flags' = DecFlags(flags, regs[Reg1])
    BY <1>12 DEF op_dec_1, Retire, Fetch, handler
  <2> QED
    BY <1>1, <2>1, MadeBy, DecrementTells
<1>13. CASE op_and_0 \/ op_or_0 \/ op_xor_0
  <2>1. \E res \in Word : flags' = LogicFlags(res, W) /\ ComparisonMade = Result(res)
    BY <1>13, MadeBy, BitwiseType
       DEF op_and_0, op_or_0, op_xor_0, DwRetire, Retire, Fetch, handler
  <2> QED
    BY <1>1, <2>1, ResultTells
<1>14. CASE op_test_0
  <2>1. handler = "test_0" /\ flags' = LogicFlags(And(RmData, RegisterData), W)
    BY <1>14 DEF op_test_0, Retire, Fetch, handler, RegisterData
  <2> QED
    BY <1>1, <2>1, MadeBy, ResultTells, BitwiseType
<1>15. CASE op_and_1 \/ op_test_1 \/ op_or_1 \/ op_xor_1
  <2>1. \E res \in Word : flags' = LogicFlags(res, W) /\ ComparisonMade = Result(res)
    BY <1>15, MadeBy, BitwiseType
       DEF op_and_1, op_test_1, op_or_1, op_xor_1, ImmRetire, Retire, Fetch, handler
  <2> QED
    BY <1>1, <2>1, ResultTells
<1>16. (op_cmp_2 /\ W = 1) \/ (op_cmp_2 /\ W # 1) \/ ~op_cmp_2
  OBVIOUS
<1> QED
  BY <1>3, <1>4, <1>5, <1>6, <1>7, <1>8, <1>9, <1>10, <1>11, <1>12, <1>13, <1>14,
     <1>15, <1>16 DEF Comparing

\* A conditional jump is op_cond_jmp's, with the byte at PC and the next one.
LEMMA JumpStep ==
  ASSUME TypeOK, Next, Judged
  PROVE  IF CanJump(byte1, flags, regs[CX]) THEN Taken ELSE NotTaken
<1>1. byte1 \in Byte /\ byte1 \in 112 .. 127 /\ Reg(byte2) \in AnyFlag
  BY BytesType DEF Judged, RegNum, AnyFlag
<1>2. Handler[byte1][Reg(byte2)] = "none" /\ PcHandler[byte1] = "cond_jmp"
  BY <1>1, JumpsAreNotHandled, PcEncoding
<1>3. PcEntry = PC /\ Text(PcEntry) = byte1 /\ Text(PcEntry + 1) = byte2
  BY <1>2 DEF PcEntry, byte1, byte2
<1>4. ASSUME NEW n, n # "none" PROVE ~Fetch(n)
  BY <1>2, <1>4 DEF Fetch
<1>5. ASSUME NEW n, n # "cond_jmp" PROVE ~FetchPc(n)
  BY <1>2, <1>3, <1>5 DEF FetchPc
<1>6. ~Computation
  BY <1>4, ComputationFetches
<1>7. ~Syscalls
  BY <1>4 DEF Syscalls, Syscall, sys_exit_1, sys_write_4, sys_brk_17, sys_ioctl_54,
     sys_missing, int_disassemble
<1>8. ~NoEffect
  <2>1. \A n \in OneByteNoOps \cup {"in_0", "out_0", "rep"} \cup AccNoOps
               \cup {"mov_3", "mov_4"} \cup ModRmNoOps \cup {"ssb_1"} : n # "none"
    BY DEF OneByteNoOps, Ports, FlagTransfers, ProcessorControl, AccNoOps, AddImmediates,
       ModRmNoOps, Multiplications, LoadPointers
  <2> QED
    BY <1>4, <1>5, <2>1 DEF NoEffect, SkipByte, SkipByte2, SkipAcc, SkipAddr, SkipRM,
       op_ssb_1, unmatched
<1>9. ~main_return
  <2>1. PC \in Int /\ a_text \in Int
    BY ImagesAssumption, WordDef DEF TypeOK
  <2> QED
    BY <2>1 DEF main_return, Judged, Running
<1>10. op_cond_jmp
  BY <1>4, <1>5, <1>6, <1>7, <1>8, <1>9 DEF Next, StackAndControl, op_push_0, op_pop_0,
     op_push_1, op_pop_1, op_push_2, op_call_1, op_jmp_2, op_ret, op_call_0, op_jmp
<1>11. PC \in Int /\ SignExtend16(byte2) \in Int
  <2>1. PC \in Word /\ byte2 \in Byte
    BY BytesType DEF TypeOK
  <2>2. byte2 \in Int
    BY <2>1, ByteDef
  <2>3. SignExtend16(byte2) \in Word
    BY <2>2, SignExtendType
  <2> QED
    BY <2>1, <2>3, WordDef
<1>12. Wrap(Wrap(PC + 2) + SignExtend16(byte2)) = Wrap(PC + 2 + SignExtend16(byte2))
  BY <1>11 DEF Wrap
<1>13. mode # "DISSASSEMBLE"
  BY DEF Judged
<1> QED
  BY <1>3, <1>10, <1>12, <1>13 DEF op_cond_jmp, Jump, Skip, Retire, Taken, NotTaken

\* While the process runs, its flags tell of the comparison on record.
ComparingInv == TypeOK /\ (status = "run" => Tells(flags, compared))

\* The inductive invariant: whatever writes the flags keeps the record true.
LEMMA ComparingInvariant == ComparingSpec => []ComparingInv
<1>1. ComparingInit => ComparingInv
  BY InitType, NothingTold DEF ComparingInit, ComparingInv
<1>2. ASSUME ComparingInv, [ComparingNext]_ComparingVars PROVE ComparingInv'
  <2>1. TypeOK'
    BY <1>2, NextType DEF ComparingInv, ComparingNext, ComparingVars
  <2>2. ASSUME ComparingNext, status' = "run" PROVE Tells(flags', compared')
    <3>1. TypeOK /\ Next
      BY <1>2, <2>2 DEF ComparingInv, ComparingNext
    <3>2. status = "run" /\ Running
      <4>1. ~main_return
        BY <2>2 DEF main_return, Halt
      <4>2. Running
        BY <3>1, <4>1, StepsRun
      <4> QED
        BY <4>2 DEF Running
    <3>3. Tells(flags, compared) /\ compared' = ComparisonMade
      BY <1>2, <2>2, <3>2 DEF ComparingInv, ComparingNext
    <3>4. CASE handler \in Compared
      BY <2>2, <3>1, <3>2, <3>3, <3>4, OnlyComparing, ComparingTells
    <3>5. CASE handler \notin Compared
      BY <3>3, <3>5, MadeByOthers, NothingTold
    <3> QED
      BY <3>4, <3>5
  <2>3. CASE UNCHANGED ComparingVars
    BY <1>2, <2>1, <2>3 DEF ComparingInv, ComparingVars, vars
  <2> QED
    BY <1>2, <2>1, <2>2, <2>3 DEF ComparingInv
<1> QED
  BY <1>1, <1>2, PTL DEF ComparingSpec

\* Whatever the program, a conditional jump that asks what the flags can
\* answer is taken exactly when the numbers last compared are related as the
\* jump says (handlers of cmp, sub, neg, inc, dec, and, or, xor, test, and
\* can_jump): BranchesFollowComparison.
THEOREM BranchesRight == ComparingSpec => BranchesFollowComparison
<1> DEFINE Right == Judged => BranchIsRight
<1>1. ASSUME ComparingInv, ComparingNext PROVE Right
  <2>1. SUFFICES ASSUME Judged PROVE BranchIsRight
    OBVIOUS
  <2>2. TypeOK /\ Next /\ Tells(flags, compared) /\ flags \in Flags
    BY <1>1, <2>1 DEF ComparingInv, ComparingNext, Judged, Running, TypeOK
  <2>3. CanJump(byte1, flags, regs[CX]) <=> Relation(byte1, compared)
    BY <2>1, <2>2, JumpAsks DEF Judged
  <2> QED
    BY <2>1, <2>2, <2>3, JumpStep DEF BranchIsRight
<1> HIDE DEF Right
<1>2. ComparingInv /\ [ComparingNext]_ComparingVars => [Right]_ComparingVars
  BY <1>1
<1>3. ComparingSpec => [][Right]_ComparingVars
  BY <1>2, ComparingInvariant, PTL DEF ComparingSpec
<1> QED
  BY <1>3 DEF Right, BranchesFollowComparison
=============================================================================
