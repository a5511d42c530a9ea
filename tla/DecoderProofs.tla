--------------------------- MODULE DecoderProofs ----------------------------
(***************************************************************************)
(* Which instruction bytes reach which handler: the masked comparisons of   *)
(* the dispatch tables as intervals, the search of a table, the groups one  *)
(* after the other, and what they select against the instruction set.       *)
(***************************************************************************)
EXTENDS Dispatch, CpuProofs, SequenceTheorems

-----------------------------------------------------------------------------
(* Masks *)

\* An integer is twice another and a binary digit.
LEMMA Halving == ASSUME NEW n \in Int PROVE \E q \in Int, d \in {0, 1} : n = 2 * q + d
<1>1. n \div 2 \in Int /\ n % 2 \in {0, 1} /\ n = 2 * (n \div 2) + (n % 2)
  OBVIOUS
<1> QED
  BY <1>1

\* A byte is its eight binary digits.
LEMMA Digits ==
  ASSUME NEW b \in Byte
  PROVE  \E d0, d1, d2, d3, d4, d5, d6, d7 \in {0, 1} :
           b = d0 + 2*d1 + 4*d2 + 8*d3 + 16*d4 + 32*d5 + 64*d6 + 128*d7
<1>0. b \in Int /\ 0 <= b /\ b <= 255
  BY ByteDef
<1>1. PICK q1 \in Int, d0 \in {0, 1} : b = 2 * q1 + d0
  BY <1>0, Halving
<1>2. PICK q2 \in Int, d1 \in {0, 1} : q1 = 2 * q2 + d1
  BY Halving
<1>3. PICK q3 \in Int, d2 \in {0, 1} : q2 = 2 * q3 + d2
  BY Halving
<1>4. PICK q4 \in Int, d3 \in {0, 1} : q3 = 2 * q4 + d3
  BY Halving
<1>5. PICK q5 \in Int, d4 \in {0, 1} : q4 = 2 * q5 + d4
  BY Halving
<1>6. PICK q6 \in Int, d5 \in {0, 1} : q5 = 2 * q6 + d5
  BY Halving
<1>7. PICK d7 \in Int, d6 \in {0, 1} : q6 = 2 * d7 + d6
  BY Halving
<1>8. d7 \in {0, 1}
  BY <1>0, <1>1, <1>2, <1>3, <1>4, <1>5, <1>6, <1>7
<1> QED
  BY <1>0, <1>1, <1>2, <1>3, <1>4, <1>5, <1>6, <1>7, <1>8

\* The bit tests pick out the digits.
LEMMA BitsAreDigits ==
  ASSUME NEW d0 \in {0, 1}, NEW d1 \in {0, 1}, NEW d2 \in {0, 1}, NEW d3 \in {0, 1},
         NEW d4 \in {0, 1}, NEW d5 \in {0, 1}, NEW d6 \in {0, 1}, NEW d7 \in {0, 1},
         NEW b, b = d0 + 2*d1 + 4*d2 + 8*d3 + 16*d4 + 32*d5 + 64*d6 + 128*d7
  PROVE  /\ Bit(b, 128) <=> d7 = 1
         /\ Bit(b, 64) <=> d6 = 1
         /\ Bit(b, 32) <=> d5 = 1
         /\ Bit(b, 16) <=> d4 = 1
         /\ Bit(b, 8) <=> d3 = 1
         /\ Bit(b, 4) <=> d2 = 1
         /\ Bit(b, 2) <=> d1 = 1
         /\ Bit(b, 1) <=> d0 = 1
<1>1. b \in Int
  OBVIOUS
<1>2. b \div 128 = d7 /\ b \div 64 = 2*d7 + d6 /\ b \div 32 = 4*d7 + 2*d6 + d5
  BY <1>1
<1>3. b \div 16 = 8*d7 + 4*d6 + 2*d5 + d4
  BY <1>1
<1>4. b \div 8 = 16*d7 + 8*d6 + 4*d5 + 2*d4 + d3
  BY <1>1
<1>5. b \div 4 = 32*d7 + 16*d6 + 8*d5 + 4*d4 + 2*d3 + d2
  BY <1>1
<1>6. b \div 2 = 64*d7 + 32*d6 + 16*d5 + 8*d4 + 4*d3 + 2*d2 + d1
  BY <1>1
<1>7. b \div 1 = b
  BY <1>1
<1> QED
  BY <1>1, <1>2, <1>3, <1>4, <1>5, <1>6, <1>7 DEF Bit

\* What each mask of the tables leaves of a byte.
LEMMA Masked ==
  ASSUME NEW b \in Byte
  PROVE  /\ And8(b, Exact) = b
         /\ And8(b, W_MASK) = b - (b % 2)
         /\ And8(b, DW_MASK) = b - (b % 4)
         /\ And8(b, REG_MASK) = b - (b % 8)
         /\ And8(b, MOV2_MASK) = b - (b % 16)
         /\ And8(b, SEG_MASK) = (b - (b % 32)) + (b % 8)
<1>1. PICK d0, d1, d2, d3, d4, d5, d6, d7 \in {0, 1} :
        b = d0 + 2*d1 + 4*d2 + 8*d3 + 16*d4 + 32*d5 + 64*d6 + 128*d7
  BY Digits
<1>2. /\ Bit(b, 128) <=> d7 = 1
      /\ Bit(b, 64) <=> d6 = 1
      /\ Bit(b, 32) <=> d5 = 1
      /\ Bit(b, 16) <=> d4 = 1
      /\ Bit(b, 8) <=> d3 = 1
      /\ Bit(b, 4) <=> d2 = 1
      /\ Bit(b, 2) <=> d1 = 1
      /\ Bit(b, 1) <=> d0 = 1
  BY <1>1, BitsAreDigits
<1>3. /\ b % 2 = d0
      /\ b % 4 = d0 + 2*d1
      /\ b % 8 = d0 + 2*d1 + 4*d2
  BY <1>1
<1>4. /\ b % 16 = d0 + 2*d1 + 4*d2 + 8*d3
      /\ b % 32 = d0 + 2*d1 + 4*d2 + 8*d3 + 16*d4
  BY <1>1
<1>5. \A m : And8(b, m) = (IF Bit(m, 128) THEN 128*d7 ELSE 0)
                        + (IF Bit(m, 64) THEN 64*d6 ELSE 0)
                        + (IF Bit(m, 32) THEN 32*d5 ELSE 0)
                        + (IF Bit(m, 16) THEN 16*d4 ELSE 0)
                        + (IF Bit(m, 8) THEN 8*d3 ELSE 0)
                        + (IF Bit(m, 4) THEN 4*d2 ELSE 0)
                        + (IF Bit(m, 2) THEN 2*d1 ELSE 0)
                        + (IF Bit(m, 1) THEN d0 ELSE 0)
  BY <1>2 DEF And8, FromBits
<1>6. And8(b, Exact) = b /\ And8(b, W_MASK) = b - (b % 2)
  <2>1. /\ \A n \in {1, 2, 4, 8, 16, 32, 64, 128} : Bit(255, n)
        /\ \A n \in {2, 4, 8, 16, 32, 64, 128} : Bit(254, n)
        /\ ~Bit(254, 1)
    BY DEF Bit
  <2> QED
    BY <1>1, <1>3, <1>5, <2>1 DEF Exact, W_MASK
<1>7. And8(b, DW_MASK) = b - (b % 4) /\ And8(b, REG_MASK) = b - (b % 8)
  <2>1. /\ \A n \in {4, 8, 16, 32, 64, 128} : Bit(252, n)
        /\ \A n \in {8, 16, 32, 64, 128} : Bit(248, n)
        /\ \A n \in {1, 2} : ~Bit(252, n)
        /\ \A n \in {1, 2, 4} : ~Bit(248, n)
    BY DEF Bit
  <2> QED
    BY <1>1, <1>3, <1>5, <2>1 DEF DW_MASK, REG_MASK
<1>8. And8(b, MOV2_MASK) = b - (b % 16) /\ And8(b, SEG_MASK) = (b - (b % 32)) + (b % 8)
  <2>1. /\ \A n \in {16, 32, 64, 128} : Bit(240, n)
        /\ \A n \in {1, 2, 4, 32, 64, 128} : Bit(231, n)
        /\ \A n \in {1, 2, 4, 8} : ~Bit(240, n)
        /\ \A n \in {8, 16} : ~Bit(231, n)
    BY DEF Bit
  <2> QED
    BY <1>1, <1>3, <1>4, <1>5, <2>1 DEF MOV2_MASK, SEG_MASK
<1> QED
  BY <1>6, <1>7, <1>8

-----------------------------------------------------------------------------
(* Searching a table *)

RowsOf(table, n) == {table[k] : k \in 1 .. n}

\* The rows of the six tables.
Rows == RowsOf(op_dw, 9) \cup RowsOf(op_sw, 5) \cup RowsOf(op_w, 25)
        \cup RowsOf(instructs_reg_only, 5) \cup RowsOf(op_others, 43) \cup RowsOf(op_pc, 5)

Accepts(row, b, flag) == b \in row.bytes /\ flag \in row.field

Refuses(table, b, flag) == \A k \in 1 .. Len(table) : ~Accepts(table[k], b, flag)

\* The first row that accepts a byte and a flag is row k.
Selects(table, b, flag, k) ==
  /\ Accepts(table[k], b, flag)
  /\ \A m \in 1 .. Len(table) : m < k => ~Accepts(table[m], b, flag)

\* A row has the name it is written with.
LEMMA RowHasName ==
  ASSUME NEW name, NEW mask, NEW op, NEW field
  PROVE  Row(name, mask, op, field).name = name
  BY DEF Row

\* A row accepts the bytes its mask lets through.
LEMMA RowAccepts ==
  ASSUME NEW name, NEW mask, NEW op, NEW field, NEW b \in Byte, NEW flag
  PROVE  Accepts(Row(name, mask, op, field), b, flag) <=> And8(b, mask) = op /\ flag \in field
  BY DEF Row, Accepts

\* The tables are sequences of rows.
LEMMA TablesType ==
  /\ op_dw \in Seq(Rows) /\ Len(op_dw) = 9
  /\ op_sw \in Seq(Rows) /\ Len(op_sw) = 5
  /\ op_w \in Seq(Rows) /\ Len(op_w) = 25
  /\ instructs_reg_only \in Seq(Rows) /\ Len(instructs_reg_only) = 5
  /\ op_others \in Seq(Rows) /\ Len(op_others) = 43
  /\ op_pc \in Seq(Rows) /\ Len(op_pc) = 5
<1>1. ASSUME NEW t, NEW n \in Nat, t = [k \in 1 .. n |-> t[k]], RowsOf(t, n) \subseteq Rows
      PROVE  t \in Seq(Rows) /\ Len(t) = n
  <2>1. \A k \in 1 .. n : t[k] \in Rows
    BY <1>1 DEF RowsOf
  <2> QED
    BY <1>1, <2>1
<1>2. op_dw = [k \in 1 .. 9 |-> op_dw[k]]
  BY DEF op_dw
<1>3. op_sw = [k \in 1 .. 5 |-> op_sw[k]]
  BY DEF op_sw
<1>4. op_w = [k \in 1 .. 25 |-> op_w[k]]
  BY DEF op_w
<1>5. instructs_reg_only = [k \in 1 .. 5 |-> instructs_reg_only[k]]
  BY DEF instructs_reg_only
<1>6. op_others = [k \in 1 .. 43 |-> op_others[k]]
  BY DEF op_others
<1>7. op_pc = [k \in 1 .. 5 |-> op_pc[k]]
  BY DEF op_pc
<1>8. /\ RowsOf(op_dw, 9) \subseteq Rows /\ RowsOf(op_sw, 5) \subseteq Rows
      /\ RowsOf(op_w, 25) \subseteq Rows /\ RowsOf(instructs_reg_only, 5) \subseteq Rows
      /\ RowsOf(op_others, 43) \subseteq Rows /\ RowsOf(op_pc, 5) \subseteq Rows
  BY DEF Rows
<1> QED
  BY <1>1, <1>2, <1>3, <1>4, <1>5, <1>6, <1>7, <1>8

\* No handler is called "none".
LEMMA RowsAreNamed == \A r \in Rows : r.name # "none"
<1>1. ASSUME NEW k \in 1 .. 9 PROVE op_dw[k].name # "none"
  BY RowHasName DEF op_dw
<1>2. ASSUME NEW k \in 1 .. 5 PROVE op_sw[k].name # "none"
  BY RowHasName DEF op_sw
<1>3. ASSUME NEW k \in 1 .. 25 PROVE op_w[k].name # "none"
  BY RowHasName DEF op_w
<1>4. ASSUME NEW k \in 1 .. 5 PROVE instructs_reg_only[k].name # "none"
  BY RowHasName DEF instructs_reg_only
<1>5. ASSUME NEW k \in 1 .. 43 PROVE op_others[k].name # "none"
  BY RowHasName DEF op_others
<1>6. ASSUME NEW k \in 1 .. 5 PROVE op_pc[k].name # "none"
  BY RowHasName DEF op_pc
<1> QED
  BY <1>1, <1>2, <1>3, <1>4, <1>5, <1>6 DEF Rows, RowsOf

\* Nor is any row of a table.
LEMMA RowName == ASSUME NEW t \in Seq(Rows), NEW k \in 1 .. Len(t) PROVE t[k].name # "none"
  BY ElementOfSeq, RowsAreNamed

\* The search of a table ends at its first row that accepts, or refuses.
LEMMA FirstIsFirst ==
  ASSUME NEW t \in Seq(Rows), NEW b, NEW flag
  PROVE  \/ First(t, b, flag) = "none" /\ Refuses(t, b, flag)
         \/ \E k \in 1 .. Len(t) : First(t, b, flag) = t[k].name /\ Selects(t, b, flag, k)
<1> DEFINE hits == {k \in DOMAIN t : b \in t[k].bytes /\ flag \in t[k].field}
<1>1. DOMAIN t = 1 .. Len(t) /\ Len(t) \in Nat
  BY LenProperties
<1>2. First(t, b, flag) = IF hits = {} THEN "none"
                          ELSE t[CHOOSE k \in hits : \A m \in hits : k <= m].name
  BY DEF First
<1>3. CASE hits = {}
  BY <1>1, <1>2, <1>3 DEF Refuses, Accepts
<1>4. CASE hits # {}
  <2>1. hits \in SUBSET Nat
    BY <1>1
  <2>2. \E x \in hits : \A y \in hits : x <= y
    BY <1>4, <2>1, LeastElement
  <2> DEFINE k == CHOOSE x \in hits : \A y \in hits : x <= y
  <2>3. k \in hits /\ \A y \in hits : k <= y
    BY <2>2
  <2>4. First(t, b, flag) = t[k].name
    BY <1>2, <1>4
  <2> HIDE DEF k
  <2>5. k \in 1 .. Len(t) /\ Selects(t, b, flag, k)
    BY <1>1, <2>3 DEF Selects, Accepts
  <2> QED
    BY <2>4, <2>5
<1> QED
  BY <1>3, <1>4

\* What the search finds is a row's name, the search that selects a row finds
\* its name, and one that refuses finds "none".
LEMMA FirstUnique ==
  ASSUME NEW t \in Seq(Rows), NEW b, NEW flag
  PROVE  /\ First(t, b, flag) = "none" <=> Refuses(t, b, flag)
         /\ \A k \in 1 .. Len(t) :
              Selects(t, b, flag, k) => First(t, b, flag) = t[k].name
<1>1. \A k \in 1 .. Len(t) : t[k].name # "none"
  BY RowName
<1>2. \/ First(t, b, flag) = "none" /\ Refuses(t, b, flag)
      \/ \E k \in 1 .. Len(t) : First(t, b, flag) = t[k].name /\ Selects(t, b, flag, k)
  BY FirstIsFirst
<1>3. \A k, m \in 1 .. Len(t) :
        Selects(t, b, flag, k) /\ Selects(t, b, flag, m) => k = m
  <2>1. Len(t) \in Nat
    BY LenProperties
  <2> QED
    BY <2>1 DEF Selects
<1>4. \A k \in 1 .. Len(t) : Selects(t, b, flag, k) => ~Refuses(t, b, flag)
  BY DEF Selects, Refuses
<1> QED
  BY <1>1, <1>2, <1>3, <1>4

\* Groups are tried in turn: the second only if the first refuses.
LEMMA FirstOfGroups ==
  ASSUME NEW s \in Seq(Rows), NEW t \in Seq(Rows), NEW b, NEW flag
  PROVE  /\ s \o t \in Seq(Rows)
         /\ First(s \o t, b, flag) = IF First(s, b, flag) # "none" THEN First(s, b, flag)
                                     ELSE First(t, b, flag)
<1> DEFINE u == s \o t
<1>1. /\ u \in Seq(Rows) /\ Len(u) = Len(s) + Len(t)
      /\ \A k \in 1 .. Len(s) + Len(t) : u[k] = IF k <= Len(s) THEN s[k] ELSE t[k - Len(s)]
  BY ConcatProperties
<1>2. Len(s) \in Nat /\ Len(t) \in Nat
  BY LenProperties
<1> HIDE DEF u
<1>3. ASSUME NEW k \in 1 .. Len(s), Selects(s, b, flag, k)
      PROVE  First(u, b, flag) = First(s, b, flag) /\ First(s, b, flag) # "none"
  <2>1. u[k] = s[k] /\ k \in 1 .. Len(u) /\ s[k].name # "none"
    BY <1>1, <1>2, RowName
  <2>2. Selects(u, b, flag, k)
    BY <1>1, <1>2, <1>3, <2>1 DEF Selects
  <2>3. First(u, b, flag) = u[k].name /\ First(s, b, flag) = s[k].name
    BY <1>1, <1>3, <2>1, <2>2, FirstUnique
  <2> QED
    BY <2>1, <2>3
<1>4. ASSUME Refuses(s, b, flag), NEW k \in 1 .. Len(t), Selects(t, b, flag, k)
      PROVE  First(u, b, flag) = First(t, b, flag)
  <2> DEFINE j == Len(s) + k
  <2>1. j \in 1 .. Len(s) + Len(t) /\ ~(j <= Len(s)) /\ j - Len(s) = k
    BY <1>2
  <2>0. j \in 1 .. Len(u) /\ u[j] = t[k]
    BY <1>1, <2>1
  <2>2. ASSUME NEW m \in 1 .. Len(u), m < j PROVE ~Accepts(u[m], b, flag)
    <3>1. CASE m <= Len(s)
      BY <1>1, <1>2, <1>4, <2>2, <3>1 DEF Refuses
    <3>2. CASE ~(m <= Len(s))
      <4>1. u[m] = t[m - Len(s)] /\ m - Len(s) \in 1 .. Len(t) /\ m - Len(s) < k
        BY <1>1, <1>2, <2>2, <3>2
      <4> QED
        BY <1>4, <4>1 DEF Selects
    <3> QED
      BY <3>1, <3>2
  <2>3. Selects(u, b, flag, j)
    BY <1>4, <2>0, <2>2 DEF Selects
  <2> HIDE DEF j
  <2>4. First(u, b, flag) = u[j].name /\ First(t, b, flag) = t[k].name
    BY <1>1, <1>4, <2>0, <2>3, FirstUnique
  <2> QED
    BY <2>0, <2>4
<1>5. ASSUME Refuses(s, b, flag), Refuses(t, b, flag)
      PROVE  First(u, b, flag) = "none" /\ First(t, b, flag) = "none"
  <2>1. ASSUME NEW m \in 1 .. Len(u) PROVE ~Accepts(u[m], b, flag)
    <3>1. CASE m <= Len(s)
      BY <1>1, <1>2, <1>5, <2>1, <3>1 DEF Refuses
    <3>2. CASE ~(m <= Len(s))
      <4>1. u[m] = t[m - Len(s)] /\ m - Len(s) \in 1 .. Len(t)
        BY <1>1, <1>2, <2>1, <3>2
      <4> QED
        BY <1>5, <4>1 DEF Refuses
    <3> QED
      BY <3>1, <3>2
  <2>2. Refuses(u, b, flag)
    BY <2>1 DEF Refuses
  <2> QED
    BY <1>1, <1>5, <2>2, FirstUnique
<1>6. First(u, b, flag) = IF First(s, b, flag) # "none" THEN First(s, b, flag)
                          ELSE First(t, b, flag)
  BY <1>3, <1>4, <1>5, FirstIsFirst, FirstUnique
<1> QED
  BY <1>1, <1>6 DEF u

-----------------------------------------------------------------------------
(* The bytes that reach a row of each table.  The rows adc_1 and pop_2 are   *)
(* hidden by those before them, and the byte 31 never reaches ssb_2.         *)

\* op_dw: the two operands of a mod-reg-r/m byte.
DwBytes(n, b, flag) ==
  \/ n = "mov_0" /\ b \in 136 .. 139
  \/ n = "add_0" /\ b \in 0 .. 3
  \/ n = "adc_0" /\ b \in 16 .. 19
  \/ n = "sub_0" /\ b \in 40 .. 43
  \/ n = "ssb_0" /\ b \in 24 .. 27
  \/ n = "cmp_0" /\ b \in 56 .. 59
  \/ n = "and_0" /\ b \in 32 .. 35
  \/ n = "or_0" /\ b \in 8 .. 11
  \/ n = "xor_0" /\ b \in 48 .. 51

\* The bytes the rows of op_dw accept.
LEMMA DwRows ==
  ASSUME NEW b \in Byte, NEW flag \in AnyFlag, NEW k \in 1 .. 9,
         Accepts(op_dw[k], b, flag)
  PROVE  DwBytes(op_dw[k].name, b, flag)
<1>1. \A name, op, field : Accepts(Row(name, DW_MASK, op, field), b, flag) => op = b - (b % 4)
  BY RowAccepts, Masked
<1>2. b \in Int
  BY ByteDef
<1>3. k = 1 \/ k = 2 \/ k = 3 \/ k = 4 \/ k = 5 \/ k = 6 \/ k = 7 \/ k = 8 \/ k = 9
  OBVIOUS
<1> QED
  BY <1>1, <1>2, <1>3, RowHasName DEF op_dw, DwBytes

\* op_sw: an immediate that may be a sign-extended byte.
SwBytes(n, b, flag) ==
  \/ n = "add_1" /\ b \in 128 .. 131 /\ flag = 0
  \/ n = "sub_1" /\ b \in 128 .. 131 /\ flag = 5
  \/ n = "ssb_1" /\ b \in 128 .. 131 /\ flag = 3
  \/ n = "cmp_1" /\ b \in 128 .. 131 /\ flag = 7

\* The bytes the rows of op_sw accept.
LEMMA SwRows ==
  ASSUME NEW b \in Byte, NEW flag \in AnyFlag, NEW k \in 1 .. 5,
         Accepts(op_sw[k], b, flag), k # 2
  PROVE  SwBytes(op_sw[k].name, b, flag)
<1>1. \A name, op, field : Accepts(Row(name, SW_MASK, op, field), b, flag) => op = b - (b % 4)
  BY RowAccepts, Masked DEF SW_MASK, DW_MASK
<1>2. \A name, mask, op, field : Accepts(Row(name, mask, op, field), b, flag) => flag \in field
  BY RowAccepts
<1>3. b \in Int
  BY ByteDef
<1>4. k = 1 \/ k = 2 \/ k = 3 \/ k = 4 \/ k = 5
  OBVIOUS
<1> QED
  BY <1>1, <1>2, <1>3, <1>4, RowHasName DEF op_sw, SwBytes

\* op_w: one operand, or an operand and an immediate.
WBytes(n, b, flag) ==
  \/ n = "mov_1" /\ b \in 198 .. 199 /\ flag = 0
  \/ n = "mov_3" /\ b \in 160 .. 161
  \/ n = "mov_4" /\ b \in 162 .. 163
  \/ n = "add_2" /\ b \in 4 .. 5
  \/ n = "adc_2" /\ b \in 20 .. 21
  \/ n = "inc_0" /\ b \in 254 .. 255 /\ flag = 0
  \/ n = "dec_0" /\ b \in 254 .. 255 /\ flag = 1
  \/ n = "neg" /\ b \in 246 .. 247 /\ flag = 3
  \/ n = "mul" /\ b \in 246 .. 247 /\ flag = 4
  \/ n = "imul" /\ b \in 246 .. 247 /\ flag = 5
  \/ n = "div" /\ b \in 246 .. 247 /\ flag = 6
  \/ n = "idiv" /\ b \in 246 .. 247 /\ flag = 7
  \/ n = "not" /\ b \in 246 .. 247 /\ flag = 2
  \/ n = "and_1" /\ b \in 128 .. 129 /\ flag = 4
  \/ n = "xchg_0" /\ b \in 134 .. 135
  \/ n = "test_0" /\ b \in 132 .. 133
  \/ n = "test_1" /\ b \in 246 .. 247 /\ flag = 0
  \/ n = "or_1" /\ b \in 128 .. 129 /\ flag = 1
  \/ n = "xor_1" /\ b \in 128 .. 129 /\ flag = 6
  \/ n = "cmp_2" /\ b \in 60 .. 61
  \/ n = "push_0" /\ b = 255 /\ flag = 6
  \/ n = "pop_0" /\ b = 143 /\ flag = 0
  \/ n = "call_1" /\ b = 255 /\ flag = 2
  \/ n = "jmp_2" /\ b = 255 /\ flag = 4
  \/ n = "jmp_4" /\ b = 255 /\ flag = 5

\* The bytes the rows of op_w accept.
LEMMA WRows ==
  ASSUME NEW b \in Byte, NEW flag \in AnyFlag, NEW k \in 1 .. 25,
         Accepts(op_w[k], b, flag)
  PROVE  WBytes(op_w[k].name, b, flag)
<1>1. \A name, op, field : Accepts(Row(name, Exact, op, field), b, flag) => b = op
  BY RowAccepts, Masked
<1>2. \A name, op, field : Accepts(Row(name, W_MASK, op, field), b, flag) => op = b - (b % 2)
  BY RowAccepts, Masked
<1>3. \A name, mask, op, field : Accepts(Row(name, mask, op, field), b, flag) => flag \in field
  BY RowAccepts
<1>4. b \in Int
  BY ByteDef
<1>5. CASE k = 1 \/ k = 2 \/ k = 3 \/ k = 4 \/ k = 5 \/ k = 6
  <2>1. /\ op_w[1] = Row("mov_1", W_MASK, \b11000110, {0})
        /\ op_w[2] = Row("mov_3", W_MASK, \b10100000, AnyFlag)
        /\ op_w[3] = Row("mov_4", W_MASK, \b10100010, AnyFlag)
        /\ op_w[4] = Row("add_2", W_MASK, \b00000100, AnyFlag)
        /\ op_w[5] = Row("adc_2", W_MASK, \b00010100, AnyFlag)
        /\ op_w[6] = Row("inc_0", W_MASK, \b11111110, {0})
    BY DEF op_w
  <2> QED
    BY <2>1, <1>5, <1>1, <1>2, <1>3, <1>4, RowHasName DEF WBytes
<1>6. CASE k = 7 \/ k = 8 \/ k = 9 \/ k = 10 \/ k = 11 \/ k = 12
  <2>1. /\ op_w[7] = Row("dec_0", W_MASK, \b11111110, {1})
        /\ op_w[8] = Row("neg", W_MASK, \b11110110, {3})
        /\ op_w[9] = Row("mul", W_MASK, \b11110110, {4})
        /\ op_w[10] = Row("imul", W_MASK, \b11110110, {5})
        /\ op_w[11] = Row("div", W_MASK, \b11110110, {6})
        /\ op_w[12] = Row("idiv", W_MASK, \b11110110, {7})
    BY DEF op_w
  <2> QED
    BY <2>1, <1>6, <1>1, <1>2, <1>3, <1>4, RowHasName DEF WBytes
<1>7. CASE k = 13 \/ k = 14 \/ k = 15 \/ k = 16 \/ k = 17 \/ k = 18
  <2>1. /\ op_w[13] = Row("not", W_MASK, \b11110110, {2})
        /\ op_w[14] = Row("and_1", W_MASK, \b10000000, {4})
        /\ op_w[15] = Row("xchg_0", W_MASK, \b10000110, AnyFlag)
        /\ op_w[16] = Row("test_0", W_MASK, \b10000100, AnyFlag)
        /\ op_w[17] = Row("test_1", W_MASK, \b11110110, {0})
        /\ op_w[18] = Row("or_1", W_MASK, \b10000000, {1})
    BY DEF op_w
  <2> QED
    BY <2>1, <1>7, <1>1, <1>2, <1>3, <1>4, RowHasName DEF WBytes
<1>8. CASE k = 19 \/ k = 20 \/ k = 21 \/ k = 22 \/ k = 23 \/ k = 24
  <2>1. /\ op_w[19] = Row("xor_1", W_MASK, \b10000000, {6})
        /\ op_w[20] = Row("cmp_2", W_MASK, \b00111100, AnyFlag)
        /\ op_w[21] = Row("push_0", Exact, \b11111111, {6})
        /\ op_w[22] = Row("pop_0", Exact, \b10001111, {0})
        /\ op_w[23] = Row("call_1", Exact, \b11111111, {2})
        /\ op_w[24] = Row("jmp_2", Exact, \b11111111, {4})
    BY DEF op_w
  <2> QED
    BY <2>1, <1>8, <1>1, <1>2, <1>3, <1>4, RowHasName DEF WBytes
<1>9. CASE k = 25
  <2>1. /\ op_w[25] = Row("jmp_4", Exact, \b11111111, {5})
    BY DEF op_w
  <2> QED
    BY <2>1, <1>9, <1>1, <1>2, <1>3, <1>4, RowHasName DEF WBytes
<1> QED
  BY <1>5, <1>6, <1>7, <1>8, <1>9

\* instructs_reg_only: the register is in the opcode.
RegBytes(n, b, flag) ==
  \/ n = "push_1" /\ b \in 80 .. 87
  \/ n = "pop_1" /\ b \in 88 .. 95
  \/ n = "xchg_1" /\ b \in 144 .. 151
  \/ n = "inc_1" /\ b \in 64 .. 71
  \/ n = "dec_1" /\ b \in 72 .. 79

\* The bytes the rows of instructs_reg_only accept.
LEMMA RegRows ==
  ASSUME NEW b \in Byte, NEW flag \in AnyFlag, NEW k \in 1 .. 5,
         Accepts(instructs_reg_only[k], b, flag)
  PROVE  RegBytes(instructs_reg_only[k].name, b, flag)
<1>1. \A name, op, field : Accepts(Row(name, REG_MASK, op, field), b, flag) => op = b - (b % 8)
  BY RowAccepts, Masked
<1>2. b \in Int
  BY ByteDef
<1>3. k = 1 \/ k = 2 \/ k = 3 \/ k = 4 \/ k = 5
  OBVIOUS
<1> QED
  BY <1>1, <1>2, <1>3, RowHasName DEF instructs_reg_only, RegBytes

\* op_others: the instructions of no other group.
OthersBytes(n, b, flag) ==
  \/ n = "push_2" /\ b \in {7, 15, 23, 31}
  \/ n = "in_0" /\ b \in 228 .. 229
  \/ n = "in_1" /\ b \in 236 .. 237
  \/ n = "out_0" /\ b \in 230 .. 231
  \/ n = "out_1" /\ b \in 238 .. 239
  \/ n = "xlat" /\ b = 215
  \/ n = "lea" /\ b = 141
  \/ n = "lds" /\ b = 197
  \/ n = "les" /\ b = 196
  \/ n = "lahf" /\ b = 159
  \/ n = "sahf" /\ b = 158
  \/ n = "pushf" /\ b = 156
  \/ n = "popf" /\ b = 157
  \/ n = "mov_2" /\ b \in 176 .. 191
  \/ n = "int_0" /\ b = 205
  \/ n = "int_1" /\ b = 204
  \/ n = "ret_0" /\ b = 195
  \/ n = "ret_1" /\ b = 194
  \/ n = "cbw" /\ b = 152
  \/ n = "cwd" /\ b = 153
  \/ n = "ssb_2" /\ b \in 28 .. 30
  \/ n = "sub_2" /\ b \in 44 .. 45
  \/ n = "shl" /\ b \in 208 .. 211 /\ flag = 4
  \/ n = "sar" /\ b \in 208 .. 211 /\ flag = 7
  \/ n = "rotate" /\ b \in 208 .. 211 /\ flag \in {0, 1, 2, 3, 5}
  \/ n = "logic_6" /\ b \in 208 .. 211 /\ flag = 6
  \/ n = "clc" /\ b = 248
  \/ n = "cmc" /\ b = 245
  \/ n = "stc" /\ b = 249
  \/ n = "cld" /\ b = 252
  \/ n = "std" /\ b = 253
  \/ n = "cli" /\ b = 250
  \/ n = "sti" /\ b = 251
  \/ n = "hlt" /\ b = 244
  \/ n = "wait" /\ b = 155
  \/ n = "test_2" /\ b \in 168 .. 169
  \/ n = "rep" /\ b \in 242 .. 243
  \/ n = "string" /\ b \in (164 .. 167) \cup (170 .. 175)

\* The bytes the rows of op_others accept.
LEMMA OthersRows ==
  ASSUME NEW b \in Byte, NEW flag \in AnyFlag, NEW k \in 1 .. 43,
         Accepts(op_others[k], b, flag), k # 2,
         k = 22 => b # 31
  PROVE  OthersBytes(op_others[k].name, b, flag)
<1>1. \A name, op, field : Accepts(Row(name, Exact, op, field), b, flag) => b = op
  BY RowAccepts, Masked
<1>2. \A name, op, field : Accepts(Row(name, W_MASK, op, field), b, flag) => op = b - (b % 2)
  BY RowAccepts, Masked
<1>3. \A name, op, field : Accepts(Row(name, DW_MASK, op, field), b, flag) => op = b - (b % 4)
  BY RowAccepts, Masked
<1>4. \A name, op, field : Accepts(Row(name, VW_MASK, op, field), b, flag) => op = b - (b % 4)
  BY RowAccepts, Masked DEF VW_MASK, DW_MASK
<1>5. \A name, op, field : Accepts(Row(name, MOV2_MASK, op, field), b, flag) => op = b - (b % 16)
  BY RowAccepts, Masked
<1>6. \A name, op, field : Accepts(Row(name, SEG_MASK, op, field), b, flag) => op = (b - (b % 32)) + (b % 8)
  BY RowAccepts, Masked
<1>7. \A name, mask, op, field : Accepts(Row(name, mask, op, field), b, flag) => flag \in field
  BY RowAccepts
<1>8. b \in Int
  BY ByteDef
<1>9. CASE k = 1 \/ k = 2 \/ k = 3 \/ k = 4 \/ k = 5 \/ k = 6
  <2>1. /\ op_others[1] = Row("push_2", SEG_MASK, \b00000111, AnyFlag)
        /\ op_others[2] = Row("pop_2", SEG_MASK, \b00000111, AnyFlag)
        /\ op_others[3] = Row("in_0", W_MASK, \b11100100, AnyFlag)
        /\ op_others[4] = Row("in_1", W_MASK, \b11101100, AnyFlag)
        /\ op_others[5] = Row("out_0", W_MASK, \b11100110, AnyFlag)
        /\ op_others[6] = Row("out_1", W_MASK, \b11101110, AnyFlag)
    BY DEF op_others
  <2> QED
    BY <2>1, <1>9, <1>1, <1>2, <1>3, <1>4, <1>5, <1>6, <1>7, <1>8, RowHasName DEF OthersBytes
<1>10. CASE k = 7 \/ k = 8 \/ k = 9 \/ k = 10 \/ k = 11 \/ k = 12
  <2>1. /\ op_others[7] = Row("xlat", Exact, \b11010111, AnyFlag)
        /\ op_others[8] = Row("lea", Exact, \b10001101, AnyFlag)
        /\ op_others[9] = Row("lds", Exact, \b11000101, AnyFlag)
        /\ op_others[10] = Row("les", Exact, \b11000100, AnyFlag)
        /\ op_others[11] = Row("lahf", Exact, \b10011111, AnyFlag)
        /\ op_others[12] = Row("sahf", Exact, \b10011110, AnyFlag)
    BY DEF op_others
  <2> QED
    BY <2>1, <1>10, <1>1, <1>2, <1>3, <1>4, <1>5, <1>6, <1>7, <1>8, RowHasName DEF OthersBytes
<1>11. CASE k = 13 \/ k = 14 \/ k = 15 \/ k = 16 \/ k = 17 \/ k = 18
  <2>1. /\ op_others[13] = Row("pushf", Exact, \b10011100, AnyFlag)
        /\ op_others[14] = Row("popf", Exact, \b10011101, AnyFlag)
        /\ op_others[15] = Row("mov_2", MOV2_MASK, \b10110000, AnyFlag)
        /\ op_others[16] = Row("int_0", Exact, \b11001101, AnyFlag)
        /\ op_others[17] = Row("int_1", Exact, \b11001100, AnyFlag)
        /\ op_others[18] = Row("ret_0", Exact, \b11000011, AnyFlag)
    BY DEF op_others
  <2> QED
    BY <2>1, <1>11, <1>1, <1>2, <1>3, <1>4, <1>5, <1>6, <1>7, <1>8, RowHasName DEF OthersBytes
<1>12. CASE k = 19 \/ k = 20 \/ k = 21 \/ k = 22 \/ k = 23 \/ k = 24
  <2>1. /\ op_others[19] = Row("ret_1", Exact, \b11000010, AnyFlag)
        /\ op_others[20] = Row("cbw", Exact, \b10011000, AnyFlag)
        /\ op_others[21] = Row("cwd", Exact, \b10011001, AnyFlag)
        /\ op_others[22] = Row("ssb_2", DW_MASK, \b00011100, AnyFlag)
        /\ op_others[23] = Row("sub_2", W_MASK, \b00101100, AnyFlag)
        /\ op_others[24] = Row("shl", VW_MASK, \b11010000, {4})
    BY DEF op_others
  <2> QED
    BY <2>1, <1>12, <1>1, <1>2, <1>3, <1>4, <1>5, <1>6, <1>7, <1>8, RowHasName DEF OthersBytes
<1>13. CASE k = 25 \/ k = 26 \/ k = 27 \/ k = 28 \/ k = 29 \/ k = 30
  <2>1. /\ op_others[25] = Row("sar", VW_MASK, \b11010000, {7})
        /\ op_others[26] = Row("rotate", VW_MASK, \b11010000, {0, 1, 2, 3, 5})
        /\ op_others[27] = Row("logic_6", VW_MASK, \b11010000, {6})
        /\ op_others[28] = Row("clc", Exact, \b11111000, AnyFlag)
        /\ op_others[29] = Row("cmc", Exact, \b11110101, AnyFlag)
        /\ op_others[30] = Row("stc", Exact, \b11111001, AnyFlag)
    BY DEF op_others
  <2> QED
    BY <2>1, <1>13, <1>1, <1>2, <1>3, <1>4, <1>5, <1>6, <1>7, <1>8, RowHasName DEF OthersBytes
<1>14. CASE k = 31 \/ k = 32 \/ k = 33 \/ k = 34 \/ k = 35 \/ k = 36
  <2>1. /\ op_others[31] = Row("cld", Exact, \b11111100, AnyFlag)
        /\ op_others[32] = Row("std", Exact, \b11111101, AnyFlag)
        /\ op_others[33] = Row("cli", Exact, \b11111010, AnyFlag)
        /\ op_others[34] = Row("sti", Exact, \b11111011, AnyFlag)
        /\ op_others[35] = Row("hlt", Exact, \b11110100, AnyFlag)
        /\ op_others[36] = Row("wait", Exact, \b10011011, AnyFlag)
    BY DEF op_others
  <2> QED
    BY <2>1, <1>14, <1>1, <1>2, <1>3, <1>4, <1>5, <1>6, <1>7, <1>8, RowHasName DEF OthersBytes
<1>15. CASE k = 37 \/ k = 38 \/ k = 39 \/ k = 40 \/ k = 41 \/ k = 42
  <2>1. /\ op_others[37] = Row("test_2", W_MASK, \b10101000, AnyFlag)
        /\ op_others[38] = Row("rep", W_MASK, \b11110010, AnyFlag)
        /\ op_others[39] = Row("string", W_MASK, \b10100100, AnyFlag)
        /\ op_others[40] = Row("string", W_MASK, \b10100110, AnyFlag)
        /\ op_others[41] = Row("string", W_MASK, \b10101110, AnyFlag)
        /\ op_others[42] = Row("string", W_MASK, \b10101100, AnyFlag)
    BY DEF op_others
  <2> QED
    BY <2>1, <1>15, <1>1, <1>2, <1>3, <1>4, <1>5, <1>6, <1>7, <1>8, RowHasName DEF OthersBytes
<1>16. CASE k = 43
  <2>1. /\ op_others[43] = Row("string", W_MASK, \b10101010, AnyFlag)
    BY DEF op_others
  <2> QED
    BY <2>1, <1>16, <1>1, <1>2, <1>3, <1>4, <1>5, <1>6, <1>7, <1>8, RowHasName DEF OthersBytes
<1> QED
  BY <1>9, <1>10, <1>11, <1>12, <1>13, <1>14, <1>15, <1>16

\* op_pc: the relative transfers of control.
PcBytes(n, b, flag) ==
  \/ n = "call_0" /\ b = 232
  \/ n = "jmp_0" /\ b = 233
  \/ n = "jmp_1" /\ b = 235
  \/ n = "cond_jmp" /\ b \in 112 .. 127
  \/ n = "cond_jmp" /\ b \in 224 .. 227

\* The bytes the rows of op_pc accept.
LEMMA PcRows ==
  ASSUME NEW b \in Byte, NEW flag \in AnyFlag, NEW k \in 1 .. 5,
         Accepts(op_pc[k], b, flag)
  PROVE  PcBytes(op_pc[k].name, b, flag)
<1>1. \A name, op, field : Accepts(Row(name, Exact, op, field), b, flag) => b = op
  BY RowAccepts, Masked
<1>2. \A name, op, field : Accepts(Row(name, DW_MASK, op, field), b, flag) => op = b - (b % 4)
  BY RowAccepts, Masked
<1>3. \A name, op, field : Accepts(Row(name, MOV2_MASK, op, field), b, flag) => op = b - (b % 16)
  BY RowAccepts, Masked
<1>4. b \in Int
  BY ByteDef
<1>5. k = 1 \/ k = 2 \/ k = 3 \/ k = 4 \/ k = 5
  OBVIOUS
<1> QED
  BY <1>1, <1>2, <1>3, <1>4, <1>5, RowHasName DEF op_pc, PcBytes

-----------------------------------------------------------------------------
(* Every byte a search answers for is one the table writes.                  *)

\* What op_dw, op_w, instructs_reg_only and op_pc answer.
LEMMA PlainEncodings ==
  ASSUME NEW b \in Byte, NEW flag \in AnyFlag
  PROVE  /\ First(op_dw, b, flag) # "none" => DwBytes(First(op_dw, b, flag), b, flag)
         /\ First(op_w, b, flag) # "none" => WBytes(First(op_w, b, flag), b, flag)
         /\ First(instructs_reg_only, b, flag) # "none"
              => RegBytes(First(instructs_reg_only, b, flag), b, flag)
         /\ First(op_pc, b, flag) # "none" => PcBytes(First(op_pc, b, flag), b, flag)
<1>1. ASSUME NEW t \in Seq(Rows), First(t, b, flag) # "none"
      PROVE  \E k \in 1 .. Len(t) : First(t, b, flag) = t[k].name /\ Accepts(t[k], b, flag)
  BY <1>1, FirstIsFirst DEF Selects
<1>2. First(op_dw, b, flag) # "none" => DwBytes(First(op_dw, b, flag), b, flag)
  BY <1>1, TablesType, DwRows
<1>3. First(op_w, b, flag) # "none" => WBytes(First(op_w, b, flag), b, flag)
  BY <1>1, TablesType, WRows
<1>4. First(instructs_reg_only, b, flag) # "none"
        => RegBytes(First(instructs_reg_only, b, flag), b, flag)
  BY <1>1, TablesType, RegRows
<1>5. First(op_pc, b, flag) # "none" => PcBytes(First(op_pc, b, flag), b, flag)
  BY <1>1, TablesType, PcRows
<1> QED
  BY <1>2, <1>3, <1>4, <1>5

\* What op_sw answers: add_1 before adc_1.
LEMMA SwEncoding ==
  ASSUME NEW b \in Byte, NEW flag \in AnyFlag, First(op_sw, b, flag) # "none"
  PROVE  SwBytes(First(op_sw, b, flag), b, flag)
<1>1. PICK k \in 1 .. 5 : First(op_sw, b, flag) = op_sw[k].name /\ Selects(op_sw, b, flag, k)
  BY FirstIsFirst, TablesType
<1>2. k # 2
  <2>1. /\ op_sw[1] = Row("add_1", SW_MASK, \b10000000, {0})
        /\ op_sw[2] = Row("adc_1", SW_MASK, \b10000000, {0})
    BY DEF op_sw
  <2>2. Accepts(op_sw[2], b, flag) <=> Accepts(op_sw[1], b, flag)
    BY <2>1, RowAccepts
  <2> QED
    BY <1>1, <2>2, TablesType DEF Selects
<1> QED
  BY <1>1, <1>2, SwRows DEF Selects

\* What op_others answers: push_2 before pop_2 and, for the byte 31, before ssb_2.
LEMMA OthersEncoding ==
  ASSUME NEW b \in Byte, NEW flag \in AnyFlag, First(op_others, b, flag) # "none"
  PROVE  OthersBytes(First(op_others, b, flag), b, flag)
<1>1. PICK k \in 1 .. 43 :
        First(op_others, b, flag) = op_others[k].name /\ Selects(op_others, b, flag, k)
  BY FirstIsFirst, TablesType
<1>2. /\ op_others[1] = Row("push_2", SEG_MASK, \b00000111, AnyFlag)
      /\ op_others[2] = Row("pop_2", SEG_MASK, \b00000111, AnyFlag)
  BY DEF op_others
<1>3. k # 2
  <2>1. Accepts(op_others[2], b, flag) <=> Accepts(op_others[1], b, flag)
    BY <1>2, RowAccepts
  <2> QED
    BY <1>1, <2>1, TablesType DEF Selects
<1>4. k = 22 => b # 31
  <2>1. b = 31 => And8(b, SEG_MASK) = 7
    BY Masked
  <2>2. b = 31 => Accepts(op_others[1], b, flag)
    BY <1>2, <2>1, RowAccepts
  <2> QED
    BY <1>1, <2>2, TablesType DEF Selects
<1> QED
  BY <1>1, <1>3, <1>4, OthersRows DEF Selects

\* The bytes that reach the handler n in instruct(), read off the tables with
\* their order: pop_2 and adc_1 have none.
HandlerBytes(n, b, flag) ==
  \/ DwBytes(n, b, flag)
  \/ SwBytes(n, b, flag)
  \/ WBytes(n, b, flag)
  \/ RegBytes(n, b, flag)
  \/ OthersBytes(n, b, flag)

\* What the search of the five groups finds, in closed form.
LEMMA HandlerEncoding ==
  ASSUME NEW b \in Byte, NEW flag \in AnyFlag, Handler[b][flag] # "none"
  PROVE  HandlerBytes(Handler[b][flag], b, flag)
<1> DEFINE h == Handler[b][flag]
           t2 == op_dw \o op_sw
           t3 == t2 \o op_w
           t4 == t3 \o instructs_reg_only
<1>1. h = First(t4 \o op_others, b, flag)
  BY DEF Handler
<1>2. t2 \in Seq(Rows) /\ (\/ First(t2, b, flag) = First(op_dw, b, flag)
                            \/ First(t2, b, flag) = First(op_sw, b, flag))
  BY TablesType, FirstOfGroups
<1> HIDE DEF t2
<1>3. t3 \in Seq(Rows) /\ (First(t3, b, flag) = First(t2, b, flag)
                            \/ First(t3, b, flag) = First(op_w, b, flag))
  BY <1>2, TablesType, FirstOfGroups
<1> HIDE DEF t3
<1>4. t4 \in Seq(Rows) /\ (First(t4, b, flag) = First(t3, b, flag)
                            \/ First(t4, b, flag) = First(instructs_reg_only, b, flag))
  BY <1>3, TablesType, FirstOfGroups
<1> HIDE DEF t4
<1>5. h = First(t4, b, flag) \/ h = First(op_others, b, flag)
  BY <1>1, <1>4, TablesType, FirstOfGroups
<1> HIDE DEF h
<1>6. h # "none"
  BY DEF h
<1>7. \/ h = First(op_dw, b, flag)
      \/ h = First(op_sw, b, flag)
      \/ h = First(op_w, b, flag)
      \/ h = First(instructs_reg_only, b, flag)
      \/ h = First(op_others, b, flag)
  BY <1>2, <1>3, <1>4, <1>5
<1>8. HandlerBytes(h, b, flag)
  BY <1>6, <1>7, PlainEncodings, SwEncoding, OthersEncoding DEF HandlerBytes
<1> QED
  BY <1>8 DEF h

\* What op_pc makes of a byte the other groups leave to it: a call, a jump or
\* a conditional jump, each with the byte its encoding begins with; and the
\* sixteen bytes of the conditional jumps all reach op_cond_jmp.
LEMMA PcEncoding ==
  ASSUME NEW b \in Byte
  PROVE  /\ PcHandler[b] # "none" => PcBytes(PcHandler[b], b, 0)
         /\ b \in 112 .. 127 => PcHandler[b] = "cond_jmp"
<1>1. PcHandler[b] = First(op_pc, b, 0) /\ 0 \in AnyFlag
  BY DEF PcHandler, AnyFlag
<1>2. PcHandler[b] # "none" => PcBytes(PcHandler[b], b, 0)
  BY <1>1, PlainEncodings
<1>3. ASSUME b \in 112 .. 127 PROVE PcHandler[b] = "cond_jmp"
  <2>1. op_pc[4] = Row("cond_jmp", MOV2_MASK, \b01110000, AnyFlag)
    BY DEF op_pc
  <2>2. And8(b, MOV2_MASK) = 112
    BY <1>3, Masked
  <2>3. Accepts(op_pc[4], b, 0)
    BY <1>1, <2>1, <2>2, RowAccepts
  <2>4. PcHandler[b] # "none"
    <3>1. Len(op_pc) = 5 /\ op_pc \in Seq(Rows) /\ 4 \in 1 .. 5
      BY TablesType
    <3>2. ~Refuses(op_pc, b, 0)
      BY <2>3, <3>1 DEF Refuses
    <3> QED
      BY <1>1, <3>1, <3>2, FirstUnique
  <2> QED
    BY <1>2, <1>3, <2>4 DEF PcBytes
<1> QED
  BY <1>2, <1>3

\* The conditional jumps reach no handler of the five groups.
LEMMA JumpsAreNotHandled ==
  ASSUME NEW b \in Byte, NEW flag \in AnyFlag, b \in 112 .. 127
  PROVE  Handler[b][flag] = "none"
<1>1. \A n : ~HandlerBytes(n, b, flag)
  BY DEF HandlerBytes, DwBytes, SwBytes, WBytes, RegBytes, OthersBytes
<1> QED
  BY <1>1, HandlerEncoding

-----------------------------------------------------------------------------
(* Every byte the table writes is answered for.                             *)

\* What op_dw refuses is none of its bytes.
LEMMA DwRefused ==
  ASSUME NEW b \in Byte, NEW flag \in AnyFlag, First(op_dw, b, flag) = "none"
  PROVE  \A n : ~DwBytes(n, b, flag)
<1>1. \A k \in 1 .. 9 : ~Accepts(op_dw[k], b, flag)
  BY FirstUnique, TablesType DEF Refuses
<1>2. b \in Int /\ 0 <= b /\ b <= 255
  BY ByteDef
<1>3. /\ And8(b, DW_MASK) = b - (b % 4)
  BY Masked
<1>4. /\ ~(b \in 136 .. 139)
      /\ ~(b \in 0 .. 3)
      /\ ~(b \in 16 .. 19)
      /\ ~(b \in 40 .. 43)
      /\ ~(b \in 24 .. 27)
      /\ ~(b \in 56 .. 59)
  <2>1. /\ op_dw[1] = Row("mov_0", DW_MASK, \b10001000, AnyFlag)
        /\ op_dw[2] = Row("add_0", DW_MASK, \b00000000, AnyFlag)
        /\ op_dw[3] = Row("adc_0", DW_MASK, \b00010000, AnyFlag)
        /\ op_dw[4] = Row("sub_0", DW_MASK, \b00101000, AnyFlag)
        /\ op_dw[5] = Row("ssb_0", DW_MASK, \b00011000, AnyFlag)
        /\ op_dw[6] = Row("cmp_0", DW_MASK, \b00111000, AnyFlag)
    BY DEF op_dw
  <2>2. /\ ~(And8(b, DW_MASK) = \b10001000)
        /\ ~(And8(b, DW_MASK) = \b00000000)
        /\ ~(And8(b, DW_MASK) = \b00010000)
        /\ ~(And8(b, DW_MASK) = \b00101000)
        /\ ~(And8(b, DW_MASK) = \b00011000)
        /\ ~(And8(b, DW_MASK) = \b00111000)
    BY <2>1, <1>1, RowAccepts
  <2> QED
    BY <2>2, <1>2, <1>3
<1>5. /\ ~(b \in 32 .. 35)
      /\ ~(b \in 8 .. 11)
      /\ ~(b \in 48 .. 51)
  <2>1. /\ op_dw[7] = Row("and_0", DW_MASK, \b00100000, AnyFlag)
        /\ op_dw[8] = Row("or_0", DW_MASK, \b00001000, AnyFlag)
        /\ op_dw[9] = Row("xor_0", DW_MASK, \b00110000, AnyFlag)
    BY DEF op_dw
  <2>2. /\ ~(And8(b, DW_MASK) = \b00100000)
        /\ ~(And8(b, DW_MASK) = \b00001000)
        /\ ~(And8(b, DW_MASK) = \b00110000)
    BY <2>1, <1>1, RowAccepts
  <2> QED
    BY <2>2, <1>2, <1>3
<1> QED
  BY <1>2, <1>4, <1>5 DEF DwBytes

\* What op_sw refuses is none of its bytes.
LEMMA SwRefused ==
  ASSUME NEW b \in Byte, NEW flag \in AnyFlag, First(op_sw, b, flag) = "none"
  PROVE  \A n : ~SwBytes(n, b, flag)
<1>1. \A k \in 1 .. 5 : ~Accepts(op_sw[k], b, flag)
  BY FirstUnique, TablesType DEF Refuses
<1>2. b \in Int /\ 0 <= b /\ b <= 255
  BY ByteDef
<1>3. /\ And8(b, SW_MASK) = b - (b % 4)
  BY Masked DEF DW_MASK, SW_MASK
<1>4. /\ ~(b \in 128 .. 131 /\ flag = 0)
      /\ ~(b \in 128 .. 131 /\ flag = 0)
      /\ ~(b \in 128 .. 131 /\ flag = 5)
      /\ ~(b \in 128 .. 131 /\ flag = 3)
      /\ ~(b \in 128 .. 131 /\ flag = 7)
  <2>1. /\ op_sw[1] = Row("add_1", SW_MASK, \b10000000, {0})
        /\ op_sw[2] = Row("adc_1", SW_MASK, \b10000000, {0})
        /\ op_sw[3] = Row("sub_1", SW_MASK, \b10000000, {5})
        /\ op_sw[4] = Row("ssb_1", SW_MASK, \b10000000, {3})
        /\ op_sw[5] = Row("cmp_1", SW_MASK, \b10000000, {7})
    BY DEF op_sw
  <2>2. /\ ~(And8(b, SW_MASK) = \b10000000 /\ flag \in {0})
        /\ ~(And8(b, SW_MASK) = \b10000000 /\ flag \in {0})
        /\ ~(And8(b, SW_MASK) = \b10000000 /\ flag \in {5})
        /\ ~(And8(b, SW_MASK) = \b10000000 /\ flag \in {3})
        /\ ~(And8(b, SW_MASK) = \b10000000 /\ flag \in {7})
    BY <2>1, <1>1, RowAccepts
  <2> QED
    BY <2>2, <1>2, <1>3
<1> QED
  BY <1>2, <1>4 DEF SwBytes

\* What op_w refuses is none of its bytes.
LEMMA WRefused ==
  ASSUME NEW b \in Byte, NEW flag \in AnyFlag, First(op_w, b, flag) = "none"
  PROVE  \A n : ~WBytes(n, b, flag)
<1>1. \A k \in 1 .. 25 : ~Accepts(op_w[k], b, flag)
  BY FirstUnique, TablesType DEF Refuses
<1>2. b \in Int /\ 0 <= b /\ b <= 255
  BY ByteDef
<1>3. /\ And8(b, W_MASK) = b - (b % 2)
      /\ And8(b, Exact) = b
  BY Masked
<1>4. /\ ~(b \in 198 .. 199 /\ flag = 0)
      /\ ~(b \in 160 .. 161)
      /\ ~(b \in 162 .. 163)
      /\ ~(b \in 4 .. 5)
      /\ ~(b \in 20 .. 21)
      /\ ~(b \in 254 .. 255 /\ flag = 0)
  <2>1. /\ op_w[1] = Row("mov_1", W_MASK, \b11000110, {0})
        /\ op_w[2] = Row("mov_3", W_MASK, \b10100000, AnyFlag)
        /\ op_w[3] = Row("mov_4", W_MASK, \b10100010, AnyFlag)
        /\ op_w[4] = Row("add_2", W_MASK, \b00000100, AnyFlag)
        /\ op_w[5] = Row("adc_2", W_MASK, \b00010100, AnyFlag)
        /\ op_w[6] = Row("inc_0", W_MASK, \b11111110, {0})
    BY DEF op_w
  <2>2. /\ ~(And8(b, W_MASK) = \b11000110 /\ flag \in {0})
        /\ ~(And8(b, W_MASK) = \b10100000)
        /\ ~(And8(b, W_MASK) = \b10100010)
        /\ ~(And8(b, W_MASK) = \b00000100)
        /\ ~(And8(b, W_MASK) = \b00010100)
        /\ ~(And8(b, W_MASK) = \b11111110 /\ flag \in {0})
    BY <2>1, <1>1, RowAccepts
  <2> QED
    BY <2>2, <1>2, <1>3
<1>5. /\ ~(b \in 254 .. 255 /\ flag = 1)
      /\ ~(b \in 246 .. 247 /\ flag = 3)
      /\ ~(b \in 246 .. 247 /\ flag = 4)
      /\ ~(b \in 246 .. 247 /\ flag = 5)
      /\ ~(b \in 246 .. 247 /\ flag = 6)
      /\ ~(b \in 246 .. 247 /\ flag = 7)
  <2>1. /\ op_w[7] = Row("dec_0", W_MASK, \b11111110, {1})
        /\ op_w[8] = Row("neg", W_MASK, \b11110110, {3})
        /\ op_w[9] = Row("mul", W_MASK, \b11110110, {4})
        /\ op_w[10] = Row("imul", W_MASK, \b11110110, {5})
        /\ op_w[11] = Row("div", W_MASK, \b11110110, {6})
        /\ op_w[12] = Row("idiv", W_MASK, \b11110110, {7})
    BY DEF op_w
  <2>2. /\ ~(And8(b, W_MASK) = \b11111110 /\ flag \in {1})
        /\ ~(And8(b, W_MASK) = \b11110110 /\ flag \in {3})
        /\ ~(And8(b, W_MASK) = \b11110110 /\ flag \in {4})
        /\ ~(And8(b, W_MASK) = \b11110110 /\ flag \in {5})
        /\ ~(And8(b, W_MASK) = \b11110110 /\ flag \in {6})
        /\ ~(And8(b, W_MASK) = \b11110110 /\ flag \in {7})
    BY <2>1, <1>1, RowAccepts
  <2> QED
    BY <2>2, <1>2, <1>3
<1>6. /\ ~(b \in 246 .. 247 /\ flag = 2)
      /\ ~(b \in 128 .. 129 /\ flag = 4)
      /\ ~(b \in 134 .. 135)
      /\ ~(b \in 132 .. 133)
      /\ ~(b \in 246 .. 247 /\ flag = 0)
      /\ ~(b \in 128 .. 129 /\ flag = 1)
  <2>1. /\ op_w[13] = Row("not", W_MASK, \b11110110, {2})
        /\ op_w[14] = Row("and_1", W_MASK, \b10000000, {4})
        /\ op_w[15] = Row("xchg_0", W_MASK, \b10000110, AnyFlag)
        /\ op_w[16] = Row("test_0", W_MASK, \b10000100, AnyFlag)
        /\ op_w[17] = Row("test_1", W_MASK, \b11110110, {0})
        /\ op_w[18] = Row("or_1", W_MASK, \b10000000, {1})
    BY DEF op_w
  <2>2. /\ ~(And8(b, W_MASK) = \b11110110 /\ flag \in {2})
        /\ ~(And8(b, W_MASK) = \b10000000 /\ flag \in {4})
        /\ ~(And8(b, W_MASK) = \b10000110)
        /\ ~(And8(b, W_MASK) = \b10000100)
        /\ ~(And8(b, W_MASK) = \b11110110 /\ flag \in {0})
        /\ ~(And8(b, W_MASK) = \b10000000 /\ flag \in {1})
    BY <2>1, <1>1, RowAccepts
  <2> QED
    BY <2>2, <1>2, <1>3
<1>7. /\ ~(b \in 128 .. 129 /\ flag = 6)
      /\ ~(b \in 60 .. 61)
      /\ ~(b = 255 /\ flag = 6)
      /\ ~(b = 143 /\ flag = 0)
      /\ ~(b = 255 /\ flag = 2)
      /\ ~(b = 255 /\ flag = 4)
  <2>1. /\ op_w[19] = Row("xor_1", W_MASK, \b10000000, {6})
        /\ op_w[20] = Row("cmp_2", W_MASK, \b00111100, AnyFlag)
        /\ op_w[21] = Row("push_0", Exact, \b11111111, {6})
        /\ op_w[22] = Row("pop_0", Exact, \b10001111, {0})
        /\ op_w[23] = Row("call_1", Exact, \b11111111, {2})
        /\ op_w[24] = Row("jmp_2", Exact, \b11111111, {4})
    BY DEF op_w
  <2>2. /\ ~(And8(b, W_MASK) = \b10000000 /\ flag \in {6})
        /\ ~(And8(b, W_MASK) = \b00111100)
        /\ ~(And8(b, Exact) = \b11111111 /\ flag \in {6})
        /\ ~(And8(b, Exact) = \b10001111 /\ flag \in {0})
        /\ ~(And8(b, Exact) = \b11111111 /\ flag \in {2})
        /\ ~(And8(b, Exact) = \b11111111 /\ flag \in {4})
    BY <2>1, <1>1, RowAccepts
  <2> QED
    BY <2>2, <1>2, <1>3
<1>8. /\ ~(b = 255 /\ flag = 5)
  <2>1. /\ op_w[25] = Row("jmp_4", Exact, \b11111111, {5})
    BY DEF op_w
  <2>2. /\ ~(And8(b, Exact) = \b11111111 /\ flag \in {5})
    BY <2>1, <1>1, RowAccepts
  <2> QED
    BY <2>2, <1>2, <1>3
<1> QED
  BY <1>2, <1>4, <1>5, <1>6, <1>7, <1>8 DEF WBytes

\* What instructs_reg_only refuses is none of its bytes.
LEMMA RegRefused ==
  ASSUME NEW b \in Byte, NEW flag \in AnyFlag, First(instructs_reg_only, b, flag) = "none"
  PROVE  \A n : ~RegBytes(n, b, flag)
<1>1. \A k \in 1 .. 5 : ~Accepts(instructs_reg_only[k], b, flag)
  BY FirstUnique, TablesType DEF Refuses
<1>2. b \in Int /\ 0 <= b /\ b <= 255
  BY ByteDef
<1>3. /\ And8(b, REG_MASK) = b - (b % 8)
  BY Masked
<1>4. /\ ~(b \in 80 .. 87)
      /\ ~(b \in 88 .. 95)
      /\ ~(b \in 144 .. 151)
      /\ ~(b \in 64 .. 71)
      /\ ~(b \in 72 .. 79)
  <2>1. /\ instructs_reg_only[1] = Row("push_1", REG_MASK, \b01010000, AnyFlag)
        /\ instructs_reg_only[2] = Row("pop_1", REG_MASK, \b01011000, AnyFlag)
        /\ instructs_reg_only[3] = Row("xchg_1", REG_MASK, \b10010000, AnyFlag)
        /\ instructs_reg_only[4] = Row("inc_1", REG_MASK, \b01000000, AnyFlag)
        /\ instructs_reg_only[5] = Row("dec_1", REG_MASK, \b01001000, AnyFlag)
    BY DEF instructs_reg_only
  <2>2. /\ ~(And8(b, REG_MASK) = \b01010000)
        /\ ~(And8(b, REG_MASK) = \b01011000)
        /\ ~(And8(b, REG_MASK) = \b10010000)
        /\ ~(And8(b, REG_MASK) = \b01000000)
        /\ ~(And8(b, REG_MASK) = \b01001000)
    BY <2>1, <1>1, RowAccepts
  <2> QED
    BY <2>2, <1>2, <1>3
<1> QED
  BY <1>2, <1>4 DEF RegBytes

\* What op_others refuses is none of its bytes.
LEMMA OthersRefused ==
  ASSUME NEW b \in Byte, NEW flag \in AnyFlag, First(op_others, b, flag) = "none"
  PROVE  \A n : ~OthersBytes(n, b, flag)
<1>1. \A k \in 1 .. 43 : ~Accepts(op_others[k], b, flag)
  BY FirstUnique, TablesType DEF Refuses
<1>2. b \in Int /\ 0 <= b /\ b <= 255
  BY ByteDef
<1>3. /\ And8(b, SEG_MASK) = (b - (b % 32)) + (b % 8)
      /\ And8(b, W_MASK) = b - (b % 2)
      /\ And8(b, Exact) = b
      /\ And8(b, MOV2_MASK) = b - (b % 16)
      /\ And8(b, DW_MASK) = b - (b % 4)
      /\ And8(b, VW_MASK) = b - (b % 4)
  BY Masked DEF DW_MASK, VW_MASK
<1>4. /\ ~(b \in {7, 15, 23, 31})
      /\ ~(b \in {7, 15, 23, 31})
      /\ ~(b \in 228 .. 229)
      /\ ~(b \in 236 .. 237)
      /\ ~(b \in 230 .. 231)
      /\ ~(b \in 238 .. 239)
  <2>1. /\ op_others[1] = Row("push_2", SEG_MASK, \b00000111, AnyFlag)
        /\ op_others[2] = Row("pop_2", SEG_MASK, \b00000111, AnyFlag)
        /\ op_others[3] = Row("in_0", W_MASK, \b11100100, AnyFlag)
        /\ op_others[4] = Row("in_1", W_MASK, \b11101100, AnyFlag)
        /\ op_others[5] = Row("out_0", W_MASK, \b11100110, AnyFlag)
        /\ op_others[6] = Row("out_1", W_MASK, \b11101110, AnyFlag)
    BY DEF op_others
  <2>2. /\ ~(And8(b, SEG_MASK) = \b00000111)
        /\ ~(And8(b, SEG_MASK) = \b00000111)
        /\ ~(And8(b, W_MASK) = \b11100100)
        /\ ~(And8(b, W_MASK) = \b11101100)
        /\ ~(And8(b, W_MASK) = \b11100110)
        /\ ~(And8(b, W_MASK) = \b11101110)
    BY <2>1, <1>1, RowAccepts
  <2> QED
    BY <2>2, <1>2, <1>3
<1>5. /\ ~(b = 215)
      /\ ~(b = 141)
      /\ ~(b = 197)
      /\ ~(b = 196)
      /\ ~(b = 159)
      /\ ~(b = 158)
  <2>1. /\ op_others[7] = Row("xlat", Exact, \b11010111, AnyFlag)
        /\ op_others[8] = Row("lea", Exact, \b10001101, AnyFlag)
        /\ op_others[9] = Row("lds", Exact, \b11000101, AnyFlag)
        /\ op_others[10] = Row("les", Exact, \b11000100, AnyFlag)
        /\ op_others[11] = Row("lahf", Exact, \b10011111, AnyFlag)
        /\ op_others[12] = Row("sahf", Exact, \b10011110, AnyFlag)
    BY DEF op_others
  <2>2. /\ ~(And8(b, Exact) = \b11010111)
        /\ ~(And8(b, Exact) = \b10001101)
        /\ ~(And8(b, Exact) = \b11000101)
        /\ ~(And8(b, Exact) = \b11000100)
        /\ ~(And8(b, Exact) = \b10011111)
        /\ ~(And8(b, Exact) = \b10011110)
    BY <2>1, <1>1, RowAccepts
  <2> QED
    BY <2>2, <1>2, <1>3
<1>6. /\ ~(b = 156)
      /\ ~(b = 157)
      /\ ~(b \in 176 .. 191)
      /\ ~(b = 205)
      /\ ~(b = 204)
      /\ ~(b = 195)
  <2>1. /\ op_others[13] = Row("pushf", Exact, \b10011100, AnyFlag)
        /\ op_others[14] = Row("popf", Exact, \b10011101, AnyFlag)
        /\ op_others[15] = Row("mov_2", MOV2_MASK, \b10110000, AnyFlag)
        /\ op_others[16] = Row("int_0", Exact, \b11001101, AnyFlag)
        /\ op_others[17] = Row("int_1", Exact, \b11001100, AnyFlag)
        /\ op_others[18] = Row("ret_0", Exact, \b11000011, AnyFlag)
    BY DEF op_others
  <2>2. /\ ~(And8(b, Exact) = \b10011100)
        /\ ~(And8(b, Exact) = \b10011101)
        /\ ~(And8(b, MOV2_MASK) = \b10110000)
        /\ ~(And8(b, Exact) = \b11001101)
        /\ ~(And8(b, Exact) = \b11001100)
        /\ ~(And8(b, Exact) = \b11000011)
    BY <2>1, <1>1, RowAccepts
  <2> QED
    BY <2>2, <1>2, <1>3
<1>7. /\ ~(b = 194)
      /\ ~(b = 152)
      /\ ~(b = 153)
      /\ ~(b \in 28 .. 31)
      /\ ~(b \in 44 .. 45)
      /\ ~(b \in 208 .. 211 /\ flag = 4)
  <2>1. /\ op_others[19] = Row("ret_1", Exact, \b11000010, AnyFlag)
        /\ op_others[20] = Row("cbw", Exact, \b10011000, AnyFlag)
        /\ op_others[21] = Row("cwd", Exact, \b10011001, AnyFlag)
        /\ op_others[22] = Row("ssb_2", DW_MASK, \b00011100, AnyFlag)
        /\ op_others[23] = Row("sub_2", W_MASK, \b00101100, AnyFlag)
        /\ op_others[24] = Row("shl", VW_MASK, \b11010000, {4})
    BY DEF op_others
  <2>2. /\ ~(And8(b, Exact) = \b11000010)
        /\ ~(And8(b, Exact) = \b10011000)
        /\ ~(And8(b, Exact) = \b10011001)
        /\ ~(And8(b, DW_MASK) = \b00011100)
        /\ ~(And8(b, W_MASK) = \b00101100)
        /\ ~(And8(b, VW_MASK) = \b11010000 /\ flag \in {4})
    BY <2>1, <1>1, RowAccepts
  <2> QED
    BY <2>2, <1>2, <1>3
<1>8. /\ ~(b \in 208 .. 211 /\ flag = 7)
      /\ ~(b \in 208 .. 211 /\ flag \in {0, 1, 2, 3, 5})
      /\ ~(b \in 208 .. 211 /\ flag = 6)
      /\ ~(b = 248)
      /\ ~(b = 245)
      /\ ~(b = 249)
  <2>1. /\ op_others[25] = Row("sar", VW_MASK, \b11010000, {7})
        /\ op_others[26] = Row("rotate", VW_MASK, \b11010000, {0, 1, 2, 3, 5})
        /\ op_others[27] = Row("logic_6", VW_MASK, \b11010000, {6})
        /\ op_others[28] = Row("clc", Exact, \b11111000, AnyFlag)
        /\ op_others[29] = Row("cmc", Exact, \b11110101, AnyFlag)
        /\ op_others[30] = Row("stc", Exact, \b11111001, AnyFlag)
    BY DEF op_others
  <2>2. /\ ~(And8(b, VW_MASK) = \b11010000 /\ flag \in {7})
        /\ ~(And8(b, VW_MASK) = \b11010000 /\ flag \in {0, 1, 2, 3, 5})
        /\ ~(And8(b, VW_MASK) = \b11010000 /\ flag \in {6})
        /\ ~(And8(b, Exact) = \b11111000)
        /\ ~(And8(b, Exact) = \b11110101)
        /\ ~(And8(b, Exact) = \b11111001)
    BY <2>1, <1>1, RowAccepts
  <2> QED
    BY <2>2, <1>2, <1>3
<1>9. /\ ~(b = 252)
      /\ ~(b = 253)
      /\ ~(b = 250)
      /\ ~(b = 251)
      /\ ~(b = 244)
      /\ ~(b = 155)
  <2>1. /\ op_others[31] = Row("cld", Exact, \b11111100, AnyFlag)
        /\ op_others[32] = Row("std", Exact, \b11111101, AnyFlag)
        /\ op_others[33] = Row("cli", Exact, \b11111010, AnyFlag)
        /\ op_others[34] = Row("sti", Exact, \b11111011, AnyFlag)
        /\ op_others[35] = Row("hlt", Exact, \b11110100, AnyFlag)
        /\ op_others[36] = Row("wait", Exact, \b10011011, AnyFlag)
    BY DEF op_others
  <2>2. /\ ~(And8(b, Exact) = \b11111100)
        /\ ~(And8(b, Exact) = \b11111101)
        /\ ~(And8(b, Exact) = \b11111010)
        /\ ~(And8(b, Exact) = \b11111011)
        /\ ~(And8(b, Exact) = \b11110100)
        /\ ~(And8(b, Exact) = \b10011011)
    BY <2>1, <1>1, RowAccepts
  <2> QED
    BY <2>2, <1>2, <1>3
<1>10. /\ ~(b \in 168 .. 169)
      /\ ~(b \in 242 .. 243)
      /\ ~(b \in 164 .. 165)
      /\ ~(b \in 166 .. 167)
      /\ ~(b \in 174 .. 175)
      /\ ~(b \in 172 .. 173)
  <2>1. /\ op_others[37] = Row("test_2", W_MASK, \b10101000, AnyFlag)
        /\ op_others[38] = Row("rep", W_MASK, \b11110010, AnyFlag)
        /\ op_others[39] = Row("string", W_MASK, \b10100100, AnyFlag)
        /\ op_others[40] = Row("string", W_MASK, \b10100110, AnyFlag)
        /\ op_others[41] = Row("string", W_MASK, \b10101110, AnyFlag)
        /\ op_others[42] = Row("string", W_MASK, \b10101100, AnyFlag)
    BY DEF op_others
  <2>2. /\ ~(And8(b, W_MASK) = \b10101000)
        /\ ~(And8(b, W_MASK) = \b11110010)
        /\ ~(And8(b, W_MASK) = \b10100100)
        /\ ~(And8(b, W_MASK) = \b10100110)
        /\ ~(And8(b, W_MASK) = \b10101110)
        /\ ~(And8(b, W_MASK) = \b10101100)
    BY <2>1, <1>1, RowAccepts
  <2> QED
    BY <2>2, <1>2, <1>3
<1>11. /\ ~(b \in 170 .. 171)
  <2>1. /\ op_others[43] = Row("string", W_MASK, \b10101010, AnyFlag)
    BY DEF op_others
  <2>2. /\ ~(And8(b, W_MASK) = \b10101010)
    BY <2>1, <1>1, RowAccepts
  <2> QED
    BY <2>2, <1>2, <1>3
<1> QED
  BY <1>2, <1>4, <1>5, <1>6, <1>7, <1>8, <1>9, <1>10, <1>11 DEF OthersBytes

\* What op_pc refuses is none of its bytes.
LEMMA PcRefused ==
  ASSUME NEW b \in Byte, NEW flag \in AnyFlag, First(op_pc, b, flag) = "none"
  PROVE  \A n : ~PcBytes(n, b, flag)
<1>1. \A k \in 1 .. 5 : ~Accepts(op_pc[k], b, flag)
  BY FirstUnique, TablesType DEF Refuses
<1>2. b \in Int /\ 0 <= b /\ b <= 255
  BY ByteDef
<1>3. /\ And8(b, Exact) = b
      /\ And8(b, MOV2_MASK) = b - (b % 16)
      /\ And8(b, DW_MASK) = b - (b % 4)
  BY Masked
<1>4. /\ ~(b = 232)
      /\ ~(b = 233)
      /\ ~(b = 235)
      /\ ~(b \in 112 .. 127)
      /\ ~(b \in 224 .. 227)
  <2>1. /\ op_pc[1] = Row("call_0", Exact, \b11101000, AnyFlag)
        /\ op_pc[2] = Row("jmp_0", Exact, \b11101001, AnyFlag)
        /\ op_pc[3] = Row("jmp_1", Exact, \b11101011, AnyFlag)
        /\ op_pc[4] = Row("cond_jmp", MOV2_MASK, \b01110000, AnyFlag)
        /\ op_pc[5] = Row("cond_jmp", DW_MASK, \b11100000, AnyFlag)
    BY DEF op_pc
  <2>2. /\ ~(And8(b, Exact) = \b11101000)
        /\ ~(And8(b, Exact) = \b11101001)
        /\ ~(And8(b, Exact) = \b11101011)
        /\ ~(And8(b, MOV2_MASK) = \b01110000)
        /\ ~(And8(b, DW_MASK) = \b11100000)
    BY <2>1, <1>1, RowAccepts
  <2> QED
    BY <2>2, <1>2, <1>3
<1> QED
  BY <1>2, <1>4 DEF PcBytes

\* The search finds nothing only for bytes outside that closed form.
LEMMA NoHandler ==
  ASSUME NEW b \in Byte, NEW flag \in AnyFlag, Handler[b][flag] = "none"
  PROVE  \A n : ~HandlerBytes(n, b, flag)
<1> DEFINE t2 == op_dw \o op_sw
           t3 == t2 \o op_w
           t4 == t3 \o instructs_reg_only
<1>1. First(t4 \o op_others, b, flag) = "none"
  BY DEF Handler
<1>2. /\ t2 \in Seq(Rows)
      /\ First(t2, b, flag) = "none"
           => First(op_dw, b, flag) = "none" /\ First(op_sw, b, flag) = "none"
  BY TablesType, FirstOfGroups
<1> HIDE DEF t2
<1>3. /\ t3 \in Seq(Rows)
      /\ First(t3, b, flag) = "none"
           => First(t2, b, flag) = "none" /\ First(op_w, b, flag) = "none"
  BY <1>2, TablesType, FirstOfGroups
<1> HIDE DEF t3
<1>4. /\ t4 \in Seq(Rows)
      /\ First(t4, b, flag) = "none"
           => First(t3, b, flag) = "none" /\ First(instructs_reg_only, b, flag) = "none"
  BY <1>3, TablesType, FirstOfGroups
<1> HIDE DEF t4
<1>5. First(t4, b, flag) = "none" /\ First(op_others, b, flag) = "none"
  BY <1>1, <1>4, TablesType, FirstOfGroups
<1> QED
  BY <1>2, <1>3, <1>4, <1>5, DwRefused, SwRefused, WRefused, RegRefused, OthersRefused
     DEF HandlerBytes

\* Nor does op_pc refuse any of its bytes.
LEMMA NoPcHandler ==
  ASSUME NEW b \in Byte, PcHandler[b] = "none" PROVE \A n : ~PcBytes(n, b, 0)
  BY PcRefused DEF PcHandler, AnyFlag
-----------------------------------------------------------------------------
(* The tables against the instruction set.                                   *)

\* The names a handler prints, one group after the other.
LEMMA RightForDw ==
  ASSUME NEW n, NEW b \in Byte, NEW field \in AnyFlag, DwBytes(n, b, field)
  PROVE  RightFor(n, b, field)
<1>1. b \in Int /\ field \in 0 .. 7
  BY ByteDef DEF AnyFlag
<1>2. CASE n = "mov_0" /\ b \in 136 .. 139
  <2>1. Operation(b, field) = "mov"
    BY <1>1, <1>2 DEF Operation, MoveRows
  <2> QED
    BY <1>1, <1>2, <2>1 DEF RightFor, PopSegment, PushDs, Unsupported, NoSuchHandler,
       Far, Segments, Accumulator, Immediates, Serves
<1>3. ASSUME b \in 0 .. 63, b % 8 < 6 PROVE Operation(b, field) = Arithmetics[b \div 8 + 1]
  BY <1>1, <1>3 DEF Operation, ArithmeticRows
<1> QED
  BY <1>1, <1>2, <1>3 DEF DwBytes, RightFor, PopSegment, PushDs, Unsupported, NoSuchHandler,
       Far, Segments, Accumulator, Immediates, Serves, Arithmetics

\* Handlers of an immediate that may be a sign-extended byte.
LEMMA RightForSw ==
  ASSUME NEW n, NEW b \in Byte, NEW field \in AnyFlag, SwBytes(n, b, field)
  PROVE  RightFor(n, b, field)
<1>1. b \in Int /\ field \in 0 .. 7
  BY ByteDef DEF AnyFlag
<1>2. b \in 128 .. 131 /\ Operation(b, field) = Arithmetics[field + 1]
  BY <1>1 DEF SwBytes, Operation, MoveRows
<1> QED
  BY <1>1, <1>2 DEF SwBytes, RightFor, PopSegment, PushDs, Unsupported, NoSuchHandler,
     Far, Segments, Accumulator, Immediates, Serves, Arithmetics

\* Handlers of one operand, or of an operand and an immediate.
LEMMA RightForW ==
  ASSUME NEW n, NEW b \in Byte, NEW field \in AnyFlag, WBytes(n, b, field)
  PROVE  RightFor(n, b, field)
<1>1. b \in Int /\ field \in 0 .. 7
  BY ByteDef DEF AnyFlag
<1>2. CASE b < 128
  BY <1>1, <1>2 DEF WBytes, Operation, ArithmeticRows, Arithmetics, RightFor, PopSegment,
     PushDs, Unsupported, NoSuchHandler, Far, Segments, Accumulator, Immediates, Serves
<1>3. CASE b >= 128 /\ b < 192
  BY <1>1, <1>3 DEF WBytes, Operation, MoveRows, Arithmetics, RightFor, PopSegment,
     PushDs, Unsupported, NoSuchHandler, Far, Segments, Accumulator, Immediates, Serves
<1>4. CASE b >= 192
  BY <1>1, <1>4 DEF WBytes, Operation, ReturnRows, ControlRows, Unaries, Indirects, RightFor,
     PopSegment, PushDs, Unsupported, NoSuchHandler, Far, Segments, Accumulator, Immediates,
     Serves
<1> QED
  BY <1>1, <1>2, <1>3, <1>4

\* Handlers of a register in the opcode.
LEMMA RightForReg ==
  ASSUME NEW n, NEW b \in Byte, NEW field \in AnyFlag, RegBytes(n, b, field)
  PROVE  RightFor(n, b, field)
<1>1. b \in Int /\ field \in 0 .. 7
  BY ByteDef DEF AnyFlag
<1> QED
  BY <1>1 DEF RegBytes, Operation, RegisterRows, MoveRows, OnRegister, RightFor, PopSegment,
     PushDs, Unsupported, NoSuchHandler, Far, Segments, Accumulator, Immediates, Serves

\* The handlers left, but for the unused shift that op_logic gives back: its
\* rotates in one row.
LEMMA RightForOthers ==
  ASSUME NEW n, NEW b \in Byte, NEW field \in AnyFlag, OthersBytes(n, b, field),
         n # "logic_6"
  PROVE  RightFor(n, b, field)
<1>1. b \in Int /\ field \in 0 .. 7
  BY ByteDef DEF AnyFlag
<1>2. CASE b < 128
  BY <1>1, <1>2 DEF OthersBytes, Operation, ArithmeticRows, Arithmetics, RightFor, PopSegment,
     PushDs, Unsupported, NoSuchHandler, Far, Segments, Accumulator, Immediates, Serves
<1>3. CASE b >= 128 /\ b < 192
  BY <1>1, <1>3 DEF OthersBytes, Operation, MoveRows, Arithmetics, RightFor, PopSegment,
     PushDs, Unsupported, NoSuchHandler, Far, Segments, Accumulator, Immediates, Serves
<1>4. CASE b >= 192 /\ b < 224
  BY <1>1, <1>4 DEF OthersBytes, Operation, ReturnRows, Rotations, RightFor, PopSegment,
     PushDs, Unsupported, NoSuchHandler, Far, Segments, Accumulator, Immediates, Serves
<1>5. CASE b >= 224
  BY <1>1, <1>5 DEF OthersBytes, Operation, ControlRows, Indirects, Unaries, RightFor, PopSegment,
     PushDs, Unsupported, NoSuchHandler, Far, Segments, Accumulator, Immediates, Serves
<1> QED
  BY <1>1, <1>2, <1>3, <1>4, <1>5

\* Calls, jumps and conditional jumps.
LEMMA RightForPc ==
  ASSUME NEW n, NEW b \in Byte, NEW field \in AnyFlag, PcBytes(n, b, 0)
  PROVE  RightFor(n, b, field)
<1>1. b \in Int /\ field \in 0 .. 7
  BY ByteDef DEF AnyFlag
<1> QED
  BY <1>1 DEF PcBytes, Operation, RegisterRows, ControlRows, RightFor, PopSegment,
     PushDs, Unsupported, NoSuchHandler, Far, Segments, Accumulator, Immediates, Serves

\* What no table takes is nothing the program supports.
LEMMA RightForNone ==
  ASSUME NEW b \in Byte, NEW field \in AnyFlag,
         \A n : ~HandlerBytes(n, b, field), \A n : ~PcBytes(n, b, 0)
  PROVE  RightFor("none", b, field)
<1>1. b \in Int /\ 0 <= b /\ b <= 255 /\ field \in 0 .. 7
  BY ByteDef DEF AnyFlag
<1>2. ~PopSegment(b) /\ ~PushDs(b)
  BY DEF PopSegment, PushDs, HandlerBytes, OthersBytes
<1>3. CASE b < 64
  <2>1. b \in {6, 14, 22, 12, 13, 36, 37, 52, 53, 38, 39, 46, 47, 54, 55, 62, 63}
    BY <1>1, <1>3 DEF HandlerBytes, DwBytes, WBytes, OthersBytes
  <2> QED
    BY <1>2, <2>1 DEF RightFor, Unsupported, NoSuchHandler, Operation, ArithmeticRows,
       Adjustments, Segments, Accumulator
<1>4. CASE b >= 64 /\ b < 128
  <2>1. b \in 96 .. 111
    BY <1>1, <1>4 DEF HandlerBytes, RegBytes, PcBytes
  <2> QED
    BY <1>2, <2>1 DEF RightFor, Unsupported, NoSuchHandler, Operation, RegisterRows
<1>5. CASE b >= 128 /\ b < 192
  <2>1. \/ b \in 128 .. 131 /\ (field = 2 \/ (b >= 130 /\ field \in {1, 4, 6}))
        \/ b \in {140, 142, 154}
        \/ b = 143 /\ field # 0
    BY <1>1, <1>5 DEF HandlerBytes, DwBytes, SwBytes, WBytes, RegBytes, OthersBytes
  <2> QED
    BY <1>1, <1>2, <2>1 DEF RightFor, Unsupported, NoSuchHandler, Operation, MoveRows,
       Segments, Immediates, Far
<1>6. CASE b >= 192 /\ b < 224
  <2>1. \/ b \in {192, 193, 200, 201, 202, 203, 206, 207, 212, 213, 214} \cup (216 .. 223)
        \/ b \in {198, 199} /\ field # 0
    BY <1>1, <1>6 DEF HandlerBytes, WBytes, OthersBytes
  <2> QED
    BY <1>1, <1>2, <2>1 DEF RightFor, Unsupported, NoSuchHandler, Operation, ReturnRows, Far
<1>7. CASE b >= 224
  <2>1. \/ b \in {234, 240, 241}
        \/ b \in {246, 247} /\ field = 1
        \/ b = 254 /\ field > 1
        \/ b = 255 /\ field \in {3, 7}
    BY <1>1, <1>7 DEF HandlerBytes, WBytes, OthersBytes, PcBytes
  <2> QED
    BY <1>1, <1>2, <2>1 DEF RightFor, Unsupported, NoSuchHandler, Operation, ControlRows,
       Unaries, Indirects, Far
<1> QED
  BY <1>1, <1>3, <1>4, <1>5, <1>6, <1>7

\* Every instruction that is executed is executed by a handler written for it,
\* in every program: the masks and the order of the tables against the
\* instruction set.
THEOREM InstructionsReachTheirHandler == Spec => []RightHandler
<1>1. TypeOK => RightHandler
  <2> SUFFICES ASSUME TypeOK PROVE RightFor(Taker, byte1, Reg(byte2))
    BY DEF RightHandler
  <2> DEFINE b == byte1
             field == Reg(byte2)
             name == Handler[b][field]
  <2>1. b \in Byte /\ field \in AnyFlag
    BY BytesType DEF AnyFlag, RegNum
  <2>2. CASE name = "logic_6"
    <3>1. b \in 208 .. 211 /\ field = 6
      BY <2>1, <2>2, HandlerEncoding
         DEF HandlerBytes, DwBytes, SwBytes, WBytes, RegBytes, OthersBytes
    <3>2. Operation(b, field) = "undefined"
      BY <3>1 DEF Operation, ReturnRows, Rotations
    <3> QED
      BY <3>1, <3>2
         DEF RightFor, PopSegment, PushDs, Unsupported, NoSuchHandler, UnusedShift
  <2>3. CASE name # "none" /\ name # "logic_6"
    <3>1. Taker = name
      BY <2>3 DEF Taker
    <3>2. HandlerBytes(name, b, field)
      BY <2>1, <2>3, HandlerEncoding
    <3> QED
      BY <2>1, <2>3, <3>1, <3>2, RightForDw, RightForSw, RightForW, RightForReg, RightForOthers
         DEF HandlerBytes
  <2>4. CASE name = "none"
    <3>1. Taker = PcHandler[b]
      BY <2>4 DEF Taker, PcEntry, byte1
    <3>2. CASE PcHandler[b] # "none"
      BY <2>1, <3>1, <3>2, PcEncoding, RightForPc
    <3>3. CASE PcHandler[b] = "none"
      BY <2>1, <2>4, <3>1, <3>3, NoHandler, NoPcHandler, RightForNone
    <3> QED
      BY <3>2, <3>3
  <2> QED
    BY <2>2, <2>3, <2>4
<1> QED
  BY <1>1, CpuTypeCorrect, PTL
=============================================================================
