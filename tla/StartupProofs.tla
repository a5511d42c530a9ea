--------------------------- MODULE StartupProofs ----------------------------
(***************************************************************************)
(* Whatever command line and file fit into the memory, the program finds    *)
(* its arguments: the pushes of init_stack, one after the other, never      *)
(* reach a string already written nor the data area.                       *)
(***************************************************************************)
EXTENDS Startup, MachineProofs, FiniteSetTheorems, SequenceTheorems, TLAPS

(* What pushes leave alone *)

\* A string lies at address a, above SP.
Kept(st, a, str) ==
  /\ st.regs[SP] <= a
  /\ \A n \in 1 .. Len(str) + 1 : ByteAt(st.mem, a + n - 1) = StringByte(str, n)

\* The bytes of a string behind its first n are on top of the stack.
Written(st, str, n) ==
  \A m \in n + 1 .. Len(str) + 1 :
    ByteAt(st.mem, st.regs[SP] + m - n - 1) = StringByte(str, m)

\* The data area lies at address 0.
Copied(st, bytes) == \A n \in 1 .. Len(bytes) : ByteAt(st.mem, n - 1) = bytes[n]

\* A push leaves the strings above SP alone.
LEMMA KeptByPush ==
  ASSUME NEW st, IsStore(st), NEW st2, NEW n \in Nat, Pushed(st, st2, n),
         NEW a \in Int, NEW str, Len(str) \in Nat, Kept(st, a, str)
  PROVE  Kept(st2, a, str)
<1>1. /\ st2.regs[SP] = st.regs[SP] - n
      /\ \A x \in Int : x >= st.regs[SP] => ByteAt(st2.mem, x) = ByteAt(st.mem, x)
  BY DEF Pushed
<1>2. st.regs[SP] \in Int /\ st.regs[SP] <= a
  BY StackPointer DEF Kept
<1>3. \A m \in 1 .. Len(str) + 1 : a + m - 1 \in Int /\ a + m - 1 >= st.regs[SP]
  BY <1>2
<1>4. \A m \in 1 .. Len(str) + 1 : ByteAt(st2.mem, a + m - 1) = StringByte(str, m)
  BY <1>1, <1>3 DEF Kept
<1>5. st2.regs[SP] <= a
  BY <1>1, <1>2
<1> QED
  BY <1>4, <1>5 DEF Kept

\* A push that does not reach the data area leaves it alone.
LEMMA CopiedByPush ==
  ASSUME NEW st, IsStore(st), NEW st2, NEW n \in Nat, Pushed(st, st2, n),
         NEW bytes, Len(bytes) \in Nat, Len(bytes) <= st.regs[SP] - n, Copied(st, bytes)
  PROVE  Copied(st2, bytes)
<1>1. \A x \in Int : x < st.regs[SP] - n => ByteAt(st2.mem, x) = ByteAt(st.mem, x)
  BY DEF Pushed
<1>2. st.regs[SP] \in Int
  BY StackPointer
<1>3. \A m \in 1 .. Len(bytes) : m - 1 \in Int /\ m - 1 < st.regs[SP] - n
  BY <1>2
<1> QED
  BY <1>1, <1>3 DEF Copied

\* The push of its next byte takes a string one byte further.
LEMMA WrittenByPush ==
  ASSUME NEW st, IsStore(st), NEW st2, Pushed(st, st2, 1),
         NEW str, Len(str) \in Nat, NEW n \in 1 .. Len(str) + 1, Written(st, str, n),
         ByteAt(st2.mem, st.regs[SP] - 1) = StringByte(str, n)
  PROVE  Written(st2, str, n - 1)
<1> DEFINE sp == st.regs[SP]
<1>1. /\ st2.regs[SP] = sp - 1
      /\ \A x \in Int : x >= sp => ByteAt(st2.mem, x) = ByteAt(st.mem, x)
  BY DEF Pushed
<1>2. sp \in Int
  BY StackPointer
<1>3. \A m \in n + 1 .. Len(str) + 1 : ByteAt(st.mem, sp + m - n - 1) = StringByte(str, m)
  BY DEF Written
<1>4. ByteAt(st2.mem, sp - 1) = StringByte(str, n)
  OBVIOUS
<1> HIDE DEF sp
<1>5. ASSUME NEW m \in (n - 1) + 1 .. Len(str) + 1
      PROVE  ByteAt(st2.mem, (sp - 1) + m - (n - 1) - 1) = StringByte(str, m)
  <2>1. CASE m = n
    <3>1. (sp - 1) + m - (n - 1) - 1 = sp - 1
      BY <1>2, <2>1
    <3> QED
      BY <1>4, <2>1, <3>1
  <2>2. CASE m # n
    <3>1. m \in n + 1 .. Len(str) + 1
      BY <2>2
    <3>2. (sp - 1) + m - (n - 1) - 1 = sp + m - n - 1
      BY <1>2
    <3>3. sp + m - n - 1 \in Int /\ sp + m - n - 1 >= sp
      BY <1>2, <3>1
    <3> QED
      BY <1>1, <1>3, <3>1, <3>2, <3>3
  <2> QED
    BY <2>1, <2>2
<1> QED
  BY <1>1, <1>5 DEF Written

\* With its first byte a string is complete, SP its address.
LEMMA StringComplete ==
  ASSUME NEW st, IsStore(st), NEW str, Len(str) \in Nat, Written(st, str, 0)
  PROVE  Kept(st, st.regs[SP], str)
<1>1. st.regs[SP] \in Int
  BY StackPointer
<1>2. \A m \in 1 .. Len(str) + 1 : st.regs[SP] + m - 0 - 1 = st.regs[SP] + m - 1
  BY <1>1
<1>3. \A m \in 0 + 1 .. Len(str) + 1 :
        ByteAt(st.mem, st.regs[SP] + m - 0 - 1) = StringByte(str, m)
  BY DEF Written
<1> QED
  BY <1>1, <1>2, <1>3 DEF Kept

\* Before its first push a string has no byte on the stack.
LEMMA NothingWritten ==
  ASSUME NEW st, NEW str, Len(str) \in Nat PROVE Written(st, str, Len(str) + 1)
  BY DEF Written

-----------------------------------------------------------------------------
(* Strings and the room they take *)

\* What is pushed of a string are bytes.
LEMMA StringByteType ==
  ASSUME NEW str \in String
  PROVE  Len(str) \in Nat /\ \A n \in 1 .. Len(str) + 1 : StringByte(str, n) \in Byte
<1>1. Len(str) \in Nat /\ \A n \in 1 .. Len(str) : str[n] \in 1 .. 255
  BY ElementOfSeq, LenProperties DEF String
<1>2. \A x \in 1 .. 255 : x \in Byte
  BY ByteDef
<1>3. ASSUME NEW n \in 1 .. Len(str) + 1 PROVE StringByte(str, n) \in Byte
  <2>1. CASE n > Len(str)
    BY <2>1, ByteDef DEF StringByte
  <2>2. CASE ~(n > Len(str))
    <3>1. n \in 1 .. Len(str) /\ StringByte(str, n) = str[n]
      BY <1>1, <2>2 DEF StringByte
    <3> QED
      BY <1>1, <1>2, <3>1
  <2> QED
    BY <2>1, <2>2
<1> QED
  BY <1>1, <1>3

\* The environment is a string.
LEMMA EnvType == Env \in String
  BY DEF Env, String

\* The bytes of finitely many strings are finitely many.
LEMMA BytesFinite ==
  ASSUME NEW strings \in Seq(String) PROVE IsFiniteSet(Bytes(strings))
<1> DEFINE n == Len(strings)
           part(k) == {k} \X (1 .. Len(strings[k]) + 1)
           f == [k \in 1 .. n |-> part(k)]
           parts == { part(k) : k \in 1 .. n }
<1>1. n \in Nat
  BY LenProperties
<1>2. \A k \in 1 .. n : Len(strings[k]) \in Nat
  BY ElementOfSeq, LenProperties DEF String
<1>3. IsFiniteSet(1 .. n)
  BY <1>1, FS_Interval
<1>4. ASSUME NEW k \in 1 .. n PROVE IsFiniteSet(part(k))
  <2>1. IsFiniteSet(1 .. Len(strings[k]) + 1)
    BY <1>2, FS_Interval
  <2> QED
    BY <2>1, FS_Singleton, FS_Product
<1>5. f \in Surjection(1 .. n, parts)
  BY DEF Surjection
<1>6. IsFiniteSet(parts)
  BY <1>3, <1>5, FS_Surjection
<1>7. \A p \in parts : IsFiniteSet(p)
  BY <1>4
<1>8. Bytes(strings) = UNION parts
  BY DEF Bytes
<1> HIDE DEF parts
<1> QED
  BY <1>6, <1>7, <1>8, FS_UNION

\* The bytes that are still to be pushed: the strings before the k-th, and
\* the first n bytes of it.
Left(strings, k, n) ==
  { p \in Bytes(strings) : p[1] < k \/ (p[1] = k /\ p[2] <= n) }

\* How many they are.
LEMMA LeftCount ==
  ASSUME NEW strings \in Seq(String), NEW k, NEW n
  PROVE  IsFiniteSet(Left(strings, k, n)) /\ Cardinality(Left(strings, k, n)) \in Nat
<1>1. Left(strings, k, n) \in SUBSET Bytes(strings)
  BY DEF Left
<1>2. IsFiniteSet(Left(strings, k, n))
  BY <1>1, BytesFinite, FS_Subset
<1> QED
  BY <1>2, FS_CardinalityType

\* The members of Bytes.
LEMMA BytesDef ==
  ASSUME NEW strings
  PROVE  \A p : p \in Bytes(strings) <=>
           \E k \in 1 .. Len(strings) : \E n \in 1 .. Len(strings[k]) + 1 : p = <<k, n>>
  BY DEF Bytes

\* A push takes one byte.
LEMMA LeftAfterPush ==
  ASSUME NEW strings \in Seq(String), NEW k \in 1 .. Len(strings),
         NEW n \in 1 .. Len(strings[k]) + 1
  PROVE  Cardinality(Left(strings, k, n)) = Cardinality(Left(strings, k, n - 1)) + 1
<1>1. \A l \in 1 .. Len(strings) : Len(strings[l]) \in Nat
  BY ElementOfSeq, LenProperties DEF String
<1>2. <<k, n>> \in Left(strings, k, n)
  BY BytesDef DEF Left
<1>3. Left(strings, k, n - 1) = Left(strings, k, n) \ {<<k, n>>}
  <2>1. ASSUME NEW p \in Bytes(strings)
        PROVE  p \in Left(strings, k, n - 1) <=> p \in Left(strings, k, n) /\ p # <<k, n>>
    <3>1. PICK l \in 1 .. Len(strings) : \E m \in 1 .. Len(strings[l]) + 1 : p = <<l, m>>
      BY BytesDef
    <3>2. PICK m \in 1 .. Len(strings[l]) + 1 : p = <<l, m>>
      BY <3>1
    <3>3. p[1] = l /\ p[2] = m /\ (p = <<k, n>> <=> l = k /\ m = n)
      BY <3>2
    <3>4. l \in Int /\ m \in Int /\ k \in Int /\ n \in Int
      BY <1>1, LenProperties
    <3> QED
      BY <3>3, <3>4 DEF Left
  <2> QED
    BY <2>1 DEF Left
<1>4. IsFiniteSet(Left(strings, k, n)) /\ Cardinality(Left(strings, k, n)) \in Nat
  BY LeftCount
<1> DEFINE now == Left(strings, k, n)
<1> HIDE DEF now
<1>5. Cardinality(now \ {<<k, n>>}) = Cardinality(now) - 1
  BY <1>2, <1>4, FS_RemoveElement DEF now
<1>6. Left(strings, k, n - 1) = now \ {<<k, n>>} /\ Cardinality(now) \in Nat
  BY <1>3, <1>4 DEF now
<1>7. Cardinality(Left(strings, k, n - 1)) = Cardinality(now) - 1
  BY <1>5, <1>6, Zenon
<1>8. Cardinality(now) = Cardinality(Left(strings, k, n - 1)) + 1
  BY <1>6, <1>7
<1> QED
  BY <1>8 DEF now

\* From one string to the next nothing is pushed.
LEMMA LeftNext ==
  ASSUME NEW strings \in Seq(String), NEW k \in 1 .. Len(strings)
  PROVE  Left(strings, k, 0)
           = Left(strings, k - 1, IF k > 1 THEN Len(strings[k - 1]) + 1 ELSE 0)
<1> DEFINE top == IF k > 1 THEN Len(strings[k - 1]) + 1 ELSE 0
<1>1. Len(strings) \in Nat /\ \A l \in 1 .. Len(strings) : Len(strings[l]) \in Nat
  BY ElementOfSeq, LenProperties DEF String
<1>2. ASSUME NEW p \in Bytes(strings)
      PROVE  p \in Left(strings, k, 0) <=> p \in Left(strings, k - 1, top)
  <2>1. PICK l \in 1 .. Len(strings) : \E m \in 1 .. Len(strings[l]) + 1 : p = <<l, m>>
    BY BytesDef
  <2>2. PICK m \in 1 .. Len(strings[l]) + 1 : p = <<l, m>>
    BY <2>1
  <2>3. p[1] = l /\ p[2] = m /\ l \in Nat /\ m \in Nat /\ l >= 1 /\ m >= 1 /\ k \in Nat
    BY <1>1, <2>2
  <2>4. l = k - 1 => m <= top
    BY <1>1
  <2> QED
    BY <2>3, <2>4 DEF Left
<1> QED
  BY <1>2 DEF Left

\* To begin with all bytes are left.
LEMMA LeftAll ==
  ASSUME NEW strings \in Seq(String)
  PROVE  LET n == Len(strings) IN
         Left(strings, n, IF n > 0 THEN Len(strings[n]) + 1 ELSE 0) = Bytes(strings)
<1> DEFINE n == Len(strings)
           top == IF n > 0 THEN Len(strings[n]) + 1 ELSE 0
<1>1. n \in Nat /\ \A l \in 1 .. n : Len(strings[l]) \in Nat
  BY ElementOfSeq, LenProperties DEF String
<1>2. ASSUME NEW p \in Bytes(strings) PROVE p[1] < n \/ (p[1] = n /\ p[2] <= top)
  <2>1. PICK l \in 1 .. n : \E m \in 1 .. Len(strings[l]) + 1 : p = <<l, m>>
    BY BytesDef
  <2>2. PICK m \in 1 .. Len(strings[l]) + 1 : p = <<l, m>>
    BY <2>1
  <2>3. p[1] = l /\ p[2] = m
    BY <2>2
  <2> QED
    BY <1>1, <2>3
<1> QED
  BY <1>2 DEF Left

-----------------------------------------------------------------------------
(* The file and the command line *)

\* The header gives lengths, and what they cut out are bytes.
LEMMA FileType ==
  ASSUME NEW p \in DOMAIN Files
  PROVE  LET b == Files[p] IN
         /\ TextLength(b) \in Int /\ DataLength(b) \in Int
         /\ 0 <= TextLength(b)
         /\ AfterHeader(b) \in Seq(Byte) /\ Len(AfterHeader(b)) \in Nat
         /\ TextLength(b) + DataLength(b) <= Len(AfterHeader(b))
<1> DEFINE b == Files[p]
<1>1. /\ b \in Seq(Byte) /\ Len(b) >= 16 /\ 0 <= TextLength(b)
      /\ a_hdrlen(b) + TextLength(b) + DataLength(b) <= Len(b)
  BY FilesAssumption
<1> HIDE DEF b
<1>2. Len(b) \in Nat /\ \A n \in 1 .. Len(b) : b[n] \in Byte
  BY <1>1, ElementOfSeq, LenProperties
<1>3. \A n \in 1 .. 16 : b[n] \in Byte
  BY <1>1, <1>2
<1>4. ASSUME NEW at \in {8, 12} PROVE Int32(b, at) \in Int
  <2>1. b[at + 1] \in Int /\ b[at + 2] \in Int /\ b[at + 3] \in Int /\ b[at + 4] \in Int
    BY <1>3, ByteDef
  <2>2. Signed8(b[at + 4]) \in Int
    BY <2>1 DEF Signed8
  <2> QED
    BY <2>1, <2>2 DEF Int32
<1>5. TextLength(b) \in Int /\ DataLength(b) \in Int
  BY <1>4 DEF TextLength, DataLength
<1>6. a_hdrlen(b) \in Int /\ 0 <= a_hdrlen(b)
  BY <1>3, ByteDef DEF a_hdrlen
<1> DEFINE h == a_hdrlen(b)
<1> HIDE DEF h
<1>7. /\ SubSeq(b, h + 1, Len(b)) \in Seq(Byte)
      /\ Len(SubSeq(b, h + 1, Len(b)))
           = IF h + 1 <= Len(b) THEN Len(b) - (h + 1) + 1 ELSE 0
  <2>1. h + 1 \in Int /\ Len(b) \in Int /\ \A n \in h + 1 .. Len(b) : b[n] \in Byte
    BY <1>2, <1>6 DEF h
  <2> QED
    BY <2>1, SubSeqProperties
<1>8. AfterHeader(b) = SubSeq(b, h + 1, Len(b))
  BY DEF AfterHeader, h
<1>9. /\ Len(AfterHeader(b)) \in Nat
      /\ TextLength(b) + DataLength(b) <= Len(AfterHeader(b))
  BY <1>1, <1>2, <1>5, <1>6, <1>7, <1>8 DEF h
<1> QED
  BY <1>1, <1>5, <1>7, <1>8, <1>9 DEF b

\* The data area: the bytes of the file behind its text.
LEMMA DataType ==
  ASSUME NEW p \in DOMAIN Files
  PROVE  LET b == Files[p] IN
         /\ DataArea(b) \in Seq(Byte) /\ Len(DataArea(b)) \in Nat
         /\ DataLength(b) <= Len(DataArea(b))
         /\ \A n \in 1 .. Len(DataArea(b)) :
              /\ n \in 1 .. DataLength(b)
              /\ DataArea(b)[n] = AfterHeader(b)[TextLength(b) + n]
<1> DEFINE b == Files[p]
           t == TextLength(b)
           d == DataLength(b)
           r == AfterHeader(b)
<1>1. /\ t \in Int /\ d \in Int /\ 0 <= t /\ r \in Seq(Byte) /\ Len(r) \in Nat
      /\ t + d <= Len(r)
  BY FileType
<1>2. DataArea(b) = SubSeq(r, t + 1, t + d)
  BY DEF DataArea
<1> HIDE DEF b, t, d, r
<1>3. \A n \in t + 1 .. t + d : n \in 1 .. Len(r)
  BY <1>1
<1>4. t + 1 \in Int /\ t + d \in Int /\ \A n \in t + 1 .. t + d : r[n] \in Byte
  BY <1>1, <1>3, ElementOfSeq
<1>5. /\ DataArea(b) \in Seq(Byte)
      /\ Len(DataArea(b)) = IF t + 1 <= t + d THEN (t + d) - (t + 1) + 1 ELSE 0
      /\ \A n \in 1 .. (t + d) - (t + 1) + 1 : DataArea(b)[n] = r[t + 1 + n - 1]
  BY <1>2, <1>4, SubSeqProperties
<1>6. Len(DataArea(b)) = IF 1 <= d THEN d ELSE 0
  BY <1>1, <1>5
<1>7. (t + d) - (t + 1) + 1 = d /\ \A n \in Int : t + 1 + n - 1 = t + n
  BY <1>1
<1>8. ASSUME NEW n \in 1 .. Len(DataArea(b))
      PROVE  n \in 1 .. d /\ DataArea(b)[n] = r[t + n]
  <2>1. n \in 1 .. d /\ n \in Int
    BY <1>1, <1>6
  <2>2. DataArea(b)[n] = r[t + 1 + n - 1]
    BY <1>5, <1>7, <2>1
  <2> QED
    BY <1>7, <2>1, <2>2
<1>9. Len(DataArea(b)) \in Nat /\ d <= Len(DataArea(b))
  BY <1>1, <1>6
<1> QED
  BY <1>5, <1>8, <1>9 DEF b, t, d, r

\* The store the loops of init_stack start with.
LEMMA StartStore ==
  ASSUME NEW p \in DOMAIN Files, Len(DataArea(Files[p])) <= 65535
  PROVE  LET b  == Files[p]
             st == Start(AfterHeader(b), TextLength(b), DataLength(b)) IN
         IsStore(st) /\ st.regs[SP] = 65535 /\ Copied(st, DataArea(b))
<1> DEFINE b == Files[p]
           t == TextLength(b)
           d == DataLength(b)
           r == AfterHeader(b)
           x == DataArea(b)
           regs == [n \in RegNum |-> IF n = SP THEN 65535 ELSE 0]
           mem == [a \in 0 .. d - 1 |-> r[t + a + 1]]
           st == Start(r, t, d)
<1>1. /\ t \in Int /\ d \in Int /\ 0 <= t /\ r \in Seq(Byte) /\ Len(r) \in Nat
      /\ t + d <= Len(r)
  BY FileType
<1>2. /\ Len(x) \in Nat /\ d <= Len(x) /\ Len(x) <= 65535
      /\ \A n \in 1 .. Len(x) : n \in 1 .. d /\ x[n] = r[t + n]
  BY DataType
<1>3. st = [regs |-> regs, mem |-> mem]
  BY DEF Start
<1>4. regs \in [RegNum -> Word] /\ regs[SP] = 65535
  <2>1. SP \in RegNum
    BY DEF SP, RegNum
  <2>2. 65535 \in Word /\ 0 \in Word
    BY WordDef
  <2> QED
    BY <2>1, <2>2
<1> HIDE DEF b, t, d, r, x
<1>5. DOMAIN mem = 0 .. d - 1 /\ \A a \in 0 .. d - 1 : mem[a] = r[t + a + 1]
  OBVIOUS
<1> HIDE DEF regs, mem, st
<1>6. IsMem(mem)
  <2>1. \A a \in 0 .. d - 1 : t + a + 1 \in 1 .. Len(r)
    BY <1>1
  <2>2. \A a \in 0 .. d - 1 : mem[a] \in Byte
    BY <1>1, <1>5, <2>1, ElementOfSeq
  <2>3. \A a \in 0 .. d - 1 : a \in Word
    BY <1>1, <1>2, WordDef
  <2> QED
    BY <1>5, <2>2, <2>3, AddressType DEF IsMem
<1>7. Copied(st, x)
  <2>1. ASSUME NEW n \in 1 .. Len(x) PROVE ByteAt(st.mem, n - 1) = x[n]
    <3>1. n \in 1 .. d /\ x[n] = r[t + n]
      BY <1>2
    <3>2. n - 1 \in 0 .. d - 1 /\ t + (n - 1) + 1 = t + n
      BY <1>1, <3>1
    <3>3. mem[n - 1] = r[t + n]
      BY <1>5, <3>2
    <3> QED
      BY <1>3, <1>5, <3>1, <3>2, <3>3 DEF ByteAt
  <2> QED
    BY <2>1 DEF Copied
<1>8. IsStore(st) /\ st.regs[SP] = 65535
  BY <1>3, <1>4, <1>6 DEF IsStore
<1> QED
  BY <1>7, <1>8 DEF b, t, d, r, x, st

\* The operands of a command are strings.
LEMMA OperandsType ==
  ASSUME NEW c \in Commands, Len(c) > 1
  PROVE  /\ OperandsOf(c) \in Seq(String)
         /\ OperandsOf(c) = IF IsOption(c[2]) THEN Tail(Tail(c)) ELSE Tail(c)
<1>1. c \in Seq(String) /\ Len(c) \in Nat
  BY CommandsAssumption, LenProperties
<1>2. c # <<>> /\ Tail(c) \in Seq(String) /\ Len(Tail(c)) = Len(c) - 1
      /\ \A n \in 1 .. Len(Tail(c)) : Tail(c)[n] = c[n + 1]
  <2>1. c # <<>>
    BY <1>1
  <2> QED
    BY <1>1, <2>1, HeadTailProperties
<1>3. Tail(Tail(c)) \in Seq(String) /\ Len(Tail(Tail(c))) = Len(c) - 2
      /\ \A n \in 1 .. Len(Tail(Tail(c))) : Tail(Tail(c))[n] = Tail(c)[n + 1]
  <2>1. Tail(c) # <<>>
    <3>1. Len(Tail(c)) # 0
      BY <1>1, <1>2
    <3> QED
      BY <3>1, EmptySeq
  <2>2. Len(Tail(c)) - 1 = Len(c) - 2
    BY <1>1, <1>2
  <2> QED
    BY <1>2, <2>1, <2>2, HeadTailProperties
<1>4. Tail(c) = SubSeq(c, 2, Len(c))
  BY <1>1, <1>2, TailIsSubSeq
<1>5. Tail(Tail(c)) = SubSeq(c, 3, Len(c))
  <2> DEFINE u == SubSeq(c, 3, Len(c))
             v == Tail(Tail(c))
  <2>1. \A n \in 3 .. Len(c) : n \in 1 .. Len(c)
    BY <1>1
  <2>2. \A n \in 3 .. Len(c) : c[n] \in String
    BY <1>1, <2>1, ElementOfSeq
  <2>3. /\ u \in Seq(String)
        /\ Len(u) = IF 3 <= Len(c) THEN Len(c) - 3 + 1 ELSE 0
        /\ \A n \in 1 .. Len(c) - 3 + 1 : u[n] = c[3 + n - 1]
    BY <1>1, <2>2, SubSeqProperties
  <2> HIDE DEF u
  <2>4. Len(u) = Len(v)
    BY <1>1, <1>3, <2>3
  <2>5. ASSUME NEW n \in 1 .. Len(v) PROVE u[n] = v[n]
    <3>1. n \in 1 .. Len(c) - 3 + 1 /\ n + 1 \in 1 .. Len(Tail(c))
          /\ 3 + n - 1 = (n + 1) + 1
      BY <1>1, <1>2, <1>3
    <3>2. u[n] = c[3 + n - 1]
      BY <2>3, <3>1
    <3>3. v[n] = Tail(c)[n + 1]
      BY <1>3
    <3>4. Tail(c)[n + 1] = c[(n + 1) + 1]
      BY <1>2, <3>1
    <3> QED
      BY <3>1, <3>2, <3>3, <3>4
  <2> HIDE DEF v
  <2>6. v \in Seq(String)
    BY <1>3 DEF v
  <2>7. u = v
    BY <2>3, <2>4, <2>5, <2>6, SeqEqual
  <2> QED
    BY <2>7 DEF u, v
<1> QED
  BY <1>2, <1>3, <1>4, <1>5 DEF OperandsOf

-----------------------------------------------------------------------------
(* The invariant *)

Loaded == phase \in {"env", "args", "words", "done"}

\* Between the data area and SP there is room for n bytes and the words.
Room(n) == Len(data) + n + 2 * (argc + 4) <= s.regs[SP]

\* The mode tells whether there was an option.
ModeKnown ==
  phase = "open" \/ Loaded
    => Len(command) > 1 /\ (mode = "INTERPRET" <=> ~IsOption(command[2]))

OperandsLoaded == Loaded => argv = Operands /\ Copied(s, data)

\* While the environment is pushed.
EnvInv == phase = "env" =>
  /\ i = argc /\ j <= Len(Env) + 1
  /\ \A k \in 1 .. argc : arg_addr[k] = 0
  /\ Written(s, Env, j)
  /\ Room(j + Cardinality(Bytes(argv)))

\* While the arguments are pushed: those behind the i-th are complete.
ArgsInv == phase = "args" =>
  /\ i <= argc
  /\ i > 0 => j <= Len(argv[i]) + 1 /\ Written(s, argv[i], j)
  /\ \A k \in 1 .. i : arg_addr[k] = 0
  /\ \A k \in i + 1 .. argc : Kept(s, arg_addr[k], argv[k])
  /\ Kept(s, env_addr, Env)
  /\ Room(Cardinality(Left(argv, i, j)))

\* While the words are pushed: those behind the i-th are on top.
WordsInv == phase \in {"words", "done"} =>
  /\ argc \in Word
  /\ \A k \in 1 .. argc : Kept(s, arg_addr[k], argv[k])
  /\ Kept(s, env_addr, Env)
  /\ \A k \in i + 1 .. argc + 4 :
       get_memory(s, s.regs[SP] + 2 * (k - i - 1), 1) = Words[k]
  /\ Len(data) + 2 * i <= s.regs[SP]
  /\ phase = "done" => i = 0

Typed == TypeOK /\ IsStore(s) /\ argv \in Seq(String)

StartInv ==
  Typed /\ ModeKnown /\ OperandsLoaded /\ EnvInv /\ ArgsInv /\ WordsInv

\* The types the steps need.
LEMMA TypedFacts ==
  ASSUME Typed
  PROVE  /\ argc \in Nat /\ i \in Nat /\ j \in Nat
         /\ \A k \in 1 .. argc : argv[k] \in String /\ Len(argv[k]) \in Nat
         /\ Len(data) \in Nat
         /\ s.regs[SP] \in Int /\ 0 <= s.regs[SP] /\ s.regs[SP] <= 65535
         /\ env_addr \in Int /\ \A k \in 1 .. argc : arg_addr[k] \in Int
<1>1. argc \in Nat /\ Len(data) \in Nat
  BY LenProperties DEF Typed, TypeOK, argc
<1>2. i \in 0 .. argc + 4 /\ j \in Nat
  BY DEF Typed, TypeOK
<1>3. \A k \in 1 .. argc : argv[k] \in String
  BY ElementOfSeq DEF Typed, argc
<1>4. \A k \in 1 .. argc : Len(argv[k]) \in Nat
  BY <1>3, StringByteType
<1>5. env_addr \in Int /\ \A k \in 1 .. argc : arg_addr[k] \in Int
  <2>1. arg_addr \in [1 .. argc -> Word] /\ env_addr \in Word
    BY DEF Typed, TypeOK
  <2>2. \A k \in 1 .. argc : arg_addr[k] \in Word
    BY <2>1
  <2> QED
    BY <2>1, <2>2, WordDef
<1> QED
  BY <1>1, <1>2, <1>3, <1>4, <1>5, StackPointer DEF Typed

\* Steps of init_stack keep the types of what they do not assign, and what is
\* known of the command line.
LEMMA StackStep ==
  ASSUME StartInv, UNCHANGED mainVars, UNCHANGED argv, Loaded, Loaded',
         IsStore(s'), i' \in 0 .. argc + 4, j' \in Nat, env_addr' \in Word,
         arg_addr' \in [1 .. argc -> Word], Copied(s', data)
  PROVE  Typed' /\ ModeKnown' /\ OperandsLoaded' /\ argc' = argc
<1>1. argc' = argc
  BY DEF argc
<1>2. s'.regs \in [RegNum -> Word] /\ IsMem(s'.mem)
  BY DEF IsStore
<1>3. phase' \in Phases
  BY DEF Loaded, Phases
<1>4. TypeOK'
  BY <1>1, <1>2, <1>3 DEF StartInv, Typed, TypeOK, mainVars
<1>5. ModeKnown' /\ OperandsLoaded'
  BY DEF StartInv, ModeKnown, OperandsLoaded, Operands, mainVars
<1> QED
  BY <1>1, <1>4, <1>5 DEF StartInv, Typed

\* Before init_stack nothing is said of the stack.
LEMMA Unloaded ==
  ASSUME ~Loaded PROVE OperandsLoaded /\ EnvInv /\ ArgsInv /\ WordsInv
  BY DEF Loaded, OperandsLoaded, EnvInv, ArgsInv, WordsInv

LEMMA InitStarts == ASSUME Init PROVE StartInv
<1>1. /\ s.regs = [r \in RegNum |-> 0] /\ s.mem = <<>>
      /\ s = [regs |-> s.regs, mem |-> s.mem]
  BY DEF Init, Idle
<1>2. 0 \in Word
  BY WordDef
<1>3. IsStore(s)
  <2>1. IsMem(s.mem)
    BY <1>1 DEF IsMem
  <2> QED
    BY <1>1, <1>2, <2>1 DEF IsStore
<1>4. argc = 0 /\ argv \in Seq(String)
  BY DEF Init, Idle, argc
<1>5. TypeOK
  BY <1>2, <1>3, <1>4 DEF Init, Idle, TypeOK, Phases, IsStore
<1>6. ~Loaded /\ phase = "command"
  BY DEF Init, Loaded
<1> QED
  BY <1>3, <1>4, <1>5, <1>6, Unloaded DEF StartInv, Typed, ModeKnown, Loaded

\* The ends of main() before the loop, and the choice of the mode.
LEMMA MainStep ==
  ASSUME StartInv, NoCommand \/ UnknownOption \/ SelectMode \/ CannotRead
  PROVE  StartInv'
<1>1. UNCHANGED <<argv, s, i, j, env_addr, arg_addr, command, text, a_text, data>>
  BY DEF NoCommand, UnknownOption, SelectMode, CannotRead, Exit, Select
<1>2. ASSUME NEW n \in {1}, Exit(n) PROVE StartInv'
  <2>1. /\ phase' = "exit" /\ code' = n
        /\ UNCHANGED <<command, mode, path, text, a_text, data>>
        /\ UNCHANGED <<argv, s, i, j, env_addr, arg_addr>>
    BY <1>2 DEF Exit
  <2>2. TypeOK' /\ Typed'
    BY <2>1 DEF StartInv, Typed, TypeOK, argc, Phases
  <2>3. ~Loaded' /\ phase' # "open"
    BY <2>1 DEF Loaded
  <2>4. ModeKnown'
    BY <2>3 DEF ModeKnown
  <2>5. OperandsLoaded' /\ EnvInv' /\ ArgsInv' /\ WordsInv'
    BY <2>3 DEF Loaded, OperandsLoaded, EnvInv, ArgsInv, WordsInv
  <2> QED
    BY <2>2, <2>4, <2>5 DEF StartInv
<1>3. ASSUME SelectMode PROVE StartInv'
  <2>1. /\ phase' = "open" /\ Len(command) >= 2 /\ UNCHANGED code
        /\ mode' \in {"INTERPRET", "INTERPRET_DEBUG", "DISSASSEMBLE"}
        /\ mode' = "INTERPRET" <=> ~IsOption(command[2])
    <3>1. IsOption(Trace) /\ IsOption(List)
      BY DEF IsOption, Trace, List
    <3> QED
      BY <1>3, <3>1 DEF SelectMode, Select
  <2>2. TypeOK' /\ Typed'
    BY <1>1, <2>1 DEF StartInv, Typed, TypeOK, argc, Phases
  <2>3. Len(command) \in Nat
    BY CommandsAssumption, LenProperties DEF StartInv, Typed, TypeOK
  <2>4. ModeKnown'
    BY <1>1, <2>1, <2>3 DEF ModeKnown
  <2>5. ~Loaded'
    BY <2>1 DEF Loaded
  <2>6. OperandsLoaded' /\ EnvInv' /\ ArgsInv' /\ WordsInv'
    BY <2>5 DEF Loaded, OperandsLoaded, EnvInv, ArgsInv, WordsInv
  <2> QED
    BY <2>2, <2>4, <2>6 DEF StartInv
<1> QED
  BY <1>2, <1>3 DEF NoCommand, UnknownOption, CannotRead

\* The file is read and the data area copied: nothing is pushed yet.
LEMMA LoadStep == ASSUME StartInv, LoadFile PROVE StartInv'
<1> DEFINE b == Files[path]
           st == Start(AfterHeader(b), TextLength(b), DataLength(b))
<1>1. /\ phase = "open" /\ path \in DOMAIN Files
      /\ text' = AfterHeader(b) /\ a_text' = TextLength(b) /\ data' = DataArea(b)
      /\ s' = st /\ argv' = ProgramArgs /\ phase' = "env"
      /\ i' = Len(argv') /\ j' = Len(Env) + 1 /\ env_addr' = 0
      /\ arg_addr' = [n \in 1 .. Len(argv') |-> 0]
      /\ UNCHANGED <<command, mode, path, code>>
  BY DEF LoadFile, Enter
<1>2. /\ command \in Commands /\ Len(command) > 1
      /\ mode = "INTERPRET" <=> ~IsOption(command[2])
  BY <1>1 DEF StartInv, Typed, TypeOK, ModeKnown
<1>3. argv' = Operands /\ argv' \in Seq(String)
  BY <1>1, <1>2, OperandsType DEF Operands, ProgramArgs
<1>4. Len(data') + Len(Env) + 1 + Cardinality(Bytes(argv')) + 2 * (Len(argv') + 4) <= 65535
  BY <1>1, <1>2, <1>3, RoomAssumption DEF Operands, STACK_CAPACITY
<1>5. /\ Len(argv') \in Nat /\ Len(Env) \in Nat /\ Cardinality(Bytes(argv')) \in Nat
  BY <1>3, LenProperties, EnvType, StringByteType, BytesFinite, FS_CardinalityType
<1>6. /\ text' \in Seq(Byte) /\ a_text' \in Int
      /\ data' \in Seq(Byte) /\ Len(data') \in Nat
  BY <1>1, FileType, DataType
<1>7. Len(data') <= 65535
  BY <1>4, <1>5, <1>6
<1>8. IsStore(s') /\ s'.regs[SP] = 65535 /\ Copied(s', data')
  BY <1>1, <1>7, StartStore
<1>9. argc' = Len(argv')
  BY DEF argc
<1>10. TypeOK'
  <2>1. i' \in 0 .. argc' + 4 /\ j' \in Nat
    BY <1>1, <1>5, <1>9
  <2>2. env_addr' \in Word /\ arg_addr' \in [1 .. argc' -> Word]
    <3>1. 0 \in Word
      BY WordDef
    <3> QED
      BY <1>1, <1>9, <3>1
  <2>3. s'.regs \in [RegNum -> Word] /\ IsMem(s'.mem)
    BY <1>8 DEF IsStore
  <2> QED
    BY <1>1, <1>2, <1>6, <2>1, <2>2, <2>3 DEF StartInv, Typed, TypeOK, Phases
<1>11. Typed' /\ ModeKnown' /\ OperandsLoaded'
  BY <1>1, <1>2, <1>3, <1>8, <1>10 DEF Typed, ModeKnown, OperandsLoaded, Operands
<1>12. EnvInv'
  <2>1. Written(s', Env, Len(Env) + 1)
    BY <1>5, NothingWritten
  <2>2. Len(data') + (j' + Cardinality(Bytes(argv'))) + 2 * (argc' + 4) <= s'.regs[SP]
    BY <1>1, <1>4, <1>5, <1>6, <1>8, <1>9
  <2>3. Room(j + Cardinality(Bytes(argv)))'
    BY <2>2 DEF Room
  <2>4. i' = argc' /\ j' <= Len(Env) + 1 /\ \A k \in 1 .. argc' : arg_addr'[k] = 0
    BY <1>1, <1>5, <1>9
  <2> QED
    BY <1>1, <2>1, <2>3, <2>4 DEF EnvInv
<1>13. ArgsInv' /\ WordsInv'
  BY <1>1 DEF ArgsInv, WordsInv
<1> QED
  BY <1>11, <1>12, <1>13 DEF StartInv

\* A byte of the environment.
LEMMA PushEnvStep == ASSUME StartInv, PushEnv, UNCHANGED mainVars PROVE StartInv'
<1> DEFINE b == StringByte(Env, j)
           bytes == Cardinality(Bytes(argv))
<1>1. /\ phase = "env" /\ j > 0 /\ s' = push_stack(s, b, 0) /\ j' = j - 1
      /\ UNCHANGED <<argv, phase, i, env_addr, arg_addr>>
  BY DEF PushEnv, Push
<1>2. /\ i = argc /\ j <= Len(Env) + 1
      /\ \A k \in 1 .. argc : arg_addr[k] = 0
      /\ Written(s, Env, j)
      /\ Len(data) + (j + bytes) + 2 * (argc + 4) <= s.regs[SP]
  BY <1>1 DEF StartInv, EnvInv, Room
<1>3. Typed /\ IsStore(s) /\ argv \in Seq(String)
  BY DEF StartInv, Typed
<1>4. bytes \in Nat /\ Len(Env) \in Nat
  BY <1>3, BytesFinite, FS_CardinalityType, EnvType, StringByteType
<1>5. j \in 1 .. Len(Env) + 1 /\ b \in Byte
  BY <1>1, <1>2, <1>3, <1>4, TypedFacts, EnvType, StringByteType
<1> HIDE DEF b, bytes
<1>6. s.regs[SP] >= 1 /\ Len(data) <= s.regs[SP] - 1
  BY <1>2, <1>3, <1>4, <1>5, TypedFacts
<1>7. Pushed(s, s', 1) /\ ByteAt(s'.mem, s.regs[SP] - 1) = b
  BY <1>1, <1>3, <1>5, <1>6, BytePushed
<1>8. Copied(s', data)
  <2>1. Copied(s, data) /\ Len(data) \in Nat
    BY <1>1, <1>3, TypedFacts DEF StartInv, OperandsLoaded, Loaded
  <2> QED
    BY <1>3, <1>6, <1>7, <2>1, CopiedByPush
<1>9. Written(s', Env, j - 1)
  BY <1>2, <1>3, <1>4, <1>5, <1>7, WrittenByPush DEF b
<1>10. s'.regs[SP] = s.regs[SP] - 1 /\ IsStore(s')
  BY <1>7 DEF Pushed
<1>11. Typed' /\ ModeKnown' /\ OperandsLoaded' /\ argc' = argc
  <2>1. i' \in 0 .. argc + 4 /\ env_addr' \in Word /\ arg_addr' \in [1 .. argc -> Word]
    BY <1>1 DEF StartInv, Typed, TypeOK
  <2>2. j' \in Nat /\ Loaded /\ Loaded'
    BY <1>1, <1>5 DEF Loaded
  <2> QED
    BY <1>1, <1>8, <1>10, <2>1, <2>2, StackStep
<1>12. EnvInv'
  <2>1. Len(data) + ((j - 1) + bytes) + 2 * (argc + 4) <= s.regs[SP] - 1
    <3> DEFINE d == Len(data)
               words == 2 * (argc + 4)
               sp == s.regs[SP]
    <3>1. d \in Int /\ words \in Int /\ sp \in Int /\ j \in Int /\ bytes \in Int
      BY <1>3, <1>4, TypedFacts
    <3>2. d + (j + bytes) + words <= sp
      BY <1>2
    <3> HIDE DEF d, words, sp
    <3>3. d + ((j - 1) + bytes) + words <= sp - 1
      BY <3>1, <3>2
    <3> QED
      BY <3>3 DEF d, words, sp
  <2>2. Len(data') + (j' + Cardinality(Bytes(argv'))) + 2 * (argc' + 4) <= s'.regs[SP]
    BY <1>1, <1>10, <1>11, <2>1 DEF bytes, mainVars
  <2>3. Room(j + Cardinality(Bytes(argv)))'
    BY <2>2 DEF Room
  <2>4. j' <= Len(Env) + 1
    BY <1>1, <1>4, <1>5
  <2> QED
    BY <1>1, <1>2, <1>9, <1>11, <2>3, <2>4 DEF EnvInv
<1>13. ArgsInv' /\ WordsInv'
  BY <1>1 DEF ArgsInv, WordsInv
<1> QED
  BY <1>11, <1>12, <1>13 DEF StartInv

\* The environment is complete: SP is its address, and all bytes of the
\* arguments are left.
LEMMA EnvDoneStep == ASSUME StartInv, EnvDone, UNCHANGED mainVars PROVE StartInv'
<1>1. /\ phase = "env" /\ phase' = "args" /\ j = 0 /\ env_addr' = s.regs[SP]
      /\ j' = IF i > 0 THEN Len(argv[i]) + 1 ELSE 0
      /\ UNCHANGED <<argv, s, i, arg_addr>>
  BY DEF EnvDone
<1>2. /\ i = argc /\ Written(s, Env, 0)
      /\ \A k \in 1 .. argc : arg_addr[k] = 0
      /\ Len(data) + (0 + Cardinality(Bytes(argv))) + 2 * (argc + 4) <= s.regs[SP]
  BY <1>1 DEF StartInv, EnvInv, Room
<1>3. Typed /\ IsStore(s) /\ argv \in Seq(String) /\ SP \in RegNum
  BY StackPointer DEF StartInv, Typed
<1>4. /\ argc \in Nat /\ i \in Nat
      /\ \A k \in 1 .. argc : argv[k] \in String /\ Len(argv[k]) \in Nat
  BY <1>3, TypedFacts
<1>5. j' \in Nat
  BY <1>1, <1>2, <1>4
<1>6. Kept(s, env_addr', Env)
  BY <1>1, <1>2, <1>3, EnvType, StringByteType, StringComplete
<1>7. Typed' /\ ModeKnown' /\ OperandsLoaded' /\ argc' = argc
  <2>1. i' \in 0 .. argc + 4 /\ arg_addr' \in [1 .. argc -> Word]
    BY <1>1 DEF StartInv, Typed, TypeOK
  <2>2. env_addr' \in Word /\ IsStore(s')
    BY <1>1, <1>3 DEF IsStore
  <2>3. Copied(s', data)
    BY <1>1 DEF StartInv, OperandsLoaded, Loaded
  <2>4. Loaded /\ Loaded'
    BY <1>1 DEF Loaded
  <2> QED
    BY <1>1, <1>5, <2>1, <2>2, <2>3, <2>4, StackStep
<1>8. ArgsInv'
  <2>1. i > 0 => j' = Len(argv[i]) + 1 /\ Written(s, argv[i], j')
    BY <1>1, <1>2, <1>4, NothingWritten
  <2>2. Left(argv, i, j') = Bytes(argv)
    BY <1>1, <1>2, <1>3, LeftAll DEF argc
  <2>3. 0 + Cardinality(Bytes(argv)) = Cardinality(Left(argv, i, j'))
    BY <1>3, <2>2, BytesFinite, FS_CardinalityType
  <2>4. Len(data) + Cardinality(Left(argv, i, j')) + 2 * (argc + 4) <= s.regs[SP]
    BY <1>2, <2>3
  <2>5. Room(Cardinality(Left(argv, i, j)))'
    BY <1>1, <1>7, <2>4 DEF Room, mainVars
  <2>6. i' > 0 => j' <= Len(argv'[i']) + 1 /\ Written(s', argv'[i'], j')
    BY <1>1, <1>2, <1>4, <2>1
  <2>7. /\ i' <= argc' /\ \A k \in 1 .. i' : arg_addr'[k] = 0
        /\ \A k \in i' + 1 .. argc' : Kept(s', arg_addr'[k], argv'[k])
    BY <1>1, <1>2, <1>4, <1>7
  <2>8. Kept(s', env_addr', Env)
    BY <1>1, <1>6
  <2> QED
    BY <2>5, <2>6, <2>7, <2>8 DEF ArgsInv
<1>9. EnvInv' /\ WordsInv'
  BY <1>1 DEF EnvInv, WordsInv
<1> QED
  BY <1>7, <1>8, <1>9 DEF StartInv

\* A byte of an argument.
LEMMA PushArgStep == ASSUME StartInv, PushArg, UNCHANGED mainVars PROVE StartInv'
<1> DEFINE str == argv[i]
           b == StringByte(str, j)
           left(n) == Cardinality(Left(argv, i, n))
<1>1. /\ phase = "args" /\ i > 0 /\ j > 0 /\ s' = push_stack(s, b, 0) /\ j' = j - 1
      /\ UNCHANGED <<argv, phase, i, env_addr, arg_addr>>
  BY DEF PushArg, Push
<1>2. /\ i <= argc /\ j <= Len(str) + 1 /\ Written(s, str, j)
      /\ \A k \in 1 .. i : arg_addr[k] = 0
      /\ \A k \in i + 1 .. argc : Kept(s, arg_addr[k], argv[k])
      /\ Kept(s, env_addr, Env)
      /\ Len(data) + left(j) + 2 * (argc + 4) <= s.regs[SP]
  BY <1>1 DEF StartInv, ArgsInv, Room
<1>3. Typed /\ IsStore(s) /\ argv \in Seq(String)
  BY DEF StartInv, Typed
<1>4. /\ argc \in Nat /\ i \in 1 .. argc
      /\ \A k \in 1 .. argc : argv[k] \in String /\ Len(argv[k]) \in Nat
  BY <1>1, <1>2, <1>3, TypedFacts
<1>5. str \in String /\ Len(str) \in Nat /\ j \in 1 .. Len(str) + 1 /\ b \in Byte
  BY <1>1, <1>2, <1>3, <1>4, TypedFacts, StringByteType
<1>6. left(j) = left(j - 1) + 1 /\ left(j - 1) \in Nat
  BY <1>3, <1>4, <1>5, LeftAfterPush, LeftCount DEF argc
<1> DEFINE d == Len(data)
           words == 2 * (argc + 4)
           sp == s.regs[SP]
           now == left(j)
           then == left(j - 1)
<1>7. d \in Nat /\ words \in Nat /\ sp \in Int
  BY <1>3, <1>4, TypedFacts
<1>8. d + now + words <= sp /\ now = then + 1 /\ then \in Nat
  BY <1>2, <1>6
<1> HIDE DEF d, words, sp, now, then
<1>9. sp >= 1 /\ d <= sp - 1 /\ d + then + words <= sp - 1
  BY <1>7, <1>8
<1> HIDE DEF str, b
<1>10. Pushed(s, s', 1) /\ ByteAt(s'.mem, s.regs[SP] - 1) = b
  BY <1>1, <1>3, <1>5, <1>9, BytePushed DEF sp
<1>11. Copied(s', data)
  <2>1. Copied(s, data)
    BY <1>1 DEF StartInv, OperandsLoaded, Loaded
  <2> QED
    BY <1>3, <1>7, <1>9, <1>10, <2>1, CopiedByPush DEF d, sp
<1>12. Written(s', str, j - 1)
  BY <1>2, <1>3, <1>5, <1>10, WrittenByPush DEF b
<1>13. s'.regs[SP] = sp - 1 /\ IsStore(s')
  BY <1>10 DEF Pushed, sp
<1>14. Typed' /\ ModeKnown' /\ OperandsLoaded' /\ argc' = argc
  <2>1. i' \in 0 .. argc + 4 /\ env_addr' \in Word /\ arg_addr' \in [1 .. argc -> Word]
    BY <1>1 DEF StartInv, Typed, TypeOK
  <2>2. j' \in Nat /\ Loaded /\ Loaded'
    BY <1>1, <1>5 DEF Loaded
  <2> QED
    BY <1>1, <1>11, <1>13, <2>1, <2>2, StackStep
<1>15. Kept(s', env_addr, Env)
  <2>1. env_addr \in Int /\ Len(Env) \in Nat
    BY <1>3, TypedFacts, EnvType, StringByteType
  <2> QED
    BY <1>2, <1>3, <1>10, <2>1, KeptByPush
<1>16. \A k \in i + 1 .. argc : Kept(s', arg_addr[k], argv[k])
  <2>1. ASSUME NEW k \in i + 1 .. argc PROVE Kept(s', arg_addr[k], argv[k])
    <3>1. k \in 1 .. argc
      BY <1>4
    <3>2. arg_addr[k] \in Int /\ Len(argv[k]) \in Nat
      BY <1>3, <3>1, TypedFacts
    <3> QED
      BY <1>2, <1>3, <1>10, <3>2, KeptByPush
  <2> QED
    BY <2>1
<1>17. ArgsInv'
  <2>1. Room(Cardinality(Left(argv, i, j)))'
    BY <1>1, <1>9, <1>13, <1>14 DEF Room, d, words, then, mainVars
  <2>2. i' > 0 => j' <= Len(argv'[i']) + 1 /\ Written(s', argv'[i'], j')
    BY <1>1, <1>5, <1>12 DEF str
  <2> QED
    BY <1>1, <1>2, <1>14, <1>15, <1>16, <2>1, <2>2 DEF ArgsInv
<1>18. EnvInv' /\ WordsInv'
  BY <1>1 DEF EnvInv, WordsInv
<1> QED
  BY <1>14, <1>17, <1>18 DEF StartInv

\* An argument is complete: SP is its address.
LEMMA ArgDoneStep == ASSUME StartInv, ArgDone, UNCHANGED mainVars PROVE StartInv'
<1>1. /\ phase = "args" /\ i > 0 /\ j = 0
      /\ arg_addr' = [arg_addr EXCEPT ![i] = s.regs[SP]]
      /\ i' = i - 1 /\ j' = IF i > 1 THEN Len(argv[i - 1]) + 1 ELSE 0
      /\ UNCHANGED <<argv, s, phase, env_addr>>
  BY DEF ArgDone
<1>2. /\ i <= argc /\ Written(s, argv[i], 0)
      /\ \A k \in 1 .. i : arg_addr[k] = 0
      /\ \A k \in i + 1 .. argc : Kept(s, arg_addr[k], argv[k])
      /\ Kept(s, env_addr, Env)
      /\ Len(data) + Cardinality(Left(argv, i, 0)) + 2 * (argc + 4) <= s.regs[SP]
  BY <1>1 DEF StartInv, ArgsInv, Room
<1>3. Typed /\ IsStore(s) /\ argv \in Seq(String) /\ SP \in RegNum
  BY StackPointer DEF StartInv, Typed
<1>4. /\ argc \in Nat /\ i \in 1 .. argc
      /\ \A k \in 1 .. argc : argv[k] \in String /\ Len(argv[k]) \in Nat
  BY <1>1, <1>2, <1>3, TypedFacts
<1>5. arg_addr \in [1 .. argc -> Word] /\ s.regs[SP] \in Word
  BY <1>3 DEF Typed, TypeOK, IsStore
<1>6. j' \in Nat
  BY <1>1, <1>4
<1>7. Typed' /\ ModeKnown' /\ OperandsLoaded' /\ argc' = argc
  <2>1. i' \in 0 .. argc + 4 /\ arg_addr' \in [1 .. argc -> Word]
    BY <1>1, <1>4, <1>5
  <2>2. env_addr' \in Word /\ IsStore(s')
    BY <1>1, <1>3 DEF Typed, TypeOK
  <2>3. Copied(s', data)
    BY <1>1 DEF StartInv, OperandsLoaded, Loaded
  <2>4. Loaded /\ Loaded'
    BY <1>1 DEF Loaded
  <2> QED
    BY <1>1, <1>6, <2>1, <2>2, <2>3, <2>4, StackStep
<1>8. \A k \in i .. argc : Kept(s, arg_addr'[k], argv[k])
  <2>1. ASSUME NEW k \in i .. argc PROVE Kept(s, arg_addr'[k], argv[k])
    <3>1. CASE k = i
      <4>1. arg_addr'[k] = s.regs[SP]
        BY <1>1, <1>4, <1>5, <3>1
      <4> QED
        BY <1>2, <1>3, <1>4, <3>1, <4>1, StringComplete
    <3>2. CASE k # i
      <4>1. k \in i + 1 .. argc /\ k \in 1 .. argc
        BY <1>4, <3>2
      <4>2. arg_addr'[k] = arg_addr[k]
        BY <1>1, <1>5, <3>2, <4>1
      <4> QED
        BY <1>2, <4>1, <4>2
    <3> QED
      BY <3>1, <3>2
  <2> QED
    BY <2>1
<1>9. ArgsInv'
  <2>1. i > 1 => j' = Len(argv[i - 1]) + 1 /\ Written(s, argv[i - 1], j')
    <3>1. i > 1 => i - 1 \in 1 .. argc
      BY <1>4
    <3> QED
      BY <1>1, <1>4, <3>1, NothingWritten
  <2>2. Left(argv, i, 0) = Left(argv, i - 1, j')
    BY <1>1, <1>3, <1>4, LeftNext DEF argc
  <2>3. Len(data) + Cardinality(Left(argv, i - 1, j')) + 2 * (argc + 4) <= s.regs[SP]
    BY <1>2, <2>2
  <2>4. Room(Cardinality(Left(argv, i, j)))'
    BY <1>1, <1>7, <2>3 DEF Room, mainVars
  <2>5. i' > 0 => j' <= Len(argv'[i']) + 1 /\ Written(s', argv'[i'], j')
    <3>1. i' > 0 => i > 1 /\ i - 1 \in 1 .. argc
      BY <1>1, <1>4
    <3> QED
      BY <1>1, <1>4, <2>1, <3>1
  <2>6. i' <= argc' /\ \A k \in 1 .. i' : arg_addr'[k] = 0
    <3>1. \A k \in 1 .. i - 1 : k # i /\ k \in 1 .. i /\ k \in 1 .. argc
      BY <1>4
    <3> QED
      BY <1>1, <1>2, <1>4, <1>5, <1>7, <3>1
  <2>7. \A k \in i' + 1 .. argc' : Kept(s', arg_addr'[k], argv'[k])
    <3>1. i' + 1 = i
      BY <1>1, <1>4
    <3> QED
      BY <1>1, <1>7, <1>8, <3>1
  <2>8. Kept(s', env_addr', Env)
    BY <1>1, <1>2
  <2> QED
    BY <2>4, <2>5, <2>6, <2>7, <2>8 DEF ArgsInv
<1>10. EnvInv' /\ WordsInv'
  BY <1>1 DEF EnvInv, WordsInv
<1> QED
  BY <1>7, <1>9, <1>10 DEF StartInv

\* The block of words, from its lowest address.
LEMMA WordsAre ==
  ASSUME Typed, argc \in Word
  PROVE  /\ Words \in Seq(Word) /\ Len(Words) = argc + 4
         /\ Words[1] = argc
         /\ \A k \in 1 .. argc : Words[k + 1] = arg_addr[k]
         /\ Words[argc + 2] = 0 /\ Words[argc + 3] = env_addr /\ Words[argc + 4] = 0
<1> DEFINE n == argc
<1>1. n \in Nat
  BY TypedFacts
<1>2. arg_addr \in [1 .. argc -> Word] /\ env_addr \in Word /\ 0 \in Word
  <2>1. arg_addr \in [1 .. argc -> Word] /\ env_addr \in Word
    BY DEF Typed, TypeOK
  <2> QED
    BY <2>1, WordDef
<1> DEFINE one == <<argc>>
           two == one \o arg_addr
           three == <<0, env_addr, 0>>
<1>3. one \in Seq(Word) /\ Len(one) = 1 /\ one[1] = n
  OBVIOUS
<1>4. arg_addr \in Seq(Word) /\ Len(arg_addr) = n
  BY <1>1, <1>2
<1>5. /\ three \in Seq(Word) /\ Len(three) = 3
      /\ three[1] = 0 /\ three[2] = env_addr /\ three[3] = 0
  BY <1>2
<1> HIDE DEF one, n
<1>6. /\ two \in Seq(Word) /\ Len(two) = 1 + n
      /\ \A k \in 1 .. 1 + n : two[k] = IF k <= 1 THEN one[k] ELSE arg_addr[k - 1]
  <2>1. /\ two \in Seq(Word) /\ Len(two) = Len(one) + Len(arg_addr)
        /\ \A k \in 1 .. Len(one) + Len(arg_addr) :
             two[k] = IF k <= Len(one) THEN one[k] ELSE arg_addr[k - Len(one)]
    BY <1>3, <1>4, ConcatProperties
  <2> QED
    BY <1>3, <1>4, <2>1
<1>7. Words = two \o three
  BY DEF Words, one
<1> HIDE DEF two, three
<1>8. /\ Words \in Seq(Word) /\ Len(Words) = 1 + n + 3
      /\ \A k \in 1 .. 1 + n + 3 :
           Words[k] = IF k <= 1 + n THEN two[k] ELSE three[k - (1 + n)]
  <2>1. /\ Words \in Seq(Word) /\ Len(Words) = Len(two) + Len(three)
        /\ \A k \in 1 .. Len(two) + Len(three) :
             Words[k] = IF k <= Len(two) THEN two[k] ELSE three[k - Len(two)]
    BY <1>5, <1>6, <1>7, ConcatProperties
  <2> QED
    BY <1>5, <1>6, <2>1
<1>9. Words[1] = n
  BY <1>1, <1>3, <1>6, <1>8
<1>10. ASSUME NEW k \in 1 .. n PROVE Words[k + 1] = arg_addr[k]
  <2>1. k + 1 \in 1 .. 1 + n /\ k + 1 \in 1 .. 1 + n + 3 /\ ~(k + 1 <= 1)
        /\ k + 1 - 1 = k
    BY <1>1
  <2> QED
    BY <1>6, <1>8, <2>1
<1>11. ASSUME NEW k \in 1 .. 3 PROVE Words[n + 1 + k] = three[k]
  <2> DEFINE m == n + 1 + k
  <2>1. m \in 1 .. 1 + n + 3 /\ ~(m <= 1 + n) /\ m - (1 + n) = k
    BY <1>1
  <2> HIDE DEF m
  <2>2. Words[m] = three[m - (1 + n)]
    BY <1>8, <2>1
  <2> QED
    BY <2>1, <2>2 DEF m
<1>12. Words[n + 2] = 0 /\ Words[n + 3] = env_addr /\ Words[n + 4] = 0
  <2>1. n + 1 + 1 = n + 2 /\ n + 1 + 2 = n + 3 /\ n + 1 + 3 = n + 4
    BY <1>1
  <2> QED
    BY <1>5, <1>11, <2>1
<1>13. Len(Words) = n + 4
  BY <1>1, <1>8
<1> QED
  BY <1>8, <1>9, <1>10, <1>12, <1>13 DEF n

\* No argument is left: there is room for the words.
LEMMA ArgsDoneStep == ASSUME StartInv, ArgsDone, UNCHANGED mainVars PROVE StartInv'
<1>1. /\ phase = "args" /\ i = 0 /\ phase' = "words" /\ i' = Len(Words)
      /\ UNCHANGED <<argv, s, j, env_addr, arg_addr>>
  BY DEF ArgsDone
<1>2. Typed /\ argv \in Seq(String) /\ IsStore(s)
  BY DEF StartInv, Typed
<1> DEFINE d == Len(data)
           n == argc
           sp == s.regs[SP]
           left == Cardinality(Left(argv, i, j))
<1>3. d \in Nat /\ n \in Nat /\ sp \in Int /\ sp <= 65535 /\ left \in Nat
  BY <1>2, TypedFacts, LeftCount
<1>4. /\ d + left + 2 * (n + 4) <= sp /\ Kept(s, env_addr, Env)
      /\ \A k \in i + 1 .. n : Kept(s, arg_addr[k], argv[k])
  BY <1>1 DEF StartInv, ArgsInv, Room
<1> HIDE DEF d, n, sp, left
<1>5. n <= 65535 /\ d + 2 * (n + 4) <= sp
  BY <1>3, <1>4
<1>6. argc \in Word
  BY <1>3, <1>5, WordDef DEF n
<1>7. i' = n + 4
  BY <1>1, <1>2, <1>6, WordsAre DEF n
<1>8. Typed' /\ ModeKnown' /\ OperandsLoaded' /\ argc' = argc
  <2>1. i' \in 0 .. argc + 4
    BY <1>3, <1>7 DEF n
  <2>2. env_addr' \in Word /\ arg_addr' \in [1 .. argc -> Word] /\ j' \in Nat /\ IsStore(s')
    BY <1>1, <1>2 DEF Typed, TypeOK
  <2>3. Copied(s', data) /\ Loaded /\ Loaded'
    BY <1>1 DEF StartInv, OperandsLoaded, Loaded
  <2> QED
    BY <1>1, <2>1, <2>2, <2>3, StackStep
<1>9. WordsInv'
  <2>1. Len(data') + 2 * i' <= s'.regs[SP]
    BY <1>1, <1>5, <1>7 DEF d, sp, mainVars
  <2>2. i' + 1 .. argc' + 4 = {}
    BY <1>3, <1>7, <1>8 DEF n
  <2>3. \A k \in 1 .. argc' : Kept(s', arg_addr'[k], argv'[k])
    BY <1>1, <1>4, <1>8 DEF n
  <2> QED
    BY <1>1, <1>4, <1>6, <1>8, <2>1, <2>2, <2>3 DEF WordsInv
<1>10. EnvInv' /\ ArgsInv'
  BY <1>1 DEF EnvInv, ArgsInv
<1> QED
  BY <1>8, <1>9, <1>10 DEF StartInv

\* A word of the block.
LEMMA PushWordStep == ASSUME StartInv, PushWord, UNCHANGED mainVars PROVE StartInv'
<1> DEFINE v == Words[i]
           sp == s.regs[SP]
           d == Len(data)
           Read(st, a) == get_memory(st, a, 1)
<1>1. /\ phase = "words" /\ i > 0 /\ s' = push_stack(s, v, 1) /\ i' = i - 1
      /\ UNCHANGED <<argv, phase, j, env_addr, arg_addr>>
  BY DEF PushWord, Push
<1>2. /\ argc \in Word /\ Kept(s, env_addr, Env)
      /\ \A k \in 1 .. argc : Kept(s, arg_addr[k], argv[k])
      /\ \A k \in i + 1 .. argc + 4 : Read(s, sp + 2 * (k - i - 1)) = Words[k]
      /\ d + 2 * i <= sp
  BY <1>1 DEF StartInv, WordsInv
<1>3. Typed /\ IsStore(s)
  BY DEF StartInv, Typed
<1>4. argc \in Nat /\ d \in Nat /\ sp \in Int
  BY <1>3, TypedFacts
<1>5. i \in 1 .. argc + 4
  BY <1>1, <1>3, <1>4 DEF Typed, TypeOK
<1>6. v \in Word
  BY <1>2, <1>3, <1>4, <1>5, WordsAre, ElementOfSeq
<1> HIDE DEF v, sp, d, Read
<1>7. sp >= 2 /\ d <= sp - 2 /\ d + 2 * (i - 1) <= sp - 2
  BY <1>2, <1>4, <1>5
<1>8. Pushed(s, s', 2) /\ Read(s', sp - 2) = v
  BY <1>1, <1>3, <1>6, <1>7, WordPushed DEF sp, Read
<1>9. s'.regs[SP] = sp - 2 /\ IsStore(s')
  BY <1>8 DEF Pushed, sp
<1>10. Copied(s', data)
  <2>1. Copied(s, data)
    BY <1>1 DEF StartInv, OperandsLoaded, Loaded
  <2> QED
    BY <1>3, <1>4, <1>7, <1>8, <2>1, CopiedByPush DEF d, sp
<1>11. Typed' /\ ModeKnown' /\ OperandsLoaded' /\ argc' = argc
  <2>1. i' \in 0 .. argc + 4
    BY <1>1, <1>4, <1>5
  <2>2. env_addr' \in Word /\ arg_addr' \in [1 .. argc -> Word] /\ j' \in Nat
    BY <1>1, <1>3 DEF Typed, TypeOK
  <2>3. Loaded /\ Loaded'
    BY <1>1 DEF Loaded
  <2> QED
    BY <1>1, <1>9, <1>10, <2>1, <2>2, <2>3, StackStep
<1>12. Kept(s', env_addr, Env)
  <2>1. env_addr \in Int /\ Len(Env) \in Nat
    BY <1>3, TypedFacts, EnvType, StringByteType
  <2> QED
    BY <1>2, <1>3, <1>8, <2>1, KeptByPush
<1>13. ASSUME NEW k \in 1 .. argc PROVE Kept(s', arg_addr[k], argv[k])
  <2>1. arg_addr[k] \in Int /\ Len(argv[k]) \in Nat
    BY <1>3, TypedFacts
  <2> QED
    BY <1>2, <1>3, <1>8, <2>1, KeptByPush
<1>14. ASSUME NEW k \in i .. argc + 4 PROVE Read(s', (sp - 2) + 2 * (k - i)) = Words[k]
  <2>1. CASE k = i
    <3>1. (sp - 2) + 2 * (k - i) = sp - 2
      BY <1>4, <1>5, <2>1
    <3> QED
      BY <1>8, <2>1, <3>1 DEF v
  <2>2. CASE k # i
    <3>1. k \in i + 1 .. argc + 4
      BY <1>4, <1>5, <2>2
    <3> DEFINE a == sp + 2 * (k - i - 1)
    <3>2. (sp - 2) + 2 * (k - i) = a /\ a \in Int /\ a >= sp
      BY <1>4, <1>5, <3>1
    <3>3. Read(s, a) = Words[k]
      BY <1>2, <3>1
    <3> HIDE DEF a
    <3>4. Read(s', a) = Read(s, a)
      BY <1>3, <1>8, <3>2, WordByPush DEF sp, Read
    <3> QED
      BY <3>2, <3>3, <3>4
  <2> QED
    BY <2>1, <2>2
<1>15. WordsInv'
  <2>1. Words' = Words
    BY <1>1, <1>11 DEF Words
  <2>2. ASSUME NEW k \in i' + 1 .. argc' + 4
        PROVE  Read(s', s'.regs[SP] + 2 * (k - i' - 1)) = Words'[k]
    <3>1. k \in i .. argc + 4 /\ k - i' - 1 = k - i
      BY <1>1, <1>4, <1>5, <1>11
    <3> QED
      BY <1>9, <1>14, <2>1, <3>1
  <2>3. Len(data') + 2 * i' <= s'.regs[SP]
    BY <1>1, <1>7, <1>9 DEF d, mainVars
  <2> QED
    BY <1>1, <1>2, <1>11, <1>12, <1>13, <2>2, <2>3 DEF WordsInv, Read
<1>16. EnvInv' /\ ArgsInv'
  BY <1>1 DEF EnvInv, ArgsInv
<1> QED
  BY <1>11, <1>15, <1>16 DEF StartInv

\* The block is complete.
LEMMA WordsDoneStep == ASSUME StartInv, WordsDone, UNCHANGED mainVars PROVE StartInv'
<1>1. /\ phase = "words" /\ i = 0 /\ phase' = "done"
      /\ UNCHANGED <<argv, s, i, j, env_addr, arg_addr>>
  BY DEF WordsDone
<1>2. Typed' /\ ModeKnown' /\ OperandsLoaded' /\ argc' = argc
  <2>1. /\ i' \in 0 .. argc + 4 /\ env_addr' \in Word /\ arg_addr' \in [1 .. argc -> Word]
        /\ j' \in Nat /\ IsStore(s')
    BY <1>1 DEF StartInv, Typed, TypeOK
  <2>2. Copied(s', data) /\ Loaded /\ Loaded'
    BY <1>1 DEF StartInv, OperandsLoaded, Loaded
  <2> QED
    BY <1>1, <2>1, <2>2, StackStep
<1>3. WordsInv'
  <2>1. Words' = Words /\ data' = data
    BY <1>1, <1>2 DEF Words, mainVars
  <2> QED
    BY <1>1, <1>2, <2>1 DEF StartInv, WordsInv
<1>4. EnvInv' /\ ArgsInv'
  BY <1>1 DEF EnvInv, ArgsInv
<1> QED
  BY <1>2, <1>3, <1>4 DEF StartInv

-----------------------------------------------------------------------------
(* The theorems *)

LEMMA StartInvariant == Spec => []StartInv
<1>1. ASSUME StartInv, [Next]_startVars PROVE StartInv'
  <2>1. CASE UNCHANGED startVars
    <3>1. UNCHANGED <<mainVars, stackVars>>
      BY <2>1 DEF startVars
    <3>2. /\ UNCHANGED <<command, mode, path, text, a_text, data, code>>
          /\ UNCHANGED <<argv, s, phase, i, j, env_addr, arg_addr>>
      BY <3>1 DEF mainVars, stackVars
    <3>3. argc' = argc /\ Words' = Words /\ (Loaded' <=> Loaded)
      BY <3>2 DEF argc, Words, Loaded
    <3>4. Typed' /\ ModeKnown' /\ OperandsLoaded'
      BY <1>1, <3>2, <3>3 DEF StartInv, Typed, TypeOK, ModeKnown, OperandsLoaded, Operands
    <3>5. EnvInv' /\ ArgsInv' /\ WordsInv'
      BY <1>1, <3>2, <3>3 DEF StartInv, EnvInv, ArgsInv, WordsInv, Room
    <3> QED
      BY <3>4, <3>5 DEF StartInv
  <2>2. CASE InitStackStep
    BY <1>1, <2>2, PushEnvStep, EnvDoneStep, PushArgStep, ArgDoneStep, ArgsDoneStep,
       PushWordStep, WordsDoneStep DEF InitStackStep, PushArguments
  <2>3. CASE LoadFile
    BY <1>1, <2>3, LoadStep
  <2>4. CASE NoCommand \/ UnknownOption \/ SelectMode \/ CannotRead
    BY <1>1, <2>4, MainStep
  <2> QED
    BY <1>1, <2>1, <2>2, <2>3, <2>4 DEF Next
<1> QED
  BY <1>1, InitStarts, PTL DEF Spec

\* Whatever the command line and the file, the registers and the memory hold
\* words and bytes, and the indices of main() and init_stack() stay in bounds.
THEOREM StartTypeCorrect == Spec => []TypeOK
<1>1. StartInv => TypeOK
  BY DEF StartInv, Typed
<1> QED
  BY <1>1, StartInvariant, PTL

\* No push of init_stack reaches a string whose address it has taken, or the
\* data area, for every command line and file that fit: StringsKept.
THEOREM StringsAreKept == Spec => []StringsKept
<1>1. ASSUME StartInv PROVE StringsKept
  <2>1. ASSUME NEW a, NEW str, Kept(s, a, str) PROVE Spells(a, str)
    BY <2>1 DEF Kept, Spells
  <2>2. ASSUME phase \in {"env", "args", "words", "done"}
        PROVE  \A n \in 1 .. Len(data) : ByteAt(s.mem, n - 1) = data[n]
    BY <1>1, <2>2 DEF StartInv, OperandsLoaded, Loaded, Copied
  <2>3. argc \in Nat /\ i \in Nat
    BY <1>1, TypedFacts DEF StartInv
  <2>4. CASE phase = "env"
    BY <1>1, <2>2, <2>4 DEF StartInv, EnvInv, StringsKept
  <2>5. CASE phase = "args"
    <3>1. Spells(env_addr, Env)
      BY <1>1, <2>1, <2>5 DEF StartInv, ArgsInv
    <3>2. ASSUME NEW n \in 1 .. argc, arg_addr[n] # 0 PROVE Spells(arg_addr[n], argv[n])
      <4>1. n \in i + 1 .. argc
        BY <1>1, <2>3, <2>5, <3>2 DEF StartInv, ArgsInv
      <4> QED
        BY <1>1, <2>1, <2>5, <4>1 DEF StartInv, ArgsInv
    <3> QED
      BY <2>2, <2>5, <3>1, <3>2 DEF StringsKept
  <2>6. CASE phase \in {"words", "done"}
    <3>1. Spells(env_addr, Env) /\ \A n \in 1 .. argc : Spells(arg_addr[n], argv[n])
      BY <1>1, <2>1, <2>6 DEF StartInv, WordsInv
    <3> QED
      BY <2>2, <2>6, <3>1 DEF StringsKept
  <2> QED
    BY <2>4, <2>5, <2>6 DEF StringsKept
<1> QED
  BY <1>1, StartInvariant, PTL

\* A program finds its own path, its arguments and the environment where its
\* start-up code looks for them, whatever the option: ArgumentsReadable.
THEOREM ArgumentsAreReadable == Spec => []ArgumentsReadable
<1>1. ASSUME StartInv, phase = "done" PROVE ArgumentsReadable
  <2> DEFINE sp == s.regs[SP]
             n == argc
  <2>1. /\ argc \in Word /\ i = 0 /\ Kept(s, env_addr, Env)
        /\ \A k \in 1 .. n : Kept(s, arg_addr[k], argv[k])
        /\ \A k \in i + 1 .. n + 4 : get_memory(s, sp + 2 * (k - i - 1), 1) = Words[k]
    BY <1>1 DEF StartInv, WordsInv
  <2>2. Typed /\ n \in Nat /\ sp \in Int
    BY <1>1, TypedFacts DEF StartInv
  <2>3. argv = Operands /\ n = Len(Operands)
    BY <1>1 DEF StartInv, OperandsLoaded, Loaded, argc
  <2>4. /\ Words[1] = n
        /\ \A k \in 1 .. n : Words[k + 1] = arg_addr[k]
        /\ Words[n + 2] = 0 /\ Words[n + 3] = env_addr /\ Words[n + 4] = 0
    BY <2>1, <2>2, WordsAre
  <2> HIDE DEF sp, n
  <2>5. ASSUME NEW k \in 1 .. n + 4 PROVE WordAt(sp + 2 * (k - 1)) = Words[k]
    <3>1. k \in i + 1 .. n + 4 /\ k - i - 1 = k - 1
      BY <2>1, <2>2
    <3> QED
      BY <2>1, <3>1 DEF WordAt
  <2>6. ASSUME NEW a, NEW str, Kept(s, a, str) PROVE Spells(a, str)
    BY <2>6 DEF Kept, Spells
  <2>7. WordAt(sp) = n
    <3>1. 1 \in 1 .. n + 4 /\ sp + 2 * (1 - 1) = sp
      BY <2>2
    <3> QED
      BY <2>4, <2>5, <3>1
  <2>8. ASSUME NEW k \in 1 .. n PROVE Spells(WordAt(sp + 2 * k), Operands[k])
    <3>1. k + 1 \in 1 .. n + 4 /\ 2 * ((k + 1) - 1) = 2 * k
      BY <2>2
    <3>2. WordAt(sp + 2 * k) = arg_addr[k]
      BY <2>4, <2>5, <3>1
    <3> QED
      BY <2>1, <2>3, <2>6, <3>2
  <2>9. /\ WordAt(sp + 2 * n + 2) = 0 /\ WordAt(sp + 2 * n + 4) = env_addr
        /\ WordAt(sp + 2 * n + 6) = 0
    <3>1. /\ n + 2 \in 1 .. n + 4 /\ sp + 2 * ((n + 2) - 1) = sp + 2 * n + 2
          /\ n + 3 \in 1 .. n + 4 /\ sp + 2 * ((n + 3) - 1) = sp + 2 * n + 4
          /\ n + 4 \in 1 .. n + 4 /\ sp + 2 * ((n + 4) - 1) = sp + 2 * n + 6
      BY <2>2
    <3> QED
      BY <2>4, <2>5, <3>1
  <2>10. Spells(env_addr, Env)
    BY <2>1, <2>6
  <2> QED
    BY <2>3, <2>7, <2>8, <2>9, <2>10 DEF ArgumentsReadable, sp, n
<1>2. StartInv => ArgumentsReadable
  BY <1>1 DEF ArgumentsReadable
<1> QED
  BY <1>2, StartInvariant, PTL

\* The safety of Finishes: the loop is only reached with a program that can be
\* read, and the process only ends before it, with status 1, without one.
OutcomeRight ==
  /\ phase = "done" => Startable /\ code = 0
  /\ phase = "exit" => ~Startable /\ code = 1

\* What is known on the way: the path is the first operand, or nothing.
PathInv ==
  /\ command \in Commands
  /\ phase = "exit" => ~Startable /\ code = 1
  /\ phase # "exit" => code = 0
  /\ phase = "open" \/ Loaded =>
       /\ Len(command) > 1
       /\ IsOption(command[2]) => command[2] \in {Trace, List}
       /\ path = IF IsOption(command[2]) THEN argument(3) ELSE command[2]
  /\ Loaded => path \in DOMAIN Files

\* The first operand is the path that is opened.
LEMMA FirstOperand ==
  ASSUME NEW c \in Commands, Len(c) > 1
  PROVE  /\ Len(c) \in Nat
         /\ ~IsOption(c[2]) => OperandsOf(c)[1] = c[2]
         /\ IsOption(c[2]) /\ Len(c) > 2 => OperandsOf(c)[1] = c[3]
<1>1. c \in Seq(String) /\ Len(c) \in Nat
  BY CommandsAssumption, LenProperties
<1>2. ASSUME NEW m \in {2, 3}, m <= Len(c) PROVE SubSeq(c, m, Len(c))[1] = c[m]
  <2>1. \A n \in m .. Len(c) : n \in 1 .. Len(c)
    BY <1>1
  <2>2. \A n \in m .. Len(c) : c[n] \in String
    BY <1>1, <2>1, ElementOfSeq
  <2>3. \A n \in 1 .. Len(c) - m + 1 : SubSeq(c, m, Len(c))[n] = c[m + n - 1]
    BY <1>1, <2>2, SubSeqProperties
  <2>4. 1 \in 1 .. Len(c) - m + 1 /\ m + 1 - 1 = m
    BY <1>1, <1>2
  <2> QED
    BY <2>3, <2>4
<1> QED
  BY <1>1, <1>2 DEF OperandsOf

\* Whatever the command line and the files, main() ends before the loop, with
\* status 1, only if there is no program to run.
THEOREM OutcomeIsRight == Spec => []OutcomeRight
<1>1. ASSUME Init PROVE PathInv
  BY <1>1 DEF Init, PathInv, Loaded
<1>2. ASSUME PathInv, [Next]_startVars PROVE PathInv'
  <2>0. command \in Commands
    BY <1>2 DEF PathInv
  <2>1. CASE NoCommand
    <3>1. phase' = "exit" /\ code' = 1 /\ command' = command /\ Len(command) < 2
      BY <2>1 DEF NoCommand, Exit
    <3>2. Len(command) \in Nat
      BY <2>0, CommandsAssumption, LenProperties
    <3> QED
      BY <2>0, <3>1, <3>2 DEF PathInv, Loaded, Startable
  <2>2. CASE UnknownOption
    BY <2>0, <2>2 DEF UnknownOption, Exit, PathInv, Loaded, Startable
  <2>3. CASE SelectMode
    <3>1. phase' = "open" /\ code' = code /\ command' = command /\ phase = "command"
          /\ Len(command) >= 2
      BY <2>3 DEF SelectMode, Select
    <3>2. IsOption(Trace) /\ IsOption(List)
      BY DEF IsOption, Trace, List
    <3>3. /\ IsOption(command[2]) => command[2] \in {Trace, List}
          /\ path' = IF IsOption(command[2]) THEN argument(3) ELSE command[2]
      BY <2>3, <3>2 DEF SelectMode, Select
    <3>4. Len(command) > 1
      BY <2>0, <3>1, CommandsAssumption, LenProperties
    <3>5. argument(3)' = argument(3)
      BY <3>1 DEF argument
    <3> QED
      BY <1>2, <2>0, <3>1, <3>3, <3>4, <3>5 DEF PathInv, Loaded
  <2>4. CASE CannotRead
    <3>1. /\ phase = "open" /\ path \notin DOMAIN Files
          /\ phase' = "exit" /\ code' = 1 /\ command' = command
      BY <2>4 DEF CannotRead, Exit
    <3>2. ~Startable
      <4>1. SUFFICES ASSUME Startable PROVE FALSE
        OBVIOUS
      <4>2. Operands[1] = path
        BY <1>2, <2>0, <3>1, <4>1, FirstOperand DEF PathInv, Startable, Operands, argument
      <4> QED
        BY <3>1, <4>1, <4>2 DEF Startable
    <3> QED
      BY <2>0, <3>1, <3>2 DEF PathInv, Loaded, Startable, Operands
  <2>5. CASE LoadFile
    BY <1>2, <2>0, <2>5 DEF LoadFile, Enter, PathInv, Loaded, argument
  <2>6. CASE InitStackStep
    <3>1. UNCHANGED <<command, path, code>> /\ Loaded /\ Loaded'
      <4>1. PushArguments => Loaded /\ Loaded'
        BY DEF PushArguments, PushEnv, EnvDone, PushArg, ArgDone, ArgsDone, PushWord,
          WordsDone, Loaded
      <4> QED
        BY <2>6, <4>1 DEF InitStackStep, mainVars
    <3>2. phase' # "exit"
      BY <3>1 DEF Loaded
    <3> QED
      BY <1>2, <3>1, <3>2 DEF PathInv, Loaded, argument
  <2>7. CASE UNCHANGED startVars
    BY <1>2, <2>7 DEF PathInv, Loaded, argument, Startable, Operands, startVars, mainVars,
      stackVars
  <2> QED
    BY <1>2, <2>1, <2>2, <2>3, <2>4, <2>5, <2>6, <2>7 DEF Next
<1>3. ASSUME PathInv PROVE OutcomeRight
  <2>1. SUFFICES ASSUME phase = "done" PROVE Startable /\ code = 0
    BY <1>3 DEF PathInv, OutcomeRight
  <2>2. /\ Loaded /\ code = 0 /\ path \in DOMAIN Files /\ Len(command) > 1
        /\ IsOption(command[2]) => command[2] \in {Trace, List}
        /\ path = IF IsOption(command[2]) THEN argument(3) ELSE command[2]
    BY <1>3, <2>1 DEF PathInv, Loaded
  <2>3. command \in Commands
    BY <1>3 DEF PathInv
  <2>4. IsOption(command[2]) => Len(command) > 2 /\ path = command[3]
    <3>1. SUFFICES ASSUME IsOption(command[2]) PROVE Len(command) > 2 /\ path = command[3]
      OBVIOUS
    <3>2. path = argument(3) /\ argument(3) # NullPointer
      BY <2>2, <3>1, NullAssumption
    <3>3. 3 <= Len(command) /\ path = command[3]
      BY <3>2 DEF argument
    <3> QED
      BY <2>2, <2>3, <3>3, FirstOperand
  <2> QED
    BY <2>2, <2>3, <2>4, FirstOperand DEF Startable, Operands
<1> QED
  BY <1>1, <1>2, <1>3, PTL DEF Spec

-----------------------------------------------------------------------------
(* The closed form *)

\* Pushes is a function on the positions of the values and one behind: that
\* the recursion has a solution is shown from the end, one position at a time.
PushesFrom(st, values, w, m, f) ==
  f = [n \in m .. Len(values) + 1 |->
         IF n > Len(values) THEN st ELSE push_stack(f[n + 1], values[n], w)]

LEMMA PushesExist ==
  ASSUME NEW st, NEW values, Len(values) \in Nat, NEW w
  PROVE  \E f : PushesFrom(st, values, w, 1, f)
<1> DEFINE l == Len(values)
           Solved(m) == \E f : PushesFrom(st, values, w, m, f)
           bad == { k \in 0 .. l : ~Solved(l + 1 - k) }
<1>1. l \in Nat
  OBVIOUS
<1>2. Solved(l + 1)
  <2> DEFINE f == [n \in l + 1 .. l + 1 |-> st]
  <2>1. \A n \in l + 1 .. l + 1 : n > l
    BY <1>1
  <2>2. f = [n \in l + 1 .. l + 1 |->
               IF n > l THEN st ELSE push_stack(f[n + 1], values[n], w)]
    BY <2>1
  <2> QED
    BY <2>2 DEF PushesFrom
<1>3. ASSUME NEW m \in 1 .. l, Solved(m + 1) PROVE Solved(m)
  <2>1. PICK f : PushesFrom(st, values, w, m + 1, f)
    BY <1>3
  <2> DEFINE step(n, g) == IF n > l THEN st ELSE push_stack(g[n + 1], values[n], w)
             h == [n \in m .. l + 1 |-> IF n = m THEN step(m, f) ELSE f[n]]
  <2>2. f = [n \in m + 1 .. l + 1 |-> step(n, f)]
    BY <2>1 DEF PushesFrom
  <2>3. ASSUME NEW n \in m .. l + 1 PROVE h[n] = step(n, h)
    <3>1. h[n] = step(n, f)
      <4>1. CASE n = m
        BY <4>1
      <4>2. CASE n # m
        <5>1. n \in m + 1 .. l + 1
          BY <1>1, <4>2
        <5> HIDE DEF step
        <5> QED
          BY <2>2, <4>2, <5>1
      <4> QED
        BY <4>1, <4>2
    <3>2. n <= l => h[n + 1] = f[n + 1]
      <4>1. SUFFICES ASSUME n <= l PROVE h[n + 1] = f[n + 1]
        OBVIOUS
      <4>2. n + 1 \in m .. l + 1 /\ n + 1 # m
        BY <1>1, <4>1
      <4> HIDE DEF step
      <4> QED
        BY <4>2
    <3> HIDE DEF h
    <3>3. n > l \/ n <= l
      BY <1>1
    <3> QED
      BY <3>1, <3>2, <3>3
  <2>4. h = [n \in m .. l + 1 |-> h[n]]
    OBVIOUS
  <2> HIDE DEF h, step
  <2>5. h = [n \in m .. l + 1 |-> step(n, h)]
    BY <2>3, <2>4, Zenon
  <2> QED
    BY <2>5 DEF PushesFrom, step
<1> HIDE DEF Solved
<1>4. bad = {}
  <2>1. SUFFICES ASSUME bad # {} PROVE FALSE
    OBVIOUS
  <2>2. bad \in SUBSET Nat
    OBVIOUS
  <2>3. PICK k \in bad : \A y \in bad : k <= y
    BY <2>1, <2>2, LeastElement
  <2>4. k \in 0 .. l /\ ~Solved(l + 1 - k)
    OBVIOUS
  <2>5. k # 0
    <3>1. l + 1 - 0 = l + 1
      BY <1>1
    <3> QED
      BY <1>2, <2>4, <3>1
  <2>6. k - 1 \in 0 .. l /\ ~(k <= k - 1) /\ l + 1 - (k - 1) = (l + 1 - k) + 1
        /\ l + 1 - k \in 1 .. l
    BY <1>1, <2>4, <2>5
  <2>7. k - 1 \notin bad
    BY <2>3, <2>6
  <2>8. Solved((l + 1 - k) + 1)
    BY <2>6, <2>7
  <2> QED
    BY <1>3, <2>4, <2>6, <2>8
<1>5. Solved(l + 1 - l)
  BY <1>1, <1>4
<1>6. l + 1 - l = 1
  BY <1>1
<1> QED
  BY <1>5, <1>6 DEF Solved

\* What the recursion of Pushes computes.
LEMMA PushesDef ==
  ASSUME NEW st, NEW values, Len(values) \in Nat, NEW w
  PROVE  LET f == Pushes(st, values, w) IN
         /\ f[Len(values) + 1] = st
         /\ \A n \in 1 .. Len(values) : f[n] = push_stack(f[n + 1], values[n], w)
<1> DEFINE P(f) == f = [n \in 1 .. Len(values) + 1 |->
                          IF n > Len(values) THEN st ELSE push_stack(f[n + 1], values[n], w)]
<1>1. Pushes(st, values, w) = CHOOSE f : P(f)
  BY Zenon DEF Pushes
<1>2. \E f : P(f)
  <2>1. PICK f : PushesFrom(st, values, w, 1, f)
    BY PushesExist
  <2>2. P(f)
    BY <2>1 DEF PushesFrom
  <2> HIDE DEF P
  <2> QED
    BY <2>2, Zenon
<1> HIDE DEF P
<1>3. P(Pushes(st, values, w))
  BY <1>1, <1>2, Zenon
<1> DEFINE f == Pushes(st, values, w)
           l == Len(values)
<1>4. f = [n \in 1 .. l + 1 |->
             IF n > l THEN st ELSE push_stack(f[n + 1], values[n], w)]
  BY <1>3 DEF P
<1>5. l \in Nat
  OBVIOUS
<1> HIDE DEF f, l
<1>6. l + 1 \in 1 .. l + 1 /\ l + 1 > l
  BY <1>5
<1>7. f[l + 1] = st
  BY <1>4, <1>6
<1>8. ASSUME NEW n \in 1 .. l PROVE f[n] = push_stack(f[n + 1], values[n], w)
  <2>1. n \in 1 .. l + 1 /\ ~(n > l)
    BY <1>5
  <2> QED
    BY <1>4, <2>1
<1> QED
  BY <1>7, <1>8 DEF f, l

\* The same of the recursion of ArgvPushes.
ArgvPushesFrom(st, strings, m, f) ==
  f = [n \in m .. Len(strings) + 1 |->
         IF n > Len(strings) THEN st ELSE PushString(f[n + 1], strings[n])]

LEMMA ArgvPushesExist ==
  ASSUME NEW st, NEW strings, Len(strings) \in Nat
  PROVE  \E f : ArgvPushesFrom(st, strings, 1, f)
<1> DEFINE l == Len(strings)
           Solved(m) == \E f : ArgvPushesFrom(st, strings, m, f)
           bad == { k \in 0 .. l : ~Solved(l + 1 - k) }
<1>1. l \in Nat
  OBVIOUS
<1>2. Solved(l + 1)
  <2> DEFINE f == [n \in l + 1 .. l + 1 |-> st]
  <2>1. \A n \in l + 1 .. l + 1 : n > l
    BY <1>1
  <2>2. f = [n \in l + 1 .. l + 1 |->
               IF n > l THEN st ELSE PushString(f[n + 1], strings[n])]
    BY <2>1
  <2> QED
    BY <2>2 DEF ArgvPushesFrom
<1>3. ASSUME NEW m \in 1 .. l, Solved(m + 1) PROVE Solved(m)
  <2>1. PICK f : ArgvPushesFrom(st, strings, m + 1, f)
    BY <1>3
  <2> DEFINE step(n, g) == IF n > l THEN st ELSE PushString(g[n + 1], strings[n])
             h == [n \in m .. l + 1 |-> IF n = m THEN step(m, f) ELSE f[n]]
  <2>2. f = [n \in m + 1 .. l + 1 |-> step(n, f)]
    BY <2>1 DEF ArgvPushesFrom
  <2>3. ASSUME NEW n \in m .. l + 1 PROVE h[n] = step(n, h)
    <3>1. h[n] = step(n, f)
      <4>1. CASE n = m
        BY <4>1
      <4>2. CASE n # m
        <5>1. n \in m + 1 .. l + 1
          BY <1>1, <4>2
        <5> HIDE DEF step
        <5> QED
          BY <2>2, <4>2, <5>1
      <4> QED
        BY <4>1, <4>2
    <3>2. n <= l => h[n + 1] = f[n + 1]
      <4>1. SUFFICES ASSUME n <= l PROVE h[n + 1] = f[n + 1]
        OBVIOUS
      <4>2. n + 1 \in m .. l + 1 /\ n + 1 # m
        BY <1>1, <4>1
      <4> HIDE DEF step
      <4> QED
        BY <4>2
    <3> HIDE DEF h
    <3>3. n > l \/ n <= l
      BY <1>1
    <3> QED
      BY <3>1, <3>2, <3>3
  <2>4. h = [n \in m .. l + 1 |-> h[n]]
    OBVIOUS
  <2> HIDE DEF h, step
  <2>5. h = [n \in m .. l + 1 |-> step(n, h)]
    BY <2>3, <2>4, Zenon
  <2> QED
    BY <2>5 DEF ArgvPushesFrom, step
<1> HIDE DEF Solved
<1>4. bad = {}
  <2>1. SUFFICES ASSUME bad # {} PROVE FALSE
    OBVIOUS
  <2>2. bad \in SUBSET Nat
    OBVIOUS
  <2>3. PICK k \in bad : \A y \in bad : k <= y
    BY <2>1, <2>2, LeastElement
  <2>4. k \in 0 .. l /\ ~Solved(l + 1 - k)
    OBVIOUS
  <2>5. k # 0
    <3>1. l + 1 - 0 = l + 1
      BY <1>1
    <3> QED
      BY <1>2, <2>4, <3>1
  <2>6. k - 1 \in 0 .. l /\ ~(k <= k - 1) /\ l + 1 - (k - 1) = (l + 1 - k) + 1
        /\ l + 1 - k \in 1 .. l
    BY <1>1, <2>4, <2>5
  <2>7. k - 1 \notin bad
    BY <2>3, <2>6
  <2>8. Solved((l + 1 - k) + 1)
    BY <2>6, <2>7
  <2> QED
    BY <1>3, <2>4, <2>6, <2>8
<1>5. Solved(l + 1 - l)
  BY <1>1, <1>4
<1>6. l + 1 - l = 1
  BY <1>1
<1> QED
  BY <1>5, <1>6 DEF Solved

\* What the recursion of ArgvPushes computes.
LEMMA ArgvPushesDef ==
  ASSUME NEW st, NEW strings, Len(strings) \in Nat
  PROVE  LET f == ArgvPushes(st, strings) IN
         /\ f[Len(strings) + 1] = st
         /\ \A n \in 1 .. Len(strings) : f[n] = PushString(f[n + 1], strings[n])
<1> DEFINE P(f) == f = [n \in 1 .. Len(strings) + 1 |->
                          IF n > Len(strings) THEN st ELSE PushString(f[n + 1], strings[n])]
<1>1. ArgvPushes(st, strings) = CHOOSE f : P(f)
  BY Zenon DEF ArgvPushes
<1>2. \E f : P(f)
  <2>1. PICK f : ArgvPushesFrom(st, strings, 1, f)
    BY ArgvPushesExist
  <2>2. P(f)
    BY <2>1 DEF ArgvPushesFrom
  <2> HIDE DEF P
  <2> QED
    BY <2>2, Zenon
<1> HIDE DEF P
<1>3. P(ArgvPushes(st, strings))
  BY <1>1, <1>2, Zenon
<1> DEFINE f == ArgvPushes(st, strings)
           l == Len(strings)
<1>4. f = [n \in 1 .. l + 1 |->
             IF n > l THEN st ELSE PushString(f[n + 1], strings[n])]
  BY <1>3 DEF P
<1>5. l \in Nat
  OBVIOUS
<1> HIDE DEF f, l
<1>6. l + 1 \in 1 .. l + 1 /\ l + 1 > l
  BY <1>5
<1>7. f[l + 1] = st
  BY <1>4, <1>6
<1>8. ASSUME NEW n \in 1 .. l PROVE f[n] = PushString(f[n + 1], strings[n])
  <2>1. n \in 1 .. l + 1 /\ ~(n > l)
    BY <1>5
  <2> QED
    BY <1>4, <2>1
<1> QED
  BY <1>7, <1>8 DEF f, l

\* The pushes of a string, byte by byte.
LEMMA StringPushes ==
  ASSUME NEW st, NEW str \in String
  PROVE  LET f == Pushes(st, str \o <<0>>, 0) IN
         /\ f[Len(str) + 2] = st
         /\ \A n \in 1 .. Len(str) + 1 : f[n] = push_stack(f[n + 1], StringByte(str, n), 0)
<1> DEFINE z == str \o <<0>>
           l == Len(str)
           f == Pushes(st, z, 0)
<1>1. str \in Seq(Int) /\ l \in Nat
  <2>1. 1 .. 255 \subseteq Int
    OBVIOUS
  <2>2. str \in Seq(1 .. 255)
    BY DEF String
  <2>3. \A n \in 1 .. Len(str) : str[n] \in Int
    BY <2>1, <2>2, ElementOfSeq
  <2> QED
    BY <2>2, <2>3, SeqDef, LenProperties
<1> DEFINE one == <<0>>
<1>2. one \in Seq(Int) /\ Len(one) = 1 /\ one[1] = 0
  OBVIOUS
<1> HIDE DEF one
<1>3. /\ Len(str \o one) = Len(str) + 1
      /\ \A n \in 1 .. Len(str) + 1 :
           (str \o one)[n] = IF n <= Len(str) THEN str[n] ELSE one[n - Len(str)]
  <2>1. /\ Len(str \o one) = Len(str) + Len(one)
        /\ \A n \in 1 .. Len(str) + Len(one) :
             (str \o one)[n] = IF n <= Len(str) THEN str[n] ELSE one[n - Len(str)]
    BY <1>1, <1>2, ConcatProperties
  <2> QED
    BY <1>2, <2>1
<1>4. Len(z) = l + 1
  BY <1>3 DEF one
<1>5. ASSUME NEW n \in 1 .. l + 1 PROVE z[n] = StringByte(str, n)
  <2>1. z[n] = IF n <= l THEN str[n] ELSE one[n - l]
    BY <1>3 DEF one
  <2>2. CASE n <= l
    BY <1>1, <2>1, <2>2 DEF StringByte
  <2>3. CASE ~(n <= l)
    <3>1. n - l = 1 /\ n > l
      BY <1>1, <2>3
    <3> QED
      BY <1>2, <2>1, <2>3, <3>1 DEF StringByte
  <2> QED
    BY <2>2, <2>3
<1> HIDE DEF z
<1>6. /\ f[Len(z) + 1] = st
      /\ \A n \in 1 .. Len(z) : f[n] = push_stack(f[n + 1], z[n], 0)
  BY <1>1, <1>4, PushesDef
<1>7. l + 1 + 1 = l + 2
  BY <1>1
<1> HIDE DEF f
<1>8. /\ f[l + 2] = st
      /\ \A n \in 1 .. l + 1 : f[n] = push_stack(f[n + 1], StringByte(str, n), 0)
  BY <1>4, <1>5, <1>6, <1>7
<1> QED
  BY <1>8 DEF f, z, l

\* The stores of the closed form: as main() has it, with the environment and,
\* from each argument on, with the arguments.
Begun == LET b == Files[path] IN Start(AfterHeader(b), TextLength(b), DataLength(b))

EnvStored == PushString(Begun, Env)

ArgStores == ArgvPushes(EnvStored, argv)

\* Each loop of init_stack is as far as the recursion it follows.
ImageKnown == Loaded =>
  /\ path \in DOMAIN Files
  /\ text = AfterHeader(Files[path]) /\ a_text = TextLength(Files[path])

EnvAgrees == phase = "env" =>
  s = Pushes(Begun, Env \o <<0>>, 0)[j + 1]

ArgsAgree == phase = "args" =>
  /\ env_addr = EnvStored.regs[SP]
  /\ i = 0 => s = ArgStores[1]
  /\ i > 0 => s = Pushes(ArgStores[i + 1], argv[i] \o <<0>>, 0)[j + 1]
  /\ \A k \in i + 1 .. argc : arg_addr[k] = ArgStores[k].regs[SP]

WordsAgree == phase \in {"words", "done"} =>
  /\ env_addr = EnvStored.regs[SP]
  /\ arg_addr = ArgvAddresses(EnvStored, argv)
  /\ s = Pushes(ArgStores[1], Words, 1)[i + 1]

ClosedInv == ImageKnown /\ EnvAgrees /\ ArgsAgree /\ WordsAgree

\* The stores of the closed form are settled when the file is read.
LEMMA StoresStay ==
  ASSUME ImageKnown, Loaded, UNCHANGED mainVars, UNCHANGED argv, Loaded'
  PROVE  /\ ImageKnown'
         /\ Begun' = Begun /\ EnvStored' = EnvStored /\ ArgStores' = ArgStores
         /\ argc' = argc
  BY DEF ImageKnown, mainVars, Begun, EnvStored, ArgStores, argc

\* The recursions for the environment and for an argument.
LEMMA EnvFollowed ==
  LET f == Pushes(Begun, Env \o <<0>>, 0) IN
  /\ f[Len(Env) + 2] = Begun /\ f[1] = EnvStored
  /\ \A n \in 1 .. Len(Env) + 1 : f[n] = push_stack(f[n + 1], StringByte(Env, n), 0)
  BY StringPushes, EnvType DEF EnvStored, PushString

LEMMA ArgFollowed ==
  ASSUME Typed
  PROVE  /\ ArgStores[argc + 1] = EnvStored
         /\ \A k \in 1 .. argc :
              LET f == Pushes(ArgStores[k + 1], argv[k] \o <<0>>, 0) IN
              /\ f[Len(argv[k]) + 2] = ArgStores[k + 1] /\ f[1] = ArgStores[k]
              /\ \A n \in 1 .. Len(argv[k]) + 1 :
                   f[n] = push_stack(f[n + 1], StringByte(argv[k], n), 0)
<1>1. /\ ArgStores[argc + 1] = EnvStored
      /\ \A k \in 1 .. argc : ArgStores[k] = PushString(ArgStores[k + 1], argv[k])
  BY TypedFacts, ArgvPushesDef DEF ArgStores, argc
<1>2. ASSUME NEW k \in 1 .. argc
      PROVE  LET f == Pushes(ArgStores[k + 1], argv[k] \o <<0>>, 0) IN
             /\ f[Len(argv[k]) + 2] = ArgStores[k + 1] /\ f[1] = ArgStores[k]
             /\ \A n \in 1 .. Len(argv[k]) + 1 :
                  f[n] = push_stack(f[n + 1], StringByte(argv[k], n), 0)
  <2>1. argv[k] \in String
    BY TypedFacts
  <2>2. ArgStores[k] = Pushes(ArgStores[k + 1], argv[k] \o <<0>>, 0)[1]
    BY <1>1 DEF PushString
  <2> QED
    BY <2>1, <2>2, StringPushes
<1> QED
  BY <1>1, <1>2

\* The steps.
LEMMA LoadAgrees == ASSUME StartInv, LoadFile PROVE ClosedInv'
<1> DEFINE b == Files[path]
<1>1. /\ path \in DOMAIN Files /\ path' = path /\ phase' = "env"
      /\ text' = AfterHeader(b) /\ a_text' = TextLength(b)
      /\ s' = Begun /\ j' = Len(Env) + 1
  BY DEF LoadFile, Enter, Begun
<1>2. Begun' = Begun
  BY <1>1 DEF Begun
<1>3. Len(Env) + 1 + 1 = Len(Env) + 2
  BY EnvType, StringByteType
<1>4. EnvAgrees'
  BY <1>1, <1>2, <1>3, EnvFollowed DEF EnvAgrees
<1> QED
  BY <1>1, <1>4 DEF ClosedInv, ImageKnown, ArgsAgree, WordsAgree

LEMMA PushEnvAgrees ==
  ASSUME StartInv, ClosedInv, PushEnv, UNCHANGED mainVars PROVE ClosedInv'
<1>1. /\ phase = "env" /\ j > 0 /\ s' = push_stack(s, StringByte(Env, j), 0) /\ j' = j - 1
      /\ UNCHANGED <<argv, phase, i, env_addr, arg_addr>>
  BY DEF PushEnv, Push
<1>2. j \in 1 .. Len(Env) + 1
  <2>1. j \in Nat /\ j <= Len(Env) + 1
    BY <1>1, TypedFacts DEF StartInv, EnvInv
  <2> QED
    BY <1>1, <2>1, EnvType, StringByteType
<1>3. s' = Pushes(Begun, Env \o <<0>>, 0)[j]
  <2>1. s = Pushes(Begun, Env \o <<0>>, 0)[j + 1]
    BY <1>1 DEF ClosedInv, EnvAgrees
  <2> QED
    BY <1>1, <1>2, <2>1, EnvFollowed
<1>4. j' + 1 = j /\ Loaded /\ Loaded'
  BY <1>1, <1>2 DEF Loaded
<1>5. ImageKnown' /\ Begun' = Begun
  BY <1>1, <1>4, StoresStay DEF ClosedInv
<1>6. EnvAgrees'
  BY <1>3, <1>4, <1>5 DEF EnvAgrees
<1> QED
  BY <1>1, <1>5, <1>6 DEF ClosedInv, ArgsAgree, WordsAgree

LEMMA EnvDoneAgrees ==
  ASSUME StartInv, ClosedInv, EnvDone, UNCHANGED mainVars PROVE ClosedInv'
<1>1. /\ phase = "env" /\ j = 0 /\ env_addr' = s.regs[SP] /\ phase' = "args"
      /\ j' = IF i > 0 THEN Len(argv[i]) + 1 ELSE 0
      /\ UNCHANGED <<argv, s, i, arg_addr>>
  BY DEF EnvDone
<1>2. s = EnvStored
  <2>1. s = Pushes(Begun, Env \o <<0>>, 0)[j + 1]
    BY <1>1 DEF ClosedInv, EnvAgrees
  <2> QED
    BY <1>1, <2>1, EnvFollowed
<1>3. ImageKnown' /\ EnvStored' = EnvStored /\ ArgStores' = ArgStores /\ argc' = argc
  <2>1. Loaded /\ Loaded'
    BY <1>1 DEF Loaded
  <2> QED
    BY <1>1, <2>1, StoresStay DEF ClosedInv
<1>4. i = argc /\ argc \in Nat /\ Typed
  BY <1>1, TypedFacts DEF StartInv, EnvInv
<1>5. ArgStores[argc + 1] = EnvStored
  BY <1>4, ArgFollowed
<1>6. i = 0 => s = ArgStores[1]
  BY <1>2, <1>4, <1>5
<1>7. i > 0 => s = Pushes(ArgStores[i + 1], argv[i] \o <<0>>, 0)[Len(argv[i]) + 2]
  BY <1>2, <1>4, <1>5, ArgFollowed
<1>8. i > 0 => j' + 1 = Len(argv[i]) + 2
  BY <1>1, <1>4, TypedFacts
<1>9. i + 1 .. argc = {}
  BY <1>4
<1>10. ArgsAgree'
  BY <1>1, <1>2, <1>3, <1>6, <1>7, <1>8, <1>9 DEF ArgsAgree
<1> QED
  BY <1>1, <1>3, <1>10 DEF ClosedInv, EnvAgrees, WordsAgree

LEMMA PushArgAgrees ==
  ASSUME StartInv, ClosedInv, PushArg, UNCHANGED mainVars PROVE ClosedInv'
<1>1. /\ phase = "args" /\ i > 0 /\ j > 0
      /\ s' = push_stack(s, StringByte(argv[i], j), 0) /\ j' = j - 1
      /\ UNCHANGED <<argv, phase, i, env_addr, arg_addr>>
  BY DEF PushArg, Push
<1>2. Typed /\ i \in 1 .. argc /\ j \in 1 .. Len(argv[i]) + 1
  <2>1. Typed /\ i <= argc /\ j <= Len(argv[i]) + 1
    BY <1>1 DEF StartInv, ArgsInv
  <2>2. i \in 1 .. argc
    BY <1>1, <2>1, TypedFacts
  <2> QED
    BY <1>1, <2>1, <2>2, TypedFacts
<1>3. s' = Pushes(ArgStores[i + 1], argv[i] \o <<0>>, 0)[j]
  <2>1. s = Pushes(ArgStores[i + 1], argv[i] \o <<0>>, 0)[j + 1]
    BY <1>1 DEF ClosedInv, ArgsAgree
  <2> QED
    BY <1>1, <1>2, <2>1, ArgFollowed
<1>4. j' + 1 = j /\ Loaded /\ Loaded'
  BY <1>1, <1>2, TypedFacts DEF Loaded
<1>5. ImageKnown' /\ EnvStored' = EnvStored /\ ArgStores' = ArgStores /\ argc' = argc
  BY <1>1, <1>4, StoresStay DEF ClosedInv
<1>6. ArgsAgree'
  BY <1>1, <1>3, <1>4, <1>5 DEF ClosedInv, ArgsAgree
<1> QED
  BY <1>1, <1>5, <1>6 DEF ClosedInv, EnvAgrees, WordsAgree

LEMMA ArgDoneAgrees ==
  ASSUME StartInv, ClosedInv, ArgDone, UNCHANGED mainVars PROVE ClosedInv'
<1>1. /\ phase = "args" /\ i > 0 /\ j = 0
      /\ arg_addr' = [arg_addr EXCEPT ![i] = s.regs[SP]]
      /\ i' = i - 1 /\ j' = IF i > 1 THEN Len(argv[i - 1]) + 1 ELSE 0
      /\ UNCHANGED <<argv, s, phase, env_addr>>
  BY DEF ArgDone
<1>2. Typed /\ argc \in Nat /\ i \in 1 .. argc /\ arg_addr \in [1 .. argc -> Word]
  <2>1. Typed /\ i <= argc
    BY <1>1 DEF StartInv, ArgsInv
  <2> QED
    BY <1>1, <2>1, TypedFacts DEF Typed, TypeOK
<1>3. s = ArgStores[i]
  <2>1. s = Pushes(ArgStores[i + 1], argv[i] \o <<0>>, 0)[j + 1]
    BY <1>1 DEF ClosedInv, ArgsAgree
  <2>2. j + 1 = 1
    BY <1>1
  <2> QED
    BY <1>2, <2>1, <2>2, ArgFollowed
<1>4. ImageKnown' /\ EnvStored' = EnvStored /\ ArgStores' = ArgStores /\ argc' = argc
  <2>1. Loaded /\ Loaded'
    BY <1>1 DEF Loaded
  <2> QED
    BY <1>1, <2>1, StoresStay DEF ClosedInv
<1>5. i' = 0 => s = ArgStores[1]
  <2>1. i' = 0 => i = 1
    BY <1>1, <1>2
  <2> QED
    BY <1>3, <2>1
<1>6. i' > 0 => s = Pushes(ArgStores[i' + 1], argv[i'] \o <<0>>, 0)[j' + 1]
  <2>1. SUFFICES ASSUME i' > 0 PROVE s = Pushes(ArgStores[i' + 1], argv[i'] \o <<0>>, 0)[j' + 1]
    OBVIOUS
  <2>2. i' \in 1 .. argc /\ i' + 1 = i
    BY <1>1, <1>2, <2>1
  <2>3. j' + 1 = Len(argv[i']) + 2
    BY <1>1, <1>2, <2>1, <2>2, TypedFacts
  <2>4. Pushes(ArgStores[i' + 1], argv[i'] \o <<0>>, 0)[Len(argv[i']) + 2] = ArgStores[i' + 1]
    BY <1>2, <2>2, ArgFollowed
  <2> QED
    BY <1>3, <2>2, <2>3, <2>4
<1>7. ASSUME NEW k \in i' + 1 .. argc PROVE arg_addr'[k] = ArgStores[k].regs[SP]
  <2>1. k \in 1 .. argc /\ (k = i \/ k \in i + 1 .. argc)
    BY <1>1, <1>2
  <2>2. CASE k = i
    BY <1>1, <1>2, <1>3, <2>1, <2>2
  <2>3. CASE k # i
    <3>1. arg_addr[k] = ArgStores[k].regs[SP]
      BY <1>1, <2>1, <2>3 DEF ClosedInv, ArgsAgree
    <3> QED
      BY <1>1, <1>2, <2>1, <2>3, <3>1
  <2> QED
    BY <2>2, <2>3
<1>8. env_addr = EnvStored.regs[SP]
  BY <1>1 DEF ClosedInv, ArgsAgree
<1>9. ArgsAgree'
  BY <1>1, <1>4, <1>5, <1>6, <1>7, <1>8 DEF ArgsAgree
<1> QED
  BY <1>1, <1>4, <1>9 DEF ClosedInv, EnvAgrees, WordsAgree

LEMMA ArgsDoneAgrees ==
  ASSUME StartInv, ClosedInv, ArgsDone, UNCHANGED mainVars PROVE ClosedInv'
<1>1. /\ phase = "args" /\ i = 0 /\ phase' = "words" /\ i' = Len(Words)
      /\ UNCHANGED <<argv, s, j, env_addr, arg_addr>>
  BY DEF ArgsDone
<1>2. ImageKnown' /\ EnvStored' = EnvStored /\ ArgStores' = ArgStores /\ argc' = argc
  <2>1. Loaded /\ Loaded'
    BY <1>1 DEF Loaded
  <2> QED
    BY <1>1, <2>1, StoresStay DEF ClosedInv
<1>3. Words' = Words
  BY <1>1, <1>2 DEF Words
<1>4. /\ s = ArgStores[1] /\ env_addr = EnvStored.regs[SP]
      /\ \A k \in 1 .. argc : arg_addr[k] = ArgStores[k].regs[SP]
  BY <1>1 DEF ClosedInv, ArgsAgree
<1>5. Typed /\ argc \in Nat /\ arg_addr \in [1 .. argc -> Word]
  BY TypedFacts DEF StartInv, Typed, TypeOK
<1>6. arg_addr = ArgvAddresses(EnvStored, argv)
  <2>1. ArgvAddresses(EnvStored, argv) = [k \in 1 .. argc |-> ArgStores[k].regs[SP]]
    BY DEF ArgvAddresses, ArgStores, argc
  <2> QED
    BY <1>4, <1>5, <2>1
<1>7. Len(Words) \in Nat
  <2>1. argc \in Word
    <3>1. StartInv'
      BY ArgsDoneStep
    <3> QED
      BY <1>1, <1>2, <3>1 DEF StartInv, WordsInv
  <2> QED
    BY <1>5, <2>1, WordsAre, LenProperties
<1>8. s = Pushes(ArgStores[1], Words, 1)[Len(Words) + 1]
  BY <1>4, <1>7, PushesDef
<1>9. WordsAgree'
  BY <1>1, <1>2, <1>3, <1>4, <1>6, <1>8 DEF WordsAgree
<1> QED
  BY <1>1, <1>2, <1>9 DEF ClosedInv, EnvAgrees, ArgsAgree

LEMMA PushWordAgrees ==
  ASSUME StartInv, ClosedInv, PushWord, UNCHANGED mainVars PROVE ClosedInv'
<1>1. /\ phase = "words" /\ i > 0 /\ s' = push_stack(s, Words[i], 1) /\ i' = i - 1
      /\ UNCHANGED <<argv, phase, j, env_addr, arg_addr>>
  BY DEF PushWord, Push
<1>2. Typed /\ argc \in Word /\ argc \in Nat
  BY <1>1, TypedFacts DEF StartInv, WordsInv
<1>3. i \in 1 .. Len(Words) /\ Len(Words) \in Nat
  <2>1. Len(Words) = argc + 4
    BY <1>2, WordsAre
  <2>2. i \in 0 .. argc + 4
    BY <1>2 DEF Typed, TypeOK
  <2> QED
    BY <1>1, <1>2, <2>1, <2>2
<1>4. s' = Pushes(ArgStores[1], Words, 1)[i]
  <2>1. s = Pushes(ArgStores[1], Words, 1)[i + 1]
    BY <1>1 DEF ClosedInv, WordsAgree
  <2> QED
    BY <1>1, <1>3, <2>1, PushesDef
<1>5. i' + 1 = i
  BY <1>1, <1>3
<1>6. ImageKnown' /\ EnvStored' = EnvStored /\ ArgStores' = ArgStores /\ argc' = argc
  <2>1. Loaded /\ Loaded'
    BY <1>1 DEF Loaded
  <2> QED
    BY <1>1, <2>1, StoresStay DEF ClosedInv
<1>7. Words' = Words
  BY <1>1, <1>6 DEF Words
<1>8. WordsAgree'
  BY <1>1, <1>4, <1>5, <1>6, <1>7 DEF ClosedInv, WordsAgree
<1> QED
  BY <1>1, <1>6, <1>8 DEF ClosedInv, EnvAgrees, ArgsAgree

LEMMA WordsDoneAgrees ==
  ASSUME StartInv, ClosedInv, WordsDone, UNCHANGED mainVars PROVE ClosedInv'
<1>1. /\ phase = "words" /\ i = 0 /\ phase' = "done"
      /\ UNCHANGED <<argv, s, i, j, env_addr, arg_addr>>
  BY DEF WordsDone
<1>2. ImageKnown' /\ EnvStored' = EnvStored /\ ArgStores' = ArgStores /\ argc' = argc
  <2>1. Loaded /\ Loaded'
    BY <1>1 DEF Loaded
  <2> QED
    BY <1>1, <2>1, StoresStay DEF ClosedInv
<1>3. Words' = Words
  BY <1>1, <1>2 DEF Words
<1>4. WordsAgree'
  BY <1>1, <1>2, <1>3 DEF ClosedInv, WordsAgree
<1> QED
  BY <1>1, <1>2, <1>4 DEF ClosedInv, EnvAgrees, ArgsAgree

\* Before init_stack nothing is said of its loops.
LEMMA NothingToAgree ==
  ASSUME ~Loaded PROVE ClosedInv
  BY DEF Loaded, ClosedInv, ImageKnown, EnvAgrees, ArgsAgree, WordsAgree

LEMMA ClosedInvariant == Spec => []ClosedInv
<1>1. ASSUME Init PROVE ClosedInv
  BY <1>1, NothingToAgree DEF Init, Loaded
<1>2. ASSUME StartInv, ClosedInv, [Next]_startVars PROVE ClosedInv'
  <2>1. CASE UNCHANGED startVars
    <3>1. UNCHANGED <<mainVars, argv, s, phase, i, j, env_addr, arg_addr>>
      BY <2>1 DEF startVars, stackVars
    <3>2. /\ Loaded' = Loaded /\ argc' = argc /\ Words' = Words /\ path' = path
          /\ text' = text /\ a_text' = a_text
      BY <3>1 DEF Loaded, argc, Words, mainVars
    <3>3. Begun' = Begun /\ EnvStored' = EnvStored /\ ArgStores' = ArgStores
      BY <3>1, <3>2 DEF Begun, EnvStored, ArgStores
    <3>4. ImageKnown' /\ EnvAgrees'
      BY <1>2, <3>1, <3>2, <3>3 DEF ClosedInv, ImageKnown, EnvAgrees
    <3>5. ArgsAgree' /\ WordsAgree'
      BY <1>2, <3>1, <3>2, <3>3 DEF ClosedInv, ArgsAgree, WordsAgree
    <3> QED
      BY <3>4, <3>5 DEF ClosedInv
  <2>2. CASE InitStackStep
    BY <1>2, <2>2, PushEnvAgrees, EnvDoneAgrees, PushArgAgrees, ArgDoneAgrees,
       ArgsDoneAgrees, PushWordAgrees, WordsDoneAgrees DEF InitStackStep, PushArguments
  <2>3. CASE LoadFile
    BY <1>2, <2>3, LoadAgrees
  <2>4. CASE NoCommand \/ UnknownOption \/ SelectMode \/ CannotRead
    <3>1. phase' \in {"exit", "open"}
      BY <2>4 DEF NoCommand, UnknownOption, SelectMode, CannotRead, Exit, Select
    <3>2. ~Loaded'
      BY <3>1 DEF Loaded
    <3> QED
      BY <3>2 DEF Loaded, ClosedInv, ImageKnown, EnvAgrees, ArgsAgree, WordsAgree
  <2> QED
    BY <1>2, <2>1, <2>2, <2>3, <2>4 DEF Next
<1> QED
  BY <1>1, <1>2, StartInvariant, PTL DEF Spec

\* Whatever the command line and the file, the loop starts with the store that
\* the recursive definition of init_stack describes, and which the programs of
\* Calls and Cpu are given: LoadsAsClosedForm.
THEOREM LoadedAsClosedForm == Spec => []LoadsAsClosedForm
<1>1. ASSUME StartInv, ClosedInv PROVE LoadsAsClosedForm
  <2>1. SUFFICES ASSUME phase = "done"
                 PROVE  [text |-> text, a_text |-> a_text, regs |-> s.regs, mem |-> s.mem]
                          = LET b == Files[path] IN
                            Load(AfterHeader(b), TextLength(b), DataLength(b), Operands)
    BY DEF LoadsAsClosedForm
  <2>2. i = 0 /\ Loaded
    BY <1>1, <2>1 DEF StartInv, WordsInv, Loaded
  <2>3. argv = Operands /\ argc = Len(argv)
    BY <1>1, <2>2 DEF StartInv, OperandsLoaded, argc
  <2>4. s = PushWords(ArgStores[1], Words)
    BY <1>1, <2>1, <2>2 DEF ClosedInv, WordsAgree, PushWords
  <2>5. Words = <<Len(argv)>> \o ArgvAddresses(EnvStored, argv)
                  \o <<0, EnvStored.regs[SP], 0>>
    BY <1>1, <2>1, <2>3 DEF ClosedInv, WordsAgree, Words
  <2>6. s = init_stack(Begun, Operands)
    BY <2>3, <2>4, <2>5 DEF init_stack, EnvStored, ArgStores
  <2>7. text = AfterHeader(Files[path]) /\ a_text = TextLength(Files[path])
    BY <1>1, <2>2 DEF ClosedInv, ImageKnown
  <2> QED
    BY <2>6, <2>7 DEF Load, Begun
<1> QED
  BY <1>1, StartInvariant, ClosedInvariant, PTL

-----------------------------------------------------------------------------
(* The image the loop starts with *)

LEMMA Capacity == STACK_CAPACITY = 65535
  BY DEF STACK_CAPACITY

\* What lies below SP lies inside g_memory.
LEMMA BelowCapacity ==
  ASSUME NEW x \in Int, 0 <= x, x < 65535 PROVE x \in 0 .. STACK_CAPACITY - 1
<1>1. STACK_CAPACITY \in Int /\ x <= STACK_CAPACITY - 1
  BY Capacity
<1> QED
  BY <1>1

\* A byte written at an address of a range stays in it.
LEMMA WriteInside ==
  ASSUME NEW S, NEW m, DOMAIN m \subseteq S, NEW a \in S, NEW b
  PROVE  DOMAIN WriteByte(m, a, b) \subseteq S
  BY DEF WriteByte

\* A push that does not pass 0 writes below SP, which is inside g_memory.
LEMMA PushInside ==
  ASSUME NEW st, IsStore(st), NEW v \in Word, NEW w \in {0, 1}, st.regs[SP] >= 1 + w
  PROVE  DOMAIN st.mem \subseteq 0 .. STACK_CAPACITY - 1
           => DOMAIN push_stack(st, v, w).mem \subseteq 0 .. STACK_CAPACITY - 1
<1> DEFINE S == 0 .. STACK_CAPACITY - 1
           sp == st.regs[SP] - 1 - w
           m == push_stack(st, v, w).mem
<1>1. m = IF w = 1 THEN WriteWord(st.mem, sp, v) ELSE WriteByte(st.mem, sp, LowByte(v))
  BY PushStore
<1>2. sp \in S /\ (w = 1 => sp + 1 \in S)
  <2>1. sp \in Int /\ 0 <= sp /\ sp < 65535 /\ (w = 1 => sp + 1 < 65535)
    BY StackPointer
  <2> HIDE DEF sp
  <2> QED
    BY <2>1, BelowCapacity
<1> HIDE DEF S, sp, m
<1>3. SUFFICES ASSUME DOMAIN st.mem \subseteq S PROVE DOMAIN m \subseteq S
  BY DEF S, m
<1>4. CASE w = 1
  <2>1. m = WriteByte(WriteByte(st.mem, sp, LowByte(v)), sp + 1, HighByte(v))
    BY <1>1, <1>4 DEF WriteWord
  <2>2. DOMAIN WriteByte(st.mem, sp, LowByte(v)) \subseteq S
    BY <1>2, <1>3, WriteInside
  <2> QED
    BY <1>2, <1>4, <2>1, <2>2, WriteInside
<1>5. CASE w = 0
  BY <1>1, <1>2, <1>3, <1>5, WriteInside
<1> QED
  BY <1>4, <1>5

Inside == Loaded => DOMAIN s.mem \subseteq 0 .. STACK_CAPACITY - 1

\* Between the data area and SP there is room for every push.
LEMMA RoomToPush ==
  ASSUME StartInv
  PROVE  /\ PushEnv \/ PushArg => s.regs[SP] >= 2
         /\ PushWord => s.regs[SP] >= 2
<1>1. Typed /\ argc \in Nat /\ Len(data) \in Nat /\ s.regs[SP] \in Int /\ i \in Nat /\ j \in Nat
  BY TypedFacts DEF StartInv
<1>2. ASSUME PushEnv PROVE s.regs[SP] >= 2
  <2>1. Cardinality(Bytes(argv)) \in Nat
    BY <1>1, BytesFinite, FS_CardinalityType DEF Typed
  <2>2. Len(data) + (j + Cardinality(Bytes(argv))) + 2 * (argc + 4) <= s.regs[SP]
    BY <1>2 DEF PushEnv, StartInv, EnvInv, Room
  <2> QED
    BY <1>1, <2>1, <2>2
<1>3. ASSUME PushArg PROVE s.regs[SP] >= 2
  <2>1. Cardinality(Left(argv, i, j)) \in Nat
    BY <1>1, LeftCount DEF Typed
  <2>2. Len(data) + Cardinality(Left(argv, i, j)) + 2 * (argc + 4) <= s.regs[SP]
    BY <1>3 DEF PushArg, StartInv, ArgsInv, Room
  <2> QED
    BY <1>1, <2>1, <2>2
<1>4. ASSUME PushWord PROVE s.regs[SP] >= 2
  <2>1. i > 0 /\ Len(data) + 2 * i <= s.regs[SP]
    BY <1>4 DEF PushWord, StartInv, WordsInv
  <2> QED
    BY <1>1, <2>1
<1> QED
  BY <1>2, <1>3, <1>4

LEMMA LoadInside == ASSUME StartInv, LoadFile PROVE Inside'
<1> DEFINE b == Files[path]
<1>1. /\ path \in DOMAIN Files /\ phase = "open" /\ argv' = ProgramArgs
      /\ s' = Start(AfterHeader(b), TextLength(b), DataLength(b))
  BY DEF LoadFile, Enter
<1>2. /\ command \in Commands /\ Len(command) > 1
      /\ mode = "INTERPRET" <=> ~IsOption(command[2])
  BY <1>1 DEF StartInv, Typed, TypeOK, ModeKnown
<1>3. OperandsOf(command) \in Seq(String)
  BY <1>2, OperandsType
<1> DEFINE ops == OperandsOf(command)
<1>4. Len(DataArea(b)) + Len(Env) + 1 + Cardinality(Bytes(ops)) + 2 * (Len(ops) + 4)
        <= STACK_CAPACITY
  BY <1>1, <1>2, RoomAssumption
<1>5. Len(ops) \in Nat /\ Len(Env) \in Nat /\ Cardinality(Bytes(ops)) \in Nat
  BY <1>3, LenProperties, EnvType, StringByteType, BytesFinite, FS_CardinalityType
<1>6. Len(DataArea(b)) \in Nat /\ DataLength(b) \in Int /\ DataLength(b) <= Len(DataArea(b))
  BY <1>1, FileType, DataType
<1>7. DOMAIN s'.mem = 0 .. DataLength(b) - 1
  BY <1>1 DEF Start
<1> HIDE DEF ops
<1>8. DataLength(b) <= STACK_CAPACITY /\ STACK_CAPACITY \in Int
  BY <1>4, <1>5, <1>6, Capacity
<1>9. 0 .. DataLength(b) - 1 \subseteq 0 .. STACK_CAPACITY - 1
  BY <1>6, <1>8
<1> QED
  BY <1>7, <1>9 DEF Inside

LEMMA PushesInside == ASSUME StartInv, Inside, PushArguments PROVE Inside'
<1>1. Loaded /\ DOMAIN s.mem \subseteq 0 .. STACK_CAPACITY - 1 /\ IsStore(s) /\ Typed
  <2>1. Loaded
    BY DEF PushArguments, PushEnv, EnvDone, PushArg, ArgDone, ArgsDone, PushWord,
      WordsDone, Loaded
  <2> QED
    BY <2>1 DEF Inside, StartInv, Typed
<1>2. ASSUME NEW v \in Word, NEW w \in {0, 1}, s.regs[SP] >= 2, Push(v, w) PROVE Inside'
  <2>1. s.regs[SP] >= 1 + w
    BY <1>1, <1>2, StackPointer
  <2>2. DOMAIN push_stack(s, v, w).mem \subseteq 0 .. STACK_CAPACITY - 1
    BY <1>1, <2>1, PushInside
  <2> QED
    BY <1>2, <2>2 DEF Push, Inside
<1>3. CASE PushEnv
  <2>1. Push(StringByte(Env, j), 0) /\ j \in 1 .. Len(Env) + 1
    <3>1. Push(StringByte(Env, j), 0) /\ j > 0 /\ j <= Len(Env) + 1
      BY <1>3 DEF PushEnv, StartInv, EnvInv
    <3> QED
      BY <1>1, <3>1, TypedFacts, EnvType, StringByteType
  <2>2. StringByte(Env, j) \in Word
    BY <2>1, EnvType, StringByteType, ByteIsWord
  <2> QED
    BY <1>2, <1>3, <2>1, <2>2, RoomToPush
<1>4. CASE PushArg
  <2>1. Push(StringByte(argv[i], j), 0) /\ i \in 1 .. argc /\ j \in 1 .. Len(argv[i]) + 1
    <3>1. /\ Push(StringByte(argv[i], j), 0) /\ i > 0 /\ j > 0
          /\ i <= argc /\ j <= Len(argv[i]) + 1
      BY <1>4 DEF PushArg, StartInv, ArgsInv
    <3>2. i \in 1 .. argc
      BY <1>1, <3>1, TypedFacts
    <3> QED
      BY <1>1, <3>1, <3>2, TypedFacts
  <2>2. StringByte(argv[i], j) \in Word
    BY <1>1, <2>1, TypedFacts, StringByteType, ByteIsWord
  <2> QED
    BY <1>2, <1>4, <2>1, <2>2, RoomToPush
<1>5. CASE PushWord
  <2>1. Push(Words[i], 1) /\ i > 0 /\ argc \in Word
    BY <1>5 DEF PushWord, StartInv, WordsInv
  <2>2. i \in 1 .. argc + 4
    BY <1>1, <2>1, TypedFacts DEF Typed, TypeOK
  <2>3. Words[i] \in Word
    BY <1>1, <2>1, <2>2, WordsAre, ElementOfSeq
  <2> QED
    BY <1>2, <1>5, <2>1, <2>3, RoomToPush
<1>6. CASE EnvDone \/ ArgDone \/ ArgsDone \/ WordsDone
  BY <1>1, <1>6 DEF EnvDone, ArgDone, ArgsDone, WordsDone, Inside
<1> QED
  BY <1>3, <1>4, <1>5, <1>6 DEF PushArguments

\* SP starts at the end of g_memory; a word pushed leaves it at a word inside.
AtWord ==
  phase = "done" \/ (phase = "words" /\ i < argc + 4) => s.regs[SP] <= STACK_CAPACITY - 2

LEMMA PushesLeaveWord == ASSUME StartInv, AtWord, PushArguments PROVE AtWord'
<1>1. Typed /\ IsStore(s) /\ argc \in Nat /\ i \in Nat /\ s.regs[SP] \in Int /\ s.regs[SP] <= 65535
  BY TypedFacts DEF StartInv, Typed
<1>2. CASE PushEnv \/ EnvDone \/ PushArg \/ ArgDone
  BY <1>2 DEF PushEnv, EnvDone, PushArg, ArgDone, AtWord
<1>3. CASE ArgsDone
  <2>1. Len(Words) = argc + 4
    <3>1. Cardinality(Left(argv, i, j)) \in Nat /\ Len(data) \in Nat
      BY <1>1, LeftCount, TypedFacts DEF Typed
    <3>2. Len(data) + Cardinality(Left(argv, i, j)) + 2 * (argc + 4) <= s.regs[SP]
      BY <1>3 DEF ArgsDone, StartInv, ArgsInv, Room
    <3>3. argc \in Word
      BY <1>1, <3>1, <3>2, WordDef
    <3> QED
      BY <1>1, <3>3, WordsAre
  <2>2. phase' = "words" /\ i' = argc + 4 /\ argc' = argc
    BY <1>3, <2>1 DEF ArgsDone, argc
  <2> QED
    BY <1>1, <2>2 DEF AtWord
<1>4. CASE PushWord
  <2>1. Push(Words[i], 1) /\ i > 0 /\ argc \in Word
    BY <1>4 DEF PushWord, StartInv, WordsInv
  <2>2. i \in 1 .. argc + 4
    BY <1>1, <2>1, TypedFacts DEF Typed, TypeOK
  <2>3. Words[i] \in Word
    BY <1>1, <2>1, <2>2, WordsAre, ElementOfSeq
  <2>4. s.regs[SP] >= 2
    BY <1>4, RoomToPush
  <2>5. s'.regs[SP] = s.regs[SP] - 2
    BY <1>1, <2>1, <2>3, <2>4, PushStore DEF Push
  <2> QED
    BY <1>1, <2>5, Capacity DEF AtWord
<1>5. CASE WordsDone
  BY <1>1, <1>5 DEF WordsDone, AtWord
<1> QED
  BY <1>2, <1>3, <1>4, <1>5 DEF PushArguments

\* Whatever the command line and the file, the loop starts with an image as
\* Cpu assumes it, every byte of it lies inside g_memory, and SP points to a
\* word inside, although push_stack checks no bound: ImageReady.
THEOREM ImageIsReady == Spec => []ImageReady
<1>1. ASSUME Init PROVE Inside /\ AtWord
  BY <1>1 DEF Init, Inside, Loaded, AtWord
<1>2. ASSUME StartInv, Inside, AtWord, [Next]_startVars PROVE Inside' /\ AtWord'
  <2>1. CASE UNCHANGED startVars
    BY <1>2, <2>1 DEF startVars, stackVars, Inside, Loaded, AtWord, argc
  <2>2. CASE InitStackStep
    BY <1>2, <2>2, PushesInside, PushesLeaveWord DEF InitStackStep
  <2>3. CASE LoadFile
    BY <1>2, <2>3, LoadInside DEF LoadFile, Enter, AtWord
  <2>4. CASE NoCommand \/ UnknownOption \/ SelectMode \/ CannotRead
    BY <2>4 DEF NoCommand, UnknownOption, SelectMode, CannotRead, Exit, Select, Inside, Loaded,
      AtWord
  <2> QED
    BY <1>2, <2>1, <2>2, <2>3, <2>4 DEF Next
<1>3. StartInv /\ Inside /\ AtWord => ImageReady
  BY DEF StartInv, Typed, TypeOK, Inside, Loaded, AtWord, ImageReady
<1> QED
  BY <1>1, <1>2, <1>3, StartInvariant, PTL DEF Spec
=============================================================================
