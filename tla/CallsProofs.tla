---------------------------- MODULE CallsProofs -----------------------------
(***************************************************************************)
(* First, that an instruction changes what its encoding names and nothing   *)
(* else.  Then what the interpreter owes a program that keeps its stack:    *)
(* calls and returns that nest.  The program's part is ProgramDisciplined,  *)
(* a condition on the addresses its instructions name, of which a run shows *)
(* that compiled code keeps it; the rest is proved of the handlers, for     *)
(* every program.                                                          *)
(***************************************************************************)
EXTENDS Calls, CpuProofs, DecoderProofs

HalfRegisters == RegNum \X {"low", "high"}

\* A store differs from another in some bytes and halves of registers at most.
Touches(st, st2, bytes, halves) ==
  /\ DOMAIN st2.mem \subseteq DOMAIN st.mem \cup bytes
  /\ \A a \in DOMAIN st.mem \ bytes : a \in DOMAIN st2.mem /\ st2.mem[a] = st.mem[a]
  /\ \A h \in HalfRegisters \ halves : Half(st2.regs, h) = Half(st.regs, h)

\* Touching more, nothing, or in two steps.
LEMMA TouchesMore ==
  ASSUME NEW st, NEW st2, NEW m, NEW h, Touches(st, st2, m, h),
         NEW m2, NEW h2, m \subseteq m2, h \subseteq h2
  PROVE  Touches(st, st2, m2, h2)
  BY DEF Touches

LEMMA TouchesNothing == ASSUME NEW st, NEW m, NEW h PROVE Touches(st, st, m, h)
  BY DEF Touches

LEMMA TouchesThen ==
  ASSUME NEW st, NEW st2, NEW st3, NEW m, NEW h,
         Touches(st, st2, m, h), Touches(st2, st3, m, h)
  PROVE  Touches(st, st3, m, h)
<1>1. DOMAIN st3.mem \subseteq DOMAIN st.mem \cup m
  BY DEF Touches
<1>2. \A a \in DOMAIN st.mem \ m : a \in DOMAIN st3.mem /\ st3.mem[a] = st.mem[a]
  BY DEF Touches
<1>3. \A x \in HalfRegisters \ h : Half(st3.regs, x) = Half(st.regs, x)
  BY DEF Touches
<1> QED
  BY <1>1, <1>2, <1>3 DEF Touches

\* Two halves make a word.
LEMMA HalvesOfWord ==
  ASSUME NEW x \in Int, NEW y \in Int
  PROVE  /\ LowByte(Join(LowByte(x), HighByte(y))) = LowByte(x)
         /\ HighByte(Join(LowByte(x), HighByte(y))) = HighByte(y)
<1>1. /\ LowByte(x) \in Int /\ 0 <= LowByte(x) /\ LowByte(x) <= 255
      /\ HighByte(y) \in Int /\ 0 <= HighByte(y) /\ HighByte(y) <= 255
  BY HalvesType, ByteDef
<1>2. ASSUME NEW lo \in Int, 0 <= lo, lo <= 255, NEW hi \in Int, 0 <= hi, hi <= 255
      PROVE  LowByte(Join(lo, hi)) = lo /\ HighByte(Join(lo, hi)) = hi
  BY <1>2 DEF LowByte, HighByte, Join
<1> QED
  BY <1>1, <1>2

\* A store of one or two bytes.
LEMMA WriteTouches ==
  ASSUME NEW s, IsStore(s), NEW ea, NEW w, NEW v
  PROVE  Touches(s, set_memory(s, ea, w, v), Extent(ea, w), {})
<1> DEFINE m == IF w = 1 THEN WriteWord(s.mem, ea, v)
                         ELSE WriteByte(s.mem, ea, LowByte(v))
<1>1. set_memory(s, ea, w, v) = [s EXCEPT !.mem = m]
  BY DEF set_memory, IsStore
<1>2. /\ DOMAIN m \subseteq DOMAIN s.mem \cup Extent(ea, w)
      /\ \A a \in DOMAIN s.mem \ Extent(ea, w) : a \in DOMAIN m /\ m[a] = s.mem[a]
  BY DEF WriteWord, WriteByte, Extent
<1> HIDE DEF m
<1>3. [s EXCEPT !.mem = m].mem = m /\ [s EXCEPT !.mem = m].regs = s.regs
  BY DEF IsStore
<1> QED
  BY <1>1, <1>2, <1>3 DEF Touches

\* An assignment to a register.
LEMMA ExceptTouches ==
  ASSUME NEW s, IsStore(s), NEW r \in RegNum, NEW v \in Word
  PROVE  Touches(s, [s EXCEPT !.regs[r] = v], {}, Halves(r, 1))
<1> DEFINE s2 == [s EXCEPT !.regs[r] = v]
<1>1. s2.mem = s.mem /\ s2.regs = [s.regs EXCEPT ![r] = v]
  BY ExceptRegister
<1> HIDE DEF s2
<1>2. ASSUME NEW h \in HalfRegisters \ Halves(r, 1)
      PROVE  Half(s2.regs, h) = Half(s.regs, h)
  <2>1. h[1] # r /\ h[1] \in RegNum
    BY <1>2 DEF HalfRegisters, Halves
  <2>2. s2.regs[h[1]] = s.regs[h[1]]
    BY <1>1, <2>1 DEF IsStore
  <2> QED
    BY <2>2 DEF Half
<1> QED
  BY <1>1, <1>2 DEF Touches, s2

\* set_registers keeps the other half of a register.
LEMMA SetRegistersTouches ==
  ASSUME NEW s, IsStore(s), NEW r \in RegNum, NEW w, NEW v \in Word
  PROVE  Touches(s, set_registers(s, r, w, v), {}, Halves(r, w))
<1>1. CASE w = 1
  BY <1>1, ExceptTouches DEF set_registers
<1>2. CASE w # 1
  <2> DEFINE q == IF r >= 4 THEN r % 4 ELSE r
             old == s.regs[q]
             new == IF r >= 4 THEN Join(LowByte(old), HighByte(v))
                              ELSE Join(LowByte(v), HighByte(old))
             s2 == [s EXCEPT !.regs[q] = new]
  <2>1. q \in RegNum /\ old \in Word
    BY DEF RegNum, IsStore
  <2>2. set_registers(s, r, w, v) = s2
    BY <1>2 DEF set_registers
  <2>3. Halves(r, w) = IF r >= 4 THEN {<<q, "high">>} ELSE {<<q, "low">>}
    BY <1>2 DEF Halves
  <2> HIDE DEF q
  <2>4. /\ new \in Word
        /\ r >= 4 => LowByte(new) = LowByte(old)
        /\ ~(r >= 4) => HighByte(new) = HighByte(old)
    <3>1. old \in Int /\ v \in Int
      BY <2>1, WordDef
    <3>2. /\ Join(LowByte(old), HighByte(v)) \in Word
          /\ Join(LowByte(v), HighByte(old)) \in Word
      BY <3>1, HalvesType, JoinType
    <3> QED
      BY <3>1, <3>2, HalvesOfWord
  <2> HIDE DEF new
  <2>5. s2.mem = s.mem /\ s2.regs = [s.regs EXCEPT ![q] = new]
    BY <2>1, <2>4, ExceptRegister
  <2> HIDE DEF s2
  <2>6. s2.regs[q] = new /\ \A x \in RegNum : x # q => s2.regs[x] = s.regs[x]
    BY <2>1, <2>5 DEF IsStore
  <2>7. ASSUME NEW h \in HalfRegisters \ Halves(r, w)
        PROVE  Half(s2.regs, h) = Half(s.regs, h)
    <3>1. h[1] \in RegNum /\ h[2] \in {"low", "high"} /\ h = <<h[1], h[2]>>
      BY <2>7 DEF HalfRegisters
    <3>2. CASE h[1] # q
      BY <2>6, <3>1, <3>2 DEF Half
    <3>3. CASE h[1] = q
      <4>1. h[2] = IF r >= 4 THEN "low" ELSE "high"
        BY <2>3, <2>7, <3>1, <3>3
      <4> QED
        BY <2>4, <2>6, <3>3, <4>1 DEF Half
    <3> QED
      BY <3>2, <3>3
  <2> QED
    BY <2>2, <2>5, <2>7 DEF Touches
<1> QED
  BY <1>1, <1>2

\* A result stored in an operand.
LEMMA SetDataTouches ==
  ASSUME NEW s, IsStore(s), NEW o, IsPlace(o), NEW w, NEW v \in Word
  PROVE  Touches(s, set_data(s, o, w, v), PlaceBytes(o, w), PlaceHalves(o, w))
<1>1. ASSUME NEW r \in RegNum, o = RegOperand(r)
      PROVE  Touches(s, set_data(s, o, w, v), PlaceBytes(o, w), PlaceHalves(o, w))
  <2>1. o.type = "reg" /\ o.val = r
    BY <1>1 DEF RegOperand
  <2>2. /\ set_data(s, o, w, v) = set_registers(s, r, w, v)
        /\ PlaceBytes(o, w) = {} /\ PlaceHalves(o, w) = Halves(r, w)
    BY <2>1 DEF set_data, PlaceBytes, PlaceHalves
  <2> QED
    BY <2>2, SetRegistersTouches
<1>2. ASSUME NEW ea \in Word, o = EaOperand(ea)
      PROVE  Touches(s, set_data(s, o, w, v), PlaceBytes(o, w), PlaceHalves(o, w))
  <2>1. o.type = "ea" /\ o.val = ea
    BY <1>2 DEF EaOperand
  <2>2. /\ set_data(s, o, w, v) = set_memory(s, ea, w, v)
        /\ PlaceBytes(o, w) = Extent(ea, w) /\ PlaceHalves(o, w) = {}
    BY <2>1 DEF set_data, PlaceBytes, PlaceHalves
  <2> QED
    BY <2>2, WriteTouches
<1> QED
  BY <1>1, <1>2 DEF IsPlace

\* A push and a pop of a word.
LEMMA PushTouches ==
  ASSUME NEW s, IsStore(s), NEW v
  PROVE  Touches(s, push_stack(s, v, 1), Extent(Wrap(s.regs[SP] - 2), 1), Halves(SP, 1))
<1> DEFINE sp == Wrap(s.regs[SP] - 1 - 1)
           moved == [s EXCEPT !.regs[SP] = sp]
<1>1. push_stack(s, v, 1) = set_memory(moved, sp, 1, v)
  BY DEF push_stack
<1>2. sp \in Word /\ sp = Wrap(s.regs[SP] - 2)
  <2>1. s.regs[SP] \in Int /\ s.regs[SP] - 1 - 1 = s.regs[SP] - 2
    BY StackPointer
  <2> QED
    BY <2>1, WrapType
<1> HIDE DEF sp
<1>3. IsStore(moved) /\ Touches(s, moved, {}, Halves(SP, 1))
  BY <1>2, StackPointer, ExceptRegister, ExceptTouches
<1> HIDE DEF moved
<1>4. Touches(moved, set_memory(moved, sp, 1, v), Extent(sp, 1), {})
  BY <1>3, WriteTouches
<1>5. /\ Touches(s, moved, Extent(sp, 1), Halves(SP, 1))
      /\ Touches(moved, set_memory(moved, sp, 1, v), Extent(sp, 1), Halves(SP, 1))
  BY <1>3, <1>4, TouchesMore
<1> QED
  BY <1>1, <1>2, <1>5, TouchesThen

LEMMA PopTouches ==
  ASSUME NEW s, IsStore(s)
  PROVE  IsStore(PopStore(s)) /\ Touches(s, PopStore(s), {}, Halves(SP, 1))
<1>1. Wrap(s.regs[SP] + 2) \in Word
  BY StackPointer, WrapType
<1> QED
  BY <1>1, StackPointer, PopType, ExceptTouches DEF PopStore

-----------------------------------------------------------------------------
(* What the encoding of the next instruction lets it touch *)

\* The targets, one kind of destination at a time.
LEMMA TargetsInclude ==
  ASSUME Running
  PROVE  /\ Stores(byte1, byte2) => /\ PlaceBytes(RM, W) \subseteq MemoryTargets
                                    /\ PlaceHalves(RM, W) \subseteq RegisterTargets
         /\ Shifts(byte1) => /\ PlaceBytes(ShiftRM, W) \subseteq MemoryTargets
                             /\ PlaceHalves(ShiftRM, W) \subseteq RegisterTargets
         /\ PushesWord(byte1, byte2) => /\ Extent(Wrap(regs[SP] - 2), 1) \subseteq MemoryTargets
                                    /\ Halves(SP, 1) \subseteq RegisterTargets
         /\ byte1 = 205 => /\ Extent(Wrap(regs[BX] + 2), 1) \subseteq MemoryTargets
                           /\ Extent(Wrap(regs[BX] + 18), 1) \subseteq MemoryTargets
         /\ Overran => \A ea \in Junk : Extent(ea, W) \subseteq MemoryTargets
  BY DEF MemoryTargets, OperandTargets, PushTargets, RegisterTargets, When

LEMMA RegisterTargetsInclude ==
  ASSUME Running
  PROVE  /\ Loads(byte1) => Halves(Reg(byte2), W) \subseteq RegisterTargets
         /\ PopsWord(byte1) => Halves(SP, 1) \subseteq RegisterTargets
         /\ InOpcode(byte1) => Halves(Reg1, 1) \subseteq RegisterTargets
         /\ byte1 \in 176 .. 191 => Halves(Reg1, (byte1 \div 8) % 2) \subseteq RegisterTargets
         /\ byte1 < 56 /\ byte1 % 8 \in {4, 5} => Halves(AX, W) \subseteq RegisterTargets
         /\ byte1 \in (144 .. 151) \cup {152, 205} => Halves(AX, 1) \subseteq RegisterTargets
         /\ byte1 = 153 => Halves(DX, 1) \subseteq RegisterTargets
         /\ Divides(byte1, byte2) => /\ Halves(AX, 1) \subseteq RegisterTargets
                                     /\ W = 1 => Halves(DX, 1) \subseteq RegisterTargets
  BY DEF RegisterTargets, When

\* A turn that leaves a store which touches only the targets.
LEMMA TargetsKept ==
  ASSUME NEW st2, Touches(Store, st2, MemoryTargets, RegisterTargets),
         regs' = st2.regs, mem' = st2.mem
  PROVE  MemoryKept /\ RegistersKept
<1>1. Store.regs = regs /\ Store.mem = mem
  BY DEF Store
<1>2. MemoryKept
  BY <1>1 DEF Touches, MemoryKept
<1>3. RegistersKept
  BY <1>1 DEF Touches, RegistersKept, HalfRegisters
<1> QED
  BY <1>2, <1>3

\* A turn that moves no data.
LEMMA NothingMoved ==
  ASSUME NEW pc, NEW f, NEW how, NEW n, Retire(pc, Store, f) \/ Halt(how, n)
  PROVE  MemoryKept /\ RegistersKept
<1>1. regs' = Store.regs /\ mem' = Store.mem
  BY DEF Retire, Halt, Store
<1> QED
  BY <1>1, TouchesNothing, TargetsKept

\* A turn that stores a result in an operand its encoding names.
LEMMA ResultKept ==
  ASSUME TypeOK, NEW o, IsPlace(o), NEW v \in Word,
         PlaceBytes(o, W) \subseteq MemoryTargets,
         PlaceHalves(o, W) \subseteq RegisterTargets,
         NEW pc, NEW f, Retire(pc, set_data(Store, o, W, v), f)
  PROVE  MemoryKept /\ RegistersKept
<1> DEFINE st2 == set_data(Store, o, W, v)
<1>1. Touches(Store, st2, PlaceBytes(o, W), PlaceHalves(o, W))
  BY StoreType, SetDataTouches
<1>2. regs' = st2.regs /\ mem' = st2.mem
  BY DEF Retire
<1> HIDE DEF st2
<1>3. Touches(Store, st2, MemoryTargets, RegisterTargets)
  BY <1>1, TouchesMore
<1> QED
  BY <1>2, <1>3, TargetsKept

\* A turn that assigns a register its encoding names.
LEMMA RegisterKept ==
  ASSUME TypeOK, NEW r \in RegNum, NEW w, NEW v \in Word,
         Halves(r, w) \subseteq RegisterTargets,
         NEW pc, NEW f, Retire(pc, set_registers(Store, r, w, v), f)
  PROVE  MemoryKept /\ RegistersKept
<1> DEFINE st2 == set_registers(Store, r, w, v)
<1>1. Touches(Store, st2, {}, Halves(r, w))
  BY StoreType, SetRegistersTouches
<1>2. regs' = st2.regs /\ mem' = st2.mem
  BY DEF Retire
<1> HIDE DEF st2
<1>3. Touches(Store, st2, MemoryTargets, RegisterTargets)
  BY <1>1, TouchesMore
<1> QED
  BY <1>2, <1>3, TargetsKept

-----------------------------------------------------------------------------
(* The handlers, group by group *)

\* The bytes a handler is given.
LEMMA Fetched ==
  ASSUME TypeOK, NEW n, n # "none", Fetch(n)
  PROVE  Running /\ HandlerBytes(n, byte1, Reg(byte2))
<1>1. byte1 \in Byte /\ Reg(byte2) \in AnyFlag
  BY BytesType DEF RegNum, AnyFlag
<1>2. Running /\ Handler[byte1][Reg(byte2)] = n
  BY DEF Fetch
<1> QED
  BY <1>1, <1>2, HandlerEncoding

\* op_dw: d says which of the operands is the destination.
LEMMA DwDestination ==
  ASSUME TypeOK,
         NEW n \in {"mov_0", "add_0", "sub_0", "and_0", "or_0", "xor_0"}, Fetch(n)
  PROVE  /\ IsPlace(MrrLeft(D))
         /\ PlaceBytes(MrrLeft(D), W) \subseteq MemoryTargets
         /\ PlaceHalves(MrrLeft(D), W) \subseteq RegisterTargets
<1>1. Running /\ DwBytes(n, byte1, Reg(byte2))
  <2>1. Running /\ HandlerBytes(n, byte1, Reg(byte2))
    BY Fetched
  <2> QED
    BY <2>1 DEF HandlerBytes, SwBytes, WBytes, RegBytes, OthersBytes
<1>2. byte1 \in 0 .. 3 \/ byte1 \in 8 .. 11 \/ byte1 \in 32 .. 35
      \/ byte1 \in 40 .. 43 \/ byte1 \in 48 .. 51 \/ byte1 \in 136 .. 139
  BY <1>1 DEF DwBytes
<1>3. CASE D = 1
  <2>1. Loads(byte1)
    BY <1>2, <1>3 DEF D, FieldD, Loads
  <2>2. Halves(Reg(byte2), W) \subseteq RegisterTargets
    BY <1>1, <2>1, RegisterTargetsInclude
  <2>3. MrrLeft(D) = RegOperand(Reg(byte2))
    BY <1>3 DEF MrrLeft
  <2>4. /\ PlaceBytes(RegOperand(Reg(byte2)), W) = {}
        /\ PlaceHalves(RegOperand(Reg(byte2)), W) = Halves(Reg(byte2), W)
    BY DEF PlaceBytes, PlaceHalves, RegOperand
  <2> QED
    BY <2>2, <2>3, <2>4, OperandType
<1>4. CASE D # 1
  <2>1. Stores(byte1, byte2)
    BY <1>2, <1>4, BytesType DEF D, FieldD, Stores
  <2>2. MrrLeft(D) = RM
    BY <1>4 DEF MrrLeft
  <2> QED
    BY <1>1, <2>1, <2>2, TargetsInclude, OperandType
<1> QED
  BY <1>3, <1>4

LEMMA DwFootprint ==
  ASSUME TypeOK, \/ op_mov_0 \/ op_add_0 \/ op_sub_0 \/ op_cmp_0
                 \/ op_and_0 \/ op_or_0 \/ op_xor_0
  PROVE  MemoryKept /\ RegistersKept
<1>1. DwLeft \in Word /\ DwRight \in Word
  BY StoreType, OperandType, PlaceType, WordDef DEF DwLeft, DwRight
<1>2. ASSUME NEW n \in {"mov_0", "add_0", "sub_0", "and_0", "or_0", "xor_0"}, Fetch(n),
             NEW res \in Word, NEW f, DwRetire(res, f)
      PROVE  MemoryKept /\ RegistersKept
  BY <1>2, DwDestination, ResultKept DEF DwRetire
<1>3. CASE op_mov_0
  BY <1>1, <1>2, <1>3 DEF op_mov_0, DwRetire, DwRight
<1>4. CASE op_add_0
  BY <1>1, <1>2, <1>4, SumType DEF op_add_0
<1>5. CASE op_sub_0
  BY <1>1, <1>2, <1>5, SumType DEF op_sub_0
<1>6. CASE op_cmp_0
  BY <1>6, NothingMoved DEF op_cmp_0
<1>7. CASE op_and_0
  BY <1>1, <1>2, <1>7, BitwiseType DEF op_and_0
<1>8. CASE op_or_0
  BY <1>1, <1>2, <1>8, BitwiseType DEF op_or_0
<1>9. CASE op_xor_0
  BY <1>1, <1>2, <1>9, BitwiseType DEF op_xor_0
<1> QED
  BY <1>3, <1>4, <1>5, <1>6, <1>7, <1>8, <1>9

\* The handlers that store in their register or memory operand.
LEMMA RmDestination ==
  ASSUME TypeOK,
         NEW n \in {"add_1", "sub_1", "mov_1", "and_1", "or_1", "xor_1",
                    "inc_0", "dec_0", "neg", "xchg_0", "pop_0"},
         Fetch(n)
  PROVE  /\ IsPlace(RM)
         /\ PlaceBytes(RM, W) \subseteq MemoryTargets
         /\ PlaceHalves(RM, W) \subseteq RegisterTargets
<1>1. Running /\ HandlerBytes(n, byte1, Reg(byte2))
  BY Fetched
<1>2. SwBytes(n, byte1, Reg(byte2)) \/ WBytes(n, byte1, Reg(byte2))
  BY <1>1 DEF HandlerBytes, DwBytes, RegBytes, OthersBytes
<1>3. CASE SwBytes(n, byte1, Reg(byte2))
  <2>1. byte1 \in 128 .. 131 /\ Reg(byte2) # 7
    BY <1>3 DEF SwBytes
  <2>2. Stores(byte1, byte2)
    BY <2>1 DEF Stores
  <2> QED
    BY <1>1, <2>2, TargetsInclude, OperandType
<1>4. CASE WBytes(n, byte1, Reg(byte2))
  <2>1. \/ byte1 \in 128 .. 129 /\ Reg(byte2) # 7
        \/ byte1 \in {134, 135, 143, 198, 199}
        \/ byte1 \in {246, 247} /\ Reg(byte2) = 3
        \/ byte1 \in {254, 255} /\ Reg(byte2) \in {0, 1}
    BY <1>4 DEF WBytes
  <2>2. Stores(byte1, byte2)
    BY <2>1 DEF Stores
  <2> QED
    BY <1>1, <2>2, TargetsInclude, OperandType
<1> QED
  BY <1>2, <1>3, <1>4

\* op_sw.
LEMMA SwFootprint ==
  ASSUME TypeOK, op_add_1 \/ op_sub_1 \/ op_cmp_1
  PROVE  MemoryKept /\ RegistersKept
<1>1. RmData \in Word /\ Immediate(D) \in Word
  BY BytesType, StoreType, OperandType, PlaceType, ImmediateType, WordDef DEF RmData
<1>2. ASSUME NEW n \in {"add_1", "sub_1"}, Fetch(n), NEW res \in Word, NEW f,
             Retire(EndImm(D), set_data(Store, RM, W, res), f)
      PROVE  MemoryKept /\ RegistersKept
  BY <1>2, RmDestination, ResultKept
<1>3. CASE op_add_1
  <2>1. CASE Retire(EndImm(D), set_data(Store, RM, W, Add(RmData, Immediate(D))),
                    AddImmFlags(RM.type = "ea", RmData, Immediate(D), W))
    BY <2>1, <1>1, <1>2, <1>3, SumType DEF op_add_1
  <2>2. ASSUME NEW ea \in Junk, NEW imm \in Junk, Overrun,
               Retire(EndImm(D),
                      set_memory(Store, ea, W, Add(get_memory(Store, ea, W), imm)),
                      AddImmFlags(TRUE, get_memory(Store, ea, W), imm, W))
        PROVE  MemoryKept /\ RegistersKept
    <3> DEFINE st2 == set_memory(Store, ea, W, Add(get_memory(Store, ea, W), imm))
    <3>1. Touches(Store, st2, Extent(ea, W), {})
      BY StoreType, WriteTouches
    <3>2. regs' = st2.regs /\ mem' = st2.mem
      BY <2>2 DEF Retire
    <3> HIDE DEF st2
    <3>3. Running /\ HandlerBytes("add_1", byte1, Reg(byte2))
      BY <1>3, Fetched DEF op_add_1
    <3>4. byte1 \in 128 .. 131 /\ Reg(byte2) = 0
      BY <3>3 DEF HandlerBytes, DwBytes, SwBytes, WBytes, RegBytes, OthersBytes
    <3>5. Extent(ea, W) \subseteq MemoryTargets
      BY <2>2, <3>3, <3>4, TargetsInclude DEF Overran
    <3>6. Touches(Store, st2, MemoryTargets, RegisterTargets)
      BY <3>1, <3>5, TouchesMore
    <3> QED
      BY <3>2, <3>6, TargetsKept
  <2> QED
    BY <1>3, <2>1, <2>2 DEF op_add_1
<1>4. CASE op_sub_1
  BY <1>1, <1>2, <1>4, SumType, NothingMoved DEF op_sub_1
<1>5. CASE op_cmp_1
  BY <1>5, NothingMoved DEF op_cmp_1
<1> QED
  BY <1>3, <1>4, <1>5

\* op_w.
LEMMA WFootprint ==
  ASSUME TypeOK,
         \/ op_mov_1 \/ op_and_1 \/ op_or_1 \/ op_xor_1 \/ op_test_1 \/ op_test_0
         \/ op_inc_0 \/ op_dec_0 \/ op_neg \/ op_cmp_2
  PROVE  MemoryKept /\ RegistersKept
<1>1. RmData \in Word /\ Immediate(0) \in Word
  BY StoreType, OperandType, PlaceType, ImmediateType, WordDef DEF RmData
<1>2. ASSUME NEW n \in {"mov_1", "and_1", "or_1", "xor_1", "inc_0", "dec_0", "neg"},
             Fetch(n), NEW pc, NEW res \in Word, NEW f,
             Retire(pc, set_data(Store, RM, W, res), f)
      PROVE  MemoryKept /\ RegistersKept
  BY <1>2, RmDestination, ResultKept
<1>3. /\ Wrap(RmData + 1) \in Word /\ Wrap(RmData - 1) \in Word
      /\ Wrap(-RmData) \in Word
  BY <1>1, WordDef, WrapType
<1>4. CASE op_mov_1
  BY <1>1, <1>2, <1>4 DEF op_mov_1, ImmRetire
<1>5. CASE op_and_1
  BY <1>1, <1>2, <1>5, BitwiseType DEF op_and_1, ImmRetire
<1>6. CASE op_or_1
  BY <1>1, <1>2, <1>6, BitwiseType DEF op_or_1, ImmRetire
<1>7. CASE op_xor_1
  BY <1>1, <1>2, <1>7, BitwiseType DEF op_xor_1, ImmRetire
<1>8. CASE op_test_1 \/ op_test_0 \/ op_cmp_2
  BY <1>8, NothingMoved DEF op_test_1, op_test_0, op_cmp_2
<1>9. CASE op_inc_0
  BY <1>2, <1>3, <1>9 DEF op_inc_0
<1>10. CASE op_dec_0
  BY <1>2, <1>3, <1>10 DEF op_dec_0
<1>11. CASE op_neg
  BY <1>2, <1>3, <1>11 DEF op_neg
<1> QED
  BY <1>4, <1>5, <1>6, <1>7, <1>8, <1>9, <1>10, <1>11

\* An exchange stores in both its operands.
LEMMA XchgFootprint == ASSUME TypeOK, op_xchg_0 PROVE MemoryKept /\ RegistersKept
<1> DEFINE other == RegOperand(Reg(byte2))
           moved == set_data(Store, RM, W, get_data(Store, other, W))
           st2   == set_data(moved, other, W, RmData)
<1>1. RmData \in Word /\ get_data(Store, other, W) \in Word /\ IsPlace(other) /\ IsPlace(RM)
  BY StoreType, OperandType, PlaceType, WordDef DEF RmData
<1>2. /\ PlaceBytes(RM, W) \subseteq MemoryTargets
      /\ PlaceHalves(RM, W) \subseteq RegisterTargets
  BY RmDestination DEF op_xchg_0
<1>3. PlaceBytes(other, W) = {} /\ PlaceHalves(other, W) \subseteq RegisterTargets
  <2>1. Running /\ HandlerBytes("xchg_0", byte1, Reg(byte2))
    BY Fetched DEF op_xchg_0
  <2>2. byte1 \in {134, 135}
    BY <2>1 DEF HandlerBytes, DwBytes, SwBytes, WBytes, RegBytes, OthersBytes
  <2>3. Halves(Reg(byte2), W) \subseteq RegisterTargets
    BY <2>1, <2>2, RegisterTargetsInclude DEF Loads
  <2> QED
    BY <2>3 DEF PlaceBytes, PlaceHalves, RegOperand
<1>4. regs' = st2.regs /\ mem' = st2.mem
  BY DEF op_xchg_0, Retire
<1> HIDE DEF other
<1>5. IsStore(moved) /\ Touches(Store, moved, PlaceBytes(RM, W), PlaceHalves(RM, W))
  BY <1>1, StoreType, PlaceType, SetDataTouches
<1> HIDE DEF moved
<1>6. Touches(moved, st2, PlaceBytes(other, W), PlaceHalves(other, W))
  BY <1>1, <1>5, SetDataTouches
<1> HIDE DEF st2
<1>7. /\ Touches(Store, moved, MemoryTargets, RegisterTargets)
      /\ Touches(moved, st2, MemoryTargets, RegisterTargets)
  BY <1>2, <1>3, <1>5, <1>6, TouchesMore
<1> QED
  BY <1>4, <1>7, TouchesThen, TargetsKept

\* Two assignments to registers the encoding names.
LEMMA TwoRegistersKept ==
  ASSUME TypeOK, NEW r1 \in RegNum, NEW w1, NEW v1 \in Word,
         NEW r2 \in RegNum, NEW w2, NEW v2 \in Word,
         Halves(r1, w1) \subseteq RegisterTargets, Halves(r2, w2) \subseteq RegisterTargets,
         NEW pc, NEW f,
         Retire(pc, set_registers(set_registers(Store, r1, w1, v1), r2, w2, v2), f)
  PROVE  MemoryKept /\ RegistersKept
<1> DEFINE st1 == set_registers(Store, r1, w1, v1)
           st2 == set_registers(st1, r2, w2, v2)
<1>1. regs' = st2.regs /\ mem' = st2.mem
  BY DEF Retire
<1>2. IsStore(st1) /\ Touches(Store, st1, {}, Halves(r1, w1))
  BY StoreType, SetRegistersType, SetRegistersTouches
<1> HIDE DEF st1
<1>3. Touches(st1, st2, {}, Halves(r2, w2))
  BY <1>2, SetRegistersTouches
<1> HIDE DEF st2
<1>4. /\ Touches(Store, st1, MemoryTargets, RegisterTargets)
      /\ Touches(st1, st2, MemoryTargets, RegisterTargets)
  BY <1>2, <1>3, TouchesMore
<1> QED
  BY <1>1, <1>4, TouchesThen, TargetsKept

\* A division leaves AX, and DX if it is one of a long.
LEMMA DivFootprint == ASSUME TypeOK, op_div PROVE MemoryKept /\ RegistersKept
<1>1. AX \in RegNum /\ DX \in RegNum /\ SP \in RegNum
  BY DEF AX, DX, SP, RegNum
<1>2. RmData \in Word /\ regs[AX] \in Word /\ regs[DX] \in Word
  <2>1. RmData \in Word
    BY StoreType, OperandType, PlaceType, WordDef DEF RmData
  <2> QED
    BY <1>1, <2>1 DEF TypeOK
<1>3. /\ Halves(AX, 1) \subseteq RegisterTargets
      /\ W = 1 => Halves(DX, 1) \subseteq RegisterTargets
  <2>1. Running /\ HandlerBytes("div", byte1, Reg(byte2))
    BY Fetched DEF op_div
  <2>2. Divides(byte1, byte2)
    BY <2>1 DEF HandlerBytes, DwBytes, SwBytes, WBytes, RegBytes, OthersBytes, Divides
  <2> QED
    BY <2>1, <2>2, RegisterTargetsInclude
<1>4. Halves(AX, 0) \subseteq Halves(AX, 1) /\ Halves(SP, 0) \subseteq Halves(AX, 1)
  BY DEF Halves, AX, SP
<1>5. CASE Skip(EndRM) \/ Halt("exit", 0)
  BY <1>5, NothingMoved DEF Skip
<1>6. ASSUME NEW q \in Word, NEW r \in Word, W = 1,
             Retire(EndRM, [Store EXCEPT !.regs = [@ EXCEPT ![AX] = q, ![DX] = r]], flags)
      PROVE  MemoryKept /\ RegistersKept
  <2>1. [Store EXCEPT !.regs = [@ EXCEPT ![AX] = q, ![DX] = r]]
          = set_registers(set_registers(Store, AX, 1, q), DX, 1, r)
    BY DEF Store, set_registers
  <2> QED
    BY <2>1, <1>1, <1>3, <1>6, TwoRegistersKept
<1>7. ASSUME NEW q \in Word, NEW r \in Word,
             Retire(EndRM, set_registers(set_registers(Store, AX, 0, q), SP, 0, r), flags)
      PROVE  MemoryKept /\ RegistersKept
  <2>1. /\ Halves(AX, 0) \subseteq RegisterTargets
        /\ Halves(SP, 0) \subseteq RegisterTargets
    BY <1>3, <1>4
  <2> QED
    BY <2>1, <1>1, <1>7, TwoRegistersKept
<1>8. ASSUME RmData # 0
      PROVE  /\ DivLong(regs[DX], regs[AX], RmData).q \in Word
             /\ DivLong(regs[DX], regs[AX], RmData).r \in Word
             /\ LowByte(regs[AX] \div RmData) \in Word
             /\ LowByte(regs[AX] % RmData) \in Word
  <2>1. RmData \in Nat /\ RmData > 0 /\ regs[AX] \in Int
    BY <1>2, <1>8, WordDef
  <2>2. regs[AX] \div RmData \in Int /\ regs[AX] % RmData \in Int
    BY <2>1, DivisionType
  <2> QED
    BY <2>2, <1>2, <1>8, DivLongType, HalvesType, ByteIsWord
<1> QED
  BY <1>5, <1>6, <1>7, <1>8 DEF op_div

\* instructs_reg_only and the computations of op_others.
LEMMA RegFootprint ==
  ASSUME TypeOK,
         \/ op_xchg_1 \/ op_inc_1 \/ op_dec_1 \/ op_lea \/ op_mov_2
         \/ op_cbw \/ op_cwd \/ op_sub_2
  PROVE  MemoryKept /\ RegistersKept
<1>1. AX \in RegNum /\ DX \in RegNum /\ Reg1 \in RegNum /\ Reg(byte2) \in RegNum
  BY BytesType DEF AX, DX, RegNum
<1>2. regs[AX] \in Word /\ regs[Reg1] \in Word
  BY <1>1 DEF TypeOK
<1>3. Wrap(regs[Reg1] + 1) \in Word /\ Wrap(regs[Reg1] - 1) \in Word
  BY <1>2, WordDef, WrapType
<1>4. CASE op_xchg_1 \/ op_inc_1 \/ op_dec_1
  <2>1. PICK n \in {"xchg_1", "inc_1", "dec_1"} : Fetch(n) /\ (op_xchg_1 => n = "xchg_1")
    BY <1>4 DEF op_xchg_1, op_inc_1, op_dec_1
  <2>2. Running /\ HandlerBytes(n, byte1, Reg(byte2))
    BY <2>1, Fetched
  <2>3. RegBytes(n, byte1, Reg(byte2))
    BY <2>2 DEF HandlerBytes, DwBytes, SwBytes, WBytes, OthersBytes
  <2>4. InOpcode(byte1) /\ (op_xchg_1 => byte1 \in 144 .. 151)
    BY <2>1, <2>3 DEF RegBytes, InOpcode
  <2>5. /\ Halves(Reg1, 1) \subseteq RegisterTargets
        /\ op_xchg_1 => Halves(AX, 1) \subseteq RegisterTargets
    BY <2>2, <2>4, RegisterTargetsInclude
  <2>6. CASE op_xchg_1
    BY <2>5, <2>6, <1>1, <1>2, TwoRegistersKept DEF op_xchg_1, SetReg1
  <2>7. CASE op_inc_1 \/ op_dec_1
    BY <2>5, <2>7, <1>1, <1>3, RegisterKept DEF op_inc_1, op_dec_1, SetReg1
  <2> QED
    BY <1>4, <2>6, <2>7
<1>5. CASE op_lea
  <2>1. CASE RM.type = "ea"
    <3>1. RM.val \in Word
      BY <2>1, OperandType DEF IsPlace, RegOperand, EaOperand
    <3>2. Running /\ HandlerBytes("lea", byte1, Reg(byte2))
      BY <1>5, Fetched DEF op_lea
    <3>3. byte1 = 141
      BY <3>2 DEF HandlerBytes, DwBytes, SwBytes, WBytes, RegBytes, OthersBytes
    <3>4. Halves(Reg(byte2), 1) \subseteq RegisterTargets
      <4>1. Halves(Reg(byte2), W) \subseteq RegisterTargets /\ W = 1
        BY <3>2, <3>3, RegisterTargetsInclude DEF Loads, W, FieldW
      <4> QED
        BY <4>1
    <3> QED
      BY <2>1, <3>1, <3>4, <1>1, <1>5, RegisterKept DEF op_lea
  <2>2. CASE RM.type # "ea"
    BY <2>2, <1>5, NothingMoved DEF op_lea
  <2> QED
    BY <2>1, <2>2
<1>6. CASE op_mov_2
  <2>1. PC \in Nat /\ PC + 1 \in Nat
    BY WordDef DEF TypeOK
  <2>2. TextWord(PC + 1) \in Word /\ byte2 \in Word
    BY <2>1, TextType, BytesType, ByteIsWord
  <2> DEFINE w    == (byte1 \div 8) % 2
             data == IF w = 1 THEN TextWord(PC + 1) ELSE byte2
  <2>3. data \in Word
    BY <2>2
  <2>4. Retire(Wrap(PC + 2 + w), set_registers(Store, Reg1, w, data), flags)
    BY <1>6 DEF op_mov_2
  <2>5. Halves(Reg1, w) \subseteq RegisterTargets
    <3>1. Running /\ HandlerBytes("mov_2", byte1, Reg(byte2))
      BY <1>6, Fetched DEF op_mov_2
    <3>2. byte1 \in 176 .. 191
      BY <3>1 DEF HandlerBytes, DwBytes, SwBytes, WBytes, RegBytes, OthersBytes
    <3> QED
      BY <3>1, <3>2, RegisterTargetsInclude
  <2> HIDE DEF w, data
  <2> QED
    BY <2>3, <2>4, <2>5, <1>1, RegisterKept
<1>7. CASE op_cbw \/ op_cwd
  <2>1. /\ SignExtend16(regs[AX]) \in Word
        /\ (IF IsNeg16(regs[AX]) THEN 65535 ELSE 0) \in Word
    BY <1>2, WordDef, SignExtendType
  <2>2. PICK n \in {"cbw", "cwd"} : /\ Fetch(n) /\ (op_cbw => n = "cbw") /\ (op_cwd => n = "cwd")
    BY <1>7 DEF op_cbw, op_cwd, Fetch
  <2>3. Running /\ HandlerBytes(n, byte1, Reg(byte2))
    BY <2>2, Fetched
  <2>4. (op_cbw => byte1 = 152) /\ (op_cwd => byte1 = 153)
    BY <2>2, <2>3 DEF HandlerBytes, DwBytes, SwBytes, WBytes, RegBytes, OthersBytes
  <2>5. /\ op_cbw => Halves(AX, 1) \subseteq RegisterTargets
        /\ op_cwd => Halves(DX, 1) \subseteq RegisterTargets
    BY <2>3, <2>4, RegisterTargetsInclude
  <2> QED
    BY <2>1, <2>5, <1>1, <1>7, RegisterKept DEF op_cbw, op_cwd
<1>8. CASE op_sub_2
  <2> DEFINE l == get_registers(Store, AX, W)
  <2>1. l \in Word /\ AccImm \in Word
    BY <1>1, StoreType, GetRegistersType, ImmediateType
  <2>2. Sub(l, AccImm) \in Word
    BY <2>1, SumType
  <2>3. Running /\ HandlerBytes("sub_2", byte1, Reg(byte2))
    BY <1>8, Fetched DEF op_sub_2
  <2>4. byte1 \in 44 .. 45
    BY <2>3 DEF HandlerBytes, DwBytes, SwBytes, WBytes, RegBytes, OthersBytes
  <2>5. byte1 < 56 /\ byte1 % 8 \in {4, 5}
    BY <2>4
  <2>6. Halves(AX, W) \subseteq RegisterTargets
    BY <2>3, <2>5, RegisterTargetsInclude
  <2> QED
    BY <2>2, <2>6, <1>1, <1>8, RegisterKept DEF op_sub_2
<1> QED
  BY <1>4, <1>5, <1>6, <1>7, <1>8

\* op_logic: the operand is the one a byte too early.
LEMMA LogicFootprint ==
  ASSUME TypeOK, op_shl \/ op_sar \/ op_rotate
  PROVE  MemoryKept /\ RegistersKept
<1>1. ShiftData \in Word
  BY StoreType, OperandType, PlaceType, WordDef DEF ShiftData
<1>2. ShiftCount \in Byte
  <2>1. regs[CX] \in Int
    BY WordDef DEF TypeOK, CX, RegNum
  <2>2. LowByte(regs[CX]) \in Byte /\ 1 \in Byte
    BY <2>1, HalvesType, ByteDef
  <2> QED
    BY <2>2 DEF ShiftCount
<1>3. flags \in Flags
  BY DEF TypeOK
<1>4. /\ PlaceBytes(ShiftRM, W) \subseteq MemoryTargets
      /\ PlaceHalves(ShiftRM, W) \subseteq RegisterTargets
  <2>1. PICK n \in {"shl", "sar", "rotate"} : Fetch(n)
    BY DEF op_shl, op_sar, op_rotate
  <2>2. Running /\ HandlerBytes(n, byte1, Reg(byte2))
    BY <2>1, Fetched
  <2>3. byte1 \in 208 .. 211
    BY <2>2 DEF HandlerBytes, DwBytes, SwBytes, WBytes, RegBytes, OthersBytes
  <2> QED
    BY <2>2, <2>3, TargetsInclude DEF Shifts
<1>5. ASSUME NEW res \in Word, NEW f, ShiftRetire(res, f) PROVE MemoryKept /\ RegistersKept
  BY <1>4, <1>5, OperandType, ResultKept DEF ShiftRetire
<1>6. CASE op_shl \/ op_sar
  BY <1>1, <1>2, <1>3, <1>5, <1>6, ShiftType DEF op_shl, op_sar
<1>7. CASE op_rotate
  BY <1>5, <1>7, JunkAssumption DEF op_rotate
<1> QED
  BY <1>6, <1>7

\* A turn that pushes a word its encoding pushes.
LEMMA PushKept ==
  ASSUME TypeOK, Running, PushesWord(byte1, byte2),
         NEW v, NEW pc, NEW f, Retire(pc, push_stack(Store, v, 1), f)
  PROVE  MemoryKept /\ RegistersKept
<1> DEFINE st2 == push_stack(Store, v, 1)
<1>1. Touches(Store, st2, Extent(Wrap(regs[SP] - 2), 1), Halves(SP, 1))
  <2>1. Store.regs = regs
    BY DEF Store
  <2> QED
    BY <2>1, StoreType, PushTouches
<1>2. regs' = st2.regs /\ mem' = st2.mem
  BY DEF Retire
<1> HIDE DEF st2
<1>3. Touches(Store, st2, MemoryTargets, RegisterTargets)
  BY <1>1, TargetsInclude, TouchesMore
<1> QED
  BY <1>2, <1>3, TargetsKept

\* op_call_0 is only reached by its own opcode: what op_logic leaves to op_pc
\* is no call.
LEMMA CallEncoding ==
  ASSUME TypeOK, op_call_0, PC < UINT16_MAX
  PROVE  Running /\ PcEntry = PC /\ byte1 = 232
<1>1. byte1 \in Byte /\ byte2 \in Byte /\ Reg(byte2) \in AnyFlag /\ PC \in Int
  BY BytesType, WordDef DEF RegNum, AnyFlag, TypeOK
<1>2. /\ Running /\ Handler[byte1][Reg(byte2)] \in {"none", "logic_6"}
      /\ PcHandler[Text(PcEntry)] = "call_0"
  BY DEF op_call_0, FetchPc
<1>3. PcEntry = PC
  <2>1. SUFFICES ASSUME Handler[byte1][Reg(byte2)] = "logic_6" PROVE FALSE
    BY <1>2 DEF PcEntry
  <2>2. HandlerBytes("logic_6", byte1, Reg(byte2))
    BY <1>1, <2>1, HandlerEncoding
  <2>3. Reg(byte2) = 6
    BY <2>2 DEF HandlerBytes, DwBytes, SwBytes, WBytes, RegBytes, OthersBytes
  <2>4. 0 <= PC + 1 /\ PC + 1 <= 65535
    BY <1>1, WordDef DEF TypeOK, UINT16_MAX
  <2>5. Text(PcEntry) = byte2
    <3>1. Wrap(PC + 1) = PC + 1
      BY <1>1, <2>4 DEF Wrap
    <3> QED
      BY <2>1, <3>1 DEF PcEntry, byte2
  <2>6. byte2 = 232
    BY <1>1, <1>2, <2>5, PcEncoding DEF PcBytes
  <2> QED
    BY <2>3, <2>6 DEF Reg
<1>4. byte1 = 232
  BY <1>1, <1>2, <1>3, PcEncoding DEF PcBytes, byte1
<1> QED
  BY <1>2, <1>3, <1>4

\* The stack instructions and the transfers of control.
LEMMA ControlFootprint ==
  ASSUME TypeOK,
         \/ op_push_0 \/ op_pop_0 \/ op_push_1 \/ op_pop_1 \/ op_push_2
         \/ op_call_1 \/ op_jmp_2 \/ op_ret \/ op_jmp \/ op_cond_jmp
  PROVE  MemoryKept /\ RegistersKept
<1>1. CASE op_push_0 \/ op_push_1
  <2>1. PICK n \in {"push_0", "push_1"} : Fetch(n)
    BY <1>1 DEF op_push_0, op_push_1
  <2>2. Running /\ HandlerBytes(n, byte1, Reg(byte2))
    BY <2>1, Fetched
  <2>3. byte1 \in 80 .. 87 \/ (byte1 = 255 /\ Reg(byte2) = 6)
    BY <2>2 DEF HandlerBytes, DwBytes, SwBytes, WBytes, RegBytes, OthersBytes
  <2>4. PushesWord(byte1, byte2)
    BY <2>3 DEF PushesWord
  <2> QED
    BY <1>1, <2>2, <2>4, PushKept DEF op_push_0, op_push_1
<1>2. CASE op_call_1
  <2>1. Running /\ HandlerBytes("call_1", byte1, Reg(byte2))
    BY <1>2, Fetched DEF op_call_1
  <2>2. byte1 = 255 /\ Reg(byte2) = 2
    BY <2>1 DEF HandlerBytes, DwBytes, SwBytes, WBytes, RegBytes, OthersBytes
  <2>3. PushesWord(byte1, byte2)
    BY <2>2 DEF PushesWord
  <2> QED
    BY <1>2, <2>1, <2>3, PushKept, NothingMoved DEF op_call_1, Skip
<1>3. CASE op_pop_0
  <2> DEFINE st1 == PopStore(Store)
             st2 == set_data(st1, RM, 1, PopValue(Store))
  <2>1. Running /\ HandlerBytes("pop_0", byte1, Reg(byte2))
    BY <1>3, Fetched DEF op_pop_0
  <2>2. byte1 = 143
    BY <2>1 DEF HandlerBytes, DwBytes, SwBytes, WBytes, RegBytes, OthersBytes
  <2>3. W = 1 /\ PopsWord(byte1)
    BY <2>2 DEF W, FieldW, PopsWord
  <2>4. /\ IsPlace(RM) /\ PlaceBytes(RM, 1) \subseteq MemoryTargets
        /\ PlaceHalves(RM, 1) \subseteq RegisterTargets
        /\ Halves(SP, 1) \subseteq RegisterTargets
    BY <1>3, <2>1, <2>3, RmDestination, RegisterTargetsInclude DEF op_pop_0
  <2>5. regs' = st2.regs /\ mem' = st2.mem
    BY <1>3 DEF op_pop_0, Retire
  <2>6. IsStore(st1) /\ Touches(Store, st1, {}, Halves(SP, 1)) /\ PopValue(Store) \in Word
    BY StoreType, PopType, PopTouches
  <2> HIDE DEF st1
  <2>7. Touches(st1, st2, PlaceBytes(RM, 1), PlaceHalves(RM, 1))
    BY <2>4, <2>6, SetDataTouches
  <2> HIDE DEF st2
  <2>8. /\ Touches(Store, st1, MemoryTargets, RegisterTargets)
        /\ Touches(st1, st2, MemoryTargets, RegisterTargets)
    BY <2>4, <2>6, <2>7, TouchesMore
  <2> QED
    BY <2>5, <2>8, TouchesThen, TargetsKept
<1>4. CASE op_pop_1
  <2> DEFINE st1 == PopStore(Store)
             st2 == set_registers(st1, Reg1, 1, PopValue(Store))
  <2>1. Running /\ HandlerBytes("pop_1", byte1, Reg(byte2))
    BY <1>4, Fetched DEF op_pop_1
  <2>2. byte1 \in 88 .. 95
    BY <2>1 DEF HandlerBytes, DwBytes, SwBytes, WBytes, RegBytes, OthersBytes
  <2>3. InOpcode(byte1) /\ PopsWord(byte1)
    BY <2>2 DEF InOpcode, PopsWord
  <2>4. /\ Halves(Reg1, 1) \subseteq RegisterTargets
        /\ Halves(SP, 1) \subseteq RegisterTargets
    BY <2>1, <2>3, RegisterTargetsInclude
  <2>5. regs' = st2.regs /\ mem' = st2.mem
    BY <1>4 DEF op_pop_1, Retire
  <2>6. IsStore(st1) /\ Touches(Store, st1, {}, Halves(SP, 1)) /\ PopValue(Store) \in Word
    BY StoreType, PopType, PopTouches
  <2> HIDE DEF st1
  <2>7. Touches(st1, st2, {}, Halves(Reg1, 1))
    BY <2>6, BytesType, SetRegistersTouches
  <2> HIDE DEF st2
  <2>8. /\ Touches(Store, st1, MemoryTargets, RegisterTargets)
        /\ Touches(st1, st2, MemoryTargets, RegisterTargets)
    BY <2>4, <2>6, <2>7, TouchesMore
  <2> QED
    BY <2>5, <2>8, TouchesThen, TargetsKept
<1>5. CASE op_ret
  <2>1. PICK n \in {"ret_0", "ret_1"} : Fetch(n)
    BY <1>5 DEF op_ret
  <2>2. Running /\ HandlerBytes(n, byte1, Reg(byte2))
    BY <2>1, Fetched
  <2>3. byte1 \in {194, 195}
    BY <2>2 DEF HandlerBytes, DwBytes, SwBytes, WBytes, RegBytes, OthersBytes
  <2>4. Halves(SP, 1) \subseteq RegisterTargets
    BY <2>2, <2>3, RegisterTargetsInclude DEF PopsWord
  <2> DEFINE st1 == IF mode = "DISSASSEMBLE" THEN Store ELSE PopStore(Store)
             sp  == Wrap(st1.regs[SP] + TextWord(PC + 1))
             st2 == [st1 EXCEPT !.regs[SP] = sp]
  <2>5. IsStore(st1) /\ Touches(Store, st1, {}, Halves(SP, 1))
    BY StoreType, PopTouches, TouchesNothing
  <2>6. \/ regs' = Store.regs /\ mem' = Store.mem
        \/ regs' = PopStore(Store).regs /\ mem' = PopStore(Store).mem
        \/ regs' = st2.regs /\ mem' = st2.mem
    BY <1>5 DEF op_ret, Retire, Skip
  <2> HIDE DEF st1
  <2>7. sp \in Word /\ SP \in RegNum
    <3>1. PC + 1 \in Nat
      BY WordDef DEF TypeOK
    <3>2. st1.regs[SP] + TextWord(PC + 1) \in Int
      BY <2>5, <3>1, StackPointer, TextType, WordDef
    <3> QED
      BY <2>5, <3>2, StackPointer, WrapType
  <2> HIDE DEF sp
  <2>8. Touches(st1, st2, {}, Halves(SP, 1))
    BY <2>5, <2>7, ExceptTouches
  <2> HIDE DEF st2
  <2>9. /\ Touches(Store, st1, MemoryTargets, RegisterTargets)
        /\ Touches(st1, st2, MemoryTargets, RegisterTargets)
    BY <2>4, <2>5, <2>8, TouchesMore
  <2>10. Touches(Store, st2, MemoryTargets, RegisterTargets)
    BY <2>9, TouchesThen
  <2>11. Touches(Store, PopStore(Store), MemoryTargets, RegisterTargets)
    BY <2>4, StoreType, PopTouches, TouchesMore
  <2> QED
    BY <2>6, <2>10, <2>11, TouchesNothing, TargetsKept
<1>6. CASE op_push_2 \/ op_jmp_2 \/ op_jmp \/ op_cond_jmp
  BY <1>6, NothingMoved DEF op_push_2, op_jmp_2, op_jmp, op_cond_jmp, Jump, Skip
<1> QED
  BY <1>1, <1>2, <1>3, <1>4, <1>5, <1>6

\* A direct call.
LEMMA CallFootprint ==
  ASSUME TypeOK, op_call_0, PC < UINT16_MAX
  PROVE  MemoryKept /\ RegistersKept
<1>1. Running /\ PushesWord(byte1, byte2)
  BY CallEncoding DEF PushesWord
<1> QED
  BY <1>1, PushKept, NothingMoved DEF op_call_0, Skip

\* The system calls: AX, and two words of the message.
LEMMA SyscallFootprint == ASSUME TypeOK, Syscalls PROVE MemoryKept /\ RegistersKept
<1>1. Fetch("int_0")
  BY DEF Syscalls, sys_exit_1, sys_write_4, sys_brk_17, sys_ioctl_54, sys_missing,
         int_disassemble, Syscall
<1>2. Running /\ HandlerBytes("int_0", byte1, Reg(byte2))
  BY <1>1, Fetched
<1>3. byte1 = 205
  BY <1>2 DEF HandlerBytes, DwBytes, SwBytes, WBytes, RegBytes, OthersBytes
<1>4. /\ Halves(AX, 1) \subseteq RegisterTargets
      /\ Extent(Wrap(regs[BX] + 2), 1) \subseteq MemoryTargets
      /\ Extent(Wrap(regs[BX] + 18), 1) \subseteq MemoryTargets
  BY <1>2, <1>3, TargetsInclude, RegisterTargetsInclude
<1>5. IsStore(Cleared) /\ Touches(Store, Cleared, MemoryTargets, RegisterTargets)
  <2>1. 0 \in Word /\ AX \in RegNum
    BY WordDef DEF AX, RegNum
  <2>2. IsStore(Cleared) /\ Touches(Store, Cleared, {}, Halves(AX, 1))
    BY <2>1, StoreType, SetRegistersType, SetRegistersTouches DEF Cleared
  <2> QED
    BY <1>4, <2>2, TouchesMore
<1>6. ASSUME NEW s, IsStore(s), NEW offset \in {2, 18}, NEW v \in Word
      PROVE  /\ IsStore(Reply(s, offset, v))
             /\ Touches(s, Reply(s, offset, v), MemoryTargets, RegisterTargets)
  <2> DEFINE a == Wrap(regs[BX] + offset)
  <2>1. a \in Word
    <3>1. regs[BX] \in Word
      BY DEF TypeOK, BX, RegNum
    <3>2. regs[BX] + offset \in Int
      BY <3>1, WordDef
    <3> QED
      BY <3>2, WrapType
  <2>2. Extent(a, 1) \subseteq MemoryTargets
    BY <1>4
  <2>3. Reply(s, offset, v) = set_memory(s, a, 1, v)
    BY DEF Reply
  <2> HIDE DEF a
  <2>4. IsStore(set_memory(s, a, 1, v)) /\ Touches(s, set_memory(s, a, 1, v), Extent(a, 1), {})
    BY <1>6, <2>1, SetMemoryType, WriteTouches
  <2> QED
    BY <2>2, <2>3, <2>4, TouchesMore
<1>7. m1_i2 \in Word /\ m1_p1 \in Word /\ 0 \in Word /\ 65514 \in Word
  BY StoreType, GetMemoryType, WordDef DEF Message, m1_i2, m1_p1
<1>8. CASE sys_exit_1 \/ sys_missing \/ int_disassemble
  BY <1>8, NothingMoved DEF sys_exit_1, sys_missing, int_disassemble, Skip
<1>9. CASE sys_write_4
  <2>1. Touches(Cleared, Reply(Cleared, 2, m1_i2), MemoryTargets, RegisterTargets)
    BY <1>5, <1>6, <1>7
  <2>2. regs' = Reply(Cleared, 2, m1_i2).regs /\ mem' = Reply(Cleared, 2, m1_i2).mem
    BY <1>5, <1>9 DEF sys_write_4, Reply, set_memory, IsStore
  <2> QED
    BY <1>5, <2>1, <2>2, TouchesThen, TargetsKept
<1>10. CASE sys_brk_17
  <2> DEFINE st1 == Reply(Cleared, 2, 0)
             st2 == Reply(st1, 18, m1_p1)
  <2>1. IsStore(st1) /\ Touches(Cleared, st1, MemoryTargets, RegisterTargets)
    BY <1>5, <1>6, <1>7
  <2>2. regs' = st2.regs /\ mem' = st2.mem
    BY <1>10 DEF sys_brk_17, Retire
  <2> HIDE DEF st1
  <2>3. Touches(st1, st2, MemoryTargets, RegisterTargets)
    BY <1>6, <1>7, <2>1
  <2> HIDE DEF st2
  <2>4. Touches(Store, st1, MemoryTargets, RegisterTargets)
    BY <1>5, <2>1, TouchesThen
  <2> QED
    BY <2>2, <2>3, <2>4, TouchesThen, TargetsKept
<1>11. CASE sys_ioctl_54
  <2>1. Touches(Cleared, Reply(Cleared, 2, 65514), MemoryTargets, RegisterTargets)
    BY <1>5, <1>6, <1>7
  <2>2. regs' = Reply(Cleared, 2, 65514).regs /\ mem' = Reply(Cleared, 2, 65514).mem
    BY <1>11 DEF sys_ioctl_54, Retire
  <2> QED
    BY <1>5, <2>1, <2>2, TouchesThen, TargetsKept
<1> QED
  BY <1>8, <1>9, <1>10, <1>11 DEF Syscalls

\* Every turn of the loop but a direct call.
LEMMA TurnFootprint ==
  ASSUME TypeOK,
         \/ Computation \/ NoEffect \/ Syscalls \/ main_return
         \/ op_push_0 \/ op_pop_0 \/ op_push_1 \/ op_pop_1 \/ op_push_2
         \/ op_call_1 \/ op_jmp_2 \/ op_ret \/ op_jmp \/ op_cond_jmp
  PROVE  MemoryKept /\ RegistersKept
<1>1. CASE Computation
  BY <1>1, DwFootprint, SwFootprint, WFootprint, XchgFootprint, DivFootprint,
     RegFootprint, LogicFootprint DEF Computation
<1>2. CASE NoEffect
  BY <1>2, NothingMoved DEF NoEffect, SkipByte, SkipByte2, SkipAcc, SkipAddr, SkipRM,
     op_ssb_1, unmatched, Skip
<1>3. CASE Syscalls
  BY <1>3, SyscallFootprint
<1>4. CASE main_return
  BY <1>4, NothingMoved DEF main_return
<1> QED
  BY <1>1, <1>2, <1>3, <1>4, ControlFootprint

\* Whatever the program, an instruction changes nothing its encoding does not
\* name: not the other half of a register, not a byte beside its operand.
THEOREM InstructionFootprint ==
  ASSUME \A i \in DOMAIN Images : Images[i].a_text <= UINT16_MAX + 1
  PROVE  Spec => ChangesOnlyTargets
<1>1. TypeOK /\ op_call_0 => PC < UINT16_MAX
  <2>1. SUFFICES ASSUME TypeOK, PC < a_text - 1 PROVE PC < UINT16_MAX
    BY DEF op_call_0, FetchPc, Running
  <2>2. prog \in DOMAIN Images /\ a_text = Images[prog].a_text /\ PC \in Word
    BY <2>1 DEF TypeOK
  <2>3. a_text \in Int /\ a_text <= UINT16_MAX + 1 /\ PC \in Int
    BY <2>2, ImagesAssumption, WordDef
  <2> QED
    BY <2>1, <2>3 DEF UINT16_MAX
<1>2. TypeOK /\ [Next]_vars => [MemoryKept /\ RegistersKept]_vars
  BY <1>1, TurnFootprint, CallFootprint DEF Next, StackAndControl
<1>3. Spec => []TypeOK
  BY CpuTypeCorrect
<1> QED
  BY <1>2, <1>3, PTL DEF Spec, ChangesOnlyTargets

-----------------------------------------------------------------------------
(* The invariant of the calls in progress *)

Activations == [to: Word, sp: Word, kept: Word \X Word \X Word]

\* The frames of two calls in progress do not overlap: a call's caller has
\* its frame above it.
Nested ==
  \A i, k \in 1 .. Len(frames) : i < k => frames[k].sp + 2 <= frames[i].sp

CallsInv ==
  /\ TypeOK /\ mode = "INTERPRET"
  /\ frames \in Seq(Activations) /\ Len(frames) >= 1
  /\ Nested
  /\ regs[SP] <= Innermost.sp
  /\ FramesIntact

-----------------------------------------------------------------------------
(* What a call and a return do *)

\* The callee-saved registers are words.
LEMMA CalleeSavedType ==
  ASSUME TypeOK
  PROVE  /\ callee_saved \in Word \X Word \X Word
         /\ regs[SP] \in Int /\ 0 <= regs[SP] /\ regs[SP] <= 65535
<1>1. BP \in RegNum /\ SI \in RegNum /\ DI \in RegNum /\ SP \in RegNum
  BY DEF BP, SI, DI, SP, RegNum
<1> QED
  BY <1>1, WordDef DEF TypeOK, callee_saved

\* A push changes no register but SP.
LEMMA PushKeeps ==
  ASSUME NEW st, IsStore(st), NEW v, NEW r \in RegNum, r # SP
  PROVE  push_stack(st, v, 1).regs[r] = st.regs[r]
<1> DEFINE sp == Wrap(st.regs[SP] - 1 - 1)
           moved == [st EXCEPT !.regs[SP] = sp]
<1>1. push_stack(st, v, 1) = set_memory(moved, sp, 1, v)
  BY DEF push_stack
<1>2. sp \in Word
  BY StackPointer, WrapType
<1> HIDE DEF sp
<1>3. IsStore(moved) /\ moved.regs = [st.regs EXCEPT ![SP] = sp]
  BY <1>2, StackPointer, ExceptRegister
<1>4. moved.regs[r] = st.regs[r]
  BY <1>3 DEF IsStore
<1> HIDE DEF moved
<1>5. set_memory(moved, sp, 1, v).regs = moved.regs
  BY <1>3 DEF set_memory, IsStore
<1> QED
  BY <1>1, <1>4, <1>5

\* A call pushes the address behind itself, two to four bytes further: no
\* other handler takes the bytes of a call, and op_logic, which moves PC
\* before op_pc looks at it, never lets op_pc see one.
LEMMA CallPushes ==
  ASSUME TypeOK, mode = "INTERPRET", op_call_0 \/ op_call_1, PC + 4 <= UINT16_MAX
  PROVE  \E n \in 2 .. 4 :
           /\ PC + n \in Word
           /\ (IF byte1 = 255 THEN EndRM ELSE Wrap(PC + 3)) = PC + n
           /\ \E pc : Retire(pc, push_stack(Store, PC + n, 1), flags)
<1>1. PC \in Int /\ 0 <= PC /\ PC + 4 <= 65535
  BY WordDef DEF TypeOK, UINT16_MAX
<1>2. byte1 \in Byte /\ byte2 \in Byte /\ Reg(byte2) \in AnyFlag
  BY BytesType DEF RegNum, AnyFlag
<1>3. \A n \in 0 .. 4 : PC + n \in Word /\ Wrap(PC + n) = PC + n
  BY <1>1, WordDef DEF Wrap
<1>4. CASE op_call_1
  <2>1. Handler[byte1][Reg(byte2)] = "call_1"
    BY <1>4 DEF op_call_1, Fetch
  <2>2. HandlerBytes("call_1", byte1, Reg(byte2))
    BY <1>2, <2>1, HandlerEncoding
  <2>3. byte1 = 255
    BY <2>2 DEF HandlerBytes, DwBytes, SwBytes, WBytes, RegBytes, OthersBytes
  <2>4. DispSize(byte2) \in {0, 1, 2}
    BY BytesType
  <2>5. EndRM = PC + (2 + DispSize(byte2)) /\ 2 + DispSize(byte2) \in 2 .. 4
    BY <1>1, <1>3, <2>4 DEF EndRM
  <2>6. \E pc : Retire(pc, push_stack(Store, EndRM, 1), flags)
    BY <1>4 DEF op_call_1
  <2> QED
    BY <1>3, <2>3, <2>5, <2>6
<1>5. CASE op_call_0
  <2>1. PcEntry = PC /\ byte1 = 232
    BY <1>1, <1>5, CallEncoding DEF UINT16_MAX
  <2>2. \E pc : Retire(pc, push_stack(Store, Wrap(PC + 3), 1), flags)
    BY <1>5, <2>1 DEF op_call_0
  <2> QED
    BY <1>3, <2>1, <2>2
<1> QED
  BY <1>4, <1>5

\* With room for it, the return address lies at the new SP, what lay above is
\* as it was, and so are BP, SI and DI.
LEMMA CallStores ==
  ASSUME TypeOK, NEW v \in Word, NEW pc, regs[SP] >= 2,
         Retire(pc, push_stack(Store, v, 1), flags)
  PROVE  /\ regs'[SP] = regs[SP] - 2
         /\ callee_saved' = callee_saved
         /\ get_memory(Store', regs[SP] - 2, 1) = v
         /\ \A a \in Int : a >= regs[SP]
                             => get_memory(Store', a, 1) = get_memory(Store, a, 1)
<1> DEFINE st2 == push_stack(Store, v, 1)
<1>1. IsStore(Store) /\ Store.regs = regs
  BY StoreType DEF Store
<1>2. /\ Pushed(Store, st2, 2)
      /\ get_memory(st2, Store.regs[SP] - 2, 1) = v
  BY <1>1, WordPushed
<1>3. \A a \in Int : a >= Store.regs[SP] => get_memory(st2, a, 1) = get_memory(Store, a, 1)
  BY <1>1, <1>2, WordByPush
<1>4. \A r \in RegNum : r # SP => st2.regs[r] = Store.regs[r]
  BY <1>1, PushKeeps
<1>5. regs' = st2.regs /\ mem' = st2.mem
  BY DEF Retire
<1> HIDE DEF st2
<1>6. st2 = [regs |-> st2.regs, mem |-> st2.mem] /\ st2.regs[SP] = Store.regs[SP] - 2
  BY <1>2 DEF Pushed, IsStore
<1>7. Store' = st2
  BY <1>5, <1>6 DEF Store
<1>8. regs'[BP] = regs[BP] /\ regs'[SI] = regs[SI] /\ regs'[DI] = regs[DI]
  BY <1>1, <1>4, <1>5 DEF BP, SI, DI, SP, RegNum
<1> QED
  BY <1>1, <1>2, <1>3, <1>5, <1>6, <1>7, <1>8 DEF callee_saved

\* A return goes where the word at SP says, and moves SP behind that word and
\* the arguments it is to remove, if they lie within the segment.
LEMMA ReturnPops ==
  ASSUME TypeOK, mode = "INTERPRET", op_ret, regs[SP] + 2 + Arguments <= 65535
  PROVE  /\ PC' = get_memory(Store, regs[SP], 1)
         /\ mem' = mem
         /\ Arguments \in Nat
         /\ regs'[SP] = regs[SP] + 2 + Arguments
         /\ callee_saved' = callee_saved
<1> DEFINE st2 == PopStore(Store)
           sp == Wrap(Store.regs[SP] + 2)
           end == Wrap(st2.regs[SP] + TextWord(PC + 1))
           st3 == [st2 EXCEPT !.regs[SP] = end]
<1>1. /\ IsStore(Store) /\ Store.regs = regs /\ Store.mem = mem
      /\ SP \in RegNum /\ regs[SP] \in Int /\ 0 <= regs[SP] /\ regs[SP] <= 65535
  BY StoreType, StackPointer DEF Store
<1>2. PC + 1 \in Nat /\ TextWord(PC + 1) \in Word
  <2>1. PC + 1 \in Nat
    BY WordDef DEF TypeOK
  <2> QED
    BY <2>1, TextType
<1>3. TextWord(PC + 1) \in Nat /\ Arguments \in Nat
  BY <1>2, WordDef DEF Arguments
<1>4. sp \in Word /\ sp = regs[SP] + 2
  BY <1>1, <1>3, WordDef DEF Wrap
<1> HIDE DEF sp
<1>5. /\ IsStore(st2) /\ st2.mem = mem
      /\ st2.regs = [regs EXCEPT ![SP] = sp]
  BY <1>1, <1>4, ExceptRegister DEF PopStore, sp
<1>6. st2.regs[SP] = regs[SP] + 2
  BY <1>1, <1>4, <1>5 DEF TypeOK
<1>7. \A r \in RegNum : r # SP => st2.regs[r] = regs[r]
  BY <1>5 DEF TypeOK
<1> HIDE DEF st2
<1>8. CASE Fetch("ret_1")
  <2>1. Arguments = TextWord(PC + 1)
    BY <1>8 DEF Arguments
  <2>2. end \in Word /\ end = regs[SP] + 2 + Arguments
    BY <1>1, <1>3, <1>6, <2>1, WordDef DEF Wrap
  <2>3. Retire(PopValue(Store), st3, flags)
    BY <1>8 DEF op_ret, Fetch, st2
  <2> HIDE DEF end
  <2>4. st3.mem = mem /\ st3.regs = [st2.regs EXCEPT ![SP] = end]
    BY <1>1, <1>5, <2>2, ExceptRegister
  <2> HIDE DEF st3
  <2>5. st3.regs[SP] = end /\ \A r \in RegNum : r # SP => st3.regs[r] = regs[r]
    BY <1>1, <1>5, <1>7, <2>4 DEF IsStore
  <2>6. /\ PC' = get_memory(Store, regs[SP], 1) /\ mem' = mem /\ regs' = st3.regs
    BY <1>1, <2>3, <2>4 DEF Retire, PopValue
  <2>7. callee_saved' = callee_saved
    BY <2>5, <2>6 DEF callee_saved, BP, SI, DI, SP, RegNum
  <2> QED
    BY <1>3, <2>2, <2>5, <2>6, <2>7
<1>9. CASE ~Fetch("ret_1")
  <2>1. Arguments = 0
    BY <1>9 DEF Arguments
  <2>2. Retire(PopValue(Store), st2, flags)
    BY <1>9 DEF op_ret, Fetch, st2
  <2>3. /\ PC' = get_memory(Store, regs[SP], 1) /\ mem' = mem /\ regs' = st2.regs
    BY <1>1, <1>5, <2>2 DEF Retire, PopValue
  <2>4. callee_saved' = callee_saved
    BY <1>7, <2>3 DEF callee_saved, BP, SI, DI, SP, RegNum
  <2> QED
    BY <1>1, <1>3, <1>6, <2>1, <2>3, <2>4
<1> QED
  BY <1>8, <1>9

-----------------------------------------------------------------------------
(* The steps of the program as steps of its procedures *)

\* The frames and the stack pointer are numbers, the innermost frame is the
\* lowest.
LEMMA FramesType ==
  ASSUME CallsInv
  PROVE  \A i \in 1 .. Len(frames) :
           /\ frames[i] \in Activations /\ frames[i].sp \in Int
           /\ 0 <= frames[i].sp /\ frames[i].sp <= 65535
           /\ Innermost.sp <= frames[i].sp /\ regs[SP] <= frames[i].sp
<1>1. frames \in Seq(Activations) /\ Len(frames) \in Nat /\ Len(frames) >= 1
  BY DEF CallsInv
<1>2. \A i \in 1 .. Len(frames) :
        /\ frames[i] \in Activations /\ frames[i].sp \in Int
        /\ 0 <= frames[i].sp /\ frames[i].sp <= 65535
  <2>1. \A i \in 1 .. Len(frames) : frames[i] \in Activations
    BY <1>1
  <2>2. \A f \in Activations : f.sp \in Word
    BY DEF Activations
  <2> QED
    BY <2>1, <2>2, WordDef
<1>3. \A i \in 1 .. Len(frames) : Innermost.sp <= frames[i].sp
  BY <1>1, <1>2 DEF CallsInv, Nested, Innermost
<1>4. regs[SP] \in Int /\ regs[SP] <= Innermost.sp
  BY CalleeSavedType DEF CallsInv
<1> QED
  BY <1>1, <1>2, <1>3, <1>4 DEF Innermost

\* A call of the program is a call of procedures.
LEMMA CallStep ==
  ASSUME CallsInv, Call, Disciplined
  PROVE  CallsInv' /\ Abstract!Call
<1>1. TypeOK /\ mode = "INTERPRET" /\ frames \in Seq(Activations)
  BY DEF CallsInv
<1>2. /\ callee_saved \in Word \X Word \X Word
      /\ regs[SP] \in Int /\ 0 <= regs[SP] /\ regs[SP] <= 65535
  BY <1>1, CalleeSavedType
<1> DEFINE to == IF byte1 = 255 THEN EndRM ELSE Wrap(PC + 3)
           new == Frame(to, Wrap(regs[SP] - 2))
           old == Len(frames)
<1>3. frames' = Append(frames, new)
  BY DEF Call
<1> HIDE DEF to, new
<1>4. /\ old \in Nat /\ old >= 1 /\ Len(frames') = old + 1
      /\ \A i \in 1 .. old : frames'[i] = frames[i]
      /\ frames'[old + 1] = new
  BY <1>1, <1>3 DEF CallsInv
<1>5. regs[SP] >= 2 /\ PC + 4 <= UINT16_MAX
  BY <1>4 DEF Disciplined
<1>6. PICK n \in 2 .. 4 :
        /\ PC + n \in Word /\ to = PC + n
        /\ \E pc : Retire(pc, push_stack(Store, PC + n, 1), flags)
  BY <1>1, <1>5, CallPushes DEF Call, to
<1>7. Wrap(regs[SP] - 2) = regs[SP] - 2 /\ regs[SP] - 2 \in Word
  BY <1>2, <1>5, WordDef DEF Wrap
<1>8. /\ new \in Activations
      /\ new = [to |-> PC + n, sp |-> regs[SP] - 2, kept |-> callee_saved]
  BY <1>2, <1>6, <1>7 DEF Activations, new, Frame
<1>9. /\ regs'[SP] = regs[SP] - 2
      /\ callee_saved' = callee_saved
      /\ get_memory(Store', regs[SP] - 2, 1) = PC + n
      /\ \A a \in Int : a >= regs[SP]
                          => get_memory(Store', a, 1) = get_memory(Store, a, 1)
  BY <1>1, <1>5, <1>6, CallStores
<1>10. TypeOK' /\ mode' = mode
  BY <1>1, <1>6, NextType DEF Call, Next, StackAndControl, Retire
<1>11. frames' \in Seq(Activations)
  BY <1>1, <1>3, <1>8
<1>12. \A i \in 1 .. old : frames[i].sp \in Int /\ regs[SP] <= frames[i].sp
  BY FramesType
<1>13. Nested'
  <2>1. new.sp + 2 = regs[SP]
    BY <1>2, <1>8
  <2>2. \A i, k \in 1 .. old : i < k => frames[k].sp + 2 <= frames[i].sp
    BY DEF CallsInv, Nested
  <2> HIDE DEF old
  <2>3. ASSUME NEW i \in 1 .. old + 1, NEW k \in 1 .. old + 1, i < k
        PROVE  frames'[k].sp + 2 <= frames'[i].sp
    <3>1. i \in 1 .. old /\ frames'[i] = frames[i]
      BY <2>3, <1>4
    <3>2. CASE k = old + 1
      BY <2>1, <3>1, <3>2, <1>4, <1>12
    <3>3. CASE k # old + 1
      <4>1. k \in 1 .. old /\ frames'[k] = frames[k]
        BY <3>3, <1>4
      <4> QED
        BY <2>2, <2>3, <3>1, <4>1
    <3> QED
      BY <3>2, <3>3
  <2> QED
    BY <2>3, <1>4 DEF Nested
<1>14. (regs[SP] <= Innermost.sp)'
  BY <1>2, <1>4, <1>8, <1>9 DEF Innermost
<1>15. FramesIntact'
  <2>1. SUFFICES ASSUME NEW i \in 2 .. old + 1
                 PROVE  get_memory(Store', frames'[i].sp, 1) = frames'[i].to
    BY <1>4 DEF FramesIntact
  <2>2. CASE i = old + 1
    BY <2>2, <1>4, <1>8, <1>9
  <2>3. CASE i # old + 1
    <3>1. i \in 2 .. old /\ i \in 1 .. old
      BY <2>3, <1>4
    <3> QED
      BY <3>1, <1>4, <1>9, <1>12 DEF CallsInv, FramesIntact
  <2> QED
    BY <2>2, <2>3
<1>16. CallsInv'
  BY <1>1, <1>4, <1>10, <1>11, <1>13, <1>14, <1>15 DEF CallsInv
<1>17. Abstract!Call
  BY <1>3, <1>8, <1>9 DEF Abstract!Call, Abstract!Activation
<1> QED
  BY <1>16, <1>17

\* A return takes the innermost frame off.
LEMMA ReturnedFrames ==
  ASSUME CallsInv, Return, Disciplined
  PROVE  LET old == Len(frames) IN
         /\ old \in Nat /\ old > 1 /\ Len(frames') = old - 1
         /\ \A i \in 1 .. old - 1 : frames'[i] = frames[i]
         /\ frames' \in Seq(Activations)
<1> DEFINE old == Len(frames)
           m == old - 1
<1>1. frames \in Seq(Activations) /\ old \in Nat /\ old >= 1 /\ m \in Int /\ 0 <= m
  BY DEF CallsInv
<1>2. frames' = SubSeq(frames, 1, m)
  BY DEF Return
<1>3. \A i \in 1 .. m : frames[i] \in Activations
  BY <1>1
<1> HIDE DEF m
<1>4. /\ SubSeq(frames, 1, m) \in Seq(Activations)
      /\ Len(SubSeq(frames, 1, m)) = IF 1 <= m THEN m - 1 + 1 ELSE 0
      /\ \A i \in 1 .. m - 1 + 1 : SubSeq(frames, 1, m)[i] = frames[1 + i - 1]
  BY <1>1, <1>3, SubSeqProperties
<1>5. Len(frames') = m /\ \A i \in 1 .. m : frames'[i] = frames[i]
  BY <1>1, <1>2, <1>4
<1>6. old > 1
  BY <1>1, <1>5 DEF Disciplined, m
<1> QED
  BY <1>1, <1>2, <1>4, <1>5, <1>6 DEF m

\* A return of the program is a return of procedures.
LEMMA ReturnStep ==
  ASSUME CallsInv, Return, Disciplined
  PROVE  CallsInv' /\ Abstract!Return
<1>1. TypeOK /\ mode = "INTERPRET" /\ frames \in Seq(Activations)
  BY DEF CallsInv
<1> DEFINE old == Len(frames)
<1>2. frames' = SubSeq(frames, 1, old - 1)
  BY DEF Return
<1>3. /\ old \in Nat /\ old > 1 /\ Len(frames') = old - 1
      /\ \A i \in 1 .. old - 1 : frames'[i] = frames[i]
      /\ frames' \in Seq(Activations)
  BY ReturnedFrames
<1>4. /\ old > 1
      /\ regs[SP] = Innermost.sp /\ callee_saved = Innermost.kept
      /\ regs[SP] + 2 + Arguments <= Caller.sp
  BY <1>3 DEF Disciplined
<1>5. \A i \in 1 .. old : frames[i].sp \in Int /\ frames[i].sp <= 65535
  BY FramesType
<1>6. old - 1 \in 1 .. old /\ Caller.sp \in Int /\ Caller.sp <= 65535
  BY <1>3, <1>4, <1>5 DEF Caller
<1>7. Arguments \in Nat /\ regs[SP] \in Int
  <2>1. PC + 1 \in Nat
    BY <1>1, WordDef DEF TypeOK
  <2>2. TextWord(PC + 1) \in Nat
    BY <1>1, <2>1, TextType, WordDef
  <2> QED
    BY <1>1, <2>2, CalleeSavedType DEF Arguments
<1>8. regs[SP] + 2 + Arguments <= 65535
  BY <1>4, <1>6, <1>7
<1>9. /\ PC' = get_memory(Store, regs[SP], 1)
      /\ mem' = mem
      /\ regs'[SP] = regs[SP] + 2 + Arguments
      /\ callee_saved' = callee_saved
  BY <1>1, <1>8, ReturnPops DEF Return
<1>10. TypeOK' /\ mode' = mode
  BY <1>1, NextType DEF Return, Next, StackAndControl, op_ret, Retire, Skip
<1>11. Nested'
  BY <1>3 DEF CallsInv, Nested
<1>12. (regs[SP] <= Innermost.sp)'
  BY <1>3, <1>4, <1>6, <1>9 DEF Innermost, Caller
<1>13. FramesIntact'
  <2>1. \A a : get_memory(Store', a, 1) = get_memory(Store, a, 1)
    BY <1>9 DEF get_memory, Store
  <2> QED
    BY <1>3, <2>1 DEF CallsInv, FramesIntact
<1>14. CallsInv'
  BY <1>1, <1>3, <1>4, <1>10, <1>11, <1>12, <1>13 DEF CallsInv
<1>15. PC' = Innermost.to
  BY <1>3, <1>4, <1>9 DEF CallsInv, FramesIntact, Innermost
<1>16. Innermost.sp + 2 <= regs'[SP] /\ regs'[SP] <= Caller.sp
  BY <1>4, <1>7, <1>9
<1>17. Abstract!Return
  BY <1>2, <1>4, <1>9, <1>15, <1>16
     DEF Abstract!Return, Abstract!Innermost, Abstract!Caller, Innermost, Caller
<1> QED
  BY <1>14, <1>17

\* A byte that is no target is read as before.
LEMMA ByteKept ==
  ASSUME MemoryKept, NEW a, a \notin MemoryTargets
  PROVE  ByteAt(mem', a) = ByteAt(mem, a)
<1>1. CASE a \in DOMAIN mem
  BY <1>1 DEF MemoryKept, ByteAt
<1>2. CASE a \notin DOMAIN mem
  BY <1>2 DEF MemoryKept, ByteAt
<1> QED
  BY <1>1, <1>2

\* Targets beside the return addresses leave the return addresses.
LEMMA FramesKept ==
  ASSUME TypeOK, Other, MemoryTargets \cap ReturnAddresses = {}
  PROVE  \A k \in 2 .. Len(frames) :
           get_memory(Store', frames[k].sp, 1) = get_memory(Store, frames[k].sp, 1)
<1>1. MemoryKept
  BY TurnFootprint DEF Other
<1>2. ASSUME NEW k \in 2 .. Len(frames)
      PROVE  get_memory(Store', frames[k].sp, 1) = get_memory(Store, frames[k].sp, 1)
  <2> DEFINE sp == frames[k].sp
  <2>1. Extent(sp, 1) \subseteq ReturnAddresses
    BY DEF ReturnAddresses
  <2>2. sp \notin MemoryTargets /\ sp + 1 \notin MemoryTargets
    BY <2>1 DEF Extent
  <2> HIDE DEF sp
  <2>3. /\ ByteAt(mem', sp) = ByteAt(mem, sp)
        /\ ByteAt(mem', sp + 1) = ByteAt(mem, sp + 1)
    BY <1>1, <2>2, ByteKept
  <2> QED
    BY <2>3 DEF get_memory, Store, sp
<1> QED
  BY <1>2

\* Whatever else the program does is work of the innermost procedure.
LEMMA OtherStep ==
  ASSUME Modes = {"INTERPRET"}, CallsInv,
         Other \/ UNCHANGED CallsVars, UNCHANGED CallsVars \/ Disciplined
  PROVE  CallsInv' /\ (Abstract!Work \/ UNCHANGED Abstract!procVars)
<1>1. CASE UNCHANGED CallsVars
  <2>1. TypeOK'
    BY <1>1, NextType DEF CallsVars, CallsInv
  <2>2. /\ frames' = frames /\ regs' = regs /\ mem' = mem /\ mode' = mode /\ PC' = PC
    BY <1>1 DEF CallsVars, vars
  <2>3. Nested' /\ FramesIntact' /\ (regs[SP] <= Innermost.sp)'
    BY <2>2 DEF CallsInv, Nested, FramesIntact, Innermost, Store
  <2>4. UNCHANGED Abstract!procVars
    BY <2>2 DEF Abstract!procVars, callee_saved
  <2> QED
    BY <2>1, <2>2, <2>3, <2>4 DEF CallsInv
<1>2. CASE Other /\ Disciplined
  <2>1. Next /\ frames' = frames
    BY <1>2 DEF Other, Next, StackAndControl
  <2>2. TypeOK'
    BY <2>1, NextType DEF CallsInv
  <2>3. mode' = "INTERPRET"
    BY <2>2 DEF TypeOK
  <2>4. /\ regs'[SP] <= Innermost.sp
        /\ \A k \in 2 .. Len(frames) :
             get_memory(Store', frames[k].sp, 1) = get_memory(Store, frames[k].sp, 1)
    BY <1>2, <2>1, FramesKept DEF Disciplined, CallsInv
  <2>5. Nested' /\ FramesIntact' /\ (regs[SP] <= Innermost.sp)'
    BY <2>1, <2>4 DEF CallsInv, Nested, FramesIntact, Innermost
  <2>6. Abstract!Work
    BY <2>1, <2>4 DEF Abstract!Work, Abstract!Innermost, Innermost
  <2> QED
    BY <2>1, <2>2, <2>3, <2>5, <2>6 DEF CallsInv
<1> QED
  BY <1>1, <1>2

\* Every step of a disciplined program keeps the invariant and is a step of
\* its procedures.
LEMMA ProcedureStep ==
  ASSUME Modes = {"INTERPRET"}, CallsInv,
         [CallsNext]_CallsVars, [Disciplined]_CallsVars
  PROVE  CallsInv' /\ [Abstract!Next]_(Abstract!procVars)
<1>1. CASE UNCHANGED CallsVars
  BY <1>1, OtherStep DEF Abstract!Next
<1>2. CASE CallsNext /\ Disciplined
  <2>1. CASE Call
    BY <1>2, <2>1, CallStep DEF Abstract!Next
  <2>2. CASE Return
    BY <1>2, <2>2, ReturnStep DEF Abstract!Next
  <2>3. CASE Other
    BY <1>2, <2>3, OtherStep DEF Abstract!Next
  <2> QED
    BY <1>2, <2>1, <2>2, <2>3 DEF CallsNext
<1> QED
  BY <1>1, <1>2

\* The program starts as the outermost procedure.
LEMMA ProcedureInit ==
  ASSUME Modes = {"INTERPRET"}, CallsInit
  PROVE  CallsInv /\ Abstract!Init
<1>1. TypeOK /\ mode = "INTERPRET" /\ PC = 0
  BY InitType DEF CallsInit, Init
<1>2. /\ callee_saved \in Word \X Word \X Word
      /\ regs[SP] \in Word /\ regs[SP] <= regs[SP] /\ 0 \in Word
  BY <1>1, CalleeSavedType, WordDef
<1>3. frames = << Frame(0, regs[SP]) >>
  BY DEF CallsInit
<1>4. /\ frames \in Seq(Activations) /\ Len(frames) = 1
      /\ frames[1].sp = regs[SP]
  BY <1>2, <1>3 DEF Frame, Activations
<1>5. CallsInv
  BY <1>1, <1>2, <1>4 DEF CallsInv, Nested, FramesIntact, Innermost
<1>6. Abstract!Init
  BY <1>1, <1>3 DEF Abstract!Init, Abstract!Activation, Frame
<1> QED
  BY <1>5, <1>6

-----------------------------------------------------------------------------

\* The return addresses of a disciplined program's calls stay in its stack,
\* through every call and return.
THEOREM FramesStayIntact ==
  ASSUME Modes = {"INTERPRET"}
  PROVE  CallsSpec /\ ProgramDisciplined => []FramesIntact
<1>1. CallsInit => CallsInv
  BY ProcedureInit
<1>2. CallsInv /\ [CallsNext]_CallsVars /\ [Disciplined]_CallsVars => CallsInv'
  BY ProcedureStep
<1>3. CallsInv => FramesIntact
  BY DEF CallsInv
<1> QED
  BY <1>1, <1>2, <1>3, PTL DEF CallsSpec, ProgramDisciplined

\* The interpreter implements procedures for every program that keeps its
\* stack: a call pushes the address behind itself, whichever of the two
\* handlers takes it and however long the instruction is; a return finds it,
\* although it lies in the memory the program writes to; and the caller goes
\* on with its SP, BP, SI and DI.
THEOREM ProceduresImplemented ==
  ASSUME Modes = {"INTERPRET"}
  PROVE  CallsSpec /\ ProgramDisciplined => ImplementsProcedures
<1>1. CallsInit => CallsInv /\ Abstract!Init
  BY ProcedureInit
<1>2. CallsInv /\ [CallsNext]_CallsVars /\ [Disciplined]_CallsVars
        => CallsInv' /\ [Abstract!Next]_(Abstract!procVars)
  BY ProcedureStep
<1> QED
  BY <1>1, <1>2, PTL DEF CallsSpec, ProgramDisciplined, ImplementsProcedures, Abstract!Spec

-----------------------------------------------------------------------------
(* Memory: SP wraps at 65536, one beyond the allocation of g_memory.         *)

\* The images lie within the allocation, and the word at SP does.
ImagesWithin ==
  \A i \in DOMAIN Images :
    /\ DOMAIN Images[i].mem \subseteq 0 .. STACK_CAPACITY - 1
    /\ Images[i].regs[SP] <= STACK_CAPACITY - 2

\* No frame starts behind the end: the program's own is the highest.
InMemory ==
  /\ DOMAIN mem \subseteq 0 .. STACK_CAPACITY - 1
  /\ frames[1].sp <= STACK_CAPACITY - 2

\* Of the instructions that do not call, two push.
LEMMA NoPushTaken ==
  ASSUME TypeOK, Other, Running, ~op_push_0, ~op_push_1
  PROVE  /\ Handler[byte1][Reg(byte2)] \notin {"push_0", "push_1", "call_1"}
         /\ Handler[byte1][Reg(byte2)] = "none" => PcHandler[Text(PcEntry)] # "call_0"
<1> DEFINE name == Handler[byte1][Reg(byte2)]
           Pushes == {"push_0", "push_1", "call_1"}
<1>1. /\ \A n : Fetch(n) => name = n
      /\ \A n : FetchPc(n) => name \in {"none", "logic_6"} /\ PcHandler[Text(PcEntry)] = n
  BY DEF Fetch, FetchPc
<1>2. CASE Computation
  <2>1. CASE \/ op_mov_0 \/ op_add_0 \/ op_sub_0 \/ op_cmp_0 \/ op_and_0 \/ op_or_0 \/ op_xor_0
             \/ op_add_1 \/ op_sub_1 \/ op_cmp_1
    <3>1. \E n \in {"mov_0", "add_0", "sub_0", "cmp_0", "and_0", "or_0", "xor_0"} \cup
                   {"add_1", "sub_1", "cmp_1"} : Fetch(n)
      <4>1. CASE op_add_1
        BY <4>1 DEF op_add_1
      <4>2. CASE op_sub_1 \/ op_cmp_1
        BY <4>2 DEF op_sub_1, op_cmp_1
      <4>3. CASE op_mov_0 \/ op_add_0 \/ op_sub_0 \/ op_cmp_0 \/ op_and_0 \/ op_or_0 \/ op_xor_0
        BY <4>3 DEF op_mov_0, op_add_0, op_sub_0, op_cmp_0, op_and_0, op_or_0, op_xor_0
      <4> QED
        BY <2>1, <4>1, <4>2, <4>3
    <3> QED
      BY <1>1, <3>1
  <2>2. CASE \/ op_mov_1 \/ op_and_1 \/ op_or_1 \/ op_xor_1 \/ op_test_1 \/ op_test_0
             \/ op_inc_0 \/ op_dec_0 \/ op_neg \/ op_xchg_0 \/ op_div \/ op_cmp_2
    <3>1. \E n : Fetch(n) /\ n # "none" /\ n \notin Pushes
      BY <2>2 DEF op_mov_1, op_and_1, op_or_1, op_xor_1, op_test_1, op_test_0,
         op_inc_0, op_dec_0, op_neg, op_xchg_0, op_div, op_cmp_2
    <3> QED
      BY <1>1, <3>1
  <2>3. CASE op_xchg_1 \/ op_inc_1 \/ op_dec_1 \/ op_lea \/ op_mov_2 \/ op_cbw
    <3>1. \E n : Fetch(n) /\ n # "none" /\ n \notin Pushes
      BY <2>3 DEF op_xchg_1, op_inc_1, op_dec_1, op_lea, op_mov_2, op_cbw
    <3> QED
      BY <1>1, <3>1
  <2>4. CASE op_cwd \/ op_sub_2 \/ op_shl \/ op_sar \/ op_rotate
    <3>1. \E n \in {"cwd", "sub_2", "shl", "sar", "rotate"} : Fetch(n)
      <4>1. CASE op_rotate
        BY <4>1 DEF op_rotate
      <4>2. CASE op_cwd \/ op_sub_2 \/ op_shl \/ op_sar
        BY <4>2 DEF op_cwd, op_sub_2, op_shl, op_sar
      <4> QED
        BY <2>4, <4>1, <4>2
    <3> QED
      BY <1>1, <3>1
  <2> QED
    BY <1>2, <2>1, <2>2, <2>3, <2>4 DEF Computation
<1>3. CASE NoEffect
  <2>1. CASE SkipByte \/ SkipByte2 \/ SkipAcc \/ SkipAddr \/ SkipRM \/ op_ssb_1
    <3>1. /\ "none" \notin OneByteNoOps \cup AccNoOps \cup ModRmNoOps
          /\ OneByteNoOps \cap Pushes = {} /\ AccNoOps \cap Pushes = {}
          /\ ModRmNoOps \cap Pushes = {}
      BY DEF OneByteNoOps, Ports, FlagTransfers, ProcessorControl, AccNoOps, AddImmediates,
         ModRmNoOps, Multiplications, LoadPointers
    <3>2. \E n : Fetch(n) /\ n # "none" /\ n \notin Pushes
      BY <2>1, <3>1 DEF SkipByte, SkipByte2, SkipAcc, SkipAddr, SkipRM, op_ssb_1
    <3> QED
      BY <1>1, <3>2
  <2>2. CASE unmatched
    BY <1>1, <2>2 DEF unmatched
  <2> QED
    BY <1>3, <2>1, <2>2 DEF NoEffect
<1>4. CASE Syscalls
  <2>1. Fetch("int_0")
    BY <1>4 DEF Syscalls, sys_exit_1, sys_write_4, sys_brk_17, sys_ioctl_54, sys_missing,
       int_disassemble, Syscall
  <2> QED
    BY <1>1, <2>1
<1>5. ~main_return
  <2>1. PC \in Int /\ a_text \in Int
    BY ImagesAssumption, WordDef DEF TypeOK
  <2> QED
    BY <2>1 DEF main_return, Running
<1>6. CASE op_pop_0 \/ op_pop_1 \/ op_push_2 \/ op_jmp_2
  <2>1. \E n \in {"pop_0", "pop_1", "push_2", "jmp_2"} : Fetch(n)
    BY <1>6 DEF op_pop_0, op_pop_1, op_push_2, op_jmp_2
  <2> QED
    BY <1>1, <2>1
<1>7. CASE op_jmp \/ op_cond_jmp
  <2>1. \E n \in {"jmp_0", "jmp_1", "cond_jmp"} : FetchPc(n)
    BY <1>7 DEF op_jmp, op_cond_jmp
  <2> QED
    BY <1>1, <2>1
<1> QED
  BY <1>2, <1>3, <1>4, <1>5, <1>6, <1>7 DEF Other

\* A push moves SP by a word, whatever it pushes.
LEMMA PushMovesSP ==
  ASSUME NEW st, IsStore(st), NEW v
  PROVE  push_stack(st, v, 1).regs[SP] = Wrap(st.regs[SP] - 2)
<1> DEFINE sp == Wrap(st.regs[SP] - 1 - 1)
           moved == [st EXCEPT !.regs[SP] = sp]
<1>1. push_stack(st, v, 1) = set_memory(moved, sp, 1, v)
  BY DEF push_stack
<1>2. sp \in Word /\ sp = Wrap(st.regs[SP] - 2)
  <2>1. st.regs[SP] \in Int /\ st.regs[SP] - 1 - 1 = st.regs[SP] - 2
    BY StackPointer
  <2> QED
    BY <2>1, WrapType
<1> HIDE DEF sp
<1>3. IsStore(moved) /\ moved.regs = [st.regs EXCEPT ![SP] = sp]
  BY <1>2, StackPointer, ExceptRegister
<1>4. moved.regs[SP] = sp
  BY <1>3, StackPointer DEF IsStore
<1> HIDE DEF moved
<1>5. set_memory(moved, sp, 1, v).regs = moved.regs
  BY <1>3 DEF set_memory, IsStore
<1> QED
  BY <1>1, <1>2, <1>4, <1>5

\* An opcode of a push is executed as one, whichever table it is looked up in.
LEMMA PushMoves ==
  ASSUME TypeOK, Other, Running, PushesWord(byte1, byte2)
  PROVE  regs'[SP] = Wrap(regs[SP] - 2)
<1> DEFINE name == Handler[byte1][Reg(byte2)]
<1>1. byte1 \in Byte /\ Reg(byte2) \in AnyFlag
  BY BytesType DEF RegNum, AnyFlag
<1>2. op_push_0 \/ op_push_1
  <2>1. SUFFICES ASSUME ~op_push_0, ~op_push_1 PROVE FALSE
    OBVIOUS
  <2>2. /\ name \notin {"push_0", "push_1", "call_1"}
        /\ name = "none" => PcHandler[Text(PcEntry)] # "call_0"
    BY <2>1, NoPushTaken
  <2>3. /\ name # "none" => HandlerBytes(name, byte1, Reg(byte2))
        /\ name = "none" => \A n : ~HandlerBytes(n, byte1, Reg(byte2))
    BY <1>1, HandlerEncoding, NoHandler
  <2>4. name = "none" => Text(PcEntry) = byte1
    BY DEF PcEntry, byte1
  <2> HIDE DEF name
  <2>5. CASE byte1 \in 80 .. 87
    <3>1. HandlerBytes("push_1", byte1, Reg(byte2))
      BY <2>5 DEF HandlerBytes, RegBytes
    <3> QED
      BY <2>2, <2>3, <2>5, <3>1
         DEF HandlerBytes, DwBytes, SwBytes, WBytes, RegBytes, OthersBytes
  <2>6. CASE byte1 = 255 /\ Reg(byte2) \in {2, 6}
    <3>1. \/ HandlerBytes("push_0", byte1, Reg(byte2))
          \/ HandlerBytes("call_1", byte1, Reg(byte2))
      BY <2>6 DEF HandlerBytes, WBytes
    <3> QED
      BY <2>2, <2>3, <2>6, <3>1
         DEF HandlerBytes, DwBytes, SwBytes, WBytes, RegBytes, OthersBytes
  <2>7. CASE byte1 = 232
    <3>1. name = "none"
      BY <2>3, <2>7 DEF HandlerBytes, DwBytes, SwBytes, WBytes, RegBytes, OthersBytes
    <3>2. PcBytes("call_0", byte1, 0)
      BY <2>7 DEF PcBytes
    <3>3. PcHandler[byte1] = "call_0"
      BY <1>1, <2>7, <3>2, NoPcHandler, PcEncoding DEF PcBytes
    <3> QED
      BY <2>2, <2>4, <3>1, <3>3
  <2> QED
    BY <2>5, <2>6, <2>7 DEF PushesWord
<1>3. \E v, pc : Retire(pc, push_stack(Store, v, 1), flags)
  BY <1>2 DEF op_push_0, op_push_1
<1>4. PICK v : regs' = push_stack(Store, v, 1).regs
  BY <1>3 DEF Retire
<1> QED
  BY <1>4, StoreType, PushMovesSP DEF Store

\* A word that ends at the highest frame or below lies in g_memory.
LEMMA WordInside ==
  ASSUME NEW sp \in Int, 0 <= sp, sp <= STACK_CAPACITY - 2
  PROVE  Extent(sp, 1) \subseteq 0 .. STACK_CAPACITY - 1
<1>1. STACK_CAPACITY \in Int
  BY DEF STACK_CAPACITY
<1>2. sp \in 0 .. STACK_CAPACITY - 1 /\ sp + 1 \in 0 .. STACK_CAPACITY - 1
  BY <1>1
<1> QED
  BY <1>2 DEF Extent

\* A call has room for its return address, a return writes nothing, and a push
\* stays below the innermost frame and so below the highest: it has not wrapped.
LEMMA StaysWithin ==
  ASSUME CallsInv, InMemory, OperandsWithin,
         [CallsNext]_CallsVars, [Disciplined]_CallsVars
  PROVE  InMemory'
<1>1. /\ TypeOK /\ mode = "INTERPRET"
      /\ frames \in Seq(Activations) /\ Len(frames) \in Nat /\ Len(frames) >= 1
  BY DEF CallsInv
<1>2. regs[SP] \in Int /\ 0 <= regs[SP] /\ regs[SP] <= 65535
  BY <1>1, CalleeSavedType
<1>3. CASE UNCHANGED CallsVars
  BY <1>3 DEF CallsVars, vars, InMemory
<1>4. CASE Call /\ Disciplined
  <2>1. Len(frames') = Len(frames) + 1 /\ frames'[1] = frames[1]
    BY <1>1, <1>4 DEF Call
  <2>2. regs[SP] >= 2 /\ PC + 4 <= UINT16_MAX
    BY <1>1, <1>4, <2>1 DEF Disciplined
  <2>3. PICK n \in 2 .. 4 : \E pc : Retire(pc, push_stack(Store, PC + n, 1), flags)
    BY <1>1, <1>4, <2>2, CallPushes DEF Call
  <2> DEFINE st2 == push_stack(Store, PC + n, 1)
  <2>4. Touches(Store, st2, Extent(Wrap(regs[SP] - 2), 1), Halves(SP, 1))
    BY <1>1, StoreType, PushTouches DEF Store
  <2>5. mem' = st2.mem
    BY <2>3 DEF Retire
  <2> HIDE DEF st2
  <2>6. DOMAIN mem' \subseteq DOMAIN mem \cup Extent(Wrap(regs[SP] - 2), 1)
    BY <2>4, <2>5 DEF Touches, Store
  <2>7. Wrap(regs[SP] - 2) = regs[SP] - 2
    BY <1>2, <2>2 DEF Wrap
  <2>8. /\ regs[SP] - 2 \in Int /\ 0 <= regs[SP] - 2
        /\ regs[SP] - 2 <= STACK_CAPACITY - 2
    BY <1>2, <2>2 DEF STACK_CAPACITY
  <2>9. Extent(regs[SP] - 2, 1) \subseteq 0 .. STACK_CAPACITY - 1
    BY <2>8, WordInside
  <2> QED
    BY <2>1, <2>6, <2>7, <2>9 DEF InMemory
<1>5. CASE Return /\ Disciplined
  <2>1. IsStore(Store) /\ SP \in RegNum
    BY <1>1, StoreType, StackPointer
  <2>2. PopStore(Store).mem = mem
    BY <2>1 DEF PopStore, Store
  <2>3. \A st, v : st.mem = mem /\ IsStore(st) => [st EXCEPT !.regs[SP] = v].mem = mem
    BY DEF IsStore
  <2>4. IsStore(PopStore(Store))
    BY <2>1, PopType
  <2>5. mem' = mem
    BY <1>5, <2>1, <2>2, <2>3, <2>4 DEF Return, op_ret, Retire, Skip, Store
  <2>6. frames'[1] = frames[1]
    BY <1>1, <1>5, ReturnedFrames
  <2> QED
    BY <2>5, <2>6 DEF InMemory
<1>6. CASE Other /\ Disciplined
  <2>1. MemoryKept /\ frames' = frames
    BY <1>1, <1>6, TurnFootprint DEF Other
  <2>2. ASSUME Running, PushesWord(byte1, byte2)
        PROVE  Extent(Wrap(regs[SP] - 2), 1) \subseteq 0 .. STACK_CAPACITY - 1
    <3>1. regs'[SP] = Wrap(regs[SP] - 2)
      BY <1>1, <1>6, <2>2, PushMoves
    <3>2. Wrap(regs[SP] - 2) \in Int /\ 0 <= Wrap(regs[SP] - 2)
      BY <1>2, WrapType, WordDef
    <3>3. regs'[SP] <= Innermost.sp
      BY <1>1, <1>6, <2>1 DEF Disciplined
    <3>4. /\ frames[1].sp \in Int /\ Innermost.sp \in Int
          /\ Innermost.sp <= frames[1].sp /\ frames[1].sp <= STACK_CAPACITY - 2
      BY <1>1, FramesType DEF InMemory, Innermost
    <3>5. Wrap(regs[SP] - 2) <= STACK_CAPACITY - 2
      BY <3>1, <3>2, <3>3, <3>4 DEF STACK_CAPACITY
    <3> QED
      BY <3>2, <3>5, WordInside
  <2>3. MemoryTargets \subseteq 0 .. STACK_CAPACITY - 1
    BY <2>2 DEF MemoryTargets, PushTargets, OperandsWithin, When
  <2> QED
    BY <2>1, <2>3 DEF MemoryKept, InMemory
<1> QED
  BY <1>3, <1>4, <1>5, <1>6 DEF CallsNext

\* SP wraps at 65536 and no push is checked.  Yet no push and no call writes
\* behind the 65535 bytes of g_memory while the program keeps its stack, through
\* any nesting of procedures; then the operands it addresses itself are all that
\* could, and if those lie within, everything does.
THEOREM StaysWithinMemory ==
  ASSUME Modes = {"INTERPRET"}, ImagesWithin
  PROVE  CallsSpec /\ ProgramDisciplined /\ []OperandsWithin => []WithinMemory
<1>1. CallsInit => CallsInv /\ InMemory
  <2>1. CallsInit => frames[1].sp = Images[prog].regs[SP] /\ prog \in DOMAIN Images
    BY DEF CallsInit, Init, Frame
  <2> QED
    BY <2>1, ProcedureInit DEF CallsInit, Init, ImagesWithin, InMemory
<1>2. CallsInv /\ InMemory /\ OperandsWithin /\ [CallsNext]_CallsVars
        /\ [Disciplined]_CallsVars => CallsInv' /\ InMemory'
  BY ProcedureStep, StaysWithin
<1>3. InMemory => WithinMemory
  <2>1. STACK_CAPACITY \in Int
    BY DEF STACK_CAPACITY
  <2>2. \A a \in 0 .. STACK_CAPACITY - 1 : a < STACK_CAPACITY
    BY <2>1
  <2> QED
    BY <2>2 DEF InMemory, WithinMemory
<1> QED
  BY <1>1, <1>2, <1>3, PTL DEF CallsSpec, ProgramDisciplined
=============================================================================
