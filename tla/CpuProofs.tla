----------------------------- MODULE CpuProofs ------------------------------
(***************************************************************************)
(* Every instruction of every program keeps the state of the interpreter   *)
(* well formed: the lemmas say what fetching and retiring preserve, then   *)
(* one step per handler.                                                   *)
(***************************************************************************)
EXTENDS Cpu, MachineProofs

-----------------------------------------------------------------------------
(* What is fetched *)

\* Any byte of the text buffer is a byte.
LEMMA TextType ==
  ASSUME TypeOK, NEW a \in Nat PROVE Text(a) \in Byte /\ TextWord(a) \in Word
<1>1. text \in Seq(Byte)
  BY ImagesAssumption DEF TypeOK
<1>2. 0 \in Byte
  BY ByteDef
<1>3. ASSUME NEW n \in Nat PROVE Text(n) \in Byte
  BY <1>1, <1>2 DEF Text
<1> QED
  BY <1>3, JoinType DEF TextWord

\* The store the handlers work on.
LEMMA StoreType == ASSUME TypeOK PROVE IsStore(Store)
  BY DEF TypeOK, Store, IsStore

\* The fields of two instruction bytes.
LEMMA FieldType ==
  ASSUME NEW b \in Byte
  PROVE  /\ FieldW(b) \in {0, 1} /\ FieldD(b) \in {0, 1}
         /\ Reg(b) \in RegNum /\ R_M(b) \in RegNum
         /\ DispSize(b) \in {0, 1, 2}
<1>1. b \in Int /\ 0 <= b /\ b <= 255
  BY ByteDef
<1>2. /\ FieldW(b) \in {0, 1} /\ FieldD(b) \in {0, 1}
      /\ Reg(b) \in RegNum /\ R_M(b) \in RegNum
  BY <1>1 DEF FieldW, FieldD, Reg, R_M, RegNum
<1>3. Mod(b) = 0 \/ Mod(b) = 1 \/ Mod(b) = 2 \/ Mod(b) = 3
  BY <1>1 DEF Mod
<1>4. DispSize(b) \in {0, 1, 2}
  BY <1>3 DEF DispSize
<1> QED
  BY <1>2, <1>4

\* Both instruction bytes and their fields.
LEMMA BytesType ==
  ASSUME TypeOK
  PROVE  /\ byte1 \in Byte /\ byte2 \in Byte
         /\ W \in {0, 1} /\ D \in {0, 1}
         /\ Reg(byte2) \in RegNum /\ R_M(byte2) \in RegNum
         /\ DispSize(byte2) \in {0, 1, 2} /\ Reg1 \in RegNum
<1>1. PC \in Nat /\ PC + 1 \in Nat
  BY WordDef DEF TypeOK
<1>2. byte1 \in Byte /\ byte2 \in Byte
  BY <1>1, TextType DEF byte1, byte2
<1> QED
  BY <1>2, FieldType DEF W, D, Reg1

\* get_mod yields a register or an effective address.
LEMMA GetModType ==
  ASSUME TypeOK, NEW at \in Word PROVE IsPlace(get_mod(at))
<1>1. at \in Nat
  BY WordDef
<1>2. Text(at) \in Int /\ TextWord(at) \in Word
  BY <1>1, TextType, ByteDef
<1>3. SignExtend16(Text(at)) \in Word /\ 0 \in Word
  BY <1>2, SignExtendType, WordDef
<1>4. Displacement(at) \in Word
  BY <1>2, <1>3, BytesType DEF Displacement
<1>5. EaBase(Store, R_M(byte2)) \in Int
  BY BytesType, StoreType, EaBaseType
<1>6. EaBase(Store, R_M(byte2)) + Displacement(at) \in Int
  BY <1>4, <1>5, WordDef
<1>7. Wrap(EaBase(Store, R_M(byte2)) + Displacement(at)) \in Word
  BY <1>6, WrapType
<1>8. CASE Mod(byte2) = 3
  BY <1>8, BytesType DEF get_mod, IsPlace
<1>9. CASE Mod(byte2) # 3 /\ Mod(byte2) = 0 /\ R_M(byte2) = 6
  BY <1>9, <1>4 DEF get_mod, IsPlace
<1>10. CASE Mod(byte2) # 3 /\ ~(Mod(byte2) = 0 /\ R_M(byte2) = 6)
  BY <1>10, <1>7 DEF get_mod, IsPlace
<1> QED
  BY <1>8, <1>9, <1>10

\* The operands of an instruction and where it ends.
LEMMA OperandType ==
  ASSUME TypeOK
  PROVE  /\ \A k \in Nat : Wrap(PC + k) \in Word
         /\ EndRM \in Word
         /\ IsPlace(RM) /\ IsPlace(ShiftRM)
         /\ IsPlace(RegOperand(Reg(byte2)))
         /\ IsPlace(MrrLeft(D)) /\ IsPlace(MrrRight(D))
<1>1. \A k \in Nat : Wrap(PC + k) \in Word
  BY WordDef, WrapType DEF TypeOK
<1>2. Wrap(PC + 1) \in Word /\ Wrap(PC + 2) \in Word
  BY <1>1
<1>3. EndRM \in Word
  BY <1>2, BytesType, WordDef, WrapType DEF EndRM
<1>4. IsPlace(RM) /\ IsPlace(ShiftRM)
  BY <1>2, GetModType DEF RM, ShiftRM
<1>5. IsPlace(RegOperand(Reg(byte2)))
  BY BytesType DEF IsPlace
<1>6. IsPlace(MrrLeft(D)) /\ IsPlace(MrrRight(D))
  BY <1>4, <1>5 DEF MrrLeft, MrrRight
<1> QED
  BY <1>1, <1>3, <1>4, <1>5, <1>6

\* The immediates.
LEMMA ImmediateType ==
  ASSUME TypeOK, NEW s \in {0, 1}
  PROVE  /\ Immediate(s) \in Word /\ EndImm(s) \in Word
         /\ AccImm \in Word /\ Wrap(PC + 2 + W) \in Word
<1>0. EndRM \in Word /\ PC \in Word
  BY OperandType DEF TypeOK
<1>1. EndRM \in Nat /\ PC + 1 \in Nat /\ PC \in Nat
  BY <1>0, WordDef
<1>2. /\ TextWord(EndRM) \in Word /\ Text(EndRM) \in Word
      /\ TextWord(PC + 1) \in Word /\ Text(PC + 1) \in Word
  BY <1>1, TextType, ByteIsWord
<1>3. ImmSize(s) \in {1, 2}
  BY DEF ImmSize
<1>4. Immediate(s) \in Word /\ AccImm \in Word
  BY <1>2 DEF Immediate, AccImm
<1>5. EndRM + ImmSize(s) \in Int /\ PC + 2 + W \in Int
  BY <1>1, <1>3, BytesType
<1>6. EndImm(s) \in Word /\ Wrap(PC + 2 + W) \in Word
  BY <1>5, WrapType DEF EndImm
<1> QED
  BY <1>4, <1>6

-----------------------------------------------------------------------------
(* What a completed instruction preserves *)

\* An instruction that retires with a store keeps the state well formed.
LEMMA RetireType ==
  ASSUME TypeOK, NEW pc \in Word, NEW s, IsStore(s), NEW f \in Flags, Retire(pc, s, f)
  PROVE  TypeOK'
  BY DEF TypeOK, Retire, IsStore, IsMem

\* An instruction that only moves PC keeps the state well formed.
LEMMA SkipType ==
  ASSUME TypeOK, NEW pc \in Word, Skip(pc) PROVE TypeOK'
  BY StoreType, RetireType DEF Skip, TypeOK

\* The end of the process keeps the state well formed.
LEMMA HaltType ==
  ASSUME TypeOK, NEW how \in {"return", "exit", "crash"},
         NEW n \in Int, -32768 <= n, n <= 32767, Halt(how, n)
  PROVE  TypeOK'
  BY DEF TypeOK, Halt, IsMem

\* Writing a result to an operand keeps the state well formed.
LEMMA ResultType ==
  ASSUME TypeOK, NEW o, IsPlace(o), NEW w, NEW res \in Word, NEW f \in Flags,
         NEW pc \in Word, Retire(pc, set_data(Store, o, w, res), f)
  PROVE  TypeOK'
  BY StoreType, PlaceType, RetireType

-----------------------------------------------------------------------------
(* The handlers, group by group *)

\* op_dw.
LEMMA DwType ==
  ASSUME TypeOK, \/ op_mov_0 \/ op_add_0 \/ op_sub_0 \/ op_cmp_0
                 \/ op_and_0 \/ op_or_0 \/ op_xor_0
  PROVE  TypeOK'
<1>1. DwLeft \in Word /\ DwRight \in Word
  BY StoreType, OperandType, PlaceType, WordDef DEF DwLeft, DwRight
<1>2. ASSUME NEW res \in Word, NEW f \in Flags, DwRetire(res, f) PROVE TypeOK'
  BY <1>2, OperandType, ResultType DEF DwRetire
<1>3. flags \in Flags
  BY DEF TypeOK
<1>4. CASE op_mov_0
  BY <1>1, <1>3, <1>4, <1>2 DEF op_mov_0, DwRetire, DwRight
<1>5. CASE op_add_0
  BY <1>1, <1>2, <1>5, SumType, AddFlagsType DEF op_add_0
<1>6. CASE op_sub_0
  BY <1>1, <1>2, <1>6, SumType, SubFlagsType DEF op_sub_0
<1>7. CASE op_cmp_0
  BY <1>1, <1>7, StoreType, OperandType, RetireType, SubFlagsType DEF op_cmp_0
<1>8. CASE op_and_0
  BY <1>1, <1>2, <1>3, <1>8, BitwiseType, UnaryFlagsType DEF op_and_0
<1>9. CASE op_or_0
  BY <1>1, <1>2, <1>3, <1>9, BitwiseType, UnaryFlagsType DEF op_or_0
<1>10. CASE op_xor_0
  BY <1>1, <1>2, <1>3, <1>10, BitwiseType, UnaryFlagsType DEF op_xor_0
<1> QED
  BY <1>4, <1>5, <1>6, <1>7, <1>8, <1>9, <1>10

\* op_sw, whose operands may be overwritten (Overrun).
LEMMA SwType ==
  ASSUME TypeOK, op_add_1 \/ op_sub_1 \/ op_cmp_1
  PROVE  TypeOK'
<1>1. RmData \in Word
  BY StoreType, OperandType, PlaceType, WordDef DEF RmData
<1>2. Immediate(D) \in Word /\ EndImm(D) \in Word
  BY BytesType, ImmediateType
<1>3. SignExtend16(Immediate(D)) \in Word
  BY <1>2, WordDef, SignExtendType
<1>4. ASSUME Halt("exit", 1) PROVE TypeOK'
  BY <1>4, HaltType
<1>5. CASE op_add_1
  <2>1. CASE Retire(EndImm(D), set_data(Store, RM, W, Add(RmData, Immediate(D))),
                    AddImmFlags(RM.type = "ea", RmData, Immediate(D), W))
    BY <2>1, <1>1, <1>2, OperandType, SumType, AddFlagsType, ResultType
  <2>2. ASSUME NEW ea \in Junk, NEW imm \in Junk,
               Retire(EndImm(D),
                      set_memory(Store, ea, W, Add(get_memory(Store, ea, W), imm)),
                      AddImmFlags(TRUE, get_memory(Store, ea, W), imm, W))
        PROVE  TypeOK'
    <3>1. ea \in Word /\ imm \in Word /\ get_memory(Store, ea, W) \in Word
      BY JunkAssumption, StoreType, GetMemoryType
    <3>2. Add(get_memory(Store, ea, W), imm) \in Word
      BY <3>1, SumType
    <3>3. IsStore(set_memory(Store, ea, W, Add(get_memory(Store, ea, W), imm)))
      BY <3>1, <3>2, StoreType, SetMemoryType
    <3>4. AddImmFlags(TRUE, get_memory(Store, ea, W), imm, W) \in Flags
      BY <3>1, AddFlagsType
    <3> QED
      BY <2>2, <3>3, <3>4, <1>2, RetireType
  <2> QED
    BY <1>5, <2>1, <2>2 DEF op_add_1
<1>6. CASE op_sub_1
  <2>1. CASE Retire(EndImm(D), set_data(Store, RM, W, Sub(RmData, Immediate(D))),
                    CmpFlags(RmData, Immediate(D), W))
    BY <2>1, <1>1, <1>2, OperandType, SumType, SubFlagsType, ResultType
  <2> QED
    BY <1>4, <1>6, <2>1 DEF op_sub_1
<1>7. CASE op_cmp_1
  <2>1. ASSUME NEW imm \in Word, Retire(EndImm(D), Store, CmpFlags(RmData, imm, W))
        PROVE  TypeOK'
    BY <2>1, <1>1, <1>2, StoreType, SubFlagsType, RetireType
  <2> QED
    BY <1>2, <1>3, <1>4, <1>7, <2>1 DEF op_cmp_1
<1> QED
  BY <1>5, <1>6, <1>7

\* op_w: one operand, or an operand and an immediate.
LEMMA WType ==
  ASSUME TypeOK,
         \/ op_mov_1 \/ op_and_1 \/ op_or_1 \/ op_xor_1 \/ op_test_1 \/ op_test_0
         \/ op_inc_0 \/ op_dec_0 \/ op_neg \/ op_xchg_0 \/ op_div \/ op_cmp_2
  PROVE  TypeOK'
<1>1. RmData \in Word /\ get_data(Store, RegOperand(Reg(byte2)), W) \in Word
  BY StoreType, OperandType, PlaceType, WordDef DEF RmData
<1>2. /\ Immediate(0) \in Word /\ EndImm(0) \in Word /\ AccImm \in Word
      /\ Wrap(PC + 2 + W) \in Word
  BY ImmediateType
<1>3. flags \in Flags /\ EndRM \in Word
  BY OperandType DEF TypeOK
<1>4. ASSUME NEW res \in Word, NEW f \in Flags, ImmRetire(res, f) PROVE TypeOK'
  BY <1>2, <1>4, OperandType, ResultType DEF ImmRetire
<1>5. ASSUME NEW res \in Word, NEW f \in Flags,
             Retire(EndRM, set_data(Store, RM, W, res), f)
      PROVE  TypeOK'
  BY <1>3, <1>5, OperandType, ResultType
<1>6. CASE op_mov_1
  BY <1>2, <1>3, <1>4, <1>6 DEF op_mov_1
<1>7. CASE op_and_1
  BY <1>3, <1>4, <1>7, BitwiseType, UnaryFlagsType DEF op_and_1
<1>8. CASE op_or_1
  BY <1>3, <1>4, <1>8, BitwiseType, UnaryFlagsType DEF op_or_1
<1>9. CASE op_xor_1
  BY <1>3, <1>4, <1>9, BitwiseType, UnaryFlagsType DEF op_xor_1
<1>10. CASE op_test_1
  BY <1>2, <1>3, <1>10, BitwiseType, UnaryFlagsType, StoreType, RetireType DEF op_test_1
<1>11. CASE op_test_0
  BY <1>3, <1>11, BitwiseType, UnaryFlagsType, StoreType, RetireType DEF op_test_0
<1>12. /\ Wrap(RmData + 1) \in Word /\ Wrap(RmData - 1) \in Word
       /\ Wrap(-RmData) \in Word
  BY <1>1, WordDef, WrapType
<1>13. CASE op_inc_0
  BY <1>1, <1>3, <1>5, <1>12, <1>13, UnaryFlagsType DEF op_inc_0
<1>14. CASE op_dec_0
  BY <1>1, <1>3, <1>5, <1>12, <1>14, UnaryFlagsType DEF op_dec_0
<1>15. CASE op_neg
  BY <1>1, <1>3, <1>5, <1>12, <1>15, UnaryFlagsType DEF op_neg
<1>16. CASE op_xchg_0
  <2> DEFINE other == RegOperand(Reg(byte2))
             moved == set_data(Store, RM, W, get_data(Store, other, W))
  <2>1. IsStore(moved)
    BY <1>1, StoreType, OperandType, PlaceType
  <2>2. IsStore(set_data(moved, other, W, RmData))
    BY <2>1, <1>1, OperandType, PlaceType
  <2> QED
    BY <2>2, <1>3, <1>16, RetireType DEF op_xchg_0
<1>17. CASE op_div
  <2>1. AX \in RegNum /\ DX \in RegNum /\ SP \in RegNum
    BY DEF AX, DX, SP, RegNum
  <2>2. regs \in [RegNum -> Word] /\ regs[AX] \in Word /\ regs[DX] \in Word
    BY <2>1 DEF TypeOK
  <2>3. CASE Skip(EndRM)
    BY <2>3, <1>3, SkipType
  <2>4. CASE Halt("exit", 0)
    BY <2>4, HaltType
  <2>5. ASSUME NEW q \in Word, NEW r \in Word,
               Retire(EndRM, [Store EXCEPT !.regs = [@ EXCEPT ![AX] = q, ![DX] = r]], flags)
        PROVE  TypeOK'
    <3>1. [regs EXCEPT ![AX] = q, ![DX] = r] \in [RegNum -> Word]
      BY <2>1, <2>2
    <3>2. [Store EXCEPT !.regs = [@ EXCEPT ![AX] = q, ![DX] = r]]
            = [regs |-> [regs EXCEPT ![AX] = q, ![DX] = r], mem |-> mem]
      BY DEF Store
    <3>3. IsStore([regs |-> [regs EXCEPT ![AX] = q, ![DX] = r], mem |-> mem])
      BY <3>1 DEF IsStore, TypeOK
    <3> QED
      BY <2>5, <3>2, <3>3, <1>3, RetireType
  <2>6. ASSUME NEW q \in Word, NEW r \in Word,
               Retire(EndRM, set_registers(set_registers(Store, AX, 0, q), SP, 0, r), flags)
        PROVE  TypeOK'
    <3>1. IsStore(set_registers(Store, AX, 0, q))
      BY <2>1, StoreType, SetRegistersType
    <3>2. IsStore(set_registers(set_registers(Store, AX, 0, q), SP, 0, r))
      BY <2>1, <3>1, SetRegistersType
    <3> QED
      BY <2>6, <3>2, <1>3, RetireType
  <2>7. ASSUME RmData # 0
        PROVE  /\ DivLong(regs[DX], regs[AX], RmData).q \in Word
               /\ DivLong(regs[DX], regs[AX], RmData).r \in Word
               /\ LowByte(regs[AX] \div RmData) \in Word
               /\ LowByte(regs[AX] % RmData) \in Word
    <3>1. RmData \in Nat /\ RmData > 0 /\ regs[AX] \in Int
      BY <1>1, <2>2, <2>7, WordDef
    <3>2. regs[AX] \div RmData \in Int /\ regs[AX] % RmData \in Int
      BY <3>1, DivisionType
    <3> QED
      BY <3>2, <1>1, <2>2, <2>7, DivLongType, HalvesType, ByteIsWord
  <2> QED
    BY <1>17, <2>3, <2>4, <2>5, <2>6, <2>7 DEF op_div
<1>18. CASE op_cmp_2
  <2>1. ASSUME NEW r \in Word,
               Retire(Wrap(PC + 2 + W), Store, CmpFlags(get_registers(Store, AX, W), r, W))
        PROVE  TypeOK'
    <3>1. get_registers(Store, AX, W) \in Word
      BY StoreType, GetRegistersType DEF AX, RegNum
    <3> QED
      BY <2>1, <3>1, <1>2, StoreType, SubFlagsType, RetireType
  <2>2. (IF W = 1 THEN {AccImm} ELSE Junk) \subseteq Word
    BY <1>2, JunkAssumption
  <2> QED
    BY <1>18, <2>1, <2>2 DEF op_cmp_2
<1> QED
  BY <1>6, <1>7, <1>8, <1>9, <1>10, <1>11, <1>13, <1>14, <1>15, <1>16, <1>17, <1>18

\* instructs_reg_only and the computations of op_others.
LEMMA RegType ==
  ASSUME TypeOK,
         \/ op_xchg_1 \/ op_inc_1 \/ op_dec_1 \/ op_lea \/ op_mov_2
         \/ op_cbw \/ op_cwd \/ op_sub_2
  PROVE  TypeOK'
<1>1. AX \in RegNum /\ DX \in RegNum /\ Reg1 \in RegNum /\ Reg(byte2) \in RegNum
  BY BytesType DEF AX, DX, RegNum
<1>2. regs[AX] \in Word /\ regs[Reg1] \in Word /\ flags \in Flags
  BY <1>1 DEF TypeOK
<1>3. Wrap(PC + 1) \in Word /\ Wrap(PC + 2 + W) \in Word /\ EndRM \in Word
  BY OperandType, ImmediateType
<1>4. ASSUME NEW pc \in Word, NEW r \in RegNum, NEW w, NEW v \in Word, NEW f \in Flags,
             Retire(pc, set_registers(Store, r, w, v), f)
      PROVE  TypeOK'
  BY <1>4, StoreType, SetRegistersType, RetireType
<1>5. Wrap(regs[Reg1] + 1) \in Word /\ Wrap(regs[Reg1] - 1) \in Word
  BY <1>2, WordDef, WrapType
<1>6. CASE op_xchg_1
  <2>1. IsStore(SetReg1(regs[AX]))
    BY <1>1, <1>2, StoreType, SetRegistersType DEF SetReg1
  <2>2. IsStore(set_registers(SetReg1(regs[AX]), AX, 1, regs[Reg1]))
    BY <2>1, <1>1, <1>2, SetRegistersType
  <2> QED
    BY <2>2, <1>2, <1>3, <1>6, RetireType DEF op_xchg_1
<1>7. CASE op_inc_1
  BY <1>1, <1>2, <1>3, <1>4, <1>5, <1>7, UnaryFlagsType DEF op_inc_1, SetReg1
<1>8. CASE op_dec_1
  BY <1>1, <1>2, <1>3, <1>4, <1>5, <1>8, UnaryFlagsType DEF op_dec_1, SetReg1
<1>9. CASE op_lea
  <2>1. CASE RM.type = "ea"
    <3>1. RM.val \in Word
      BY <2>1, OperandType DEF IsPlace, RegOperand, EaOperand
    <3> QED
      BY <2>1, <3>1, <1>1, <1>2, <1>3, <1>4, <1>9 DEF op_lea
  <2>2. CASE RM.type # "ea"
    BY <2>2, <1>2, <1>3, <1>9, StoreType, RetireType DEF op_lea
  <2> QED
    BY <2>1, <2>2
<1>10. CASE op_mov_2
  <2>1. PC \in Nat /\ PC + 1 \in Nat /\ byte1 \in Int
    BY BytesType, WordDef, ByteDef DEF TypeOK
  <2>2. TextWord(PC + 1) \in Word /\ byte2 \in Word
    BY <2>1, TextType, BytesType, ByteIsWord
  <2> DEFINE w    == (byte1 \div 8) % 2
             data == IF w = 1 THEN TextWord(PC + 1) ELSE byte2
  <2>3. w \in Int
    BY <2>1
  <2>4. data \in Word
    BY <2>2
  <2>5. Retire(Wrap(PC + 2 + w), set_registers(Store, Reg1, w, data), flags)
    BY <1>10 DEF op_mov_2
  <2> HIDE DEF w, data
  <2>6. Wrap(PC + 2 + w) \in Word
    BY <2>1, <2>3, WrapType
  <2> QED
    BY <2>4, <2>5, <2>6, <1>1, <1>2, <1>4
<1>11. CASE op_cbw
  <2>1. SignExtend16(regs[AX]) \in Word
    BY <1>2, WordDef, SignExtendType
  <2> QED
    BY <2>1, <1>1, <1>2, <1>3, <1>4, <1>11 DEF op_cbw
<1>12. CASE op_cwd
  <2>1. (IF IsNeg16(regs[AX]) THEN 65535 ELSE 0) \in Word
    BY WordDef
  <2> QED
    BY <2>1, <1>1, <1>2, <1>3, <1>4, <1>12 DEF op_cwd
<1>13. CASE op_sub_2
  <2> DEFINE l == get_registers(Store, AX, W)
  <2>1. l \in Word /\ AccImm \in Word
    BY <1>1, StoreType, GetRegistersType, ImmediateType
  <2>2. Sub(l, AccImm) \in Word /\ CmpFlags(l, AccImm, W) \in Flags
    BY <2>1, SumType, SubFlagsType
  <2> QED
    BY <2>2, <1>1, <1>3, <1>4, <1>13 DEF op_sub_2
<1> QED
  BY <1>6, <1>7, <1>8, <1>9, <1>10, <1>11, <1>12, <1>13

\* op_logic.
LEMMA LogicType ==
  ASSUME TypeOK, op_shl \/ op_sar \/ op_rotate
  PROVE  TypeOK'
<1>1. ShiftData \in Word
  BY StoreType, OperandType, PlaceType, WordDef DEF ShiftData
<1>2. ShiftCount \in Byte
  <2>1. regs[CX] \in Int
    BY WordDef DEF TypeOK, CX, RegNum
  <2>2. LowByte(regs[CX]) \in Byte /\ 1 \in Byte
    BY <2>1, HalvesType, ByteDef
  <2> QED
    BY <2>2 DEF ShiftCount
<1>3. flags \in Flags
  BY DEF TypeOK
<1>4. ASSUME NEW res \in Word, NEW f \in Flags, ShiftRetire(res, f) PROVE TypeOK'
  BY <1>4, OperandType, ResultType DEF ShiftRetire
<1>5. CASE op_shl
  BY <1>1, <1>2, <1>3, <1>4, <1>5, ShiftType DEF op_shl
<1>6. CASE op_sar
  BY <1>1, <1>2, <1>3, <1>4, <1>6, ShiftType DEF op_sar
<1>7. CASE op_rotate
  <2>1. PICK res \in Junk : ShiftRetire(res, [flags EXCEPT !.ZF = (res = 0),
                                                          !.SF = IsNeg(res, W)])
    BY <1>7 DEF op_rotate
  <2>2. res \in Word /\ IsNeg(res, W) \in BOOLEAN
    BY JunkAssumption, WordDef, IsNegType
  <2> DEFINE z == res = 0
             n == IsNeg(res, W)
  <2>3. z \in BOOLEAN /\ n \in BOOLEAN
    BY <2>2
  <2>4. ShiftRetire(res, [flags EXCEPT !.ZF = z, !.SF = n])
    BY <2>1
  <2> HIDE DEF z, n
  <2>5. [flags EXCEPT !.ZF = z, !.SF = n] \in Flags
    BY <2>3, <1>3 DEF Flags
  <2> QED
    BY <2>2, <2>4, <2>5, <1>4
<1> QED
  BY <1>5, <1>6, <1>7

\* Handlers that only step over their instruction.
LEMMA NoEffectType == ASSUME TypeOK, NoEffect PROVE TypeOK'
<1>1. /\ Wrap(PC + 1) \in Word /\ Wrap(PC + 2) \in Word /\ Wrap(PC + 3) \in Word
      /\ EndRM \in Word
  BY OperandType
<1>2. Wrap(PC + 2 + W) \in Word /\ EndImm(D) \in Word
  BY BytesType, ImmediateType
<1>3. PC \in Word /\ PcEntry \in Word
  BY <1>1 DEF TypeOK, PcEntry
<1> QED
  BY <1>1, <1>2, <1>3, SkipType
     DEF NoEffect, SkipByte, SkipByte2, SkipAcc, SkipAddr, SkipRM, op_ssb_1, unmatched

\* The stack instructions and the transfers of control.
LEMMA ControlType == ASSUME TypeOK, StackAndControl PROVE TypeOK'
<1>1. /\ Wrap(PC + 1) \in Word /\ Wrap(PC + 3) \in Word /\ EndRM \in Word
      /\ flags \in Flags /\ PC \in Nat /\ PC + 1 \in Nat
  <2>1. PC \in Word /\ flags \in Flags
    BY DEF TypeOK
  <2> QED
    BY <2>1, OperandType, WordDef
<1>2. /\ Reg1 \in RegNum /\ SP \in RegNum /\ CX \in RegNum
      /\ \A r \in RegNum : regs[r] \in Word
  BY BytesType DEF SP, CX, RegNum, TypeOK
<1>3. IsStore(Store) /\ IsStore(PopStore(Store)) /\ PopValue(Store) \in Word
  BY StoreType, PopType
<1>4. ASSUME NEW v \in Word PROVE IsStore(push_stack(Store, v, 1))
  BY StoreType, PushType
<1>5. ASSUME NEW s, IsStore(s) PROVE get_data(s, RM, 1) \in Word
  BY <1>5, OperandType, PlaceType, WordDef
<1>6. CASE op_push_0
  BY <1>1, <1>3, <1>4, <1>5, <1>6, RetireType DEF op_push_0
<1>7. CASE op_pop_0
  <2>1. IsStore(set_data(PopStore(Store), RM, 1, PopValue(Store)))
    BY <1>3, OperandType, PlaceType
  <2> QED
    BY <2>1, <1>1, <1>7, RetireType DEF op_pop_0
<1>8. CASE op_push_1
  BY <1>1, <1>2, <1>4, <1>8, RetireType DEF op_push_1
<1>9. CASE op_pop_1
  <2>1. IsStore(set_registers(PopStore(Store), Reg1, 1, PopValue(Store)))
    BY <1>2, <1>3, SetRegistersType
  <2> QED
    BY <2>1, <1>1, <1>9, RetireType DEF op_pop_1
<1>10. CASE op_push_2
  BY <1>1, <1>10, SkipType, HaltType DEF op_push_2
<1>11. CASE op_call_1
  <2> DEFINE pushed == push_stack(Store, EndRM, 1)
  <2>1. IsStore(pushed)
    BY <1>1, <1>4
  <2>2. get_data(pushed, RM, 1) \in Word
    BY <2>1, <1>5
  <2>3. CASE Skip(EndRM)
    BY <2>3, <1>1, SkipType
  <2>4. CASE Retire(get_data(pushed, RM, 1), pushed, flags)
    BY <2>1, <2>2, <2>4, <1>1, RetireType
  <2> QED
    BY <2>3, <2>4, <1>11 DEF op_call_1
<1>12. CASE op_jmp_2
  <2>1. (IF mode = "DISSASSEMBLE" THEN EndRM ELSE get_data(Store, RM, 1)) \in Word
    BY <1>1, <1>3, <1>5
  <2> QED
    BY <2>1, <1>12, SkipType DEF op_jmp_2
<1>13. CASE op_ret
  <2>1. CASE Skip(Wrap(PC + 1))
    BY <2>1, <1>1, SkipType
  <2>2. CASE Retire(PopValue(Store), PopStore(Store), flags)
    BY <2>2, <1>1, <1>3, RetireType
  <2>3. CASE Fetch("ret_1") /\ ~Fetch("ret_0")
    <3> DEFINE s  == IF mode = "DISSASSEMBLE" THEN Store ELSE PopStore(Store)
               pc == IF mode = "DISSASSEMBLE" THEN Wrap(PC + 3) ELSE PopValue(Store)
               sp == Wrap(s.regs[SP] + TextWord(PC + 1))
    <3>1. IsStore(s) /\ pc \in Word
      BY <1>1, <1>3
    <3>2. Retire(pc, [s EXCEPT !.regs[SP] = sp], flags)
      BY <2>3, <1>13 DEF op_ret
    <3> HIDE DEF s, pc
    <3>3. s.regs[SP] \in Word /\ TextWord(PC + 1) \in Word
      BY <3>1, <1>1, <1>2, TextType DEF IsStore
    <3>4. sp \in Word
      BY <3>3, WordDef, WrapType
    <3> HIDE DEF sp
    <3> QED
      BY <3>1, <3>2, <3>4, <1>1, <1>2, ExceptRegister, RetireType
  <2>4. CASE Fetch("ret_0")
    BY <2>1, <2>2, <2>4, <1>13 DEF op_ret, Fetch
  <2> QED
    BY <2>3, <2>4, <1>13 DEF op_ret
<1>14. PcEntry \in Nat /\ PcEntry + 1 \in Nat
  <2>1. Wrap(PC + 1) \in Nat
    BY <1>1, WordDef
  <2>2. PcEntry \in Nat
    BY <2>1, <1>1 DEF PcEntry
  <2> QED
    BY <2>2
<1> DEFINE next2 == Wrap(PcEntry + 2)
           next3 == Wrap(PcEntry + 3)
           near  == Wrap(next3 + TextWord(PcEntry + 1))
           short == Wrap(next2 + SignExtend16(Text(PcEntry + 1)))
<1>15. next2 \in Word /\ next3 \in Word
  BY <1>14, WrapType
<1>16. near \in Word /\ short \in Word
  <2>1. TextWord(PcEntry + 1) \in Word /\ Text(PcEntry + 1) \in Byte
    BY <1>14, TextType
  <2>2. SignExtend16(Text(PcEntry + 1)) \in Word
    BY <2>1, ByteDef, SignExtendType
  <2>3. next3 + TextWord(PcEntry + 1) \in Int
        /\ next2 + SignExtend16(Text(PcEntry + 1)) \in Int
    BY <2>1, <2>2, <1>15, WordDef
  <2> QED
    BY <2>3, WrapType
<1>17. ASSUME NEW pc1 \in Word, NEW pc2 \in Word, Jump(pc1, pc2) PROVE TypeOK'
  BY <1>17, SkipType DEF Jump
<1>18. CASE op_call_0
  <2>1. IsStore(push_stack(Store, next3, 1))
    BY <1>4, <1>15
  <2>2. Skip(next3) \/ Retire(near, push_stack(Store, next3, 1), flags)
    BY <1>18 DEF op_call_0
  <2> HIDE DEF next3, near
  <2> QED
    BY <2>1, <2>2, <1>1, <1>15, <1>16, SkipType, RetireType
<1>19. CASE op_jmp
  <2>1. Jump(next3, near) \/ Jump(next2, short)
    BY <1>19 DEF op_jmp
  <2> HIDE DEF next2, next3, near, short
  <2> QED
    BY <2>1, <1>15, <1>16, <1>17
<1>20. CASE op_cond_jmp
  <2>1. Jump(next2, short) \/ Skip(next2)
    BY <1>20 DEF op_cond_jmp
  <2> HIDE DEF next2, short
  <2> QED
    BY <2>1, <1>15, <1>16, <1>17, SkipType
<1> QED
  BY <1>6, <1>7, <1>8, <1>9, <1>10, <1>11, <1>12, <1>13, <1>18, <1>19, <1>20
     DEF StackAndControl

\* The system calls.
LEMMA SyscallType == ASSUME TypeOK, Syscalls PROVE TypeOK'
<1>1. Wrap(PC + 2) \in Word /\ flags \in Flags
  BY OperandType DEF TypeOK
<1>2. ASSUME NEW offset \in Nat PROVE Message(offset) \in Word
  BY StoreType, GetMemoryType DEF Message
<1>3. m1_i1 \in Word /\ m1_i2 \in Word /\ m1_p1 \in Word
  BY <1>2 DEF m1_i1, m1_i2, m1_p1
<1>4. 0 \in Word /\ 65514 \in Word /\ AX \in RegNum
  BY WordDef DEF AX, RegNum
<1>5. IsStore(Cleared)
  BY <1>4, StoreType, SetRegistersType DEF Cleared
<1>6. ASSUME NEW s, IsStore(s), NEW offset \in Nat, NEW v \in Word
      PROVE  IsStore(Reply(s, offset, v))
  <2>1. regs[BX] + offset \in Int
    <3>1. BX \in RegNum
      BY DEF BX, RegNum
    <3>2. regs[BX] \in Word
      BY <3>1 DEF TypeOK
    <3> QED
      BY <3>2, WordDef
  <2>2. Wrap(regs[BX] + offset) \in Word
    BY <2>1, WrapType
  <2> QED
    BY <2>2, <1>6, SetMemoryType DEF Reply
<1>7. CASE sys_exit_1
  BY <1>3, <1>7, SignedType, HaltType DEF sys_exit_1
<1>8. CASE sys_write_4
  <2> DEFINE written == [i \in 1 .. m1_i2 |-> ByteAt(mem, m1_p1 + i - 1)]
  <2>1. m1_i2 \in Nat
    BY <1>3, WordDef
  <2>2. \A i \in 1 .. m1_i2 : ByteAt(mem, m1_p1 + i - 1) \in Byte
    BY ByteAtType DEF TypeOK
  <2>3. written \in Seq(Byte)
    BY <2>1, <2>2
  <2> HIDE DEF written
  <2>4. out \o written \in Seq(Byte)
    BY <2>3 DEF TypeOK
  <2>5. IsStore(Reply(Cleared, 2, m1_i2))
    BY <1>3, <1>5, <1>6
  <2>6. /\ out' = out \o written /\ PC' = Wrap(PC + 2)
        /\ regs' = Cleared.regs /\ mem' = Reply(Cleared, 2, m1_i2).mem
        /\ UNCHANGED <<prog, text, a_text, mode, flags, status, code>>
    BY <1>8 DEF sys_write_4, written
  <2> QED
    BY <2>4, <2>5, <2>6, <1>1, <1>5 DEF TypeOK, IsStore, IsMem
<1>9. CASE sys_brk_17
  <2>1. IsStore(Reply(Reply(Cleared, 2, 0), 18, m1_p1))
    BY <1>3, <1>4, <1>5, <1>6
  <2> QED
    BY <2>1, <1>1, <1>9, RetireType DEF sys_brk_17
<1>10. CASE sys_ioctl_54
  <2>1. IsStore(Reply(Cleared, 2, 65514))
    BY <1>4, <1>5, <1>6
  <2> QED
    BY <2>1, <1>1, <1>10, RetireType DEF sys_ioctl_54
<1>11. CASE sys_missing
  BY <1>11, HaltType DEF sys_missing
<1>12. CASE int_disassemble
  BY <1>1, <1>12, SkipType DEF int_disassemble
<1> QED
  BY <1>7, <1>8, <1>9, <1>10, <1>11, <1>12 DEF Syscalls

-----------------------------------------------------------------------------
(* The invariant *)

\* main and init_stack leave a well-formed state.
LEMMA InitType == Init => TypeOK
<1>1. 0 \in Word /\ <<>> \in Seq(Byte)
  BY WordDef
<1> QED
  BY <1>1, ImagesAssumption, NoFlagsType DEF Init, TypeOK

\* Every step of the loop keeps the state well formed.
LEMMA NextType == ASSUME TypeOK, [Next]_vars PROVE TypeOK'
<1>1. CASE Computation
  BY <1>1, DwType, SwType, WType, RegType, LogicType DEF Computation
<1>2. CASE StackAndControl
  BY <1>2, ControlType
<1>3. CASE NoEffect
  BY <1>3, NoEffectType
<1>4. CASE Syscalls
  BY <1>4, SyscallType
<1>5. CASE main_return
  BY <1>5, HaltType DEF main_return
<1>6. CASE UNCHANGED vars
  BY <1>6 DEF vars, TypeOK, IsMem
<1> QED
  BY <1>1, <1>2, <1>3, <1>4, <1>5, <1>6 DEF Next

\* Whatever the program run, PC and the registers stay words although the
\* handlers compute on promoted ints, memory only ever holds bytes at
\* addresses of its 65536 bytes (and the one a word at 0xffff overhangs),
\* the flags stay defined and the status of exit an int16_t.
THEOREM CpuTypeCorrect == Spec => []TypeOK
<1>1. Init => TypeOK
  BY InitType
<1>2. TypeOK /\ [Next]_vars => TypeOK'
  BY NextType
<1> QED
  BY <1>1, <1>2, PTL DEF Spec
=============================================================================
