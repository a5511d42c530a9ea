------------------------- MODULE DisassemblyProofs -------------------------
(***************************************************************************)
(* Every handler consumes the bytes of its instruction, whatever the         *)
(* program: first the length of each form of instruction, then what the      *)
(* handlers do with PC.                                                     *)
(***************************************************************************)
EXTENDS Listing, CpuProofs, DecoderProofs

-----------------------------------------------------------------------------
(* The length of an instruction, from the handler that takes it *)

\* get_mod and the encoding agree on displacements.
LEMMA DisplacementLength ==
  ASSUME NEW b \in Byte PROVE Sweep!DisplacementBytes(b) = DispSize(b)
<1>1. b \in Int /\ 0 <= b /\ b <= 255
  BY ByteDef
<1>2. CASE b < 64
  <2>1. Mod(b) = 0 /\ (R_M(b) = 6 <=> b % 8 = 6)
    BY <1>1, <1>2 DEF Mod, R_M
  <2>2. Sweep!DisplacementBytes(b) = IF b % 8 = 6 THEN 2 ELSE 0
    BY <1>1, <1>2 DEF Sweep!DisplacementBytes
  <2> QED
    BY <2>1, <2>2 DEF DispSize
<1>3. CASE 64 <= b /\ b < 128
  BY <1>1, <1>3 DEF Mod, DispSize, Sweep!DisplacementBytes
<1>4. CASE 128 <= b /\ b < 192
  BY <1>1, <1>4 DEF Mod, DispSize, Sweep!DisplacementBytes
<1>5. CASE 192 <= b
  BY <1>1, <1>5 DEF Mod, DispSize, Sweep!DisplacementBytes
<1> QED
  BY <1>1, <1>2, <1>3, <1>4, <1>5

OneByteHandlers ==
  OneByteNoOps \cup {"push_1", "pop_1", "xchg_1", "inc_1", "dec_1",
                     "cbw", "cwd", "push_2", "ret_0"}

ByteHandlers == {"in_0", "out_0", "int_0", "rep"}
WordHandlers == {"mov_3", "mov_4", "ret_1"}

RmHandlers  == PrintMrr \cup PrintMr \cup PrintMrVw \cup ModRmNoOps
AccHandlers == AccumulatorBefore \cup AccumulatorAfter

\* The bytes of an immediate, as ImmSize finds them.
ImmediateBytes(b1, s) == IF s = 0 /\ FieldW(b1) = 1 THEN 2 ELSE 1

\* The encoding gives the bytes of each kind of handler the length its
\* handlers step over.
LEMMA HandlerLength ==
  ASSUME NEW b1 \in Byte, NEW b2 \in Byte, NEW n, HandlerBytes(n, b1, Reg(b2))
  PROVE  /\ n \in OneByteHandlers => Sweep!Length(b1, b2) = 1
         /\ n \in ByteHandlers => Sweep!Length(b1, b2) = 2
         /\ n \in WordHandlers => Sweep!Length(b1, b2) = 3
         /\ n \in AccHandlers => Sweep!Length(b1, b2) = 2 + FieldW(b1)
         /\ n = "mov_2" => Sweep!Length(b1, b2) = 2 + ((b1 \div 8) % 2)
         /\ n \in RmHandlers => Sweep!Length(b1, b2) = 2 + DispSize(b2)
         /\ n \in PrintMrData
              => Sweep!Length(b1, b2) = 2 + DispSize(b2) + ImmediateBytes(b1, 0)
         /\ n \in PrintMrSw
              => Sweep!Length(b1, b2) = 2 + DispSize(b2) + ImmediateBytes(b1, FieldD(b1))
         /\ n = "logic_6" => /\ Sweep!UnusedShift(b1, b2)
                             /\ b2 \in 112 .. 119 => Sweep!Length(b1, b2) = 3
                             /\ b2 \notin 112 .. 119 => Sweep!Length(b1, b2) = 1
<1> USE DEF HandlerBytes, DwBytes, SwBytes, WBytes, RegBytes, OthersBytes,
            Sweep!Known, Sweep!UnusedShift, Sweep!HasOperandByte, Sweep!ByteImmediate,
            Sweep!WordImmediate, Sweep!Arithmetic, Sweep!RegField, Reg
<1>1. b1 \in Int /\ 0 <= b1 /\ b1 <= 255
  BY ByteDef
<1>2. DispSize(b2) \in {0, 1, 2} /\ Sweep!DisplacementBytes(b2) = DispSize(b2)
  BY DisplacementLength, FieldType
<1> DEFINE Form(operand, byte, word) ==
             /\ Sweep!Known(b1, b2) /\ ~Sweep!UnusedShift(b1, b2)
             /\ Sweep!HasOperandByte(b1) <=> operand
             /\ Sweep!ByteImmediate(b1, b2) <=> byte
             /\ Sweep!WordImmediate(b1, b2) <=> word
<1>4. n \in OneByteHandlers => Form(FALSE, FALSE, FALSE)
  BY <1>1 DEF OneByteHandlers, OneByteNoOps, Ports, FlagTransfers, ProcessorControl
<1>5. n \in ByteHandlers => Form(FALSE, TRUE, FALSE)
  BY <1>1 DEF ByteHandlers
<1>6. n \in WordHandlers => Form(FALSE, FALSE, TRUE)
  BY <1>1 DEF WordHandlers
<1>7. n \in AccHandlers => Form(FALSE, FieldW(b1) = 0, FieldW(b1) = 1)
  BY <1>1 DEF AccHandlers, AccumulatorBefore, AccumulatorAfter, FieldW
<1>8. n = "mov_2" => Form(FALSE, (b1 \div 8) % 2 = 0, (b1 \div 8) % 2 = 1)
  BY <1>1
<1>9. n \in RmHandlers => Form(TRUE, FALSE, FALSE)
  BY <1>1 DEF RmHandlers, PrintMrr, PrintMr, PrintMrVw, ModRmNoOps, Multiplications,
              LoadPointers
<1>10. n \in PrintMrData => Form(TRUE, FieldW(b1) = 0, FieldW(b1) = 1)
  BY <1>1 DEF PrintMrData, FieldW
<1>11. n \in PrintMrSw => Form(TRUE, ~(FieldD(b1) = 0 /\ FieldW(b1) = 1),
                               FieldD(b1) = 0 /\ FieldW(b1) = 1)
  BY <1>1 DEF PrintMrSw, FieldW, FieldD
<1>12. n = "logic_6" => Sweep!UnusedShift(b1, b2)
  BY <1>1
<1>13. FieldW(b1) \in {0, 1} /\ (b1 \div 8) % 2 \in {0, 1}
  BY <1>1, FieldType
<1> HIDE DEF HandlerBytes, DwBytes, SwBytes, WBytes, RegBytes, OthersBytes,
            Sweep!Known, Sweep!UnusedShift, Sweep!HasOperandByte, Sweep!ByteImmediate,
            Sweep!WordImmediate, Sweep!Arithmetic, Sweep!RegField, Reg
<1>14. /\ n \in OneByteHandlers => Sweep!Length(b1, b2) = 1
       /\ n \in ByteHandlers => Sweep!Length(b1, b2) = 2
       /\ n \in WordHandlers => Sweep!Length(b1, b2) = 3
       /\ n \in RmHandlers => Sweep!Length(b1, b2) = 2 + DispSize(b2)
  BY <1>2, <1>4, <1>5, <1>6, <1>9 DEF Sweep!Length
<1>15. /\ n \in AccHandlers => Sweep!Length(b1, b2) = 2 + FieldW(b1)
       /\ n = "mov_2" => Sweep!Length(b1, b2) = 2 + ((b1 \div 8) % 2)
  BY <1>2, <1>7, <1>8, <1>13 DEF Sweep!Length
<1>16. /\ n \in PrintMrData
            => Sweep!Length(b1, b2) = 2 + DispSize(b2) + ImmediateBytes(b1, 0)
       /\ n \in PrintMrSw
            => Sweep!Length(b1, b2) = 2 + DispSize(b2) + ImmediateBytes(b1, FieldD(b1))
  BY <1>2, <1>10, <1>11, <1>13 DEF Sweep!Length, ImmediateBytes
<1> QED
  BY <1>12, <1>14, <1>15, <1>16 DEF Sweep!Length

\* The same of the bytes op_pc takes.
LEMMA PcLength ==
  ASSUME NEW b1 \in Byte, NEW b2 \in Byte, NEW n, PcBytes(n, b1, 0)
  PROVE  /\ n \in {"call_0", "jmp_0", "jmp_1", "cond_jmp"}
         /\ Sweep!Length(b1, b2) = IF n \in {"call_0", "jmp_0"} THEN 3 ELSE 2
<1> USE DEF PcBytes,
            Sweep!Known, Sweep!UnusedShift, Sweep!HasOperandByte, Sweep!ByteImmediate,
            Sweep!WordImmediate, Sweep!Arithmetic, Sweep!RegField
<1>1. b1 \in Int /\ 0 <= b1 /\ b1 <= 255
  BY ByteDef
<1>2. /\ Sweep!Known(b1, b2) /\ ~Sweep!UnusedShift(b1, b2) /\ ~Sweep!HasOperandByte(b1)
      /\ Sweep!ByteImmediate(b1, b2) <=> n \notin {"call_0", "jmp_0"}
      /\ Sweep!WordImmediate(b1, b2) <=> n \in {"call_0", "jmp_0"}
  BY <1>1
<1> QED
  BY <1>2 DEF Sweep!Length

-----------------------------------------------------------------------------
(* What is fetched *)

Here == Sweep!LengthAt(prog, PC)

\* The encoding is looked up at the bytes the handlers see.
LEMMA HereIsEncoding ==
  ASSUME TypeOK
  PROVE  /\ Here = Sweep!Length(byte1, byte2)
         /\ \A at \in Nat : Sweep!Fetched(prog, at) = Text(at)
<1>1. text = Images[prog].text /\ PC \in Nat /\ PC + 1 \in Nat
  BY WordDef DEF TypeOK
<1>2. \A at \in Nat : Sweep!Fetched(prog, at) = Text(at)
  BY <1>1 DEF Sweep!Fetched, Text
<1> QED
  BY <1>1, <1>2 DEF Here, Sweep!LengthAt, byte1, byte2

LEMMA LengthType == ASSUME TypeOK, NEW at \in Nat PROVE Sweep!LengthAt(prog, at) \in Nat
<1>1. Text(at) \in Byte /\ Text(at + 1) \in Byte
  BY TextType DEF TypeOK
<1>2. Sweep!LengthAt(prog, at) = Sweep!Length(Text(at), Text(at + 1))
  BY HereIsEncoding DEF Sweep!LengthAt
<1>3. Sweep!DisplacementBytes(Text(at + 1)) \in Nat
  BY <1>1, DisplacementLength, FieldType
<1> QED
  BY <1>2, <1>3 DEF Sweep!Length, Sweep!Undefined

\* While the loop runs, PC and the byte after it are in the address space.
LEMMA RunningInside ==
  ASSUME TypeOK, Running
  PROVE  /\ PC \in Nat /\ PC + 1 \in Nat /\ PC + 1 <= 65535
         /\ Wrap(PC + 1) = PC + 1 /\ Text(Wrap(PC + 1)) = byte2
<1>1. PC \in Int /\ 0 <= PC /\ a_text \in Int /\ a_text <= UINT16_MAX + 1
  BY TextFits, ImagesAssumption, WordDef DEF TypeOK
<1>2. PC < a_text - 1
  BY DEF Running
<1>3. PC + 1 <= 65535
  BY <1>1, <1>2 DEF UINT16_MAX
<1>4. Wrap(PC + 1) = PC + 1
  BY <1>1, <1>3 DEF Wrap
<1> QED
  BY <1>1, <1>3, <1>4 DEF byte2

\* A handler that is fetched sees the bytes written for it.
LEMMA FetchedBytes ==
  ASSUME TypeOK, NEW n, n # "none", Handler[byte1][Reg(byte2)] = n
  PROVE  HandlerBytes(n, byte1, Reg(byte2))
<1>1. byte1 \in Byte /\ Reg(byte2) \in AnyFlag
  BY BytesType DEF RegNum, AnyFlag
<1> QED
  BY <1>1, HandlerEncoding

\* Moving PC twice is moving it once.
LEMMA WrapSum == ASSUME NEW x \in Int, NEW y \in Int PROVE Wrap(Wrap(x) + y) = Wrap(x + y)
  BY DEF Wrap

\* Where the operand and the immediate of an instruction end.
LEMMA EndsAt ==
  ASSUME TypeOK
  PROVE  /\ PC \in Int
         /\ EndRM = Wrap(PC + (2 + DispSize(byte2)))
         /\ \A s \in {0, 1} :
              EndImm(s) = Wrap(PC + (2 + DispSize(byte2) + ImmediateBytes(byte1, s)))
<1>1. PC \in Int /\ DispSize(byte2) \in Int
  BY WordDef, BytesType DEF TypeOK
<1>2. EndRM = Wrap(PC + 2 + DispSize(byte2))
  BY <1>1, WrapSum DEF EndRM
<1>3. PC + 2 + DispSize(byte2) = PC + (2 + DispSize(byte2))
  BY <1>1
<1>4. ASSUME NEW s \in {0, 1}
      PROVE  EndImm(s) = Wrap(PC + (2 + DispSize(byte2) + ImmediateBytes(byte1, s)))
  <2>1. ImmSize(s) = ImmediateBytes(byte1, s) /\ ImmediateBytes(byte1, s) \in Int
    BY DEF ImmSize, ImmediateBytes, W
  <2>2. EndImm(s) = Wrap(PC + 2 + DispSize(byte2) + ImmSize(s))
    BY <1>1, <1>2, <2>1, WrapSum DEF EndImm
  <2>3. PC + 2 + DispSize(byte2) + ImmSize(s)
          = PC + (2 + DispSize(byte2) + ImmediateBytes(byte1, s))
    BY <1>1, <2>1
  <2> QED
    BY <2>2, <2>3
<1> QED
  BY <1>1, <1>2, <1>3, <1>4

-----------------------------------------------------------------------------
(* What the handlers do with PC *)

\* pc is where the instruction ends.
Consumed(pc) == Running /\ Here # 0 /\ pc = Wrap(PC + Here)

\* The four things a turn of the loop may do.
Consumes   == Consumed(PC') /\ UNCHANGED <<prog, mode, status>>
Stays      == Running /\ Here = 0 /\ UNCHANGED <<prog, mode, status, PC>>
Abandons   == /\ Running /\ Sweep!Unprintable(byte1, byte2)
              /\ status' # "run" /\ UNCHANGED <<prog, mode, PC>>
Interprets == /\ Running /\ mode # "DISSASSEMBLE" /\ UNCHANGED <<prog, mode>>
              /\ PC' = PC \/ Transfers(byte1, byte2)
              /\ status' = "crash" => byte1 % 8 # 7

Steps == Consumes \/ Stays \/ Abandons \/ Interprets

\* The ends the handlers of each kind move PC to.
LEMMA KindsConsume ==
  ASSUME TypeOK, NEW n, n # "none", Fetch(n)
  PROVE  /\ n \in OneByteHandlers => Consumed(Wrap(PC + 1))
         /\ n \in ByteHandlers => Consumed(Wrap(PC + 2))
         /\ n \in WordHandlers => Consumed(Wrap(PC + 3))
         /\ n \in AccHandlers => Consumed(Wrap(PC + 2 + W))
         /\ n = "mov_2" => Consumed(Wrap(PC + 2 + ((byte1 \div 8) % 2)))
         /\ n \in RmHandlers => Consumed(EndRM)
         /\ n \in PrintMrData => Consumed(EndImm(0))
         /\ n \in PrintMrSw => Consumed(EndImm(D))
<1>1. HandlerBytes(n, byte1, Reg(byte2)) /\ Running
  BY FetchedBytes DEF Fetch
<1>2. byte1 \in Byte /\ byte2 \in Byte /\ W \in {0, 1} /\ D \in {0, 1}
      /\ DispSize(byte2) \in {0, 1, 2} /\ W = FieldW(byte1) /\ D = FieldD(byte1)
  BY BytesType DEF W, D
<1>3. Here = Sweep!Length(byte1, byte2)
  BY HereIsEncoding
<1>4. \A s \in {0, 1} : ImmediateBytes(byte1, s) \in {1, 2}
  BY DEF ImmediateBytes
<1>5. PC \in Int /\ byte1 \in Int
  BY EndsAt, <1>2, ByteDef
<1>6. \A k \in Int : PC + 2 + k = PC + (2 + k)
  BY <1>5
<1>7. (byte1 \div 8) % 2 \in {0, 1}
  BY <1>5
<1>8. n \in OneByteHandlers => Consumed(Wrap(PC + 1))
  BY <1>1, <1>2, <1>3, HandlerLength DEF Consumed
<1>9. n \in ByteHandlers => Consumed(Wrap(PC + 2))
  BY <1>1, <1>2, <1>3, HandlerLength DEF Consumed
<1>10. n \in WordHandlers => Consumed(Wrap(PC + 3))
  BY <1>1, <1>2, <1>3, HandlerLength DEF Consumed
<1>11. n \in AccHandlers => Consumed(Wrap(PC + 2 + W))
  <2>1. n \in AccHandlers => Here = 2 + W
    BY <1>1, <1>2, <1>3, HandlerLength
  <2>2. 2 + W # 0 /\ PC + 2 + W = PC + (2 + W)
    BY <1>2, <1>6
  <2> QED
    BY <1>1, <2>1, <2>2 DEF Consumed
<1>12. n = "mov_2" => Consumed(Wrap(PC + 2 + ((byte1 \div 8) % 2)))
  <2> DEFINE w == (byte1 \div 8) % 2
  <2>1. n = "mov_2" => Here = 2 + w
    BY <1>1, <1>2, <1>3, HandlerLength
  <2>2. w \in {0, 1}
    BY <1>7
  <2> HIDE DEF w
  <2>3. 2 + w # 0 /\ PC + 2 + w = PC + (2 + w)
    BY <1>6, <2>2
  <2>4. n = "mov_2" => Consumed(Wrap(PC + 2 + w))
    BY <1>1, <2>1, <2>3 DEF Consumed
  <2> QED
    BY <2>4 DEF w
<1>13. n \in RmHandlers => Consumed(EndRM)
  <2>1. n \in RmHandlers => Here = 2 + DispSize(byte2)
    BY <1>1, <1>2, <1>3, HandlerLength
  <2>2. 2 + DispSize(byte2) # 0
    BY <1>2
  <2> QED
    BY <1>1, <2>1, <2>2, EndsAt DEF Consumed
<1>14. n \in PrintMrData => Consumed(EndImm(0))
  <2>1. n \in PrintMrData => Here = 2 + DispSize(byte2) + ImmediateBytes(byte1, 0)
    BY <1>1, <1>2, <1>3, HandlerLength
  <2>2. 2 + DispSize(byte2) + ImmediateBytes(byte1, 0) # 0
    BY <1>2, <1>4
  <2> QED
    BY <1>1, <2>1, <2>2, EndsAt DEF Consumed
<1>15. n \in PrintMrSw => Consumed(EndImm(D))
  <2>1. n \in PrintMrSw => Here = 2 + DispSize(byte2) + ImmediateBytes(byte1, D)
    BY <1>1, <1>2, <1>3, HandlerLength
  <2>2. 2 + DispSize(byte2) + ImmediateBytes(byte1, D) # 0
    BY <1>2, <1>4
  <2> QED
    BY <1>1, <1>2, <2>1, <2>2, EndsAt DEF Consumed
<1> QED
  BY <1>8, <1>9, <1>10, <1>11, <1>12, <1>13, <1>14, <1>15

\* Retiring at the end of the instruction consumes it.
LEMMA RetireConsumes ==
  ASSUME NEW pc, Consumed(pc), NEW s, NEW f, Retire(pc, s, f) PROVE Consumes
  BY DEF Consumes, Retire

\* Abandoning an instruction whose text may not fit.
LEMMA HaltAbandons ==
  ASSUME Running, Sweep!Unprintable(byte1, byte2),
         NEW how \in {"exit", "crash"}, NEW k, Halt(how, k)
  PROVE  Abandons
  BY DEF Abandons, Halt

\* The handlers that compute.
LEMMA ComputationSteps == ASSUME TypeOK, Computation PROVE Steps
<1> USE RetireConsumes, KindsConsume
<1>1. CASE \/ op_mov_0 \/ op_add_0 \/ op_sub_0 \/ op_cmp_0
           \/ op_and_0 \/ op_or_0 \/ op_xor_0 \/ op_test_0 \/ op_lea \/ op_xchg_0
  <2>1. \E n \in PrintMrr : \E s, f : Fetch(n) /\ Retire(EndRM, s, f)
    BY <1>1 DEF PrintMrr, op_mov_0, op_add_0, op_sub_0, op_cmp_0, op_and_0, op_or_0,
                op_xor_0, op_test_0, op_lea, op_xchg_0, DwRetire
  <2> QED
    BY <2>1 DEF Steps, RmHandlers, PrintMrr
<1>2. CASE op_inc_0 \/ op_dec_0 \/ op_neg
  <2>1. \E n \in PrintMr : \E s, f : Fetch(n) /\ Retire(EndRM, s, f)
    BY <1>2 DEF PrintMr, op_inc_0, op_dec_0, op_neg
  <2> QED
    BY <2>1 DEF Steps, RmHandlers, PrintMr
<1>3. CASE op_shl \/ op_sar \/ op_rotate
  <2>1. \E n \in PrintMrVw : \E s, f : Fetch(n) /\ Retire(EndRM, s, f)
    BY <1>3 DEF PrintMrVw, op_shl, op_sar, op_rotate, ShiftRetire
  <2> QED
    BY <2>1 DEF Steps, RmHandlers, PrintMrVw
<1>4. CASE op_mov_1 \/ op_and_1 \/ op_or_1 \/ op_xor_1 \/ op_test_1
  <2>1. \E n \in PrintMrData : \E s, f : Fetch(n) /\ Retire(EndImm(0), s, f)
    BY <1>4 DEF PrintMrData, op_mov_1, op_and_1, op_or_1, op_xor_1, op_test_1, ImmRetire
  <2> QED
    BY <2>1 DEF Steps, PrintMrData
<1>5. CASE op_add_1 \/ op_sub_1 \/ op_cmp_1
  <2>1. \/ \E n \in PrintMrSw : \E s, f : Fetch(n) /\ Retire(EndImm(D), s, f)
        \/ /\ Fetch("sub_1") \/ Fetch("cmp_1")
           /\ Overrun /\ Halt("exit", 1)
    BY <1>5 DEF PrintMrSw, op_add_1, op_sub_1, op_cmp_1
  <2>2. CASE \E n \in PrintMrSw : \E s, f : Fetch(n) /\ Retire(EndImm(D), s, f)
    BY <2>2 DEF Steps, PrintMrSw
  <2>3. CASE (Fetch("sub_1") \/ Fetch("cmp_1")) /\ Overrun /\ Halt("exit", 1)
    <3>1. byte1 \in Byte /\ byte2 \in Byte /\ byte2 \in Int
      BY BytesType, ByteDef
    <3>2. PICK n \in {"sub_1", "cmp_1"} : HandlerBytes(n, byte1, Reg(byte2)) /\ Running
      BY <2>3, FetchedBytes DEF Fetch
    <3>3. byte1 \in 128 .. 131 /\ Reg(byte2) \in {5, 7}
      BY <3>2 DEF HandlerBytes, DwBytes, SwBytes, WBytes, RegBytes, OthersBytes
    <3>4. Mod(byte2) # 3
      BY <2>3 DEF Overrun, RM, get_mod, RegOperand
    <3>5. byte2 < 192
      BY <3>1, <3>4, ByteDef DEF Mod
    <3>6. ~(D = 0 /\ W = 1)
      BY <2>3 DEF Overrun, ImmSize
    <3>7. byte1 # 129
      BY <3>6 DEF D, W, FieldD, FieldW
    <3>8. Sweep!Unprintable(byte1, byte2)
      BY <3>3, <3>5, <3>7 DEF Sweep!Unprintable, Sweep!RegField, Reg
    <3> QED
      BY <2>3, <3>2, <3>8, HaltAbandons DEF Steps
  <2> QED
    BY <2>1, <2>2, <2>3
<1>6. CASE op_div
  <2>1. Fetch("div") /\ Consumed(EndRM)
    BY <1>6 DEF op_div, RmHandlers, PrintMr
  <2>2. \/ mode = "DISSASSEMBLE" /\ Skip(EndRM)
        \/ mode # "DISSASSEMBLE" /\ Halt("exit", 0)
        \/ \E s, f : Retire(EndRM, s, f)
    BY <1>6 DEF op_div
  <2> QED
    BY <2>1, <2>2 DEF Steps, Interprets, Halt, Fetch, Skip, Running
<1>7. CASE op_cmp_2 \/ op_sub_2
  <2>1. \E n \in AccHandlers : \E s, f : Fetch(n) /\ Retire(Wrap(PC + 2 + W), s, f)
    BY <1>7 DEF AccHandlers, AccumulatorBefore, AccumulatorAfter, op_cmp_2, op_sub_2
  <2> QED
    BY <2>1 DEF Steps, AccHandlers, AccumulatorBefore, AccumulatorAfter
<1>8. CASE op_xchg_1 \/ op_inc_1 \/ op_dec_1 \/ op_cbw \/ op_cwd
  <2>1. \E n \in {"xchg_1", "inc_1", "dec_1", "cbw", "cwd"} : \E s, f :
          Fetch(n) /\ Retire(Wrap(PC + 1), s, f)
    BY <1>8 DEF op_xchg_1, op_inc_1, op_dec_1, op_cbw, op_cwd
  <2> QED
    BY <2>1 DEF Steps, OneByteHandlers
<1>9. CASE op_mov_2
  <2>1. Fetch("mov_2") /\ \E s, f : Retire(Wrap(PC + 2 + ((byte1 \div 8) % 2)), s, f)
    BY <1>9 DEF op_mov_2
  <2> QED
    BY <2>1 DEF Steps
<1> QED
  BY <1>1, <1>2, <1>3, <1>4, <1>5, <1>6, <1>7, <1>8, <1>9 DEF Computation

\* Bytes that no handler takes are no instruction.
LEMMA UnknownLength ==
  ASSUME NEW b1 \in Byte, NEW b2 \in Byte,
         \A n : ~HandlerBytes(n, b1, Reg(b2)), \A n : ~PcBytes(n, b1, 0)
  PROVE  Sweep!Length(b1, b2) = 0
<1>1. b1 \in Int /\ 0 <= b1 /\ b1 <= 255 /\ Reg(b2) \in 0 .. 7
  BY ByteDef, FieldType DEF RegNum
<1>2. /\ \A n : ~DwBytes(n, b1, Reg(b2))
      /\ \A n : ~SwBytes(n, b1, Reg(b2))
      /\ \A n : ~WBytes(n, b1, Reg(b2))
      /\ \A n : ~RegBytes(n, b1, Reg(b2))
      /\ \A n : ~OthersBytes(n, b1, Reg(b2))
  BY DEF HandlerBytes
<1> DEFINE r == Reg(b2)
<1>3. b1 \notin (0 .. 3) \cup (16 .. 19) \cup (40 .. 43) \cup (24 .. 27) \cup (56 .. 59)
               \cup (32 .. 35) \cup (8 .. 11) \cup (48 .. 51) \cup (136 .. 139)
  BY <1>2 DEF DwBytes
<1>4. ~(b1 \in 128 .. 131 /\ r \in {0, 3, 5, 7})
  BY <1>2 DEF SwBytes
<1>5. /\ b1 \notin {4, 5, 20, 21, 60, 61} \cup (132 .. 135) \cup (160 .. 163)
      /\ ~(b1 \in {198, 199, 143} /\ r = 0) /\ ~(b1 \in {128, 129} /\ r \in {1, 4, 6})
      /\ ~(b1 \in {246, 247} /\ r # 1) /\ ~(b1 \in {254, 255} /\ r \in {0, 1})
      /\ ~(b1 = 255 /\ r \in {2, 4, 5, 6})
  BY <1>1, <1>2 DEF WBytes
<1>6. b1 \notin (64 .. 95) \cup (144 .. 151)
  BY <1>1, <1>2 DEF RegBytes
<1>7. /\ b1 \notin {7, 15, 23, 31, 28, 29, 30, 44, 45, 141, 215, 204, 205, 242, 243}
      /\ b1 \notin (152 .. 153) \cup (155 .. 159) \cup (164 .. 191) \cup (194 .. 197)
                   \cup (228 .. 231) \cup (236 .. 239) \cup (244 .. 245) \cup (248 .. 253)
      /\ b1 \notin 208 .. 211
  BY <1>1, <1>2 DEF OthersBytes
<1>8. b1 \notin (112 .. 127) \cup (224 .. 227) \cup {232, 233, 235}
  BY DEF PcBytes
<1>9. ~Sweep!UnusedShift(b1, b2)
  BY <1>7 DEF Sweep!UnusedShift
<1>10. Sweep!RegField(b2) = r
  BY DEF Sweep!RegField, Reg
<1> HIDE DEF r
<1>11. ~Sweep!Known(b1, b2)
  BY <1>1, <1>3, <1>4, <1>5, <1>6, <1>7, <1>8, <1>10 DEF Sweep!Known
<1> QED
  BY <1>9, <1>11 DEF Sweep!Length, Sweep!Undefined

\* What op_pc finds, at PC or behind the unused shift.
LEMMA PcConsumes ==
  ASSUME TypeOK, NEW n, n # "none", FetchPc(n)
  PROVE  /\ Running /\ Transfers(byte1, byte2)
         /\ n \in {"call_0", "jmp_0"} => Consumed(Wrap(PcEntry + 3))
         /\ n \in {"jmp_1", "cond_jmp"} => Consumed(Wrap(PcEntry + 2))
<1>1. byte1 \in Byte /\ byte2 \in Byte /\ Running /\ Here = Sweep!Length(byte1, byte2)
  BY BytesType, HereIsEncoding DEF FetchPc
<1>2. PC \in Int /\ Text(PC) = byte1 /\ Wrap(PC + 1) = PC + 1 /\ Text(PC + 1) = byte2
  BY <1>1, RunningInside, EndsAt DEF byte1, byte2
<1>3. CASE Handler[byte1][Reg(byte2)] = "none"
  <2>1. PcEntry = PC
    BY <1>3 DEF PcEntry
  <2>2. PcBytes(n, byte1, 0)
    BY <1>1, <1>2, <2>1, PcEncoding DEF FetchPc
  <2>3. Transfers(byte1, byte2)
    BY <2>2 DEF PcBytes, Transfers
  <2> QED
    BY <1>1, <2>1, <2>2, <2>3, PcLength DEF Consumed
<1>4. CASE Handler[byte1][Reg(byte2)] = "logic_6"
  <2>1. PcEntry = PC + 1
    BY <1>2, <1>4 DEF PcEntry
  <2>2. HandlerBytes("logic_6", byte1, Reg(byte2))
    BY <1>4, FetchedBytes
  <2>3. PcBytes(n, byte2, 0)
    BY <1>1, <1>2, <2>1, PcEncoding DEF FetchPc
  <2>4. byte1 \in 208 .. 211 /\ Reg(byte2) = 6
    BY <2>2 DEF HandlerBytes, DwBytes, SwBytes, WBytes, RegBytes, OthersBytes
  <2>5. byte2 \in 112 .. 119 /\ n = "cond_jmp"
    BY <2>3, <2>4 DEF PcBytes, Reg
  <2>6. Here = 3
    BY <1>1, <2>2, <2>5, HandlerLength
  <2>7. PcEntry + 2 = PC + 3
    BY <1>2, <2>1
  <2> QED
    BY <1>1, <2>4, <2>5, <2>6, <2>7 DEF Consumed, Transfers
<1> QED
  BY <1>3, <1>4 DEF FetchPc

\* The handlers of the stack and of control.
LEMMA ControlSteps == ASSUME TypeOK, StackAndControl PROVE Steps
<1> USE RetireConsumes, KindsConsume
<1>1. CASE op_push_0 \/ op_pop_0
  <2>1. \E n \in PrintMr : \E s, f : Fetch(n) /\ Retire(EndRM, s, f)
    BY <1>1 DEF PrintMr, op_push_0, op_pop_0
  <2> QED
    BY <2>1 DEF Steps, RmHandlers, PrintMr
<1>2. CASE op_push_1 \/ op_pop_1
  <2>1. \E n \in {"push_1", "pop_1"} : \E s, f : Fetch(n) /\ Retire(Wrap(PC + 1), s, f)
    BY <1>2 DEF op_push_1, op_pop_1
  <2> QED
    BY <2>1 DEF Steps, OneByteHandlers
<1>3. CASE op_push_2
  <2>1. CASE Fetch("push_2") /\ Skip(Wrap(PC + 1))
    BY <2>1 DEF Steps, OneByteHandlers, Skip
  <2>2. CASE Fetch("push_2") /\ Reg(byte1) # 0 /\ Halt("crash", 0)
    <3>1. HandlerBytes("push_2", byte1, Reg(byte2)) /\ Running
      BY <2>2, FetchedBytes DEF Fetch
    <3>2. byte1 \in {7, 15, 23, 31}
      BY <3>1 DEF HandlerBytes, DwBytes, SwBytes, WBytes, RegBytes, OthersBytes
    <3>3. byte1 # 7
      BY <2>2 DEF Reg
    <3>4. Sweep!Unprintable(byte1, byte2)
      BY <3>2, <3>3 DEF Sweep!Unprintable
    <3> QED
      BY <2>2, <3>1, <3>4, HaltAbandons DEF Steps
  <2> QED
    BY <1>3, <2>1, <2>2 DEF op_push_2
<1>4. CASE op_call_1 \/ op_jmp_2
  <2>1. PICK n \in {"call_1", "jmp_2"} : Fetch(n)
    BY <1>4 DEF op_call_1, op_jmp_2
  <2>2. Consumed(EndRM) /\ Running
    BY <2>1 DEF RmHandlers, PrintMr, Fetch
  <2>3. HandlerBytes(n, byte1, Reg(byte2))
    BY <2>1, FetchedBytes DEF Fetch
  <2>4. byte1 = 255 /\ Reg(byte2) \in {2, 4}
    BY <2>3 DEF HandlerBytes, DwBytes, SwBytes, WBytes, RegBytes, OthersBytes
  <2>5. Transfers(byte1, byte2)
    BY <2>4 DEF Transfers
  <2>6. (mode = "DISSASSEMBLE" /\ Skip(EndRM))
          \/ (mode # "DISSASSEMBLE" /\ \E pc, s, f : Retire(pc, s, f))
    BY <1>4 DEF op_call_1, op_jmp_2, Skip
  <2> QED
    BY <2>2, <2>5, <2>6 DEF Steps, Interprets, Retire, Skip, Running
<1>5. CASE op_ret
  <2>1. PICK n \in {"ret_0", "ret_1"} : Fetch(n)
    BY <1>5 DEF op_ret
  <2>2. HandlerBytes(n, byte1, Reg(byte2)) /\ Running
    BY <2>1, FetchedBytes DEF Fetch
  <2>3. byte1 \in {194, 195}
    BY <2>2 DEF HandlerBytes, DwBytes, SwBytes, WBytes, RegBytes, OthersBytes
  <2>4. Transfers(byte1, byte2)
    BY <2>3 DEF Transfers
  <2>5. \/ mode = "DISSASSEMBLE" /\ Fetch("ret_0") /\ \E s, f : Retire(Wrap(PC + 1), s, f)
        \/ mode = "DISSASSEMBLE" /\ Fetch("ret_1") /\ \E s, f : Retire(Wrap(PC + 3), s, f)
        \/ mode # "DISSASSEMBLE" /\ \E pc, s, f : Retire(pc, s, f)
    BY <1>5 DEF op_ret, Skip
  <2> QED
    BY <2>2, <2>4, <2>5
       DEF Steps, Interprets, Retire, OneByteHandlers, WordHandlers, Running
<1>6. ASSUME NEW n \in {"call_0", "jmp_0", "jmp_1", "cond_jmp"}, FetchPc(n),
             NEW next, Consumed(next),
             \/ \E s, f : Retire(next, s, f)
             \/ mode # "DISSASSEMBLE" /\ \E pc, s, f : Retire(pc, s, f)
      PROVE  Steps
  BY <1>6, PcConsumes DEF Steps, Interprets, Retire, Running
<1> DEFINE next2 == Wrap(PcEntry + 2)
           next3 == Wrap(PcEntry + 3)
<1>7. CASE op_call_0
  <2>1. FetchPc("call_0") /\ Consumed(next3)
    BY <1>7, PcConsumes DEF op_call_0
  <2>2. \/ \E s, f : Retire(next3, s, f)
        \/ mode # "DISSASSEMBLE" /\ \E pc, s, f : Retire(pc, s, f)
    BY <1>7 DEF op_call_0, Skip
  <2> QED
    BY <2>1, <2>2, <1>6
<1>8. ASSUME NEW n \in {"jmp_0", "jmp_1", "cond_jmp"}, FetchPc(n),
             NEW next, Consumed(next), NEW target, Jump(next, target) \/ Skip(next)
      PROVE  Steps
  <2>1. \/ \E s, f : Retire(next, s, f)
        \/ mode # "DISSASSEMBLE" /\ \E pc, s, f : Retire(pc, s, f)
    BY <1>8 DEF Jump, Skip
  <2> QED
    BY <2>1, <1>6, <1>8
<1>9. CASE op_jmp
  <2>1. \/ FetchPc("jmp_0") /\ \E target : Jump(next3, target)
        \/ FetchPc("jmp_1") /\ \E target : Jump(next2, target)
    BY <1>9 DEF op_jmp
  <2> QED
    BY <2>1, <1>8, PcConsumes
<1>10. CASE op_cond_jmp
  <2>1. FetchPc("cond_jmp") /\ \E target : Jump(next2, target) \/ Skip(next2)
    BY <1>10 DEF op_cond_jmp
  <2> QED
    BY <2>1, <1>8, PcConsumes
<1> QED
  BY <1>1, <1>2, <1>3, <1>4, <1>5, <1>7, <1>9, <1>10 DEF StackAndControl

\* The handlers without effect, and the bytes without handler.
LEMMA NoEffectSteps == ASSUME TypeOK, NoEffect PROVE Steps
<1> USE RetireConsumes, KindsConsume
<1>1. CASE SkipByte
  <2>1. PICK n \in OneByteNoOps : Fetch(n) /\ Skip(Wrap(PC + 1))
    BY <1>1 DEF SkipByte
  <2>2. n \in OneByteHandlers /\ n # "none"
    BY DEF OneByteHandlers, OneByteNoOps, Ports, FlagTransfers, ProcessorControl
  <2> QED
    BY <2>1, <2>2 DEF Steps, Skip
<1>2. CASE SkipByte2
  BY <1>2 DEF SkipByte2, ByteHandlers, Steps, Skip
<1>3. CASE SkipAcc
  <2>1. PICK n \in AccNoOps : Fetch(n) /\ Skip(Wrap(PC + 2 + W))
    BY <1>3 DEF SkipAcc
  <2>2. n \in AccHandlers /\ n # "none"
    BY DEF AccNoOps, AddImmediates, AccHandlers, AccumulatorBefore, AccumulatorAfter
  <2> QED
    BY <2>1, <2>2 DEF Steps, Skip
<1>4. CASE SkipAddr
  BY <1>4 DEF SkipAddr, WordHandlers, Steps, Skip
<1>5. CASE SkipRM
  <2>1. PICK n \in ModRmNoOps : Fetch(n) /\ Skip(EndRM)
    BY <1>5 DEF SkipRM
  <2>2. n \in RmHandlers /\ n # "none"
    BY DEF RmHandlers, ModRmNoOps, Multiplications, LoadPointers
  <2> QED
    BY <2>1, <2>2 DEF Steps, Skip
<1>6. CASE op_ssb_1
  BY <1>6 DEF op_ssb_1, PrintMrSw, Steps, Skip
<1>7. CASE unmatched
  <2>1. byte1 \in Byte /\ byte2 \in Byte /\ Reg(byte2) \in AnyFlag /\ Running
        /\ Here = Sweep!Length(byte1, byte2)
    BY <1>7, BytesType, HereIsEncoding DEF unmatched, FetchPc, RegNum, AnyFlag
  <2>2. PC \in Int /\ Text(PC) = byte1 /\ Wrap(PC + 1) = PC + 1 /\ Text(PC + 1) = byte2
    BY <2>1, RunningInside, EndsAt DEF byte1, byte2
  <2>3. PC' = PcEntry /\ prog' = prog /\ status' = status
    BY <1>7 DEF unmatched, Skip, Retire
  <2>4. CASE Handler[byte1][Reg(byte2)] = "none"
    <3>1. PcEntry = PC
      BY <2>4 DEF PcEntry
    <3>2. PcHandler[byte1] = "none"
      BY <1>7, <2>2, <3>1 DEF unmatched, FetchPc
    <3>3. Here = 0
      BY <2>1, <2>4, <3>2, NoHandler, NoPcHandler, UnknownLength
    <3> QED
      BY <1>7, <2>1, <2>3, <3>1, <3>3 DEF Steps, Stays, unmatched, Skip, Retire
  <2>5. CASE Handler[byte1][Reg(byte2)] = "logic_6"
    <3>1. PcEntry = PC + 1 /\ PcEntry = Wrap(PC + 1)
      BY <2>2, <2>5 DEF PcEntry
    <3>2. PcHandler[byte2] = "none"
      BY <1>7, <2>2, <3>1 DEF unmatched, FetchPc
    <3>3. byte2 \notin 112 .. 127
      BY <2>1, <3>2, PcEncoding
    <3>4. HandlerBytes("logic_6", byte1, Reg(byte2))
      BY <2>5, FetchedBytes
    <3>5. Here = 1
      BY <2>1, <3>3, <3>4, HandlerLength
    <3> QED
      BY <1>7, <2>1, <2>3, <3>1, <3>5
         DEF Steps, Consumes, Consumed, unmatched, Skip, Retire
  <2> QED
    BY <1>7, <2>4, <2>5 DEF unmatched, FetchPc
<1> QED
  BY <1>1, <1>2, <1>3, <1>4, <1>5, <1>6, <1>7 DEF NoEffect

\* The system calls.
LEMMA SyscallSteps == ASSUME TypeOK, Syscalls PROVE Steps
<1>1. Fetch("int_0") /\ Running
  BY DEF Syscalls, sys_exit_1, sys_write_4, sys_brk_17, sys_ioctl_54, sys_missing,
         int_disassemble, Syscall, Fetch
<1>2. Consumed(Wrap(PC + 2))
  BY <1>1, KindsConsume DEF ByteHandlers
<1>3. HandlerBytes("int_0", byte1, Reg(byte2))
  BY <1>1, FetchedBytes DEF Fetch
<1>4. byte1 % 8 # 7
  BY <1>3 DEF HandlerBytes, DwBytes, SwBytes, WBytes, RegBytes, OthersBytes
<1>5. \/ PC' = Wrap(PC + 2) /\ UNCHANGED <<prog, mode, status>>
      \/ mode # "DISSASSEMBLE" /\ UNCHANGED <<prog, mode, PC>>
  BY DEF Syscalls, sys_exit_1, sys_write_4, sys_brk_17, sys_ioctl_54, sys_missing,
         int_disassemble, Syscall, Skip, Retire, Halt
<1> QED
  BY <1>1, <1>2, <1>4, <1>5 DEF Steps, Consumes, Interprets

-----------------------------------------------------------------------------
(* The theorems *)

\* A turn of the loop consumes an instruction, stays at a byte of none,
\* gives up or, interpreting, transfers control or stops in a system call.
LEMMA EachStep ==
  ASSUME TypeOK, Next PROVE Steps \/ main_return
  BY ComputationSteps, ControlSteps, NoEffectSteps, SyscallSteps DEF Next

\* Interpreting, whatever the program and its data, an instruction that does
\* not transfer control ends where a disassembly would start the next: no
\* handler consumes a byte too many or too few in either mode.
THEOREM BoundariesCorrect == Spec => SameBoundaries
<1> DEFINE Agree == (mode # "DISSASSEMBLE" /\ PC' # PC /\ ~Transfers(byte1, byte2))
                      => PC' = Wrap(PC + Sweep!LengthAt(prog, PC))
<1>1. ASSUME TypeOK, Next PROVE Agree
  <2>1. main_return => PC' = PC
    BY DEF main_return, Halt
  <2> QED
    BY <1>1, <2>1, EachStep
       DEF Steps, Consumes, Consumed, Stays, Abandons, Interprets, Here
<1> HIDE DEF Agree
<1>2. TypeOK /\ [Next]_vars => [Agree]_vars
  BY <1>1
<1>3. Spec => [][Agree]_vars
  BY <1>2, CpuTypeCorrect, PTL DEF Spec
<1> QED
  BY <1>3 DEF Agree, SameBoundaries

\* The safety of IsLinearSweep: what -d does is a linear sweep.
SweepSafety == Sweep!Init /\ [][Sweep!Next]_(Sweep!svars)

\* Disassembling, each turn of the loop is a step of the linear sweep that
\* the encoding defines, or leaves the sweep where it is.
THEOREM SweepImplemented ==
  ASSUME Modes = {"DISSASSEMBLE"} PROVE Spec => SweepSafety
<1>1. Init => Sweep!Init
  BY DEF Init, Sweep!Init
<1>2. ASSUME TypeOK, [Next]_vars PROVE [Sweep!Next]_(Sweep!svars)
  <2>0. mode = "DISSASSEMBLE" /\ a_text = Images[prog].a_text
    BY <1>2 DEF TypeOK
  <2>1. PC \in Nat /\ PC + 1 \in Nat
    BY <1>2, WordDef DEF TypeOK
  <2>2. Sweep!Fetched(prog, PC) = byte1 /\ Sweep!Fetched(prog, PC + 1) = byte2
    BY <1>2, <2>1, HereIsEncoding DEF byte1, byte2
  <2>3. Running => Sweep!InText
    BY <2>0 DEF Running, Sweep!InText
  <2>4. CASE Consumes
    BY <2>3, <2>4 DEF Consumes, Consumed, Here, Wrap, Sweep!Next, Sweep!NextInstruction,
                      Sweep!Undefined
  <2>5. CASE Stays
    BY <2>5 DEF Stays, Sweep!svars
  <2>6. CASE Abandons
    BY <2>2, <2>3, <2>6 DEF Abandons, Sweep!Next, Sweep!Abandon
  <2>7. CASE Interprets
    BY <2>0, <2>7 DEF Interprets
  <2>8. CASE main_return
    BY <2>0, <2>8 DEF main_return, Halt, Sweep!Next, Sweep!Finish
  <2>9. CASE UNCHANGED vars
    BY <2>9 DEF vars, Sweep!svars
  <2> QED
    BY <1>2, <2>4, <2>5, <2>6, <2>7, <2>8, <2>9, EachStep DEF Steps
<1> QED
  BY <1>1, <1>2, CpuTypeCorrect, PTL DEF Spec, SweepSafety

-----------------------------------------------------------------------------
(* The listing *)

\* n bytes from pc on.
BytesFrom(pc, n) == [k \in 1 .. n |-> Text(pc + k - 1)]

\* A byte, then m more from the next address, is m + 1 bytes.
LEMMA FirstAndRest ==
  ASSUME TypeOK, Running, NEW m \in Nat
  PROVE  <<byte1>> \o pretty_print(PC + 1, m) = BytesFrom(PC, m + 1)
<1>1. PC \in Nat /\ Wrap(PC + 1) = PC + 1 /\ Text(PC) = byte1 /\ byte1 \in Byte
  BY RunningInside, BytesType DEF byte1
<1> DEFINE rest == pretty_print(PC + 1, m)
           all  == BytesFrom(PC, m + 1)
<1>2. rest = [k \in 1 .. m |-> Text(PC + 1 + k - 1)]
  BY <1>1 DEF pretty_print
<1>3. \A k \in 1 .. m : PC + 1 + k - 1 = PC + k /\ PC + k \in Nat
  BY <1>1
<1>4. rest = [k \in 1 .. m |-> Text(PC + k)]
  BY <1>2, <1>3
<1>5. rest \in Seq(Byte) /\ Len(rest) = m /\ \A k \in 1 .. m : rest[k] = Text(PC + k)
  BY <1>3, <1>4, TextType
<1>6. <<byte1>> \in Seq(Byte) /\ Len(<<byte1>>) = 1 /\ <<byte1>>[1] = byte1
  BY <1>1
<1> HIDE DEF rest
<1> DEFINE whole == <<byte1>> \o rest
<1>7. /\ whole \in Seq(Byte) /\ Len(whole) = m + 1
      /\ \A k \in 1 .. m + 1 : whole[k] = IF k <= 1 THEN <<byte1>>[k] ELSE rest[k - 1]
  <2>1. 1 + m = m + 1
    OBVIOUS
  <2> QED
    BY <1>5, <1>6, <2>1, ConcatProperties
<1> HIDE DEF whole
<1>8. whole = [k \in 1 .. m + 1 |-> whole[k]]
  BY <1>7
<1>9. ASSUME NEW k \in 1 .. m + 1 PROVE whole[k] = Text(PC + k - 1)
  <2>1. CASE k = 1
    BY <1>1, <1>6, <1>7, <2>1
  <2>2. CASE k # 1
    <3>1. k - 1 \in 1 .. m /\ ~(k <= 1) /\ PC + k - 1 = PC + (k - 1)
      BY <1>1, <2>2
    <3> QED
      BY <1>5, <1>7, <3>1
  <2> QED
    BY <2>1, <2>2
<1>10. whole = all
  BY <1>8, <1>9 DEF BytesFrom
<1> QED
  BY <1>10 DEF whole, rest

\* The bytes of the instruction at PC.
Own == IF Here = 0 THEN 1 ELSE Here

\* What a handler tells pretty_print.
LEMMA PrintedIsInstruction ==
  ASSUME TypeOK, Running, ~Misprinted(byte1)
  PROVE  Own \in Nat /\ Own > 0 /\ Printed = pretty_print(PC + 1, Own - 1)
<1> DEFINE name == Handler[byte1][Reg(byte2)]
<1>1. byte1 \in Byte /\ byte2 \in Byte /\ Reg(byte2) \in AnyFlag
      /\ W \in {0, 1} /\ D \in {0, 1} /\ DispSize(byte2) \in {0, 1, 2}
      /\ W = FieldW(byte1) /\ D = FieldD(byte1)
  BY BytesType DEF RegNum, AnyFlag, W, D
<1>2. Here = Sweep!Length(byte1, byte2)
  BY HereIsEncoding
<1>3. name # "none" => HandlerBytes(name, byte1, Reg(byte2))
  BY FetchedBytes
<1> HIDE DEF name
<1>4. \/ name \in PrintMrr \cup PrintMr \cup ModRmNoOps
      \/ name \in PrintMrData
      \/ name \in PrintMrSw
      \/ name \in AccumulatorBefore
      \/ name \in WordHandlers
      \/ name = "mov_2" /\ byte1 \in 184 .. 191
      \/ name \in ByteHandlers
      \/ name \in OneByteHandlers \ {"push_2"}
      \/ name = "none"
  BY <1>1, <1>3
     DEF HandlerBytes, DwBytes, SwBytes, WBytes, RegBytes, OthersBytes, Misprinted,
         PrintMrr, PrintMr, ModRmNoOps, Multiplications, LoadPointers, PrintMrData, PrintMrSw,
         AccumulatorBefore, WordHandlers, ByteHandlers, OneByteHandlers, OneByteNoOps, Ports,
         FlagTransfers, ProcessorControl
<1>5. /\ name \in PrintMrr \cup PrintMr \cup ModRmNoOps
            => Printed = pretty_print(PC + 1, 1 + DispSize(byte2))
      /\ name \in PrintMrData
            => Printed = pretty_print(PC + 1, 1 + DispSize(byte2) + ImmSize(0))
      /\ name \in PrintMrSw
            => Printed = pretty_print(PC + 1, 1 + DispSize(byte2) + ImmSize(D))
      /\ name \in AccumulatorBefore => Printed = pretty_print(PC + 1, 1 + W)
      /\ name \in WordHandlers \cup {"mov_2"} => Printed = pretty_print(PC + 1, 2)
      /\ name \in ByteHandlers => Printed = pretty_print(PC + 1, 1)
      /\ name \in OneByteHandlers \ {"push_2"} => Printed = <<>>
      /\ name = "none" => Printed = PrintedPc
  BY DEF name, Printed, OperandBytes,
         PrintMrr, PrintMr, ModRmNoOps, Multiplications, LoadPointers, PrintMrData, PrintMrSw,
         PrintMrVw, AccumulatorBefore, AccumulatorAfter, WordOperand, ByteOperand, WordHandlers,
         ByteHandlers, OneByteHandlers, OneByteNoOps, Ports, FlagTransfers, ProcessorControl
<1>6. pretty_print(PC + 1, 0) = <<>>
  BY DEF pretty_print
<1>7. \A s \in {0, 1} : ImmSize(s) = ImmediateBytes(byte1, s) /\ ImmSize(s) \in {1, 2}
  BY DEF ImmSize, ImmediateBytes, W
<1> DEFINE Goal(n) == Here = n + 1 /\ n \in Nat /\ Printed = pretty_print(PC + 1, n)
<1>8. ASSUME NEW n, Goal(n) PROVE Own \in Nat /\ Own > 0 /\ Printed = pretty_print(PC + 1, Own - 1)
  <2>1. Own = n + 1 /\ Own - 1 = n /\ n \in Nat
    BY <1>8 DEF Own
  <2> QED
    BY <1>8, <2>1
<1>9. CASE name \in PrintMrr \cup PrintMr \cup ModRmNoOps
  <2>1. Here = 2 + DispSize(byte2)
    BY <1>1, <1>2, <1>3, <1>9, HandlerLength
       DEF RmHandlers, PrintMrr, PrintMr, ModRmNoOps, Multiplications, LoadPointers
  <2>2. Goal(1 + DispSize(byte2))
    BY <1>1, <1>5, <1>9, <2>1
  <2> QED
    BY <1>8, <2>2
<1>10. CASE name \in PrintMrData
  <2>1. Here = 2 + DispSize(byte2) + ImmSize(0)
    BY <1>1, <1>2, <1>3, <1>7, <1>10, HandlerLength DEF PrintMrData
  <2>2. Goal(1 + DispSize(byte2) + ImmSize(0))
    BY <1>1, <1>5, <1>7, <1>10, <2>1
  <2> QED
    BY <1>8, <2>2
<1>11. CASE name \in PrintMrSw
  <2>1. Here = 2 + DispSize(byte2) + ImmSize(D)
    BY <1>1, <1>2, <1>3, <1>7, <1>11, HandlerLength DEF PrintMrSw
  <2>2. Goal(1 + DispSize(byte2) + ImmSize(D))
    BY <1>1, <1>5, <1>7, <1>11, <2>1
  <2> QED
    BY <1>8, <2>2
<1>12. CASE name \in AccumulatorBefore
  <2>1. Here = 2 + W
    BY <1>1, <1>2, <1>3, <1>12, HandlerLength DEF AccHandlers, AccumulatorBefore
  <2>2. Goal(1 + W)
    BY <1>1, <1>5, <1>12, <2>1
  <2> QED
    BY <1>8, <2>2
<1>13. CASE name \in WordHandlers \/ (name = "mov_2" /\ byte1 \in 184 .. 191)
  <2>1. byte1 \in 184 .. 191 => (byte1 \div 8) % 2 = 1
    OBVIOUS
  <2>2. Here = 3
    BY <1>1, <1>2, <1>3, <1>13, <2>1, HandlerLength DEF WordHandlers
  <2>3. Goal(2)
    BY <1>5, <1>13, <2>2
  <2> QED
    BY <1>8, <2>3
<1>14. CASE name \in ByteHandlers
  <2>1. Here = 2
    BY <1>1, <1>2, <1>3, <1>14, HandlerLength DEF ByteHandlers
  <2>2. Goal(1)
    BY <1>5, <1>14, <2>1
  <2> QED
    BY <1>8, <2>2
<1>15. CASE name \in OneByteHandlers \ {"push_2"}
  <2>1. Here = 1
    BY <1>1, <1>2, <1>3, <1>15, HandlerLength
       DEF OneByteHandlers, OneByteNoOps, Ports, FlagTransfers, ProcessorControl
  <2>2. Goal(0)
    BY <1>5, <1>6, <1>15, <2>1
  <2> QED
    BY <1>8, <2>2
<1>16. CASE name = "none"
  <2>1. PcEntry = PC /\ Text(PcEntry) = byte1 /\ Printed = PrintedPc
    BY <1>5, <1>16 DEF name, PcEntry, byte1
  <2>2. CASE PcHandler[byte1] = "none"
    <3>1. Here = 0
      BY <1>1, <1>2, <1>16, <2>2, NoHandler, NoPcHandler, UnknownLength DEF name
    <3>2. Printed = <<>>
      BY <2>1, <2>2 DEF PrintedPc
    <3>3. Own = 1 /\ Own - 1 = 0
      BY <3>1 DEF Own
    <3> QED
      BY <1>6, <3>2, <3>3
  <2>3. CASE PcHandler[byte1] # "none"
    <3> DEFINE n == PcHandler[byte1]
    <3>1. /\ n \in {"call_0", "jmp_0", "jmp_1", "cond_jmp"}
          /\ Here = IF n \in {"call_0", "jmp_0"} THEN 3 ELSE 2
      BY <1>1, <1>2, <2>3, PcEncoding, PcLength
    <3>2. Printed = IF n \in {"call_0", "jmp_0"} THEN pretty_print(PC + 1, 2)
                                                ELSE pretty_print(PC + 1, 1)
      BY <2>1, <3>1 DEF PrintedPc
    <3>3. Goal(2) \/ Goal(1)
      BY <3>1, <3>2
    <3> QED
      BY <1>8, <3>3
  <2> QED
    BY <2>2, <2>3
<1> QED
  BY <1>4, <1>9, <1>10, <1>11, <1>12, <1>13, <1>14, <1>15, <1>16

\* The line of a turn shows the bytes of its instruction.
LEMMA TurnShows ==
  ASSUME TypeOK, Turn, ~Misprinted(byte1)
  PROVE  line'.at = PC /\ line'.bytes = BytesFrom(PC, Own)
<1>1. Running /\ Next
  BY DEF Turn
<1>2. ~CutShort
  <2>1. Steps \/ main_return
    BY <1>1, EachStep
  <2>2. status = "run"
    BY <1>1 DEF Running
  <2>3. status' = "crash" => byte1 % 8 # 7
    <3>1. CASE Abandons
      BY <3>1 DEF Abandons, Sweep!Unprintable, Misprinted
    <3> QED
      BY <2>1, <2>2, <3>1 DEF Steps, Consumes, Stays, Interprets, main_return, Halt
  <2> QED
    BY <2>3 DEF CutShort
<1>3. line' = Line(PC, <<byte1>> \o Printed)
  BY <1>2 DEF Turn
<1>4. Own \in Nat /\ Own > 0 /\ Printed = pretty_print(PC + 1, Own - 1)
  BY <1>1, PrintedIsInstruction
<1>5. Own - 1 \in Nat /\ (Own - 1) + 1 = Own
  BY <1>4
<1>6. <<byte1>> \o Printed = BytesFrom(PC, Own)
  BY <1>1, <1>4, <1>5, FirstAndRest
<1> QED
  BY <1>3, <1>6 DEF Line

\* The last line written is that of the instruction before PC.
Follows ==
  (line # NoLine /\ status = "run" /\ mode = "DISSASSEMBLE"
     /\ Sweep!LengthAt(prog, line.at) # 0)
    => PC = Wrap(line.at + Sweep!LengthAt(prog, line.at))

ListingInv == TypeOK /\ line.at \in Word /\ LinesShowInstructions /\ Follows

\* Listing adds lines to the steps of the loop and takes none away.
LEMMA ListingKeepsType ==
  ASSUME TypeOK, [ListingNext]_listVars PROVE TypeOK' /\ [Next]_vars
<1>1. [Next]_vars
  BY DEF ListingNext, Turn, LastLine, listVars, Next
<1> QED
  BY <1>1, NextType

\* A turn of the loop keeps the invariant.
LEMMA TurnKeeps ==
  ASSUME ListingInv, Turn
  PROVE  (line'.at \in Word) /\ LinesShowInstructions' /\ Follows'
<1>1. TypeOK /\ Running /\ Next /\ TypeOK'
  BY NextType DEF ListingInv, Turn
<1>2. Steps /\ prog' = prog /\ mode' = mode
  <2>1. PC \in Int /\ a_text \in Int
    BY <1>1, ImagesAssumption, WordDef DEF TypeOK
  <2>2. ~main_return
    BY <1>1, <2>1 DEF main_return, Running
  <2> QED
    BY <1>1, <2>2, EachStep
       DEF Steps, Consumes, Stays, Abandons, Interprets
<1>3. text' = text /\ line'.at = PC
  BY <1>1, <1>2 DEF TypeOK, Turn, Line
<1>4. \A a : Text(a)' = Text(a)
  BY <1>3 DEF Text
<1>5. Text(PC) = byte1
  BY DEF byte1
<1>6. LinesShowInstructions'
  <2>1. CASE Misprinted(byte1)
    <3>1. ~Judged'
      BY <1>3, <1>4, <1>5, <2>1 DEF Judged
    <3> QED
      BY <3>1 DEF LinesShowInstructions
  <2>2. CASE ~Misprinted(byte1)
    <3>1. line'.bytes = BytesFrom(PC, Own)
      BY <1>1, <2>2, TurnShows DEF ListingInv
    <3>2. InstructionAt(line.at)' = BytesFrom(PC, Own)
      BY <1>2, <1>3 DEF InstructionAt, BytesFrom, Own, Here, Text
    <3> QED
      BY <3>1, <3>2 DEF LinesShowInstructions
  <2> QED
    BY <2>1, <2>2
<1>7. Follows'
  BY <1>2, <1>3
     DEF Follows, Steps, Consumes, Consumed, Stays, Abandons, Interprets, Here
<1>8. line'.at \in Word
  BY <1>1, <1>3 DEF TypeOK
<1> QED
  BY <1>6, <1>7, <1>8

\* Lines show instructions, and the next one starts where the last one ends.
LEMMA ListingInvariant == ListingSpec => []ListingInv
<1>1. ListingInit => ListingInv
  BY InitType, WordDef
     DEF ListingInit, ListingInv, LinesShowInstructions, Judged, Follows, NoLine, Line
<1>2. ASSUME ListingInv, [ListingNext]_listVars PROVE ListingInv'
  <2>1. TypeOK'
    BY <1>2, ListingKeepsType DEF ListingInv
  <2>2. CASE Turn
    BY <1>2, <2>1, <2>2, TurnKeeps DEF ListingInv
  <2>3. CASE LastLine
    <3>1. status' = "return"
      BY <2>3 DEF LastLine, main_return, Halt
    <3>2. line'.at \in Word
      BY <1>2, <2>3 DEF LastLine, Line, ListingInv, TypeOK
    <3> QED
      BY <2>1, <3>1, <3>2 DEF ListingInv, LinesShowInstructions, Follows
  <2>4. CASE UNCHANGED listVars
    BY <1>2, <2>1, <2>4
       DEF listVars, vars, ListingInv, LinesShowInstructions, Judged, Follows, InstructionAt,
           Text
  <2> QED
    BY <1>2, <2>2, <2>3, <2>4 DEF ListingNext
<1> QED
  BY <1>1, <1>2, PTL DEF ListingSpec

\* Whatever the program, a line of a listing or of a trace shows the bytes of
\* the instruction at its address, all and no other, but for the instructions
\* that Misprinted names.
THEOREM ListingShowsInstructions == ListingSpec => []LinesShowInstructions
<1>1. ListingInv => LinesShowInstructions
  BY DEF ListingInv
<1> QED
  BY <1>1, ListingInvariant, PTL

\* And the bytes of a listing are the text area: no gap and no overlap.
THEOREM ListingHasNoGap == ListingSpec => NoGapInListing
<1> DEFINE Adjoins == (mode = "DISSASSEMBLE" /\ Judged /\ Sweep!LengthAt(prog, line.at) # 0)
                        => line'.at = Wrap(line.at + Len(line.bytes))
<1>1. ASSUME ListingInv, ListingNext PROVE Adjoins
  <2>1. SUFFICES ASSUME mode = "DISSASSEMBLE", Judged, Sweep!LengthAt(prog, line.at) # 0
                 PROVE  line'.at = Wrap(line.at + Len(line.bytes))
    OBVIOUS
  <2>2. status = "run"
    BY <1>1 DEF ListingNext, Turn, Running, LastLine, main_return
  <2>3. line'.at = PC
    BY <1>1, <2>1 DEF ListingNext, Turn, LastLine, Line
  <2>4. PC = Wrap(line.at + Sweep!LengthAt(prog, line.at))
    BY <1>1, <2>1, <2>2 DEF ListingInv, Follows, Judged
  <2> DEFINE n == Sweep!LengthAt(prog, line.at)
  <2>5. line.bytes = [k \in 1 .. n |-> Text(line.at + k - 1)]
    BY <1>1, <2>1, <2>2 DEF ListingInv, LinesShowInstructions, InstructionAt
  <2>6. n \in Nat
    <3>1. line.at \in Nat
      BY <1>1, WordDef DEF ListingInv
    <3> QED
      BY <1>1, <3>1, LengthType DEF ListingInv
  <2> HIDE DEF n
  <2>7. Len(line.bytes) = n
    BY <2>5, <2>6
  <2> QED
    BY <2>3, <2>4, <2>7 DEF n
<1> HIDE DEF Adjoins
<1>2. ListingInv /\ [ListingNext]_listVars => [Adjoins]_listVars
  BY <1>1
<1>3. ListingSpec => [][Adjoins]_listVars
  BY <1>2, ListingInvariant, PTL DEF ListingSpec
<1> QED
  BY <1>3 DEF Adjoins, NoGapInListing
=============================================================================
