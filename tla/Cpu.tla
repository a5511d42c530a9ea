-------------------------------- MODULE Cpu ---------------------------------
(***************************************************************************)
(* The fetch-execute loop of main() and every instruction handler.  One    *)
(* step of the loop is one action: the handler the dispatch tables select, *)
(* with the whole of its effect on PC, registers, memory, flags and        *)
(* standard output.  In DISSASSEMBLE mode the handlers still move data;     *)
(* only control transfers, interrupts and division look at the mode.       *)
(* INTERPRET stands for INTERPRET_DEBUG too, which only prints more.        *)
(***************************************************************************)
EXTENDS Alu, Decoder, Machine

CONSTANTS
  Images,  \* loaded programs: [name -> [text, a_text, regs, mem]]
  Modes,   \* the modes to run them in
  Junk     \* the values an unassigned or overwritten uint16_t local may hold

ASSUME ModesAssumption == Modes \subseteq {"INTERPRET", "DISSASSEMBLE"}

ASSUME JunkAssumption == Junk \subseteq Word

\* What main() and init_stack leave when the loop starts.
ASSUME ImagesAssumption ==
  \A i \in DOMAIN Images :
    /\ Images[i].a_text \in Int
    /\ Images[i].text \in Seq(Byte)
    /\ Images[i].regs \in [RegNum -> Word]
    /\ IsMem(Images[i].mem)

VARIABLES
  prog,    \* the image being run
  text,    \* g_text_segment: its text area and the bytes that follow
  a_text,  \* the length of the text area
  mode,    \* PROGRAM_MODE
  PC,
  regs,    \* g_registers
  mem,     \* g_memory, which is also g_stack
  flags,   \* g_flags
  status,  \* "run", or how the process ended
  code,    \* the argument of exit()
  out      \* the bytes written to stdout by the write system call

vars == <<prog, text, a_text, mode, PC, regs, mem, flags, status, code, out>>

Init ==
  /\ prog \in DOMAIN Images
  /\ text = Images[prog].text
  /\ a_text = Images[prog].a_text
  /\ mode \in Modes
  /\ PC = 0
  /\ regs = Images[prog].regs
  /\ mem = Images[prog].mem
  /\ flags = NoFlags
  /\ status = "run" /\ code = 0 /\ out = <<>>

-----------------------------------------------------------------------------
(* Fetching.  The bytes after the text area (data, symbols) can be fetched  *)
(* as well; past the file the buffer holds zeros.                           *)

Text(a)     == IF a < Len(text) THEN text[a + 1] ELSE 0
TextWord(a) == Join(Text(a), Text(a + 1))

Store == [regs |-> regs, mem |-> mem]
byte1 == Text(PC)
byte2 == Text(PC + 1)
W     == FieldW(byte1)
D     == FieldD(byte1)

Running == status = "run" /\ PC < a_text - 1

Fetch(name) == Running /\ Handler[byte1][Reg(byte2)] = name

(* The operand of a mod-reg-r/m byte whose displacement starts at `at`.     *)
Displacement(at) ==
  CASE DispSize(byte2) = 0 -> 0
    [] DispSize(byte2) = 1 -> SignExtend16(Text(at))
    [] DispSize(byte2) = 2 -> TextWord(at)

\* Mutation of get_mod: the sum is not kept to 16 bits.
GetModUnwrapped(at) ==
  IF Mod(byte2) = 3 THEN RegOperand(R_M(byte2))
  ELSE IF Mod(byte2) = 0 /\ R_M(byte2) = 6 THEN EaOperand(Displacement(at))
  ELSE EaOperand(EaBase(Store, R_M(byte2)) + Displacement(at))

get_mod(at) ==
  IF Mod(byte2) = 3 THEN RegOperand(R_M(byte2))
  ELSE IF Mod(byte2) = 0 /\ R_M(byte2) = 6 THEN EaOperand(Displacement(at))
  ELSE EaOperand(Wrap(EaBase(Store, R_M(byte2)) + Displacement(at)))

RM    == get_mod(Wrap(PC + 2))              \* print_mr and the others
EndRM == Wrap(Wrap(PC + 2) + DispSize(byte2))

\* print_mrr: the destination is the register when d = 1.
MrrLeft(d)  == IF d = 1 THEN RegOperand(Reg(byte2)) ELSE RM
MrrRight(d) == IF d = 1 THEN RM ELSE RegOperand(Reg(byte2))

\* Mutation of ImmSize: the s bit is ignored.
ImmSizeByWidth(s) == IF W = 1 THEN 2 ELSE 1

\* print_mr_data (s = 0) and print_mr_sw: an immediate follows the operand,
\* a byte zero-extended by the union it is stored in, unless s = 0, w = 1.
ImmSize(s)   == IF s = 0 /\ W = 1 THEN 2 ELSE 1
Immediate(s) == IF ImmSize(s) = 2 THEN TextWord(EndRM) ELSE Text(EndRM)
EndImm(s)    == Wrap(EndRM + ImmSize(s))

\* An immediate right after the opcode, for the accumulator forms.
AccImm == IF W = 1 THEN TextWord(PC + 1) ELSE Text(PC + 1)

-----------------------------------------------------------------------------
(* Completing an instruction *)

Retire(pc, s, f) ==
  /\ PC' = pc /\ regs' = s.regs /\ mem' = s.mem /\ flags' = f
  /\ UNCHANGED <<prog, text, a_text, mode, status, code, out>>

Halt(how, n) ==
  /\ status' = how /\ code' = n
  /\ UNCHANGED <<prog, text, a_text, mode, PC, regs, mem, flags, out>>

\* Advance only: what a handler without effect does.
Skip(pc) == Retire(pc, Store, flags)

-----------------------------------------------------------------------------
(* op_dw: register/memory with register, either direction *)

op_mov_0 ==
  /\ Fetch("mov_0")
  /\ Retire(EndRM, set_data(Store, MrrLeft(D), W, get_data(Store, MrrRight(D), W)),
            flags)

\* process_operation: left := left op right; the flags come from the operands.
DwLeft  == get_data(Store, MrrLeft(D), W)
DwRight == get_data(Store, MrrRight(D), W)
DwRetire(res, f) == Retire(EndRM, set_data(Store, MrrLeft(D), W, res), f)

op_add_0 == Fetch("add_0") /\ DwRetire(Add(DwLeft, DwRight), AddFlags(DwLeft, DwRight, W))

op_sub_0 == Fetch("sub_0") /\ DwRetire(Sub(DwLeft, DwRight), SubFlags(DwLeft, DwRight, W))

op_cmp_0 == Fetch("cmp_0") /\ Retire(EndRM, Store, CmpFlags(DwLeft, DwRight, W))

op_and_0 ==
  /\ Fetch("and_0")
  /\ LET res == And(DwLeft, DwRight) IN DwRetire(res, LogicFlags(res, W))

op_or_0 ==
  /\ Fetch("or_0")
  /\ LET res == Or(DwLeft, DwRight) IN DwRetire(res, LogicFlags(res, W))

op_xor_0 ==
  /\ Fetch("xor_0")
  /\ LET res == Xor(DwLeft, DwRight) IN DwRetire(res, LogicFlags(res, W))

-----------------------------------------------------------------------------
(* op_sw: register/memory with an immediate that may be a single byte *)

RmData == get_data(Store, RM, W)

\* A byte in -128 .. -100 takes five characters of the four of data_str: the
\* text of a memory operand may then spill over the operands themselves,
\* whose type becomes a memory operand's or one get_data() refuses.
Overrun ==
  RM.type = "ea" /\ ImmSize(D) = 1 /\ SignExtend16(Immediate(D)) \in 65408 .. 65436

op_add_1 ==
  /\ Fetch("add_1")
  /\ \/ LET imm == Immediate(D) IN
        Retire(EndImm(D), set_data(Store, RM, W, Add(RmData, imm)),
               AddImmFlags(RM.type = "ea", RmData, imm, W))
     \/ /\ Overrun
        /\ \E ea \in Junk, imm \in Junk :
             LET l == get_memory(Store, ea, W) IN
             Retire(EndImm(D), set_memory(Store, ea, W, Add(l, imm)),
                    AddImmFlags(TRUE, l, imm, W))

op_sub_1 ==
  /\ Fetch("sub_1")
  /\ \/ LET imm == Immediate(D) IN
        Retire(EndImm(D), set_data(Store, RM, W, Sub(RmData, imm)),
               CmpFlags(RmData, imm, W))
     \/ Overrun /\ Halt("exit", 1)

\* The only handler that sign-extends the byte (s = 1, w = 1).
op_cmp_1 ==
  /\ Fetch("cmp_1")
  /\ \/ LET imm == IF D = 1 /\ W = 1 THEN SignExtend16(Immediate(D)) ELSE Immediate(D)
        IN  Retire(EndImm(D), Store, CmpFlags(RmData, imm, W))
     \/ Overrun /\ Halt("exit", 1)

-----------------------------------------------------------------------------
(* op_w: one operand, or an immediate of the operand's width *)

ImmRetire(res, f) == Retire(EndImm(0), set_data(Store, RM, W, res), f)

op_mov_1 == Fetch("mov_1") /\ ImmRetire(Immediate(0), flags)

op_and_1 ==
  /\ Fetch("and_1")
  /\ LET res == And(RmData, Immediate(0)) IN ImmRetire(res, LogicFlags(res, W))

op_or_1 ==
  /\ Fetch("or_1")
  /\ LET res == Or(RmData, Immediate(0)) IN ImmRetire(res, LogicFlags(res, W))

op_xor_1 ==
  /\ Fetch("xor_1")
  /\ LET res == Xor(RmData, Immediate(0)) IN ImmRetire(res, LogicFlags(res, W))

op_test_1 ==
  /\ Fetch("test_1")
  /\ Retire(EndImm(0), Store, LogicFlags(And(RmData, Immediate(0)), W))

op_test_0 ==
  /\ Fetch("test_0")
  /\ LET res == And(RmData, get_data(Store, RegOperand(Reg(byte2)), W))
     IN  Retire(EndRM, Store, LogicFlags(res, W))

op_inc_0 ==
  /\ Fetch("inc_0")
  /\ Retire(EndRM, set_data(Store, RM, W, Wrap(RmData + 1)),
            IncFlags(flags, RmData, W))

op_dec_0 ==
  /\ Fetch("dec_0")
  /\ Retire(EndRM, set_data(Store, RM, W, Wrap(RmData - 1)),
            DecFlags(flags, RmData))

op_neg ==
  /\ Fetch("neg")
  /\ Retire(EndRM, set_data(Store, RM, W, Wrap(-RmData)), NegFlags(RmData, W))

op_xchg_0 ==
  /\ Fetch("xchg_0")
  /\ LET other == RegOperand(Reg(byte2)) IN
     Retire(EndRM,
            set_data(set_data(Store, RM, W, get_data(Store, other, W)),
                     other, W, RmData),
            flags)

\* A zero divisor ends the process; the byte remainder is meant for AH.
op_div ==
  /\ Fetch("div")
  /\ \/ /\ mode = "DISSASSEMBLE"
        /\ Skip(EndRM)
     \/ /\ mode # "DISSASSEMBLE" /\ RmData = 0
        /\ Halt("exit", 0)
     \/ /\ mode # "DISSASSEMBLE" /\ RmData # 0 /\ W = 1
        /\ LET res == DivLong(regs[DX], regs[AX], RmData) IN
           Retire(EndRM, [Store EXCEPT !.regs = [@ EXCEPT ![AX] = res.q, ![DX] = res.r]],
                  flags)
     \/ /\ mode # "DISSASSEMBLE" /\ RmData # 0 /\ W = 0
        /\ LET q == LowByte(regs[AX] \div RmData)
               r == LowByte(regs[AX] % RmData) IN
           Retire(EndRM, set_registers(set_registers(Store, AX, 0, q), SP, 0, r), flags)

\* For a byte the right operand is never assigned.
op_cmp_2 ==
  /\ Fetch("cmp_2")
  /\ \E r \in IF W = 1 THEN {AccImm} ELSE Junk :
       Retire(Wrap(PC + 2 + W), Store, CmpFlags(get_registers(Store, AX, W), r, W))

op_push_0 ==
  Fetch("push_0") /\ Retire(EndRM, push_stack(Store, get_data(Store, RM, 1), 1), flags)

\* The address is computed before SP moves, the value stored after.
op_pop_0 ==
  Fetch("pop_0") /\ Retire(EndRM, set_data(PopStore(Store), RM, 1, PopValue(Store)), flags)

\* The return address is pushed before the target is read.
op_call_1 ==
  /\ Fetch("call_1")
  /\ \/ mode = "DISSASSEMBLE" /\ Skip(EndRM)
     \/ /\ mode # "DISSASSEMBLE"
        /\ LET pushed == push_stack(Store, EndRM, 1) IN
           Retire(get_data(pushed, RM, 1), pushed, flags)

op_jmp_2 ==
  /\ Fetch("jmp_2")
  /\ Skip(IF mode = "DISSASSEMBLE" THEN EndRM ELSE get_data(Store, RM, 1))

-----------------------------------------------------------------------------
(* instructs_reg_only: the register is in the opcode *)

Reg1 == R_M(byte1)

SetReg1(v) == set_registers(Store, Reg1, 1, v)

op_push_1 == Fetch("push_1") /\ Retire(Wrap(PC + 1), push_stack(Store, regs[Reg1], 1), flags)

op_pop_1 ==
  /\ Fetch("pop_1")
  /\ Retire(Wrap(PC + 1), set_registers(PopStore(Store), Reg1, 1, PopValue(Store)), flags)

op_xchg_1 ==
  /\ Fetch("xchg_1")
  /\ Retire(Wrap(PC + 1), set_registers(SetReg1(regs[AX]), AX, 1, regs[Reg1]), flags)

op_inc_1 ==
  /\ Fetch("inc_1")
  /\ Retire(Wrap(PC + 1), SetReg1(Wrap(regs[Reg1] + 1)), IncFlags(flags, regs[Reg1], 1))

op_dec_1 ==
  /\ Fetch("dec_1")
  /\ Retire(Wrap(PC + 1), SetReg1(Wrap(regs[Reg1] - 1)), DecFlags(flags, regs[Reg1]))

-----------------------------------------------------------------------------
(* op_others *)

\* get_segreg is indexed with the unshifted field: only es is in its table,
\* and the string printed for another may not be one.
op_push_2 ==
  /\ Fetch("push_2")
  /\ \/ Skip(Wrap(PC + 1))
     \/ Reg(byte1) # 0 /\ Halt("crash", 0)

op_lea ==
  /\ Fetch("lea")
  /\ Retire(EndRM,
            IF RM.type = "ea" THEN set_registers(Store, Reg(byte2), 1, RM.val) ELSE Store,
            flags)

op_mov_2 ==
  /\ Fetch("mov_2")
  /\ LET w == (byte1 \div 8) % 2
         data == IF w = 1 THEN TextWord(PC + 1) ELSE byte2 IN
     Retire(Wrap(PC + 2 + w), set_registers(Store, Reg1, w, data), flags)

\* Mutation of op_ret: the return address is read, not popped.
RetWithoutPop == Fetch("ret_0") /\ Retire(PopValue(Store), Store, flags)

\* ret imm moves SP even when disassembling.
op_ret ==
  \/ /\ Fetch("ret_0")
     /\ IF mode = "DISSASSEMBLE" THEN Skip(Wrap(PC + 1))
                                 ELSE Retire(PopValue(Store), PopStore(Store), flags)
  \/ /\ Fetch("ret_1")
     /\ LET s == IF mode = "DISSASSEMBLE" THEN Store ELSE PopStore(Store) IN
        Retire(IF mode = "DISSASSEMBLE" THEN Wrap(PC + 3) ELSE PopValue(Store),
               [s EXCEPT !.regs[SP] = Wrap(@ + TextWord(PC + 1))], flags)

op_cbw ==
  /\ Fetch("cbw")
  /\ Retire(Wrap(PC + 1), set_registers(Store, AX, 1, SignExtend16(regs[AX])), flags)

op_cwd ==
  /\ Fetch("cwd")
  /\ Retire(Wrap(PC + 1),
            set_registers(Store, DX, 1, IF IsNeg16(regs[AX]) THEN 65535 ELSE 0), flags)

op_sub_2 ==
  /\ Fetch("sub_2")
  /\ LET l == get_registers(Store, AX, W) IN
     Retire(Wrap(PC + 2 + W), set_registers(Store, AX, W, Sub(l, AccImm)),
            CmpFlags(l, AccImm, W))

(* op_logic.  print_mr_vw fetches the displacement one byte early, at the   *)
(* mod-reg-r/m byte itself, and skips the right number of bytes.            *)

\* Mutation of ShiftCount: the v bit is ignored.
ShiftByOne == 1

ShiftRM    == get_mod(Wrap(PC + 1))
ShiftData  == get_data(Store, ShiftRM, W)
ShiftCount == IF D = 1 THEN LowByte(regs[CX]) ELSE 1
ShiftRetire(res, f) == Retire(EndRM, set_data(Store, ShiftRM, W, res), f)

op_shl ==
  /\ Fetch("shl")
  /\ ShiftRetire(Shl(ShiftData, ShiftCount), ShlFlags(ShiftData, ShiftCount, W))

op_sar ==
  /\ Fetch("sar")
  /\ ShiftRetire(Sar(ShiftData, ShiftCount, W),
                 SarFlags(flags, ShiftData, ShiftCount, W))

\* shr, rol, ror, rcl, rcr: not implemented, and the result is stored anyway.
op_rotate ==
  /\ Fetch("rotate")
  /\ \E res \in Junk :
       ShiftRetire(res, [flags EXCEPT !.ZF = (res = 0), !.SF = IsNeg(res, W)])

-----------------------------------------------------------------------------
(* Handlers that only print and step over their instruction *)

Ports            == {"in_1", "out_1", "xlat"}
FlagTransfers    == {"lahf", "sahf", "pushf", "popf"}
ProcessorControl == {"clc", "cmc", "stc", "cld", "std", "cli", "sti", "hlt", "wait"}
OneByteNoOps     == Ports \cup FlagTransfers \cup ProcessorControl \cup {"int_1", "string"}

Multiplications == {"mul", "imul", "idiv", "not"}
LoadPointers    == {"lds", "les"}
ModRmNoOps      == {"adc_0", "ssb_0", "jmp_4"} \cup Multiplications \cup LoadPointers

AddImmediates == {"add_2", "adc_2"}
AccNoOps      == {"ssb_2", "test_2"} \cup AddImmediates

SkipByte  == \E n \in OneByteNoOps : Fetch(n) /\ Skip(Wrap(PC + 1))
SkipByte2 == \E n \in {"in_0", "out_0", "rep"} : Fetch(n) /\ Skip(Wrap(PC + 2))
SkipAcc   == \E n \in AccNoOps : Fetch(n) /\ Skip(Wrap(PC + 2 + W))
SkipAddr  == \E n \in {"mov_3", "mov_4"} : Fetch(n) /\ Skip(Wrap(PC + 3))
SkipRM    == \E n \in ModRmNoOps : Fetch(n) /\ Skip(EndRM)
op_ssb_1  == Fetch("ssb_1") /\ Skip(EndImm(D))

-----------------------------------------------------------------------------
(* System calls: BX points to a MINIX message; the reply overwrites m_type. *)

Message(offset) == get_memory(Store, regs[BX] + offset, 1)

m_type == Signed16(Message(2))
m1_i1  == Message(4)
m1_i2  == Message(6)
m1_p1  == Message(10)

Reply(s, offset, v) == set_memory(s, Wrap(regs[BX] + offset), 1, v)

Cleared == set_registers(Store, AX, 1, 0)

Syscall(number) ==
  Fetch("int_0") /\ mode # "DISSASSEMBLE" /\ m_type = number

sys_exit_1 == Syscall(1) /\ Halt("exit", Signed16(m1_i1))

sys_write_4 ==
  /\ Syscall(4)
  /\ out' = out \o [i \in 1 .. m1_i2 |-> ByteAt(mem, m1_p1 + i - 1)]
  /\ PC' = Wrap(PC + 2)
  /\ regs' = Cleared.regs /\ mem' = Reply(Cleared, 2, m1_i2).mem
  /\ UNCHANGED <<prog, text, a_text, mode, flags, status, code>>

sys_brk_17 ==
  /\ Syscall(17)
  /\ Retire(Wrap(PC + 2), Reply(Reply(Cleared, 2, 0), 18, m1_p1), flags)

sys_ioctl_54 ==
  Syscall(54) /\ Retire(Wrap(PC + 2), Reply(Cleared, 2, 65514), flags)

\* The other entries of the table are null pointers.
sys_missing ==
  /\ Fetch("int_0") /\ mode # "DISSASSEMBLE" /\ m_type \notin {1, 4, 17, 54}
  /\ Halt("crash", 0)

int_disassemble == Fetch("int_0") /\ mode = "DISSASSEMBLE" /\ Skip(Wrap(PC + 2))

-----------------------------------------------------------------------------
(* op_pc is reached when every group before it refused the byte.  op_logic  *)
(* refuses flag 6 after moving PC: op_pc then looks at the following byte.  *)

PcEntry ==
  IF Handler[byte1][Reg(byte2)] = "logic_6" THEN Wrap(PC + 1) ELSE PC

FetchPc(name) ==
  /\ Running /\ Handler[byte1][Reg(byte2)] \in {"none", "logic_6"}
  /\ PcHandler[Text(PcEntry)] = name

Jump(fallThrough, target) ==
  Skip(IF mode = "DISSASSEMBLE" THEN fallThrough ELSE target)

op_call_0 ==
  /\ FetchPc("call_0")
  /\ LET next == Wrap(PcEntry + 3) IN
     \/ mode = "DISSASSEMBLE" /\ Skip(next)
     \/ /\ mode # "DISSASSEMBLE"
        /\ Retire(Wrap(next + TextWord(PcEntry + 1)), push_stack(Store, next, 1), flags)

op_jmp ==
  \/ /\ FetchPc("jmp_0")
     /\ LET next == Wrap(PcEntry + 3) IN Jump(next, Wrap(next + TextWord(PcEntry + 1)))
  \/ /\ FetchPc("jmp_1")
     /\ LET next == Wrap(PcEntry + 2)
        IN  Jump(next, Wrap(next + SignExtend16(Text(PcEntry + 1))))

op_cond_jmp ==
  /\ FetchPc("cond_jmp")
  /\ LET next == Wrap(PcEntry + 2)
         disp == SignExtend16(Text(PcEntry + 1)) IN
     IF CanJump(Text(PcEntry), flags, regs[CX]) THEN Jump(next, Wrap(next + disp))
                                                ELSE Skip(next)

\* No handler: the loop tries again at the same place (or one byte further).
unmatched == FetchPc("none") /\ Skip(PcEntry)

\* The loop ends one byte before the end of the text area.
main_return ==
  /\ status = "run" /\ PC >= a_text - 1
  /\ Halt("return", 0)

-----------------------------------------------------------------------------
Syscalls ==
  \/ sys_exit_1 \/ sys_write_4 \/ sys_brk_17 \/ sys_ioctl_54 \/ sys_missing
  \/ int_disassemble

Computation ==
  \/ op_mov_0 \/ op_add_0 \/ op_sub_0 \/ op_cmp_0 \/ op_and_0 \/ op_or_0 \/ op_xor_0
  \/ op_add_1 \/ op_sub_1 \/ op_cmp_1
  \/ op_mov_1 \/ op_and_1 \/ op_or_1 \/ op_xor_1 \/ op_test_1 \/ op_test_0
  \/ op_inc_0 \/ op_dec_0 \/ op_neg \/ op_xchg_0 \/ op_div \/ op_cmp_2
  \/ op_xchg_1 \/ op_inc_1 \/ op_dec_1
  \/ op_lea \/ op_mov_2 \/ op_cbw \/ op_cwd \/ op_sub_2
  \/ op_shl \/ op_sar \/ op_rotate

StackAndControl ==
  \/ op_push_0 \/ op_pop_0 \/ op_push_1 \/ op_pop_1 \/ op_push_2
  \/ op_call_1 \/ op_jmp_2 \/ op_ret \/ op_call_0 \/ op_jmp \/ op_cond_jmp

NoEffect ==
  \/ SkipByte \/ SkipByte2 \/ SkipAcc \/ SkipAddr \/ SkipRM \/ op_ssb_1
  \/ unmatched

Next == Computation \/ StackAndControl \/ NoEffect \/ Syscalls \/ main_return

Spec == Init /\ [][Next]_vars

\* One thread runs the loop: it always goes on while it can.
FairSpec == Spec /\ WF_vars(Next)

TypeOK ==
  /\ prog \in DOMAIN Images /\ mode \in Modes
  /\ text = Images[prog].text /\ a_text = Images[prog].a_text
  /\ PC \in Word
  /\ regs \in [RegNum -> Word]
  /\ IsMem(mem)
  /\ flags \in Flags
  /\ status \in {"run", "return", "exit", "crash"}
  /\ code \in Int /\ -32768 <= code /\ code <= 32767
  /\ out \in Seq(Byte)
=============================================================================
