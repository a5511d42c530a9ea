------------------------------ MODULE Machine -------------------------------
(***************************************************************************)
(* The data side of the interpreter: register file and memory, accessed    *)
(* through the functions of utils.c.  A store s is [regs, mem]; mem maps   *)
(* the addresses written so far, the others hold the zero of fresh pages.  *)
(***************************************************************************)
EXTENDS Word16

AX == 0
CX == 1
DX == 2
BX == 3
SP == 4
BP == 5
SI == 6
DI == 7

RegNum  == 0 .. 7
Address == 0 .. UINT16_MAX + 1   \* a word at 0xffff ends one byte further

\* The bytes main() allocates for g_memory: one less than can be addressed.
STACK_CAPACITY == 65535

\* A memory: bytes at some of the addresses.
IsMem(m) == DOMAIN m \subseteq Address /\ \A a \in DOMAIN m : m[a] \in Byte

ByteAt(m, a) == IF a \in DOMAIN m THEN m[a] ELSE 0

WriteByte(m, a, b) == [x \in DOMAIN m \cup {a} |-> IF x = a THEN b ELSE m[x]]

WriteWord(m, a, v) ==
  WriteByte(WriteByte(m, a, LowByte(v)), a + 1, HighByte(v))

-----------------------------------------------------------------------------
(* Registers.  Byte registers 4..7 are the high bytes of AX, CX, DX, BX.   *)

get_registers(s, reg, w) ==
  IF w = 1 THEN s.regs[reg]
  ELSE IF reg >= 4 THEN HighByte(s.regs[reg % 4]) ELSE LowByte(s.regs[reg])

\* Mutation of set_registers: a byte replaces the whole register.
SetWholeRegister(s, reg, w, value) ==
  [s EXCEPT !.regs[IF w = 1 THEN reg ELSE reg % 4] = value]

\* A high byte register takes the HIGH byte of the value.
set_registers(s, reg, w, value) ==
  IF w = 1 THEN [s EXCEPT !.regs[reg] = value]
  ELSE IF reg >= 4
    THEN [s EXCEPT !.regs[reg % 4] = Join(LowByte(@), HighByte(value))]
    ELSE [s EXCEPT !.regs[reg] = Join(LowByte(value), HighByte(@))]

(* Memory *)

get_memory(s, ea, w) ==
  IF w = 1 THEN Join(ByteAt(s.mem, ea), ByteAt(s.mem, ea + 1))
           ELSE SignExtend16(ByteAt(s.mem, ea))

set_memory(s, ea, w, value) ==
  [s EXCEPT !.mem = IF w = 1 THEN WriteWord(@, ea, value)
                             ELSE WriteByte(@, ea, LowByte(value))]

(* Operands: a register, an effective address or an immediate *)

RegOperand(r) == [type |-> "reg", val |-> r]
EaOperand(ea) == [type |-> "ea",  val |-> ea]
ImmOperand(n) == [type |-> "imm", val |-> n]

get_data(s, o, w) ==
  CASE o.type = "reg" -> get_registers(s, o.val, w)
    [] o.type = "ea"  -> get_memory(s, o.val, w)
    [] o.type = "imm" -> o.val

set_data(s, o, w, value) ==
  IF o.type = "reg" THEN set_registers(s, o.val, w, value)
                    ELSE set_memory(s, o.val, w, value)

(* The stack lives at the top of the same memory *)

\* Mutation of push_stack: SP makes room for a byte only.
PushByteOnly(s, data, w) ==
  LET sp == Wrap(s.regs[SP] - 1) IN
  set_memory([s EXCEPT !.regs[SP] = sp], sp, w, data)

\* Mutation: a byte is stored as a word.
PushAlwaysWord(s, data, w) ==
  LET sp == Wrap(s.regs[SP] - 1 - w) IN
  set_memory([s EXCEPT !.regs[SP] = sp], sp, 1, data)

push_stack(s, data, w) ==
  LET sp == Wrap(s.regs[SP] - 1 - w) IN
  set_memory([s EXCEPT !.regs[SP] = sp], sp, w, data)

\* pop_stack(BIT_16): the popped word, and the store once SP has moved.
PopValue(s) == get_memory(s, s.regs[SP], 1)
PopStore(s) == [s EXCEPT !.regs[SP] = Wrap(@ + 2)]

(* get_disp: the base of an effective address *)

EaBase(s, r_m) ==
  CASE r_m = 0 -> s.regs[BX] + s.regs[SI]
    [] r_m = 1 -> s.regs[BX] + s.regs[DI]
    [] r_m = 2 -> s.regs[BP] + s.regs[SI]
    [] r_m = 3 -> s.regs[BP] + s.regs[DI]
    [] r_m = 4 -> s.regs[SI]
    [] r_m = 5 -> s.regs[DI]
    [] r_m = 6 -> s.regs[BP]
    [] r_m = 7 -> s.regs[BX]
=============================================================================
