------------------------------ MODULE Decoder -------------------------------
(***************************************************************************)
(* Opcode dispatch.  instruct() offers the byte at PC to six groups of     *)
(* handlers (op_dw, op_sw, op_w, instructs_reg_only, op_others, op_pc);    *)
(* within and across groups the first handler whose masked opcode matches  *)
(* (and, where it looks at it, whose reg field of the second byte matches) *)
(* executes the instruction.                                               *)
(***************************************************************************)
EXTENDS Word16, Sequences

DW_MASK   == \b11111100
SW_MASK   == \b11111100
VW_MASK   == \b11111100
W_MASK    == \b11111110
REG_MASK  == \b11111000
MOV2_MASK == \b11110000
SEG_MASK  == \b11100111
Exact     == \b11111111

AnyFlag == 0 .. 7

Row(name, mask, op, field) ==
  [name |-> name, bytes |-> {b \in Byte : And8(b, mask) = op}, field |-> field]

op_dw ==
  << Row("mov_0", DW_MASK, \b10001000, AnyFlag),
     Row("add_0", DW_MASK, \b00000000, AnyFlag),
     Row("adc_0", DW_MASK, \b00010000, AnyFlag),
     Row("sub_0", DW_MASK, \b00101000, AnyFlag),
     Row("ssb_0", DW_MASK, \b00011000, AnyFlag),
     Row("cmp_0", DW_MASK, \b00111000, AnyFlag),
     Row("and_0", DW_MASK, \b00100000, AnyFlag),
     Row("or_0",  DW_MASK, \b00001000, AnyFlag),
     Row("xor_0", DW_MASK, \b00110000, AnyFlag) >>

\* adc_1 has the opcode and the flag of add_1, which is tried first.
op_sw ==
  << Row("add_1", SW_MASK, \b10000000, {0}),
     Row("adc_1", SW_MASK, \b10000000, {0}),
     Row("sub_1", SW_MASK, \b10000000, {5}),
     Row("ssb_1", SW_MASK, \b10000000, {3}),
     Row("cmp_1", SW_MASK, \b10000000, {7}) >>

op_w ==
  << Row("mov_1",  W_MASK, \b11000110, {0}),
     Row("mov_3",  W_MASK, \b10100000, AnyFlag),
     Row("mov_4",  W_MASK, \b10100010, AnyFlag),
     Row("add_2",  W_MASK, \b00000100, AnyFlag),
     Row("adc_2",  W_MASK, \b00010100, AnyFlag),
     Row("inc_0",  W_MASK, \b11111110, {0}),
     Row("dec_0",  W_MASK, \b11111110, {1}),
     Row("neg",    W_MASK, \b11110110, {3}),
     Row("mul",    W_MASK, \b11110110, {4}),
     Row("imul",   W_MASK, \b11110110, {5}),
     Row("div",    W_MASK, \b11110110, {6}),
     Row("idiv",   W_MASK, \b11110110, {7}),
     Row("not",    W_MASK, \b11110110, {2}),
     Row("and_1",  W_MASK, \b10000000, {4}),
     Row("xchg_0", W_MASK, \b10000110, AnyFlag),
     Row("test_0", W_MASK, \b10000100, AnyFlag),
     Row("test_1", W_MASK, \b11110110, {0}),
     Row("or_1",   W_MASK, \b10000000, {1}),
     Row("xor_1",  W_MASK, \b10000000, {6}),
     Row("cmp_2",  W_MASK, \b00111100, AnyFlag),
     Row("push_0", Exact,  \b11111111, {6}),
     Row("pop_0",  Exact,  \b10001111, {0}),
     Row("call_1", Exact,  \b11111111, {2}),
     Row("jmp_2",  Exact,  \b11111111, {4}),
     Row("jmp_4",  Exact,  \b11111111, {5}) >>

\* Mutation of instructs_reg_only: push has a mask too wide and takes pop.
RegOnlyWideMask ==
  << Row("push_1", MOV2_MASK, \b01010000, AnyFlag),
     Row("pop_1",  REG_MASK, \b01011000, AnyFlag),
     Row("xchg_1", REG_MASK, \b10010000, AnyFlag),
     Row("inc_1",  REG_MASK, \b01000000, AnyFlag),
     Row("dec_1",  REG_MASK, \b01001000, AnyFlag) >>

instructs_reg_only ==
  << Row("push_1", REG_MASK, \b01010000, AnyFlag),
     Row("pop_1",  REG_MASK, \b01011000, AnyFlag),
     Row("xchg_1", REG_MASK, \b10010000, AnyFlag),
     Row("inc_1",  REG_MASK, \b01000000, AnyFlag),
     Row("dec_1",  REG_MASK, \b01001000, AnyFlag) >>

\* pop_2 has the opcode and the mask of push_2, which is tried first.
\* logic leaves the instruction to op_pc, one byte further, for flag 6.
op_others ==
  << Row("push_2",  SEG_MASK,  \b00000111, AnyFlag),
     Row("pop_2",   SEG_MASK,  \b00000111, AnyFlag),
     Row("in_0",    W_MASK,    \b11100100, AnyFlag),
     Row("in_1",    W_MASK,    \b11101100, AnyFlag),
     Row("out_0",   W_MASK,    \b11100110, AnyFlag),
     Row("out_1",   W_MASK,    \b11101110, AnyFlag),
     Row("xlat",    Exact,     \b11010111, AnyFlag),
     Row("lea",     Exact,     \b10001101, AnyFlag),
     Row("lds",     Exact,     \b11000101, AnyFlag),
     Row("les",     Exact,     \b11000100, AnyFlag),
     Row("lahf",    Exact,     \b10011111, AnyFlag),
     Row("sahf",    Exact,     \b10011110, AnyFlag),
     Row("pushf",   Exact,     \b10011100, AnyFlag),
     Row("popf",    Exact,     \b10011101, AnyFlag),
     Row("mov_2",   MOV2_MASK, \b10110000, AnyFlag),
     Row("int_0",   Exact,     \b11001101, AnyFlag),
     Row("int_1",   Exact,     \b11001100, AnyFlag),
     Row("ret_0",   Exact,     \b11000011, AnyFlag),
     Row("ret_1",   Exact,     \b11000010, AnyFlag),
     Row("cbw",     Exact,     \b10011000, AnyFlag),
     Row("cwd",     Exact,     \b10011001, AnyFlag),
     Row("ssb_2",   DW_MASK,   \b00011100, AnyFlag),
     Row("sub_2",   W_MASK,    \b00101100, AnyFlag),
     Row("shl",     VW_MASK,   \b11010000, {4}),
     Row("sar",     VW_MASK,   \b11010000, {7}),
     Row("rotate",  VW_MASK,   \b11010000, {0, 1, 2, 3, 5}),
     Row("logic_6", VW_MASK,   \b11010000, {6}),
     Row("clc",     Exact,     \b11111000, AnyFlag),
     Row("cmc",     Exact,     \b11110101, AnyFlag),
     Row("stc",     Exact,     \b11111001, AnyFlag),
     Row("cld",     Exact,     \b11111100, AnyFlag),
     Row("std",     Exact,     \b11111101, AnyFlag),
     Row("cli",     Exact,     \b11111010, AnyFlag),
     Row("sti",     Exact,     \b11111011, AnyFlag),
     Row("hlt",     Exact,     \b11110100, AnyFlag),
     Row("wait",    Exact,     \b10011011, AnyFlag),
     Row("test_2",  W_MASK,    \b10101000, AnyFlag),
     Row("rep",     W_MASK,    \b11110010, AnyFlag),
     Row("string",  W_MASK,    \b10100100, AnyFlag),
     Row("string",  W_MASK,    \b10100110, AnyFlag),
     Row("string",  W_MASK,    \b10101110, AnyFlag),
     Row("string",  W_MASK,    \b10101100, AnyFlag),
     Row("string",  W_MASK,    \b10101010, AnyFlag) >>

\* Mutation: the short jump is missing.
OpPcWithoutShortJump ==
  << Row("call_0",   Exact, \b11101000, AnyFlag),
     Row("jmp_0",    Exact, \b11101001, AnyFlag),
     Row("cond_jmp", MOV2_MASK, \b01110000, AnyFlag),
     Row("cond_jmp", DW_MASK,   \b11100000, AnyFlag) >>

op_pc ==
  << Row("call_0",   Exact, \b11101000, AnyFlag),
     Row("jmp_0",    Exact, \b11101001, AnyFlag),
     Row("jmp_1",    Exact, \b11101011, AnyFlag),
     Row("cond_jmp", MOV2_MASK, \b01110000, AnyFlag),
     Row("cond_jmp", DW_MASK,   \b11100000, AnyFlag) >>

\* The first row of a table that accepts the two bytes.
First(table, b, flag) ==
  LET hits == {i \in DOMAIN table : b \in table[i].bytes /\ flag \in table[i].field}
  IN  IF hits = {} THEN "none"
      ELSE table[CHOOSE i \in hits : \A j \in hits : i <= j].name

Handler == [b \in Byte |-> [flag \in AnyFlag |->
  First(op_dw \o op_sw \o op_w \o instructs_reg_only \o op_others, b, flag)]]

PcHandler == [b \in Byte |-> First(op_pc, b, 0)]

-----------------------------------------------------------------------------
(* Fields of the two instruction bytes *)

FieldD(b1)  == (b1 \div 2) % 2
FieldW(b1)  == b1 % 2
Mod(b2)     == b2 \div 64
Reg(b2)     == (b2 \div 8) % 8
R_M(b2)     == b2 % 8

\* Mutation of DispSize: mod 0 never has a displacement.
DispSizeByMod(b2) == IF Mod(b2) = 3 THEN 0 ELSE Mod(b2)

\* The displacement bytes get_mod consumes.
DispSize(b2) ==
  CASE Mod(b2) = 0 -> IF R_M(b2) = 6 THEN 2 ELSE 0
    [] Mod(b2) = 1 -> 1
    [] Mod(b2) = 2 -> 2
    [] Mod(b2) = 3 -> 0

\* op_cond_jmp: is the jump taken?  jp, jo, js, jnp, jno, jns and the loops
\* are not implemented and never jump.
CanJump(b1, f, cx) ==
  CASE b1 = \b01110100 -> f.ZF                          \* je
    [] b1 = \b01111100 -> f.SF # f.OF                   \* jl
    [] b1 = \b01111110 -> f.ZF \/ f.SF # f.OF           \* jle
    [] b1 = \b01110010 -> f.CF                          \* jb
    [] b1 = \b01110110 -> f.CF \/ f.ZF                  \* jbe
    [] b1 = \b01110101 -> ~f.ZF                         \* jne
    [] b1 = \b01111101 -> f.SF = f.OF                   \* jnl
    [] b1 = \b01111111 -> ~f.ZF /\ f.OF = f.SF          \* jnle
    [] b1 = \b01110011 -> ~f.CF                         \* jnb
    [] b1 = \b01110111 -> ~f.CF /\ ~f.ZF                \* jnbe
    [] b1 = \b11100011 -> cx = 0                        \* jcxz
    [] OTHER -> FALSE
=============================================================================
