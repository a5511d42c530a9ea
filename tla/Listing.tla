------------------------------ MODULE Listing -------------------------------
(***************************************************************************)
(* What -d and -m write, a line per turn of the loop: an address, the byte  *)
(* found there, and the bytes pretty_print() is told to add.  Each handler  *)
(* passes its own start and count, before or after it moves PC; nothing     *)
(* ties them to the instruction.  INTERPRET is INTERPRET_DEBUG here.  The   *)
(* text of the instruction and the display of registers are left out.       *)
(***************************************************************************)
EXTENDS Disassembly

VARIABLE line   \* [at, bytes]: the last line written

listVars == <<vars, line>>

Line(at, bytes) == [at |-> at, bytes |-> bytes]

NoLine == Line(0, <<>>)

\* pretty_print: count bytes from byte_start, a uint16_t.
pretty_print(byte_start, count) ==
  [k \in 1 .. count |-> Text(Wrap(byte_start) + k - 1)]

-----------------------------------------------------------------------------
(* The handlers by what they hand to pretty_print *)

PrintMrr == {"mov_0", "add_0", "sub_0", "cmp_0", "and_0", "or_0", "xor_0",
             "lea", "xchg_0", "test_0"}
PrintMr  == {"inc_0", "dec_0", "neg", "div", "push_0", "pop_0", "call_1", "jmp_2"}
PrintMrData == {"mov_1", "and_1", "test_1", "or_1", "xor_1"}
PrintMrSw   == {"add_1", "sub_1", "ssb_1", "cmp_1"}
PrintMrVw   == {"shl", "sar", "rotate"}

\* They print before PC moves, or after.
AccumulatorBefore == {"add_2", "adc_2", "cmp_2"}
AccumulatorAfter  == {"sub_2", "ssb_2", "test_2"}

WordOperand == {"mov_2", "mov_3", "mov_4", "ret_1"}
ByteOperand == {"push_2", "in_0", "out_0", "int_0", "rep"}

\* Mutation of OperandBytes: the displacement is not counted.
OperandBytesOnly == 1

\* The operand byte and its displacement.
OperandBytes == 1 + DispSize(byte2)

\* op_pc, from the byte at which it looks.
PrintedPc ==
  LET name == PcHandler[Text(PcEntry)] IN
  CASE name \in {"call_0", "jmp_0"}   -> pretty_print(PcEntry + 1, 2)
    [] name \in {"jmp_1", "cond_jmp"} -> pretty_print(PcEntry + 1, 1)
    [] name = "none"                  -> <<>>

Printed ==
  LET name == Handler[byte1][Reg(byte2)] IN
  CASE name \in PrintMrr \cup PrintMr \cup ModRmNoOps ->
         pretty_print(PC + 1, OperandBytes)
    [] name \in PrintMrData -> pretty_print(PC + 1, OperandBytes + ImmSize(0))
    [] name \in PrintMrSw   -> pretty_print(PC + 1, OperandBytes + ImmSize(D))
    [] name \in PrintMrVw   -> pretty_print(PC - OperandBytes, OperandBytes)
    [] name \in AccumulatorBefore -> pretty_print(PC + 1, 1 + W)
    [] name \in AccumulatorAfter  -> pretty_print(PC + 3 + W, 1 + W)
    [] name \in WordOperand -> pretty_print(PC + 1, 2)
    [] name \in ByteOperand -> pretty_print(PC + 1, 1)
    [] name \in {"none", "logic_6"} -> PrintedPc
    [] OTHER -> <<>>

\* get_segreg may end the process before anything is printed.
CutShort == status' = "crash" /\ byte1 % 8 = 7

-----------------------------------------------------------------------------
ListingInit == Init /\ line = NoLine

Turn ==
  /\ Running /\ Next
  /\ line' = Line(PC, <<byte1>> \o (IF CutShort THEN <<>> ELSE Printed))

\* Mutation of LastLine: the line is for the last byte of the text area.
LastLineBefore ==
  /\ main_return
  /\ line' = IF mode = "DISSASSEMBLE" THEN Line(a_text - 1, <<0>>) ELSE line

\* A listing ends with a line of its own, "00 (undefined)".
LastLine ==
  /\ main_return
  /\ line' = IF mode = "DISSASSEMBLE" THEN Line(PC, <<0>>) ELSE line

ListingNext == Turn \/ LastLine

ListingSpec == ListingInit /\ [][ListingNext]_listVars

-----------------------------------------------------------------------------
\* The instructions shown wrongly.  A pop of a segment register and a byte
\* moved to a register come with a byte too many; the others with bytes of a
\* neighbour: the accumulator forms of sub, sbb and test, which move PC
\* before they print, and the shifts.
Misprinted(b1) ==
  \/ b1 \in {7, 15, 23, 31} \cup (176 .. 183)
  \/ b1 \in {28, 29, 30, 44, 45, 168, 169} \cup (208 .. 211)

Judged == line # NoLine /\ ~Misprinted(Text(line.at))

\* The bytes of the instruction at an address, one if none is known there.
InstructionAt(at) ==
  LET n == Sweep!LengthAt(prog, at)
  IN  [k \in 1 .. IF n = 0 THEN 1 ELSE n |-> Text(at + k - 1)]

\* A line of a listing or of a trace shows the bytes of the instruction at
\* its address, all of them and no other: what a handler tells pretty_print
\* agrees with the encoding, whichever way the handler has moved PC.  The
\* last line of a listing is not for an instruction.
LinesShowInstructions ==
  (Judged /\ status # "return") => line.bytes = InstructionAt(line.at)

\* Read from top to bottom the bytes of a listing are the text area: a line
\* starts where the bytes of the line before end, the last one included.
\* At a byte of no instruction the listing stays.
NoGapInListing ==
  [][(mode = "DISSASSEMBLE" /\ Judged /\ Sweep!LengthAt(prog, line.at) # 0)
       => line'.at = Wrap(line.at + Len(line.bytes))]_listVars

\* Reference listing of 6.c.out: every line shows the bytes of its
\* instruction, those of the shifts too.  print_mr_vw counts two bytes back
\* from a PC at the operand byte, and shows the end of the instruction before.
LinesAsReference ==
  (line # NoLine /\ status # "return") => line.bytes = InstructionAt(line.at)
=============================================================================
