------------------------------ MODULE Dispatch ------------------------------
(***************************************************************************)
(* Dispatch against the instruction set: the handler that executes the      *)
(* bytes at PC is one written for the instruction they encode.  The first   *)
(* handler whose mask accepts the byte wins, so that a mask a bit too wide  *)
(* or a row too early executes one instruction as another, of the same      *)
(* length for all that a listing shows.                                    *)
(***************************************************************************)
EXTENDS Cpu, InstructionSet

\* What a handler is written for: the names it prints its instruction with.
Serves(name) ==
  CASE name \in {"mov_0", "mov_1", "mov_2", "mov_3", "mov_4"} -> {"mov"}
    [] name \in {"add_0", "add_1", "add_2"}     -> {"add"}
    [] name \in {"adc_0", "adc_1", "adc_2"}     -> {"adc"}
    [] name \in {"sub_0", "sub_1", "sub_2"}     -> {"sub"}
    [] name \in {"ssb_0", "ssb_1", "ssb_2"}     -> {"sbb"}
    [] name \in {"cmp_0", "cmp_1", "cmp_2"}     -> {"cmp"}
    [] name \in {"and_0", "and_1"}              -> {"and"}
    [] name \in {"or_0", "or_1"}                -> {"or"}
    [] name \in {"xor_0", "xor_1"}              -> {"xor"}
    [] name \in {"test_0", "test_1", "test_2"}  -> {"test"}
    [] name \in {"inc_0", "inc_1"}              -> {"inc"}
    [] name \in {"dec_0", "dec_1"}              -> {"dec"}
    [] name \in {"xchg_0", "xchg_1"}            -> {"xchg"}
    [] name \in {"push_0", "push_1", "push_2"}  -> {"push"}
    [] name \in {"pop_0", "pop_1", "pop_2"}     -> {"pop"}
    [] name \in {"call_0", "call_1"}            -> {"call"}
    [] name \in {"jmp_0", "jmp_1", "jmp_2", "jmp_4"} -> {"jmp"}
    [] name \in {"ret_0", "ret_1"}              -> {"ret"}
    [] name \in {"int_0", "int_1"}              -> {"int"}
    [] name \in {"in_0", "in_1"}                -> {"in"}
    [] name \in {"out_0", "out_1"}              -> {"out"}
    [] name = "cond_jmp"                        -> {"branch"}
    [] name = "rotate"                          -> {"rol", "ror", "rcl", "rcr", "shr"}
    [] OTHER                                    -> {name}

\* The handler that takes the bytes at PC, "none" if op_pc refuses them too.
Taker ==
  LET name == Handler[byte1][Reg(byte2)] IN
  IF name \in {"none", "logic_6"} THEN PcHandler[Text(PcEntry)] ELSE name

\* Instructions the program has no handler for.
NoSuchHandler ==
  {"undefined", "segment", "into", "iret", "aam", "aad", "esc", "lock",
   "daa", "das", "aaa", "aas"}

Far(b, field)     == b \in {154, 202, 203, 234} \/ (b = 255 /\ field = 3)
Segments(b)       == b \in {6, 14, 22, 140, 142}   \* push and mov
Accumulator(b)    == b \in {12, 13, 36, 37, 52, 53}   \* or, and, xor
Immediates(b, field) ==   \* adc; or, and, xor with a sign-extended byte
  b \in 128 .. 131 /\ (field = 2 \/ (b >= 130 /\ field \in {1, 4, 6}))

Unsupported(b, field) ==
  \/ Operation(b, field) \in NoSuchHandler
  \/ Far(b, field) \/ Segments(b) \/ Accumulator(b) \/ Immediates(b, field)

\* op_push_2 has the opcode of the pops of segment registers, op_ssb_2 a mask
\* that takes push ds, and op_logic drops a byte of an unused encoding.
PopSegment(b)         == b \in {7, 15, 23, 31}
PushDs(b)             == b = 30
UnusedShift(b, field) == b \in 208 .. 211 /\ field = 6

\* The handler is one written for the instruction, none if there is none, or
\* one of the exceptions.
RightFor(name, b, field) ==
  IF PopSegment(b) THEN name = "push_2"
  ELSE IF PushDs(b) THEN name = "ssb_2"
  ELSE IF Unsupported(b, field) THEN name = "none" \/ UnusedShift(b, field)
  ELSE Operation(b, field) \in Serves(name)

\* Every instruction the program supports is executed by a handler written for
\* it, and no other instruction by any: whatever the masks, the fields and the
\* order of the tables let through.
RightHandler == Running => RightFor(Taker, byte1, Reg(byte2))
=============================================================================
