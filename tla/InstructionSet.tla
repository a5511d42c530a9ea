--------------------------- MODULE InstructionSet ---------------------------
(***************************************************************************)
(* The instruction a program means, from its first byte and, where that     *)
(* leaves it open, the middle field of the second: the instruction set of   *)
(* the 8086, laid out by rows and columns of its opcode map.  Nothing here  *)
(* knows the masks or the order in which the interpreter looks.             *)
(***************************************************************************)
EXTENDS Integers, Sequences

Arithmetics == <<"add", "or", "adc", "sbb", "and", "sub", "xor", "cmp">>
Adjustments == <<"daa", "das", "aaa", "aas">>
OnRegister  == <<"inc", "dec", "push", "pop">>
Rotations   == <<"rol", "ror", "rcl", "rcr", "shl", "shr", "undefined", "sar">>
Unaries     == <<"test", "undefined", "not", "neg", "mul", "imul", "div", "idiv">>
Indirects   == <<"inc", "dec", "call", "call", "jmp", "jmp", "push", "undefined">>

\* 0 .. 63: eight rows of an arithmetic instruction, then what deals with a
\* segment register, or an adjustment.
ArithmeticRows(b) ==
  CASE b % 8 < 6              -> Arithmetics[b \div 8 + 1]
    [] b % 8 = 6 /\ b < 32    -> "push"
    [] b % 8 = 7 /\ b < 32    -> "pop"
    [] b % 8 = 6 /\ b >= 32   -> "segment"
    [] b % 8 = 7 /\ b >= 32   -> Adjustments[b \div 8 - 3]

\* 64 .. 127: on a word register, unused, conditional jumps.
RegisterRows(b) ==
  CASE b < 96              -> OnRegister[b \div 8 - 7]
    [] b \in 96 .. 111     -> "undefined"
    [] b >= 112            -> "branch"

\* 128 .. 191: moves and what goes with them.
MoveRows(b, field) ==
  CASE b < 132                                    -> Arithmetics[field + 1]
    [] b \in {132, 133, 168, 169}                 -> "test"
    [] b \in {134, 135} \cup (144 .. 151)         -> "xchg"
    [] b \in (136 .. 140) \cup {142} \cup (160 .. 163) \/ b >= 176 -> "mov"
    [] b = 141                                    -> "lea"
    [] b = 143                                    -> IF field = 0 THEN "pop" ELSE "undefined"
    [] b = 152                                    -> "cbw"
    [] b = 153                                    -> "cwd"
    [] b = 154                                    -> "call"
    [] b = 155                                    -> "wait"
    [] b = 156                                    -> "pushf"
    [] b = 157                                    -> "popf"
    [] b = 158                                    -> "sahf"
    [] b = 159                                    -> "lahf"
    [] b \in (164 .. 167) \cup (170 .. 175)       -> "string"

\* 192 .. 223: returns, interrupts and shifts.
ReturnRows(b, field) ==
  CASE b \in {194, 195, 202, 203} -> "ret"
    [] b = 196                    -> "les"
    [] b = 197                    -> "lds"
    [] b \in {198, 199}           -> IF field = 0 THEN "mov" ELSE "undefined"
    [] b \in {204, 205}           -> "int"
    [] b = 206                    -> "into"
    [] b = 207                    -> "iret"
    [] b \in 208 .. 211           -> Rotations[field + 1]
    [] b = 212                    -> "aam"
    [] b = 213                    -> "aad"
    [] b = 215                    -> "xlat"
    [] b >= 216                   -> "esc"
    [] b \in {192, 193, 200, 201, 214} -> "undefined"

\* 224 .. 255: loops, ports, jumps, flags and the groups of one operand.
ControlRows(b, field) ==
  CASE b < 228                    -> "branch"
    [] b \in {228, 229, 236, 237} -> "in"
    [] b \in {230, 231, 238, 239} -> "out"
    [] b = 232                    -> "call"
    [] b \in 233 .. 235           -> "jmp"
    [] b = 240                    -> "lock"
    [] b = 241                    -> "undefined"
    [] b \in {242, 243}           -> "rep"
    [] b = 244                    -> "hlt"
    [] b = 245                    -> "cmc"
    [] b \in {246, 247}           -> Unaries[field + 1]
    [] b = 248                    -> "clc"
    [] b = 249                    -> "stc"
    [] b = 250                    -> "cli"
    [] b = 251                    -> "sti"
    [] b = 252                    -> "cld"
    [] b = 253                    -> "std"
    [] b = 254                    -> IF field < 2 THEN Indirects[field + 1] ELSE "undefined"
    [] b = 255                    -> Indirects[field + 1]

Operation(b, field) ==
  IF b < 64 THEN ArithmeticRows(b)
  ELSE IF b < 128 THEN RegisterRows(b)
  ELSE IF b < 192 THEN MoveRows(b, field)
  ELSE IF b < 224 THEN ReturnRows(b, field)
  ELSE ControlRows(b, field)
=============================================================================
