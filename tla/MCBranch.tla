------------------------------ MODULE MCBranch ------------------------------
(* A comparison of boundary values in each form of the instruction set,      *)
(* then every conditional jump, each over a "mov cx, cx"; and the branches    *)
(* of the reference programs.                                                 *)
EXTENDS Comparisons, ReferencePrograms, TLC

Values == <<0, 1, 2, 127, 128, 129, 255, 32767, 32768, 32769, 65535>>

\* Two operands: AX or AL with BX, BL, an immediate or the word or byte at
\* SI = 0; or that word or byte with an immediate or DL.
Binary(l, r) ==
  << <<57, 216>>, <<61, LowByte(r), HighByte(r)>>,            \* cmp ax, bx / imm16
     <<129, 248, LowByte(r), HighByte(r)>>,                   \* the longer form
     <<131, 248, LowByte(r)>>,                                \* cmp ax, imm8
     <<41, 216>>, <<45, LowByte(r), HighByte(r)>>,            \* sub ax, bx / imm16
     <<56, 216>>, <<128, 248, LowByte(r)>>,                   \* cmp al, bl / imm8
     <<44, LowByte(r)>>,                                      \* sub al, imm8
     <<59, 4>>, <<58, 4>>, <<42, 4>>,                         \* cmp, sub with [si]
     <<56, 20>>,                                              \* cmp [si], dl
     <<129, 60, LowByte(l), HighByte(l)>>,                    \* cmp word [si], imm16
     <<128, 60, LowByte(l)>>,                                 \* cmp byte [si], imm8
     <<133, 216>>, <<132, 28>>, <<246, 4, LowByte(l)>>,       \* test
     <<33, 216>>, <<10, 4>>, <<50, 4>> >>                     \* and, or, xor

\* One operand: AX or AL, and the word or byte at SI = 0.
Unary ==
  << <<64>>, <<72>>, <<254, 192>>, <<254, 200>>, <<247, 216>>, <<246, 216>>,
     <<255, 4>>, <<255, 12>>, <<254, 4>>, <<254, 12>>, <<247, 28>>, <<246, 28>> >>

Jumps == <<116, 2, 137, 201, 117, 2, 137, 201, 114, 2, 137, 201, 115, 2, 137, 201,
           118, 2, 137, 201, 119, 2, 137, 201, 124, 2, 137, 201, 125, 2, 137, 201,
           126, 2, 137, 201, 127, 2, 137, 201>>

Program(instruction, l, r) ==
  LET bytes == instruction \o Jumps IN
  [text |-> bytes, a_text |-> Len(bytes) + 1,
   regs |-> (0 :> l) @@ (2 :> l) @@ (3 :> r) @@ [n \in RegNum |-> 0],
   mem  |-> (0 :> LowByte(r)) @@ (1 :> HighByte(r))]

Pairs == 11 * 11

BinaryForms == 21
UnaryForms  == 12

MCImages ==
  [i \in 1 .. BinaryForms * Pairs |->
     LET l == Values[1 + (((i - 1) \div 11) % 11)]
         r == Values[1 + ((i - 1) % 11)]
     IN  Program(Binary(l, r)[1 + (i - 1) \div Pairs], l, r)]
  \o
  [i \in 1 .. UnaryForms * 11 |->
     LET n == Values[1 + ((i - 1) % 11)]
     IN  Program(Unary[1 + (i - 1) \div 11], n, n)]
  \o Programs

BranchImages == MCImages
MCModes      == {"INTERPRET"}
MCJunk       == {0}
=============================================================================
