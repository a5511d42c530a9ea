------------------------------ MODULE MCSweep -------------------------------
(* One instruction per image: every first byte with operand bytes of every   *)
(* mod and reg field; the group 128 .. 131 once more with a long immediate;   *)
(* and an interrupt with a message of each type.                              *)
(* Run twice: with -d, and without.                                           *)
EXTENDS Disassembly, Footprint, Dispatch, TLC

OperandByte(k) == 64 * (k \div 16) + 8 * ((k \div 2) % 8) + 6 * (k % 2)

Registers == [r \in RegNum |-> 4096 + 256 * r]

Instruction(bytes, memory) ==
  [text |-> bytes, a_text |-> 2, regs |-> Registers, mem |-> memory]

\* A message at BX: type, first two integers, first pointer.
MessageAt(bx, type, i1, i2, p1) ==
  (bx + 2 :> type) @@ (bx + 4 :> i1) @@ (bx + 6 :> i2) @@ (bx + 10 :> p1)

MessageTypes == <<1, 2, 4, 17, 54, 55>>

First256 == 256 * 64
Group128 == 4 * 64

MCImages ==
  [i \in 0 .. First256 + Group128 + Len(MessageTypes) - 1 |->
     LET k == i - First256 IN
     IF k < 0 THEN
       Instruction(<<i \div 64, OperandByte(i % 64), 16, 0, 0, 0>>, (0 :> 0))
     ELSE IF k < Group128 THEN
       Instruction(<<128 + k \div 64, OperandByte(k % 64), 129, 129, 129, 129>>, (0 :> 0))
     ELSE
       Instruction(<<205, 32>>,
                   MessageAt(Registers[BX], MessageTypes[k - Group128 + 1], 1, 3, 4))]

OneInstruction == MCImages
Listing   == {"DISSASSEMBLE"}
Executing == {"INTERPRET"}

\* Bound: an image whose instruction jumps back to 0 runs it only once.
Once == PC = 0 => regs = Images[prog].regs

MCJunk == {0, 20480}
=============================================================================
