----------------------------- MODULE MCFindings -----------------------------
(* For each documented property a short program that refutes it.             *)
EXTENDS Documented, ReferencePrograms, TLC

\* A program and the values of AX and BX.
Short(bytes, ax, bx) ==
  [text |-> bytes, a_text |-> Len(bytes) + 1,
   regs |-> (0 :> ax) @@ (3 :> bx) @@ [n \in RegNum |-> 0],
   mem  |-> (0 :> 0)]

ShiftImages   == << Program6 >>
DivImages     == << Short(<<246, 243>>, 7, 2) >>   \* div bl
OrAlImages    == << Short(<<12, 1, 144, 0>>, 0, 0) >>   \* or al, 1
CmpImages     == << Short(<<57, 216>>, 0, 32768) >>   \* cmp ax, bx

Interpreted == {"INTERPRET"}
Listed      == {"DISSASSEMBLE"}
MCJunk      == {0}
=============================================================================
