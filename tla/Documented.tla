----------------------------- MODULE Documented -----------------------------
(***************************************************************************)
(* What the comments, the README and the reference traces say of single    *)
(* instructions, where the code does otherwise.  Each property is refuted   *)
(* by a run of its own.                                                     *)
(***************************************************************************)
EXTENDS Cpu

Interpreting == mode = "INTERPRET"

\* Reference trace of 6.c.out: a shl leaves the last bit shifted out in CF.
\* The code compares the isolated bit with 1, which a bit
\* above the lowest never is.
ShlCarry ==
  [][(op_shl /\ Interpreting /\ W = 1 /\ ShiftCount \in 1 .. 16)
       => flags'.CF = Bit(ShiftData, Power(16 - ShiftCount))]_vars

\* Comment in op_div: the remainder of a byte division goes to AH.  The code
\* hands set_registers a byte whose high half, 0, it stores.
RemainderInAh ==
  [][(op_div /\ Interpreting /\ W = 0 /\ RmData # 0)
       => HighByte(regs'[AX]) = LowByte(regs[AX] % RmData)]_vars

\* README: -d displays the binary as a disassembled program, all of it.  At a
\* byte of no instruction the loop stays for ever.
ListingEnds == <>(status # "run")

\* Comment in op_cmp_0: the overflow of ldata - rdata is that of
\* ldata + (-rdata).  It is not when rdata is its own negation.
CmpOverflow ==
  [][(op_cmp_0 /\ W = 1)
       => flags'.OF = ~Fits(Signed16(DwLeft) - Signed16(DwRight), -32768, 32767)]_vars
=============================================================================
