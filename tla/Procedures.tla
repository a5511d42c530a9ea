----------------------------- MODULE Procedures -----------------------------
(***************************************************************************)
(* What compiled code takes a processor for: procedures that nest.  A call  *)
(* starts an activation above its caller's part of the stack; a return goes *)
(* back behind the call with the stack and the callee-saved registers as    *)
(* the caller had them.  There is no memory here: return addresses and      *)
(* saved registers cannot be lost.                                          *)
(***************************************************************************)
EXTENDS Integers, Sequences

VARIABLES
  calls,  \* the activations in progress, innermost last
  pc, sp,
  kept    \* BP, SI and DI, which a procedure hands back unchanged

procVars == <<calls, pc, sp, kept>>

\* An activation: where it returns to, SP on entry, the registers to keep.
Activation(to, entry, regs) == [to |-> to, sp |-> entry, kept |-> regs]

Innermost == calls[Len(calls)]
Caller    == calls[Len(calls) - 1]

\* The program itself is the outermost activation.
Init == pc = 0 /\ calls = << Activation(0, sp, kept) >>

\* Of the instructions that call, the longest has four bytes.
Call ==
  /\ \E n \in 2 .. 4 : calls' = Append(calls, Activation(pc + n, sp - 2, kept))
  /\ sp' = sp - 2
  /\ kept' = kept

\* The arguments stay, or are popped from the caller's part of the stack.
Return ==
  /\ Len(calls) > 1
  /\ pc' = Innermost.to
  /\ kept' = Innermost.kept
  /\ Innermost.sp + 2 <= sp' /\ sp' <= Caller.sp
  /\ calls' = SubSeq(calls, 1, Len(calls) - 1)

\* Whatever else a procedure does, it does not pop its return address.
Work == calls' = calls /\ sp' <= Innermost.sp

Next == Call \/ Return \/ Work

Spec == Init /\ [][Next]_procVars
=============================================================================
