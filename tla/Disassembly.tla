---------------------------- MODULE Disassembly -----------------------------
(***************************************************************************)
(* The interpreter run with -d: its handlers must cut the text area into    *)
(* the instructions the encoding defines, although each handler advances PC *)
(* on its own and still moves data while it disassembles.                   *)
(***************************************************************************)
EXTENDS Cpu

\* PC, a uint16_t, can reach the whole text area and does not wrap inside it.
ASSUME TextFits == \A i \in DOMAIN Images : Images[i].a_text <= UINT16_MAX + 1

Sweep == INSTANCE LinearSweep
           WITH Files <- Images, file <- prog, pc <- PC, done <- (status # "run")

\* -d is a linear sweep of the text area: every handler consumes exactly the
\* bytes of its instruction, in order, and the sweep goes on to the end of
\* the area unless it meets an instruction the program does not know.
IsLinearSweep == Sweep!Spec

\* Control transfers: the instructions after which PC may be elsewhere (the
\* last is a jump behind the unused encoding of the shift group).
Transfers(b1, b2) ==
  \/ b1 \in (112 .. 127) \cup (224 .. 227) \cup {194, 195, 232, 233, 235}
  \/ b1 = 255 /\ Reg(b2) \in {2, 4}
  \/ b1 \in 208 .. 211 /\ b2 \in 112 .. 119

\* While interpreting, an instruction that does not transfer control goes on
\* to the instruction a disassembly would list next: both modes agree on
\* where instructions start.
SameBoundaries ==
  [][(mode # "DISSASSEMBLE" /\ PC' # PC /\ ~Transfers(byte1, byte2))
       => PC' = Wrap(PC + Sweep!LengthAt(prog, PC))]_vars
=============================================================================
