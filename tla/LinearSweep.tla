---------------------------- MODULE LinearSweep -----------------------------
(***************************************************************************)
(* What -d promises: a linear sweep of the text area, one instruction after *)
(* the other, each as long as its ENCODING says, until the area ends.       *)
(* Nothing here knows the dispatch tables or the handlers: the length comes *)
(* from the form of the instruction (operand byte, displacement, immediate).*)
(***************************************************************************)
EXTENDS Integers, Sequences

CONSTANT Files   \* [name -> [text, a_text]]

VARIABLES file, pc, done

svars == <<file, pc, done>>

Undefined == 0

\* A byte of the file, the text area or what follows it.
Fetched(f, at) ==
  IF at < Len(Files[f].text) THEN Files[f].text[at + 1] ELSE 0

-----------------------------------------------------------------------------
(* The forms of the instructions the program knows *)

RegField(b2) == (b2 \div 8) % 8

\* add, or, adc, sbb, and, sub, xor, cmp: operand byte, or accumulator.
Arithmetic(b1) == b1 < 64

HasOperandByte(b1) ==
  \/ Arithmetic(b1) /\ b1 % 8 < 4
  \/ b1 \in (128 .. 143) \cup (196 .. 199) \cup (208 .. 211) \cup {246, 247, 254, 255}

\* The displacement of an operand byte.
DisplacementBytes(b2) ==
  CASE b2 < 64 /\ b2 % 8 = 6 -> 2
    [] b2 < 64 /\ b2 % 8 # 6 -> 0
    [] b2 \in 64 .. 127      -> 1
    [] b2 \in 128 .. 191     -> 2
    [] b2 >= 192             -> 0

\* in, out, int, short jumps, loops and the instruction after rep: one byte.
ByteImmediate(b1, b2) ==
  \/ Arithmetic(b1) /\ b1 % 8 = 4
  \/ b1 \in {30, 128, 130, 131, 168, 198, 205, 235, 242, 243}
  \/ b1 \in (112 .. 127) \cup (176 .. 183) \cup (224 .. 231)
  \/ b1 = 246 /\ RegField(b2) = 0

WordImmediate(b1, b2) ==
  \/ Arithmetic(b1) /\ b1 % 8 = 5
  \/ b1 \in {129, 169, 194, 199, 232, 233}
  \/ b1 \in (160 .. 163) \cup (184 .. 191)
  \/ b1 = 247 /\ RegField(b2) = 0

\* What the program knows of the instruction set.  "push ds" (30) is taken
\* for an sbb of the accumulator; "pop cs" (15) is a pop.
Known(b1, b2) ==
  \/ b1 < 64 /\ b1 % 8 < 4
  \/ b1 \in {4, 5, 20, 21, 28, 29, 30, 44, 45, 60, 61} \cup {7, 15, 23, 31}
  \/ b1 \in (64 .. 95) \cup (112 .. 127)
  \/ b1 = 128 /\ RegField(b2) \in {0, 1, 3, 4, 5, 6, 7}
  \/ b1 = 129 /\ RegField(b2) \in {0, 1, 3, 4, 5, 6, 7}
  \/ b1 \in {130, 131} /\ RegField(b2) \in {0, 3, 5, 7}
  \/ b1 \in (132 .. 139) \cup {141}
  \/ b1 = 143 /\ RegField(b2) = 0
  \/ b1 \in (144 .. 153) \cup (155 .. 159)
  \/ b1 \in 160 .. 191
  \/ b1 \in {194, 195, 196, 197, 204, 205, 215}
  \/ b1 \in {198, 199} /\ RegField(b2) = 0
  \/ b1 \in 208 .. 211 /\ RegField(b2) # 6
  \/ b1 \in (224 .. 233) \cup (235 .. 239) \cup (242 .. 245) \cup (248 .. 253)
  \/ b1 \in {246, 247} /\ RegField(b2) # 1
  \/ b1 = 254 /\ RegField(b2) \in {0, 1}
  \/ b1 = 255 /\ RegField(b2) \in {0, 1, 2, 4, 5, 6}

\* The unused encoding of the shift group is not refused as a whole: its
\* first byte is dropped, and the second taken for a jump if it is one.
UnusedShift(b1, b2) == b1 \in 208 .. 211 /\ RegField(b2) = 6

Length(b1, b2) ==
  IF UnusedShift(b1, b2) THEN IF b2 \in 112 .. 119 THEN 3 ELSE 1
  ELSE IF ~Known(b1, b2) THEN Undefined
  ELSE 1 + (IF HasOperandByte(b1) THEN 1 + DisplacementBytes(b2) ELSE 0)
         + (IF ByteImmediate(b1, b2) THEN 1 ELSE 0)
         + (IF WordImmediate(b1, b2) THEN 2 ELSE 0)

LengthAt(f, at) == Length(Fetched(f, at), Fetched(f, at + 1))

-----------------------------------------------------------------------------
(* The sweep *)

Init == file \in DOMAIN Files /\ pc = 0 /\ done = FALSE

InText == ~done /\ pc < Files[file].a_text - 1

\* A known instruction: on to the next one, on 16 bits.
NextInstruction ==
  /\ InText /\ LengthAt(file, pc) # Undefined
  /\ pc' = (pc + LengthAt(file, pc)) % 65536
  /\ UNCHANGED <<file, done>>

\* Two instructions whose text does not fit may end the process: a pop of a
\* segment register other than es, and a sub or cmp of a memory operand with
\* a byte (of five characters).
Unprintable(b1, b2) ==
  \/ b1 \in {15, 23, 31}
  \/ b1 \in {128, 130, 131} /\ RegField(b2) \in {5, 7} /\ b2 < 192

Abandon ==
  /\ InText /\ Unprintable(Fetched(file, pc), Fetched(file, pc + 1))
  /\ done' = TRUE /\ UNCHANGED <<file, pc>>

\* The text area is exhausted.
Finish ==
  /\ ~done /\ pc >= Files[file].a_text - 1
  /\ done' = TRUE /\ UNCHANGED <<file, pc>>

Next == NextInstruction \/ Abandon \/ Finish

Spec == Init /\ [][Next]_svars /\ WF_svars(Next)
=============================================================================
