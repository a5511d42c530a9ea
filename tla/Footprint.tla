----------------------------- MODULE Footprint ------------------------------
(***************************************************************************)
(* What the encoding of an instruction names as its destination, and that   *)
(* a turn of the loop changes nothing else: each handler finds its operands *)
(* on its own, and puts them back through get_mod, set_data, push_stack or  *)
(* an assignment to a register.                                            *)
(***************************************************************************)
EXTENDS Cpu

\* The bytes of a datum at an address.
Extent(ea, w) == IF w = 1 THEN {ea, ea + 1} ELSE {ea}

\* The halves of a register operand; 4..7 are the high bytes of 0..3.
Halves(reg, w) ==
  IF w = 1 THEN {reg} \X {"low", "high"}
  ELSE IF reg >= 4 THEN {<<reg % 4, "high">>} ELSE {<<reg, "low">>}

\* What of an operand lies in memory, and what in a register.
PlaceBytes(o, w)  == IF o.type = "ea" THEN Extent(o.val, w) ELSE {}
PlaceHalves(o, w) == IF o.type = "reg" THEN Halves(o.val, w) ELSE {}

Half(rs, h) == IF h[2] = "low" THEN LowByte(rs[h[1]]) ELSE HighByte(rs[h[1]])

-----------------------------------------------------------------------------
(* Destinations, by opcode.  Comparisons (56 .. 61, field 7 of 128 .. 131)   *)
(* and tests have none.                                                    *)

Stores(b1, b2) ==     \* the register or memory operand
  \/ b1 < 56 /\ b1 % 8 \in {0, 1}
  \/ b1 \in 128 .. 131 /\ Reg(b2) # 7
  \/ b1 \in {134, 135, 136, 137, 143, 198, 199}
  \/ b1 \in {246, 247} /\ Reg(b2) \in {2, 3}
  \/ b1 \in {254, 255} /\ Reg(b2) \in {0, 1}

Loads(b1) ==          \* the register of the second byte
  \/ b1 < 56 /\ b1 % 8 \in {2, 3}
  \/ b1 \in {134, 135, 138, 139, 141}

Shifts(b1) == b1 \in 208 .. 211

PushesWord(b1, b2) ==
  \/ b1 \in 80 .. 87 \/ b1 = 232
  \/ b1 = 255 /\ Reg(b2) \in {2, 6}

PopsWord(b1) == b1 \in (88 .. 95) \cup {143, 194, 195}

InOpcode(b1) == b1 \in (64 .. 79) \cup (88 .. 95) \cup (144 .. 151)

Divides(b1, b2) == b1 \in {246, 247} /\ Reg(b2) = 6

\* The text of an immediate may run over the operand that add_1 stores to:
\* the address is then what the stack held.
Overran == byte1 \in 128 .. 131 /\ Reg(byte2) = 0 /\ Overrun

When(condition, set) == IF condition THEN set ELSE {}

\* The bytes an instruction may write by an address it computes.  A system call
\* answers in the message.
OperandTargets ==
  When(Running,
         When(Stores(byte1, byte2), PlaceBytes(RM, W))
    \cup When(Shifts(byte1), PlaceBytes(ShiftRM, W))
    \cup When(byte1 = 205, Extent(Wrap(regs[BX] + 2), 1)
                             \cup Extent(Wrap(regs[BX] + 18), 1))
    \cup When(Overran, UNION {Extent(ea, W) : ea \in Junk}))

\* The word an instruction may push, a call its return address.
PushTargets ==
  When(Running /\ PushesWord(byte1, byte2), Extent(Wrap(regs[SP] - 2), 1))

MemoryTargets == OperandTargets \cup PushTargets

\* The halves of registers an instruction may write.
RegisterTargets ==
  When(Running,
         When(Stores(byte1, byte2), PlaceHalves(RM, W))
    \cup When(Loads(byte1), Halves(Reg(byte2), W))
    \cup When(Shifts(byte1), PlaceHalves(ShiftRM, W))
    \cup When(PushesWord(byte1, byte2) \/ PopsWord(byte1), Halves(SP, 1))
    \cup When(InOpcode(byte1), Halves(Reg1, 1))
    \cup When(byte1 \in 176 .. 191, Halves(Reg1, (byte1 \div 8) % 2))
    \cup When(byte1 < 56 /\ byte1 % 8 \in {4, 5}, Halves(AX, W))
    \cup When(byte1 \in (144 .. 151) \cup {152, 205}, Halves(AX, 1))
    \cup When(byte1 = 153, Halves(DX, 1))
    \cup When(Divides(byte1, byte2),
              Halves(AX, 1) \cup When(W = 1, Halves(DX, 1))))

MemoryKept ==
  /\ DOMAIN mem' \subseteq DOMAIN mem \cup MemoryTargets
  /\ \A a \in DOMAIN mem \ MemoryTargets : a \in DOMAIN mem' /\ mem'[a] = mem[a]

RegistersKept ==
  \A h \in (RegNum \X {"low", "high"}) \ RegisterTargets : Half(regs', h) = Half(regs, h)

\* A turn of the loop leaves every byte of memory and every half of a register
\* alone that the encoding of its instruction does not name, whichever handler
\* the dispatch tables gave it to.
ChangesOnlyTargets == [][MemoryKept /\ RegistersKept]_vars
=============================================================================
