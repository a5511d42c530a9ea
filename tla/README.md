# A verification project for 8086-Interpreter

The repository holds `z124043_mmvm`, an interpreter and disassembler of
MINIX 2 executables for the 8086, about 3000 lines of C in `src/src`. These
TLA+ modules model what it does from the bytes of the file to the argument of
`exit`; TLC checks them on small instances and TLAPS proves the theorems
listed below.

## 1. Inventory

The program is sequential: one thread, no signals, no persistent state. What
is hard in it is not interleaving but the length of its case analysis (256
opcodes, eight register fields, four modes of addressing, two widths), the
number of places that move PC and SP, C's integer conversions, and the fact
that data, stack, arguments and environment share one array.

| component | source | state | operations | interacts with | what makes it correct |
|---|---|---|---|---|---|
| loop and modes | `main.c` 93–178 | `PC`, `PROGRAM_MODE` | `instruct`, one handler per turn, until `PC >= a_text - 1` | calls the six groups in order | it comes to an end; with `-d` it lists every instruction once, in order |
| dispatch | tables of `instructs_dw.c`, `_sw.c`, `_w.c`, `_reg.c`, `instructs.c`, opcodes of `instructs.h` | none | first handler whose mask and reg field match | the order of groups and rows decides | each instruction reaches its handler |
| operand decoding | `get_mod`, `get_disp` (`utils.c`), `print_mr*` (`prints.c`) | moves `PC` | decode register, memory or immediate operand and print it | called by the handlers, some before and some after they move `PC` | exactly the bytes of the instruction are consumed |
| registers, memory, stack | `utils.c` 130–271 | `g_registers`, `g_memory` = `g_stack` | get/set byte and word, push, pop | everything | the stack is a stack although anything may write to it |
| arithmetic, logic, shifts | `instructs_dw.c`, `_sw.c`, `_w.c`, `_reg.c`, `instructs.c` | `g_flags` | result and flags of each instruction | conditional jumps read the flags | a jump after a comparison decides the relation it is named for |
| stack and control | `instructs.c` 314–533, `instructs_w.c` 578–670, `instructs_reg.c` | `PC`, `SP`, stack words | push, pop, call, ret, jmp, jcc, int | memory, flags, mode | calls and returns nest |
| system calls | `syscalls.c` | message at BX, stdout, exit status | exit, write, brk, ioctl | memory of the program | the library code gets the reply it reads |
| program start | `main.c` 47–90, 116–162, `struct exec` | `PROGRAM_MODE`, memory, `SP` | options, header, copy of the data area, pushes of `init_stack` | file, stack | in each mode the program finds its argc, argv and environment where its start-up code looks |
| file reading | `file_utils.c` | buffer, lengths | read, double, end | the kernel | the buffer ends up with the whole file |
| listing and trace output | `prints.c` 42–58 and the calls of `pretty_print` in every handler, `main.c` 93–114 and 172–176 | none | a line per turn: address, first byte, the bytes the handler counts | `PC`, before or after a handler moves it | a line shows its instruction, and the lines of a listing cover the text without gap or overlap |
| MINIX headers, tests, build | `lib/`, `tests/`, `Makefile` | none | – | – | not modelled; four test programs are inputs of the runs |

Hazards, with their lines and the properties that watch them, are listed in
`PROJECT.json`.

## 2. Modules

`Word16` <- `Alu`, `Decoder`, `Machine` <- `Cpu` <- `Disassembly`, `Footprint`,
`Dispatch`, `Comparisons`, `Documented`. `Disassembly` <- `Listing`, `Footprint`
<- `Calls`. `Machine` <- `Loader` <- `InitStack` <- `Startup`; `Loader` <-
`ReferencePrograms`. `LinearSweep`, `InstructionSet`, `Procedures` and `ReadFile`
stand alone: `LinearSweep` and `Procedures` are abstract specifications, which
`Disassembly` and `Calls` instantiate, and `Dispatch` extends `InstructionSet`.

* **Word16**: `uint8_t` and `uint16_t` as their unsigned values, `Wrap` for
  what an assignment keeps of an `int`, the sign tests and `OVERFLOW` of
  `utils.h`, and `& | ^` bit by bit.
* **Alu**: results and the flags OF, SF, ZF, CF of each handler, with C's
  promotions (an `inc` compares an `int` with 0, `op_add_1` overflows into an
  `int8_t` or an `int16_t`, a shift count is taken modulo 32 by the machine).
  AF, PF, DF, IF and TF are written by some handlers and read by none; they
  are left out.
* **Decoder**: the dispatch tables, row by row and in order; `Handler[b][reg]`
  is the first row that accepts a byte and a reg field; `CanJump` is the
  switch of `op_cond_jmp`.
* **Machine**: a store `[regs, mem]` and the accessors of `utils.c`. `mem` is
  a function on the addresses written so far; the others read as the zeros of
  fresh pages. A byte read from memory is sign-extended, one read from a
  register is not; a high byte register takes the high half of a value: both
  as in the code.
* **Cpu**: one action per handler (`op_mov_0` ... `sys_ioctl_54`), each the
  whole effect of one turn of the loop on `PC`, registers, memory, flags,
  exit status and output. `Fetch(name)` is the guard: the loop goes on and the
  tables select that handler. `unmatched` is the turn in which nothing does,
  `main_return` the end of the loop. The handlers that only print share an
  action per length.
* **LinearSweep** says what `-d` promises without the tables and handlers:
  the length of an instruction from its encoding, and a sweep by it.
  **Disassembly** instantiates it with `PC` for `pc`.
* **InstructionSet** is the opcode map of the 8086, by its rows and columns:
  which instruction a first byte and the middle field of the second mean.
  **Dispatch** says what each handler is written for, by the names it prints, and
  which instructions the program has no handler for.
* **Footprint** says from the opcode and its second byte alone, without the
  handlers, what an instruction may write: bytes of memory (`MemoryTargets`, at
  the addresses it computes or on the stack) and halves of registers
  (`RegisterTargets`).
* **Listing** adds the last line written to stderr: its address and its
  bytes, the first from `instruct`, the others as each handler passes them to
  `pretty_print`. `INTERPRET` stands for `INTERPRET_DEBUG` there.
* **Procedures** is what compiled code takes a processor for: activations that
  nest, a return that goes back behind its call with the stack and BP, SI and
  DI as they were; no memory in which any of that could be lost. **Calls**
  adds to `Cpu` a record of the calls in progress (a history variable: return
  address, SP on entry and the three registers) and instantiates `Procedures`
  with `PC`, SP and the registers.
* **Comparisons** adds a record of the two numbers the flags come from, and of
  the questions about them the code answers rightly. Neither it nor `Calls`
  changes what `Cpu` does.
* **Loader**: the image a file is loaded to, in closed form: `Pushes` and
  `ArgvPushes` are recursive functions over what is still to be pushed.
  **InitStack**:
  the loops of `init_stack` push by push. **Startup**: `main()` before the
  loop, one action per branch (no command, unknown option, the choice of the
  mode, a file that cannot be read, the load), then the actions of
  `InitStack`. The file is read in one step there; that this is what the loop
  of reads amounts to is `ReadsWhole`.
* **ReadFile**: the loop of `read_whole_file`, with `read()` returning any
  number of bytes it may.
* **ReferencePrograms**: text and data of `tests_bin/1.c.out`, `2.c.out`,
  `6.c.out` and `asm/2.s.out`, and a program written for its calls: it recurses
  three deep, through a pointer that lies among the arguments on the stack, and
  returns with `ret 4`. **Documented**: what comments, README and reference traces say
  of single instructions and the code does not do.

The mutated forms of definitions that `PROJECT.json` names stand next to the
definitions, with a comment that starts with "Mutation". No specification
uses them.

### Undefined behaviour

Where the C leaves a value undefined the action chooses it:

* `op_cmp_2` with a byte, and the shifts that are not implemented, use a
  `uint16_t` that was never assigned: any member of `Junk`.
* `data_str` of `print_mr_sw` has four characters; -100 to -128 need five.
  With a memory operand the text then may overwrite the operands: `Overrun`
  lets `add` take another address and immediate of `Junk`, `sub` and `cmp`
  end the process (`get_data` meets an unknown type) or nothing happen.
* `get_segreg` reads behind its table for segment registers other than `es`:
  the process ends or goes on.
* A system call without an entry is a call of a null pointer: the process
  ends (`crash`).
* The immediate of a byte operand keeps one byte of a union whose other is
  zero in an unoptimised gcc build.
* `g_memory` has 0xFFFF bytes. An access to 0xFFFF or 0x10000 is behind it;
  the model gives those addresses cells of their own.

## 3. Runs

| run | specification | bounds | states |
|---|---|---|---|
| `sweep` | `Cpu!FairSpec`, `-d` | each of 256 first bytes with 64 operand bytes (all mods and reg fields, r/m 0 and 6), 128–131 again with a negative immediate, `int 20` with six types of message; one instruction each | 42 518 |
| `step` | `Cpu!Spec`, interpreting | the same images; `Once` runs an instruction that jumps to itself one time | 42 146 |
| `listing` | `Listing`, both modes | the images of `sweep` and the five programs whole | 94 395 |
| `golden` | `Calls` | the five programs, whole | 969 |
| `branch` | `Comparisons` | 21 forms of `cmp`, `sub`, `test`, `and`, `or`, `xor` (register, memory, accumulator, immediates of both sizes) on 121 pairs of boundary values, 12 forms of `inc`, `dec`, `neg` on eleven, then ten jumps each; and the five programs | 49 105 |
| `initstack` | `Startup` | 15 command lines: each mode, no argument to three, empty strings, strings that look like options, and those that are refused; three files, one with the long header | 289 |
| `readfile` | `ReadFile` | the buffer of 64 bytes of the code, files of 0, 1, 63–65 and 127–129 bytes, every size of read | 1 178 |
| `shl_carry`, `div_remainder`, `listing_ends`, `cmp_overflow` | `Cpu` | one short program each (`6.c.out` for the first) | – |
| `listed_bytes` | `Listing`, `-d` | `6.c.out` | – |

What they show:

* `IsLinearSweep` (refinement, with liveness): with `-d` the interpreter is a
  linear sweep. Each handler moves `PC` on its own, some before and some
  after decoding, some from a place one byte off (`print_mr_vw`), and all of
  them still move data while they disassemble; none of that shows in the
  boundaries. One operand byte per mod, reg field and r/m in {0, 6} is
  enough: the length depends on nothing else, r/m 6 with mod 0 being the only
  special case. `LinearSweep` states what the program knows of the
  instruction set and two places where it goes wrong about it: `1e` is taken
  for an `sbb`, and the unused encoding 6 of the shifts loses one byte.
* `RightHandler`: the handler that takes an instruction is one written for it.
  Lengths do not show this: `pop` executed as `push`, or `test` as `not`, ends
  where it should. The instruction comes from `InstructionSet`, the handler from the
  tables, so that a mask too wide, a row too early or a wrong reg field makes the
  two differ. The statement names what the tables do get wrong: the pops of a
  segment register have the opcode of `push_2`, `push ds` goes to `sbb`, and the
  unused encoding 6 of the shifts reaches `op_pc` one byte late.
* `SameBoundaries`: interpreted, the same instructions end where the listing
  says, unless they transfer control. `TypeOK` is the property the proofs
  establish.
* `ChangesOnlyTargets`: each handler finds its operands on its own and puts
  them back through `get_mod`, `set_data` or `push_stack`; whichever handler the
  tables choose, it leaves every other byte of memory and half of a register
  alone. A comparison or test has no destination, nor has an instruction that
  only prints; a byte operand is half of a register or one byte of memory.
* `LinesShowInstructions`, `NoGapInListing`: each handler tells `pretty_print`
  where the bytes of its instruction start and how many they are, with its own
  arithmetic on a `PC` it has moved or not, and nothing ties either to what it
  consumes. For every opcode, mod and reg field the line shows the bytes that
  `LinearSweep` gives the instruction; from top to bottom a listing is the text
  area, with the final `00 (undefined)` at the address behind the last line.
  `Misprinted` names the opcodes for which this is not so: pop of a segment
  register and mov of a byte immediate (one byte too many), the accumulator
  forms of sub, sbb and test and the shifts (bytes of a neighbour).
* `FramesIntact`, `ImplementsProcedures`: over whole programs no store, push or
  system call touches the return address of a call in progress, and every step
  is one of `Procedures`: `ret` goes back behind the innermost call, with SP
  between its entry value plus two and that of the caller, with BP, SI and DI
  as they were, and no procedure pops its own return address. The programs
  call through `call rel16`, `call bx` and `call [bp+6]`. `ProgramDisciplined`
  is the part of this that only the program can keep, step by step: it has put
  SP and the three registers back when it returns, it does not pop more than
  lies up to its caller, and none of its instructions names a return address as
  its destination (`MemoryTargets`): a condition on the addresses the program
  computes, not on what the handlers do with them.
  `WithinMemory`: nothing is written from 0xFFFF on, where SP starts and
  `g_memory` ends. `OperandsWithin` is again the program's share of that: the addresses
  it computes, or hands over with a message, lie within.
* `ReferenceOutcome`, `Terminates`: the output is always a prefix of the
  reference's and ends equal to it, with its exit status, and never by a
  system call without an entry.
* `BranchesFollowComparison`: the flags a comparison leaves and the condition
  a jump evaluates belong together for all relations, widths and forms, also
  with instructions in between that leave the flags alone. The code does get
  some of them wrong, and the statement names them: a signed order against
  0x8000 (0x80) after any subtraction but that of `op_sub_0`, equality or unsigned order of a negative byte in memory with
  a byte that was not sign-extended, `inc` that reaches 0 or wraps the sign,
  `dec` of 0x8000 and of a negative byte register, equality after a byte
  `xor` with a negative byte in memory. Without any one of these exceptions
  the run fails.
* `ArgumentsReadable`, `StringsKept`, `LoadsAsClosedForm`, `ImageReady`,
  `Finishes`: with
  `prog args`, `-m prog args` and `-d prog args` alike, the program finds its
  own path and arguments where its start-up code reads them; what the loop
  starts with is the closed form the images of `Cpu` are loaded with, words
  and bytes within `g_memory`; a
  program that can be read is started and every other command line ends with
  status 1. Vectors and data are short here. `RoomAssumption` excludes those
  that meet in the middle of the 64 KiB, which nothing in the code prevents;
  for all that fit, all but the liveness of the last is proved (section 4).
* `ReadsWhole`, `InAllocation`, `Ends`: a full buffer is never mistaken for
  the end of the file.

The violation runs record where the code departs from a comment, the README
or a reference: CF after `shl`, AH after a byte `div`, OF after `cmp` with
0x8000, a listing that does not end, and the bytes shown for a shift. The same
programs behave so in the compiled interpreter.

**Fairness.** `WF_vars(Next)`, weak fairness of the whole step: the program
is one loop in one thread and goes on while it can. `LinearSweep` is fair in
the same way, so that `IsLinearSweep` includes that the listing reaches the
end of the text area, or an unknown byte, where it stays. In `ReadFile` the
reads that succeed are fair, because `read()` of a regular file returns; an
error may happen and need not.

**Deadlock** is not checked: every specification here describes a program
that ends.

## 4. Proofs

All modules with proofs extend the module they are about, and the lemmas they
need of other components. Every theorem is about all values of the constants:
any program (`Images`), any junk, any command line and file.

**Words, flags, stores: MachineProofs.** Types of every operator of `Word16`,
`Alu` and `Machine` (a well-typed store goes to a well-typed store: `IsStore`,
`IsPlace`). `SubFlagsExact`: for all words, SF differs from OF after
`op_sub_0` exactly when the left operand is less as a signed number, CF is set
exactly when it is less as an unsigned one, ZF when they are equal.
`CmpFlagsExact`: `cmp` leaves the same flags unless the right operand is
0x8000. What a push stores can be read back and nothing else has changed
(`WordPushed`, `BytePushed`): `init_stack` and the calls rest on it. The
operators that are written digit by digit are compared with the arithmetic they
stand for: `LongDivisionExact` (`div`, which `Alu` does in base 256, against the
quotient and remainder of DX:AX), `BitwiseExact` (`& | ^` against the sixteen
bits), `PowerExact` (the table of powers a shift uses, up to 31), `AddCarryExact`
(CF of both forms of `add` against the sum).

**Instructions: CpuProofs.** `CpuTypeCorrect == Spec => []TypeOK`, one lemma
per group of handlers. `TypeOK` is inductive: the handlers compute addresses
and `PC` with `Wrap`, operands decode to places of the store, and the
arguments of `exit` are signed words. The assumptions are those `Cpu` names:
`ImagesAssumption`, `ModesAssumption`, `JunkAssumption`.

**Dispatch: DecoderProofs.** `InstructionsReachTheirHandler == Spec =>
[]RightHandler`: of all programs. The search of the tables, with its six groups,
masks and reg fields, is compared with the opcode map of `InstructionSet`, which
knows none of them. The lemmas go through the intervals of opcodes that each handler
takes (`HandlerBytes`): `HandlerEncoding` and `NoHandler` compute them from the tables,
which turns masks into intervals by writing a byte as its binary digits (`Masked`),
and `PcEncoding` does so for `op_pc`; that these intervals are the right ones is said
by `RightForDw` to `RightForNone`, one for each group. The other proofs use the
intervals too.

**Listing: DisassemblyProofs.** Each handler's arithmetic on `PC` is compared
with the length `LinearSweep` gives the instruction. `BoundariesCorrect ==
Spec => SameBoundaries` for the mode that interprets, `SweepImplemented` for
`-d`: each turn is a step or a stutter of `LinearSweep` (the safety of
`IsLinearSweep`). `ListingShowsInstructions` and `ListingHasNoGap` carry this
over to the lines. `LinesShowInstructions` is not inductive; `ListingInv` adds
`TypeOK`, that the line's address is a word, and that `PC` is where the line
ends. `TextFits` assumes a text area of at most 64 KiB: `PC`, a `uint16_t`,
reaches no further.

**Comparisons: ComparisonsProofs.** `BranchesRight == ComparingSpec =>
BranchesFollowComparison`. `ComparingInv` says that the flags always tell the
relations of the numbers recorded, as far as the record says they can
(`Tells`). It is kept because each instruction that writes a flag writes the
record too; the rest is arithmetic per instruction, for words and for bytes,
whose operands may be sign-extended or not. The exceptions of the statement
(section 3) come out of these proofs as the cases where the arithmetic fails.

**Program start: StartupProofs.** `StringsAreKept`, `ArgumentsAreReadable`,
`StartTypeCorrect`, and `OutcomeIsRight` (the safety of `Finishes`). None of
these is inductive: a string is intact because every later push goes below it,
which needs SP, and SP stays above the data area only if the bytes still to be
pushed are counted. `StartInv` has a part per phase: the strings pushed so far
lie complete above SP (`Kept`), the one in progress is on top (`Written`),
there is room for what is left (`Room`, with the cardinality of the bytes
left), and in the last phase the words already pushed. The assumptions are
that a file is as long as its header says (`FilesAssumption`), that there is no
file called null (`NullAssumption`), and `RoomAssumption`: data area, strings
and words fit into `g_memory`. The code checks neither the first nor the last.

`LoadedAsClosedForm == Spec => []LoadsAsClosedForm`: the loops of `init_stack`
leave what the recursions of `Loader` define. `ClosedInv` says how far: while the
environment is pushed the store is `Pushes` at the position of the loop, while
the arguments are it is `Pushes` over the argument in progress from `ArgvPushes`
at the one before, and the addresses taken so far are those of `ArgvPushes`; one
turn of a loop is then one equation of a recursion. That functions with these
equations exist, which a recursive definition alone does not give, is shown by
taking the least length for which there is none (`PushesExist`,
`ArgvPushesExist`, with `LeastElement`). TLC checked `ClosedInv` on the bounds of
`initstack` first.

`ImageIsReady == Spec => []ImageReady` joins the two halves of the project: what
the loop starts with meets `ImagesAssumption` of `Cpu`, on which the theorems
about instructions rest, and `ImagesWithin`: nothing is loaded behind `g_memory`,
and SP is at a word inside it, since four words at least have been pushed.

**Footprint and calls: CallsProofs.** `InstructionFootprint`: every instruction
changes only what its encoding names (`ChangesOnlyTargets`), one lemma per group
of handlers: the place a handler decodes is the operand the encoding has
(`HandlerEncoding` and the types of `CpuProofs`), and a write to a place touches
its extent and no more (`Touches`). It assumes a text area of at most 64 KiB, which
is what `PC`, a `uint16_t`, can address: in a longer one `PC` could be 0xFFFF in
the loop, and where `op_logic` moves `PC` before it refuses, `op_pc` would look for
a call at address 0.

`ProceduresImplemented`: a program that keeps its stack (`ProgramDisciplined`)
and is interpreted implements `Procedures`, the whole of `ImplementsProcedures`.
The hypothesis is the part no interpreter can give, because any program may
write anywhere; run `golden` shows that compiled code keeps it. It speaks of the
addresses an instruction names, so that the step from there to what is in memory
is the handlers' and proved: by the footprint, that the words of the frames stay;
and besides, which address each of the two calls pushes, that op_pc sees no call
through the byte by which `op_logic` has moved `PC`, that `ret` and `ret imm` find
the innermost address. `FramesIntact` is not inductive (SP could be anywhere):
`CallsInv` adds that the frames lie below each other (`Nested`) and SP below all
of them; it is itself the safety half of the argument (`FramesStayIntact`).
`StaysWithinMemory`: nor does such a program write behind `g_memory`, if it was
loaded within it (`ImagesWithin`, which `ImageIsReady` above gives for every
file) and computes no address there (`OperandsWithin`). Only the second hypothesis
speaks of `g_memory`, and only of operands; no check in the code bounds SP, which
wraps at 65536, and the pushes and calls are the theorem's concern. It deduces that SP
is never above its value at the start, through calls of any depth (`InMemory` with
`CallsInv`), and that a push which wrapped SP below 0 would break the discipline in
the same step, which has SP below the frame it is in. These theorems are stated for `Modes = {"INTERPRET"}`, the mode `Calls` is
about.

**File reading: ReadFileProofs.** `ReadWholeFile == Spec => []ReadsWhole` and
`ReadInBounds == Spec => []InAllocation` for every file and capacity. Neither
is inductive. `ReadInv` adds what makes them so: the buffer holds what precedes
the kernel's offset, and it is never full when `read()` is called.

Only model-checked: liveness (`Terminates`, `Ends`, that `Finishes` comes
about, that the sweep of `IsLinearSweep` goes on), which is beyond this prover;
and what depends on a given program (`ReferenceOutcome`, `ProgramDisciplined`,
`OperandsWithin`), where running it is the proof. Every other property of the runs is a theorem.

## 5. Not modelled

The names of instructions and operands in a listing, the columns of registers
and memory contents in a trace, AF and PF (written, never read), the fields
of the header that are never read, files shorter than their header says,
sizes near `INT_MAX` in `file_utils.c`, and output of handlers to stdout other
than `write` ("div is 0, exit", "UNDEFINED"). The larger reference programs
(`3.c.out` to `5.c.out`, `nm.out`) use the same handlers and are not runs. The
headers under `lib/` are declarations of another system; `test.c` is empty.

## 6. Plan

1. Done: `Word16`, `Alu`, `Decoder`, `Machine`, `Cpu`; the sweep, call, branch
   and start properties; `ReadFile`; type correctness proved.
2. Done: `Listing`; `Procedures` and the refinement by `Calls`; the program
   start from the command line; comparisons by every instruction that sets the
   flags a jump reads; programs that recurse, call through the stack and use
   `ret imm`.
3. Done: proofs of the dispatch tables, of the listing and the sweep, of the
   comparisons, of the program start and of the calls; of what each instruction
   may change, of the closed form of the start, and of the operators on words
   that are computed digit by digit.
4. Open: that `golden`'s discipline follows for a class of programs rather
   than for each (a frame that is entered with `push bp; mov bp,sp` and left with
   its mirror image); the flags of the accumulator and shift operators against
   their definitions on numbers, where the code has them right.
5. Review: mutations for each added property, the map of definitions to
   lines, and this file.
