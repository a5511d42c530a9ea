------------------------------ MODULE Startup -------------------------------
(***************************************************************************)
(* main() up to the loop: the command line, the file, its header, the data  *)
(* area, then init_stack().  The file is read in one step, which ReadFile   *)
(* justifies.                                                               *)
(***************************************************************************)
EXTENDS InitStack, FiniteSets

CONSTANTS
  Commands,  \* the argument vectors of main()
  Files      \* the files that can be read: [path -> bytes]

String == Seq(1 .. 255)

ASSUME CommandsAssumption == \A c \in Commands : c \in Seq(String) /\ Len(c) > 0

VARIABLES
  command,  \* argc and argv of main()
  mode,     \* PROGRAM_MODE
  path,
  text, a_text,  \* as in Cpu
  data,     \* the data area of the file
  code      \* the argument of exit()

mainVars == <<command, mode, path, text, a_text, data, code>>

startVars == <<mainVars, stackVars>>

-----------------------------------------------------------------------------
(* struct exec: a_hdrlen is its fifth byte, the lengths are int32_t *)

Int32(b, at) ==
  b[at + 1] + 256 * b[at + 2] + 65536 * b[at + 3] + 16777216 * Signed8(b[at + 4])

a_hdrlen(b)   == b[5]
TextLength(b) == Int32(b, 8)
DataLength(b) == Int32(b, 12)

\* The bytes after the header: text, data, symbols.
AfterHeader(b) == SubSeq(b, a_hdrlen(b) + 1, Len(b))

DataArea(b) ==
  SubSeq(AfterHeader(b), TextLength(b) + 1, TextLength(b) + DataLength(b))

\* Files cut short are left out, and those with a negative length of text.
ASSUME FilesAssumption ==
  \A p \in DOMAIN Files :
    /\ Files[p] \in Seq(Byte) /\ Len(Files[p]) >= 16
    /\ 0 <= TextLength(Files[p])
    /\ a_hdrlen(Files[p]) + TextLength(Files[p]) + DataLength(Files[p]) <= Len(Files[p])

-----------------------------------------------------------------------------
Dash  == 45
Trace == <<Dash, 109>>   \* "-m"
List  == <<Dash, 100>>   \* "-d"

\* argv[argc], which open() refuses.
NullPointer == <<0>>

ASSUME NullAssumption == NullPointer \notin DOMAIN Files

argument(n) == IF n <= Len(command) THEN command[n] ELSE NullPointer

IsOption(arg) == Len(arg) > 0 /\ arg[1] = Dash

\* A command line without the interpreter and its option.
OperandsOf(c) == SubSeq(c, IF IsOption(c[2]) THEN 3 ELSE 2, Len(c))

\* The bytes of some strings, with the zero that ends each.
Bytes(strings) ==
  UNION { {k} \X (1 .. Len(strings[k]) + 1) : k \in 1 .. Len(strings) }

\* Nothing in the code keeps the stack off the data area, or SP from passing
\* 0: argument vectors that do not fit beside the data are left out.
ASSUME RoomAssumption ==
  \A c \in Commands, p \in DOMAIN Files :
    Len(c) > 1 =>
      Len(DataArea(Files[p])) + Len(Env) + 1 + Cardinality(Bytes(OperandsOf(c)))
        + 2 * (Len(OperandsOf(c)) + 4) <= STACK_CAPACITY

Init ==
  /\ command \in Commands
  /\ mode = "INTERPRET" /\ path = NullPointer /\ code = 0
  /\ text = <<>> /\ a_text = 0 /\ data = <<>>
  /\ phase = "command" /\ Idle

Exit(n) ==
  /\ phase' = "exit" /\ code' = n
  /\ UNCHANGED <<command, mode, path, text, a_text, data>>
  /\ UNCHANGED <<argv, s, i, j, env_addr, arg_addr>>

NoCommand == phase = "command" /\ Len(command) < 2 /\ Exit(1)

UnknownOption ==
  /\ phase = "command" /\ Len(command) >= 2
  /\ IsOption(command[2]) /\ command[2] \notin {Trace, List}
  /\ Exit(1)

Select(chosen, operand) ==
  /\ mode' = chosen /\ path' = operand
  /\ phase' = "open"
  /\ UNCHANGED <<command, text, a_text, data, code>>
  /\ UNCHANGED <<argv, s, i, j, env_addr, arg_addr>>

SelectMode ==
  /\ phase = "command" /\ Len(command) >= 2
  /\ \/ ~IsOption(command[2]) /\ Select("INTERPRET", command[2])
     \/ command[2] = Trace /\ Select("INTERPRET_DEBUG", argument(3))
     \/ command[2] = List  /\ Select("DISSASSEMBLE", argument(3))

\* open() fails unnoticed, the first read() does not.
CannotRead == phase = "open" /\ path \notin DOMAIN Files /\ Exit(1)

\* Mutation of ProgramArgs: the option counts as the name of the program.
ProgramArgsWithOption == Tail(command)

\* _argv: from the path of the program on.
ProgramArgs == IF mode = "INTERPRET" THEN Tail(command) ELSE Tail(Tail(command))

LoadFile ==
  /\ phase = "open" /\ path \in DOMAIN Files
  /\ LET b == Files[path] IN
     /\ text' = AfterHeader(b) /\ a_text' = TextLength(b) /\ data' = DataArea(b)
     /\ Enter(Start(AfterHeader(b), TextLength(b), DataLength(b)), ProgramArgs)
  /\ UNCHANGED <<command, mode, path, code>>

InitStackStep == PushArguments /\ UNCHANGED mainVars

Next ==
  \/ NoCommand \/ UnknownOption \/ SelectMode \/ CannotRead \/ LoadFile
  \/ InitStackStep

Spec == Init /\ [][Next]_startVars /\ WF_startVars(Next)

-----------------------------------------------------------------------------
Phases == {"command", "open", "env", "args", "words", "done", "exit"}

TypeOK ==
  /\ command \in Commands /\ code \in {0, 1}
  /\ mode \in {"INTERPRET", "INTERPRET_DEBUG", "DISSASSEMBLE"}
  /\ text \in Seq(Byte) /\ data \in Seq(Byte) /\ a_text \in Int
  /\ s.regs \in [RegNum -> Word] /\ IsMem(s.mem)
  /\ phase \in Phases
  /\ i \in 0 .. argc + 4 /\ j \in Nat
  /\ env_addr \in Word /\ arg_addr \in [1 .. argc -> Word]

WordAt(a) == get_memory(s, a, 1)

\* The bytes from address a on spell the string and end with a zero.
Spells(a, str) ==
  \A n \in 1 .. Len(str) + 1 : ByteAt(s.mem, a + n - 1) = StringByte(str, n)

Operands == OperandsOf(command)

\* What the start-up code of a program relies on, whatever the option it is
\* run with: SP points to the number of its arguments, then come a pointer to
\* each, its own path the first, a null pointer, a pointer to the environment
\* string and a null pointer.
ArgumentsReadable ==
  phase = "done" =>
    LET sp == s.regs[SP]
        n  == Len(Operands) IN
    /\ WordAt(sp) = n
    /\ \A k \in 1 .. n : Spells(WordAt(sp + 2 * k), Operands[k])
    /\ WordAt(sp + 2 * n + 2) = 0
    /\ Spells(WordAt(sp + 2 * n + 4), Env)
    /\ WordAt(sp + 2 * n + 6) = 0

\* A string whose address has been taken is never overwritten by the pushes
\* that follow, and neither is the data area at the bottom of the memory.
StringsKept ==
  phase \in {"env", "args", "words", "done"} =>
    /\ phase # "env" => Spells(env_addr, Env)
    /\ \A n \in 1 .. argc : arg_addr[n] # 0 => Spells(arg_addr[n], argv[n])
    /\ \A n \in 1 .. Len(data) : ByteAt(s.mem, n - 1) = data[n]

\* The loop starts with the image the programs of Cpu are given: the pushes
\* amount to the closed form of Loader.
LoadsAsClosedForm ==
  phase = "done" =>
    LET b == Files[path] IN
    [text |-> text, a_text |-> a_text, regs |-> s.regs, mem |-> s.mem]
      = Load(AfterHeader(b), TextLength(b), DataLength(b), Operands)

\* The image is one that Cpu and Calls start from: words, bytes, none of them
\* outside g_memory, whatever has been pushed, and SP at a word inside it.
ImageReady ==
  phase = "done" =>
    /\ a_text \in Int /\ text \in Seq(Byte)
    /\ s.regs \in [RegNum -> Word] /\ IsMem(s.mem)
    /\ DOMAIN s.mem \subseteq 0 .. STACK_CAPACITY - 1
    /\ s.regs[SP] <= STACK_CAPACITY - 2

\* The loop can be reached: an operand that can be read, and no option or one
\* of the two.
Startable ==
  /\ Len(command) > 1
  /\ IsOption(command[2]) => command[2] \in {Trace, List} /\ Len(command) > 2
  /\ Operands[1] \in DOMAIN Files

\* A program that can be read is started in the end, and of any other the
\* process ends with status 1.
Finishes ==
  <>(IF Startable THEN phase = "done" /\ code = 0 ELSE phase = "exit" /\ code = 1)
=============================================================================
