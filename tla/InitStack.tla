----------------------------- MODULE InitStack ------------------------------
(***************************************************************************)
(* init_stack() push by push.  The strings go down the stack first, each    *)
(* from its end, then a block of words that points back into them; the same *)
(* memory already holds the data area of the file at its other end.         *)
(***************************************************************************)
EXTENDS Loader

VARIABLES
  argv,       \* the arguments of init_stack: sequences of bytes 1 .. 255
  s,          \* the store: g_registers and g_memory
  phase,      \* of main(); "env", "args" and "words" are the loops here
  i, j,       \* their indices, one above those of C
  env_addr, arg_addr

stackVars == <<argv, s, phase, i, j, env_addr, arg_addr>>

argc == Len(argv)

\* Before the call nothing is in use.
Idle ==
  /\ argv = <<>> /\ s = [regs |-> [r \in RegNum |-> 0], mem |-> <<>>]
  /\ i = 0 /\ j = 0 /\ env_addr = 0 /\ arg_addr = <<>>

\* The call, with a store and the arguments.
Enter(store, args) ==
  /\ s' = store /\ argv' = args
  /\ phase' = "env" /\ i' = Len(args) /\ j' = Len(Env) + 1
  /\ env_addr' = 0 /\ arg_addr' = [n \in 1 .. Len(args) |-> 0]

\* The byte pushed at index n of a string: its end first.
StringByte(str, n) == IF n > Len(str) THEN 0 ELSE str[n]

Push(v, w) == s' = push_stack(s, v, w)

PushEnv ==
  /\ phase = "env" /\ j > 0
  /\ Push(StringByte(Env, j), 0) /\ j' = j - 1
  /\ UNCHANGED <<argv, phase, i, env_addr, arg_addr>>

EnvDone ==
  /\ phase = "env" /\ j = 0
  /\ env_addr' = s.regs[SP]
  /\ phase' = "args" /\ j' = IF i > 0 THEN Len(argv[i]) + 1 ELSE 0
  /\ UNCHANGED <<argv, s, i, arg_addr>>

PushArg ==
  /\ phase = "args" /\ i > 0 /\ j > 0
  /\ Push(StringByte(argv[i], j), 0) /\ j' = j - 1
  /\ UNCHANGED <<argv, phase, i, env_addr, arg_addr>>

ArgDone ==
  /\ phase = "args" /\ i > 0 /\ j = 0
  /\ arg_addr' = [arg_addr EXCEPT ![i] = s.regs[SP]]
  /\ i' = i - 1 /\ j' = IF i > 1 THEN Len(argv[i - 1]) + 1 ELSE 0
  /\ UNCHANGED <<argv, s, phase, env_addr>>

\* Mutation of Words: nothing ends the arguments.
WordsUnseparated == <<argc>> \o arg_addr \o <<env_addr, 0>>

\* The words, last first: a separator, the environment, a separator, the
\* arguments and their number.
Words == <<argc>> \o arg_addr \o <<0, env_addr, 0>>

\* Mutation of ArgsDone: a loop that expects a second argument.
ArgsDoneIfMany ==
  /\ phase = "args" /\ i = 0 /\ argc > 1
  /\ phase' = "words" /\ i' = Len(Words)
  /\ UNCHANGED <<argv, s, j, env_addr, arg_addr>>

ArgsDone ==
  /\ phase = "args" /\ i = 0
  /\ phase' = "words" /\ i' = Len(Words)
  /\ UNCHANGED <<argv, s, j, env_addr, arg_addr>>

PushWord ==
  /\ phase = "words" /\ i > 0
  /\ Push(Words[i], 1) /\ i' = i - 1
  /\ UNCHANGED <<argv, phase, j, env_addr, arg_addr>>

WordsDone ==
  /\ phase = "words" /\ i = 0 /\ phase' = "done"
  /\ UNCHANGED <<argv, s, i, j, env_addr, arg_addr>>

PushArguments ==
  \/ PushEnv \/ EnvDone \/ PushArg \/ ArgDone \/ ArgsDone \/ PushWord \/ WordsDone
=============================================================================
