------------------------------- MODULE Loader -------------------------------
(***************************************************************************)
(* main() and init_stack() before the loop: the data area of the file is   *)
(* copied to address 0, then the environment string, the arguments, their  *)
(* addresses and their number are pushed.                                  *)
(***************************************************************************)
EXTENDS Machine, Sequences

\* "PATH=/bin:/usr/bin"
Env == <<80, 65, 84, 72, 61, 47, 98, 105, 110, 58, 47, 117, 115, 114, 47, 98, 105, 110>>

\* Mutation of Start: SP one byte past the last of g_stack.
StartPastEnd(bytes, textSize, dataSize) ==
  [regs |-> [r \in RegNum |-> IF r = SP THEN 65536 ELSE 0],
   mem  |-> [a \in 0 .. dataSize - 1 |-> bytes[textSize + a + 1]]]

\* g_registers at start; the data area copied into g_memory.
Start(bytes, textSize, dataSize) ==
  [regs |-> [r \in RegNum |-> IF r = SP THEN 65535 ELSE 0],
   mem  |-> [a \in 0 .. dataSize - 1 |-> bytes[textSize + a + 1]]]

\* Pushed from the last to the first: the store at the end is that at 1, the
\* store once the values from the n-th on are pushed that at n.
Pushes(s, values, w) ==
  LET pushed[n \in 1 .. Len(values) + 1] ==
        IF n > Len(values) THEN s ELSE push_stack(pushed[n + 1], values[n], w)
  IN  pushed

\* The bytes of a string, and the zero that ends it.
PushString(s, str) == Pushes(s, str \o <<0>>, 0)[1]

PushWords(s, words) == Pushes(s, words, 1)[1]

\* The arguments, the last first: the store once those from the n-th on are
\* pushed.
ArgvPushes(s, argv) ==
  LET pushed[n \in 1 .. Len(argv) + 1] ==
        IF n > Len(argv) THEN s ELSE PushString(pushed[n + 1], argv[n])
  IN  pushed

\* The addresses of the arguments.
ArgvAddresses(s, argv) ==
  LET stores == ArgvPushes(s, argv) IN [n \in 1 .. Len(argv) |-> stores[n].regs[SP]]

\* Mutation: the arguments before the environment.
ArgumentsFirst(s, argv) ==
  LET args == ArgvPushes(s, argv)[1]
      env  == PushString(args, Env)
  IN  PushWords(env, <<Len(argv)>> \o ArgvAddresses(s, argv) \o <<0, env.regs[SP], 0>>)

init_stack(s, argv) ==
  LET env == PushString(s, Env)
  IN  PushWords(ArgvPushes(env, argv)[1],
                <<Len(argv)>> \o ArgvAddresses(env, argv) \o <<0, env.regs[SP], 0>>)

\* The image of a file whose bytes after the header are `bytes`.
Load(bytes, textSize, dataSize, argv) ==
  LET s == init_stack(Start(bytes, textSize, dataSize), argv) IN
  [text |-> bytes, a_text |-> textSize, regs |-> s.regs, mem |-> s.mem]
=============================================================================
