---------------------------- MODULE MCInitStack -----------------------------
(* Programs with and without data and with a long header; command lines of *)
(* each mode, with no argument to three, and those main() refuses.           *)
EXTENDS Startup, TLC

\* The bytes of an executable, all lengths below 256.
Executable(hdrlen, bytes, area) ==
  <<1, 3, 32, 4, hdrlen, 0, 0, 0, Len(bytes), 0, 0, 0, Len(area), 0, 0, 0>>
    \o [n \in 1 .. hdrlen - 16 |-> 0] \o bytes \o area

MCFiles ==
  (<<97>> :> Executable(32, <<49, 237>>, <<>>)) @@
  (<<98, 99>> :> Executable(32, <<144>>, <<0, 255, 128, 83, 83>>)) @@
  (<<100>> :> Executable(48, <<>>, <<1, 2, 3>>))

Own == <<109>>   \* "m", the interpreter itself

MCCommands ==
  { <<Own>>, <<Own, <<>> >>, <<Own, <<120>> >>, <<Own, <<Dash>>, <<97>> >>,
    <<Own, Trace>>, <<Own, List>>, <<Own, List, <<120>> >>, <<Own, Trace, Trace>>,
    <<Own, <<97>> >>, <<Own, Trace, <<97>> >>, <<Own, List, <<97>> >>,
    <<Own, <<98, 99>>, <<>> >>, <<Own, <<98, 99>>, Trace, <<255, 1>> >>,
    <<Own, Trace, <<98, 99>>, <<>>, <<97, 98, 99, 100, 101>> >>,
    <<Own, List, <<100>>, <<104>>, <<105, 106>> >> }
=============================================================================
