------------------------------ MODULE MCGolden ------------------------------
(* The programs, interpreted, with a record of their calls.                  *)
EXTENDS Calls, ReferencePrograms

MCImages == Programs
MCModes  == {"INTERPRET"}
MCJunk   == {0, 1}

\* The argument of exit and the bytes written: what the reference traces say,
\* "hEllo" for 2.s.out, and 3 + 2 + 1 for the recursion.
Expected == << [code |-> 6,  out |-> <<104, 101, 108, 108, 111, 10>>],
               [code |-> 97, out |-> <<97>>],
               [code |-> 53, out |-> <<48, 49, 50, 51, 52, 53>>],
               [code |-> 0,  out |-> <<104, 69, 108, 108, 111, 10>>],
               [code |-> 6,  out |-> <<>>] >>

\* A program that ends has called exit with the status expected, after writing
\* the bytes expected, and on the way it has only ever written a prefix of
\* them.
ReferenceOutcome ==
  /\ Len(out) <= Len(Expected[prog].out)
  /\ out = SubSeq(Expected[prog].out, 1, Len(out))
  /\ status # "run" =>
       status = "exit" /\ code = Expected[prog].code /\ out = Expected[prog].out

\* Every one of the programs ends: the loop neither stalls on an
\* instruction nor runs in circles.
Terminates == <>(status # "run")
=============================================================================
