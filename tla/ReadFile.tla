------------------------------ MODULE ReadFile ------------------------------
(***************************************************************************)
(* read_whole_file(): the file is read into a buffer that doubles when it   *)
(* is full.  read() returns as few bytes as it likes, 0 at the end of the   *)
(* file, but also 0 when asked for none: a full buffer would look like the  *)
(* end of the file.                                                         *)
(***************************************************************************)
EXTENDS Integers, Sequences

CONSTANTS
  Files,    \* the files that may be read: sequences
  InitMax   \* the capacity the buffer starts with (64)

ASSUME FilesAssumption == \A f \in Files : f \in Seq(Nat)

ASSUME InitMaxAssumption == InitMax \in Nat /\ InitMax > 0

VARIABLES
  file,      \* what fd is open on
  pos,       \* the kernel's offset in it
  str,       \* the bytes of the buffer written so far
  max_len,   \* its capacity
  alloc,     \* the bytes malloc() or realloc() was asked for
  state      \* "reading", "done" or "failed"

readVars == <<file, pos, str, max_len, alloc, state>>

len == Len(str)

Init ==
  /\ file \in Files /\ pos = 0 /\ str = <<>>
  /\ max_len = InitMax /\ alloc = InitMax + 1
  /\ state = "reading"

\* Mutation of Asked: the place of the terminating zero is read into.
AskedWithZero == max_len + 1 - len

\* The bytes the next read() may return at most.
Asked     == max_len - len
Available == Len(file) - pos

\* str + len receives r bytes from the kernel's offset.
Received(r) ==
  [n \in 1 .. len + r |-> IF n <= len THEN str[n] ELSE file[pos + n - len]]

\* Mutation of Full: the buffer grows once it has overflowed.
FullLate(n) == n > max_len

Full(n) == n = max_len

Read ==
  /\ state = "reading"
  /\ \E r \in 1 .. Asked :
       /\ r <= Available
       /\ str' = Received(r) /\ pos' = pos + r
       /\ max_len' = IF Full(len + r) THEN 2 * max_len ELSE max_len
       /\ alloc' = IF Full(len + r) THEN 2 * max_len + 1 ELSE alloc
  /\ UNCHANGED <<file, state>>

\* Mutation: an empty file is read again and again.
FinishIfAny ==
  /\ state = "reading" /\ (Available = 0 \/ Asked = 0) /\ len > 0
  /\ state' = "done"
  /\ UNCHANGED <<file, pos, str, max_len, alloc>>

\* read() returns 0; str[len] is the terminating zero.
Finish ==
  /\ state = "reading" /\ (Available = 0 \/ Asked = 0)
  /\ state' = "done"
  /\ UNCHANGED <<file, pos, str, max_len, alloc>>

\* read() returns -1: a bad descriptor, an I/O error, a signal.
Fail ==
  /\ state = "reading" /\ state' = "failed"
  /\ UNCHANGED <<file, pos, str, max_len, alloc>>

Next == Read \/ Finish \/ Fail

\* read() of a file returns, not necessarily with an error.
Spec == Init /\ [][Next]_readVars /\ WF_readVars(Read \/ Finish)

-----------------------------------------------------------------------------
\* Whatever the sizes of the reads, what the loop leaves in the buffer is the
\* whole file: it never takes a full buffer for the end of the file.
ReadsWhole == state = "done" => str = file

\* No byte is written outside the allocation, the terminating zero included.
InAllocation == len < alloc

\* The loop ends.
Ends == <>(state # "reading")
=============================================================================
