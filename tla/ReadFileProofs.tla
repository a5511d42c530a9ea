--------------------------- MODULE ReadFileProofs ---------------------------
(***************************************************************************)
(* read_whole_file() reads the whole file and stays inside its buffer, for  *)
(* every set of files and every initial capacity.                           *)
(***************************************************************************)
EXTENDS ReadFile, SequenceTheorems, TLAPS

TypeInv ==
  /\ file \in Files
  /\ str \in Seq(Nat)
  /\ pos \in Nat /\ max_len \in Nat /\ alloc \in Nat
  /\ state \in {"reading", "done", "failed"}

\* The buffer holds what precedes the kernel's offset and is not full.
BufferInv ==
  /\ pos = Len(str) /\ pos <= Len(file)
  /\ \A n \in 1 .. pos : str[n] = file[n]
  /\ Len(str) < max_len /\ alloc = max_len + 1
  /\ state = "done" => pos = Len(file)

ReadInv == TypeInv /\ BufferInv

LEMMA InitRead == Init => ReadInv
<1> SUFFICES ASSUME Init PROVE ReadInv
  OBVIOUS
<1> USE FilesAssumption, InitMaxAssumption DEF Init
<1>1. str \in Seq(Nat) /\ Len(str) = 0
  OBVIOUS
<1>2. Len(file) \in Nat
  OBVIOUS
<1> QED
  BY <1>1, <1>2 DEF ReadInv, TypeInv, BufferInv

\* What a read() leaves in the buffer is one sequence, longer by its bytes.
LEMMA ReceivedIsPrefix ==
  ASSUME ReadInv, NEW r \in Nat, r <= Available
  PROVE  /\ Received(r) \in Seq(Nat)
         /\ Len(Received(r)) = len + r
         /\ \A n \in 1 .. len + r : Received(r)[n] = file[n]
<1> DEFINE new == Received(r)
<1> USE DEF ReadInv, TypeInv, BufferInv, len
<1>1. file \in Seq(Nat) /\ Len(file) \in Nat /\ len \in Nat
  BY FilesAssumption
<1>2. ASSUME NEW n \in 1 .. len + r
      PROVE  new[n] = file[n] /\ new[n] \in Nat
  <2>1. n \in 1 .. Len(file)
    BY <1>1 DEF Available
  <2>2. file[n] \in Nat
    BY <1>1, <2>1
  <2>3. CASE n <= len
    BY <1>1, <2>2, <2>3 DEF Received
  <2>4. CASE ~(n <= len)
    <3>1. pos + n - len = n
      BY <1>1
    <3> QED
      BY <1>1, <2>2, <2>4, <3>1 DEF Received
  <2> QED
    BY <2>3, <2>4
<1>3. new = [n \in 1 .. len + r |-> new[n]]
  BY <1>1 DEF Received
<1>4. new \in [1 .. len + r -> Nat]
  BY <1>2, <1>3
<1>5. len + r \in Nat
  BY <1>1
<1>6. new \in Seq(Nat) /\ Len(new) = len + r
  BY <1>4, <1>5
<1> QED
  BY <1>2, <1>6

LEMMA NextRead == ReadInv /\ [Next]_readVars => ReadInv'
<1> SUFFICES ASSUME ReadInv, [Next]_readVars PROVE ReadInv'
  OBVIOUS
<1> USE InitMaxAssumption DEF ReadInv, TypeInv, BufferInv
<1>1. file \in Seq(Nat) /\ Len(file) \in Nat
  BY FilesAssumption
<1>2. CASE Read
  <2>1. PICK r \in 1 .. Asked :
          /\ r <= Available
          /\ str' = Received(r) /\ pos' = pos + r
          /\ max_len' = IF Full(len + r) THEN 2 * max_len ELSE max_len
          /\ alloc' = IF Full(len + r) THEN 2 * max_len + 1 ELSE alloc
    BY <1>2 DEF Read
  <2>2. /\ r \in Nat /\ r > 0 /\ len + r <= max_len
        /\ len = pos /\ pos + r <= Len(file)
    BY <1>1, <2>1 DEF Asked, Available, len
  <2>3. /\ str' \in Seq(Nat) /\ Len(str') = pos + r
        /\ \A n \in 1 .. pos + r : str'[n] = file[n]
    BY <2>1, <2>2, ReceivedIsPrefix
  <2>4. file' = file /\ state' = state /\ state = "reading"
    BY <1>2 DEF Read
  <2>5. max_len' \in Nat /\ pos + r < max_len' /\ alloc' = max_len' + 1
    BY <2>1, <2>2 DEF Full
  <2> QED
    BY <1>1, <2>1, <2>2, <2>3, <2>4, <2>5
<1>3. CASE Finish
  <2>1. Asked # 0
    BY DEF Asked, len
  <2>2. pos = Len(file)
    BY <1>1, <1>3, <2>1 DEF Finish, Available
  <2> QED
    BY <1>3, <2>2 DEF Finish
<1>4. CASE Fail
  BY <1>4 DEF Fail
<1>5. CASE UNCHANGED readVars
  BY <1>5 DEF readVars
<1> QED
  BY <1>2, <1>3, <1>4, <1>5 DEF Next

LEMMA ReadSafe == ReadInv => ReadsWhole /\ InAllocation
<1> SUFFICES ASSUME ReadInv PROVE ReadsWhole /\ InAllocation
  OBVIOUS
<1> USE DEF ReadInv, TypeInv, BufferInv
<1>1. InAllocation
  BY DEF InAllocation, len
<1>2. ASSUME state = "done" PROVE str = file
  <2>1. file \in Seq(Nat) /\ str \in Seq(Nat) /\ Len(str) = Len(file)
    BY <1>2, FilesAssumption
  <2>2. \A n \in 1 .. Len(str) : str[n] = file[n]
    OBVIOUS
  <2> QED
    BY <2>1, <2>2, SeqEqual
<1> QED
  BY <1>1, <1>2 DEF ReadsWhole

\* Whatever the sizes of the reads, the buffer ends up with the whole file:
\* it grows before it is full, so that read() is never asked for nothing.
THEOREM ReadWholeFile == Spec => []ReadsWhole
<1>1. ReadInv => ReadsWhole
  BY ReadSafe
<1> QED
  BY InitRead, NextRead, <1>1, PTL DEF Spec

\* No byte is stored outside the allocation, the terminating zero included.
THEOREM ReadInBounds == Spec => []InAllocation
<1>1. ReadInv => InAllocation
  BY ReadSafe
<1> QED
  BY InitRead, NextRead, <1>1, PTL DEF Spec
=============================================================================
