------------------------------- MODULE Calls --------------------------------
(***************************************************************************)
(* The interpreter, not run with -d, and a record of the calls in progress: *)
(* the return address each call pushed and SP before it.  The record is a   *)
(* history variable; what it says is compared with the stack the program    *)
(* really uses, which shares its memory with the data and the arguments.    *)
(***************************************************************************)
EXTENDS Footprint

VARIABLE frames   \* innermost last; the first is the program itself

callee_saved == <<regs[BP], regs[SI], regs[DI]>>

\* The return address, where it lies, and the registers to hand back.
Frame(to, sp) == [to |-> to, sp |-> sp, kept |-> callee_saved]

CallsInit == Init /\ frames = << Frame(0, regs[SP]) >>

\* The instruction executed, a call of PC plus its length.
Call ==
  /\ op_call_0 \/ op_call_1
  /\ frames' = Append(frames,
                      Frame(IF byte1 = 255 THEN EndRM ELSE Wrap(PC + 3),
                            Wrap(regs[SP] - 2)))

Return ==
  /\ op_ret
  /\ frames' = SubSeq(frames, 1, Len(frames) - 1)

Other ==
  /\ \/ Computation \/ NoEffect \/ Syscalls \/ main_return
     \/ op_push_0 \/ op_pop_0 \/ op_push_1 \/ op_pop_1 \/ op_push_2
     \/ op_jmp_2 \/ op_jmp \/ op_cond_jmp
  /\ UNCHANGED frames

CallsNext == Call \/ Return \/ Other

CallsVars == <<vars, frames>>

CallsSpec == CallsInit /\ [][CallsNext]_CallsVars /\ WF_CallsVars(CallsNext)

-----------------------------------------------------------------------------

\* No push, store or system call writes over the return address of a call in
\* progress: the word at the entry SP of each frame is still what the call
\* put there.
FramesIntact ==
  \A i \in 2 .. Len(frames) : get_memory(Store, frames[i].sp, 1) = frames[i].to

\* The bytes a ret imm removes behind the return address.
Arguments == IF Fetch("ret_1") THEN TextWord(PC + 1) ELSE 0

Innermost == frames[Len(frames)]
Caller    == frames[Len(frames) - 1]

\* Where the return addresses of the calls in progress lie.
ReturnAddresses == UNION {Extent(frames[k].sp, 1) : k \in 2 .. Len(frames)}

\* What a procedure owes in each step: it calls with room on the stack and
\* ahead of the end of the segment; before it returns it has put SP, BP, SI
\* and DI back, and removes no more than lies between it and its caller; else
\* it pops no return address, and its instruction names no byte of one as its
\* destination.
Disciplined ==
  /\ Len(frames') > Len(frames) => regs[SP] >= 2 /\ PC + 4 <= UINT16_MAX
  /\ Len(frames') < Len(frames) =>
       /\ Len(frames) > 1
       /\ regs[SP] = Innermost.sp /\ callee_saved = Innermost.kept
       /\ regs[SP] + 2 + Arguments <= Caller.sp
  /\ Len(frames') = Len(frames) =>
       /\ regs'[SP] <= Innermost.sp
       /\ MemoryTargets \cap ReturnAddresses = {}

\* The interpreter leaves it to the program to keep its stack: run by it, the
\* reference programs do, through recursion, calls by pointer and ret imm.
ProgramDisciplined == [][Disciplined]_CallsVars

\* The addresses the program computes for its operands, and hands over with its
\* messages, lie in g_memory too: no instruction is about to store behind it.
OperandsWithin == OperandTargets \subseteq 0 .. STACK_CAPACITY - 1

\* Nothing is written behind the allocation of g_memory, whose last byte a
\* register or an address can still go beyond.
WithinMemory == \A a \in DOMAIN mem : a < STACK_CAPACITY

Abstract == INSTANCE Procedures
              WITH calls <- frames, pc <- PC, sp <- regs[SP], kept <- callee_saved

\* The interpreter, whose frames are words in a memory anything may write to,
\* implements procedures: a return goes back behind the innermost call that
\* has not returned, with the SP of before that call and with BP, SI and DI
\* as they were, and no procedure pops its own return address.
ImplementsProcedures == Abstract!Spec
=============================================================================
