----------------------------- MODULE TealStack -----------------------------
(***************************************************************************)
(* The TEAL interpreter of the K semantics: a program is loaded, fetched   *)
(* opcode by opcode, jumps to labels, calls subroutines and ends with a    *)
(* look at what it left on the stack.                                      *)
(*                                                                         *)
(* A step is one opcode with the #incrementPC and #fetchOpcode behind it,  *)
(* so <jumped> needs no variable.  Where the rules of an opcode overlap,   *)
(* either may apply; where none does, no action is enabled and returncode  *)
(* keeps the value STUCK.  <stack> is the cons-list of the semantics: its  *)
(* first element is the top.  Byte strings are one value, bytes, and "+"   *)
(* stands for the arithmetic opcodes of two integers.                      *)
(***************************************************************************)
EXTENDS Integers, Sequences

CONSTANTS
  Programs,             \* the programs a run may start with
  bytes,                \* a byte string
  MAX_STACK_DEPTH, MAX_CALLSTACK_DEPTH, MAX_SCRATCH_SIZE, MAX_UINT64

StackOps   == {"pop", "dup", "dup2", "swap", "select", "dig", "cover", "uncover", "bury", "popn"}
FrameOps   == {"proto", "frame_dig", "frame_bury", "dupn"}
BranchOps  == {"b", "bz", "bnz", "callsub", "retsub", "return", "assert", "label"}
OpCodes    == StackOps \cup FrameOps \cup BranchOps \cup {"int", "byte", "+", "load", "store"}

\* An opcode with its immediate arguments; labels are numbers.  Only the offsets
\* of frame_dig and frame_bury may be negative.
Instruction == [op: {"int"}, n: 0..MAX_UINT64, m: Nat]
               \cup [op: {"frame_dig", "frame_bury"}, n: Int, m: Nat]
               \cup [op: OpCodes \ {"int", "frame_dig", "frame_bury"}, n: Nat, m: Nat]

ASSUME ProgramAssumption == Programs \subseteq Seq(Instruction)
ASSUME ValueAssumption   == bytes \notin Int
ASSUME LimitAssumption   ==
  {MAX_STACK_DEPTH, MAX_CALLSTACK_DEPTH, MAX_SCRATCH_SIZE, MAX_UINT64} \subseteq Nat

VARIABLES k, program, pc, stack, stacksize, callStack, scratch, returncode
vars == <<k, program, pc, stack, stacksize, callStack, scratch, returncode>>

Value == (0..MAX_UINT64) \cup {bytes}
\* proto is <<>> until the subroutine has executed its proto.
Frame == [ret: Nat, ptr: Nat, proto: {<<>>} \cup (Nat \X Nat)]

-----------------------------------------------------------------------------
(* The stack: teal-stack.md.                                               *)
Take(n, s) == SubSeq(s, 1, IF n < Len(s) THEN n ELSE Len(s))
Drop(n, s) == SubSeq(s, IF n > 0 THEN n + 1 ELSE 1, Len(s))

\* Access counted from the bottom.
FromBottom(s, i)       == s[Len(s) - i]
SetFromBottom(s, i, v) == Take(Len(s) - i - 1, s) \o <<v>> \o Drop(Len(s) - i, s)

Top == stack[1]

-----------------------------------------------------------------------------
(* Fetching, and what an opcode may do next.                               *)
Instr        == program[pc + 1]
Fetched(ops) == k = "run" /\ pc < Len(program) /\ Instr.op \in ops

Labels     == {program[i].n : i \in {j \in 1..Len(program) : program[j].op = "label"}}
Address(l) == CHOOSE a \in 0..(Len(program) - 1) : program[a + 1].op = "label" /\ program[a + 1].n = l

\* The stack becomes s, <stacksize> changes by delta, and a is the next address.
GoTo(a, s, delta) ==
  /\ pc' = a /\ stack' = s /\ stacksize' = stacksize + delta
  /\ UNCHANGED <<k, program, returncode>>

Becomes(s, delta) == GoTo(pc + 1, s, delta) /\ UNCHANGED <<callStack, scratch>>

Panic(code) ==
  /\ k' = "stopped" /\ returncode' = code
  /\ UNCHANGED <<program, pc, stack, stacksize, callStack, scratch>>

Jump(l, s, delta) ==
  \/ l \in Labels /\ GoTo(Address(l), s, delta) /\ UNCHANGED <<callStack, scratch>>
  \/ l \notin Labels /\ Panic("ILLEGAL_JUMP")

-----------------------------------------------------------------------------
(* #loadInputPgm on the cells #initContext has emptied.                    *)
Init ==
  /\ k = "load" /\ program \in Programs /\ pc = 0
  /\ stack = <<>> /\ stacksize = 0 /\ callStack = <<>>
  /\ scratch = [i \in {} |-> 0] /\ returncode = "STUCK"

DuplicateLabel == \E i, j \in 1..Len(program) :
  i < j /\ program[i].op = "label" /\ program[j].op = "label" /\ program[i].n = program[j].n

LoadInputPgm ==
  /\ k = "load"
  /\ \/ DuplicateLabel /\ Panic("DUPLICATE_LABEL")
     \/ /\ ~DuplicateLabel /\ k' = "run"
        /\ UNCHANGED <<program, pc, stack, stacksize, callStack, scratch, returncode>>

\* The end of the program; what is left on the stack is the verdict.
Finish(s, size) ==
  /\ k' = "checkStack" /\ stack' = s /\ stacksize' = size
  /\ UNCHANGED <<program, pc, callStack, scratch, returncode>>

FallOffEnd == k = "run" /\ pc = Len(program) /\ Finish(stack, stacksize)
Return     == Fetched({"return"}) /\ stack # <<>> /\ Top # bytes /\ Finish(<<Top>>, 1)

Accept ==
  /\ k = "checkStack" /\ Len(stack) = 1 /\ Top # bytes /\ Top > 0 /\ stacksize = 1
  /\ k' = "accepted"
  /\ UNCHANGED <<program, pc, stack, stacksize, callStack, scratch, returncode>>

ZeroStack ==
  k = "checkStack" /\ Len(stack) = 1 /\ Top # bytes /\ Top <= 0 /\ Panic("ZERO_STACK")

\* Faulty: a byte string left alone on the stack is overlooked.
BadStackOfInts ==
  /\ k = "checkStack" /\ (stacksize > 1 \/ stack = <<>>)
  /\ Panic("BAD_STACK")

BadStack ==
  /\ k = "checkStack"
  /\ stacksize > 1 \/ stack = <<>> \/ (Len(stack) = 1 /\ Top = bytes)
  /\ Panic("BAD_STACK")

-----------------------------------------------------------------------------
(* Constants, arithmetic and scratch space.                                *)
PushConstant ==
  /\ Fetched({"int", "byte"}) /\ stacksize < MAX_STACK_DEPTH
  /\ Becomes(<<IF Instr.op = "int" THEN Instr.n ELSE bytes>> \o stack, 1)

\* Faulty: the sum is not held against MAX_UINT64.
AddUnbounded ==
  /\ Fetched({"+"}) /\ Len(stack) >= 2 /\ bytes \notin {stack[1], stack[2]}
  /\ Becomes(<<stack[1] + stack[2]>> \o Drop(2, stack), -1)

Add ==
  /\ Fetched({"+"}) /\ Len(stack) >= 2 /\ bytes \notin {stack[1], stack[2]}
  /\ \/ stack[1] + stack[2] <= MAX_UINT64 /\ Becomes(<<stack[1] + stack[2]>> \o Drop(2, stack), -1)
     \/ stack[1] + stack[2] > MAX_UINT64 /\ Panic("INT_OVERFLOW")

Stored(f, i, v) == [j \in DOMAIN f \cup {i} |-> IF j = i THEN v ELSE f[j]]

\* Loading a place never stored to makes it 0.
Load ==
  /\ Fetched({"load"}) /\ Instr.n < MAX_SCRATCH_SIZE /\ stacksize < MAX_STACK_DEPTH
  /\ scratch' = IF Instr.n \in DOMAIN scratch THEN scratch ELSE Stored(scratch, Instr.n, 0)
  /\ GoTo(pc + 1, <<scratch'[Instr.n]>> \o stack, 1) /\ UNCHANGED callStack

Store ==
  /\ Fetched({"store"}) /\ Instr.n < MAX_SCRATCH_SIZE /\ stack # <<>>
  /\ scratch' = Stored(scratch, Instr.n, Top)
  /\ GoTo(pc + 1, Tail(stack), -1) /\ UNCHANGED callStack

InvalidScratchLoc ==
  Fetched({"load", "store"}) /\ Instr.n >= MAX_SCRATCH_SIZE /\ Panic("INVALID_SCRATCH_LOC")

-----------------------------------------------------------------------------
(* Branches and subroutines.                                               *)
SkipLabel == Fetched({"label"}) /\ Becomes(stack, 0)

Branch ==
  \/ Fetched({"b"}) /\ Jump(Instr.n, stack, 0)
  \/ /\ Fetched({"bz", "bnz"}) /\ stack # <<>> /\ Top # bytes
     /\ IF (Top > 0) = (Instr.op = "bnz") THEN Jump(Instr.n, Tail(stack), -1)
                                          ELSE Becomes(Tail(stack), -1)

Assert ==
  /\ Fetched({"assert"}) /\ stack # <<>> /\ Top # bytes
  /\ \/ Top > 0 /\ Becomes(Tail(stack), -1)
     \/ Top = 0 /\ Panic("ASSERTION_VIOLATION")
     \/ Top < 0 /\ Panic("IMPOSSIBLE_NEGATIVE_NUMBER")

\* Faulty: the frame returns to the call itself.
CallSubroutineAgain ==
  /\ Fetched({"callsub"})
  /\ \/ /\ Instr.n \in Labels /\ Len(callStack) < MAX_CALLSTACK_DEPTH
        /\ callStack' = <<[ret |-> pc, ptr |-> Len(stack), proto |-> <<>>]>> \o callStack
        /\ GoTo(Address(Instr.n), stack, 0) /\ UNCHANGED scratch
     \/ Len(callStack) >= MAX_CALLSTACK_DEPTH /\ Panic("CALLSTACK_OVERFLOW")
     \/ Instr.n \notin Labels /\ Panic("ILLEGAL_JUMP")

CallSubroutine ==
  /\ Fetched({"callsub"})
  /\ \/ /\ Instr.n \in Labels /\ Len(callStack) < MAX_CALLSTACK_DEPTH
        /\ callStack' = <<[ret |-> pc + 1, ptr |-> Len(stack), proto |-> <<>>]>> \o callStack
        /\ GoTo(Address(Instr.n), stack, 0) /\ UNCHANGED scratch
     \/ Len(callStack) >= MAX_CALLSTACK_DEPTH /\ Panic("CALLSTACK_OVERFLOW")
     \/ Instr.n \notin Labels /\ Panic("ILLEGAL_JUMP")

Proto ==
  /\ Fetched({"proto"}) /\ callStack # <<>>
  /\ callStack' = [callStack EXCEPT ![1].proto = <<Instr.n, Instr.m>>]
  /\ GoTo(pc + 1, stack, 0) /\ UNCHANGED scratch

CurrentFrame == callStack[1]
Args == CurrentFrame.proto[1]
Rets == CurrentFrame.proto[2]

\* Faulty: only the arguments are dropped, so results stay where they were, too.
ReturnedTwice(s, ptr, args, rets) ==
  LET cleared == Drop(Len(s) - ptr - rets, s)
  IN  Take(rets, cleared) \o Drop(args, cleared)

\* What a frame leaves to its caller: everything above its results is dropped,
\* and the arguments are taken out from under them.
Returned(s, ptr, args, rets) ==
  LET cleared == Drop(Len(s) - ptr - rets, s)
  IN  Take(rets, cleared) \o Drop(args + rets, cleared)

ReturnSubroutine ==
  /\ Fetched({"retsub"})
  /\ \/ callStack = <<>> /\ Panic("CALLSTACK_UNDERFLOW")
     \/ /\ callStack # <<>> /\ callStack' = Tail(callStack) /\ UNCHANGED scratch
        /\ \/ CurrentFrame.proto = <<>> /\ GoTo(CurrentFrame.ret, stack, 0)
           \/ /\ CurrentFrame.proto # <<>>
              /\ GoTo(CurrentFrame.ret, Returned(stack, CurrentFrame.ptr, Args, Rets),
                      -(Len(stack) - CurrentFrame.ptr) - Rets)

FrameDig ==
  /\ Fetched({"frame_dig"}) /\ callStack # <<>> /\ stacksize < MAX_STACK_DEPTH
  /\ CurrentFrame.ptr + Instr.n \in 0..(Len(stack) - 1)
  /\ Becomes(<<FromBottom(stack, CurrentFrame.ptr + Instr.n)>> \o stack, 1)

FrameBury ==
  /\ Fetched({"frame_bury"}) /\ callStack # <<>> /\ stack # <<>>
  /\ Becomes(SetFromBottom(Tail(stack), CurrentFrame.ptr + Instr.n, Top), -1)

-----------------------------------------------------------------------------
(* Stack manipulation.                                                     *)
Pop  == Fetched({"pop"}) /\ stack # <<>> /\ Becomes(Tail(stack), -1)
Dup  == Fetched({"dup"}) /\ stack # <<>> /\ stacksize < MAX_STACK_DEPTH /\ Becomes(<<Top>> \o stack, 1)
\* Faulty: the size grows by one.
Dup2AsDup == /\ Fetched({"dup2"}) /\ Len(stack) >= 2 /\ stacksize + 1 < MAX_STACK_DEPTH
             /\ Becomes(<<stack[1], stack[2]>> \o stack, 1)

Dup2 == /\ Fetched({"dup2"}) /\ Len(stack) >= 2 /\ stacksize + 1 < MAX_STACK_DEPTH
        /\ Becomes(<<stack[1], stack[2]>> \o stack, 2)

\* dupn rewrites itself to dupn of one less: N copies, or a panic on the way.
DupN ==
  /\ Fetched({"dupn"})
  /\ \/ Instr.n = 0 /\ Becomes(stack, 0)
     \/ /\ Instr.n > 0 /\ stack # <<>> /\ stacksize + Instr.n <= MAX_STACK_DEPTH
        /\ Becomes([i \in 1..Instr.n |-> Top] \o stack, Instr.n)

Swap == Fetched({"swap"}) /\ Len(stack) >= 2 /\ Becomes(<<stack[2], stack[1]>> \o Drop(2, stack), 0)

Select ==
  /\ Fetched({"select"}) /\ Len(stack) >= 3 /\ Top # bytes
  /\ Becomes(<<IF Top # 0 THEN stack[2] ELSE stack[3]>> \o Drop(3, stack), -2)

\* dig, cover and uncover count from 0 at the top, and look at the cached size.
InRange == 0 <= Instr.n /\ Instr.n < stacksize

Dig ==
  /\ Fetched({"dig"}) /\ InRange /\ stacksize < MAX_STACK_DEPTH /\ Instr.n < Len(stack)
  /\ Becomes(<<stack[Instr.n + 1]>> \o stack, 1)
Cover ==
  /\ Fetched({"cover"}) /\ InRange /\ stack # <<>>
  /\ Becomes(Take(Instr.n, Tail(stack)) \o <<Top>> \o Drop(Instr.n, Tail(stack)), 0)
Uncover ==
  /\ Fetched({"uncover"}) /\ InRange /\ Instr.n < Len(stack)
  /\ Becomes(<<stack[Instr.n + 1]>> \o Take(Instr.n, stack) \o Drop(Instr.n + 1, stack), 0)
Bury ==
  /\ Fetched({"bury"}) /\ InRange /\ Instr.n > 0 /\ stack # <<>>
  /\ Becomes(Take(Instr.n - 1, Tail(stack)) \o <<Top>> \o Drop(Instr.n, Tail(stack)), -1)
PopN == Fetched({"popn"}) /\ Instr.n <= stacksize /\ Becomes(Drop(Instr.n, stack), -Instr.n)

-----------------------------------------------------------------------------
(* Stacks an opcode cannot work on.                                        *)
StackOverflow ==
  /\ \/ Fetched({"int", "byte", "load", "dup", "dig"}) /\ stacksize >= MAX_STACK_DEPTH
     \/ Fetched({"dup2"}) /\ stacksize + 1 >= MAX_STACK_DEPTH
     \/ Fetched({"dupn"}) /\ stacksize + Instr.n > MAX_STACK_DEPTH
  /\ Panic("STACK_OVERFLOW")

\* The general rules want stack and cached size to be of the same length.
StackUnderflow ==
  /\ \/ /\ Fetched({"+", "store", "bz", "bnz", "return"} \cup StackOps)
        /\ stack = <<>> /\ stacksize = 0
     \/ Fetched({"+", "dup2", "swap"}) /\ Len(stack) = 1 /\ stacksize = 1
     \/ Fetched({"select"}) /\ Len(stack) = 2 /\ stacksize = 2
     \/ Fetched({"swap"}) /\ Len(stack) = 1
     \/ Fetched({"dig", "cover", "uncover", "bury"}) /\ ~InRange
     \/ Fetched({"bury"}) /\ Instr.n = 0
     \/ Fetched({"popn"}) /\ Instr.n > stacksize
  /\ Panic("STACK_UNDERFLOW")

IllTypedStack ==
  /\ \/ Fetched({"+"}) /\ Len(stack) >= 2 /\ bytes \in {stack[1], stack[2]}
     \/ Fetched({"bz", "bnz", "return"}) /\ stack # <<>> /\ Top = bytes
  /\ Panic("ILL_TYPED_STACK")

Next ==
  \/ LoadInputPgm \/ FallOffEnd \/ Return \/ Accept \/ ZeroStack \/ BadStack
  \/ PushConstant \/ Add \/ Load \/ Store \/ InvalidScratchLoc
  \/ SkipLabel \/ Branch \/ Assert \/ CallSubroutine \/ Proto \/ ReturnSubroutine
  \/ FrameDig \/ FrameBury \/ Pop \/ Dup \/ Dup2 \/ DupN \/ Swap \/ Select
  \/ Dig \/ Cover \/ Uncover \/ Bury \/ PopN
  \/ StackOverflow \/ StackUnderflow \/ IllTypedStack

Spec == Init /\ [][Next]_vars

-----------------------------------------------------------------------------
(* Correctness.                                                            *)

ReturnCodes == {"STUCK", "DUPLICATE_LABEL", "ILLEGAL_JUMP", "ZERO_STACK", "BAD_STACK", "INT_OVERFLOW",
  "INVALID_SCRATCH_LOC", "ASSERTION_VIOLATION", "CALLSTACK_OVERFLOW", "CALLSTACK_UNDERFLOW",
  "STACK_OVERFLOW", "STACK_UNDERFLOW", "ILL_TYPED_STACK"}

\* Types: the program counter stays within the program or one step beyond it,
\* numbers within 64 bits, so that IMPOSSIBLE_NEGATIVE_NUMBER is impossible.
TypeOK ==
  /\ k \in {"load", "run", "checkStack", "accepted", "stopped"}
  /\ program \in Seq(Instruction) /\ pc \in 0..Len(program)
  /\ stack \in Seq(Value) /\ stacksize \in Int
  /\ callStack \in Seq(Frame) /\ Len(callStack) <= MAX_CALLSTACK_DEPTH
  /\ DOMAIN scratch \subseteq 0..(MAX_SCRATCH_SIZE - 1) /\ scratch \in [DOMAIN scratch -> Value]
  /\ returncode \in ReturnCodes

\* Whatever subroutines call each other, and however their frames are handled, a
\* frame returns right behind a callsub (callSubroutine, returnSubroutine).
FramesReturnToCalls == \A i \in 1..Len(callStack) :
  callStack[i].ret \in 1..Len(program) /\ program[callStack[i].ret].op = "callsub"

\* <stacksize>, by which overflow, ranges and the verdict are decided, is the
\* "current stack size".
StackSizeIsSize == stacksize = Len(stack)

\* What makes the two differ: a return whose prototype has not twice as many
\* arguments as results or whose frame has lost some of them, and a frame_bury
\* outside the stack.
Drifts ==
  /\ k = "run" /\ pc < Len(program) /\ callStack # <<>>
  /\ \/ /\ Instr.op = "retsub" /\ CurrentFrame.proto # <<>>
        /\ \/ 2 * Rets # Args
           \/ CurrentFrame.ptr < Args \/ Len(stack) < CurrentFrame.ptr + Rets
     \/ Instr.op = "frame_bury" /\ CurrentFrame.ptr + Instr.n \notin 0..(Len(stack) - 2)

\* Nothing else does: from a stack of the cached size and within the limit, every
\* other opcode leaves such a stack.
Sized == StackSizeIsSize /\ stacksize <= MAX_STACK_DEPTH
OnlyReturnsDrift == [][Sized /\ ~Drifts => Sized']_vars

\* A subroutine that has declared arguments and results, and left both where they
\* belong, returns to its caller the stack below its arguments with exactly its
\* results on top, whatever else it pushed (returnSubroutine, #take and #drop).
ReturnsResults ==
  /\ Fetched({"retsub"}) /\ callStack # <<>> /\ CurrentFrame.proto # <<>>
  /\ CurrentFrame.ptr >= Args /\ Len(stack) >= CurrentFrame.ptr + Rets
ReturnKeepsCaller == [][ReturnsResults =>
  /\ Len(stack') = CurrentFrame.ptr - Args + Rets
  /\ \A i \in 0..(Len(stack') - 1) :
       FromBottom(stack', i) =
         FromBottom(stack, IF i < CurrentFrame.ptr - Args THEN i ELSE i + Args)]_vars

\* The opcodes that have no rule for some stack, although its size is right.
NoRule ==
  \/ Fetched({"proto", "frame_dig", "frame_bury"}) /\ callStack = <<>>
  \/ Fetched({"frame_bury", "assert", "dupn"}) /\ stack = <<>>
  \/ Fetched({"frame_dig"}) /\ (stacksize = MAX_STACK_DEPTH
                                \/ CurrentFrame.ptr + Instr.n \notin 0..(Len(stack) - 1))
  \/ Fetched({"assert", "select"}) /\ stack # <<>> /\ Top = bytes
  \/ Fetched({"select"}) /\ Len(stack) = 1

\* Of the overlapping rules for opcodes, panics and verdicts one applies to every
\* other program in every state: it does not end as stuck.
EveryStackHasRule ==
  Sized /\ k \in {"load", "run", "checkStack"} => NoRule \/ ENABLED Next
=============================================================================
