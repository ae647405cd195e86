-------------------------- MODULE TealStackProofs --------------------------
(***************************************************************************)
(* Proofs about TealStack, for every set of programs and every limit:      *)
(* types, frames that return behind their calls, what a subroutine         *)
(* returns, and that <stacksize> stays the size of the stack but for the   *)
(* returns and burials that Drifts names.                                  *)
(***************************************************************************)
EXTENDS TealStack, SequenceTheorems, TLAPS

(* What #take, #drop and the access from the bottom return.                *)

\* Take keeps the first n elements, or all.
LEMMA TakeProperties ==
  ASSUME NEW S, NEW s \in Seq(S), NEW n \in Int
  PROVE  /\ Take(n, s) \in Seq(S)
         /\ Len(Take(n, s)) = IF n <= 0 THEN 0 ELSE IF n < Len(s) THEN n ELSE Len(s)
         /\ \A i \in 1..Len(Take(n, s)) : Take(n, s)[i] = s[i]
<1> DEFINE m == IF n < Len(s) THEN n ELSE Len(s)
<1>1. m \in Int /\ m <= Len(s) /\ Len(s) \in Nat
  OBVIOUS
<1>2. \A i \in 1..m : s[i] \in S
  BY <1>1, ElementOfSeq
<1>3. /\ SubSeq(s, 1, m) \in Seq(S)
      /\ Len(SubSeq(s, 1, m)) = IF 1 <= m THEN m - 1 + 1 ELSE 0
      /\ \A i \in 1..(m - 1 + 1) : SubSeq(s, 1, m)[i] = s[1 + i - 1]
  BY <1>1, <1>2, SubSeqProperties
<1>4. Take(n, s) = SubSeq(s, 1, m)
  BY DEF Take
<1> HIDE DEF m
<1>5. m = IF n < Len(s) THEN n ELSE Len(s)
  BY DEF m
<1> QED BY <1>1, <1>3, <1>4, <1>5

\* Drop leaves what Take does not keep.
LEMMA DropProperties ==
  ASSUME NEW S, NEW s \in Seq(S), NEW n \in Int
  PROVE  /\ Drop(n, s) \in Seq(S)
         /\ Len(Drop(n, s)) = IF n <= 0 THEN Len(s) ELSE IF n < Len(s) THEN Len(s) - n ELSE 0
         /\ \A i \in 1..Len(Drop(n, s)) : Drop(n, s)[i] = s[i + (IF n > 0 THEN n ELSE 0)]
<1> DEFINE m == IF n > 0 THEN n + 1 ELSE 1
<1>1. m \in Int /\ m >= 1 /\ Len(s) \in Nat
  OBVIOUS
<1>2. \A i \in m..Len(s) : s[i] \in S
  BY <1>1, ElementOfSeq
<1>3. /\ SubSeq(s, m, Len(s)) \in Seq(S)
      /\ Len(SubSeq(s, m, Len(s))) = IF m <= Len(s) THEN Len(s) - m + 1 ELSE 0
      /\ \A i \in 1..(Len(s) - m + 1) : SubSeq(s, m, Len(s))[i] = s[m + i - 1]
  BY <1>1, <1>2, SubSeqProperties
<1>4. Drop(n, s) = SubSeq(s, m, Len(s))
  BY DEF Drop
<1> HIDE DEF m
<1>5. m = IF n > 0 THEN n + 1 ELSE 1
  BY DEF m
<1> QED BY <1>1, <1>3, <1>4, <1>5

\* A stack put together of parts has their elements and their length.
LEMMA ConcatType ==
  ASSUME NEW S, NEW s \in Seq(S), NEW t \in Seq(S)
  PROVE  s \o t \in Seq(S) /\ Len(s \o t) = Len(s) + Len(t)
BY ConcatProperties

\* One value on top of a stack.
LEMMA PushType ==
  ASSUME NEW S, NEW v \in S, NEW s \in Seq(S)
  PROVE  <<v>> \o s \in Seq(S) /\ Len(<<v>> \o s) = Len(s) + 1
<1>1. <<v>> \in Seq(S) /\ Len(<<v>>) = 1
  OBVIOUS
<1> QED BY <1>1, ConcatType

\* An element other than the first may be set or left out.
LEMMA TailType ==
  ASSUME NEW S, NEW s \in Seq(S), s # <<>>
  PROVE  s[1] \in S /\ Tail(s) \in Seq(S) /\ Len(Tail(s)) = Len(s) - 1 /\ Len(s) >= 1
BY HeadTailProperties, EmptySeq, ElementOfSeq, LenProperties

\* A value put between the two parts of a stack.
LEMMA InsertType ==
  ASSUME NEW S, NEW s \in Seq(S), NEW v \in S, NEW i \in Int, NEW j \in Int
  PROVE  /\ Take(i, s) \o <<v>> \o Drop(j, s) \in Seq(S)
         /\ Len(Take(i, s) \o <<v>> \o Drop(j, s)) = Len(Take(i, s)) + 1 + Len(Drop(j, s))
<1>1. Take(i, s) \in Seq(S) /\ Drop(j, s) \in Seq(S) /\ <<v>> \in Seq(S) /\ Len(<<v>>) = 1
  BY TakeProperties, DropProperties
<1>2. Take(i, s) \o <<v>> \in Seq(S) /\ Len(Take(i, s) \o <<v>>) = Len(Take(i, s)) + 1
  BY <1>1, ConcatType
<1> QED BY <1>1, <1>2, ConcatType

-----------------------------------------------------------------------------
(* One step: types are kept, and so is the agreement of stack and size.    *)
Kept == TypeOK' /\ (Sized /\ ~Drifts => Sized')

\* A program holds instructions, and the address of a label lies within it.
LEMMA ProgramType ==
  ASSUME TypeOK
  PROVE  /\ Len(program) \in Nat /\ pc \in Int /\ Len(stack) \in Nat /\ stacksize \in Int
         /\ pc < Len(program) => /\ Instr \in Instruction /\ Instr.op \in OpCodes /\ Instr.n \in Int
                                 /\ pc + 1 \in 1..Len(program)
         /\ \A l \in Labels : Address(l) \in 0..Len(program)
<1>1. Len(program) \in Nat /\ Len(stack) \in Nat /\ pc \in Int /\ stacksize \in Int
  BY LenProperties DEF TypeOK
<1>2. ASSUME pc < Len(program)
      PROVE  Instr \in Instruction /\ pc + 1 \in 1..Len(program)
  BY <1>1, <1>2, ElementOfSeq DEF TypeOK, Instr
<1>3. \A x \in Instruction : x.op \in OpCodes /\ x.n \in Int
  BY LimitAssumption DEF Instruction, OpCodes, FrameOps
<1>4. ASSUME NEW l \in Labels PROVE Address(l) \in 0..Len(program)
  <2>1. PICK i \in 1..Len(program) : program[i].op = "label" /\ program[i].n = l
    BY DEF Labels
  <2>2. i - 1 \in 0..(Len(program) - 1) /\ program[(i - 1) + 1].op = "label"
        /\ program[(i - 1) + 1].n = l
    BY <1>1, <2>1
  <2>3. Address(l) \in 0..(Len(program) - 1)
    BY <2>2 DEF Address
  <2> QED BY <1>1, <2>3
<1> QED BY <1>1, <1>2, <1>3, <1>4

\* An opcode that changes <stacksize> by as much as the stack keeps both.
LEMMA BecomesKeeps ==
  ASSUME TypeOK, k = "run", pc < Len(program),
         NEW s \in Seq(Value), NEW d \in Int, Becomes(s, d),
         Sized /\ ~Drifts => Len(s) = Len(stack) + d /\ Len(s) <= MAX_STACK_DEPTH
  PROVE  Kept
<1>1. pc + 1 \in 0..Len(program)
  BY ProgramType
<1>2. TypeOK'
  BY <1>1, ProgramType DEF TypeOK, Becomes, GoTo
<1>3. ASSUME Sized, ~Drifts PROVE Sized'
  BY <1>3, ProgramType DEF Sized, StackSizeIsSize, Becomes, GoTo
<1> QED BY <1>2, <1>3 DEF Kept

\* A panic changes neither stack nor size.
LEMMA PanicKeeps ==
  ASSUME TypeOK, NEW code \in ReturnCodes, Panic(code)
  PROVE  Kept
BY DEF Panic, Kept, TypeOK, Sized, StackSizeIsSize

\* A jump goes to a label of the program, or panics.
LEMMA JumpKeeps ==
  ASSUME TypeOK, k = "run", pc < Len(program),
         NEW l, NEW s \in Seq(Value), NEW d \in Int, Jump(l, s, d),
         Sized /\ ~Drifts => Len(s) = Len(stack) + d /\ Len(s) <= MAX_STACK_DEPTH
  PROVE  Kept
<1>1. CASE l \notin Labels
  BY <1>1, PanicKeeps DEF Jump, ReturnCodes
<1>2. CASE l \in Labels
  <2>1. GoTo(Address(l), s, d) /\ UNCHANGED <<callStack, scratch>>
    BY <1>2 DEF Jump
  <2>2. Address(l) \in 0..Len(program)
    BY <1>2, ProgramType
  <2>3. TypeOK'
    BY <2>1, <2>2, ProgramType DEF TypeOK, GoTo
  <2>4. ASSUME Sized, ~Drifts PROVE Sized'
    BY <2>1, <2>4, ProgramType DEF Sized, StackSizeIsSize, GoTo
  <2> QED BY <2>3, <2>4 DEF Kept
<1> QED BY <1>1, <1>2

\* The stack of a running program, its top and what is below.
LEMMA StackParts ==
  ASSUME TypeOK, stack # <<>>
  PROVE  /\ Top \in Value /\ Tail(stack) \in Seq(Value)
         /\ Len(Tail(stack)) = Len(stack) - 1 /\ Len(stack) >= 1
         /\ Top # bytes => Top \in 0..MAX_UINT64
BY TailType DEF TypeOK, Top, Value

-----------------------------------------------------------------------------
(* Loading, the end of a program, and its verdict.                         *)
LEMMA LoadInputPgmKeeps == TypeOK /\ LoadInputPgm => Kept
<1> SUFFICES ASSUME TypeOK, LoadInputPgm PROVE Kept
  OBVIOUS
<1>1. CASE Panic("DUPLICATE_LABEL")
  BY <1>1, PanicKeeps DEF ReturnCodes
<1>2. CASE k' = "run" /\ UNCHANGED <<program, pc, stack, stacksize, callStack, scratch, returncode>>
  BY <1>2 DEF Kept, TypeOK, Sized, StackSizeIsSize
<1> QED BY <1>1, <1>2 DEF LoadInputPgm

LEMMA EndKeeps ==
  TypeOK /\ (FallOffEnd \/ Return \/ Accept \/ ZeroStack \/ BadStack) => Kept
<1> SUFFICES ASSUME TypeOK, FallOffEnd \/ Return \/ Accept \/ ZeroStack \/ BadStack PROVE Kept
  OBVIOUS
<1>1. CASE FallOffEnd
  BY <1>1 DEF FallOffEnd, Finish, Kept, TypeOK, Sized, StackSizeIsSize
<1>2. CASE Return
  <2>1. Finish(<<Top>>, 1) /\ stack # <<>>
    BY <1>2 DEF Return
  <2>2. <<Top>> \in Seq(Value) /\ Len(<<Top>>) = 1
    BY <2>1, StackParts
  <2>3. TypeOK'
    BY <2>1, <2>2 DEF Finish, TypeOK
  <2>4. ASSUME Sized PROVE Sized'
    BY <2>1, <2>2, <2>4, StackParts, ProgramType, LimitAssumption
    DEF Finish, Sized, StackSizeIsSize
  <2> QED BY <2>3, <2>4 DEF Kept
<1>3. CASE Accept
  BY <1>3 DEF Accept, Kept, TypeOK, Sized, StackSizeIsSize
<1>4. CASE ZeroStack \/ BadStack
  BY <1>4, PanicKeeps DEF ZeroStack, BadStack, ReturnCodes
<1> QED BY <1>1, <1>2, <1>3, <1>4

\* The panics raised for a stack or an argument an opcode cannot work on.
LEMMA PanicsKeep ==
  TypeOK /\ (InvalidScratchLoc \/ StackOverflow \/ StackUnderflow \/ IllTypedStack) => Kept
<1> SUFFICES ASSUME TypeOK, InvalidScratchLoc \/ StackOverflow \/ StackUnderflow \/ IllTypedStack
             PROVE  Kept
  OBVIOUS
<1>1. \E code \in ReturnCodes : Panic(code)
  BY DEF InvalidScratchLoc, StackOverflow, StackUnderflow, IllTypedStack, ReturnCodes
<1> QED BY <1>1, PanicKeeps

-----------------------------------------------------------------------------
(* Constants, arithmetic and scratch space.                                *)
LEMMA PushConstantKeeps == TypeOK /\ PushConstant => Kept
<1> SUFFICES ASSUME TypeOK, PushConstant PROVE Kept
  OBVIOUS
<1> DEFINE v == IF Instr.op = "int" THEN Instr.n ELSE bytes
<1>1. k = "run" /\ pc < Len(program) /\ Instr.op \in {"int", "byte"} /\ stacksize < MAX_STACK_DEPTH
      /\ Becomes(<<v>> \o stack, 1)
  BY DEF PushConstant, Fetched
<1>2. v \in Value
  BY <1>1, ProgramType DEF Value, Instruction
<1> DEFINE s == <<v>> \o stack
<1> HIDE DEF v
<1>3. s \in Seq(Value) /\ Len(s) = Len(stack) + 1
  BY <1>2, PushType DEF TypeOK
<1>4. Sized => Len(s) <= MAX_STACK_DEPTH
  BY <1>1, <1>3, ProgramType, LimitAssumption DEF Sized, StackSizeIsSize
<1>5. Becomes(s, 1)
  BY <1>1
<1> HIDE DEF s
<1> QED BY <1>1, <1>3, <1>4, <1>5, BecomesKeeps

LEMMA AddKeeps == TypeOK /\ Add => Kept
<1> SUFFICES ASSUME TypeOK, Add PROVE Kept
  OBVIOUS
<1>1. k = "run" /\ pc < Len(program) /\ Len(stack) >= 2 /\ stack[1] # bytes /\ stack[2] # bytes
  BY DEF Add, Fetched
<1>2. stack[1] \in 0..MAX_UINT64 /\ stack[2] \in 0..MAX_UINT64
  <2>1. stack[1] \in Value /\ stack[2] \in Value
    BY <1>1, ElementOfSeq, LenProperties DEF TypeOK
  <2> QED BY <1>1, <2>1 DEF Value
<1>3. CASE Panic("INT_OVERFLOW")
  BY <1>3, PanicKeeps DEF ReturnCodes
<1>4. CASE /\ stack[1] + stack[2] <= MAX_UINT64
           /\ Becomes(<<stack[1] + stack[2]>> \o Drop(2, stack), -1)
  <2>1. stack[1] + stack[2] \in Value
    BY <1>2, <1>4, LimitAssumption DEF Value
  <2>2. Drop(2, stack) \in Seq(Value) /\ Len(Drop(2, stack)) = Len(stack) - 2
    <3>1. stack \in Seq(Value) /\ 2 \in Int /\ Len(stack) \in Nat
      BY ProgramType DEF TypeOK
    <3>2. /\ Drop(2, stack) \in Seq(Value)
          /\ Len(Drop(2, stack)) = IF 2 <= 0 THEN Len(stack)
                                   ELSE IF 2 < Len(stack) THEN Len(stack) - 2 ELSE 0
      BY <3>1, DropProperties
    <3> QED BY <1>1, <3>1, <3>2
  <2>3. /\ <<stack[1] + stack[2]>> \o Drop(2, stack) \in Seq(Value)
        /\ Len(<<stack[1] + stack[2]>> \o Drop(2, stack)) = Len(stack) - 1
    BY <2>1, <2>2, PushType, ProgramType
  <2>4. Sized => Len(stack) - 1 <= MAX_STACK_DEPTH
    BY ProgramType, LimitAssumption DEF Sized, StackSizeIsSize
  <2> HIDE DEF Becomes
  <2>5. -1 \in Int /\ Len(stack) + -1 = Len(stack) - 1
    BY ProgramType
  <2> QED BY <1>1, <1>4, <2>3, <2>4, <2>5, BecomesKeeps
<1> QED BY <1>3, <1>4 DEF Add

\* An opcode that shrinks the stack, or looks at the limit, keeps within it.
LEMMA OpKeeps ==
  ASSUME TypeOK, k = "run", pc < Len(program),
         NEW s \in Seq(Value), NEW d \in Int, Becomes(s, d),
         d <= 0 \/ stacksize + d <= MAX_STACK_DEPTH,
         Sized /\ ~Drifts => Len(s) = Len(stack) + d
  PROVE  Kept
<1>1. Sized /\ ~Drifts => Len(s) = Len(stack) + d /\ Len(s) <= MAX_STACK_DEPTH
  BY ProgramType, LimitAssumption DEF Sized, StackSizeIsSize
<1> QED BY <1>1, BecomesKeeps

\* A scratch space with a place stored to.
LEMMA StoredType ==
  ASSUME NEW f, DOMAIN f \subseteq 0..(MAX_SCRATCH_SIZE - 1), f \in [DOMAIN f -> Value],
         NEW n \in Nat, n < MAX_SCRATCH_SIZE, NEW v \in Value
  PROVE  /\ DOMAIN Stored(f, n, v) \subseteq 0..(MAX_SCRATCH_SIZE - 1)
         /\ Stored(f, n, v) \in [DOMAIN Stored(f, n, v) -> Value]
         /\ Stored(f, n, v)[n] = v
<1>1. n \in 0..(MAX_SCRATCH_SIZE - 1)
  BY LimitAssumption
<1>2. DOMAIN Stored(f, n, v) = DOMAIN f \cup {n}
  BY DEF Stored
<1>3. \A i \in DOMAIN Stored(f, n, v) : Stored(f, n, v)[i] \in Value
  BY DEF Stored
<1> QED BY <1>1, <1>2, <1>3 DEF Stored

LEMMA LoadKeeps == TypeOK /\ Load => Kept
<1> SUFFICES ASSUME TypeOK, Load PROVE Kept
  OBVIOUS
<1>1. k = "run" /\ pc < Len(program) /\ Instr.op = "load" /\ Instr.n < MAX_SCRATCH_SIZE
      /\ stacksize < MAX_STACK_DEPTH
  BY DEF Load, Fetched
<1>2. Instr.n \in Nat
  BY <1>1, ProgramType DEF Instruction
<1>3. /\ DOMAIN scratch' \subseteq 0..(MAX_SCRATCH_SIZE - 1)
      /\ scratch' \in [DOMAIN scratch' -> Value] /\ scratch'[Instr.n] \in Value
  <2>1. CASE Instr.n \in DOMAIN scratch
    BY <2>1 DEF Load, TypeOK
  <2>2. CASE Instr.n \notin DOMAIN scratch
    <3>1. scratch' = Stored(scratch, Instr.n, 0)
      BY <2>2 DEF Load
    <3>2. 0 \in Value
      BY LimitAssumption DEF Value
    <3>3. DOMAIN scratch \subseteq 0..(MAX_SCRATCH_SIZE - 1) /\ scratch \in [DOMAIN scratch -> Value]
      BY DEF TypeOK
    <3> QED BY <1>1, <1>2, <3>1, <3>2, <3>3, StoredType
  <2> QED BY <2>1, <2>2
<1> DEFINE s == <<scratch'[Instr.n]>> \o stack
<1>4. s \in Seq(Value) /\ Len(s) = Len(stack) + 1
  BY <1>3, PushType DEF TypeOK
<1>5. GoTo(pc + 1, s, 1) /\ UNCHANGED callStack
  BY DEF Load
<1> HIDE DEF s
<1>6. pc + 1 \in 0..Len(program)
  BY <1>1, ProgramType
<1>7. TypeOK'
  BY <1>3, <1>4, <1>5, <1>6, ProgramType DEF TypeOK, GoTo
<1>8. Sized => Sized'
  BY <1>1, <1>4, <1>5, ProgramType, LimitAssumption DEF Sized, StackSizeIsSize, GoTo
<1> QED BY <1>7, <1>8 DEF Kept

LEMMA StoreKeeps == TypeOK /\ Store => Kept
<1> SUFFICES ASSUME TypeOK, Store PROVE Kept
  OBVIOUS
<1>1. k = "run" /\ pc < Len(program) /\ Instr.op = "store" /\ Instr.n < MAX_SCRATCH_SIZE
      /\ stack # <<>> /\ GoTo(pc + 1, Tail(stack), -1) /\ UNCHANGED callStack
  BY DEF Store, Fetched
<1>2. Instr.n \in Nat
  BY <1>1, ProgramType DEF Instruction
<1>3. DOMAIN scratch' \subseteq 0..(MAX_SCRATCH_SIZE - 1) /\ scratch' \in [DOMAIN scratch' -> Value]
  <2>1. scratch' = Stored(scratch, Instr.n, Top)
    BY DEF Store
  <2>2. DOMAIN scratch \subseteq 0..(MAX_SCRATCH_SIZE - 1) /\ scratch \in [DOMAIN scratch -> Value]
    BY DEF TypeOK
  <2> QED BY <1>1, <1>2, <2>1, <2>2, StackParts, StoredType
<1>4. pc + 1 \in 0..Len(program)
  BY <1>1, ProgramType
<1>5. TypeOK'
  BY <1>1, <1>3, <1>4, StackParts, ProgramType DEF TypeOK, GoTo
<1>6. Sized => Sized'
  BY <1>1, StackParts, ProgramType, LimitAssumption DEF Sized, StackSizeIsSize, GoTo
<1> QED BY <1>5, <1>6 DEF Kept

-----------------------------------------------------------------------------
(* Branches.                                                               *)
LEMMA BranchesKeep == TypeOK /\ (SkipLabel \/ Branch \/ Assert) => Kept
<1> SUFFICES ASSUME TypeOK, SkipLabel \/ Branch \/ Assert PROVE Kept
  OBVIOUS
<1>1. k = "run" /\ pc < Len(program) /\ stack \in Seq(Value) /\ Len(stack) = Len(stack) + 0
      /\ -1 \in Int /\ 0 \in Int /\ (Sized => Len(stack) <= MAX_STACK_DEPTH)
  BY ProgramType DEF SkipLabel, Branch, Assert, Fetched, TypeOK, Sized, StackSizeIsSize
<1>2. stack # <<>> => /\ Tail(stack) \in Seq(Value) /\ Len(Tail(stack)) = Len(stack) + -1
                      /\ Sized => Len(Tail(stack)) <= MAX_STACK_DEPTH
  BY <1>1, StackParts, ProgramType, LimitAssumption DEF Sized, StackSizeIsSize
<1>3. CASE SkipLabel
  <2>1. Becomes(stack, 0)
    BY <1>3 DEF SkipLabel
  <2> QED BY <1>1, <2>1, BecomesKeeps
<1>4. CASE Fetched({"b"}) /\ Jump(Instr.n, stack, 0)
  BY <1>1, <1>4, JumpKeeps
<1>5. CASE stack # <<>> /\ Becomes(Tail(stack), -1)
  BY <1>1, <1>2, <1>5, BecomesKeeps
<1>6. CASE stack # <<>> /\ Jump(Instr.n, Tail(stack), -1)
  BY <1>1, <1>2, <1>6, JumpKeeps
<1>7. CASE Panic("ASSERTION_VIOLATION")
  BY <1>7, PanicKeeps DEF ReturnCodes
<1>8. ~(stack # <<>> /\ Top # bytes /\ Top < 0)
  BY StackParts, LimitAssumption
<1> QED BY <1>3, <1>4, <1>5, <1>6, <1>7, <1>8 DEF Branch, Assert

-----------------------------------------------------------------------------
(* Stack manipulation: each opcode changes stack and size by the same.     *)

\* What holds when one of these opcodes is fetched.
LEMMA Running ==
  ASSUME TypeOK, NEW ops, Fetched(ops)
  PROVE  /\ k = "run" /\ pc < Len(program) /\ stack \in Seq(Value)
         /\ Instr \in Instruction /\ Instr.op \in ops /\ Instr.op \in OpCodes /\ Instr.n \in Int
         /\ Instr.op \notin {"frame_dig", "frame_bury"} => Instr.n \in Nat
         /\ Sized => stacksize = Len(stack)
<1>1. k = "run" /\ pc < Len(program) /\ stack \in Seq(Value) /\ Instr.op \in ops
  BY DEF Fetched, TypeOK
<1>2. \A x \in Instruction : x.op \notin {"frame_dig", "frame_bury"} => x.n \in Nat
  BY LimitAssumption DEF Instruction
<1> QED BY <1>1, <1>2, ProgramType DEF Sized, StackSizeIsSize

\* Elements of a stack by their position.
LEMMA ElementType ==
  ASSUME TypeOK
  PROVE  \A i \in 1..Len(stack) : stack[i] \in Value
BY ElementOfSeq DEF TypeOK

LEMMA PopDupKeep == TypeOK /\ (Pop \/ Dup \/ Dup2 \/ Swap \/ Select) => Kept
<1> SUFFICES ASSUME TypeOK, Pop \/ Dup \/ Dup2 \/ Swap \/ Select PROVE Kept
  OBVIOUS
<1>1. Len(stack) \in Nat /\ stacksize \in Int /\ stack \in Seq(Value)
      /\ \A i \in 1..Len(stack) : stack[i] \in Value
  BY ProgramType, ElementType DEF TypeOK
<1>2. CASE Pop
  <2>1. Becomes(Tail(stack), -1) /\ stack # <<>> /\ k = "run" /\ pc < Len(program)
    BY <1>2, Running DEF Pop
  <2> DEFINE s == Tail(stack)
  <2>2. Becomes(s, -1) /\ s \in Seq(Value) /\ Len(s) = Len(stack) + -1 /\ -1 \in Int
    BY <1>1, <2>1, StackParts
  <2> HIDE DEF s
  <2> QED BY <2>1, <2>2, OpKeeps
<1>3. CASE Dup
  <2>1. Becomes(<<Top>> \o stack, 1) /\ stack # <<>> /\ stacksize + 1 <= MAX_STACK_DEPTH
        /\ k = "run" /\ pc < Len(program)
    BY <1>3, <1>1, Running, LimitAssumption DEF Dup
  <2>2. <<Top>> \o stack \in Seq(Value) /\ Len(<<Top>> \o stack) = Len(stack) + 1
    BY <2>1, StackParts, <1>1, PushType
  <2> DEFINE s == <<Top>> \o stack
  <2>6. Becomes(s, 1) /\ s \in Seq(Value) /\ Len(s) = Len(stack) + 1
    BY <2>1, <2>2
  <2> HIDE DEF s
  <2> QED BY <2>1, <2>6, OpKeeps
<1>4. CASE Dup2
  <2>1. Becomes(<<stack[1], stack[2]>> \o stack, 2) /\ Len(stack) >= 2
        /\ stacksize + 2 <= MAX_STACK_DEPTH /\ k = "run" /\ pc < Len(program)
    BY <1>4, <1>1, Running, LimitAssumption DEF Dup2
  <2>2. <<stack[1], stack[2]>> \in Seq(Value) /\ Len(<<stack[1], stack[2]>>) = 2
    BY <2>1, <1>1
  <2>3. /\ <<stack[1], stack[2]>> \o stack \in Seq(Value)
        /\ Len(<<stack[1], stack[2]>> \o stack) = Len(stack) + 2
    BY <2>2, <1>1, ConcatType
  <2> DEFINE s == <<stack[1], stack[2]>> \o stack
  <2>6. Becomes(s, 2) /\ s \in Seq(Value) /\ Len(s) = Len(stack) + 2
    BY <2>1, <2>3
  <2> HIDE DEF s
  <2> QED BY <2>1, <2>6, OpKeeps
<1>5. CASE Swap
  <2>1. Becomes(<<stack[2], stack[1]>> \o Drop(2, stack), 0) /\ Len(stack) >= 2
        /\ k = "run" /\ pc < Len(program)
    BY <1>5, Running DEF Swap
  <2>2. <<stack[2], stack[1]>> \in Seq(Value) /\ Len(<<stack[2], stack[1]>>) = 2
    BY <2>1, <1>1
  <2>3. Drop(2, stack) \in Seq(Value) /\ Len(Drop(2, stack)) = Len(stack) - 2
    <3>1. /\ Drop(2, stack) \in Seq(Value)
          /\ Len(Drop(2, stack)) = IF 2 <= 0 THEN Len(stack)
                                   ELSE IF 2 < Len(stack) THEN Len(stack) - 2 ELSE 0
      BY <1>1, DropProperties
    <3> QED BY <2>1, <1>1, <3>1
  <2>4. /\ <<stack[2], stack[1]>> \o Drop(2, stack) \in Seq(Value)
        /\ Len(<<stack[2], stack[1]>> \o Drop(2, stack)) = Len(stack) + 0
    BY <1>1, <2>2, <2>3, ConcatType
  <2> DEFINE s == <<stack[2], stack[1]>> \o Drop(2, stack)
  <2>6. Becomes(s, 0) /\ s \in Seq(Value) /\ Len(s) = Len(stack) + 0
    BY <2>1, <2>4
  <2> HIDE DEF s
  <2> QED BY <2>1, <2>6, OpKeeps
<1>6. CASE Select
  <2> DEFINE v == IF Top # 0 THEN stack[2] ELSE stack[3]
  <2>1. Becomes(<<v>> \o Drop(3, stack), -2) /\ Len(stack) >= 3 /\ k = "run" /\ pc < Len(program)
    BY <1>6, Running DEF Select
  <2>2. v \in Value
    BY <2>1, <1>1
  <2> HIDE DEF v
  <2>3. Drop(3, stack) \in Seq(Value) /\ Len(Drop(3, stack)) = Len(stack) - 3
    <3>1. /\ Drop(3, stack) \in Seq(Value)
          /\ Len(Drop(3, stack)) = IF 3 <= 0 THEN Len(stack)
                                   ELSE IF 3 < Len(stack) THEN Len(stack) - 3 ELSE 0
      BY <1>1, DropProperties
    <3> QED BY <2>1, <1>1, <3>1
  <2>4. /\ <<v>> \o Drop(3, stack) \in Seq(Value)
        /\ Len(<<v>> \o Drop(3, stack)) = Len(stack) + -2
    BY <1>1, <2>2, <2>3, PushType
  <2>5. -2 \in Int /\ -2 <= 0
    OBVIOUS
  <2> DEFINE s == <<v>> \o Drop(3, stack)
  <2>6. Becomes(s, -2) /\ s \in Seq(Value) /\ Len(s) = Len(stack) + -2
    BY <2>1, <2>4, <2>5
  <2> HIDE DEF s
  <2> QED BY <2>1, <2>5, <2>6, OpKeeps
<1> QED BY <1>2, <1>3, <1>4, <1>5, <1>6

\* Copies of one value.
LEMMA CopiesType ==
  ASSUME NEW S, NEW v \in S, NEW n \in Nat
  PROVE  [i \in 1..n |-> v] \in Seq(S) /\ Len([i \in 1..n |-> v]) = n
<1>1. [i \in 1..n |-> v] \in [1..n -> S]
  OBVIOUS
<1>2. [i \in 1..n |-> v] \in Seq(S)
  BY <1>1, SeqDef
<1>3. DOMAIN [i \in 1..n |-> v] = 1..Len([i \in 1..n |-> v])
      /\ Len([i \in 1..n |-> v]) \in Nat
  BY <1>2, LenProperties
<1> QED BY <1>2, <1>3

LEMMA DupNKeeps == TypeOK /\ DupN => Kept
<1> SUFFICES ASSUME TypeOK, DupN PROVE Kept
  OBVIOUS
<1>1. k = "run" /\ pc < Len(program) /\ stack \in Seq(Value) /\ Instr.n \in Nat
      /\ Len(stack) = Len(stack) + 0
  BY Running, ProgramType DEF DupN
<1>2. CASE Instr.n = 0 /\ Becomes(stack, 0)
  BY <1>1, <1>2, OpKeeps
<1>3. CASE /\ Instr.n > 0 /\ stack # <<>> /\ stacksize + Instr.n <= MAX_STACK_DEPTH
           /\ Becomes([i \in 1..Instr.n |-> Top] \o stack, Instr.n)
  <2>1. [i \in 1..Instr.n |-> Top] \in Seq(Value) /\ Len([i \in 1..Instr.n |-> Top]) = Instr.n
    BY <1>1, <1>3, StackParts, CopiesType
  <2> DEFINE s == [i \in 1..Instr.n |-> Top] \o stack
  <2>2. s \in Seq(Value) /\ Len(s) = Len(stack) + Instr.n
    BY <1>1, <2>1, ConcatType, ProgramType
  <2>3. Becomes(s, Instr.n)
    BY <1>3
  <2> HIDE DEF s
  <2> QED BY <1>1, <1>3, <2>2, <2>3, OpKeeps
<1> QED BY <1>2, <1>3 DEF DupN

LEMMA DigCoverKeep == TypeOK /\ (Dig \/ Cover \/ Uncover \/ Bury \/ PopN) => Kept
<1> SUFFICES ASSUME TypeOK, Dig \/ Cover \/ Uncover \/ Bury \/ PopN PROVE Kept
  OBVIOUS
<1> DEFINE n == Instr.n
<1>1. /\ k = "run" /\ pc < Len(program) /\ stack \in Seq(Value) /\ n \in Nat /\ n \in Int
      /\ Sized => stacksize = Len(stack)
  BY Running DEF Dig, Cover, Uncover, Bury, PopN
<1>2. Len(stack) \in Nat /\ stacksize \in Int /\ \A i \in 1..Len(stack) : stack[i] \in Value
  BY ProgramType, ElementType
<1> DEFINE t == Tail(stack)
<1>3. stack # <<>> => t \in Seq(Value) /\ Len(t) = Len(stack) - 1 /\ Len(stack) >= 1 /\ Top \in Value
  BY StackParts
<1> HIDE DEF n, t
<1>4. CASE Dig
  <2> DEFINE s == <<stack[n + 1]>> \o stack
  <2>1. Becomes(s, 1) /\ stacksize + 1 <= MAX_STACK_DEPTH /\ n < Len(stack)
    BY <1>4, <1>2, LimitAssumption DEF Dig, n
  <2>2. stack[n + 1] \in Value
    BY <1>1, <1>2, <2>1
  <2>3. s \in Seq(Value) /\ Len(s) = Len(stack) + 1
    BY <1>1, <2>2, PushType
  <2> HIDE DEF s
  <2> QED BY <1>1, <2>1, <2>3, OpKeeps
<1>5. CASE Cover
  <2> DEFINE s == Take(n, t) \o <<Top>> \o Drop(n, t)
  <2>1. Becomes(s, 0) /\ stack # <<>> /\ n < stacksize
    BY <1>5 DEF Cover, InRange, n, t
  <2>2. s \in Seq(Value) /\ Len(s) = Len(Take(n, t)) + 1 + Len(Drop(n, t))
    BY <1>1, <1>3, <2>1, InsertType
  <2>3. Len(Take(n, t)) + Len(Drop(n, t)) = Len(t)
    <3>1. t \in Seq(Value) /\ Len(t) \in Nat
      BY <1>2, <1>3, <2>1
    <3>2. Len(Take(n, t)) = IF n <= 0 THEN 0 ELSE IF n < Len(t) THEN n ELSE Len(t)
      BY <1>1, <3>1, TakeProperties
    <3>3. Len(Drop(n, t)) = IF n <= 0 THEN Len(t) ELSE IF n < Len(t) THEN Len(t) - n ELSE 0
      BY <1>1, <3>1, DropProperties
    <3> QED BY <1>1, <3>1, <3>2, <3>3
  <2> HIDE DEF s
  <2>4. Len(s) = Len(stack) + 0
    BY <1>2, <1>3, <2>1, <2>2, <2>3, TakeProperties, DropProperties, LenProperties, <1>1
  <2> QED BY <1>1, <2>1, <2>2, <2>4, OpKeeps
<1>6. CASE Uncover
  <2> DEFINE u == <<stack[n + 1]>> \o Take(n, stack)
             s == u \o Drop(n + 1, stack)
  <2>1. Becomes(s, 0) /\ n < Len(stack)
    BY <1>6 DEF Uncover, n
  <2>2. stack[n + 1] \in Value
    BY <1>1, <1>2, <2>1
  <2>3. Take(n, stack) \in Seq(Value) /\ Len(Take(n, stack)) = n
    <3>1. /\ Take(n, stack) \in Seq(Value)
          /\ Len(Take(n, stack)) = IF n <= 0 THEN 0 ELSE IF n < Len(stack) THEN n ELSE Len(stack)
      BY <1>1, TakeProperties
    <3> QED BY <1>1, <1>2, <2>1, <3>1
  <2>4. Drop(n + 1, stack) \in Seq(Value) /\ Len(Drop(n + 1, stack)) = Len(stack) - (n + 1)
    <3>1. n + 1 \in Int
      BY <1>1
    <3>2. /\ Drop(n + 1, stack) \in Seq(Value)
          /\ Len(Drop(n + 1, stack)) = IF n + 1 <= 0 THEN Len(stack)
                                       ELSE IF n + 1 < Len(stack) THEN Len(stack) - (n + 1) ELSE 0
      BY <1>1, <3>1, DropProperties
    <3> QED BY <1>1, <1>2, <2>1, <3>2
  <2>5. u \in Seq(Value) /\ Len(u) = n + 1
    BY <2>2, <2>3, PushType
  <2> HIDE DEF u
  <2>6. s \in Seq(Value) /\ Len(s) = Len(stack) + 0
    BY <1>1, <1>2, <2>4, <2>5, ConcatType
  <2> HIDE DEF s
  <2> QED BY <1>1, <2>1, <2>6, OpKeeps
<1>7. CASE Bury
  <2> DEFINE s == Take(n - 1, t) \o <<Top>> \o Drop(n, t)
  <2>1. Becomes(s, -1) /\ stack # <<>> /\ 0 < n /\ n < stacksize
    BY <1>7 DEF Bury, InRange, n, t
  <2>2. n - 1 \in Int /\ -1 \in Int
    BY <1>1
  <2>3. s \in Seq(Value) /\ Len(s) = Len(Take(n - 1, t)) + 1 + Len(Drop(n, t))
    BY <1>1, <1>3, <2>1, <2>2, InsertType
  <2>4. /\ Len(Take(n - 1, t)) = IF n - 1 <= 0 THEN 0 ELSE IF n - 1 < Len(t) THEN n - 1 ELSE Len(t)
        /\ Len(Drop(n, t)) = IF n <= 0 THEN Len(t) ELSE IF n < Len(t) THEN Len(t) - n ELSE 0
    BY <1>1, <1>3, <2>1, <2>2, TakeProperties, DropProperties
  <2> HIDE DEF s
  <2>5. ASSUME Sized PROVE Len(s) = Len(stack) + -1
    <3>1. Len(t) \in Int /\ Len(t) = Len(stack) - 1 /\ 1 <= n /\ n <= Len(t)
      BY <1>1, <1>2, <1>3, <2>1, <2>5
    <3>2. Len(Take(n - 1, t)) = n - 1
      BY <1>1, <3>1, <2>4
    <3>3. Len(Drop(n, t)) = Len(t) - n
      BY <1>1, <3>1, <2>4
    <3> QED BY SMTT(30), <1>1, <1>2, <2>3, <3>1, <3>2, <3>3
  <2> QED BY <1>1, <2>1, <2>2, <2>3, <2>5, OpKeeps
<1>8. CASE PopN
  <2> DEFINE s == Drop(n, stack)
  <2>1. Becomes(s, -n) /\ n <= stacksize
    BY <1>8 DEF PopN, n
  <2>2. /\ s \in Seq(Value)
        /\ Len(s) = IF n <= 0 THEN Len(stack) ELSE IF n < Len(stack) THEN Len(stack) - n ELSE 0
    BY <1>1, DropProperties
  <2> HIDE DEF s
  <2>3. -n \in Int /\ -n <= 0
    BY <1>1
  <2>4. Sized => Len(s) = Len(stack) + -n
    BY <1>1, <1>2, <2>1, <2>2
  <2> QED BY <1>1, <2>1, <2>2, <2>3, <2>4, OpKeeps
<1> QED BY <1>4, <1>5, <1>6, <1>7, <1>8

-----------------------------------------------------------------------------
(* Subroutines and their frames.                                           *)

\* The frame of the running subroutine.
LEMMA FrameType ==
  ASSUME TypeOK, callStack # <<>>
  PROVE  /\ CurrentFrame \in Frame /\ Len(callStack) >= 1 /\ Len(callStack) \in Nat
         /\ CurrentFrame.ptr \in Nat
         /\ CurrentFrame.proto # <<>> => Args \in Nat /\ Rets \in Nat
<1>1. CurrentFrame \in Frame /\ Len(callStack) >= 1
  BY TailType DEF TypeOK, CurrentFrame
<1>2. Len(callStack) \in Nat
  BY LenProperties DEF TypeOK
<1>3. CurrentFrame.ptr \in Nat /\ CurrentFrame.proto \in {<<>>} \cup (Nat \X Nat)
  BY <1>1 DEF Frame
<1>4. CurrentFrame.proto # <<>> => Args \in Nat /\ Rets \in Nat
  BY <1>3 DEF Args, Rets
<1> QED BY <1>1, <1>2, <1>3, <1>4

LEMMA FrameDigKeeps == TypeOK /\ FrameDig => Kept
<1> SUFFICES ASSUME TypeOK, FrameDig PROVE Kept
  OBVIOUS
<1> DEFINE j == CurrentFrame.ptr + Instr.n
           s == <<FromBottom(stack, j)>> \o stack
<1>1. /\ k = "run" /\ pc < Len(program) /\ stacksize < MAX_STACK_DEPTH
      /\ j \in 0..(Len(stack) - 1) /\ Becomes(s, 1)
  BY DEF FrameDig, Fetched
<1>2. FromBottom(stack, j) \in Value
  BY <1>1, ElementType, ProgramType DEF FromBottom
<1>3. s \in Seq(Value) /\ Len(s) = Len(stack) + 1
  BY <1>2, PushType DEF TypeOK
<1>4. stacksize + 1 <= MAX_STACK_DEPTH
  BY <1>1, ProgramType, LimitAssumption
<1> HIDE DEF s, j
<1> QED BY <1>1, <1>3, <1>4, OpKeeps

LEMMA FrameBuryKeeps == TypeOK /\ FrameBury => Kept
<1> SUFFICES ASSUME TypeOK, FrameBury PROVE Kept
  OBVIOUS
<1> DEFINE t == Tail(stack)
           i == CurrentFrame.ptr + Instr.n
           s == Take(Len(t) - i - 1, t) \o <<Top>> \o Drop(Len(t) - i, t)
<1>1. /\ k = "run" /\ pc < Len(program) /\ Instr.op = "frame_bury" /\ callStack # <<>>
      /\ stack # <<>> /\ Becomes(s, -1)
  BY DEF FrameBury, Fetched, SetFromBottom
<1>2. t \in Seq(Value) /\ Len(t) = Len(stack) - 1 /\ Top \in Value
  BY <1>1, StackParts
<1>3. i \in Int /\ Len(stack) \in Int
  BY <1>1, FrameType, ProgramType
<1>4. ~Drifts => i \in 0..(Len(stack) - 2)
  BY <1>1 DEF Drifts
<1> HIDE DEF t, i
<1>5. Len(t) \in Int /\ Len(t) - i - 1 \in Int /\ Len(t) - i \in Int /\ -1 \in Int
  BY <1>2, <1>3
<1>6. s \in Seq(Value) /\ Len(s) = Len(Take(Len(t) - i - 1, t)) + 1 + Len(Drop(Len(t) - i, t))
  BY <1>2, <1>5, InsertType
<1>7. /\ Len(Take(Len(t) - i - 1, t)) =
           IF Len(t) - i - 1 <= 0 THEN 0 ELSE IF Len(t) - i - 1 < Len(t) THEN Len(t) - i - 1 ELSE Len(t)
      /\ Len(Drop(Len(t) - i, t)) =
           IF Len(t) - i <= 0 THEN Len(t) ELSE IF Len(t) - i < Len(t) THEN Len(t) - (Len(t) - i) ELSE 0
  BY <1>2, <1>5, TakeProperties, DropProperties
<1> HIDE DEF s
<1>8. ASSUME ~Drifts PROVE Len(s) = Len(stack) + -1
  <2>1. 0 <= i /\ i < Len(t)
    BY <1>2, <1>3, <1>4, <1>5, <1>8
  <2>2. Len(Take(Len(t) - i - 1, t)) = Len(t) - i - 1
    BY <1>3, <1>5, <1>7, <2>1
  <2>3. Len(Drop(Len(t) - i, t)) = i
    BY <1>3, <1>5, <1>7, <2>1
  <2> QED BY <1>2, <1>3, <1>5, <1>6, <2>2, <2>3
<1> QED BY <1>1, <1>5, <1>6, <1>8, OpKeeps

LEMMA CallSubroutineKeeps == TypeOK /\ CallSubroutine => Kept
<1> SUFFICES ASSUME TypeOK, CallSubroutine PROVE Kept
  OBVIOUS
<1>1. CASE \E code \in {"CALLSTACK_OVERFLOW", "ILLEGAL_JUMP"} : Panic(code)
  BY <1>1, PanicKeeps DEF ReturnCodes
<1> DEFINE f == [ret |-> pc + 1, ptr |-> Len(stack), proto |-> <<>>]
<1>2. CASE /\ Instr.n \in Labels /\ Len(callStack) < MAX_CALLSTACK_DEPTH
           /\ callStack' = <<f>> \o callStack
           /\ GoTo(Address(Instr.n), stack, 0) /\ UNCHANGED scratch
  <2>1. f \in Frame
    BY ProgramType DEF Frame, TypeOK
  <2> HIDE DEF f
  <2>2. callStack' \in Seq(Frame) /\ Len(callStack') = Len(callStack) + 1
    BY <1>2, <2>1, PushType DEF TypeOK
  <2>3. Len(callStack) \in Nat
    BY LenProperties DEF TypeOK
  <2>4. Address(Instr.n) \in 0..Len(program)
    BY <1>2, ProgramType
  <2>5. TypeOK'
    BY <1>2, <2>2, <2>3, <2>4, ProgramType, LimitAssumption DEF TypeOK, GoTo
  <2>6. Sized => Sized'
    BY <1>2, ProgramType DEF Sized, StackSizeIsSize, GoTo
  <2> QED BY <2>5, <2>6 DEF Kept
<1> QED BY <1>1, <1>2 DEF CallSubroutine

LEMMA ProtoKeeps == TypeOK /\ Proto => Kept
<1> SUFFICES ASSUME TypeOK, Proto PROVE Kept
  OBVIOUS
<1>1. k = "run" /\ pc < Len(program) /\ Instr.op = "proto" /\ callStack # <<>>
      /\ callStack' = [callStack EXCEPT ![1].proto = <<Instr.n, Instr.m>>]
      /\ GoTo(pc + 1, stack, 0) /\ UNCHANGED scratch
  BY DEF Proto, Fetched
<1>2. <<Instr.n, Instr.m>> \in Nat \X Nat
  BY <1>1, ProgramType DEF Instruction
<1>3. [CurrentFrame EXCEPT !.proto = <<Instr.n, Instr.m>>] \in Frame
  BY <1>1, <1>2, FrameType DEF Frame
<1>4. callStack' = [callStack EXCEPT ![1] = [CurrentFrame EXCEPT !.proto = <<Instr.n, Instr.m>>]]
  BY <1>1 DEF CurrentFrame
<1> DEFINE f == [CurrentFrame EXCEPT !.proto = <<Instr.n, Instr.m>>]
<1>5. callStack' \in Seq(Frame) /\ Len(callStack') = Len(callStack)
  <2>1. callStack \in Seq(Frame) /\ 1 \in 1..Len(callStack) /\ f \in Frame
    BY <1>1, <1>3, FrameType DEF TypeOK
  <2>2. callStack' = [callStack EXCEPT ![1] = f]
    BY <1>4
  <2> HIDE DEF f
  <2> QED BY <2>1, <2>2, ExceptSeq
<1>6. pc + 1 \in 0..Len(program)
  BY <1>1, ProgramType
<1>7. TypeOK'
  BY <1>1, <1>5, <1>6, ProgramType DEF TypeOK, GoTo
<1>8. Sized => Sized'
  BY <1>1, ProgramType DEF Sized, StackSizeIsSize, GoTo
<1> QED BY <1>7, <1>8 DEF Kept

\* What a frame returns: its results, moved down by the number of its arguments.
LEMMA ReturnedProperties ==
  ASSUME NEW s \in Seq(Value), NEW ptr \in Nat, NEW args \in Nat, NEW rets \in Nat
  PROVE  /\ Returned(s, ptr, args, rets) \in Seq(Value)
         /\ ptr >= args /\ Len(s) >= ptr + rets =>
              /\ Len(Returned(s, ptr, args, rets)) = ptr - args + rets
              /\ \A i \in 0..(ptr - args + rets - 1) :
                   FromBottom(Returned(s, ptr, args, rets), i)
                     = FromBottom(s, IF i < ptr - args THEN i ELSE i + args)
<1> DEFINE d == Len(s) - ptr - rets
           c == Drop(d, s)
           a == Take(rets, c)
           b == Drop(args + rets, c)
<1>1. Len(s) \in Nat /\ d \in Int /\ rets \in Int /\ args + rets \in Int
  BY LenProperties
<1>2. Returned(s, ptr, args, rets) = a \o b
  BY DEF Returned
<1>3. d = Len(s) - ptr - rets
  OBVIOUS
<1> HIDE DEF d
<1>4. /\ c \in Seq(Value)
      /\ Len(c) = IF d <= 0 THEN Len(s) ELSE IF d < Len(s) THEN Len(s) - d ELSE 0
      /\ \A i \in 1..Len(c) : c[i] = s[i + (IF d > 0 THEN d ELSE 0)]
  BY <1>1, DropProperties
<1> HIDE DEF c
<1>5. /\ a \in Seq(Value)
      /\ Len(a) = IF rets <= 0 THEN 0 ELSE IF rets < Len(c) THEN rets ELSE Len(c)
      /\ \A i \in 1..Len(a) : a[i] = c[i]
  BY <1>1, <1>4, TakeProperties
<1>6. /\ b \in Seq(Value)
      /\ Len(b) = IF args + rets <= 0 THEN Len(c)
                  ELSE IF args + rets < Len(c) THEN Len(c) - (args + rets) ELSE 0
      /\ \A i \in 1..Len(b) : b[i] = c[i + (IF args + rets > 0 THEN args + rets ELSE 0)]
  BY <1>1, <1>4, DropProperties
<1> HIDE DEF a, b
<1>7. a \o b \in Seq(Value) /\ Len(a \o b) = Len(a) + Len(b)
      /\ \A i \in 1..(Len(a) + Len(b)) : (a \o b)[i] = IF i <= Len(a) THEN a[i] ELSE b[i - Len(a)]
  BY <1>5, <1>6, ConcatProperties
<1>8. ASSUME ptr >= args, Len(s) >= ptr + rets
      PROVE  /\ Len(a \o b) = ptr - args + rets
             /\ \A i \in 0..(ptr - args + rets - 1) :
                  FromBottom(a \o b, i) = FromBottom(s, IF i < ptr - args THEN i ELSE i + args)
  <2>1. Len(c) = ptr + rets /\ d >= 0
    BY <1>1, <1>3, <1>4, <1>8
  <2>2. Len(a) = rets
    BY <1>5, <1>8, <2>1
  <2>3. Len(b) = ptr - args
    BY <1>6, <1>8, <2>1
  <2>4. Len(a \o b) = ptr - args + rets
    BY <1>7, <2>2, <2>3
  <2>5. \A i \in 1..Len(c) : c[i] = s[i + d]
    BY <1>1, <1>4, <2>1
  <2>6. \A i \in 1..Len(b) : b[i] = c[i + (args + rets)]
    BY <1>6
  <2>7. ASSUME NEW i \in 0..(ptr - args + rets - 1), i < ptr - args
        PROVE  FromBottom(a \o b, i) = FromBottom(s, i)
    <3> DEFINE j == ptr - args - i
    <3>1. j \in 1..Len(b) /\ j + (args + rets) \in 1..Len(c)
      BY <1>8, <2>1, <2>3, <2>7
    <3>2. FromBottom(a \o b, i) = (a \o b)[rets + j] /\ rets + j \in 1..(Len(a) + Len(b))
      BY <1>8, <2>2, <2>3, <2>4, <2>7 DEF FromBottom
    <3>3. (a \o b)[rets + j] = b[j]
      BY SMTT(30), <1>7, <2>2, <3>1, <3>2
    <3>4. b[j] = s[j + (args + rets) + d]
      BY <2>5, <2>6, <3>1
    <3>5. j + (args + rets) + d = Len(s) - i
      BY <1>1, <1>3
    <3> QED BY <3>2, <3>3, <3>4, <3>5 DEF FromBottom
  <2>8. ASSUME NEW i \in 0..(ptr - args + rets - 1), ~(i < ptr - args)
        PROVE  FromBottom(a \o b, i) = FromBottom(s, i + args)
    <3> DEFINE j == ptr - args + rets - i
    <3>1. j \in 1..rets /\ j \in 1..Len(c) /\ j \in 1..(Len(a) + Len(b))
      BY <1>8, <2>1, <2>2, <2>3, <2>8
    <3>2. FromBottom(a \o b, i) = (a \o b)[j]
      BY SMTT(30), <2>4 DEF FromBottom
    <3>3. (a \o b)[j] = s[j + d]
      BY <1>5, <1>7, <2>2, <2>5, <3>1
    <3>4. j + d = Len(s) - (i + args)
      BY <1>1, <1>3
    <3> QED BY <3>2, <3>3, <3>4 DEF FromBottom
  <2> QED BY <2>4, <2>7, <2>8
<1> QED BY <1>2, <1>7, <1>8

\* When the frame lies within the stack, exactly the results are left on what was below.
LEMMA ReturnedLength ==
  ASSUME NEW s \in Seq(Value), NEW ptr \in Nat, NEW args \in Nat, NEW rets \in Nat,
         ptr >= args, Len(s) >= ptr + rets
  PROVE  Len(Returned(s, ptr, args, rets)) = ptr - args + rets
BY ReturnedProperties

\* Counted from the bottom: first what was below the arguments, then the results.
LEMMA ReturnedElement ==
  ASSUME NEW s \in Seq(Value), NEW ptr \in Nat, NEW args \in Nat, NEW rets \in Nat,
         ptr >= args, Len(s) >= ptr + rets, NEW i \in 0..(ptr - args + rets - 1)
  PROVE  FromBottom(Returned(s, ptr, args, rets), i)
           = FromBottom(s, IF i < ptr - args THEN i ELSE i + args)
BY ReturnedProperties

\* A return goes behind a call of the program; its frame is taken off.
LEMMA ReturnSubroutineKeeps == TypeOK /\ FramesReturnToCalls /\ ReturnSubroutine => Kept
<1> SUFFICES ASSUME TypeOK, FramesReturnToCalls, ReturnSubroutine PROVE Kept
  OBVIOUS
<1>1. CASE Panic("CALLSTACK_UNDERFLOW")
  BY <1>1, PanicKeeps DEF ReturnCodes
<1>2. CASE ~Panic("CALLSTACK_UNDERFLOW")
  <2>1. callStack # <<>> /\ callStack' = Tail(callStack) /\ UNCHANGED scratch
        /\ k = "run" /\ pc < Len(program) /\ Instr.op = "retsub"
    BY <1>2 DEF ReturnSubroutine, Fetched
  <2>2. CurrentFrame.ret \in 0..Len(program)
    BY <2>1, FrameType, ProgramType DEF FramesReturnToCalls, CurrentFrame
  <2>3. callStack' \in Seq(Frame) /\ Len(callStack') = Len(callStack) - 1
    BY <2>1, TailType DEF TypeOK
  <2>4. ASSUME NEW s \in Seq(Value), NEW d \in Int, GoTo(CurrentFrame.ret, s, d),
               Sized /\ ~Drifts => Len(s) = Len(stack) + d /\ Len(s) <= MAX_STACK_DEPTH
        PROVE  Kept
    <3>1. Len(callStack') <= MAX_CALLSTACK_DEPTH
      BY <2>1, <2>3, FrameType, LimitAssumption DEF TypeOK
    <3>2. TypeOK'
      BY <2>1, <2>2, <2>3, <2>4, <3>1, ProgramType DEF TypeOK, GoTo
    <3>3. Sized /\ ~Drifts => Sized'
      BY <2>4, ProgramType DEF Sized, StackSizeIsSize, GoTo
    <3> QED BY <3>2, <3>3 DEF Kept
  <2>5. CASE CurrentFrame.proto = <<>> /\ GoTo(CurrentFrame.ret, stack, 0)
    <3>1. /\ stack \in Seq(Value) /\ Len(stack) = Len(stack) + 0
          /\ Sized => Len(stack) <= MAX_STACK_DEPTH
      BY ProgramType DEF TypeOK, Sized, StackSizeIsSize
    <3> QED BY <2>4, <2>5, <3>1
  <2> DEFINE s == Returned(stack, CurrentFrame.ptr, Args, Rets)
             d == -(Len(stack) - CurrentFrame.ptr) - Rets
  <2>6. CASE CurrentFrame.proto # <<>> /\ GoTo(CurrentFrame.ret, s, d)
    <3>1. stack \in Seq(Value) /\ Len(stack) \in Nat /\ CurrentFrame.ptr \in Nat
          /\ Args \in Nat /\ Rets \in Nat
      BY <2>1, <2>6, FrameType, ProgramType DEF TypeOK
    <3>2. s \in Seq(Value)
      BY <3>1, ReturnedProperties
    <3>4. d \in Int /\ Len(stack) + d = CurrentFrame.ptr - Rets
      BY <3>1
    <3>3. ASSUME Sized, ~Drifts PROVE Len(s) = Len(stack) + d /\ Len(s) <= MAX_STACK_DEPTH
      <4>1. 2 * Rets = Args /\ CurrentFrame.ptr >= Args /\ Len(stack) >= CurrentFrame.ptr + Rets
        BY <2>1, <2>6, <3>1, <3>3 DEF Drifts
      <4>2. Len(s) = CurrentFrame.ptr - Args + Rets
        <5> DEFINE p == CurrentFrame.ptr
        <5>1. p \in Nat /\ p >= Args /\ Len(stack) >= p + Rets
          BY <3>1, <4>1
        <5> HIDE DEF p
        <5>2. Len(Returned(stack, p, Args, Rets)) = p - Args + Rets
          BY <3>1, <5>1, ReturnedLength
        <5> QED BY <5>2 DEF p
      <4>3. Len(stack) <= MAX_STACK_DEPTH
        BY <3>3 DEF Sized, StackSizeIsSize
      <4> HIDE DEF s, d
      <4>4. Len(s) = Len(stack) + d
        BY <3>1, <3>4, <4>1, <4>2
      <4> QED BY <3>1, <4>1, <4>2, <4>3, <4>4, LimitAssumption
    <3> HIDE DEF s, d
    <3> QED BY <2>4, <2>6, <3>2, <3>3, <3>4
  <2> QED BY <1>2, <2>5, <2>6 DEF ReturnSubroutine
<1> QED BY <1>1, <1>2

-----------------------------------------------------------------------------
(* Frames return behind calls.                                             *)
LEMMA FramesKept == TypeOK /\ FramesReturnToCalls /\ [Next]_vars => FramesReturnToCalls'
<1> SUFFICES ASSUME TypeOK, FramesReturnToCalls, [Next]_vars PROVE FramesReturnToCalls'
  OBVIOUS
<1>1. ASSUME UNCHANGED <<program, callStack>> PROVE FramesReturnToCalls'
  BY <1>1 DEF FramesReturnToCalls
<1>2. CASE CallSubroutine /\ callStack' # callStack
  <2> DEFINE f == [ret |-> pc + 1, ptr |-> Len(stack), proto |-> <<>>]
  <2>1. callStack' = <<f>> \o callStack /\ program' = program /\ pc < Len(program)
        /\ program[pc + 1].op = "callsub"
    BY <1>2 DEF CallSubroutine, Panic, GoTo, Fetched, Instr
  <2>2. f \in Frame /\ f.ret \in 1..Len(program) /\ program[f.ret].op = "callsub"
    BY <2>1, ProgramType DEF Frame, TypeOK
  <2> HIDE DEF f
  <2>3. <<f>> \in Seq(Frame) /\ Len(<<f>>) = 1 /\ <<f>>[1] = f /\ callStack \in Seq(Frame)
        /\ Len(callStack) \in Nat
    BY <2>2, LenProperties DEF TypeOK
  <2>4. /\ Len(callStack') = Len(callStack) + 1
        /\ \A i \in 1..Len(callStack') : callStack'[i] = IF i = 1 THEN f ELSE callStack[i - 1]
    BY <2>1, <2>3, ConcatProperties
  <2> QED BY <2>1, <2>2, <2>3, <2>4 DEF FramesReturnToCalls
<1>3. CASE Proto
  <2>1. callStack' = [callStack EXCEPT ![1].proto = <<Instr.n, Instr.m>>] /\ program' = program
        /\ callStack # <<>>
    BY <1>3 DEF Proto, GoTo
  <2>2. callStack \in Seq(Frame) /\ Len(callStack) \in Nat
    BY LenProperties DEF TypeOK
  <2>3. Len(callStack') = Len(callStack)
    BY <2>1, <2>2
  <2>4. \A i \in 1..Len(callStack) : callStack'[i].ret = callStack[i].ret
    <3>1. \A i \in 1..Len(callStack) : callStack[i] \in Frame
      BY <2>2, ElementOfSeq
    <3> QED BY <2>1, <2>2, <3>1 DEF Frame
  <2> QED BY <2>1, <2>3, <2>4 DEF FramesReturnToCalls
<1>4. CASE ReturnSubroutine /\ callStack' # callStack
  <2>1. callStack # <<>> /\ callStack' = Tail(callStack) /\ program' = program
    BY <1>4 DEF ReturnSubroutine, Panic, GoTo
  <2>2. callStack \in Seq(Frame) /\ Len(callStack) \in Nat
    BY LenProperties DEF TypeOK
  <2>3. /\ Len(callStack') = Len(callStack) - 1
        /\ \A i \in 1..Len(callStack') : callStack'[i] = callStack[i + 1]
    BY <2>1, <2>2, HeadTailProperties
  <2> QED BY <2>1, <2>2, <2>3 DEF FramesReturnToCalls
<1>5. CASE UNCHANGED vars
  BY <1>1, <1>5 DEF vars
<1>6. CASE \/ LoadInputPgm \/ FallOffEnd \/ Return \/ Accept \/ ZeroStack \/ BadStack
           \/ StackOverflow \/ StackUnderflow \/ IllTypedStack \/ InvalidScratchLoc
  BY <1>1, <1>6 DEF LoadInputPgm, FallOffEnd, Return, Accept, ZeroStack, BadStack, StackOverflow,
     StackUnderflow, IllTypedStack, InvalidScratchLoc, Panic, Finish
<1>7. CASE \/ PushConstant \/ Add \/ Load \/ Store \/ SkipLabel \/ Branch \/ Assert
           \/ FrameDig \/ FrameBury
  BY <1>1, <1>7 DEF PushConstant, Add, Load, Store, SkipLabel, Branch, Assert, FrameDig, FrameBury,
     Jump, Becomes, GoTo, Panic
<1>8. CASE \/ Pop \/ Dup \/ Dup2 \/ DupN \/ Swap \/ Select
           \/ Dig \/ Cover \/ Uncover \/ Bury \/ PopN
  BY <1>1, <1>8 DEF Pop, Dup, Dup2, DupN, Swap, Select, Dig, Cover, Uncover, Bury, PopN, Becomes, GoTo
<1>9. CASE (CallSubroutine \/ ReturnSubroutine) /\ callStack' = callStack
  BY <1>1, <1>9 DEF CallSubroutine, ReturnSubroutine, Panic, GoTo
<1> QED BY <1>2, <1>3, <1>4, <1>5, <1>6, <1>7, <1>8, <1>9 DEF Next

-----------------------------------------------------------------------------
(* The inductive invariant: returning to an address that is stored in a    *)
(* frame keeps the program counter within the program only because of      *)
(* FramesReturnToCalls.                                                    *)
IInv == TypeOK /\ FramesReturnToCalls

LEMMA InitEstablishes == Init => IInv
<1> SUFFICES ASSUME Init PROVE IInv
  OBVIOUS
<1>1. program \in Seq(Instruction) /\ 0 \in 0..Len(program)
  BY ProgramAssumption, LenProperties DEF Init
<1>2. <<>> \in Seq(Value) /\ <<>> \in Seq(Frame) /\ Len(<<>>) = 0
  BY EmptySeq
<1>3. TypeOK
  BY <1>1, <1>2, LimitAssumption DEF Init, TypeOK, ReturnCodes
<1> QED BY <1>2, <1>3 DEF IInv, Init, FramesReturnToCalls

LEMMA StepKeeps == IInv /\ Next => Kept
<1> SUFFICES ASSUME TypeOK, FramesReturnToCalls, Next PROVE Kept
  BY DEF IInv
<1> QED
  BY LoadInputPgmKeeps, EndKeeps, PanicsKeep, PushConstantKeeps, AddKeeps, LoadKeeps, StoreKeeps,
     BranchesKeep, CallSubroutineKeeps, ProtoKeeps, ReturnSubroutineKeeps, FrameDigKeeps,
     FrameBuryKeeps, PopDupKeep, DupNKeeps, DigCoverKeep DEF Next

LEMMA IInvKept == IInv /\ [Next]_vars => IInv'
<1>1. IInv /\ UNCHANGED vars => TypeOK'
  BY DEF IInv, TypeOK, vars
<1>2. IInv /\ Next => TypeOK'
  BY StepKeeps DEF Kept
<1>3. IInv /\ [Next]_vars => FramesReturnToCalls'
  BY FramesKept DEF IInv
<1> QED BY <1>1, <1>2, <1>3 DEF IInv

\* In every run of the interpreter the inductive invariant holds.
THEOREM Invariance == Spec => []IInv
BY InitEstablishes, IInvKept, PTL DEF Spec

\* Types: the program counter never leaves the program and numbers never leave
\* their 64 bits, whatever program is run (#fetchOpcode, INT_OVERFLOW).
THEOREM TypeCorrect == Spec => []TypeOK
<1>1. IInv => TypeOK
  BY DEF IInv
<1> QED BY <1>1, Invariance, PTL

\* Every frame returns right behind a callsub (callSubroutine, returnSubroutine).
THEOREM ReturnBehindCalls == Spec => []FramesReturnToCalls
<1>1. IInv => FramesReturnToCalls
  BY DEF IInv
<1> QED BY <1>1, Invariance, PTL

\* <stacksize> stays the size of the stack, within the limit, except by the returns
\* and burials that Drifts names (returnSubroutine, frame_bury).
THEOREM SizeDrifts == Spec => OnlyReturnsDrift
<1>1. IInv /\ [Next]_vars => [Sized /\ ~Drifts => Sized']_vars
  BY StepKeeps DEF Kept
<1> QED BY <1>1, Invariance, PTL DEF Spec, OnlyReturnsDrift

\* retsub is the one rule for its opcode.
LEMMA RetsubIsReturn == TypeOK /\ Next /\ Fetched({"retsub"}) => ReturnSubroutine
<1> SUFFICES ASSUME TypeOK, Next, Fetched({"retsub"}) PROVE ReturnSubroutine
  OBVIOUS
<1>1. k = "run" /\ pc < Len(program) /\ Instr.op = "retsub"
  BY DEF Fetched
<1>2. ~(LoadInputPgm \/ FallOffEnd \/ Accept \/ ZeroStack \/ BadStack)
  BY <1>1, ProgramType DEF LoadInputPgm, FallOffEnd, Accept, ZeroStack, BadStack
<1>3. ~(Return \/ PushConstant \/ Add \/ Load \/ Store \/ InvalidScratchLoc \/ SkipLabel \/ Branch
        \/ Assert \/ CallSubroutine \/ Proto \/ FrameDig \/ FrameBury)
  BY <1>1 DEF Return, PushConstant, Add, Load, Store, InvalidScratchLoc, SkipLabel, Branch, Assert,
     CallSubroutine, Proto, FrameDig, FrameBury, Fetched
<1>4. ~(Pop \/ Dup \/ Dup2 \/ DupN \/ Swap \/ Select \/ Dig \/ Cover \/ Uncover \/ Bury \/ PopN)
  BY <1>1 DEF Pop, Dup, Dup2, DupN, Swap, Select, Dig, Cover, Uncover, Bury, PopN, Fetched
<1>5. ~(StackOverflow \/ StackUnderflow \/ IllTypedStack)
  BY <1>1 DEF StackOverflow, StackUnderflow, IllTypedStack, Fetched, StackOps
<1> QED BY <1>1, <1>2, <1>3, <1>4, <1>5 DEF Next

\* A subroutine returns its results on top of what was below its arguments, whatever
\* else it left on the stack (returnSubroutine, #take, #drop).
THEOREM ReturnsToCaller == Spec => ReturnKeepsCaller
<1> DEFINE KeepsCaller == ReturnsResults =>
             /\ Len(stack') = CurrentFrame.ptr - Args + Rets
             /\ \A i \in 0..(Len(stack') - 1) :
                  FromBottom(stack', i) =
                    FromBottom(stack, IF i < CurrentFrame.ptr - Args THEN i ELSE i + Args)
<1>1. IInv /\ Next => KeepsCaller
  <2> SUFFICES ASSUME IInv, Next, ReturnsResults PROVE KeepsCaller
    OBVIOUS
  <2>1. TypeOK /\ callStack # <<>> /\ CurrentFrame.proto # <<>> /\ CurrentFrame.ptr >= Args
        /\ Len(stack) >= CurrentFrame.ptr + Rets
    BY DEF IInv, ReturnsResults
  <2>2. stack' = Returned(stack, CurrentFrame.ptr, Args, Rets)
    BY <2>1, RetsubIsReturn DEF ReturnsResults, ReturnSubroutine, GoTo
  <2>3. stack \in Seq(Value) /\ CurrentFrame.ptr \in Nat /\ Args \in Nat /\ Rets \in Nat
    BY <2>1, FrameType DEF TypeOK
  <2>4. /\ Len(stack') = CurrentFrame.ptr - Args + Rets
        /\ \A i \in 0..(CurrentFrame.ptr - Args + Rets - 1) :
             FromBottom(stack', i)
               = FromBottom(stack, IF i < CurrentFrame.ptr - Args THEN i ELSE i + Args)
    <3> DEFINE p == CurrentFrame.ptr
               g == Args
               r == Rets
               s == Returned(stack, p, g, r)
    <3>1. p \in Nat /\ g \in Nat /\ r \in Nat
      BY <2>3
    <3>2. p >= g /\ Len(stack) >= p + r
      BY <2>1
    <3> HIDE DEF p, g, r
    <3>3. Len(s) = p - g + r
      BY <2>3, <3>1, <3>2, ReturnedLength
    <3>4. ASSUME NEW i \in 0..(p - g + r - 1)
          PROVE  FromBottom(s, i) = FromBottom(stack, IF i < p - g THEN i ELSE i + g)
      BY <2>3, <3>1, <3>2, ReturnedElement
    <3>5. s = stack'
      BY <2>2 DEF p, g, r
    <3> HIDE DEF s
    <3> QED BY <3>3, <3>4, <3>5 DEF p, g, r
  <2>5. Len(stack') = CurrentFrame.ptr - Args + Rets
    BY <2>4
  <2>6. ASSUME NEW i \in 0..(Len(stack') - 1)
        PROVE  FromBottom(stack', i)
                 = FromBottom(stack, IF i < CurrentFrame.ptr - Args THEN i ELSE i + Args)
    <3>1. i \in 0..(CurrentFrame.ptr - Args + Rets - 1)
      BY <2>3, <2>5
    <3> QED BY <2>4, <3>1
  <2> QED BY <2>5, <2>6
<1>2. IInv /\ [Next]_vars => [KeepsCaller]_vars
  BY <1>1
<1> QED BY <1>2, Invariance, PTL DEF Spec, ReturnKeepsCaller
=============================================================================
