------------------------- MODULE AvmExecutionProofs -------------------------
(***************************************************************************)
(* Proofs about AvmExecution: its type invariant; that the panics of the   *)
(* transaction deque are assertions that never fail; that what is resumed  *)
(* has been saved; that a panic is final; that no application is twice on  *)
(* the call stack; that groups nest in one deque and one continuation, so  *)
(* that a transaction is popped after its own execution, a program's last  *)
(* group is its own, and the balance check comes after everything else.    *)
(***************************************************************************)
EXTENDS AvmExecution, TLAPS, FiniteSets, FiniteSetTheorems

\* Commands that rely on what the command before them has just checked or done:
\* they are only ever at the head of <k>.
Immediate == {"pushTxnBack", "pushTxnFront", "getNextTxn"}
\* Commands that read the current transaction.
Evaluating == {"evalTx", "executeTxn", "executeAppl"}
\* Commands whose argument is a position in a list.
Iterating == {"setupAccounts", "setupTransactions", "checkItxns"}

\* Command c may be on <k> when n transactions exist.
Sound(c, n) == /\ c.name \in Evaluating => n > 0
               /\ c.name \in Iterating => c.arg > 0

KInv == /\ k \in Seq(Command)
        /\ \A i \in 1..Len(k) : /\ i > 1 => k[i].name \notin Immediate
                                /\ Sound(k[i], nextTxnID)

\* The head of <k> may run: the transaction to push exists and is not scheduled,
\* the deque to read is not empty.
HeadReady ==
  k # <<>> =>
    /\ Head(k).name \in {"pushTxnBack", "pushTxnFront"} => CanPush(Head(k).arg)
    /\ Head(k).name = "getNextTxn" => deque # <<>>

\* Once a transaction exists the current one does.
CurrentKnown == \/ currentTx \in DOMAIN transactions
                \/ nextTxnID = 0 /\ currentTx = 0

DataOK ==
  /\ accounts \subseteq Nat /\ apps \subseteq Nat /\ nextAppID \in Nat
  /\ optedIn \subseteq Nat \X Nat
  /\ nextGroupID \in Nat
  /\ currentTxnExecution \in Execution
  /\ innerTransactions \in Seq(Transaction)
  /\ activeApps \subseteq Nat /\ touchedAccounts \subseteq Nat

TxnsOK == /\ nextTxnID \in Nat
          /\ transactions \in [0..(nextTxnID - 1) -> Transaction]

QueueOK == /\ deque \in Seq(Nat) /\ dequeIndexSet \subseteq Nat /\ currentTx \in Nat
           /\ DequeInv /\ CurrentKnown

CodeOK == returncode \in ReturnCodes \ {TXN_DEQUE_ERROR}

IInv == KInv /\ HeadReady /\ DataOK /\ TxnsOK /\ QueueOK /\ CodeOK

-----------------------------------------------------------------------------
(* Steps on <k>.                                                           *)
\* What the command constructors build.
LEMMA CmdType ==
  ASSUME NEW c \in CommandNames, NEW a \in Nat, NEW s \in Nat
  PROVE  /\ Cmd(c) \in Command /\ CmdOf(c, a) \in Command /\ CmdBy(c, a, s) \in Command
         /\ Cmd(c).name = c /\ CmdOf(c, a).name = c /\ CmdBy(c, a, s).name = c
         /\ CmdOf(c, a).arg = a /\ CmdBy(c, a, s).arg = a
BY DEF Cmd, CmdOf, CmdBy, Command

\* Commands that may stand anywhere on <k>.
Calm == CommandNames \ (Immediate \cup Evaluating \cup Iterating)

\* Commands that ask nothing of the deque or of transaction ids.
LEMMA CalmCmd ==
  ASSUME NEW c \in Calm, NEW a \in Nat, NEW s \in Nat, NEW n \in Nat
  PROVE  /\ Cmd(c) \in Command /\ CmdOf(c, a) \in Command /\ CmdBy(c, a, s) \in Command
         /\ Cmd(c).name \notin Immediate /\ Sound(Cmd(c), n)
         /\ CmdOf(c, a).name \notin Immediate /\ Sound(CmdOf(c, a), n)
         /\ CmdBy(c, a, s).name \notin Immediate /\ Sound(CmdBy(c, a, s), n)
BY CmdType DEF Calm, Sound

\* Commands that walk over transaction ids, given an id to start from.
LEMMA IteratingCmd ==
  ASSUME NEW c \in Iterating, NEW a \in Nat, a > 0, NEW n \in Nat
  PROVE  /\ CmdOf(c, a) \in Command /\ CmdOf(c, a).name \notin Immediate
         /\ Sound(CmdOf(c, a), n)
<1>1. c \in CommandNames /\ c \notin Immediate /\ c \notin Evaluating
  BY DEF Iterating, Immediate, Evaluating, CommandNames
<1> QED BY <1>1, CmdType DEF Sound

\* Commands that evaluate a transaction, once one exists.
LEMMA EvaluatingCmd ==
  ASSUME NEW c \in Evaluating, NEW a \in Nat, NEW n \in Nat, n > 0
  PROVE  /\ Cmd(c) \in Command /\ Cmd(c).name \notin Immediate /\ Sound(Cmd(c), n)
         /\ CmdOf(c, a) \in Command /\ CmdOf(c, a).name \notin Immediate
         /\ Sound(CmdOf(c, a), n)
<1>1. c \in CommandNames /\ c \notin Immediate /\ c \notin Iterating
  BY DEF Iterating, Immediate, Evaluating, CommandNames
<1> QED BY <1>1, CmdType DEF Sound

\* Commands that are next as soon as they are in <k>.
LEMMA ImmediateCmd ==
  ASSUME NEW c \in Immediate, NEW a \in Nat, NEW n \in Nat
  PROVE  /\ Cmd(c) \in Command /\ Sound(Cmd(c), n) /\ Cmd(c).name = c
         /\ CmdOf(c, a) \in Command /\ Sound(CmdOf(c, a), n)
         /\ CmdOf(c, a).name = c /\ CmdOf(c, a).arg = a
<1>1. c \in CommandNames /\ c \notin Iterating /\ c \notin Evaluating
  BY DEF Iterating, Immediate, Evaluating, CommandNames
<1> QED BY <1>1, CmdType DEF Sound

\* The calm commands the actions schedule.
LEMMA CalmNames ==
  {"setupCounters", "readExecutionStages", "checkExecutionResults", "evalTxGroup",
   "evalNextTx", "popTxnFront", "initApp", "loadInputPgm", "fetchOpcode",
   "finalizeExecution", "clearState", "updatePrograms", "deleteApplication",
   "executeItxnGroup", "pushItxns", "checkSufficientBalance", "stopIfError",
   "unmatched"} \subseteq Calm
BY DEF Calm, CommandNames, TestingCommands, Immediate, Evaluating, Iterating

\* The codes the actions set, the deque's own apart.
LEMMA CodeTypes ==
  {SUCCESS, ZERO_STACK, BAD_STACK, STUCK, INVALID_JSON, ERR_OPCODE, TXN_INVALID,
   DUPLICATE_LABEL, ITXN_REENTRY, INSUFFICIENT_FUNDS, MIN_BALANCE_VIOLATION,
   APP_ALREADY_ACTIVE, MISMATCH} \subseteq ReturnCodes \ {TXN_DEQUE_ERROR}
BY DEF ReturnCodes, SUCCESS, ZERO_STACK, BAD_STACK, STUCK, INVALID_JSON, ERR_OPCODE,
       TXN_INVALID, DUPLICATE_LABEL, ITXN_REENTRY, INSUFFICIENT_FUNDS, TXN_DEQUE_ERROR,
       MIN_BALANCE_VIOLATION, APP_ALREADY_ACTIVE, MISMATCH

\* Concatenation, element by element.
LEMMA ConcatType ==
  ASSUME NEW p \in Seq(Command), NEW q \in Seq(Command)
  PROVE  /\ p \o q \in Seq(Command) /\ Len(p \o q) = Len(p) + Len(q)
         /\ \A i \in 1..Len(p) : (p \o q)[i] = p[i]
         /\ \A i \in (Len(p) + 1)..(Len(p) + Len(q)) : (p \o q)[i] = q[i - Len(p)]
OBVIOUS

\* The TEAL state of a transaction stays one when these fields change.
LEMMA ExecutionUpdate ==
  ASSUME NEW e \in Execution, NEW a \in Nat, NEW g \in Int
  PROVE  /\ [e EXCEPT !.app = a, !.lastGroup = g] \in Execution
         /\ [e EXCEPT !.pc = @ + 1, !.lastGroup = g] \in Execution
<1>1. /\ [e EXCEPT !.app = a] \in Execution
      /\ [e EXCEPT !.pc = @ + 1] \in Execution
  BY DEF Execution
<1>2. \A f \in Execution : [f EXCEPT !.lastGroup = g] \in Execution
  BY DEF Execution
<1>3. /\ [e EXCEPT !.app = a, !.lastGroup = g] = [[e EXCEPT !.app = a] EXCEPT !.lastGroup = g]
      /\ [e EXCEPT !.pc = @ + 1, !.lastGroup = g] = [[e EXCEPT !.pc = @ + 1] EXCEPT !.lastGroup = g]
  OBVIOUS
<1> QED BY <1>1, <1>2, <1>3

\* The head of <k> is a sound command.
LEMMA HeadType ==
  ASSUME KInv, k # <<>>
  PROVE  /\ Head(k) \in Command /\ Arg \in Nat /\ Head(k).addr \in Nat
         /\ Sound(Head(k), nextTxnID)
<1>1. Head(k) = k[1] /\ 1 \in 1..Len(k) /\ Head(k) \in Command
  BY DEF KInv
<1>2. Arg \in Nat /\ Head(k).addr \in Nat
  BY <1>1 DEF Command, Arg
<1> QED BY <1>1, <1>2 DEF KInv

\* Dropping the head of <k> leaves a head that is not immediate.
LEMMA DoneKeeps ==
  ASSUME KInv, k # <<>>, Done, nextTxnID \in Nat, nextTxnID' \in Nat, nextTxnID' >= nextTxnID
  PROVE  KInv' /\ HeadReady'
<1>1. k \in Seq(Command) /\ k' = Tail(k)
  BY DEF KInv, Done
<1>2. /\ k' \in Seq(Command)
      /\ \A i \in 1..Len(k') : i + 1 \in 2..Len(k) /\ k'[i] = k[i + 1]
  BY <1>1
<1>3. k' # <<>> => Head(k') = k'[1] /\ 1 \in 1..Len(k')
  BY <1>2
<1>4. \A i \in 1..Len(k') : k'[i].name \notin Immediate /\ Sound(k'[i], nextTxnID')
  BY <1>2 DEF KInv, Sound
<1> QED BY <1>2, <1>3, <1>4 DEF KInv, HeadReady, Immediate

\* Replacing the head of <k> by commands of which only the first may be immediate.
LEMMA BecomeKeeps ==
  ASSUME KInv, k # <<>>, NEW s \in Seq(Command), s # <<>>, Become(s),
         nextTxnID \in Nat, nextTxnID' \in Nat, nextTxnID' >= nextTxnID,
         \A i \in 1..Len(s) : /\ i > 1 => s[i].name \notin Immediate
                              /\ Sound(s[i], nextTxnID')
  PROVE  /\ KInv' /\ k' # <<>> /\ Head(k') = s[1]
         /\ s[1].name \notin Immediate => HeadReady'
<1>1. k \in Seq(Command) /\ k' = s \o Tail(k)
  BY DEF KInv, Become
<1>2. Tail(k) \in Seq(Command) /\ \A i \in 1..Len(Tail(k)) : i + 1 \in 2..Len(k) /\ Tail(k)[i] = k[i + 1]
  BY <1>1
<1>3. /\ k' \in Seq(Command) /\ Len(k') = Len(s) + Len(Tail(k))
      /\ \A i \in 1..Len(s) : k'[i] = s[i]
      /\ \A i \in (Len(s) + 1)..Len(k') : k'[i] = Tail(k)[i - Len(s)]
  BY <1>1, <1>2
<1>4. Len(s) > 0 /\ k' # <<>> /\ Head(k') = s[1]
  BY <1>3
<1>5. ASSUME NEW i \in 1..Len(k')
      PROVE  /\ i > 1 => k'[i].name \notin Immediate
             /\ Sound(k'[i], nextTxnID')
  <2>1. CASE i <= Len(s)
    BY <1>3, <2>1
  <2>2. CASE i > Len(s)
    <3>1. i - Len(s) \in 1..Len(Tail(k))
      BY <1>2, <1>3, <2>2
    <3> QED BY SMTT(30), <1>2, <1>3, <2>2, <3>1 DEF KInv, Sound
  <2> QED BY <2>1, <2>2, <1>3
<1> QED BY <1>3, <1>4, <1>5 DEF KInv, HeadReady, Immediate

\* One command in the place of the head.
LEMMA BecomeOne ==
  ASSUME KInv, k # <<>>, nextTxnID \in Nat, nextTxnID' \in Nat, nextTxnID' >= nextTxnID,
         NEW c \in Command, Become(<<c>>), c.name \notin Immediate, Sound(c, nextTxnID')
  PROVE  KInv' /\ HeadReady'
<1> DEFINE s == <<c>>
<1>1. s \in Seq(Command) /\ Len(s) = 1 /\ s[1] = c /\ s # <<>> /\ Become(s)
  OBVIOUS
<1> HIDE DEF s
<1>2. \A i \in 1..Len(s) : /\ i > 1 => s[i].name \notin Immediate
                           /\ Sound(s[i], nextTxnID')
  BY <1>1
<1> QED BY <1>1, <1>2, BecomeKeeps

\* Two commands, of which the first may be immediate.
LEMMA BecomeTwo ==
  ASSUME KInv, k # <<>>, nextTxnID \in Nat, nextTxnID' \in Nat, nextTxnID' >= nextTxnID,
         NEW c \in Command, NEW d \in Command, Become(<<c, d>>),
         d.name \notin Immediate, Sound(c, nextTxnID'), Sound(d, nextTxnID')
  PROVE  /\ KInv' /\ k' # <<>> /\ Head(k') = c
         /\ c.name \notin Immediate => HeadReady'
<1> DEFINE s == <<c, d>>
<1>1. /\ s \in Seq(Command) /\ Len(s) = 2 /\ s # <<>> /\ Become(s)
      /\ s[1] = c /\ s[2] = d
  OBVIOUS
<1> HIDE DEF s
<1>2. \A i \in 1..Len(s) : /\ i > 1 => s[i].name \notin Immediate
                           /\ Sound(s[i], nextTxnID')
  <2>1. \A i \in 1..Len(s) : i = 1 \/ i = 2
    BY <1>1
  <2> QED BY <1>1, <2>1
<1> QED BY <1>1, <1>2, BecomeKeeps

\* A panic that is not the deque's own.
LEMMA PanicKeeps ==
  ASSUME KInv, k # <<>>, nextTxnID \in Nat, nextTxnID' = nextTxnID,
         NEW code \in ReturnCodes \ {TXN_DEQUE_ERROR}, Panic(code)
  PROVE  KInv' /\ HeadReady' /\ CodeOK'
<1>1. /\ Cmd("stopIfError") \in Command
      /\ Cmd("stopIfError").name \notin Immediate
      /\ Sound(Cmd("stopIfError"), nextTxnID')
  BY CalmCmd, CalmNames
<1>2. KInv' /\ HeadReady'
  BY <1>1, BecomeOne DEF Panic
<1> QED BY <1>2 DEF Panic, CodeOK

-----------------------------------------------------------------------------
(* What a step that leaves the deque, or the transactions, alone preserves. *)
\* A step that leaves the deque alone, and removes no transaction.
LEMMA SameQueue ==
  ASSUME QueueOK, UNCHANGED queue, nextTxnID' = nextTxnID,
         DOMAIN transactions' = DOMAIN transactions
  PROVE  QueueOK'
BY DEF QueueOK, queue, DequeInv, CurrentKnown

\* A step that leaves transactions and deque alone keeps their invariants.
LEMMA SameTxns ==
  ASSUME TxnsOK, QueueOK, UNCHANGED <<txns, queue>>
  PROVE  /\ TxnsOK' /\ QueueOK'
         /\ nextTxnID \in Nat /\ nextTxnID' \in Nat /\ nextTxnID' = nextTxnID
         /\ nextTxnID' >= nextTxnID
BY SameQueue DEF TxnsOK, txns

\* The same of the network, the program and the touched accounts.
LEMMA SameData ==
  ASSUME DataOK, UNCHANGED <<network, nextGroupID, teal, touchedAccounts>>
  PROVE  DataOK'
BY DEF DataOK, network, teal

\* A step that changes nothing but <k>.
LEMMA SameAll ==
  ASSUME IInv, UNCHANGED <<returncode, network, txns, queue, teal, touchedAccounts>>
  PROVE  /\ DataOK' /\ TxnsOK' /\ QueueOK' /\ CodeOK'
         /\ nextTxnID \in Nat /\ nextTxnID' = nextTxnID /\ nextTxnID' >= nextTxnID
BY SameData, SameTxns DEF IInv, CodeOK, txns

\* Where a command evaluates a transaction, the current one exists.
LEMMA CurrentType ==
  ASSUME IInv, k # <<>>, Head(k).name \in Evaluating
  PROVE  /\ nextTxnID > 0 /\ currentTx \in DOMAIN transactions
         /\ Current \in Transaction
BY HeadType DEF IInv, Sound, QueueOK, CurrentKnown, TxnsOK, Current

\* The invariant holds initially.
LEMMA InitIInv == Init => IInv
<1> SUFFICES ASSUME Init PROVE IInv
  OBVIOUS
<1>1. /\ CmdOf("setupAccounts", 1) \in Command /\ Cmd("setupCounters") \in Command
      /\ Cmd("readExecutionStages") \in Command
      /\ CmdOf("setupAccounts", 1).name = "setupAccounts"
      /\ CmdOf("setupAccounts", 1).arg = 1
      /\ Cmd("setupCounters").name = "setupCounters"
      /\ Cmd("readExecutionStages").name = "readExecutionStages"
  BY CmdType DEF CommandNames, TestingCommands
<1>2. KInv /\ HeadReady
  BY <1>1 DEF Init, KInv, HeadReady, Immediate, Evaluating, Iterating, Sound
<1>3. DataOK
  BY DEF Init, DataOK, NoContext, Execution, NoGroup
<1>4. TxnsOK
  BY DEF Init, TxnsOK
<1>5. QueueOK
  BY DEF Init, QueueOK, DequeInv, CurrentKnown
<1>6. CodeOK
  BY DEF Init, CodeOK, ReturnCodes, STUCK, TXN_DEQUE_ERROR
<1> QED BY <1>2, <1>3, <1>4, <1>5, <1>6 DEF IInv

\* The three ways a step that changes nothing else changes <k>.
LEMMA OnlyDone ==
  ASSUME IInv, k # <<>>, Done,
         UNCHANGED <<returncode, network, txns, queue, teal, touchedAccounts>>
  PROVE  IInv'
BY SameAll, DoneKeeps DEF IInv

\* A step that only panics.
LEMMA OnlyPanic ==
  ASSUME IInv, k # <<>>, NEW code \in ReturnCodes \ {TXN_DEQUE_ERROR}, Panic(code),
         UNCHANGED <<network, txns, queue, teal, touchedAccounts>>
  PROVE  IInv'
BY SameData, SameTxns, PanicKeeps DEF IInv, txns

\* A step that only replaces the head of <k>.
LEMMA OnlyBecome ==
  ASSUME IInv, k # <<>>, NEW s \in Seq(Command), s # <<>>, Become(s),
         \A i \in 1..Len(s) : /\ i > 1 => s[i].name \notin Immediate
                              /\ Sound(s[i], nextTxnID),
         s[1].name \notin Immediate,
         UNCHANGED <<returncode, network, txns, queue, teal, touchedAccounts>>
  PROVE  IInv'
BY SameAll, BecomeKeeps DEF IInv

\* The same, for one command.
LEMMA OnlyBecomeOne ==
  ASSUME IInv, k # <<>>, NEW c \in Command, Become(<<c>>),
         c.name \notin Immediate, Sound(c, nextTxnID),
         UNCHANGED <<returncode, network, txns, queue, teal, touchedAccounts>>
  PROVE  IInv'
BY SameAll, BecomeOne DEF IInv

\* The same, for two commands.
LEMMA OnlyBecomeTwo ==
  ASSUME IInv, k # <<>>, NEW c \in Command, NEW d \in Command, Become(<<c, d>>),
         c.name \notin Immediate, d.name \notin Immediate,
         Sound(c, nextTxnID), Sound(d, nextTxnID),
         UNCHANGED <<returncode, network, txns, queue, teal, touchedAccounts>>
  PROVE  IInv'
BY SameAll, BecomeTwo DEF IInv

-----------------------------------------------------------------------------
(* The driver.                                                             *)
\* An account is read from JSON.
LEMMA SetupAccountStep == IInv /\ SetupAccount => IInv'
<1> SUFFICES ASSUME IInv, SetupAccount PROVE IInv'
  OBVIOUS
<1> USE DEF IInv
<1>1. /\ k # <<>> /\ UNCHANGED <<txns, queue>>
      /\ nextTxnID \in Nat /\ nextTxnID' = nextTxnID /\ nextTxnID' >= nextTxnID
      /\ TxnsOK' /\ QueueOK'
  BY SameTxns DEF SetupAccount, Next1
<1>2. Arg \in 1..Len(Setup) /\ Arg + 1 \in Nat /\ Arg + 1 > 0
  BY <1>1, HeadType DEF SetupAccount, Next1, Sound, Iterating, Arg
<1>3. /\ Setup[Arg].addr \in Nat /\ Setup[Arg].apps \subseteq Nat
      /\ Setup[Arg].locals \subseteq Nat
  <2>1. Setup[Arg] \in AccountObject
    BY <1>2, SetupAssumption
  <2> QED BY <2>1 DEF AccountObject
<1>4. CASE ReadAccount(Setup[Arg])
  <2>1. KInv' /\ HeadReady'
    BY <1>1, <1>2, <1>4, BecomeOne, IteratingCmd DEF ReadAccount, Iterating
  <2>2. DataOK' /\ CodeOK'
    BY <1>3, <1>4 DEF SetupAccount, ReadAccount, DataOK, CodeOK, txns, queue, teal
  <2> QED BY <1>1, <2>1, <2>2
<1>5. CASE MalformedAccount(Setup[Arg])
  <2>1. KInv' /\ HeadReady' /\ CodeOK'
    BY <1>1, <1>5, PanicKeeps, CodeTypes DEF MalformedAccount
  <2>2. DataOK'
    BY <1>5 DEF SetupAccount, MalformedAccount, DataOK, txns, queue, teal
  <2> QED BY <1>1, <2>1, <2>2
<1> QED BY <1>4, <1>5 DEF SetupAccount

\* A new transaction takes the next id, which nothing has scheduled.
LEMMA NewTransactionKeeps ==
  ASSUME TxnsOK, QueueOK, NEW t \in Transaction, transactions' = WithTransaction(t),
         nextTxnID' = nextTxnID + 1, UNCHANGED queue
  PROVE  /\ TxnsOK' /\ QueueOK'
         /\ nextTxnID \in DOMAIN transactions' /\ nextTxnID \notin dequeIndexSet'
         /\ nextTxnID \in Nat /\ nextTxnID' \in Nat /\ nextTxnID' > 0 /\ nextTxnID' >= nextTxnID
<1>1. /\ nextTxnID \in Nat /\ nextTxnID' \in Nat
      /\ DOMAIN transactions = 0..(nextTxnID - 1) /\ DOMAIN transactions' = 0..nextTxnID
  BY DEF TxnsOK, WithTransaction
<1>2. TxnsOK'
  BY <1>1 DEF TxnsOK, WithTransaction
<1>3. CurrentKnown'
  BY <1>1 DEF QueueOK, CurrentKnown, queue
<1>4. DequeInv'
  BY <1>1 DEF QueueOK, DequeInv, queue
<1> QED BY <1>1, <1>2, <1>3, <1>4 DEF QueueOK, DequeInv, queue

\* A transaction of the group is read from JSON.
LEMMA AddTxnJSONStep == IInv /\ AddTxnJSON => IInv'
<1> SUFFICES ASSUME IInv, AddTxnJSON PROVE IInv'
  OBVIOUS
<1> USE DEF IInv
<1>1. /\ k # <<>> /\ Arg \in 1..Len(OuterGroups) /\ Arg + 1 \in Nat /\ Arg + 1 > 0
      /\ nextTxnID' = nextTxnID + 1 /\ UNCHANGED queue /\ UNCHANGED returncode
      /\ nextGroupID' = nextGroupID
      /\ Become(<<CmdOf("pushTxnBack", nextTxnID), CmdOf("setupTransactions", Arg + 1)>>)
  BY HeadType DEF AddTxnJSON, Next1, Sound, Iterating, Arg
<1>2. PICK p \in OuterPayloads, u \in Users :
        transactions' = WithTransaction(NewTransaction(p, u, OuterGroups[Arg]))
  BY DEF AddTxnJSON
<1>3. NewTransaction(p, u, OuterGroups[Arg]) \in Transaction
  <2>1. p \in Payload /\ OuterGroups[Arg] \in Int
    BY <1>1, PayloadAssumption, OuterGroupsAssumption
  <2>2. u \in Nat
    <3>1. PICK i \in 1..Len(Setup) : u = Setup[i].addr
      BY DEF Users
    <3>2. Setup[i] \in AccountObject
      BY SetupAssumption
    <3> QED BY <3>1, <3>2 DEF AccountObject
  <2> QED BY <2>1, <2>2 DEF NewTransaction, Transaction, Payload, NoContext, Execution, NoGroup
<1>4. /\ TxnsOK' /\ QueueOK'
      /\ nextTxnID \in DOMAIN transactions' /\ nextTxnID \notin dequeIndexSet'
      /\ nextTxnID \in Nat /\ nextTxnID' \in Nat /\ nextTxnID' > 0 /\ nextTxnID' >= nextTxnID
  BY <1>1, <1>2, <1>3, NewTransactionKeeps
<1>5. /\ KInv' /\ k' # <<>> /\ Head(k') = CmdOf("pushTxnBack", nextTxnID)
  BY <1>1, <1>4, BecomeTwo, ImmediateCmd, IteratingCmd DEF Immediate, Iterating
<1>6. HeadReady'
  <2>1. Head(k').name = "pushTxnBack" /\ Head(k').arg = nextTxnID
    BY <1>4, <1>5, ImmediateCmd DEF Immediate
  <2> QED BY <1>4, <2>1 DEF HeadReady, CanPush
<1>7. DataOK' /\ CodeOK'
  BY <1>1, SameData DEF AddTxnJSON, CodeOK
<1> QED BY <1>4, <1>5, <1>6, <1>7

\* The commands of the scenario.
LEMMA DriverStep == IInv /\ Driver => IInv'
<1> SUFFICES ASSUME IInv, Driver PROVE IInv'
  OBVIOUS
<1>1. CASE SetupAccount
  BY <1>1, SetupAccountStep
<1>2. CASE SetupAccountsDone
  BY <1>2, OnlyDone DEF SetupAccountsDone, Next1
<1>3. CASE SetupCounters
  <2>1. k # <<>> /\ Done /\ UNCHANGED <<returncode, txns, queue>>
    BY <1>3 DEF SetupCounters, Next1
  <2>2. DataOK'
    BY <1>3 DEF SetupCounters, DataOK, teal, txns, IInv
  <2> QED BY <2>1, <2>2, SameTxns, DoneKeeps DEF CodeOK, IInv
<1>4. CASE ReadExecutionStages
  <2> DEFINE s == <<CmdOf("setupTransactions", 1), Cmd("evalTxGroup"), Cmd("checkExecutionResults")>>
  <2>1. /\ k # <<>> /\ Become(s)
        /\ UNCHANGED <<returncode, network, txns, queue, teal, touchedAccounts>>
    BY <1>4 DEF ReadExecutionStages, Next1
  <2>2. /\ CmdOf("setupTransactions", 1) \in Command
        /\ CmdOf("setupTransactions", 1).name \notin Immediate
        /\ Sound(CmdOf("setupTransactions", 1), nextTxnID)
        /\ Cmd("evalTxGroup") \in Command /\ Cmd("evalTxGroup").name \notin Immediate
        /\ Sound(Cmd("evalTxGroup"), nextTxnID)
        /\ Cmd("checkExecutionResults") \in Command
        /\ Cmd("checkExecutionResults").name \notin Immediate
        /\ Sound(Cmd("checkExecutionResults"), nextTxnID)
    BY IteratingCmd, CalmCmd, CalmNames DEF Iterating, IInv, TxnsOK
  <2>3. s \in Seq(Command) /\ s # <<>> /\ Len(s) = 3
    BY <2>2
  <2>4. \A i \in 1..Len(s) : s[i].name \notin Immediate /\ Sound(s[i], nextTxnID)
    BY <2>2
  <2> HIDE DEF s
  <2> QED BY <2>1, <2>3, <2>4, OnlyBecome
<1>5. CASE AddTxnJSON
  BY <1>5, AddTxnJSONStep
<1>6. CASE SetupTransactionsDone
  BY <1>6, OnlyDone DEF SetupTransactionsDone, Next1
<1>7. CASE CheckExecutionResults
  <2>1. k # <<>> /\ Done /\ UNCHANGED <<network, txns, queue, teal, touchedAccounts>>
    BY <1>7 DEF CheckExecutionResults, Next1
  <2>2. CodeOK'
    BY <1>7, CodeTypes DEF CheckExecutionResults, CodeOK
  <2> QED BY <2>1, <2>2, SameData, SameTxns, DoneKeeps DEF IInv, txns
<1> QED BY <1>1, <1>2, <1>3, <1>4, <1>5, <1>6, <1>7 DEF Driver

-----------------------------------------------------------------------------
(* The deque.                                                              *)
\* #pushTxnBack, #pushTxnFront and #popTxnFront.
LEMMA DequeStep == IInv /\ Deque => IInv'
<1> SUFFICES ASSUME IInv, Deque PROVE IInv'
  OBVIOUS
<1> USE DEF IInv
<1>1. ASSUME k # <<>>, CanPush(Arg), NEW q \in Seq(Nat), Schedule(Arg, q),
             \/ q = Append(deque, Arg)
             \/ q = <<Arg>> \o deque
      PROVE  IInv'
  <2>1. /\ deque' = q /\ dequeIndexSet' = dequeIndexSet \cup {Arg} /\ currentTx' = currentTx
        /\ Done /\ UNCHANGED <<returncode, network, txns, teal, touchedAccounts>>
        /\ Arg \in Nat
    BY <1>1, HeadType DEF Schedule
  <2>2. TxnsOK' /\ nextTxnID \in Nat /\ nextTxnID' = nextTxnID /\ nextTxnID' >= nextTxnID
    BY <2>1 DEF txns, TxnsOK
  <2>3. DequeInv'
    <3>1. \A i \in 1..Len(deque) : deque[i] \in dequeIndexSet /\ deque[i] # Arg
      BY <1>1 DEF QueueOK, DequeInv, CanPush
    <3>2. DOMAIN transactions' = DOMAIN transactions /\ Arg \in DOMAIN transactions
      BY <1>1, <2>1 DEF txns, CanPush
    <3>3. CASE q = Append(deque, Arg)
      <4>1. /\ Len(q) = Len(deque) + 1 /\ q[Len(q)] = Arg
            /\ \A i \in 1..Len(deque) : q[i] = deque[i]
        BY <3>3 DEF QueueOK
      <4>2. Len(deque) \in Nat
        BY DEF QueueOK
      <4>3. \A i \in 1..Len(q) : i \in 1..Len(deque) \/ i = Len(q)
        BY <4>1, <4>2
      <4> QED BY SMTT(30), <2>1, <3>1, <3>2, <4>1, <4>2, <4>3 DEF QueueOK, DequeInv
    <3>4. CASE q = <<Arg>> \o deque
      <4>1. /\ Len(q) = Len(deque) + 1 /\ q[1] = Arg
            /\ \A i \in 2..Len(q) : q[i] = deque[i - 1] /\ i - 1 \in 1..Len(deque)
        BY <3>4, <2>1 DEF QueueOK
      <4>2. \A i \in 1..Len(q) : i \in 2..Len(q) \/ i = 1
        BY <4>1 DEF QueueOK
      <4>3. \A i, j \in 1..Len(q) : i # j => q[i] # q[j]
        <5> TAKE i, j \in 1..Len(q)
        <5>1. i # j => i - 1 # j - 1
          BY <4>1
        <5> QED BY <3>1, <4>1, <4>2, <5>1 DEF QueueOK, DequeInv
      <4> QED BY <2>1, <3>1, <3>2, <4>1, <4>2, <4>3 DEF QueueOK, DequeInv
    <3> QED BY <1>1, <3>3, <3>4
  <2>4. QueueOK'
    BY <1>1, <2>1, <2>3 DEF QueueOK, CurrentKnown, txns
  <2> QED BY <1>1, <2>1, <2>2, <2>4, DoneKeeps, SameData DEF CodeOK, txns
<1>2. CASE PushTxnBack
  <2>1. k # <<>> /\ CanPush(Arg) /\ Arg \in Nat /\ Append(deque, Arg) \in Seq(Nat)
    BY <1>2, HeadType DEF PushTxnBack, Next1, HeadReady, Arg, QueueOK
  <2> QED BY <1>1, <1>2, <2>1 DEF PushTxnBack
<1>3. CASE PushTxnFront
  <2>1. k # <<>> /\ CanPush(Arg) /\ Arg \in Nat /\ <<Arg>> \o deque \in Seq(Nat)
    BY <1>3, HeadType DEF PushTxnFront, Next1, HeadReady, Arg, QueueOK
  <2> QED BY <1>1, <1>3, <2>1 DEF PushTxnFront
<1>4. CASE GetNextTxn
  <2>1. k # <<>> /\ deque # <<>>
    BY <1>4 DEF GetNextTxn, Next1, HeadReady
  <2>2. /\ currentTx' = Head(deque) /\ Done
        /\ UNCHANGED <<returncode, network, txns, deque, dequeIndexSet, teal, touchedAccounts>>
    BY <1>4, <2>1 DEF GetNextTxn
  <2>3. Head(deque) = deque[1] /\ 1 \in 1..Len(deque)
    BY <2>1 DEF QueueOK
  <2>4. Head(deque) \in DOMAIN transactions /\ Head(deque) \in Nat
    BY <2>3 DEF QueueOK, DequeInv
  <2>5. QueueOK'
    BY <2>2, <2>4 DEF QueueOK, DequeInv, CurrentKnown, txns
  <2>6. TxnsOK' /\ nextTxnID \in Nat /\ nextTxnID' = nextTxnID /\ nextTxnID' >= nextTxnID
    BY <2>2 DEF txns, TxnsOK
  <2> QED BY <2>1, <2>2, <2>5, <2>6, DoneKeeps, SameData DEF CodeOK, txns
<1>5. CASE PopTxnFront
  <2>1. /\ k # <<>> /\ Done /\ deque' = IF deque = <<>> THEN <<>> ELSE Tail(deque)
        /\ UNCHANGED <<returncode, network, txns, dequeIndexSet, currentTx, teal, touchedAccounts>>
    BY <1>5 DEF PopTxnFront, Next1
  <2>2. deque' \in Seq(Nat) /\ DequeInv'
    <3>1. CASE deque = <<>>
      BY <2>1, <3>1 DEF QueueOK, DequeInv, txns
    <3>2. CASE deque # <<>>
      <4>1. /\ deque' \in Seq(Nat)
            /\ \A i \in 1..Len(deque') : i + 1 \in 1..Len(deque) /\ deque'[i] = deque[i + 1]
        BY <2>1, <3>2 DEF QueueOK
      <4>2. \A i, j \in 1..Len(deque') : i # j => deque'[i] # deque'[j]
        <5> TAKE i, j \in 1..Len(deque')
        <5>1. i # j => i + 1 # j + 1
          BY <4>1
        <5> QED BY <4>1, <5>1 DEF QueueOK, DequeInv
      <4>3. \A i \in 1..Len(deque') : deque'[i] \in dequeIndexSet'
        BY <2>1, <4>1 DEF QueueOK, DequeInv
      <4> QED BY <2>1, <4>1, <4>2, <4>3 DEF QueueOK, DequeInv, txns
    <3> QED BY <3>1, <3>2
  <2>3. QueueOK'
    BY <2>1, <2>2 DEF QueueOK, CurrentKnown, txns
  <2>4. TxnsOK' /\ nextTxnID \in Nat /\ nextTxnID' = nextTxnID /\ nextTxnID' >= nextTxnID
    BY <2>1 DEF txns, TxnsOK
  <2> QED BY <2>1, <2>3, <2>4, DoneKeeps, SameData DEF CodeOK, txns
<1> QED BY <1>2, <1>3, <1>4, <1>5 DEF Deque

-----------------------------------------------------------------------------
(* Groups.                                                                 *)
\* What the last transaction of the deque becomes.
LEMMA EvaluationSeq ==
  ASSUME TxnsOK, nextTxnID > 0
  PROVE  /\ Evaluation \in Seq(Command) /\ Evaluation # <<>>
         /\ \A i \in 1..Len(Evaluation) : /\ i > 1 => Evaluation[i].name \notin Immediate
                                          /\ Sound(Evaluation[i], nextTxnID)
         /\ Evaluation[1] = Cmd("getNextTxn")
<1>1. /\ Cmd("getNextTxn") \in Command /\ Sound(Cmd("getNextTxn"), nextTxnID)
      /\ Cmd("evalTx") \in Command /\ Cmd("evalTx").name \notin Immediate
      /\ Sound(Cmd("evalTx"), nextTxnID)
      /\ Cmd("popTxnFront") \in Command /\ Cmd("popTxnFront").name \notin Immediate
      /\ Sound(Cmd("popTxnFront"), nextTxnID)
      /\ Cmd("evalNextTx") \in Command /\ Cmd("evalNextTx").name \notin Immediate
      /\ Sound(Cmd("evalNextTx"), nextTxnID)
  BY EvaluatingCmd, ImmediateCmd, CalmCmd, CalmNames DEF Immediate, Evaluating, TxnsOK
<1>2. Evaluation \in Seq(Command) /\ Evaluation # <<>> /\ Len(Evaluation) = 4
  BY <1>1 DEF Evaluation
<1>3. /\ Evaluation[1] = Cmd("getNextTxn") /\ Evaluation[2] = Cmd("evalTx")
      /\ Evaluation[3] = Cmd("popTxnFront") /\ Evaluation[4] = Cmd("evalNextTx")
  BY DEF Evaluation
<1>4. \A i \in 1..Len(Evaluation) : i = 1 \/ i = 2 \/ i = 3 \/ i = 4
  BY <1>2
<1> QED BY <1>1, <1>2, <1>3, <1>4

\* The evaluation of a group.
LEMMA GroupStep == IInv /\ Group => IInv'
<1> SUFFICES ASSUME IInv, Group PROVE IInv'
  OBVIOUS
<1> USE DEF IInv
<1>1. ASSUME k # <<>>, deque # <<>>,
             UNCHANGED <<returncode, network, txns, queue, teal, touchedAccounts>>,
             \/ Become(Evaluation)
             \/ Become(<<Cmd("getNextTxn"), Cmd("evalTx")>>)
      PROVE  IInv'
  <2>1. nextTxnID > 0
    <3>1. deque[1] \in DOMAIN transactions
      BY <1>1 DEF QueueOK, DequeInv
    <3> QED BY <3>1 DEF TxnsOK
  <2>2. /\ DataOK' /\ TxnsOK' /\ QueueOK' /\ CodeOK' /\ deque' # <<>>
        /\ nextTxnID \in Nat /\ nextTxnID' = nextTxnID /\ nextTxnID' >= nextTxnID
    BY <1>1, SameAll DEF queue
  <2>3. KInv' /\ k' # <<>> /\ Head(k') = Cmd("getNextTxn")
    <3>1. CASE Become(Evaluation)
      BY <1>1, <2>1, <2>2, <3>1, EvaluationSeq, BecomeKeeps
    <3>2. CASE Become(<<Cmd("getNextTxn"), Cmd("evalTx")>>)
      BY <1>1, <2>1, <2>2, <3>2, BecomeTwo, EvaluatingCmd, ImmediateCmd DEF Immediate, Evaluating
    <3> QED BY <1>1, <3>1, <3>2
  <2>4. Head(k').name = "getNextTxn"
    BY <2>2, <2>3, ImmediateCmd DEF Immediate
  <2>5. HeadReady'
    BY <2>2, <2>3, <2>4 DEF HeadReady
  <2> QED BY <2>2, <2>3, <2>5
<1>2. CASE EvalTxGroup
  BY <1>1, <1>2 DEF EvalTxGroup, Next1
<1>3. CASE EvalNextTx
  BY <1>1, <1>3 DEF EvalNextTx, Next1
<1>4. CASE GroupAccepted
  <2>1. /\ k # <<>> /\ Become(<<Cmd("checkSufficientBalance")>>) /\ returncode' = SUCCESS
        /\ UNCHANGED <<network, txns, queue, teal, touchedAccounts>>
    BY <1>4 DEF GroupAccepted, Next1
  <2>2. /\ TxnsOK' /\ QueueOK' /\ DataOK' /\ CodeOK'
        /\ nextTxnID \in Nat /\ nextTxnID' \in Nat /\ nextTxnID' >= nextTxnID
    BY <2>1, SameTxns, SameData, CodeTypes DEF CodeOK, txns
  <2>3. /\ Cmd("checkSufficientBalance") \in Command
        /\ Cmd("checkSufficientBalance").name \notin Immediate
        /\ Sound(Cmd("checkSufficientBalance"), nextTxnID')
    BY <2>2, CalmCmd, CalmNames
  <2> QED BY <2>1, <2>2, <2>3, BecomeOne
<1>5. CASE CheckSufficientBalance
  <2>1. k # <<>> /\ UNCHANGED <<network, txns, queue, teal>>
    BY <1>5 DEF CheckSufficientBalance, Next1
  <2>2. /\ TxnsOK' /\ QueueOK'
        /\ nextTxnID \in Nat /\ nextTxnID' = nextTxnID /\ nextTxnID' >= nextTxnID
    BY <2>1, SameTxns
  <2>3. DataOK'
    BY <1>5, <2>1 DEF CheckSufficientBalance, DataOK, network, txns, teal
  <2>4. CASE Done /\ UNCHANGED returncode
    BY <2>1, <2>2, <2>3, <2>4, DoneKeeps DEF CodeOK
  <2>5. CASE UNCHANGED <<k, returncode>>
    <3>1. KInv' /\ HeadReady'
      BY <2>1, <2>2, <2>5 DEF KInv, HeadReady, CanPush, queue, txns
    <3> QED BY <2>2, <2>3, <2>5, <3>1 DEF CodeOK
  <2>6. CASE Panic(MIN_BALANCE_VIOLATION)
    BY <2>1, <2>2, <2>3, <2>6, PanicKeeps, CodeTypes
  <2> QED BY <1>5, <2>4, <2>5, <2>6 DEF CheckSufficientBalance
<1> QED BY <1>2, <1>3, <1>4, <1>5 DEF Group

-----------------------------------------------------------------------------
(* Transactions.                                                           *)

\* A change of the current transaction that keeps its type.
LEMMA UpdateTxn ==
  ASSUME TxnsOK, QueueOK, UNCHANGED <<queue, nextTxnID>>,
         DOMAIN transactions' = DOMAIN transactions,
         \A t \in DOMAIN transactions : transactions'[t] \in Transaction,
         transactions' = [t \in DOMAIN transactions |-> transactions'[t]]
  PROVE  TxnsOK' /\ QueueOK' /\ nextTxnID \in Nat /\ nextTxnID' = nextTxnID /\ nextTxnID' >= nextTxnID
<1>1. TxnsOK'
  BY DEF TxnsOK
<1>2. QueueOK'
  BY SameQueue
<1> QED BY <1>1, <1>2 DEF TxnsOK

\* An application call is evaluated for the first time.
LEMMA ResumeFlagStep == IInv /\ EvalApplFirst => IInv'
<1> SUFFICES ASSUME IInv, EvalApplFirst PROVE IInv'
  OBVIOUS
<1> USE DEF IInv
<1>1. /\ k # <<>> /\ Head(k).name = "evalTx"
      /\ transactions' = [transactions EXCEPT ![currentTx].resume = TRUE]
      /\ currentTxnExecution' = [currentTxnExecution EXCEPT !.pc = 0]
      /\ Become(<<Cmd("executeTxn")>>)
      /\ UNCHANGED <<returncode, network, nextTxnID, nextGroupID, queue, innerTransactions, activeApps>>
      /\ touchedAccounts' = touchedAccounts \cup {Current.sender}
  BY DEF EvalApplFirst, Next1
<1>2. /\ nextTxnID > 0 /\ currentTx \in DOMAIN transactions /\ Current \in Transaction
  BY <1>1, CurrentType DEF Evaluating
<1>3. \A t \in DOMAIN transactions : transactions'[t] \in Transaction
  BY <1>1, <1>2 DEF TxnsOK, Transaction
<1>4. TxnsOK' /\ QueueOK' /\ nextTxnID \in Nat /\ nextTxnID' = nextTxnID /\ nextTxnID' >= nextTxnID
  BY <1>1, <1>3, UpdateTxn
<1>5. DataOK' /\ CodeOK'
  BY <1>1, <1>2 DEF DataOK, CodeOK, network, Execution, Transaction
<1>6. KInv' /\ HeadReady'
  BY <1>1, <1>2, <1>4, BecomeOne, EvaluatingCmd DEF Evaluating
<1> QED BY <1>4, <1>5, <1>6

\* An application call is resumed after its inner transactions.
LEMMA RestoreStep == IInv /\ EvalApplResume => IInv'
<1> SUFFICES ASSUME IInv, EvalApplResume PROVE IInv'
  OBVIOUS
<1> USE DEF IInv
<1>1. /\ k # <<>> /\ Head(k).name = "evalTx"
      /\ transactions' = [transactions EXCEPT ![currentTx].context = NoContext]
      /\ currentTxnExecution' = Current.context
      /\ Become(<<Cmd("fetchOpcode")>>)
      /\ UNCHANGED <<returncode, network, nextTxnID, nextGroupID, queue, innerTransactions, activeApps>>
      /\ touchedAccounts' = touchedAccounts \cup {Current.sender}
  BY DEF EvalApplResume, Next1
<1>2. /\ nextTxnID > 0 /\ currentTx \in DOMAIN transactions /\ Current \in Transaction
  BY <1>1, CurrentType DEF Evaluating
<1>3. \A t \in DOMAIN transactions : transactions'[t] \in Transaction
  <2>1. NoContext \in Execution
    BY DEF NoContext, Execution, NoGroup
  <2>2. \A t \in DOMAIN transactions : transactions[t] \in Transaction
    BY DEF TxnsOK
  <2>3. [transactions[currentTx] EXCEPT !.context = NoContext] \in Transaction
    BY <1>2, <2>1, <2>2 DEF Transaction
  <2> QED BY <1>1, <2>2, <2>3
<1>4. TxnsOK' /\ QueueOK' /\ nextTxnID \in Nat /\ nextTxnID' = nextTxnID /\ nextTxnID' >= nextTxnID
  BY <1>1, <1>3, UpdateTxn
<1>5. DataOK' /\ CodeOK'
  BY <1>1, <1>2 DEF DataOK, CodeOK, network, Transaction
<1>6. KInv' /\ HeadReady'
  BY <1>1, <1>4, BecomeOne, CalmCmd, CalmNames
<1> QED BY <1>4, <1>5, <1>6

\* The actions of an application call.
LEMMA ExecuteApplStep == IInv /\ ExecuteAppl => IInv'
<1> SUFFICES ASSUME IInv, ExecuteAppl PROVE IInv'
  OBVIOUS
<1> USE DEF IInv
<1> DEFINE post == PostOperations(Arg)
           program == <<CmdOf("initApp", Arg), Cmd("loadInputPgm"), Cmd("fetchOpcode")>>
           s == program \o post
<1>1. /\ k # <<>> /\ Head(k).name = "executeAppl" /\ Become(s)
      /\ UNCHANGED <<returncode, txns, queue, teal, touchedAccounts>>
  BY DEF ExecuteAppl, Next1
<1>2. Arg \in Nat /\ Current \in Transaction
  BY <1>1, HeadType, CurrentType DEF Evaluating
<1>3. /\ TxnsOK' /\ QueueOK'
      /\ nextTxnID \in Nat /\ nextTxnID' = nextTxnID /\ nextTxnID' >= nextTxnID
  BY <1>1, SameTxns
<1>4. /\ post \in Seq(Command)
      /\ \A i \in 1..Len(post) : post[i].name \notin Immediate /\ Sound(post[i], nextTxnID)
  <2>1. ASSUME NEW c \in Command, c.name \notin Immediate, Sound(c, nextTxnID)
        PROVE  /\ <<c>> \in Seq(Command)
               /\ \A i \in 1..Len(<<c>>) : <<c>>[i].name \notin Immediate /\ Sound(<<c>>[i], nextTxnID)
    BY <2>1
  <2>2. Current.sender \in Nat
    BY <1>2 DEF Transaction
  <2>3. CASE Current.oc \in {"NoOp", "OptIn"}
    BY <2>3 DEF PostOperations
  <2>4. CASE Current.oc \in {"CloseOut", "ClearState"}
    <3>1. post = <<CmdBy("clearState", Arg, Current.sender)>>
      BY <2>4 DEF PostOperations
    <3> HIDE DEF post
    <3> QED BY <1>2, <1>3, <2>1, <2>2, <3>1, CalmCmd, CalmNames
  <2>5. CASE Current.oc = "UpdateApplication"
    <3>1. post = <<CmdOf("updatePrograms", Arg)>>
      BY <2>5 DEF PostOperations
    <3> HIDE DEF post
    <3> QED BY <1>2, <1>3, <2>1, <3>1, CalmCmd, CalmNames
  <2>6. CASE Current.oc = "DeleteApplication"
    <3>1. post = <<CmdOf("deleteApplication", Arg)>>
      BY <2>6 DEF PostOperations
    <3> HIDE DEF post
    <3> QED BY <1>2, <1>3, <2>1, <3>1, CalmCmd, CalmNames
  <2> QED BY <1>2, <2>3, <2>4, <2>5, <2>6 DEF Transaction, OnCompletions
<1> HIDE DEF post
<1>5. /\ CmdOf("initApp", Arg) \in Command /\ CmdOf("initApp", Arg).name \notin Immediate
      /\ Sound(CmdOf("initApp", Arg), nextTxnID)
      /\ Cmd("loadInputPgm") \in Command /\ Cmd("loadInputPgm").name \notin Immediate
      /\ Sound(Cmd("loadInputPgm"), nextTxnID)
      /\ Cmd("fetchOpcode") \in Command /\ Cmd("fetchOpcode").name \notin Immediate
      /\ Sound(Cmd("fetchOpcode"), nextTxnID)
  BY <1>2, <1>3, CalmCmd, CalmNames
<1>6. /\ program \in Seq(Command) /\ Len(program) = 3
      /\ \A i \in 1..Len(program) : program[i].name \notin Immediate /\ Sound(program[i], nextTxnID)
  <2>1. program \in Seq(Command) /\ Len(program) = 3
    BY <1>5
  <2>2. \A i \in 1..Len(program) : i = 1 \/ i = 2 \/ i = 3
    BY <2>1
  <2> QED BY <1>5, <2>1, <2>2
<1> HIDE DEF program
<1>7. /\ s \in Seq(Command) /\ s # <<>> /\ 1 \in 1..Len(s)
      /\ \A i \in 1..Len(s) : s[i].name \notin Immediate /\ Sound(s[i], nextTxnID)
  <2>1. s \in Seq(Command) /\ Len(s) = 3 + Len(post) /\ Len(post) \in Nat
    <3>1. program \in Seq(Command) /\ Len(program) = 3 /\ post \in Seq(Command)
      BY <1>4, <1>6
    <3>2. s \in Seq(Command) /\ Len(s) = Len(program) + Len(post)
      BY <3>1, ConcatType
    <3> HIDE DEF s
    <3> QED BY <3>1, <3>2
  <2>2. \A i \in 1..3 : s[i] = program[i]
    BY <1>4, <1>6
  <2>3. \A i \in 4..Len(s) : s[i] = post[i - 3] /\ i - 3 \in 1..Len(post)
    BY <1>4, <1>6, <2>1
  <2> HIDE DEF s
  <2>4. ASSUME NEW i \in 1..Len(s)
        PROVE  s[i].name \notin Immediate /\ Sound(s[i], nextTxnID)
    <3>1. CASE i \in 1..3
      BY <1>6, <2>2, <3>1
    <3>2. CASE i \in 4..Len(s)
      BY <1>4, <2>3, <3>2
    <3> QED BY <2>1, <3>1, <3>2
  <2> QED BY <2>1, <2>4
<1> HIDE DEF s
<1>8. KInv' /\ HeadReady'
  BY <1>1, <1>3, <1>7, BecomeKeeps
<1>9. DataOK' /\ CodeOK'
  BY <1>1, <1>2 DEF ExecuteAppl, DataOK, CodeOK, txns, teal, Transaction
<1> QED BY <1>3, <1>8, <1>9

\* The evaluation of one transaction.
LEMMA TxnStep == IInv /\ Txn => IInv'
<1> SUFFICES ASSUME IInv, Txn PROVE IInv'
  OBVIOUS
<1> USE DEF IInv
<1>1. CASE EvalNonAppl
  <2>1. /\ k # <<>> /\ Head(k).name = "evalTx" /\ Become(<<Cmd("executeTxn")>>)
        /\ UNCHANGED <<returncode, network, txns, queue, teal>>
        /\ touchedAccounts' = touchedAccounts \cup {Current.sender}
    BY <1>1 DEF EvalNonAppl, Next1
  <2>2. nextTxnID > 0 /\ Current.sender \in Nat
    BY <2>1, CurrentType DEF Evaluating, Transaction
  <2>3. /\ TxnsOK' /\ QueueOK'
        /\ nextTxnID \in Nat /\ nextTxnID' = nextTxnID /\ nextTxnID' >= nextTxnID
    BY <2>1, SameTxns
  <2>4. DataOK' /\ CodeOK'
    BY <2>1, <2>2 DEF DataOK, CodeOK, network, txns, teal
  <2> QED BY <2>1, <2>2, <2>3, <2>4, BecomeOne, EvaluatingCmd DEF Evaluating
<1>2. CASE EvalApplFirst
  BY <1>2, ResumeFlagStep
<1>3. CASE EvalApplResume
  BY <1>3, RestoreStep
<1>4. CASE ExecuteNonAppl
  <2>1. k # <<>> /\ UNCHANGED <<network, txns, queue, teal>>
    BY <1>4 DEF ExecuteNonAppl, Next1
  <2>2. /\ TxnsOK' /\ QueueOK'
        /\ nextTxnID \in Nat /\ nextTxnID' = nextTxnID /\ nextTxnID' >= nextTxnID
    BY <2>1, SameTxns
  <2>3. DataOK'
    BY <1>4, <2>1 DEF ExecuteNonAppl, DataOK, network, txns, teal
  <2>4. CASE Done /\ UNCHANGED returncode
    BY <2>1, <2>2, <2>3, <2>4, DoneKeeps DEF CodeOK
  <2>5. CASE Panic(INSUFFICIENT_FUNDS)
    BY <2>1, <2>2, <2>3, <2>5, PanicKeeps, CodeTypes
  <2>6. CASE Become(<<Cmd("unmatched")>>) /\ UNCHANGED returncode
    BY <2>1, <2>2, <2>3, <2>6, BecomeOne, CalmCmd, CalmNames DEF CodeOK
  <2> QED BY <1>4, <2>4, <2>5, <2>6 DEF ExecuteNonAppl
<1>5. CASE CreateApplication
  <2>1. /\ k # <<>> /\ Head(k).name = "executeTxn" /\ Become(<<CmdOf("executeAppl", nextAppID)>>)
        /\ UNCHANGED <<returncode, optedIn, txns, queue, teal, touchedAccounts>>
    BY <1>5 DEF CreateApplication, IsApplCall, Next1
  <2>2. nextTxnID > 0 /\ nextAppID \in Nat
    BY <2>1, CurrentType DEF Evaluating, DataOK
  <2>3. /\ TxnsOK' /\ QueueOK'
        /\ nextTxnID \in Nat /\ nextTxnID' = nextTxnID /\ nextTxnID' >= nextTxnID
    BY <2>1, SameTxns
  <2>4. DataOK' /\ CodeOK'
    BY <1>5, <2>1, <2>2 DEF CreateApplication, AppAddress, DataOK, CodeOK, txns, teal
  <2> QED BY <2>1, <2>2, <2>3, <2>4, BecomeOne, EvaluatingCmd DEF Evaluating
<1>6. CASE CallApplication
  <2>1. /\ k # <<>> /\ Head(k).name = "executeTxn" /\ Become(<<CmdOf("executeAppl", Current.app)>>)
        /\ UNCHANGED <<returncode, network, txns, queue, teal, touchedAccounts>>
    BY <1>6 DEF CallApplication, IsApplCall, Next1
  <2>2. nextTxnID > 0 /\ Current.app \in Nat /\ nextTxnID \in Nat
    BY <2>1, CurrentType DEF Evaluating, Transaction, TxnsOK
  <2> QED BY <2>1, <2>2, OnlyBecomeOne, EvaluatingCmd DEF Evaluating
<1>7. CASE ExecuteAppl
  BY <1>7, ExecuteApplStep
<1>8. CASE ClearState \/ UpdatePrograms \/ DeleteApplication
  <2>1. /\ k # <<>> /\ Done /\ UNCHANGED <<returncode, accounts, nextAppID, txns, queue, teal, touchedAccounts>>
        /\ apps' \subseteq apps /\ optedIn' \subseteq optedIn
    BY <1>8 DEF ClearState, UpdatePrograms, DeleteApplication, Next1, network
  <2>2. DataOK'
    BY <2>1 DEF DataOK, txns, teal
  <2> QED BY <2>1, <2>2, SameTxns, DoneKeeps DEF CodeOK
<1> QED BY <1>1, <1>2, <1>3, <1>4, <1>5, <1>6, <1>7, <1>8 DEF Txn

-----------------------------------------------------------------------------
(* Programs.                                                               *)
\* The fresh TEAL state of a program.
LEMMA BlankType ==
  ASSUME DataOK, NEW g \in Int
  PROVE  Blank(g) \in Transaction
<1>1. AppAddress(currentTxnExecution.app) \in Nat
  BY DEF DataOK, Execution, AppAddress
<1> QED BY <1>1 DEF Blank, NewTransaction, Transaction, TxTypes, FieldCells, OnCompletions,
           NoContext, Execution, NoGroup

\* An opcode that only changes the execution, what is staged and the group counter.
LEMMA OpcodeKeeps ==
  ASSUME IInv, DataOK', k' = k,
         UNCHANGED <<returncode, transactions, nextTxnID, queue>>
  PROVE  IInv'
<1>1. TxnsOK' /\ QueueOK'
  BY SameQueue DEF IInv, TxnsOK
<1> QED BY <1>1 DEF IInv, KInv, HeadReady, CanPush, CodeOK, queue

\* The steps of a TEAL program.
LEMMA TealStep == IInv /\ Teal => IInv'
<1> SUFFICES ASSUME IInv, Teal PROVE IInv'
  OBVIOUS
<1> USE DEF IInv
<1>a. currentTxnExecution \in Execution /\ [currentTxnExecution EXCEPT !.pc = @ + 1] \in Execution
  BY DEF DataOK, Execution
<1>1. CASE InitApp
  <2>1. /\ k # <<>> /\ Done /\ UNCHANGED <<returncode, network, txns, queue, innerTransactions, touchedAccounts>>
    BY <1>1 DEF InitApp, Next1
  <2>2. Arg \in Nat /\ [currentTxnExecution EXCEPT !.app = Arg, !.lastGroup = NoGroup] \in Execution
    <3>1. Arg \in Nat /\ NoGroup \in Int
      BY <2>1, HeadType DEF NoGroup
    <3> QED BY <1>a, <3>1, ExecutionUpdate, Zenon
  <2>3. DataOK'
    BY <1>1, <2>1, <2>2 DEF InitApp, DataOK, network, txns
  <2> QED BY <2>1, <2>3, SameTxns, DoneKeeps DEF CodeOK
<1>2. CASE InitAppError
  BY <1>2, OnlyPanic, CodeTypes DEF InitAppError, Next1
<1>3. CASE LoadInputPgm
  BY <1>3, OnlyDone, OnlyPanic, CodeTypes DEF LoadInputPgm, Next1
<1>4. CASE OpPlain
  <2>1. DataOK'
    BY <1>4, <1>a DEF OpPlain, IncrementPC, DataOK, network, txns
  <2> QED BY <1>4, <2>1, OpcodeKeeps DEF OpPlain, txns
<1>5. CASE OpPanic
  BY <1>5, OnlyPanic, CodeTypes DEF OpPanic, Running, Next1
<1>6. CASE ItxnBegin
  <2>1. Blank(nextGroupID + 1) \in Transaction /\ nextGroupID + 1 \in Nat
    BY BlankType DEF DataOK
  <2>2. DataOK'
    BY <1>6, <1>a, <2>1 DEF ItxnBegin, IncrementPC, DataOK, network
  <2> QED BY <1>6, <2>2, OpcodeKeeps DEF ItxnBegin
<1>7. CASE ItxnNext
  <2>1. Append(innerTransactions, Blank(nextGroupID)) \in Seq(Transaction)
    BY BlankType DEF DataOK
  <2>2. DataOK'
    BY <1>7, <1>a, <2>1 DEF ItxnNext, IncrementPC, DataOK, network, txns
  <2> QED BY <1>7, <2>2, OpcodeKeeps DEF ItxnNext, txns
<1>8. CASE ItxnField
  <2> DEFINE n == Len(innerTransactions)
  <2>1. n \in 1..Len(innerTransactions) /\ innerTransactions[n] \in Transaction
    BY <1>8 DEF ItxnField, DataOK
  <2>2. PICK p \in InnerPayloads :
          innerTransactions' = [innerTransactions EXCEPT ![n] =
            NewTransaction(p, innerTransactions[n].sender, innerTransactions[n].group)]
    BY <1>8 DEF ItxnField
  <2>3. NewTransaction(p, innerTransactions[n].sender, innerTransactions[n].group) \in Transaction
    BY <2>1, PayloadAssumption DEF NewTransaction, Payload, Transaction, NoContext, Execution, NoGroup
  <2>4. innerTransactions' \in Seq(Transaction)
    BY <2>1, <2>2, <2>3 DEF DataOK
  <2>5. DataOK'
    BY <1>8, <1>a, <2>4 DEF ItxnField, IncrementPC, DataOK, network, txns
  <2> QED BY <1>8, <2>5, OpcodeKeeps DEF ItxnField, txns
<1>9. CASE ItxnSubmit
  <2>1. /\ k # <<>> /\ Become(<<CmdOf("checkItxns", 1), Cmd("executeItxnGroup")>>)
        /\ UNCHANGED <<returncode, network, txns, queue, innerTransactions, activeApps, touchedAccounts>>
    BY <1>9 DEF ItxnSubmit, Running, Next1
  <2>2. [currentTxnExecution EXCEPT !.pc = @ + 1, !.lastGroup = nextGroupID] \in Execution
    <3>1. 0 \in Nat /\ nextGroupID \in Int
      BY DEF DataOK
    <3> QED BY <1>a, <3>1, ExecutionUpdate, Zenon
  <2>3. DataOK'
    BY <1>9, <2>1, <2>2 DEF ItxnSubmit, DataOK, network, txns
  <2> QED BY SMTT(30), <2>1, <2>3, SameTxns, BecomeTwo, IteratingCmd, CalmCmd, CalmNames DEF CodeOK, Iterating
<1>10. CASE EndProgram
  <2>1. Cmd("finalizeExecution") \in Command /\ Cmd("finalizeExecution").name \notin Immediate
        /\ Sound(Cmd("finalizeExecution"), nextTxnID)
    BY CalmCmd, CalmNames DEF TxnsOK
  <2> QED BY <1>10, <2>1, OnlyBecomeOne DEF EndProgram, Next1
<1>11. CASE FetchStopped
  BY <1>11, OnlyDone DEF FetchStopped, Next1
<1>12. CASE FinalizeExecution
  <2>1. k # <<>> /\ UNCHANGED <<network, txns, queue, currentTxnExecution, innerTransactions, touchedAccounts>>
    BY <1>12 DEF FinalizeExecution, Next1
  <2>2. /\ TxnsOK' /\ QueueOK'
        /\ nextTxnID \in Nat /\ nextTxnID' = nextTxnID /\ nextTxnID' >= nextTxnID
    BY <2>1, SameTxns
  <2>3. DataOK'
    BY <1>12, <2>1 DEF FinalizeExecution, DataOK, network, txns
  <2>4. CASE Done /\ UNCHANGED returncode
    BY <2>1, <2>2, <2>3, <2>4, DoneKeeps DEF CodeOK
  <2>5. CASE Panic(ZERO_STACK) \/ Panic(BAD_STACK)
    BY <2>1, <2>2, <2>3, <2>5, PanicKeeps, CodeTypes
  <2> QED BY <1>12, <2>4, <2>5 DEF FinalizeExecution
<1> QED BY <1>1, <1>2, <1>3, <1>4, <1>5, <1>6, <1>7, <1>8, <1>9, <1>10, <1>11, <1>12 DEF Teal

-----------------------------------------------------------------------------
(* Inner groups, and the end of a run.                                     *)
\* The submission of an inner group.
LEMMA InnerStep == IInv /\ Inner => IInv'
<1> SUFFICES ASSUME IInv, Inner PROVE IInv'
  OBVIOUS
<1> USE DEF IInv
<1>1. CASE CheckItxn
  <2>1. k # <<>> /\ UNCHANGED <<network, txns, queue, teal, touchedAccounts>>
    BY <1>1 DEF CheckItxn, Next1
  <2>2. CASE Panic(TXN_INVALID) \/ Panic(ITXN_REENTRY)
    BY <2>1, <2>2, OnlyPanic, CodeTypes
  <2>3. CASE Become(<<CmdOf("checkItxns", Arg + 1)>>) /\ UNCHANGED returncode
    <3>1. Arg \in Nat /\ Arg + 1 \in Nat /\ Arg + 1 > 0
      BY <2>1, HeadType
    <3>2. CmdOf("checkItxns", Arg + 1) \in Command
          /\ CmdOf("checkItxns", Arg + 1).name \notin Immediate
          /\ Sound(CmdOf("checkItxns", Arg + 1), nextTxnID)
      BY <3>1, IteratingCmd DEF Iterating, TxnsOK
    <3> QED BY <2>1, <2>3, <3>2, OnlyBecomeOne
  <2> QED BY <1>1, <2>2, <2>3 DEF CheckItxn
<1>2. CASE CheckItxnsDone
  BY <1>2, OnlyDone DEF CheckItxnsDone, Next1
<1>3. CASE ExecuteItxnGroup
  <2>1. /\ k # <<>> /\ Become(<<Cmd("pushItxns"), Cmd("evalTxGroup")>>)
        /\ transactions' = [transactions EXCEPT ![currentTx].context = currentTxnExecution]
        /\ UNCHANGED <<returncode, network, nextTxnID, nextGroupID, queue, teal, touchedAccounts>>
    BY <1>3 DEF ExecuteItxnGroup, Next1
  <2>2. \A t \in DOMAIN transactions : transactions'[t] \in Transaction
    <3>1. \A t \in DOMAIN transactions : transactions[t] \in Transaction
      BY DEF TxnsOK
    <3>2. \A x \in Transaction : [x EXCEPT !.context = currentTxnExecution] \in Transaction
      BY DEF Transaction, DataOK
    <3> QED BY <2>1, <3>1, <3>2
  <2>3. TxnsOK' /\ QueueOK' /\ nextTxnID \in Nat /\ nextTxnID' = nextTxnID /\ nextTxnID' >= nextTxnID
    BY <2>1, <2>2, UpdateTxn DEF TxnsOK
  <2>4. DataOK' /\ CodeOK'
    BY <2>1, SameData DEF CodeOK
  <2>5. KInv' /\ HeadReady'
    BY <2>1, <2>3, BecomeTwo, CalmCmd, CalmNames
  <2> QED BY <2>3, <2>4, <2>5
<1>4. CASE PushItxns
  <2> DEFINE n == Len(innerTransactions)
  <2>1. /\ k # <<>> /\ Become(<<CmdOf("pushTxnFront", nextTxnID), Cmd("pushItxns")>>)
        /\ transactions' = WithTransaction(innerTransactions[n])
        /\ nextTxnID' = nextTxnID + 1
        /\ innerTransactions' = SubSeq(innerTransactions, 1, n - 1)
        /\ UNCHANGED <<returncode, network, nextGroupID, queue, currentTxnExecution, activeApps, touchedAccounts>>
    BY <1>4 DEF PushItxns, Next1
  <2>2. innerTransactions[n] \in Transaction /\ innerTransactions' \in Seq(Transaction)
    BY <1>4, <2>1 DEF PushItxns, DataOK
  <2>3. /\ TxnsOK' /\ QueueOK'
        /\ nextTxnID \in DOMAIN transactions' /\ nextTxnID \notin dequeIndexSet'
        /\ nextTxnID \in Nat /\ nextTxnID' \in Nat /\ nextTxnID' > 0 /\ nextTxnID' >= nextTxnID
    BY <2>1, <2>2, NewTransactionKeeps
  <2>4. DataOK' /\ CodeOK'
    BY <2>1, <2>2 DEF DataOK, CodeOK, network
  <2>5. KInv' /\ k' # <<>> /\ Head(k') = CmdOf("pushTxnFront", nextTxnID)
    <3> DEFINE c == CmdOf("pushTxnFront", nextTxnID)
               d == Cmd("pushItxns")
    <3>1. c \in Command /\ Sound(c, nextTxnID')
      BY <2>3, ImmediateCmd DEF Immediate
    <3>2. d \in Command /\ d.name \notin Immediate /\ Sound(d, nextTxnID')
      BY <2>3, CalmCmd, CalmNames
    <3>3. KInv /\ k # <<>> /\ Become(<<c, d>>)
      BY <2>1
    <3> HIDE DEF c, d
    <3>4. KInv' /\ k' # <<>> /\ Head(k') = c
      BY <2>3, <3>1, <3>2, <3>3, BecomeTwo
    <3> QED BY <3>4 DEF c
  <2>6. HeadReady'
    <3>1. Head(k').name = "pushTxnFront" /\ Head(k').arg = nextTxnID
      BY <2>3, <2>5, ImmediateCmd DEF Immediate
    <3> QED BY <2>3, <3>1 DEF HeadReady, CanPush
  <2> QED BY <2>3, <2>4, <2>5, <2>6
<1>5. CASE PushItxnsDone
  BY <1>5, OnlyDone DEF PushItxnsDone, Next1
<1> QED BY <1>1, <1>2, <1>3, <1>4, <1>5 DEF Inner

\* #stopIfError after a panic.
LEMMA StopStep == IInv /\ StopIfError => IInv'
<1> SUFFICES ASSUME IInv, StopIfError PROVE IInv'
  OBVIOUS
<1> USE DEF IInv
<1>1. /\ k # <<>> /\ k[1].name = "stopIfError" /\ k \in Seq(Command)
      /\ UNCHANGED <<returncode, network, txns, queue, teal, touchedAccounts>>
  BY DEF StopIfError, Next1, KInv
<1>2. /\ DataOK' /\ TxnsOK' /\ QueueOK' /\ CodeOK'
      /\ nextTxnID \in Nat /\ nextTxnID' = nextTxnID /\ nextTxnID' >= nextTxnID
  BY <1>1, SameAll
<1>a. ASSUME Len(k) > 1
      PROVE  /\ k[1] \in Command /\ k[2] \in Command
             /\ Tail(Tail(k)) \in Seq(Command) /\ Len(Tail(Tail(k))) = Len(k) - 2
             /\ \A i \in 1..(Len(k) - 2) : Tail(Tail(k))[i] = k[i + 2]
  <2>1. /\ Tail(k) \in Seq(Command) /\ Len(Tail(k)) = Len(k) - 1 /\ Tail(k) # <<>>
        /\ \A i \in 1..(Len(k) - 1) : Tail(k)[i] = k[i + 1]
    BY <1>1, <1>a
  <2> DEFINE t == Tail(k)
  <2> HIDE DEF t
  <2>2. t \in Seq(Command) /\ t # <<>> /\ Len(t) = Len(k) - 1 /\ Len(k) - 1 \in Nat
    BY <1>1, <2>1 DEF t
  <2>3. /\ Tail(t) \in Seq(Command) /\ Len(Tail(t)) = Len(k) - 2
        /\ \A i \in 1..(Len(k) - 2) : Tail(t)[i] = t[i + 1]
    BY <2>2
  <2>4. \A i \in 1..(Len(k) - 2) : i + 1 \in 1..(Len(k) - 1) /\ t[i + 1] = k[i + 2]
    BY <1>1, <2>1 DEF t
  <2> QED BY <1>1, <1>a, <2>3, <2>4 DEF t
<1>3. CASE Len(k) > 1 /\ IsTesting(k[2]) /\ k' = <<k[2], k[1]>> \o Tail(Tail(k))
  <2>1. /\ k' \in Seq(Command) /\ Len(k') = Len(k) /\ k'[1] = k[2] /\ k'[2] = k[1]
        /\ \A i \in 3..Len(k) : k'[i] = k[i]
    <3> DEFINE u == Tail(Tail(k))
    <3>1. /\ k[1] \in Command /\ k[2] \in Command /\ k' = <<k[2], k[1]>> \o u
          /\ u \in Seq(Command) /\ Len(u) = Len(k) - 2 /\ Len(k) \in Nat
          /\ \A i \in 1..(Len(k) - 2) : u[i] = k[i + 2]
      BY <1>1, <1>3, <1>a
    <3> HIDE DEF u
    <3>2. /\ k' \in Seq(Command) /\ Len(k') = Len(k) /\ k'[1] = k[2] /\ k'[2] = k[1]
          /\ \A i \in 3..Len(k) : k'[i] = u[i - 2] /\ i - 2 \in 1..(Len(k) - 2)
      BY <3>1
    <3>3. ASSUME NEW i \in 3..Len(k) PROVE k'[i] = k[i]
      BY <3>1, <3>2
    <3> QED BY <3>2, <3>3
  <2>2. k[2].name \notin Immediate /\ k[1].name \notin Immediate
    BY <1>1, <1>3 DEF IsTesting, TestingCommands, Immediate
  <2>3. ASSUME NEW i \in 1..Len(k')
        PROVE  k'[i].name \notin Immediate /\ Sound(k'[i], nextTxnID')
    <3>1. i = 1 \/ i = 2 \/ i \in 3..Len(k)
      BY <2>1
    <3>2. \E j \in 1..Len(k) : k'[i] = k[j] /\ k[j].name \notin Immediate
      <4>1. 1 \in 1..Len(k) /\ 2 \in 1..Len(k)
        BY <1>1, <1>3
      <4>2. CASE i \in 3..Len(k)
        <5>1. i \in 1..Len(k) /\ i \in 2..Len(k) /\ k'[i] = k[i]
          BY <1>1, <2>1, <4>2
        <5> QED BY <5>1 DEF KInv
      <4> QED BY <2>1, <2>2, <3>1, <4>1, <4>2
    <3>3. \A j \in 1..Len(k) : Sound(k[j], nextTxnID)
      BY DEF KInv
    <3> QED BY <1>2, <3>2, <3>3
  <2>4. KInv'
    BY <2>1, <2>3 DEF KInv
  <2>5. HeadReady'
    BY <2>1, <2>2 DEF HeadReady, Immediate
  <2> QED BY <1>2, <2>4, <2>5
<1>4. CASE Len(k) > 1 /\ k' = <<k[1]>> \o Tail(Tail(k))
  <2>1. /\ k' \in Seq(Command) /\ Len(k') = Len(k) - 1 /\ k'[1] = k[1]
        /\ \A i \in 2..Len(k') : k'[i] = k[i + 1]
    <3> DEFINE u == Tail(Tail(k))
    <3>1. /\ k[1] \in Command /\ k' = <<k[1]>> \o u
          /\ u \in Seq(Command) /\ Len(u) = Len(k) - 2 /\ Len(k) \in Nat
          /\ \A i \in 1..(Len(k) - 2) : u[i] = k[i + 2]
      BY <1>1, <1>4, <1>a
    <3> HIDE DEF u
    <3>2. /\ k' \in Seq(Command) /\ Len(k') = Len(k) - 1 /\ k'[1] = k[1]
          /\ \A i \in 2..Len(k') : k'[i] = u[i - 1] /\ i - 1 \in 1..(Len(k) - 2)
      BY <3>1
    <3>3. ASSUME NEW i \in 2..Len(k') PROVE k'[i] = k[i + 1]
      BY <3>1, <3>2
    <3> QED BY <3>2, <3>3
  <2>2. k[1].name \notin Immediate
    BY <1>1 DEF Immediate
  <2>3. ASSUME NEW i \in 1..Len(k')
        PROVE  k'[i].name \notin Immediate /\ Sound(k'[i], nextTxnID')
    <3>1. CASE i = 1
      BY <1>1, <1>2, <1>4, <2>1, <2>2, <3>1 DEF KInv, Sound
    <3>2. CASE i \in 2..Len(k')
      <4>1. k'[i] = k[i + 1] /\ i + 1 \in 1..Len(k) /\ i + 1 > 1
        BY <1>1, <2>1, <3>2
      <4> QED BY <1>2, <4>1 DEF KInv, Sound
    <3> QED BY <2>1, <3>1, <3>2
  <2>4. KInv'
    BY <2>1, <2>3 DEF KInv
  <2>5. HeadReady'
    BY <2>1, <2>2 DEF HeadReady, Immediate
  <2> QED BY <1>2, <2>4, <2>5
<1>5. CASE k' = <<>>
  BY <1>2, <1>5 DEF KInv, HeadReady
<1>6. CASE Done
  BY <1>1, <1>6, OnlyDone
<1> QED BY <1>3, <1>4, <1>5, <1>6 DEF StopIfError

-----------------------------------------------------------------------------
\* Every step keeps the invariant.
LEMMA NextIInv == IInv /\ [Next]_vars => IInv'
<1> SUFFICES ASSUME IInv, [Next]_vars PROVE IInv'
  OBVIOUS
<1>1. CASE Next
  BY <1>1, DriverStep, DequeStep, GroupStep, TxnStep, TealStep, InnerStep, StopStep DEF Next
<1>2. CASE UNCHANGED vars
  <2>1. DataOK' /\ TxnsOK' /\ QueueOK' /\ CodeOK'
    BY <1>2, SameAll DEF vars
  <2> QED BY <1>2, <2>1 DEF vars, txns, queue, IInv, KInv, HeadReady, CanPush
<1> QED BY <1>1, <1>2

\* The inductive invariant, of which the theorems below are consequences.
THEOREM Invariance == Spec => []IInv
BY InitIInv, NextIInv, PTL DEF Spec

\* Type correctness: for every setup, group and program, each cell holds a value
\* of its type, and transaction ids are those <nextTxnID> has handed out.
THEOREM TypeCorrect == Spec => []TypeOK
<1>1. IInv => TypeOK
  BY DEF IInv, KInv, DataOK, TxnsOK, QueueOK, CodeOK, TypeOK
<1> QED BY <1>1, Invariance, PTL

\* No transaction is ever scheduled twice, and whatever is scheduled exists.
THEOREM DequeCorrect == Spec => []DequeInv
<1>1. IInv => DequeInv
  BY DEF IInv, QueueOK
<1> QED BY <1>1, Invariance, PTL

\* #pushTxnBack, #pushTxnFront and #getNextTxn never panic.
THEOREM DequeNeverPanics == Spec => []NoDequeError
<1>1. IInv => NoDequeError
  BY DEF IInv, CodeOK, NoDequeError
<1> QED BY <1>1, Invariance, PTL

-----------------------------------------------------------------------------
(* The order of the commands on <k>.                                       *)
\* What a completion adds behind the program.
Posts      == {"clearState", "updatePrograms", "deleteApplication"}
\* A program is on the call stack.
InProgram  == {"loadInputPgm", "fetchOpcode", "finalizeExecution", "checkItxns", "executeItxnGroup"}
\* What is done for the current transaction, from the start of its execution on.
Busy       == InProgram \cup Posts
              \cup {"executeTxn", "executeAppl", "initApp", "unmatched", "popTxnFront"}
SetupNames == {"setupAccounts", "setupCounters", "readExecutionStages"}
Finals     == {"readExecutionStages", "checkExecutionResults"}
Over       == {"stopIfError", "checkExecutionResults"}

HeadIn(S) == k # <<>> /\ Head(k).name \in S

\* Command b may stand right behind command a.
After  == Posts \cup {"popTxnFront", "checkExecutionResults"}
Before == (Busy \ {"initApp", "loadInputPgm", "checkItxns", "popTxnFront"})
          \cup {"evalTx", "evalTxGroup", "evalNextTx", "checkSufficientBalance"}
Follows(a, b) ==
  \/ a = "setupAccounts" /\ b = "setupCounters"
  \/ a = "setupCounters" /\ b = "readExecutionStages"
  \/ a = "pushTxnBack" /\ b = "setupTransactions"
  \/ a = "setupTransactions" /\ b = "evalTxGroup"
  \/ a = "getNextTxn" /\ b = "evalTx"
  \/ a = "popTxnFront" /\ b = "evalNextTx"
  \/ a = "initApp" /\ b = "loadInputPgm"
  \/ a = "loadInputPgm" /\ b = "fetchOpcode"
  \/ a = "checkItxns" /\ b = "executeItxnGroup"
  \/ a = "pushTxnFront" /\ b = "pushItxns"
  \/ a = "pushItxns" /\ b = "evalTxGroup"
May(a, b) == \/ a = "stopIfError"
             \/ a \in TestingCommands /\ b = "stopIfError"
             \/ a \in Before /\ b \in After
             \/ Follows(a, b)

Ordered == \A i \in 1..(Len(k) - 1) : May(k[i].name, k[i + 1].name)
\* Only #stopIfError is behind the last command of a stage.
FinalsLast == \A i, j \in 1..Len(k) : i < j /\ k[i].name \in Finals => k[j].name = "stopIfError"
\* While the set-up is on <k> nothing else is.
SettingUp  == \E i \in 1..Len(k) : k[i].name \in SetupNames
SetupAlone == SettingUp => \A i \in 1..Len(k) : k[i].name \in SetupNames \cup {"stopIfError"}

KOrder == Ordered /\ FinalsLast /\ SetupAlone

\* The commands s may take the place of a command h.
Fits(h, s) ==
  /\ \A i \in 1..(Len(s) - 1) : May(s[i].name, s[i + 1].name)
  /\ \A b \in CommandNames : May(h, b) => May(s[Len(s)].name, b)
  /\ \A i \in 1..Len(s) : s[i].name \in Finals => h \in Finals /\ i = Len(s)
  /\ \A i \in 1..Len(s) : s[i].name \in SetupNames => h = "setupAccounts"
  /\ h \in SetupNames \ {"readExecutionStages"} =>
       \A i \in 1..Len(s) : s[i].name \in SetupNames \cup {"stopIfError"}
  /\ h # "stopIfError"

\* Dropping the head keeps the order, and the new head may follow the old one.
LEMMA DoneOrder ==
  ASSUME KInv, KOrder, k # <<>>, Done
  PROVE  /\ KOrder' /\ (SettingUp' => SettingUp)
         /\ k' # <<>> => Len(k) > 1 /\ Head(k') = k[2] /\ May(Head(k).name, Head(k').name)
         /\ Len(k') = Len(k) - 1 /\ \A i \in 1..Len(k') : k'[i] = k[i + 1]
<1>1. /\ k \in Seq(Command) /\ k' \in Seq(Command) /\ Len(k') = Len(k) - 1 /\ Head(k) = k[1]
      /\ \A i \in 1..Len(k') : i + 1 \in 2..Len(k) /\ k'[i] = k[i + 1]
  BY DEF KInv, Done
<1>2. k' # <<>> => /\ Len(k) > 1 /\ Head(k') = k[2] /\ 1 \in 1..(Len(k) - 1)
  BY <1>1
<1>3. Ordered'
  BY <1>1 DEF KOrder, Ordered
<1>4. FinalsLast'
  <2>1. ASSUME NEW i \in 1..Len(k'), NEW j \in 1..Len(k'), i < j, k'[i].name \in Finals
        PROVE  k'[j].name = "stopIfError"
    <3>1. i + 1 \in 1..Len(k) /\ j + 1 \in 1..Len(k) /\ i + 1 < j + 1
      BY <1>1, <2>1
    <3> QED BY <1>1, <2>1, <3>1 DEF KOrder, FinalsLast
  <2> QED BY <2>1 DEF FinalsLast
<1>5. SettingUp' => SettingUp
  BY <1>1 DEF SettingUp
<1>6. SetupAlone'
  BY <1>1, <1>5 DEF KOrder, SetupAlone
<1>7. k' # <<>> => May(Head(k).name, Head(k').name)
  BY <1>1, <1>2 DEF KOrder, Ordered
<1> QED BY <1>1, <1>2, <1>3, <1>4, <1>5, <1>6, <1>7 DEF KOrder

\* What <k> is after its head has been replaced.
LEMMA BecomeSeq ==
  ASSUME KInv, k # <<>>, NEW s \in Seq(Command), s # <<>>, Become(s)
  PROVE  /\ k' \in Seq(Command) /\ k' # <<>> /\ Head(k') = s[1]
         /\ Len(s) \in Nat \ {0} /\ Len(k) \in Nat \ {0} /\ Len(k') = Len(s) + Len(k) - 1
         /\ \A i \in 1..Len(s) : k'[i] = s[i]
         /\ \A i \in (Len(s) + 1)..Len(k') : /\ i - Len(s) + 1 \in 2..Len(k)
                                             /\ k'[i] = k[i - Len(s) + 1]
<1>1. k \in Seq(Command) /\ k' = s \o Tail(k)
  BY DEF KInv, Become
<1>2. /\ Tail(k) \in Seq(Command) /\ Len(Tail(k)) = Len(k) - 1 /\ Len(k) \in Nat \ {0}
      /\ Len(s) \in Nat \ {0}
      /\ \A i \in 1..Len(Tail(k)) : i + 1 \in 2..Len(k) /\ Tail(k)[i] = k[i + 1]
  BY <1>1
<1>3. /\ k' \in Seq(Command) /\ Len(k') = Len(s) + Len(Tail(k))
      /\ \A i \in 1..Len(s) : k'[i] = s[i]
      /\ \A i \in (Len(s) + 1)..Len(k') : i - Len(s) \in 1..Len(Tail(k)) /\ k'[i] = Tail(k)[i - Len(s)]
  BY <1>1, <1>2
<1>4. k' # <<>> /\ Head(k') = s[1]
  BY <1>2, <1>3
<1> QED BY <1>2, <1>3, <1>4

\* Replacing the head by commands that fit keeps the order.
LEMMA BecomeOrder ==
  ASSUME KInv, KOrder, k # <<>>, NEW s \in Seq(Command), s # <<>>, Become(s), Fits(Head(k).name, s)
  PROVE  KOrder' /\ (SettingUp' => SettingUp)
<1> DEFINE n == Len(s)
           h == Head(k).name
<1>1. /\ k' \in Seq(Command) /\ n \in Nat \ {0} /\ Len(k) \in Nat \ {0}
      /\ Len(k') = n + Len(k) - 1
      /\ \A i \in 1..n : k'[i] = s[i]
      /\ \A i \in (n + 1)..Len(k') : /\ i - n + 1 \in 2..Len(k)
                                     /\ k'[i] = k[i - n + 1]
  BY BecomeSeq
<1>2. h = k[1].name /\ k \in Seq(Command) /\ \A i \in 1..Len(k) : k[i].name \in CommandNames
  <2>1. k \in Seq(Command) /\ Head(k) = k[1] /\ \A i \in 1..Len(k) : k[i] \in Command
    BY DEF KInv
  <2> QED BY <2>1 DEF Command
<1>3. Fits(h, s)
  OBVIOUS
<1> HIDE DEF n, h
<1>4. Ordered'
  <2>1. SUFFICES ASSUME NEW i \in 1..(Len(k') - 1) PROVE May(k'[i].name, k'[i + 1].name)
    BY <1>1 DEF Ordered
  <2>2. CASE i < n
    <3>1. i \in 1..(n - 1) /\ k'[i] = s[i] /\ k'[i + 1] = s[i + 1]
      BY <1>1, <2>2
    <3> QED BY <1>3, <3>1 DEF Fits, n
  <2>3. CASE i = n
    <3>1. k'[i] = s[n] /\ k'[i + 1] = k[2] /\ 1 \in 1..(Len(k) - 1) /\ 2 \in 1..Len(k)
      BY <1>1, <2>3
    <3>2. May(h, k[2].name)
      BY <1>2, <3>1 DEF KOrder, Ordered
    <3> QED BY <1>2, <1>3, <3>1, <3>2 DEF Fits, n
  <2>4. CASE i > n
    <3>1. /\ k'[i] = k[i - n + 1] /\ k'[i + 1] = k[(i - n + 1) + 1]
          /\ i - n + 1 \in 1..(Len(k) - 1)
      BY <1>1, <2>4
    <3> QED BY <3>1 DEF KOrder, Ordered
  <2> QED BY <1>1, <2>2, <2>3, <2>4
<1>5. FinalsLast'
  <2>1. SUFFICES ASSUME NEW i \in 1..Len(k'), NEW j \in 1..Len(k'), i < j, k'[i].name \in Finals
                 PROVE  k'[j].name = "stopIfError"
    BY DEF FinalsLast
  <2>2. CASE i <= n
    <3>1. i \in 1..n /\ k'[i] = s[i]
      BY <1>1, <2>2
    <3>2. h \in Finals /\ i = n
      BY <1>3, <2>1, <3>1 DEF Fits, n
    <3>3. /\ k'[j] = k[j - n + 1] /\ j - n + 1 \in 2..Len(k) /\ 1 \in 1..Len(k)
          /\ j - n + 1 \in 1..Len(k) /\ 1 < j - n + 1
      BY <1>1, <2>1, <3>2
    <3> QED BY <1>2, <3>2, <3>3 DEF KOrder, FinalsLast
  <2>3. CASE i > n
    <3>1. /\ k'[i] = k[i - n + 1] /\ k'[j] = k[j - n + 1]
          /\ i - n + 1 \in 1..Len(k) /\ j - n + 1 \in 1..Len(k) /\ i - n + 1 < j - n + 1
      BY <1>1, <2>1, <2>3
    <3> QED BY <2>1, <3>1 DEF KOrder, FinalsLast
  <2> QED BY <1>1, <2>2, <2>3
<1>6. ASSUME NEW i \in 1..Len(k') PROVE k'[i].name \in SetupNames => SettingUp
  <2>1. CASE i <= n
    <3>1. i \in 1..n /\ k'[i] = s[i]
      BY <1>1, <2>1
    <3>2. k'[i].name \in SetupNames => h \in SetupNames
      BY <1>3, <3>1 DEF Fits, n, SetupNames
    <3>3. 1 \in 1..Len(k)
      BY <1>1
    <3> QED BY <1>2, <3>2, <3>3 DEF SettingUp
  <2>2. CASE i > n
    <3>1. i - n + 1 \in 1..Len(k) /\ k'[i] = k[i - n + 1]
      BY <1>1, <2>2
    <3> QED BY <3>1 DEF SettingUp
  <2> QED BY <1>1, <2>1, <2>2
<1>7. SettingUp' => SettingUp
  BY <1>6 DEF SettingUp
<1>8. SetupAlone'
  <2>1. SUFFICES ASSUME SettingUp', NEW i \in 1..Len(k')
                 PROVE  k'[i].name \in SetupNames \cup {"stopIfError"}
    BY DEF SetupAlone
  <2>2. /\ \A j \in 1..Len(k) : k[j].name \in SetupNames \cup {"stopIfError"}
        /\ h \in SetupNames \cup {"stopIfError"}
    BY <1>1, <1>2, <1>7, <2>1 DEF KOrder, SetupAlone
  <2>3. CASE h = "readExecutionStages"
    <3>1. ASSUME NEW j \in 2..Len(k) PROVE k[j].name = "stopIfError"
      <4>1. 1 \in 1..Len(k) /\ j \in 1..Len(k) /\ 1 < j
        BY <1>1
      <4> QED BY <1>2, <2>3, <4>1 DEF KOrder, FinalsLast, Finals
    <3>2. PICK j \in 1..Len(k') : k'[j].name \in SetupNames
      BY <2>1 DEF SettingUp
    <3>3. CASE j <= n
      BY <1>1, <1>3, <2>3, <3>2, <3>3 DEF Fits, n
    <3>4. CASE j > n
      <4>1. j - n + 1 \in 2..Len(k) /\ k'[j] = k[j - n + 1]
        BY <1>1, <3>4
      <4> QED BY <3>1, <3>2, <4>1 DEF SetupNames
    <3> QED BY <1>1, <3>3, <3>4
  <2>4. CASE h \in SetupNames \ {"readExecutionStages"}
    <3>1. CASE i <= n
      BY <1>1, <1>3, <2>4, <3>1 DEF Fits, n
    <3>2. CASE i > n
      <4>1. i - n + 1 \in 1..Len(k) /\ k'[i] = k[i - n + 1]
        BY <1>1, <3>2
      <4> QED BY <2>2, <4>1
    <3> QED BY <1>1, <3>1, <3>2
  <2>5. h # "stopIfError"
    BY <1>3 DEF Fits
  <2> QED BY <2>2, <2>3, <2>4, <2>5
<1> QED BY <1>4, <1>5, <1>7, <1>8 DEF KOrder

\* The ways #stopIfError leaves <k>.
LEMMA StopSeq ==
  ASSUME KInv, StopIfError
  PROVE  /\ k # <<>> /\ k \in Seq(Command) /\ Head(k) = k[1] /\ k[1].name = "stopIfError"
         /\ \/ /\ Len(k) > 1 /\ IsTesting(k[2]) /\ k' \in Seq(Command) /\ Len(k') = Len(k)
               /\ k'[1] = k[2] /\ k'[2] = k[1] /\ \A i \in 3..Len(k) : k'[i] = k[i]
            \/ /\ Len(k) > 1 /\ returncode # SUCCESS /\ k' \in Seq(Command)
               /\ Len(k') = Len(k) - 1 /\ k'[1] = k[1]
               /\ \A i \in 2..(Len(k) - 1) : k'[i] = k[i + 1]
            \/ k' = <<>>
            \/ returncode = SUCCESS /\ Done
<1>1. k # <<>> /\ k \in Seq(Command) /\ Head(k) = k[1] /\ k[1].name = "stopIfError" /\ Len(k) \in Nat
  BY DEF StopIfError, Next1, KInv
<1>2. ASSUME Len(k) > 1
      PROVE  /\ k[1] \in Command /\ k[2] \in Command
             /\ Tail(Tail(k)) \in Seq(Command) /\ Len(Tail(Tail(k))) = Len(k) - 2
             /\ \A i \in 1..(Len(k) - 2) : Tail(Tail(k))[i] = k[i + 2]
  <2> DEFINE t == Tail(k)
  <2>1. /\ t \in Seq(Command) /\ Len(t) = Len(k) - 1 /\ t # <<>>
        /\ \A i \in 1..(Len(k) - 1) : t[i] = k[i + 1]
    <3>1. t \in Seq(Command) /\ Len(t) = Len(k) - 1 /\ \A i \in 1..(Len(k) - 1) : t[i] = k[i + 1]
      BY <1>1
    <3> HIDE DEF t
    <3> QED BY <1>1, <1>2, <3>1
  <2> HIDE DEF t
  <2>2. /\ Tail(t) \in Seq(Command) /\ Len(Tail(t)) = Len(k) - 2
        /\ \A i \in 1..(Len(k) - 2) : Tail(t)[i] = t[i + 1]
    BY <1>1, <2>1
  <2>3. \A i \in 1..(Len(k) - 2) : i + 1 \in 1..(Len(k) - 1) /\ t[i + 1] = k[i + 2]
    BY <1>1, <2>1
  <2> QED BY <1>1, <1>2, <2>2, <2>3 DEF t
<1> DEFINE u == Tail(Tail(k))
<1>3. CASE Len(k) > 1 /\ IsTesting(k[2]) /\ k' = <<k[2], k[1]>> \o u
  <2>1. /\ k[1] \in Command /\ k[2] \in Command /\ u \in Seq(Command) /\ Len(u) = Len(k) - 2
        /\ \A i \in 1..(Len(k) - 2) : u[i] = k[i + 2]
    BY <1>2, <1>3
  <2> HIDE DEF u
  <2>2. /\ k' \in Seq(Command) /\ Len(k') = Len(k) /\ k'[1] = k[2] /\ k'[2] = k[1]
        /\ \A i \in 3..Len(k) : k'[i] = u[i - 2] /\ i - 2 \in 1..(Len(k) - 2)
    BY <1>1, <1>3, <2>1
  <2>3. ASSUME NEW i \in 3..Len(k) PROVE k'[i] = k[i]
    BY <1>1, <2>1, <2>2
  <2> QED BY <1>1, <1>3, <2>2, <2>3
<1>4. CASE returncode # SUCCESS /\ Len(k) > 1 /\ k' = <<k[1]>> \o u
  <2>1. /\ k[1] \in Command /\ u \in Seq(Command) /\ Len(u) = Len(k) - 2
        /\ \A i \in 1..(Len(k) - 2) : u[i] = k[i + 2]
    BY <1>2, <1>4
  <2> HIDE DEF u
  <2>2. /\ k' \in Seq(Command) /\ Len(k') = Len(k) - 1 /\ k'[1] = k[1]
        /\ \A i \in 2..(Len(k) - 1) : k'[i] = u[i - 1] /\ i - 1 \in 1..(Len(k) - 2)
    BY <1>1, <1>4, <2>1
  <2>3. ASSUME NEW i \in 2..(Len(k) - 1) PROVE k'[i] = k[i + 1]
    BY <1>1, <2>1, <2>2
  <2> QED BY <1>1, <1>4, <2>2, <2>3
<1> QED BY <1>1, <1>3, <1>4 DEF StopIfError

\* Stopping keeps the order: commands are dropped, or the driver's own moved to
\* the front.
LEMMA StopOrder ==
  ASSUME KInv, KOrder, StopIfError
  PROVE  /\ KOrder' /\ (SettingUp' => SettingUp)
         /\ \A i \in 1..Len(k') : \E j \in 1..Len(k) : k'[i] = k[j]
         /\ k' # <<>> => \/ Head(k').name = "stopIfError"
                         \/ Head(k').name \in TestingCommands
                         \/ returncode = SUCCESS /\ Done
<1>1. /\ k # <<>> /\ k \in Seq(Command) /\ Head(k) = k[1] /\ k[1].name = "stopIfError"
      /\ Len(k) \in Nat \ {0}
  BY StopSeq
<1>2. CASE /\ Len(k) > 1 /\ IsTesting(k[2]) /\ k' \in Seq(Command) /\ Len(k') = Len(k)
           /\ k'[1] = k[2] /\ k'[2] = k[1] /\ \A i \in 3..Len(k) : k'[i] = k[i]
  <2>1. \A i \in 1..Len(k) : i = 1 \/ i = 2 \/ i \in 3..Len(k)
    BY <1>1
  <2>2. \A i \in 1..Len(k') : \E j \in 1..Len(k) : k'[i] = k[j]
    BY <1>1, <1>2, <2>1
  <2>3. Ordered'
    <3>1. SUFFICES ASSUME NEW i \in 1..(Len(k') - 1) PROVE May(k'[i].name, k'[i + 1].name)
      BY DEF Ordered
    <3>2. CASE i = 1
      BY <1>1, <1>2, <3>2 DEF May, IsTesting
    <3>3. CASE i = 2
      BY <1>1, <1>2, <3>3 DEF May
    <3>4. CASE i \in 3..Len(k)
      <4>1. i \in 1..(Len(k) - 1) /\ k'[i] = k[i] /\ k'[i + 1] = k[i + 1]
        BY <1>1, <1>2, <3>4
      <4> QED BY <4>1 DEF KOrder, Ordered
    <3> QED BY <1>1, <1>2, <3>2, <3>3, <3>4
  <2>4. FinalsLast'
    <3>1. SUFFICES ASSUME NEW i \in 1..Len(k'), NEW j \in 1..Len(k'), i < j, k'[i].name \in Finals
                   PROVE  k'[j].name = "stopIfError"
      BY DEF FinalsLast
    <3>2. CASE j = 2
      BY <1>1, <1>2, <3>2
    <3>3. CASE j \in 3..Len(k)
      <4>1. k'[j] = k[j] /\ j \in 1..Len(k)
        BY <1>1, <1>2, <3>3
      <4>2. CASE i = 1
        BY <1>1, <1>2, <3>1, <3>3, <4>1, <4>2 DEF KOrder, FinalsLast
      <4>3. CASE i = 2
        BY <1>1, <1>2, <3>1, <4>3 DEF Finals
      <4>4. CASE i \in 3..Len(k)
        BY <1>1, <1>2, <3>1, <4>1, <4>4 DEF KOrder, FinalsLast
      <4> QED BY <1>2, <2>1, <4>2, <4>3, <4>4
    <3> QED BY <1>2, <2>1, <3>1, <3>2, <3>3
  <2>5. /\ SettingUp' => SettingUp
        /\ SetupAlone'
    BY <2>2 DEF SettingUp, SetupAlone, KOrder
  <2>6. k' # <<>> => Head(k') = k[2]
    BY <1>1, <1>2
  <2> QED BY <1>2, <2>2, <2>3, <2>4, <2>5, <2>6 DEF KOrder, IsTesting
<1>3. CASE /\ Len(k) > 1 /\ returncode # SUCCESS /\ k' \in Seq(Command)
           /\ Len(k') = Len(k) - 1 /\ k'[1] = k[1]
           /\ \A i \in 2..(Len(k) - 1) : k'[i] = k[i + 1]
  <2>1. \A i \in 1..Len(k') : i = 1 \/ i \in 2..(Len(k) - 1)
    BY <1>1, <1>3
  <2>2. \A i \in 1..Len(k') : \E j \in 1..Len(k) : k'[i] = k[j]
    BY <1>1, <1>3, <2>1
  <2>3. Ordered'
    <3>1. SUFFICES ASSUME NEW i \in 1..(Len(k') - 1) PROVE May(k'[i].name, k'[i + 1].name)
      BY DEF Ordered
    <3>2. CASE i = 1
      BY <1>1, <1>3, <3>2 DEF May
    <3>3. CASE i \in 2..(Len(k) - 1)
      <4>1. i + 1 \in 1..(Len(k) - 1) /\ k'[i] = k[i + 1] /\ k'[i + 1] = k[(i + 1) + 1]
        BY <1>1, <1>3, <3>3
      <4> QED BY <4>1 DEF KOrder, Ordered
    <3> QED BY <1>1, <1>3, <3>2, <3>3
  <2>4. FinalsLast'
    <3>1. SUFFICES ASSUME NEW i \in 1..Len(k'), NEW j \in 1..Len(k'), i < j, k'[i].name \in Finals
                   PROVE  k'[j].name = "stopIfError"
      BY DEF FinalsLast
    <3>2. i # 1
      BY <1>1, <1>3, <3>1 DEF Finals
    <3>3. k'[i] = k[i + 1] /\ k'[j] = k[j + 1] /\ i + 1 \in 1..Len(k) /\ j + 1 \in 1..Len(k)
      BY <1>1, <1>3, <3>1, <3>2
    <3> QED BY <3>1, <3>3 DEF KOrder, FinalsLast
  <2>5. /\ SettingUp' => SettingUp
        /\ SetupAlone'
    BY <2>2 DEF SettingUp, SetupAlone, KOrder
  <2>6. k' # <<>> => Head(k') = k[1]
    BY <1>1, <1>3
  <2> QED BY <1>1, <2>2, <2>3, <2>4, <2>5, <2>6 DEF KOrder
<1>4. CASE k' = <<>>
  BY <1>4 DEF KOrder, Ordered, FinalsLast, SettingUp, SetupAlone
<1>5. CASE returncode = SUCCESS /\ Done
  <2>1. KOrder' /\ (SettingUp' => SettingUp)
    BY <1>1, <1>5, DoneOrder
  <2>2. \A i \in 1..Len(k') : i + 1 \in 1..Len(k) /\ k'[i] = k[i + 1]
    BY <1>1, <1>5 DEF Done
  <2> QED BY <1>5, <2>1, <2>2
<1> QED BY StopSeq, <1>2, <1>3, <1>4, <1>5

-----------------------------------------------------------------------------
(* How the actions rewrite <k>.                                            *)
\* A panic fits wherever it is raised.
LEMMA FitsPanic ==
  ASSUME NEW h, h # "stopIfError", NEW code, Panic(code)
  PROVE  \E s \in Seq(Command) : /\ s # <<>> /\ Become(s) /\ Fits(h, s)
                                 /\ s[1].name = "stopIfError"
<1> DEFINE s == <<Cmd("stopIfError")>>
<1>1. Cmd("stopIfError") \in Command /\ Cmd("stopIfError").name = "stopIfError"
  BY CmdType DEF CommandNames
<1>2. s \in Seq(Command) /\ s # <<>> /\ Become(s) /\ Len(s) = 1 /\ s[1].name = "stopIfError"
  BY <1>1 DEF Panic
<1> HIDE DEF s
<1>3. Fits(h, s)
  BY <1>2 DEF Fits, May, Finals, SetupNames
<1> QED BY <1>2, <1>3

\* One command fits if whatever may follow the old one may follow it.
LEMMA FitsOne ==
  ASSUME NEW h, h # "stopIfError", NEW c \in Command, Become(<<c>>),
         \A b \in CommandNames : May(h, b) => May(c.name, b),
         c.name \notin Finals, c.name \in SetupNames => h = "setupAccounts",
         h \in SetupNames => c.name \in SetupNames
  PROVE  \E s \in Seq(Command) : /\ s # <<>> /\ Become(s) /\ Fits(h, s)
                                 /\ s[1] = c
<1> DEFINE s == <<c>>
<1>1. s \in Seq(Command) /\ s # <<>> /\ Become(s) /\ Len(s) = 1 /\ s[1] = c
  OBVIOUS
<1> HIDE DEF s
<1>2. Fits(h, s)
  BY <1>1 DEF Fits
<1> QED BY <1>1, <1>2

\* Two commands fit if the second may follow the first, and may be followed.
LEMMA FitsTwo ==
  ASSUME NEW h, h # "stopIfError", NEW c \in Command, NEW d \in Command, Become(<<c, d>>),
         May(c.name, d.name),
         \A b \in CommandNames : May(h, b) => May(d.name, b),
         c.name \notin Finals \cup SetupNames, d.name \notin Finals \cup SetupNames,
         h \notin SetupNames
  PROVE  \E s \in Seq(Command) : /\ s # <<>> /\ Become(s) /\ Fits(h, s)
                                 /\ s[1] = c
<1> DEFINE s == <<c, d>>
<1>1. s \in Seq(Command) /\ s # <<>> /\ Become(s) /\ Len(s) = 2 /\ s[1] = c /\ s[2] = d
  OBVIOUS
<1> HIDE DEF s
<1>2. \A i \in 1..Len(s) : i = 1 \/ i = 2
  BY <1>1
<1>3. Fits(h, s)
  BY <1>1, <1>2 DEF Fits
<1> QED BY <1>1, <1>3

\* The same, of names.
NameFits(h, c) == \A b \in CommandNames : May(h, b) => May(c, b)

LEMMA NamesFit ==
  /\ NameFits("setupAccounts", "setupAccounts")
  /\ NameFits("setupTransactions", "setupTransactions")
  /\ NameFits("evalNextTx", "checkSufficientBalance")
  /\ \A a \in {"evalTxGroup", "evalNextTx"} : NameFits(a, "evalTx") /\ NameFits(a, "evalNextTx")
  /\ NameFits("evalTx", "executeTxn") /\ NameFits("evalTx", "fetchOpcode")
  /\ NameFits("executeTxn", "unmatched") /\ NameFits("executeTxn", "executeAppl")
  /\ \A b \in {"fetchOpcode"} \cup Posts : NameFits("executeAppl", b)
  /\ NameFits("fetchOpcode", "executeItxnGroup") /\ NameFits("fetchOpcode", "finalizeExecution")
  /\ NameFits("checkItxns", "checkItxns")
  /\ NameFits("executeItxnGroup", "evalTxGroup")
  /\ NameFits("pushItxns", "pushItxns")
BY DEF NameFits, May, Follows, Before, After, Busy, InProgram, Posts, TestingCommands

\* What may stand behind what.
LEMMA MayFacts ==
  /\ May("pushTxnBack", "setupTransactions") /\ May("pushTxnFront", "pushItxns")
  /\ May("getNextTxn", "evalTx") /\ May("evalTx", "popTxnFront") /\ May("popTxnFront", "evalNextTx")
  /\ May("checkItxns", "executeItxnGroup") /\ May("pushItxns", "evalTxGroup")
  /\ May("initApp", "loadInputPgm") /\ May("loadInputPgm", "fetchOpcode")
  /\ May("setupTransactions", "evalTxGroup") /\ May("evalTxGroup", "checkExecutionResults")
  /\ \A b \in Posts : May("fetchOpcode", b)
BY DEF May, Follows, Before, After, Busy, InProgram, Posts, TestingCommands

\* The evaluation of one transaction after another.
LEMMA FitsEvaluation ==
  ASSUME NEW h \in {"evalTxGroup", "evalNextTx"}, Become(Evaluation)
  PROVE  \E s \in Seq(Command) : /\ s # <<>> /\ Become(s) /\ Fits(h, s)
                                 /\ s[1] = Cmd("getNextTxn")
<1>1. /\ \A c \in {"getNextTxn", "evalTx", "popTxnFront", "evalNextTx"} :
           Cmd(c) \in Command /\ Cmd(c).name = c
      /\ Evaluation = <<Cmd("getNextTxn"), Cmd("evalTx"), Cmd("popTxnFront"), Cmd("evalNextTx")>>
  BY CmdType DEF CommandNames, Evaluation
<1> DEFINE s == Evaluation
<1>2. /\ s \in Seq(Command) /\ s # <<>> /\ Become(s) /\ Len(s) = 4 /\ s[1] = Cmd("getNextTxn")
      /\ s[1].name = "getNextTxn" /\ s[2].name = "evalTx" /\ s[3].name = "popTxnFront"
      /\ s[4].name = "evalNextTx"
  BY <1>1
<1> HIDE DEF s
<1>3. /\ \A i \in 1..Len(s) : i = 1 \/ i = 2 \/ i = 3 \/ i = 4
      /\ \A i \in 1..(Len(s) - 1) : i = 1 \/ i = 2 \/ i = 3
  BY <1>2
<1>4. \A i \in 1..(Len(s) - 1) : May(s[i].name, s[i + 1].name)
  BY <1>2, <1>3, MayFacts
<1>5. \A b \in CommandNames : May(h, b) => May(s[Len(s)].name, b)
  BY <1>2, NamesFit DEF NameFits
<1>6. \A i \in 1..Len(s) : s[i].name \notin Finals \cup SetupNames
  BY <1>2, <1>3 DEF Finals, SetupNames
<1>7. Fits(h, s)
  BY <1>4, <1>5, <1>6 DEF Fits, SetupNames
<1> QED BY <1>2, <1>7

\* The stage, once the network is set up.
LEMMA FitsStage ==
  ASSUME NEW s, s = <<CmdOf("setupTransactions", 1), Cmd("evalTxGroup"), Cmd("checkExecutionResults")>>
  PROVE  s \in Seq(Command) /\ s # <<>> /\ Fits("readExecutionStages", s)
         /\ s[1] = CmdOf("setupTransactions", 1)
<1>1. /\ \A c \in {"evalTxGroup", "checkExecutionResults"} : Cmd(c) \in Command /\ Cmd(c).name = c
      /\ CmdOf("setupTransactions", 1) \in Command
      /\ CmdOf("setupTransactions", 1).name = "setupTransactions"
  BY CmdType DEF CommandNames, TestingCommands
<1>2. /\ s \in Seq(Command) /\ s # <<>> /\ Len(s) = 3 /\ s[1] = CmdOf("setupTransactions", 1)
      /\ s[1].name = "setupTransactions" /\ s[2].name = "evalTxGroup"
      /\ s[3].name = "checkExecutionResults"
  BY <1>1
<1>3. /\ \A i \in 1..Len(s) : i = 1 \/ i = 2 \/ i = 3
      /\ \A i \in 1..(Len(s) - 1) : i = 1 \/ i = 2
  BY <1>2
<1>4. \A i \in 1..(Len(s) - 1) : May(s[i].name, s[i + 1].name)
  BY <1>2, <1>3, MayFacts
<1>5. \A b \in CommandNames : May("readExecutionStages", b) => May(s[Len(s)].name, b)
  BY <1>2 DEF May, Follows, Before, Busy, InProgram, Posts, TestingCommands
<1>6. \A i \in 1..Len(s) : /\ s[i].name \in Finals => i = Len(s)
                           /\ s[i].name \notin SetupNames
  BY <1>2, <1>3 DEF Finals, SetupNames
<1> QED BY <1>2, <1>4, <1>5, <1>6 DEF Fits, Finals

\* A program, with what its completion adds.
LEMMA FitsProgram ==
  ASSUME NEW s, NEW a \in Nat, NEW c, c = <<>> \/ (\E d \in Command : c = <<d>> /\ d.name \in Posts),
         s = <<CmdOf("initApp", a), Cmd("loadInputPgm"), Cmd("fetchOpcode")>> \o c
  PROVE  s \in Seq(Command) /\ s # <<>> /\ Fits("executeAppl", s) /\ s[1] = CmdOf("initApp", a)
<1>1. /\ \A n \in {"loadInputPgm", "fetchOpcode"} : Cmd(n) \in Command /\ Cmd(n).name = n
      /\ CmdOf("initApp", a) \in Command /\ CmdOf("initApp", a).name = "initApp"
  BY CmdType DEF CommandNames
<1> DEFINE p == <<CmdOf("initApp", a), Cmd("loadInputPgm"), Cmd("fetchOpcode")>>
<1>2. /\ p \in Seq(Command) /\ Len(p) = 3 /\ p[1] = CmdOf("initApp", a)
      /\ p[1].name = "initApp" /\ p[2].name = "loadInputPgm" /\ p[3].name = "fetchOpcode"
  BY <1>1
<1>p. s = p \o c
  OBVIOUS
<1> HIDE DEF p
<1>3. CASE c = <<>>
  <2>1. /\ s \in Seq(Command) /\ s # <<>> /\ Len(s) = 3 /\ s[1] = p[1] /\ s[2] = p[2] /\ s[3] = p[3]
    <3>1. c \in Seq(Command) /\ Len(c) = 0
      BY <1>3
    <3> HIDE <1>3
    <3> QED BY <1>2, <1>p, <3>1, ConcatType
  <2>2. /\ \A i \in 1..Len(s) : i = 1 \/ i = 2 \/ i = 3
        /\ \A i \in 1..(Len(s) - 1) : i = 1 \/ i = 2
    BY <2>1
  <2>3. \A i \in 1..(Len(s) - 1) : May(s[i].name, s[i + 1].name)
    BY <1>2, <2>1, <2>2, MayFacts
  <2>4. \A b \in CommandNames : May("executeAppl", b) => May(s[Len(s)].name, b)
    BY <1>2, <2>1, NamesFit DEF NameFits
  <2>5. \A i \in 1..Len(s) : s[i].name \notin Finals \cup SetupNames
    BY <1>2, <2>1, <2>2 DEF Finals, SetupNames
  <2> QED BY <1>2, <2>1, <2>3, <2>4, <2>5 DEF Fits, SetupNames
<1>4. CASE \E d \in Command : c = <<d>> /\ d.name \in Posts
  <2>0. PICK d \in Command : c = <<d>> /\ d.name \in Posts
    BY <1>4
  <2>1. /\ s \in Seq(Command) /\ s # <<>> /\ Len(s) = 4 /\ s[1] = p[1] /\ s[2] = p[2] /\ s[3] = p[3]
        /\ s[4] = d
    BY <1>2, <1>p, <2>0
  <2>2. /\ \A i \in 1..Len(s) : i = 1 \/ i = 2 \/ i = 3 \/ i = 4
        /\ \A i \in 1..(Len(s) - 1) : i = 1 \/ i = 2 \/ i = 3
    BY <2>1
  <2>3. \A i \in 1..(Len(s) - 1) : May(s[i].name, s[i + 1].name)
    BY <1>2, <2>0, <2>1, <2>2, MayFacts
  <2>4. \A b \in CommandNames : May("executeAppl", b) => May(s[Len(s)].name, b)
    BY <1>2, <2>0, <2>1, NamesFit DEF NameFits
  <2>5. \A i \in 1..Len(s) : s[i].name \notin Finals \cup SetupNames
    BY <1>2, <2>0, <2>1, <2>2 DEF Finals, SetupNames, Posts
  <2> QED BY <1>2, <2>1, <2>3, <2>4, <2>5 DEF Fits, SetupNames
<1> QED BY <1>3, <1>4

\* A step takes the head off <k>, replaces it by commands that fit, or stops.
Replaces == \E s \in Seq(Command) : s # <<>> /\ Become(s) /\ Fits(Head(k).name, s)
Moves    == k' = k \/ (k # <<>> /\ Done) \/ (k # <<>> /\ Replaces) \/ StopIfError

\* A panic replaces any command but #stopIfError.
LEMMA PanicMoves ==
  ASSUME NEW h, Next1(h), h # "stopIfError", NEW code, Panic(code)
  PROVE  Moves
BY FitsPanic DEF Moves, Replaces, Next1

\* So does a command that fits in the place of this one.
LEMMA OneMoves ==
  ASSUME NEW h, Next1(h), h # "stopIfError", h \notin SetupNames, NEW c \in Command, Become(<<c>>),
         NameFits(h, c.name), c.name \notin Finals \cup SetupNames
  PROVE  Moves
BY FitsOne DEF Moves, Replaces, Next1, NameFits

\* So do two commands that fit.
LEMMA TwoMoves ==
  ASSUME NEW h, Next1(h), h # "stopIfError", h \notin SetupNames,
         NEW c \in Command, NEW d \in Command, Become(<<c, d>>),
         May(c.name, d.name), NameFits(h, d.name),
         c.name \notin Finals \cup SetupNames, d.name \notin Finals \cup SetupNames
  PROVE  Moves
<1>1. \A b \in CommandNames : May(h, b) => May(d.name, b)
  BY DEF NameFits
<1>2. Replaces
  BY <1>1, FitsTwo DEF Replaces, Next1
<1> QED BY <1>2 DEF Moves, Next1

LEMMA DriverMoves == IInv /\ Driver => Moves
<1> SUFFICES ASSUME IInv, Driver PROVE Moves
  OBVIOUS
<1>1. CASE SetupAccount
  <2>1. Next1("setupAccounts") /\ Arg + 1 \in Nat /\ "setupAccounts" \in SetupNames
    BY <1>1, HeadType DEF SetupAccount, Next1, IInv, SetupNames
  <2>2. CASE MalformedAccount(Setup[Arg])
    BY <2>1, <2>2, PanicMoves DEF MalformedAccount
  <2>3. CASE ReadAccount(Setup[Arg])
    <3> DEFINE c == CmdOf("setupAccounts", Arg + 1)
    <3>1. c \in Command /\ c.name = "setupAccounts" /\ Become(<<c>>)
      BY <2>1, <2>3, CmdType DEF ReadAccount, CommandNames
    <3> HIDE DEF c
    <3>2. \A b \in CommandNames : May("setupAccounts", b) => May(c.name, b)
      BY <3>1
    <3>3. c.name \notin Finals
      BY <3>1 DEF Finals
    <3>4. Replaces
      BY <2>1, <3>1, <3>2, <3>3, FitsOne DEF Replaces, Next1
    <3> QED BY <2>1, <3>4 DEF Moves, Next1
  <2> QED BY <1>1, <2>2, <2>3 DEF SetupAccount
<1>2. CASE SetupAccountsDone
  BY <1>2 DEF SetupAccountsDone, Moves, Next1
<1>3. CASE SetupCounters
  BY <1>3 DEF SetupCounters, Moves, Next1
<1>4. CASE ReadExecutionStages
  BY <1>4, FitsStage DEF ReadExecutionStages, Moves, Replaces, Next1
<1>5. CASE AddTxnJSON
  <2> DEFINE c == CmdOf("pushTxnBack", nextTxnID)
             d == CmdOf("setupTransactions", Arg + 1)
  <2>1. Next1("setupTransactions") /\ Arg + 1 \in Nat /\ nextTxnID \in Nat /\ Become(<<c, d>>)
    BY <1>5, HeadType DEF AddTxnJSON, Next1, IInv, TxnsOK
  <2>2. /\ c \in Command /\ c.name = "pushTxnBack"
        /\ d \in Command /\ d.name = "setupTransactions"
    BY <2>1, CmdType DEF CommandNames
  <2> HIDE DEF c, d
  <2> QED BY <2>1, <2>2, TwoMoves, MayFacts, NamesFit DEF Finals, SetupNames
<1>6. CASE SetupTransactionsDone
  BY <1>6 DEF SetupTransactionsDone, Moves, Next1
<1>7. CASE CheckExecutionResults
  BY <1>7 DEF CheckExecutionResults, Moves, Next1
<1> QED BY <1>1, <1>2, <1>3, <1>4, <1>5, <1>6, <1>7 DEF Driver

LEMMA DequeMoves == IInv /\ Deque => Moves
<1> SUFFICES ASSUME IInv, Deque PROVE Moves
  OBVIOUS
<1>1. ASSUME NEW h, h # "stopIfError", Next1(h), Done \/ Panic(TXN_DEQUE_ERROR)
      PROVE  Moves
  BY <1>1, PanicMoves DEF Moves, Next1
<1>2. CASE PushTxnBack
  <2>1. Next1("pushTxnBack") /\ (Done \/ Panic(TXN_DEQUE_ERROR))
    BY <1>2 DEF PushTxnBack, Schedule
  <2> QED BY <1>1, <2>1
<1>3. CASE PushTxnFront
  <2>1. Next1("pushTxnFront") /\ (Done \/ Panic(TXN_DEQUE_ERROR))
    BY <1>3 DEF PushTxnFront, Schedule
  <2> QED BY <1>1, <2>1
<1>4. CASE GetNextTxn
  <2>1. Next1("getNextTxn") /\ (Done \/ Panic(TXN_DEQUE_ERROR))
    BY <1>4 DEF GetNextTxn
  <2> QED BY <1>1, <2>1
<1>5. CASE PopTxnFront
  BY <1>5 DEF PopTxnFront, Moves, Next1
<1> QED BY <1>2, <1>3, <1>4, <1>5 DEF Deque

LEMMA GroupMoves == IInv /\ Group => Moves
<1> SUFFICES ASSUME IInv, Group PROVE Moves
  OBVIOUS
<1>1. ASSUME NEW h \in {"evalTxGroup", "evalNextTx"}, Next1(h),
             Become(Evaluation) \/ Become(<<Cmd("getNextTxn"), Cmd("evalTx")>>)
      PROVE  Moves
  <2>1. CASE Become(Evaluation)
    <3>1. Replaces
      BY <1>1, <2>1, FitsEvaluation DEF Next1, Replaces
    <3> QED BY <1>1, <3>1 DEF Moves, Next1
  <2>2. CASE Become(<<Cmd("getNextTxn"), Cmd("evalTx")>>)
    <3> DEFINE c == Cmd("getNextTxn")
               d == Cmd("evalTx")
    <3>1. c \in Command /\ c.name = "getNextTxn" /\ d \in Command /\ d.name = "evalTx" /\ Become(<<c, d>>)
      BY <2>2, CmdType DEF CommandNames
    <3> HIDE DEF c, d
    <3>2. NameFits(h, "evalTx")
      BY NamesFit
    <3> QED BY <1>1, <3>1, <3>2, TwoMoves, MayFacts DEF Finals, SetupNames
  <2> QED BY <1>1, <2>1, <2>2
<1>2. CASE EvalTxGroup
  BY <1>1, <1>2 DEF EvalTxGroup
<1>3. CASE EvalNextTx
  BY <1>1, <1>3 DEF EvalNextTx
<1>4. CASE GroupAccepted
  <2>1. /\ Cmd("checkSufficientBalance") \in Command
        /\ Cmd("checkSufficientBalance").name = "checkSufficientBalance"
    BY CmdType DEF CommandNames
  <2> QED BY <1>4, <2>1, OneMoves, NamesFit DEF GroupAccepted, Finals, SetupNames
<1>5. CASE CheckSufficientBalance
  <2>1. Next1("checkSufficientBalance") /\ (Done \/ k' = k \/ Panic(MIN_BALANCE_VIOLATION))
    BY <1>5 DEF CheckSufficientBalance
  <2> QED BY <2>1, PanicMoves DEF Moves, Next1
<1> QED BY <1>2, <1>3, <1>4, <1>5 DEF Group

\* A completion adds nothing or one command behind the program.
LEMMA PostFits ==
  ASSUME NEW a \in Nat, Current \in Transaction
  PROVE  \/ PostOperations(a) = <<>>
         \/ \E d \in Command : PostOperations(a) = <<d>> /\ d.name \in Posts
<1>1. Current.sender \in Nat
  BY DEF Transaction
<1>2. {"clearState", "updatePrograms", "deleteApplication"} \subseteq CommandNames
  BY DEF CommandNames
<1>3. /\ CmdBy("clearState", a, Current.sender) \in Command
      /\ CmdBy("clearState", a, Current.sender).name = "clearState"
      /\ CmdOf("updatePrograms", a) \in Command
      /\ CmdOf("updatePrograms", a).name = "updatePrograms"
      /\ CmdOf("deleteApplication", a) \in Command
      /\ CmdOf("deleteApplication", a).name = "deleteApplication"
  BY <1>1, <1>2, CmdType
<1>4. \/ PostOperations(a) = <<>>
      \/ PostOperations(a) = <<CmdBy("clearState", a, Current.sender)>>
      \/ PostOperations(a) = <<CmdOf("updatePrograms", a)>>
      \/ PostOperations(a) = <<CmdOf("deleteApplication", a)>>
  BY DEF PostOperations, Transaction, OnCompletions
<1> QED BY <1>3, <1>4 DEF Posts

LEMMA TxnMoves == IInv /\ Txn => Moves
<1> SUFFICES ASSUME IInv, Txn PROVE Moves
  OBVIOUS
<1>0. \A c \in {"executeTxn", "fetchOpcode", "unmatched"} : Cmd(c) \in Command /\ Cmd(c).name = c
  BY CmdType DEF CommandNames
<1>a. ASSUME NEW a \in Nat, IsApplCall, Become(<<CmdOf("executeAppl", a)>>) PROVE Moves
  <2>1. CmdOf("executeAppl", a) \in Command /\ CmdOf("executeAppl", a).name = "executeAppl"
    BY CmdType DEF CommandNames
  <2> QED BY <1>a, <2>1, OneMoves, NamesFit DEF IsApplCall, Finals, SetupNames
<1>1. CASE EvalNonAppl
  BY <1>0, <1>1, OneMoves, NamesFit DEF EvalNonAppl, Finals, SetupNames
<1>2. CASE EvalApplFirst
  BY <1>0, <1>2, OneMoves, NamesFit DEF EvalApplFirst, Finals, SetupNames
<1>3. CASE EvalApplResume
  BY <1>0, <1>3, OneMoves, NamesFit DEF EvalApplResume, Finals, SetupNames
<1>4. CASE ExecuteNonAppl
  <2>1. CASE Done
    BY <1>4, <2>1 DEF ExecuteNonAppl, Moves, Next1
  <2>2. CASE Panic(INSUFFICIENT_FUNDS)
    BY <1>4, <2>2, PanicMoves DEF ExecuteNonAppl
  <2>3. CASE Become(<<Cmd("unmatched")>>)
    BY <1>0, <1>4, <2>3, OneMoves, NamesFit DEF ExecuteNonAppl, Finals, SetupNames
  <2> QED BY <1>4, <2>1, <2>2, <2>3 DEF ExecuteNonAppl
<1>5. CASE CreateApplication
  BY <1>a, <1>5 DEF CreateApplication, IInv, DataOK
<1>6. CASE CallApplication
  <2>1. Current.app \in Nat
    BY <1>6, CurrentType DEF CallApplication, IsApplCall, Next1, Evaluating, Transaction
  <2> QED BY <1>a, <1>6, <2>1 DEF CallApplication
<1>7. CASE ExecuteAppl
  <2>1. Arg \in Nat /\ Current \in Transaction /\ Next1("executeAppl")
    BY <1>7, HeadType, CurrentType DEF ExecuteAppl, Next1, IInv, Evaluating
  <2>2. \/ PostOperations(Arg) = <<>>
        \/ \E d \in Command : PostOperations(Arg) = <<d>> /\ d.name \in Posts
    BY <2>1, PostFits
  <2>3. Replaces
    <3> DEFINE s == <<CmdOf("initApp", Arg), Cmd("loadInputPgm"), Cmd("fetchOpcode")>> \o PostOperations(Arg)
    <3>1. s \in Seq(Command) /\ s # <<>> /\ Fits("executeAppl", s)
      BY <2>1, <2>2, FitsProgram
    <3>2. Become(s)
      BY <1>7 DEF ExecuteAppl
    <3> QED BY <2>1, <3>1, <3>2 DEF Replaces, Next1
  <2> QED BY <2>1, <2>3 DEF Moves, Next1
<1>8. CASE ClearState \/ UpdatePrograms \/ DeleteApplication
  BY <1>8 DEF ClearState, UpdatePrograms, DeleteApplication, Moves, Next1
<1> QED BY <1>1, <1>2, <1>3, <1>4, <1>5, <1>6, <1>7, <1>8 DEF Txn

LEMMA TealMoves == IInv /\ Teal => Moves
<1> SUFFICES ASSUME IInv, Teal PROVE Moves
  OBVIOUS
<1>1. CASE InitApp \/ FetchStopped
  BY <1>1 DEF InitApp, FetchStopped, Moves, Next1
<1>2. CASE InitAppError
  BY <1>2, PanicMoves DEF InitAppError
<1>3. CASE LoadInputPgm
  BY <1>3, PanicMoves DEF LoadInputPgm, Moves, Next1
<1>4. CASE OpPlain \/ ItxnBegin \/ ItxnNext \/ ItxnField
  BY <1>4 DEF OpPlain, ItxnBegin, ItxnNext, ItxnField, Moves
<1>5. CASE OpPanic
  BY <1>5, PanicMoves DEF OpPanic, Running
<1>6. CASE ItxnSubmit
  <2> DEFINE c == CmdOf("checkItxns", 1)
             d == Cmd("executeItxnGroup")
  <2>1. /\ c \in Command /\ c.name = "checkItxns" /\ d \in Command /\ d.name = "executeItxnGroup"
        /\ Next1("fetchOpcode") /\ Become(<<c, d>>)
    BY <1>6, CmdType DEF ItxnSubmit, Running, CommandNames
  <2> HIDE DEF c, d
  <2> QED BY <2>1, TwoMoves, MayFacts, NamesFit DEF Finals, SetupNames
<1>7. CASE EndProgram
  <2>1. Cmd("finalizeExecution") \in Command /\ Cmd("finalizeExecution").name = "finalizeExecution"
    BY CmdType DEF CommandNames
  <2> QED BY <1>7, <2>1, OneMoves, NamesFit DEF EndProgram, Finals, SetupNames
<1>8. CASE FinalizeExecution
  <2>1. Next1("finalizeExecution") /\ (Done \/ Panic(ZERO_STACK) \/ Panic(BAD_STACK))
    BY <1>8 DEF FinalizeExecution
  <2> QED BY <2>1, PanicMoves DEF Moves, Next1
<1> QED BY <1>1, <1>2, <1>3, <1>4, <1>5, <1>6, <1>7, <1>8 DEF Teal

LEMMA InnerMoves == IInv /\ Inner => Moves
<1> SUFFICES ASSUME IInv, Inner PROVE Moves
  OBVIOUS
<1>1. CASE CheckItxn
  <2>1. /\ Next1("checkItxns") /\ Arg + 1 \in Nat
        /\ \/ Panic(TXN_INVALID) \/ Panic(ITXN_REENTRY)
           \/ Become(<<CmdOf("checkItxns", Arg + 1)>>)
    BY <1>1, HeadType DEF CheckItxn, Next1, IInv
  <2>2. CmdOf("checkItxns", Arg + 1) \in Command /\ CmdOf("checkItxns", Arg + 1).name = "checkItxns"
    BY <2>1, CmdType DEF CommandNames
  <2> QED BY <2>1, <2>2, PanicMoves, OneMoves, NamesFit DEF Finals, SetupNames
<1>2. CASE CheckItxnsDone \/ PushItxnsDone
  BY <1>2 DEF CheckItxnsDone, PushItxnsDone, Moves, Next1
<1>3. CASE ExecuteItxnGroup
  <2> DEFINE c == Cmd("pushItxns")
             d == Cmd("evalTxGroup")
  <2>1. /\ c \in Command /\ c.name = "pushItxns" /\ d \in Command /\ d.name = "evalTxGroup"
        /\ Next1("executeItxnGroup") /\ Become(<<c, d>>)
    BY <1>3, CmdType DEF ExecuteItxnGroup, CommandNames
  <2> HIDE DEF c, d
  <2> QED BY <2>1, TwoMoves, MayFacts, NamesFit DEF Finals, SetupNames
<1>4. CASE PushItxns
  <2> DEFINE c == CmdOf("pushTxnFront", nextTxnID)
             d == Cmd("pushItxns")
  <2>1. /\ c \in Command /\ c.name = "pushTxnFront" /\ d \in Command /\ d.name = "pushItxns"
        /\ Next1("pushItxns") /\ Become(<<c, d>>)
    BY <1>4, CmdType DEF PushItxns, CommandNames, IInv, TxnsOK
  <2> HIDE DEF c, d
  <2> QED BY <2>1, TwoMoves, MayFacts, NamesFit DEF Finals, SetupNames
<1> QED BY <1>1, <1>2, <1>3, <1>4 DEF Inner

\* Every step keeps the order of <k>.
LEMMA OrderStep ==
  ASSUME IInv, KOrder, [Next]_vars
  PROVE  KOrder' /\ (SettingUp' => SettingUp)
<1>1. Moves
  BY DriverMoves, DequeMoves, GroupMoves, TxnMoves, TealMoves, InnerMoves DEF Next, Moves, vars
<1>2. CASE k' = k
  BY <1>2 DEF KOrder, Ordered, FinalsLast, SetupAlone, SettingUp
<1>3. CASE k # <<>> /\ Done
  BY <1>3, DoneOrder DEF IInv
<1>4. CASE k # <<>> /\ Replaces
  BY <1>4, BecomeOrder DEF Replaces, IInv
<1>5. CASE StopIfError
  BY <1>5, StopOrder DEF IInv
<1> QED BY <1>1, <1>2, <1>3, <1>4, <1>5 DEF Moves

\* What the head of <k> tells of the command behind it.
LEMMA MayAfter ==
  ASSUME NEW a, NEW b, May(a, b), a # "stopIfError"
  PROVE  /\ a = "setupAccounts" => b = "setupCounters"
         /\ a = "setupCounters" => b \in {"readExecutionStages", "stopIfError"}
         /\ a = "checkExecutionResults" => b = "stopIfError"
         /\ a = "pushTxnBack" => b = "setupTransactions"
         /\ a = "setupTransactions" => b = "evalTxGroup"
         /\ a = "getNextTxn" => b = "evalTx"
         /\ a = "popTxnFront" => b = "evalNextTx"
         /\ a = "initApp" => b = "loadInputPgm"
         /\ a = "loadInputPgm" => b = "fetchOpcode"
         /\ a = "checkItxns" => b = "executeItxnGroup"
         /\ a = "pushTxnFront" => b = "pushItxns"
         /\ a = "pushItxns" => b = "evalTxGroup"
         /\ a \in Before => b \in After
         /\ b = "stopIfError" => a \in TestingCommands
BY DEF May, Follows, Before, After, Busy, InProgram, Posts, TestingCommands

\* The head of <k> after a step that takes one command off it.
LEMMA DoneHead ==
  ASSUME IInv, KOrder, NEW h, Next1(h), Done
  PROVE  k' = <<>> \/ \E g : Head(k').name = g /\ May(h, g)
BY DoneOrder DEF IInv, Next1

\* The head of <k> after a step that replaces it.
LEMMA OneHead ==
  ASSUME IInv, NEW h, Next1(h), NEW c \in Command, Become(<<c>>)
  PROVE  k' # <<>> /\ Head(k') = c
<1> DEFINE s == <<c>>
<1>1. s \in Seq(Command) /\ s # <<>> /\ s[1] = c /\ Become(s)
  OBVIOUS
<1> HIDE DEF s
<1> QED BY <1>1, BecomeSeq DEF IInv, Next1

LEMMA TwoHead ==
  ASSUME IInv, NEW h, Next1(h), NEW c \in Command, NEW d \in Command, Become(<<c, d>>)
  PROVE  k' # <<>> /\ Head(k') = c
<1> DEFINE s == <<c, d>>
<1>1. s \in Seq(Command) /\ s # <<>> /\ s[1] = c /\ Become(s)
  OBVIOUS
<1> HIDE DEF s
<1> QED BY <1>1, BecomeSeq DEF IInv, Next1

LEMMA PanicHead ==
  ASSUME IInv, NEW h, Next1(h), NEW code, Panic(code)
  PROVE  k' # <<>> /\ Head(k').name = "stopIfError" /\ returncode' = code
<1>1. Cmd("stopIfError") \in Command /\ Cmd("stopIfError").name = "stopIfError"
  BY CmdType DEF CommandNames
<1> QED BY <1>1, OneHead DEF Panic

-----------------------------------------------------------------------------
(* Where a run can be while something is to be resumed.                    *)
\* A transaction that has started and has no saved context.
Unsaved(t) == transactions[t].resume /\ transactions[t].context = NoContext

\* While transactions are set up there is nothing to execute, and no verdict.
SetupState == SettingUp => returncode # SUCCESS /\ nextTxnID = 0 /\ deque = <<>>
\* After the verdict nothing is left but to stop.
StopsLast  == HeadIn({"stopIfError"}) /\ returncode = SUCCESS =>
                \A i \in 1..Len(k) : k[i].name = "stopIfError"

\* Of the scheduled transactions only the current one can have started without a
\* saved context, and only while it is being executed.
OneUnsaved ==
  k # <<>> /\ ~HeadIn(Over) =>
    \A i \in 1..Len(deque) : Unsaved(deque[i]) => HeadIn(Busy) /\ i = 1 /\ deque[1] = currentTx
\* Submitting gives the program a last group, so its saved context is one.
SubmitHasGroup ==
  /\ nextGroupID >= 1
  /\ HeadIn({"checkItxns", "executeItxnGroup"}) => currentTxnExecution.lastGroup # NoGroup
\* What is pushed has not started.
PushesNew ==
  /\ \A i \in 1..Len(innerTransactions) : ~innerTransactions[i].resume
  /\ HeadIn({"pushTxnFront", "pushTxnBack"}) => ~transactions[Head(k).arg].resume
\* What is evaluated is in front of the deque; balances are checked when it is empty.
FrontEvaluated ==
  /\ HeadIn({"evalTx"}) => deque # <<>> /\ deque[1] = currentTx
  /\ HeadIn({"checkSufficientBalance"}) => deque = <<>>

ResumeInv == OneUnsaved /\ SubmitHasGroup /\ PushesNew /\ FrontEvaluated

\* A command that asks nothing of the deque, the staged group or its argument.
Demanding == {"pushTxnFront", "pushTxnBack", "checkSufficientBalance", "evalTx"}
\* Command g may come to the head of <k> after command h.
Turn(h, g) == /\ g \notin Demanding
              /\ h \in Over => g \in Over
              /\ h \in Busy => g \in Busy \cup Over

\* A step that changes neither transactions nor deque, and goes on to a command
\* that is not demanding.
LEMMA QuietStep ==
  ASSUME IInv, ResumeInv, NEW h, Next1(h),
         k' = <<>> \/ (\E g : Head(k').name = g /\ Turn(h, g)),
         UNCHANGED <<transactions, deque, currentTx>>, nextGroupID' >= 1,
         HeadIn({"checkItxns", "executeItxnGroup"})' => currentTxnExecution'.lastGroup # NoGroup,
         \A i \in 1..Len(innerTransactions') : ~innerTransactions'[i].resume
  PROVE  ResumeInv'
<1>1. OneUnsaved'
  BY DEF ResumeInv, OneUnsaved, HeadIn, Turn, Unsaved, Next1, Over
<1>2. SubmitHasGroup'
  BY DEF SubmitHasGroup
<1>3. PushesNew'
  BY DEF PushesNew, HeadIn, Turn, Demanding
<1>4. FrontEvaluated'
  BY DEF FrontEvaluated, HeadIn, Turn, Demanding
<1> QED BY <1>1, <1>2, <1>3, <1>4 DEF ResumeInv

\* The turns the actions make.
LEMMA Turns ==
  /\ \A h : h \notin Over => Turn(h, "stopIfError")
  /\ \A h \in {"setupAccounts", "setupTransactions", "evalTx", "evalTxGroup", "evalNextTx",
               "pushItxns", "setupCounters", "readExecutionStages"} :
       \A g : g \notin Demanding => Turn(h, g)
  /\ \A h \in Busy, g \in Busy : Turn(h, g)
  /\ \A h, g : May(h, g) /\ h \in Before \ {"evalTx"} => Turn(h, g)
  /\ \A h, g : /\ May(h, g)
               /\ h \in {"setupAccounts", "setupCounters", "setupTransactions", "checkExecutionResults",
                         "initApp", "loadInputPgm", "checkItxns", "pushTxnFront", "pushTxnBack",
                         "pushItxns"}
               => Turn(h, g)
<1>1. /\ \A h : h \notin Over => Turn(h, "stopIfError")
      /\ \A h \in {"setupAccounts", "setupTransactions", "evalTx", "evalTxGroup", "evalNextTx",
                   "pushItxns", "setupCounters", "readExecutionStages"} :
           \A g : g \notin Demanding => Turn(h, g)
      /\ \A h \in Busy, g \in Busy : Turn(h, g)
  BY DEF Turn, Demanding, Over, Busy, InProgram, Posts
<1>2. ASSUME NEW h, NEW g, May(h, g), h \in Before \ {"evalTx"} PROVE Turn(h, g)
  <2>1. g \in After /\ h # "stopIfError" /\ h \notin Over
    BY <1>2, MayAfter DEF Before, Busy, InProgram, Posts, Over
  <2> QED BY <2>1 DEF Turn, After, Demanding, Busy, Over, Posts
<1>3. ASSUME NEW h \in {"setupAccounts", "setupCounters", "setupTransactions", "checkExecutionResults",
                        "initApp", "loadInputPgm", "checkItxns", "pushTxnFront", "pushTxnBack",
                        "pushItxns"},
             NEW g, May(h, g)
      PROVE  Turn(h, g)
  BY <1>3, MayAfter DEF Turn, Demanding, Busy, InProgram, Posts, Over
<1> QED BY <1>1, <1>2, <1>3

\* Until a panic the code is the one of a run that goes on, or a success.
SafeCode == k # <<>> /\ ~HeadIn(Over) => returncode \in {SUCCESS, STUCK}

\* What a step keeps of all this.
Kept == ResumeInv' /\ StopsLast' /\ (SafeCode => SafeCode')
\* Steps that change neither transactions, deque nor staged group.
Still == UNCHANGED <<transactions, deque, currentTx, innerTransactions, nextGroupID>>

\* A step that puts a command other than #stopIfError in front.
LEMMA QuietTurn ==
  ASSUME IInv, ResumeInv, NEW h, Next1(h), NEW g, k' # <<>>, Head(k').name = g, Turn(h, g),
         g # "stopIfError", Still, returncode' \in {returncode, SUCCESS}, h \notin Over,
         g \in {"checkItxns", "executeItxnGroup"} => currentTxnExecution'.lastGroup # NoGroup
  PROVE  Kept
<1>1. nextGroupID' >= 1 /\ \A i \in 1..Len(innerTransactions') : ~innerTransactions'[i].resume
  BY DEF Still, ResumeInv, SubmitHasGroup, PushesNew
<1>2. HeadIn({"checkItxns", "executeItxnGroup"})' => currentTxnExecution'.lastGroup # NoGroup
  BY DEF HeadIn
<1>3. ResumeInv'
  BY <1>1, <1>2, QuietStep DEF Still
<1>4. StopsLast'
  BY DEF StopsLast, HeadIn
<1>5. SafeCode => SafeCode'
  BY DEF SafeCode, HeadIn, Next1
<1> QED BY <1>3, <1>4, <1>5 DEF Kept

\* A panic.
LEMMA QuietPanic ==
  ASSUME IInv, ResumeInv, NEW h, Next1(h), h \notin Over, NEW code, code # SUCCESS, Panic(code), Still
  PROVE  Kept
<1>1. k' # <<>> /\ Head(k').name = "stopIfError" /\ returncode' = code
  BY PanicHead
<1>2. nextGroupID' >= 1 /\ \A i \in 1..Len(innerTransactions') : ~innerTransactions'[i].resume
  BY DEF Still, ResumeInv, SubmitHasGroup, PushesNew
<1>3. ~HeadIn({"checkItxns", "executeItxnGroup"})'
  BY <1>1 DEF HeadIn
<1>4. ResumeInv'
  BY <1>1, <1>2, <1>3, Turns, QuietStep DEF Still
<1>5. StopsLast' /\ SafeCode'
  BY <1>1 DEF StopsLast, SafeCode, HeadIn, Over
<1> QED BY <1>4, <1>5 DEF Kept

\* A step that takes a command off <k>.
LEMMA QuietDone ==
  ASSUME IInv, KOrder, ResumeInv, NEW h, Next1(h), Done, Still, UNCHANGED returncode,
         h \in Before \ {"evalTx"} \/ h \in {"setupAccounts", "setupTransactions", "initApp",
                                             "loadInputPgm", "checkItxns", "pushItxns"},
         h = "checkItxns" => UNCHANGED currentTxnExecution
  PROVE  Kept
<1>1. h \notin Over /\ h # "stopIfError" /\ h \notin TestingCommands
  BY DEF Before, Busy, InProgram, Posts, Over, TestingCommands
<1>2. CASE k' = <<>>
  <2>1. nextGroupID' >= 1 /\ \A i \in 1..Len(innerTransactions') : ~innerTransactions'[i].resume
    BY DEF Still, ResumeInv, SubmitHasGroup, PushesNew
  <2>2. ResumeInv'
    BY <1>2, <2>1, QuietStep DEF Still, HeadIn
  <2> QED BY <1>2, <2>2 DEF Kept, StopsLast, SafeCode, HeadIn
<1>3. CASE k' # <<>>
  <2>1. PICK g : Head(k').name = g /\ May(h, g)
    BY <1>3, DoneHead
  <2>2. Turn(h, g)
    BY <2>1, Turns
  <2>3. g # "stopIfError"
    BY <1>1, <2>1, MayAfter
  <2>4. g \in {"checkItxns", "executeItxnGroup"} => h = "checkItxns"
    <3>1. h \in Before => g \in After
      BY <1>1, <2>1, MayAfter
    <3>2. h \in {"setupAccounts", "setupTransactions", "initApp", "loadInputPgm", "pushItxns"} =>
            g \notin {"checkItxns", "executeItxnGroup"}
      BY <1>1, <2>1, MayAfter
    <3> QED BY <3>1, <3>2 DEF After, Posts
  <2>5. h = "checkItxns" => currentTxnExecution'.lastGroup # NoGroup
    BY DEF ResumeInv, SubmitHasGroup, HeadIn, Next1
  <2> QED BY <1>1, <1>3, <2>1, <2>2, <2>3, <2>4, <2>5, QuietTurn
<1> QED BY <1>2, <1>3

\* A step that replaces a command by one that makes no submission.
LEMMA QuietOne ==
  ASSUME IInv, ResumeInv, NEW h, Next1(h), h \notin Over, NEW c \in Command, Become(<<c>>),
         Turn(h, c.name), c.name \notin {"stopIfError", "checkItxns", "executeItxnGroup"},
         Still, returncode' \in {returncode, SUCCESS}
  PROVE  Kept
<1>1. k' # <<>> /\ Head(k') = c
  BY OneHead
<1> QED BY <1>1, QuietTurn

Flow == KOrder /\ SetupState /\ StopsLast /\ ResumeInv

\* The transactions there were before are as they were.
LEMMA OldTransactions ==
  ASSUME IInv, NEW t \in Transaction, transactions' = WithTransaction(t)
  PROVE  /\ \A u \in DOMAIN transactions : transactions'[u] = transactions[u]
         /\ transactions'[nextTxnID] = t /\ nextTxnID \notin DOMAIN transactions
         /\ DOMAIN transactions' = DOMAIN transactions \cup {nextTxnID}
         /\ \A i \in 1..Len(deque) : deque[i] \in DOMAIN transactions
<1>1. nextTxnID \in Nat /\ DOMAIN transactions = 0..(nextTxnID - 1)
  BY DEF IInv, TxnsOK
<1>2. DOMAIN transactions' = 0..nextTxnID
  BY DEF WithTransaction
<1>3. transactions'[nextTxnID] = t
  BY <1>1 DEF WithTransaction
<1>4. \A u \in DOMAIN transactions : transactions'[u] = transactions[u]
  BY <1>1 DEF WithTransaction
<1>5. \A i \in 1..Len(deque) : deque[i] \in DOMAIN transactions
  BY DEF IInv, QueueOK, DequeInv
<1> QED BY <1>1, <1>2, <1>3, <1>4, <1>5

\* A new transaction, about to be pushed.
LEMMA NewToPush ==
  ASSUME IInv, ResumeInv, NEW h, Next1(h), h \notin Busy \cup Over,
         NEW t \in Transaction, ~t.resume, transactions' = WithTransaction(t),
         NEW p \in {"pushTxnBack", "pushTxnFront"}, NEW d \in Command,
         Become(<<CmdOf(p, nextTxnID), d>>),
         UNCHANGED <<deque, currentTx, nextGroupID, returncode>>,
         \A i \in 1..Len(innerTransactions') : ~innerTransactions'[i].resume
  PROVE  Kept
<1>0. nextTxnID \in Nat /\ p \in CommandNames
  BY DEF IInv, TxnsOK, CommandNames
<1>1. /\ CmdOf(p, nextTxnID) \in Command /\ CmdOf(p, nextTxnID).name = p
      /\ CmdOf(p, nextTxnID).arg = nextTxnID
  BY <1>0, CmdType
<1>2. k' # <<>> /\ Head(k').name = p /\ Head(k').arg = nextTxnID
  BY <1>1, TwoHead
<1>3. /\ \A u \in DOMAIN transactions : transactions'[u] = transactions[u]
      /\ transactions'[nextTxnID] = t
      /\ \A i \in 1..Len(deque) : deque[i] \in DOMAIN transactions
  BY OldTransactions
<1>4. OneUnsaved'
  <2>1. \A i \in 1..Len(deque) : ~Unsaved(deque[i])
    BY DEF ResumeInv, OneUnsaved, HeadIn, Next1
  <2>2. \A i \in 1..Len(deque') : deque'[i] = deque[i] /\ transactions'[deque[i]] = transactions[deque[i]]
    BY <1>3
  <2>3. Len(deque') = Len(deque)
    OBVIOUS
  <2> QED BY <2>1, <2>2, <2>3 DEF OneUnsaved, Unsaved
<1>5. SubmitHasGroup' /\ FrontEvaluated'
  BY <1>2 DEF ResumeInv, SubmitHasGroup, FrontEvaluated, HeadIn
<1>6. PushesNew'
  BY <1>2, <1>3 DEF PushesNew
<1>7. StopsLast' /\ (SafeCode => SafeCode')
  BY <1>2 DEF StopsLast, SafeCode, HeadIn, Next1
<1> QED BY <1>4, <1>5, <1>6, <1>7 DEF Kept, ResumeInv

\* A submitted transaction.
LEMMA OuterTransaction ==
  ASSUME NEW p \in OuterPayloads, NEW u \in Users, NEW i \in 1..Len(OuterGroups)
  PROVE  NewTransaction(p, u, OuterGroups[i]) \in Transaction
<1>1. p \in Payload /\ OuterGroups[i] \in Int
  BY PayloadAssumption, OuterGroupsAssumption
<1>2. u \in Nat
  <2>1. PICK j \in 1..Len(Setup) : u = Setup[j].addr
    BY DEF Users
  <2>2. Setup[j] \in AccountObject
    BY SetupAssumption
  <2> QED BY <2>1, <2>2 DEF AccountObject
<1> QED BY <1>1, <1>2 DEF NewTransaction, Transaction, Payload, NoContext, Execution, NoGroup

LEMMA DriverFlow ==
  ASSUME IInv, Flow, Driver
  PROVE  Kept
<1> USE DEF Flow
<1>1. CASE SetupAccount
  <2>1. Next1("setupAccounts") /\ Still /\ Arg + 1 \in Nat
    BY <1>1, HeadType DEF SetupAccount, Still, txns, queue, teal, IInv, Next1
  <2>2. CASE MalformedAccount(Setup[Arg])
    <3>1. Panic(INVALID_JSON) /\ INVALID_JSON # SUCCESS
      BY <2>2 DEF MalformedAccount, INVALID_JSON, SUCCESS
    <3> QED BY <2>1, <3>1, QuietPanic DEF Over
  <2>3. CASE ReadAccount(Setup[Arg])
    <3>1. /\ CmdOf("setupAccounts", Arg + 1) \in Command
          /\ CmdOf("setupAccounts", Arg + 1).name = "setupAccounts"
      BY <2>1, CmdType DEF CommandNames
    <3>2. Turn("setupAccounts", "setupAccounts")
      BY DEF Turn, Demanding, Over, Busy, InProgram, Posts
    <3> QED BY <2>1, <2>3, <3>1, <3>2, QuietOne DEF ReadAccount, Over
  <2> QED BY <1>1, <2>2, <2>3 DEF SetupAccount
<1>2. CASE SetupAccountsDone
  BY <1>2, QuietDone DEF SetupAccountsDone, Still, txns, queue, teal
<1>3. CASE SetupCounters
  <2>1. Next1("setupCounters") /\ Done /\ Still /\ UNCHANGED <<returncode, currentTxnExecution>>
    BY <1>3 DEF SetupCounters, Still, txns, queue, teal
  <2>2. SettingUp
    <3>1. 1 \in 1..Len(k) /\ k[1].name \in SetupNames
      BY <2>1, HeadType DEF Next1, SetupNames, IInv, KInv
    <3> QED BY <3>1 DEF SettingUp
  <2>3. returncode # SUCCESS
    BY <2>2 DEF SetupState
  <2>4. k' = <<>> \/ (\E g : Head(k').name = g /\ May("setupCounters", g))
    BY <2>1, DoneHead
  <2>5. k' = <<>> \/ Head(k').name \in {"readExecutionStages", "stopIfError"}
    BY <2>4, MayAfter
  <2>6. /\ nextGroupID' >= 1 /\ \A i \in 1..Len(innerTransactions') : ~innerTransactions'[i].resume
        /\ ~HeadIn({"checkItxns", "executeItxnGroup"})'
    BY <2>1, <2>5 DEF Still, ResumeInv, SubmitHasGroup, PushesNew, HeadIn
  <2>7. ResumeInv'
    BY <2>1, <2>4, <2>6, Turns, QuietStep DEF Still
  <2>8. StopsLast' /\ (SafeCode => SafeCode')
    BY <2>1, <2>3 DEF StopsLast, SafeCode, HeadIn, Over, Next1
  <2> QED BY <2>7, <2>8 DEF Kept
<1>4. CASE ReadExecutionStages
  <2> DEFINE s == <<CmdOf("setupTransactions", 1), Cmd("evalTxGroup"), Cmd("checkExecutionResults")>>
  <2>1. Next1("readExecutionStages") /\ Still /\ UNCHANGED returncode /\ Become(s)
    BY <1>4 DEF ReadExecutionStages, Still, txns, queue, teal
  <2>2. s \in Seq(Command) /\ s # <<>> /\ s[1] = CmdOf("setupTransactions", 1)
    BY FitsStage
  <2> HIDE DEF s
  <2>3. k' # <<>> /\ Head(k').name = "setupTransactions"
    <3>1. k' # <<>> /\ Head(k') = s[1]
      BY <2>1, <2>2, BecomeSeq DEF IInv, Next1
    <3>2. CmdOf("setupTransactions", 1).name = "setupTransactions"
      BY CmdType DEF CommandNames
    <3> QED BY <2>2, <3>1, <3>2
  <2>4. Turn("readExecutionStages", "setupTransactions")
    BY DEF Turn, Demanding, Over, Busy, InProgram, Posts
  <2> QED BY <2>1, <2>3, <2>4, QuietTurn DEF Over
<1>5. CASE AddTxnJSON
  <2>1. /\ Next1("setupTransactions") /\ Arg \in 1..Len(OuterGroups) /\ Arg + 1 \in Nat
        /\ UNCHANGED <<deque, currentTx, nextGroupID, returncode, innerTransactions>>
        /\ Become(<<CmdOf("pushTxnBack", nextTxnID), CmdOf("setupTransactions", Arg + 1)>>)
    BY <1>5, HeadType DEF AddTxnJSON, Next1, queue, teal, IInv, Sound, Iterating, Arg
  <2>2. PICK p \in OuterPayloads, u \in Users :
          transactions' = WithTransaction(NewTransaction(p, u, OuterGroups[Arg]))
    BY <1>5 DEF AddTxnJSON
  <2>3. NewTransaction(p, u, OuterGroups[Arg]) \in Transaction
    BY <2>1, OuterTransaction
  <2>4. ~NewTransaction(p, u, OuterGroups[Arg]).resume
    BY DEF NewTransaction
  <2>5. CmdOf("setupTransactions", Arg + 1) \in Command
    BY <2>1, CmdType DEF CommandNames
  <2>6. \A i \in 1..Len(innerTransactions') : ~innerTransactions'[i].resume
    BY <2>1 DEF ResumeInv, PushesNew
  <2>7. "setupTransactions" \notin Busy \cup Over
    BY DEF Busy, InProgram, Posts, Over
  <2> QED BY <2>1, <2>2, <2>3, <2>4, <2>5, <2>6, <2>7, NewToPush
<1>6. CASE SetupTransactionsDone
  BY <1>6, QuietDone DEF SetupTransactionsDone, Still, txns, queue, teal
<1>7. CASE CheckExecutionResults
  <2>1. Next1("checkExecutionResults") /\ Done /\ Still
    BY <1>7 DEF CheckExecutionResults, Still, txns, queue, teal
  <2>2. k' = <<>> \/ (\E g : Head(k').name = g /\ May("checkExecutionResults", g))
    BY <2>1, DoneHead
  <2>3. k' = <<>> \/ Head(k').name = "stopIfError"
    BY <2>2, MayAfter
  <2>4. /\ nextGroupID' >= 1 /\ \A i \in 1..Len(innerTransactions') : ~innerTransactions'[i].resume
        /\ ~HeadIn({"checkItxns", "executeItxnGroup"})'
    BY <2>1, <2>3 DEF Still, ResumeInv, SubmitHasGroup, PushesNew, HeadIn
  <2>5. ResumeInv'
    BY <2>1, <2>2, <2>4, Turns, QuietStep DEF Still
  <2>6. SafeCode'
    BY <2>3 DEF SafeCode, HeadIn, Over
  <2>7. \A i \in 1..Len(k') : k'[i].name = "stopIfError"
    <3>1. /\ Head(k) = k[1] /\ Len(k) \in Nat /\ k # <<>> /\ Len(k') = Len(k) - 1
          /\ \A i \in 1..Len(k') : k'[i] = k[i + 1]
      BY <2>1, DoneOrder DEF IInv, KInv, Next1
    <3>2. k[1].name \in Finals
      BY <2>1, <3>1 DEF Next1, Finals
    <3>3. ASSUME NEW i \in 1..Len(k') PROVE 1 \in 1..Len(k) /\ i + 1 \in 1..Len(k) /\ 1 < i + 1
      BY <3>1
    <3> QED BY <3>1, <3>2, <3>3 DEF KOrder, FinalsLast
  <2> QED BY <2>5, <2>6, <2>7 DEF Kept, StopsLast
<1> QED BY <1>1, <1>2, <1>3, <1>4, <1>5, <1>6, <1>7 DEF Driver

LEMMA DequeFlow ==
  ASSUME IInv, Flow, Deque
  PROVE  Kept
<1> USE DEF Flow
<1>0. TXN_DEQUE_ERROR # SUCCESS
  BY DEF TXN_DEQUE_ERROR, SUCCESS
\* pushing a transaction that has not started
<1>1. ASSUME NEW h \in {"pushTxnBack", "pushTxnFront"}, Next1(h), Done, UNCHANGED returncode,
             UNCHANGED <<txns, currentTx, teal>>,
             Len(deque') = Len(deque) + 1,
             \A i \in 1..Len(deque') : deque'[i] = Arg \/ \E j \in 1..Len(deque) : deque'[i] = deque[j]
      PROVE  Kept
  <2>1. ~transactions[Arg].resume
    BY <1>1 DEF ResumeInv, PushesNew, HeadIn, Next1, Arg
  <2>2. \A i \in 1..Len(deque) : ~Unsaved(deque[i])
    BY <1>1 DEF ResumeInv, OneUnsaved, HeadIn, Next1, Busy, InProgram, Posts, Over
  <2>3. OneUnsaved'
    BY <1>1, <2>1, <2>2 DEF OneUnsaved, Unsaved, txns
  <2>4. k' = <<>> \/ \E g : Head(k').name = g /\ May(h, g)
    BY <1>1, DoneHead
  <2>5. k' = <<>> \/ Head(k').name \in {"setupTransactions", "pushItxns"}
    BY <1>1, <2>4, MayAfter
  <2>6. SubmitHasGroup' /\ FrontEvaluated' /\ PushesNew'
    BY <1>1, <2>5 DEF ResumeInv, SubmitHasGroup, FrontEvaluated, PushesNew, HeadIn, txns, teal
  <2>7. StopsLast' /\ (SafeCode => SafeCode')
    BY <1>1, <2>5 DEF StopsLast, SafeCode, HeadIn, Next1, Over
  <2> QED BY <2>3, <2>6, <2>7 DEF Kept, ResumeInv
<1>2. CASE PushTxnBack
  <2>1. Next1("pushTxnBack") /\ Arg \in Nat /\ deque \in Seq(Nat)
        /\ UNCHANGED <<txns, currentTx, teal>>
    BY <1>2, HeadType DEF PushTxnBack, Schedule, IInv, Next1, QueueOK
  <2>2. CASE CanPush(Arg)
    <3>1. /\ deque' = Append(deque, Arg) /\ Done /\ UNCHANGED returncode
      BY <1>2, <2>2 DEF PushTxnBack, Schedule
    <3>2. /\ Len(deque') = Len(deque) + 1
          /\ \A i \in 1..Len(deque') : deque'[i] = Arg \/ (i \in 1..Len(deque) /\ deque'[i] = deque[i])
      BY <2>1, <3>1
    <3> QED BY <1>1, <2>1, <3>1, <3>2
  <2>3. CASE ~CanPush(Arg)
    BY <1>0, <1>2, <2>1, <2>3, QuietPanic DEF PushTxnBack, Schedule, Still, txns, teal, Over
  <2> QED BY <2>2, <2>3
<1>3. CASE PushTxnFront
  <2>1. Next1("pushTxnFront") /\ Arg \in Nat /\ deque \in Seq(Nat)
        /\ UNCHANGED <<txns, currentTx, teal>>
    BY <1>3, HeadType DEF PushTxnFront, Schedule, IInv, Next1, QueueOK
  <2>2. CASE CanPush(Arg)
    <3>1. /\ deque' = <<Arg>> \o deque /\ Done /\ UNCHANGED returncode
      BY <1>3, <2>2 DEF PushTxnFront, Schedule
    <3>2. /\ Len(deque') = Len(deque) + 1 /\ deque'[1] = Arg
          /\ \A i \in 2..Len(deque') : i - 1 \in 1..Len(deque) /\ deque'[i] = deque[i - 1]
      BY <2>1, <3>1
    <3>3. \A i \in 1..Len(deque') : i = 1 \/ i \in 2..Len(deque')
      BY <2>1, <3>2
    <3> QED BY <1>1, <2>1, <3>1, <3>2, <3>3
  <2>3. CASE ~CanPush(Arg)
    BY <1>0, <1>3, <2>1, <2>3, QuietPanic DEF PushTxnFront, Schedule, Still, txns, teal, Over
  <2> QED BY <2>2, <2>3
<1>4. CASE GetNextTxn
  <2>1. /\ Next1("getNextTxn") /\ UNCHANGED <<txns, deque, teal>> /\ deque # <<>> /\ deque \in Seq(Nat)
        /\ currentTx' = deque[1] /\ Done /\ UNCHANGED returncode
    BY <1>4 DEF GetNextTxn, IInv, HeadReady, QueueOK, Next1
  <2>2. k' = <<>> \/ \E g : Head(k').name = g /\ May("getNextTxn", g)
    BY <2>1, DoneHead
  <2>3. k' = <<>> \/ Head(k').name = "evalTx"
    BY <2>2, MayAfter
  <2>4. OneUnsaved'
    <3>1. \A i \in 1..Len(deque) : ~Unsaved(deque[i])
      BY <2>1 DEF ResumeInv, OneUnsaved, HeadIn, Next1, Busy, InProgram, Posts, Over
    <3> QED BY <2>1, <3>1 DEF OneUnsaved, Unsaved, txns
  <2>5. SubmitHasGroup' /\ FrontEvaluated' /\ PushesNew'
    BY <2>1, <2>3 DEF ResumeInv, SubmitHasGroup, FrontEvaluated, PushesNew, HeadIn, txns, teal
  <2>6. StopsLast' /\ (SafeCode => SafeCode')
    BY <2>1, <2>3 DEF StopsLast, SafeCode, HeadIn, Next1, Over
  <2> QED BY <2>4, <2>5, <2>6 DEF Kept, ResumeInv
<1>5. CASE PopTxnFront
  <2>1. /\ Next1("popTxnFront") /\ UNCHANGED <<txns, currentTx, teal, returncode>> /\ deque \in Seq(Nat)
        /\ deque' = (IF deque = <<>> THEN <<>> ELSE Tail(deque)) /\ Done
    BY <1>5 DEF PopTxnFront, IInv, QueueOK
  <2>2. k' = <<>> \/ \E g : Head(k').name = g /\ May("popTxnFront", g)
    BY <2>1, DoneHead
  <2>3. k' = <<>> \/ Head(k').name = "evalNextTx"
    BY <2>2, MayAfter
  <2>4. \A i \in 1..Len(deque') : i + 1 \in 2..Len(deque) /\ deque'[i] = deque[i + 1]
    BY <2>1
  <2>5. \A i \in 2..Len(deque) : ~Unsaved(deque[i])
    BY <2>1 DEF ResumeInv, OneUnsaved, HeadIn, Next1, Over
  <2>6. OneUnsaved'
    BY <2>1, <2>4, <2>5 DEF OneUnsaved, Unsaved, txns
  <2>7. SubmitHasGroup' /\ FrontEvaluated' /\ PushesNew'
    BY <2>1, <2>3 DEF ResumeInv, SubmitHasGroup, FrontEvaluated, PushesNew, HeadIn, txns, teal
  <2>8. StopsLast' /\ (SafeCode => SafeCode')
    BY <2>1, <2>3 DEF StopsLast, SafeCode, HeadIn, Next1, Over
  <2> QED BY <2>6, <2>7, <2>8 DEF Kept, ResumeInv
<1> QED BY <1>2, <1>3, <1>4, <1>5 DEF Deque

LEMMA GroupFlow ==
  ASSUME IInv, Flow, Group
  PROVE  Kept
<1> USE DEF Flow
<1>1. ASSUME NEW h \in {"evalTxGroup", "evalNextTx"}, Next1(h), Still, UNCHANGED returncode,
             Become(Evaluation) \/ Become(<<Cmd("getNextTxn"), Cmd("evalTx")>>)
      PROVE  Kept
  <2>1. /\ Cmd("getNextTxn") \in Command /\ Cmd("getNextTxn").name = "getNextTxn"
        /\ Cmd("evalTx") \in Command
    BY CmdType DEF CommandNames
  <2>2. CASE Become(Evaluation)
    <3>1. PICK s \in Seq(Command) : s # <<>> /\ Become(s) /\ s[1] = Cmd("getNextTxn")
      BY <2>2, FitsEvaluation
    <3>2. k' # <<>> /\ Head(k').name = "getNextTxn"
      BY <1>1, <2>1, <3>1, BecomeSeq DEF IInv, Next1
    <3>3. Turn(h, "getNextTxn")
      BY DEF Turn, Demanding, Over, Busy, InProgram, Posts
    <3> QED BY <1>1, <3>2, <3>3, QuietTurn DEF Over
  <2>3. CASE Become(<<Cmd("getNextTxn"), Cmd("evalTx")>>)
    <3>1. k' # <<>> /\ Head(k').name = "getNextTxn"
      BY <1>1, <2>1, <2>3, TwoHead
    <3>2. Turn(h, "getNextTxn")
      BY DEF Turn, Demanding, Over, Busy, InProgram, Posts
    <3> QED BY <1>1, <3>1, <3>2, QuietTurn DEF Over
  <2> QED BY <1>1, <2>2, <2>3
<1>2. CASE EvalTxGroup
  BY <1>1, <1>2 DEF EvalTxGroup, Still, txns, queue, teal
<1>3. CASE EvalNextTx
  BY <1>1, <1>3 DEF EvalNextTx, Still, txns, queue, teal
<1>4. CASE GroupAccepted
  <2>1. /\ Next1("evalNextTx") /\ deque = <<>> /\ returncode' = SUCCESS
        /\ UNCHANGED <<txns, queue, teal>> /\ Become(<<Cmd("checkSufficientBalance")>>)
    BY <1>4 DEF GroupAccepted
  <2>2. k' # <<>> /\ Head(k').name = "checkSufficientBalance"
    BY <2>1, OneHead, CmdType DEF CommandNames
  <2>3. OneUnsaved'
    BY <2>1 DEF OneUnsaved, queue
  <2>4. SubmitHasGroup' /\ FrontEvaluated' /\ PushesNew'
    BY <2>1, <2>2 DEF ResumeInv, SubmitHasGroup, FrontEvaluated, PushesNew, HeadIn, txns, teal, queue
  <2>5. StopsLast' /\ SafeCode'
    BY <2>1, <2>2 DEF StopsLast, SafeCode, HeadIn
  <2> QED BY <2>3, <2>4, <2>5 DEF Kept, ResumeInv
<1>5. CASE CheckSufficientBalance
  <2>1. /\ Next1("checkSufficientBalance") /\ Still /\ UNCHANGED teal
        /\ \/ Done /\ UNCHANGED returncode
           \/ UNCHANGED <<k, returncode>>
           \/ Panic(MIN_BALANCE_VIOLATION)
    BY <1>5 DEF CheckSufficientBalance, Still, txns, queue, teal
  <2>2. CASE Done /\ UNCHANGED returncode
    BY <2>1, <2>2, QuietDone DEF Before
  <2>3. CASE UNCHANGED <<k, returncode>>
    BY <2>1, <2>3 DEF Kept, ResumeInv, OneUnsaved, SubmitHasGroup, PushesNew, FrontEvaluated,
                      StopsLast, SafeCode, HeadIn, Unsaved, Still, teal
  <2>4. CASE Panic(MIN_BALANCE_VIOLATION)
    BY <2>1, <2>4, QuietPanic DEF Over, MIN_BALANCE_VIOLATION, SUCCESS
  <2> QED BY <2>1, <2>2, <2>3, <2>4
<1> QED BY <1>2, <1>3, <1>4, <1>5 DEF Group

\* The evaluation of the transaction in front begins or resumes.
LEMMA EvaluationStarts ==
  ASSUME IInv, Flow, NEW c \in {"executeTxn", "fetchOpcode"}, Next1("evalTx"), Become(<<Cmd(c)>>),
         UNCHANGED <<returncode, deque, currentTx, innerTransactions, nextGroupID>>,
         \A t \in DOMAIN transactions : t # currentTx => transactions'[t] = transactions[t]
  PROVE  Kept
<1> USE DEF Flow
<1>1. k' # <<>> /\ Head(k').name = c
  BY OneHead, CmdType DEF CommandNames
<1>2. OneUnsaved'
  <2>1. deque # <<>> /\ deque[1] = currentTx
    BY DEF ResumeInv, FrontEvaluated, HeadIn, Next1
  <2>2. \A i \in 1..Len(deque) : ~Unsaved(deque[i])
    BY DEF ResumeInv, OneUnsaved, HeadIn, Next1, Busy, InProgram, Posts, Over
  <2>3. \A i \in 1..Len(deque) : deque[i] \in DOMAIN transactions /\ (i # 1 => deque[i] # deque[1])
    BY <2>1 DEF IInv, QueueOK, DequeInv
  <2>4. HeadIn(Busy)'
    BY <1>1 DEF HeadIn, Busy, InProgram
  <2> QED BY <2>1, <2>2, <2>3, <2>4 DEF OneUnsaved, Unsaved
<1>3. SubmitHasGroup' /\ FrontEvaluated' /\ PushesNew'
  BY <1>1 DEF ResumeInv, SubmitHasGroup, FrontEvaluated, PushesNew, HeadIn
<1>4. StopsLast' /\ (SafeCode => SafeCode')
  BY <1>1 DEF StopsLast, SafeCode, HeadIn, Next1, Over
<1> QED BY <1>2, <1>3, <1>4 DEF Kept, ResumeInv

LEMMA TxnFlow ==
  ASSUME IInv, Flow, Txn
  PROVE  Kept
<1> USE DEF Flow
<1>0. \A c \in {"executeTxn", "fetchOpcode", "unmatched"} : Cmd(c) \in Command /\ Cmd(c).name = c
  BY CmdType DEF CommandNames
<1>b. \A h \in {"evalTx", "executeTxn", "executeAppl"} : h \notin Over
  BY DEF Over
<1>a. ASSUME NEW a \in Nat, IsApplCall, Become(<<CmdOf("executeAppl", a)>>), Still, UNCHANGED returncode
      PROVE  Kept
  <2>1. CmdOf("executeAppl", a) \in Command /\ CmdOf("executeAppl", a).name = "executeAppl"
    BY CmdType DEF CommandNames
  <2>2. Turn("executeTxn", "executeAppl")
    BY DEF Turn, Demanding, Over, Busy
  <2> QED BY <1>a, <1>b, <2>1, <2>2, QuietOne DEF IsApplCall
<1>1. CASE EvalNonAppl
  BY <1>1, EvaluationStarts DEF EvalNonAppl, txns, queue, teal
<1>2. CASE EvalApplFirst
  <2>1. \A t \in DOMAIN transactions : t # currentTx => transactions'[t] = transactions[t]
    BY <1>2 DEF EvalApplFirst
  <2> QED BY <1>2, <2>1, EvaluationStarts DEF EvalApplFirst, txns, queue, teal
<1>3. CASE EvalApplResume
  <2>1. \A t \in DOMAIN transactions : t # currentTx => transactions'[t] = transactions[t]
    BY <1>3 DEF EvalApplResume
  <2> QED BY <1>3, <2>1, EvaluationStarts DEF EvalApplResume, txns, queue, teal
<1>4. CASE ExecuteNonAppl
  <2>1. Next1("executeTxn") /\ Still
    BY <1>4 DEF ExecuteNonAppl, Still, txns, queue, teal
  <2>2. CASE Done /\ UNCHANGED returncode
    BY <2>1, <2>2, QuietDone DEF Before, Busy
  <2>3. CASE Panic(INSUFFICIENT_FUNDS)
    BY <1>b, <2>1, <2>3, QuietPanic DEF INSUFFICIENT_FUNDS, SUCCESS
  <2>4. CASE Become(<<Cmd("unmatched")>>) /\ UNCHANGED returncode
    <3>1. Turn("executeTxn", "unmatched")
      BY DEF Turn, Demanding, Over, Busy
    <3> QED BY <1>0, <1>b, <2>1, <2>4, <3>1, QuietOne
  <2> QED BY <1>4, <2>2, <2>3, <2>4 DEF ExecuteNonAppl
<1>5. CASE CreateApplication
  BY <1>a, <1>5 DEF CreateApplication, IInv, DataOK, Still, txns, queue, teal
<1>6. CASE CallApplication
  <2>1. Current.app \in Nat
    BY <1>6, CurrentType DEF CallApplication, IsApplCall, Next1, Evaluating, Transaction
  <2> QED BY <1>a, <1>6, <2>1 DEF CallApplication, Still, txns, queue, teal
<1>7. CASE ExecuteAppl
  <2> DEFINE s == <<CmdOf("initApp", Arg), Cmd("loadInputPgm"), Cmd("fetchOpcode")>> \o PostOperations(Arg)
  <2>1. /\ Arg \in Nat /\ Current \in Transaction /\ Next1("executeAppl") /\ Still /\ UNCHANGED returncode
        /\ Become(s)
    BY <1>7, HeadType, CurrentType DEF ExecuteAppl, Next1, IInv, Evaluating, Still, txns, queue, teal
  <2>2. s \in Seq(Command) /\ s # <<>> /\ s[1] = CmdOf("initApp", Arg)
    BY <2>1, PostFits, FitsProgram
  <2>3. k' # <<>> /\ Head(k').name = "initApp"
    <3> HIDE DEF s
    <3>1. k' # <<>> /\ Head(k') = s[1]
      BY <2>1, <2>2, BecomeSeq DEF IInv, Next1
    <3>2. CmdOf("initApp", Arg).name = "initApp"
      BY <2>1, CmdType DEF CommandNames
    <3> QED BY <2>2, <3>1, <3>2
  <2>4. Turn("executeAppl", "initApp")
    BY DEF Turn, Demanding, Over, Busy
  <2> QED BY <1>b, <2>1, <2>3, <2>4, QuietTurn
<1>8. CASE ClearState
  BY <1>8, QuietDone DEF ClearState, Before, Busy, Posts, Still, txns, queue, teal
<1>9. CASE UpdatePrograms
  BY <1>9, QuietDone DEF UpdatePrograms, Before, Busy, Posts, Still, txns, queue, teal
<1>10. CASE DeleteApplication
  BY <1>10, QuietDone DEF DeleteApplication, Before, Busy, Posts, Still, txns, queue, teal
<1> QED BY <1>1, <1>2, <1>3, <1>4, <1>5, <1>6, <1>7, <1>8, <1>9, <1>10 DEF Txn

\* An opcode that stays within the program.
LEMMA OpcodeFlow ==
  ASSUME IInv, Flow, Running, UNCHANGED <<k, returncode, transactions, queue>>,
         nextGroupID' \in Nat, nextGroupID' >= nextGroupID,
         \A i \in 1..Len(innerTransactions') : ~innerTransactions'[i].resume
  PROVE  Kept
<1> USE DEF Flow
<1>1. OneUnsaved'
  BY DEF ResumeInv, OneUnsaved, HeadIn, Unsaved, queue
<1>2. SubmitHasGroup' /\ PushesNew' /\ FrontEvaluated'
  BY DEF ResumeInv, SubmitHasGroup, PushesNew, FrontEvaluated, HeadIn, Running, Next1, IInv, DataOK
<1>3. StopsLast' /\ (SafeCode => SafeCode')
  BY DEF StopsLast, SafeCode, HeadIn
<1> QED BY <1>1, <1>2, <1>3 DEF Kept, ResumeInv

LEMMA TealFlow ==
  ASSUME IInv, Flow, Teal
  PROVE  Kept
<1> USE DEF Flow
<1>0. \A h \in InProgram \cup {"initApp"} : h \notin Over
  BY DEF InProgram, Over
<1>s. /\ nextGroupID \in Nat /\ innerTransactions \in Seq(Transaction)
      /\ \A i \in 1..Len(innerTransactions) : ~innerTransactions[i].resume
  BY DEF ResumeInv, PushesNew, IInv, DataOK
<1>1. CASE InitApp
  BY <1>1, QuietDone DEF InitApp, Still, txns, queue
<1>2. CASE InitAppError
  BY <1>0, <1>2, QuietPanic DEF InitAppError, Still, txns, queue, teal, APP_ALREADY_ACTIVE, SUCCESS
<1>3. CASE LoadInputPgm
  <2>1. Next1("loadInputPgm") /\ Still /\ "loadInputPgm" \in InProgram
    BY <1>3 DEF LoadInputPgm, Still, txns, queue, teal, InProgram
  <2>2. CASE Done /\ UNCHANGED returncode
    BY <2>1, <2>2, QuietDone
  <2>3. CASE Panic(DUPLICATE_LABEL)
    BY <1>0, <2>1, <2>3, QuietPanic DEF DUPLICATE_LABEL, SUCCESS
  <2> QED BY <1>3, <2>2, <2>3 DEF LoadInputPgm
<1>4. CASE OpPlain
  BY <1>s, <1>4, OpcodeFlow DEF OpPlain, txns, queue
<1>5. CASE OpPanic
  BY <1>0, <1>5, QuietPanic DEF OpPanic, Running, InProgram, Still, txns, queue, teal, ERR_OPCODE, SUCCESS
<1>6. CASE ItxnBegin
  <2>1. innerTransactions' = <<Blank(nextGroupID + 1)>> /\ nextGroupID' = nextGroupID + 1
        /\ Running /\ UNCHANGED <<k, returncode, transactions, queue>>
    BY <1>6 DEF ItxnBegin, CanStage
  <2>2. ~Blank(nextGroupID + 1).resume
    BY DEF Blank, NewTransaction
  <2>3. \A i \in 1..Len(innerTransactions') : ~innerTransactions'[i].resume
    BY <2>1, <2>2
  <2> QED BY <1>s, <2>1, <2>3, OpcodeFlow
<1>7. CASE ItxnNext
  <2>1. innerTransactions' = Append(innerTransactions, Blank(nextGroupID)) /\ nextGroupID' = nextGroupID
        /\ Running /\ UNCHANGED <<k, returncode, transactions, queue>>
    BY <1>7 DEF ItxnNext, CanStage, txns
  <2>2. ~Blank(nextGroupID).resume /\ Blank(nextGroupID) \in Transaction
    BY BlankType DEF Blank, NewTransaction, IInv, DataOK
  <2>3. \A i \in 1..Len(innerTransactions') : ~innerTransactions'[i].resume
    <3> DEFINE b == Blank(nextGroupID)
    <3>1. b \in Transaction /\ ~b.resume /\ innerTransactions' = Append(innerTransactions, b)
      BY <2>1, <2>2
    <3> HIDE DEF b
    <3>2. \A i \in 1..Len(innerTransactions') :
            innerTransactions'[i] = b \/ (i \in 1..Len(innerTransactions) /\ innerTransactions'[i] = innerTransactions[i])
      BY <1>s, <3>1
    <3> QED BY <1>s, <3>1, <3>2
  <2> QED BY <1>s, <2>1, <2>3, OpcodeFlow
<1>8. CASE ItxnField
  <2> DEFINE n == Len(innerTransactions)
             last == innerTransactions[n]
  <2>1. innerTransactions # <<>> /\ nextGroupID' = nextGroupID
        /\ Running /\ UNCHANGED <<k, returncode, transactions, queue>>
    BY <1>8 DEF ItxnField, txns
  <2>2. PICK p \in InnerPayloads :
          innerTransactions' = [innerTransactions EXCEPT ![n] = NewTransaction(p, last.sender, last.group)]
    BY <1>8 DEF ItxnField
  <2>3. ~NewTransaction(p, last.sender, last.group).resume
    BY DEF NewTransaction
  <2>4. \A i \in 1..Len(innerTransactions') : ~innerTransactions'[i].resume
    <3> DEFINE b == NewTransaction(p, last.sender, last.group)
    <3>1. ~b.resume /\ innerTransactions' = [innerTransactions EXCEPT ![n] = b]
      BY <2>2, <2>3
    <3> HIDE DEF b, last
    <3>2. Len(innerTransactions') = n
      BY <1>s, <3>1
    <3>3. \A i \in 1..n : innerTransactions'[i] = b \/ innerTransactions'[i] = innerTransactions[i]
      BY <1>s, <3>1
    <3> QED BY <1>s, <3>1, <3>2, <3>3
  <2> QED BY <1>s, <2>1, <2>4, OpcodeFlow
<1>9. CASE ItxnSubmit
  <2>1. /\ Next1("fetchOpcode") /\ Still /\ UNCHANGED returncode
        /\ Become(<<CmdOf("checkItxns", 1), Cmd("executeItxnGroup")>>)
        /\ currentTxnExecution' = [currentTxnExecution EXCEPT !.pc = @ + 1, !.lastGroup = nextGroupID]
    BY <1>9 DEF ItxnSubmit, Running, Still, txns, queue
  <2>2. /\ CmdOf("checkItxns", 1) \in Command /\ CmdOf("checkItxns", 1).name = "checkItxns"
        /\ Cmd("executeItxnGroup") \in Command
    BY CmdType DEF CommandNames
  <2>3. k' # <<>> /\ Head(k').name = "checkItxns"
    BY <2>1, <2>2, TwoHead
  <2>4. currentTxnExecution'.lastGroup = nextGroupID /\ nextGroupID >= 1
    BY <2>1 DEF IInv, DataOK, Execution, ResumeInv, SubmitHasGroup
  <2>5. currentTxnExecution'.lastGroup # NoGroup
    BY <1>s, <2>4 DEF NoGroup
  <2>6. Turn("fetchOpcode", "checkItxns") /\ "fetchOpcode" \in InProgram
    BY DEF Turn, Demanding, Over, Busy, InProgram
  <2> QED BY <1>0, <2>1, <2>3, <2>5, <2>6, QuietTurn
<1>10. CASE EndProgram
  <2>1. /\ Cmd("finalizeExecution") \in Command /\ Cmd("finalizeExecution").name = "finalizeExecution"
        /\ Turn("fetchOpcode", "finalizeExecution") /\ "fetchOpcode" \in InProgram
    BY CmdType DEF CommandNames, Turn, Demanding, Over, Busy, InProgram
  <2> QED BY <1>0, <1>10, <2>1, QuietOne DEF EndProgram, Still, txns, queue, teal
<1>11. CASE FetchStopped
  BY <1>11, QuietDone DEF FetchStopped, Before, Busy, InProgram, Still, txns, queue, teal
<1>12. CASE FinalizeExecution
  <2>1. Next1("finalizeExecution") /\ Still /\ "finalizeExecution" \in InProgram
    BY <1>12 DEF FinalizeExecution, Still, txns, queue, InProgram
  <2>2. CASE Done /\ UNCHANGED returncode
    BY <2>1, <2>2, QuietDone DEF Before, Busy, InProgram
  <2>3. CASE Panic(ZERO_STACK) \/ Panic(BAD_STACK)
    BY <1>0, <2>1, <2>3, QuietPanic DEF ZERO_STACK, BAD_STACK, SUCCESS
  <2> QED BY <1>12, <2>2, <2>3 DEF FinalizeExecution
<1> QED BY <1>1, <1>2, <1>3, <1>4, <1>5, <1>6, <1>7, <1>8, <1>9, <1>10, <1>11, <1>12 DEF Teal

\* #saveState: the program is saved in its transaction.
LEMMA SaveFlow ==
  ASSUME IInv, Flow, ExecuteItxnGroup
  PROVE  Kept
<1> USE DEF Flow
<1> DEFINE e == currentTxnExecution
<1>1. /\ Next1("executeItxnGroup") /\ UNCHANGED <<returncode, nextGroupID, queue, teal>>
      /\ transactions' = [transactions EXCEPT ![currentTx].context = e]
      /\ Become(<<Cmd("pushItxns"), Cmd("evalTxGroup")>>)
  BY DEF ExecuteItxnGroup
<1>2. k' # <<>> /\ Head(k').name = "pushItxns"
  <2>1. /\ Cmd("pushItxns") \in Command /\ Cmd("pushItxns").name = "pushItxns"
        /\ Cmd("evalTxGroup") \in Command
    BY CmdType DEF CommandNames
  <2> QED BY <1>1, <2>1, TwoHead
<1>3. e.lastGroup # NoGroup
  BY <1>1 DEF ResumeInv, SubmitHasGroup, HeadIn, Next1
<1>4. e # NoContext
  BY <1>3 DEF NoContext
<1> HIDE DEF e
<1>5. OneUnsaved'
  <2>1. \A i \in 1..Len(deque) : Unsaved(deque[i]) => i = 1 /\ deque[1] = currentTx
    BY <1>1 DEF ResumeInv, OneUnsaved, HeadIn, Next1, Over
  <2>2. \A i \in 1..Len(deque) : deque[i] \in DOMAIN transactions
    BY DEF IInv, QueueOK, DequeInv
  <2>3. ASSUME NEW i \in 1..Len(deque) PROVE ~Unsaved(deque[i])'
    <3>1. deque'[i] = deque[i]
      BY <1>1 DEF queue
    <3>2. CASE deque[i] = currentTx
      <4>1. transactions[currentTx] \in Transaction
        BY <2>2, <3>2 DEF IInv, TxnsOK
      <4>2. transactions'[currentTx] = [transactions[currentTx] EXCEPT !.context = e]
        BY <1>1, <2>2, <3>2
      <4>3. transactions'[currentTx].context = e
        BY <4>1, <4>2 DEF Transaction
      <4> QED BY <1>4, <3>1, <3>2, <4>3 DEF Unsaved
    <3>3. CASE deque[i] # currentTx
      <4>1. ~Unsaved(deque[i])
        BY <2>1, <3>3
      <4>2. transactions'[deque[i]] = transactions[deque[i]]
        BY <1>1, <2>2, <3>3
      <4> QED BY <3>1, <4>1, <4>2 DEF Unsaved
    <3> QED BY <3>2, <3>3
  <2> QED BY <1>1, <2>3 DEF OneUnsaved, Unsaved, queue
<1>6. SubmitHasGroup' /\ FrontEvaluated' /\ PushesNew'
  BY <1>1, <1>2 DEF ResumeInv, SubmitHasGroup, FrontEvaluated, PushesNew, HeadIn, teal
<1>7. StopsLast' /\ (SafeCode => SafeCode')
  BY <1>1, <1>2 DEF StopsLast, SafeCode, HeadIn, Next1, Over
<1> QED BY <1>5, <1>6, <1>7 DEF Kept, ResumeInv

LEMMA InnerFlow ==
  ASSUME IInv, Flow, Inner
  PROVE  Kept
<1> USE DEF Flow
<1>1. CASE CheckItxn
  <2>1. /\ Next1("checkItxns") /\ Still /\ UNCHANGED teal /\ "checkItxns" \notin Over /\ Arg + 1 \in Nat
        /\ \/ Panic(TXN_INVALID) \/ Panic(ITXN_REENTRY)
           \/ Become(<<CmdOf("checkItxns", Arg + 1)>>) /\ UNCHANGED returncode
    BY <1>1, HeadType DEF CheckItxn, Still, txns, queue, teal, Over, IInv, Next1
  <2>2. CASE Panic(TXN_INVALID) \/ Panic(ITXN_REENTRY)
    BY <2>1, <2>2, QuietPanic DEF TXN_INVALID, ITXN_REENTRY, SUCCESS
  <2>3. CASE Become(<<CmdOf("checkItxns", Arg + 1)>>) /\ UNCHANGED returncode
    <3>1. /\ CmdOf("checkItxns", Arg + 1) \in Command
          /\ CmdOf("checkItxns", Arg + 1).name = "checkItxns"
      BY <2>1, CmdType DEF CommandNames
    <3>2. k' # <<>> /\ Head(k').name = "checkItxns"
      BY <2>1, <2>3, <3>1, OneHead
    <3>3. Turn("checkItxns", "checkItxns")
      BY DEF Turn, Demanding, Over
    <3>4. currentTxnExecution'.lastGroup # NoGroup
      BY <2>1 DEF ResumeInv, SubmitHasGroup, HeadIn, Next1, teal
    <3> QED BY <2>1, <2>3, <3>2, <3>3, <3>4, QuietTurn
  <2> QED BY <2>1, <2>2, <2>3
<1>2. CASE CheckItxnsDone
  BY <1>2, QuietDone DEF CheckItxnsDone, Still, txns, queue, teal
<1>3. CASE ExecuteItxnGroup
  BY <1>3, SaveFlow
<1>4. CASE PushItxns
  <2> DEFINE n == Len(innerTransactions)
             t == innerTransactions[n]
  <2>0. innerTransactions \in Seq(Transaction) /\ innerTransactions # <<>>
    BY <1>4 DEF PushItxns, IInv, DataOK
  <2>1. /\ Next1("pushItxns") /\ UNCHANGED <<deque, currentTx, nextGroupID, returncode>>
        /\ transactions' = WithTransaction(t)
        /\ innerTransactions' = SubSeq(innerTransactions, 1, n - 1)
        /\ Become(<<CmdOf("pushTxnFront", nextTxnID), Cmd("pushItxns")>>)
    BY <1>4 DEF PushItxns, queue
  <2>2. n \in 1..n /\ t \in Transaction /\ ~t.resume
    BY <2>0 DEF ResumeInv, PushesNew
  <2>3. \A i \in 1..Len(innerTransactions') : ~innerTransactions'[i].resume
    <3>1. \A i \in 1..Len(innerTransactions') : i \in 1..n /\ innerTransactions'[i] = innerTransactions[i]
      BY <2>0, <2>1
    <3> QED BY <3>1 DEF ResumeInv, PushesNew
  <2>4. Cmd("pushItxns") \in Command /\ "pushItxns" \notin Busy \cup Over
    BY CmdType DEF CommandNames, Busy, InProgram, Posts, Over
  <2> HIDE DEF t
  <2> QED BY <2>1, <2>2, <2>3, <2>4, NewToPush
<1>5. CASE PushItxnsDone
  BY <1>5, QuietDone DEF PushItxnsDone, Still, txns, queue, teal
<1> QED BY <1>1, <1>2, <1>3, <1>4, <1>5 DEF Inner

\* While the set-up is on <k> only its own commands are executed.
LEMMA SetupActions ==
  ASSUME IInv, KOrder, [Next]_vars, SettingUp
  PROVE  \/ SetupAccount \/ SetupAccountsDone \/ SetupCounters \/ ReadExecutionStages
         \/ StopIfError \/ UNCHANGED vars
<1>1. k # <<>> /\ Head(k).name \in SetupNames \cup {"stopIfError"}
  <2>1. k \in Seq(Command) /\ k # <<>>
    BY DEF SettingUp, IInv, KInv
  <2>2. 1 \in 1..Len(k) /\ Head(k) = k[1]
    BY <2>1
  <2> QED BY <2>1, <2>2 DEF KOrder, SetupAlone
<1>2. ~(AddTxnJSON \/ SetupTransactionsDone \/ CheckExecutionResults)
  BY <1>1 DEF AddTxnJSON, SetupTransactionsDone, CheckExecutionResults, Next1, SetupNames
<1>3. ~Deque
  BY <1>1 DEF Deque, PushTxnBack, PushTxnFront, GetNextTxn, PopTxnFront, Next1, SetupNames
<1>4. ~Group
  BY <1>1 DEF Group, EvalTxGroup, EvalNextTx, GroupAccepted, CheckSufficientBalance, Next1, SetupNames
<1>5. ~Txn
  BY <1>1 DEF Txn, EvalNonAppl, EvalApplFirst, EvalApplResume, ExecuteNonAppl, CreateApplication,
              CallApplication, IsApplCall, ExecuteAppl, ClearState, UpdatePrograms,
              DeleteApplication, Next1, SetupNames
<1>6. ~Teal
  BY <1>1 DEF Teal, InitApp, InitAppError, LoadInputPgm, OpPlain, OpPanic, ItxnBegin, ItxnNext,
              CanStage, ItxnField, ItxnSubmit, EndProgram, FetchStopped, FinalizeExecution,
              Running, Next1, SetupNames
<1>7. ~Inner
  BY <1>1 DEF Inner, CheckItxn, CheckItxnsDone, ExecuteItxnGroup, PushItxns, PushItxnsDone,
              Next1, SetupNames
<1> QED BY <1>2, <1>3, <1>4, <1>5, <1>6, <1>7 DEF Next, Driver

\* It executes no transaction, and reports no success.
LEMMA SetupStep ==
  ASSUME IInv, Flow, [Next]_vars
  PROVE  SetupState'
<1> USE DEF Flow
<1>1. SettingUp' => SettingUp
  BY OrderStep
<1>2. SUFFICES ASSUME SettingUp PROVE returncode' # SUCCESS /\ nextTxnID' = 0 /\ deque' = <<>>
  BY <1>1 DEF SetupState
<1>3. returncode # SUCCESS /\ nextTxnID = 0 /\ deque = <<>>
  BY <1>2 DEF SetupState
<1>4. CASE SetupAccount
  <2>1. returncode' \in {returncode, INVALID_JSON}
    BY <1>4 DEF SetupAccount, ReadAccount, MalformedAccount, Panic
  <2> QED BY <1>3, <1>4, <2>1 DEF SetupAccount, txns, queue, INVALID_JSON, SUCCESS
<1>5. CASE SetupAccountsDone \/ SetupCounters \/ ReadExecutionStages \/ StopIfError
  BY <1>3, <1>5 DEF SetupAccountsDone, SetupCounters, ReadExecutionStages, StopIfError, txns, queue
<1>6. CASE UNCHANGED vars
  BY <1>3, <1>6 DEF vars, txns, queue
<1> QED BY <1>2, <1>4, <1>5, <1>6, SetupActions

\* A set-up without a panic has no #stopIfError on <k>.
SetupGoesOn == SettingUp => \A i \in 1..Len(k) : k[i].name # "stopIfError"

\* After an error the driver's own commands follow; those of the set-up only if it is
\* still on <k>.
LEMMA StopHeads ==
  ASSUME IInv, KOrder, StopsLast, StopIfError
  PROVE  k' # <<>> => /\ Head(k').name \in {"stopIfError"} \cup TestingCommands
                      /\ Head(k').name \in {"setupCounters", "readExecutionStages"} => SettingUp
<1>1. Next1("stopIfError")
  BY DEF StopIfError
<1>2. /\ SettingUp' => SettingUp
      /\ \A i \in 1..Len(k') : \E j \in 1..Len(k) : k'[i] = k[j]
      /\ k' # <<>> => \/ Head(k').name = "stopIfError"
                      \/ Head(k').name \in TestingCommands
                      \/ returncode = SUCCESS /\ Done
  BY StopOrder DEF IInv
<1>3. returncode = SUCCESS => \A i \in 1..Len(k) : k[i].name = "stopIfError"
  BY <1>1 DEF StopsLast, HeadIn, Next1
<1>4. k' # <<>> => Head(k') = k'[1] /\ 1 \in 1..Len(k')
  <2>1. k' \in Seq(Command)
    BY NextIInv DEF Next, IInv, KInv
  <2> QED BY <2>1
<1>5. k' # <<>> /\ returncode = SUCCESS => Head(k').name = "stopIfError"
  BY <1>2, <1>3, <1>4
<1>6. k' # <<>> /\ Head(k').name \in {"setupCounters", "readExecutionStages"} => SettingUp
  BY <1>2, <1>4 DEF SettingUp, SetupNames
<1> QED BY <1>2, <1>5, <1>6

LEMMA StopFlow ==
  ASSUME IInv, Flow, StopIfError
  PROVE  /\ ResumeInv' /\ StopsLast'
         /\ SafeCode /\ SetupGoesOn => SafeCode'
<1> USE DEF Flow
<1>1. /\ Next1("stopIfError") /\ Still /\ UNCHANGED <<returncode, teal>> /\ "stopIfError" \in Over
      /\ Head(k) = k[1] /\ k # <<>> /\ 1 \in 1..Len(k)
  <2>1. k \in Seq(Command) /\ k # <<>> /\ Head(k) = k[1]
    BY StopSeq DEF IInv
  <2>2. 1 \in 1..Len(k)
    BY <2>1
  <2> QED BY <2>1, <2>2 DEF StopIfError, Still, txns, queue, teal, Over
<1>2. \A i \in 1..Len(k') : \E j \in 1..Len(k) : k'[i] = k[j]
  BY StopOrder DEF IInv
<1>3. returncode = SUCCESS => \A i \in 1..Len(k) : k[i].name = "stopIfError"
  BY <1>1 DEF StopsLast, HeadIn, Next1
<1>5. k' # <<>> => Head(k').name \in {"stopIfError"} \cup TestingCommands
  BY StopHeads
<1>6. StopsLast'
  <2>1. returncode = SUCCESS => \A i \in 1..Len(k') : k'[i].name = "stopIfError"
    BY <1>2, <1>3
  <2> QED BY <1>1, <2>1 DEF StopsLast
<1>7. k' # <<>> /\ Head(k').name \in {"setupCounters", "readExecutionStages"} => SettingUp
  BY StopHeads
<1>8. ResumeInv'
  <2>1. ASSUME k' # <<>>, Head(k').name \in {"setupCounters", "readExecutionStages"}
        PROVE  deque = <<>>
    BY <1>7, <2>1 DEF SetupState
  <2>2. OneUnsaved'
    BY <1>1, <1>5, <2>1 DEF OneUnsaved, HeadIn, Over, TestingCommands, Still
  <2>3. SubmitHasGroup' /\ FrontEvaluated' /\ PushesNew'
    BY <1>1, <1>5 DEF ResumeInv, SubmitHasGroup, FrontEvaluated, PushesNew, HeadIn, Still, TestingCommands
  <2> QED BY <2>2, <2>3 DEF ResumeInv
<1>9. SafeCode /\ SetupGoesOn => SafeCode'
  BY <1>1, <1>5, <1>7 DEF SafeCode, SetupGoesOn, HeadIn, Over, TestingCommands, Next1
<1> QED BY <1>6, <1>8, <1>9

\* Every step keeps the order of <k>, and what resumption relies on.
LEMMA NextFlow ==
  ASSUME IInv, Flow, [Next]_vars
  PROVE  /\ Flow'
         /\ SafeCode /\ SetupGoesOn => SafeCode'
<1>1. KOrder' /\ SetupState'
  BY OrderStep, SetupStep DEF Flow
<1>2. CASE Driver \/ Deque \/ Group \/ Txn \/ Teal \/ Inner
  BY <1>1, <1>2, DriverFlow, DequeFlow, GroupFlow, TxnFlow, TealFlow, InnerFlow DEF Flow, Kept
<1>3. CASE StopIfError
  BY <1>1, <1>3, StopFlow DEF Flow
<1>4. CASE UNCHANGED vars
  <2>1. ResumeInv'
    BY <1>4 DEF Flow, ResumeInv, OneUnsaved, SubmitHasGroup, PushesNew, FrontEvaluated, HeadIn, Unsaved,
                vars, txns, queue, teal
  <2>2. StopsLast' /\ (SafeCode => SafeCode')
    BY <1>4 DEF Flow, StopsLast, SafeCode, HeadIn, vars
  <2> QED BY <1>1, <2>1, <2>2 DEF Flow
<1> QED BY <1>2, <1>3, <1>4 DEF Next

\* A run begins with the set-up.
LEMMA InitK ==
  ASSUME Init
  PROVE  /\ k \in Seq(Command) /\ Len(k) = 3 /\ k # <<>> /\ Head(k) = k[1]
         /\ k[1].name = "setupAccounts" /\ k[2].name = "setupCounters"
         /\ k[3].name = "readExecutionStages"
         /\ \A i \in 1..Len(k) : k[i].name \in SetupNames
<1>1. /\ CmdOf("setupAccounts", 1) \in Command /\ Cmd("setupCounters") \in Command
      /\ Cmd("readExecutionStages") \in Command
      /\ CmdOf("setupAccounts", 1).name = "setupAccounts"
      /\ Cmd("setupCounters").name = "setupCounters"
      /\ Cmd("readExecutionStages").name = "readExecutionStages"
  BY CmdType DEF CommandNames, TestingCommands
<1>2. /\ k \in Seq(Command) /\ Len(k) = 3 /\ k # <<>> /\ Head(k) = k[1]
      /\ k[1].name = "setupAccounts" /\ k[2].name = "setupCounters"
      /\ k[3].name = "readExecutionStages"
  BY <1>1 DEF Init
<1>3. \A i \in 1..Len(k) : i = 1 \/ i = 2 \/ i = 3
  BY <1>2
<1> QED BY <1>2, <1>3 DEF SetupNames

LEMMA InitFlow == Init => Flow /\ SafeCode
<1> SUFFICES ASSUME Init PROVE Flow /\ SafeCode
  OBVIOUS
<1>1. /\ k \in Seq(Command) /\ Len(k) = 3 /\ k # <<>> /\ Head(k) = k[1]
      /\ k[1].name = "setupAccounts" /\ k[2].name = "setupCounters" /\ k[3].name = "readExecutionStages"
  BY InitK
<1>2. \A i \in 1..Len(k) : i = 1 \/ i = 2 \/ i = 3
  BY <1>1
<1>3. Ordered
  <2>1. \A i \in 1..(Len(k) - 1) : i = 1 \/ i = 2
    BY <1>1
  <2> QED BY <1>1, <2>1 DEF Ordered, May, Follows
<1>4. FinalsLast
  BY <1>1, <1>2 DEF FinalsLast, Finals
<1>5. SetupAlone
  BY <1>1, <1>2 DEF SetupAlone, SetupNames
<1>6. SetupState /\ StopsLast /\ SafeCode
  BY <1>1 DEF Init, SetupState, StopsLast, SafeCode, HeadIn, STUCK, SUCCESS
<1>7. ResumeInv
  BY <1>1 DEF Init, ResumeInv, OneUnsaved, SubmitHasGroup, PushesNew, FrontEvaluated, HeadIn
<1> QED BY <1>3, <1>4, <1>5, <1>6, <1>7 DEF Flow, KOrder

\* Once resumed an application call has been saved: #restoreContext never lacks
\* a context, whatever programs do.
THEOREM ResumptionHasContext == Spec => []ResumeHasContext
<1>1. Init => IInv /\ Flow
  BY InitIInv, InitFlow
<1>2. IInv /\ Flow /\ [Next]_vars => (IInv /\ Flow)'
  BY NextIInv, NextFlow
<1>3. IInv /\ Flow => ResumeHasContext
  <2> SUFFICES ASSUME IInv, Flow, Next1("evalTx"), Current.type = "appl", Current.resume
               PROVE  currentTx \in Suspended
    BY DEF ResumeHasContext
  <2>1. currentTx \in DOMAIN transactions
    BY CurrentType DEF Next1, Evaluating
  <2>2. deque # <<>> /\ deque[1] = currentTx
    BY DEF Flow, ResumeInv, FrontEvaluated, HeadIn, Next1
  <2>3. 1 \in 1..Len(deque)
    BY <2>2 DEF IInv, QueueOK
  <2>4. ~Unsaved(deque[1])
    BY <2>3 DEF Flow, ResumeInv, OneUnsaved, HeadIn, Next1, Over, Busy, InProgram, Posts
  <2> QED BY <2>1, <2>2, <2>4 DEF Unsaved, Suspended, Current
<1> QED BY <1>1, <1>2, <1>3, PTL DEF Spec

-----------------------------------------------------------------------------
(* Panics.                                                                 *)
\* Every account object of the set-up is one the rules can read.
WellFormedSetup == \A i \in 1..Len(Setup) : FALSE \notin Setup[i].wellFormed

LEMMA InitSetupGoesOn == Init => SetupGoesOn
BY InitK DEF SetupGoesOn, SetupNames

LEMMA SetupGoesOnStep ==
  ASSUME WellFormedSetup \/ returncode' = STUCK, IInv, KOrder, SetupGoesOn, [Next]_vars
  PROVE  SetupGoesOn'
<1>1. SettingUp' => SettingUp
  BY OrderStep
<1>2. SUFFICES ASSUME SettingUp PROVE \A i \in 1..Len(k') : k'[i].name # "stopIfError"
  BY <1>1 DEF SetupGoesOn
<1>3. /\ \A i \in 1..Len(k) : k[i].name # "stopIfError"
      /\ k # <<>> /\ k \in Seq(Command) /\ Head(k) = k[1] /\ 1 \in 1..Len(k)
  <2>1. k \in Seq(Command) /\ k # <<>>
    BY <1>2 DEF SettingUp, IInv, KInv
  <2> QED BY <1>2, <2>1 DEF SetupGoesOn
<1>4. ASSUME NEW s \in Seq(Command), s # <<>>, Become(s), \A i \in 1..Len(s) : s[i].name # "stopIfError"
      PROVE  \A i \in 1..Len(k') : k'[i].name # "stopIfError"
  <2>1. /\ \A i \in 1..Len(s) : k'[i] = s[i]
        /\ \A i \in (Len(s) + 1)..Len(k') : /\ i - Len(s) + 1 \in 2..Len(k)
                                            /\ k'[i] = k[i - Len(s) + 1]
        /\ Len(s) \in Nat /\ Len(k') \in Nat
    BY <1>3, <1>4, BecomeSeq DEF IInv
  <2>2. ASSUME NEW i \in 1..Len(k') PROVE k'[i].name # "stopIfError"
    <3>1. CASE i \in 1..Len(s)
      BY <1>4, <2>1, <3>1
    <3>2. CASE i \in (Len(s) + 1)..Len(k')
      <4>1. i - Len(s) + 1 \in 1..Len(k) /\ k'[i] = k[i - Len(s) + 1]
        BY <1>3, <2>1, <3>2
      <4> QED BY <1>3, <4>1
    <3> QED BY <2>1, <3>1, <3>2
  <2> QED BY <2>2
<1>5. CASE SetupAccount
  <2>1. Arg \in 1..Len(Setup) /\ Arg + 1 \in Nat
    BY <1>5, HeadType DEF SetupAccount, Next1, Sound, Iterating, Arg, IInv
  <2>2. ~MalformedAccount(Setup[Arg])
    <3>1. MalformedAccount(Setup[Arg]) => returncode' # STUCK
      BY DEF MalformedAccount, Panic, INVALID_JSON, STUCK
    <3>2. WellFormedSetup => ~MalformedAccount(Setup[Arg])
      BY <2>1 DEF WellFormedSetup, MalformedAccount
    <3> QED BY <3>1, <3>2
  <2>3. Become(<<CmdOf("setupAccounts", Arg + 1)>>)
    BY <1>5, <2>2 DEF SetupAccount, ReadAccount
  <2> DEFINE s == <<CmdOf("setupAccounts", Arg + 1)>>
  <2>4. CmdOf("setupAccounts", Arg + 1) \in Command /\ CmdOf("setupAccounts", Arg + 1).name = "setupAccounts"
    BY <2>1, CmdType DEF CommandNames
  <2>5. s \in Seq(Command) /\ s # <<>> /\ Len(s) = 1 /\ s[1].name = "setupAccounts" /\ Become(s)
    BY <2>3, <2>4
  <2> HIDE DEF s
  <2> QED BY <1>4, <2>5
<1>6. CASE SetupAccountsDone \/ SetupCounters
  <2>1. Done
    BY <1>6 DEF SetupAccountsDone, SetupCounters
  <2>2. \A i \in 1..Len(k') : i + 1 \in 1..Len(k) /\ k'[i] = k[i + 1]
    BY <1>3, <2>1 DEF Done
  <2> QED BY <1>3, <2>2
<1>7. CASE ReadExecutionStages
  <2> DEFINE s == <<CmdOf("setupTransactions", 1), Cmd("evalTxGroup"), Cmd("checkExecutionResults")>>
  <2>1. /\ CmdOf("setupTransactions", 1) \in Command /\ Cmd("evalTxGroup") \in Command
        /\ Cmd("checkExecutionResults") \in Command
        /\ CmdOf("setupTransactions", 1).name = "setupTransactions"
        /\ Cmd("evalTxGroup").name = "evalTxGroup"
        /\ Cmd("checkExecutionResults").name = "checkExecutionResults"
    BY CmdType DEF CommandNames, TestingCommands
  <2>2. /\ s \in Seq(Command) /\ s # <<>> /\ Len(s) = 3 /\ s[1].name = "setupTransactions"
        /\ s[2].name = "evalTxGroup" /\ s[3].name = "checkExecutionResults" /\ Become(s)
    BY <1>7, <2>1 DEF ReadExecutionStages
  <2> HIDE DEF s
  <2>3. \A i \in 1..Len(s) : i = 1 \/ i = 2 \/ i = 3
    BY <2>2
  <2> QED BY <1>4, <2>2, <2>3
<1>8. ~StopIfError
  BY <1>3 DEF StopIfError, Next1
<1>9. CASE UNCHANGED vars
  BY <1>3, <1>9 DEF vars
<1> QED BY <1>2, <1>5, <1>6, <1>7, <1>8, <1>9, SetupActions

\* Only #stopIfError is executed where #stopIfError is next.
LEMMA NotStopping ==
  ASSUME Driver \/ Deque \/ Group \/ Txn \/ Teal \/ Inner
  PROVE  k # <<>> /\ Head(k).name # "stopIfError"
<1>1. CASE Driver
  BY <1>1 DEF Driver, SetupAccount, SetupAccountsDone, SetupCounters, ReadExecutionStages,
              AddTxnJSON, SetupTransactionsDone, CheckExecutionResults, Next1
<1>2. CASE Deque
  BY <1>2 DEF Deque, PushTxnBack, PushTxnFront, GetNextTxn, PopTxnFront, Next1
<1>3. CASE Group
  BY <1>3 DEF Group, EvalTxGroup, EvalNextTx, GroupAccepted, CheckSufficientBalance, Next1
<1>4. CASE Txn
  BY <1>4 DEF Txn, EvalNonAppl, EvalApplFirst, EvalApplResume, ExecuteNonAppl, CreateApplication,
              CallApplication, IsApplCall, ExecuteAppl, ClearState, UpdatePrograms,
              DeleteApplication, Next1
<1>5. CASE Teal
  BY <1>5 DEF Teal, InitApp, InitAppError, LoadInputPgm, OpPlain, OpPanic, ItxnBegin, ItxnNext,
              CanStage, ItxnField, ItxnSubmit, EndProgram, FetchStopped, FinalizeExecution,
              Running, Next1
<1>6. CASE Inner
  BY <1>6 DEF Inner, CheckItxn, CheckItxnsDone, ExecuteItxnGroup, PushItxns, PushItxnsDone, Next1
<1> QED BY <1>1, <1>2, <1>3, <1>4, <1>5, <1>6

\* The code a panic left changes only where the stage is checked, provided the
\* set-up has no malformed account: its panic is the one that does not end a run.
THEOREM PanicsAreFinal ==
  ASSUME WellFormedSetup
  PROVE  Spec => PanicIsFinal
<1> DEFINE Inv == IInv /\ Flow /\ SafeCode /\ SetupGoesOn
<1>1. Init => Inv
  BY InitIInv, InitFlow, InitSetupGoesOn
<1>2. Inv /\ [Next]_vars => Inv'
  BY NextIInv, NextFlow, SetupGoesOnStep DEF Flow
<1>3. Inv /\ [Next]_vars =>
        [returncode \notin {SUCCESS, STUCK} /\ returncode' # returncode
           => Next1("checkExecutionResults")]_vars
  <2> SUFFICES ASSUME Inv, Next, returncode \notin {SUCCESS, STUCK}, returncode' # returncode
               PROVE  Next1("checkExecutionResults")
    OBVIOUS
  <2>1. ~StopIfError
    BY DEF StopIfError
  <2>2. k # <<>> /\ Head(k).name # "stopIfError"
    BY <2>1, NotStopping DEF Next
  <2> QED BY <2>2 DEF SafeCode, HeadIn, Over, Next1
<1> QED BY <1>1, <1>2, <1>3, PTL DEF Spec, PanicIsFinal

-----------------------------------------------------------------------------
(* The applications on the call stack.                                     *)
\* What is done for a transaction once it has been chosen for execution.
Executing == InProgram \cup {"executeTxn", "executeAppl", "initApp"}

\* What is suspended is an application call that has started; what is staged is
\* not suspended, and neither is what is being executed.
CallInv ==
  /\ \A t \in Suspended : transactions[t].type = "appl" /\ transactions[t].resume
  /\ \A i \in 1..Len(innerTransactions) : innerTransactions[i].context = NoContext
  /\ HeadIn(Executing) => /\ currentTx \in DOMAIN transactions /\ currentTx \notin Suspended
                          /\ Current.type = "appl" => Current.resume
  /\ HeadIn(Executing \ {"executeTxn"}) => Current.type = "appl"

\* The application whose program runs, if one does.
RunningApp == IF HeadIn(InProgram) THEN {currentTxnExecution.app} ELSE {}

\* The applications of suspended transactions differ and are active; so does and is
\* the one that runs; as long as nothing has failed, no other one is active.
Distinct == \A t, u \in Suspended :
              t # u => transactions[t].context.app # transactions[u].context.app
ActInv ==
  /\ Distinct
  /\ AppsOf(Suspended) \subseteq activeApps
  /\ RunningApp \subseteq activeApps \ AppsOf(Suspended)
  /\ returncode = STUCK /\ k # <<>> => activeApps \subseteq AppsOf(Suspended) \cup RunningApp

Calls == CallInv /\ ActInv

\* The head of <k> may change like this while the same transaction is executed.
Lasts ==
  /\ HeadIn(Executing)' => HeadIn(Executing)
  /\ HeadIn(Executing \ {"executeTxn"})' =>
       HeadIn(Executing \ {"executeTxn"}) \/ (HeadIn(Executing) /\ Current.type = "appl")
  /\ HeadIn(InProgram)' => HeadIn(InProgram)
  /\ returncode' = STUCK /\ k' # <<>> =>
       returncode = STUCK /\ k # <<>> /\ (HeadIn(InProgram) => HeadIn(InProgram)')

\* A step that leaves transactions and call stack alone.
LEMMA CallsStay ==
  ASSUME Calls, Lasts, UNCHANGED <<transactions, currentTx, activeApps>>,
         currentTxnExecution'.app = currentTxnExecution.app \/ ~HeadIn(InProgram)',
         \A i \in 1..Len(innerTransactions') : innerTransactions'[i].context = NoContext
  PROVE  Calls'
<1>1. Suspended' = Suspended /\ AppsOf(Suspended)' = AppsOf(Suspended)
  BY DEF Suspended, AppsOf
<1>2. Current' = Current
  BY DEF Current
<1>3. CallInv'
  <2>1. \A t \in Suspended' : transactions'[t].type = "appl" /\ transactions'[t].resume
    BY <1>1 DEF Calls, CallInv
  <2>2. HeadIn(Executing)' => /\ currentTx' \in DOMAIN transactions' /\ currentTx' \notin Suspended'
                              /\ Current'.type = "appl" => Current'.resume
    BY <1>1, <1>2 DEF Calls, CallInv, Lasts
  <2>3. HeadIn(Executing \ {"executeTxn"})' => Current'.type = "appl"
    BY <1>2 DEF Calls, CallInv, Lasts
  <2> QED BY <2>1, <2>2, <2>3 DEF CallInv
<1>4. ActInv'
  <2>1. Distinct'
    BY <1>1 DEF Calls, ActInv, Distinct
  <2>2. RunningApp' \subseteq RunningApp
    BY DEF RunningApp, Lasts
  <2>3. returncode' = STUCK /\ k' # <<>> => RunningApp \subseteq RunningApp'
    BY DEF RunningApp, Lasts
  <2> QED BY <1>1, <2>1, <2>2, <2>3 DEF Calls, ActInv, Lasts
<1> QED BY <1>3, <1>4 DEF Calls

\* No new transaction is suspended.
LEMMA NewNotSuspended ==
  ASSUME IInv, NEW t \in Transaction, t.context = NoContext, transactions' = WithTransaction(t)
  PROVE  /\ Suspended' = Suspended /\ AppsOf(Suspended)' = AppsOf(Suspended)
         /\ \A u \in Suspended : transactions'[u] = transactions[u]
<1>1. /\ \A u \in DOMAIN transactions : transactions'[u] = transactions[u]
      /\ transactions'[nextTxnID] = t /\ nextTxnID \notin DOMAIN transactions
      /\ DOMAIN transactions' = DOMAIN transactions \cup {nextTxnID}
  BY OldTransactions
<1>2. Suspended' = Suspended
  BY <1>1 DEF Suspended
<1>3. \A u \in Suspended : transactions'[u] = transactions[u]
  BY <1>1 DEF Suspended
<1>4. AppsOf(Suspended)' = AppsOf(Suspended)
  BY <1>2, <1>3 DEF AppsOf
<1> QED BY <1>2, <1>3, <1>4

\* A step outside the execution of transactions.
LEMMA CallsOutside ==
  ASSUME Calls, ~HeadIn(Executing), ~HeadIn(Executing)',
         Suspended' = Suspended, AppsOf(Suspended)' = AppsOf(Suspended), activeApps' = activeApps,
         \A t \in Suspended : /\ transactions'[t].type = transactions[t].type
                              /\ transactions'[t].resume = transactions[t].resume
                              /\ transactions'[t].context = transactions[t].context,
         \A i \in 1..Len(innerTransactions') : innerTransactions'[i].context = NoContext,
         returncode' = STUCK => returncode = STUCK /\ k # <<>>
  PROVE  Calls'
<1>1. ~HeadIn(Executing \ {"executeTxn"})' /\ ~HeadIn(InProgram)' /\ ~HeadIn(InProgram)
  BY DEF HeadIn, Executing
<1>2. CallInv'
  BY <1>1 DEF Calls, CallInv
<1>3. Distinct'
  BY DEF Calls, ActInv, Distinct
<1>4. RunningApp' = {} /\ RunningApp = {}
  BY <1>1 DEF RunningApp
<1>5. ActInv'
  BY <1>3, <1>4 DEF Calls, ActInv
<1> QED BY <1>2, <1>5 DEF Calls

\* Steps on behalf of the transaction being executed, by the head they lead to.
LEMMA TurnCalls ==
  ASSUME Calls, NEW h, Next1(h), NEW g, k' # <<>>, Head(k').name = g,
         g \in Executing => h \in Executing,
         g \in Executing \ {"executeTxn"} => h \in Executing \ {"executeTxn"} \/ Current.type = "appl",
         g \in InProgram => h \in InProgram,
         returncode' = STUCK => returncode = STUCK /\ (h \in InProgram => g \in InProgram),
         UNCHANGED <<transactions, currentTx, activeApps>>,
         currentTxnExecution'.app = currentTxnExecution.app,
         \A i \in 1..Len(innerTransactions') : innerTransactions'[i].context = NoContext
  PROVE  Calls'
<1>1. Lasts
  BY DEF Lasts, HeadIn, Next1
<1> QED BY <1>1, CallsStay

LEMMA DoneCalls ==
  ASSUME IInv, KOrder, Calls, NEW h \in Executing \ {"initApp"}, Next1(h), Done,
         UNCHANGED <<transactions, currentTx, teal, returncode>>,
         h \in {"fetchOpcode", "finalizeExecution", "executeItxnGroup"} => returncode # STUCK
  PROVE  Calls'
<1>1. \A i \in 1..Len(innerTransactions') : innerTransactions'[i].context = NoContext
  BY DEF teal, Calls, CallInv
<1>2. k' = <<>> \/ \E g : Head(k').name = g /\ May(h, g)
  BY DoneHead
<1>3. CASE k' = <<>>
  <2>1. Lasts
    BY <1>3 DEF Lasts, HeadIn
  <2> QED BY <1>1, <2>1, CallsStay DEF teal
<1>4. CASE k' # <<>>
  <2>1. PICK g : Head(k').name = g /\ May(h, g)
    BY <1>2, <1>4
  <2>2. /\ h = "loadInputPgm" => g = "fetchOpcode"
        /\ h = "checkItxns" => g = "executeItxnGroup"
        /\ h \notin {"loadInputPgm", "checkItxns"} => g \in After
    <3>1. h # "stopIfError"
      BY DEF Executing, InProgram
    <3>2. h \notin {"loadInputPgm", "checkItxns"} => h \in Before
      BY DEF Executing, InProgram, Before, Busy
    <3> QED BY <2>1, <3>1, <3>2, MayAfter
  <2>3. /\ g \in Executing => h \in InProgram /\ g \in InProgram
        /\ h \in InProgram \ {"fetchOpcode", "finalizeExecution", "executeItxnGroup"} => g \in InProgram
    BY <2>2 DEF After, Posts, Executing, InProgram
  <2>4. h \in InProgram => h \in Executing \ {"executeTxn"}
    BY DEF Executing, InProgram
  <2>5. g \in InProgram => g \in Executing
    BY DEF Executing
  <2> QED BY <1>1, <1>4, <2>1, <2>3, <2>4, <2>5, TurnCalls DEF teal
<1> QED BY <1>3, <1>4

\* A panic.
LEMMA PanicCalls ==
  ASSUME IInv, Calls, NEW h, Next1(h), NEW code, code # STUCK, Panic(code),
         UNCHANGED <<transactions, currentTx, teal>>
  PROVE  Calls'
<1>1. k' # <<>> /\ Head(k').name = "stopIfError" /\ returncode' = code
  BY PanicHead
<1>2. Lasts
  BY <1>1 DEF Lasts, HeadIn, Executing, InProgram
<1>3. \A i \in 1..Len(innerTransactions') : innerTransactions'[i].context = NoContext
  BY DEF teal, Calls, CallInv
<1> QED BY <1>2, <1>3, CallsStay DEF teal

\* Steps between the executions of transactions.
LEMMA OutsideCalls ==
  ASSUME IInv, Calls, NEW h, Next1(h), h \notin Executing, ~HeadIn(Executing)',
         UNCHANGED <<transactions, teal>>, returncode' = STUCK => returncode = STUCK
  PROVE  Calls'
<1>1. ~HeadIn(Executing)
  BY DEF HeadIn, Next1
<1>2. Suspended' = Suspended /\ AppsOf(Suspended)' = AppsOf(Suspended)
  BY DEF Suspended, AppsOf
<1>3. \A i \in 1..Len(innerTransactions') : innerTransactions'[i].context = NoContext
  BY DEF teal, Calls, CallInv
<1> QED BY <1>1, <1>2, <1>3, CallsOutside DEF teal, Next1

LEMMA OutsideDone ==
  ASSUME IInv, KOrder, NEW h, Next1(h), h \notin Executing, h # "stopIfError", Done
  PROVE  ~HeadIn(Executing)'
<1>1. \A g : May(h, g) => g \notin Executing
  BY DEF May, Follows, Before, After, Busy, InProgram, Posts, TestingCommands, Executing
<1> QED BY <1>1, DoneHead DEF HeadIn

\* One whose command is replaced by another.
LEMMA OutsideTurn ==
  ASSUME IInv, Calls, NEW h, Next1(h), h \notin Executing, NEW g, k' # <<>>, Head(k').name = g,
         g \notin Executing, UNCHANGED <<transactions, teal>>, returncode' = STUCK => returncode = STUCK
  PROVE  Calls'
<1>1. ~HeadIn(Executing)'
  BY DEF HeadIn
<1> QED BY <1>1, OutsideCalls

\* A new transaction, about to be pushed.
LEMMA PushCalls ==
  ASSUME IInv, Calls, NEW h, Next1(h), h \notin Executing,
         NEW t \in Transaction, t.context = NoContext, transactions' = WithTransaction(t),
         NEW p \in {"pushTxnBack", "pushTxnFront"}, NEW d \in Command,
         Become(<<CmdOf(p, nextTxnID), d>>), UNCHANGED <<activeApps, returncode>>,
         \A i \in 1..Len(innerTransactions') : innerTransactions'[i].context = NoContext
  PROVE  Calls'
<1>0. nextTxnID \in Nat /\ p \in CommandNames
  BY DEF IInv, TxnsOK, CommandNames
<1>1. CmdOf(p, nextTxnID) \in Command /\ CmdOf(p, nextTxnID).name = p
  BY <1>0, CmdType
<1>2. k' # <<>> /\ Head(k').name = p
  BY <1>1, TwoHead
<1>3. ~HeadIn(Executing) /\ ~HeadIn(Executing)'
  BY <1>2 DEF HeadIn, Next1, Executing, InProgram
<1>4. /\ Suspended' = Suspended /\ AppsOf(Suspended)' = AppsOf(Suspended)
      /\ \A u \in Suspended : transactions'[u] = transactions[u]
  BY NewNotSuspended
<1> QED BY <1>3, <1>4, CallsOutside DEF Next1

LEMMA DriverCalls ==
  ASSUME IInv, KOrder, Calls, Driver
  PROVE  Calls'
<1>0. \A h \in {"setupAccounts", "setupCounters", "readExecutionStages", "setupTransactions",
                "checkExecutionResults"} : h \notin Executing /\ h # "stopIfError"
  BY DEF Executing, InProgram
<1>1. CASE SetupAccount
  <2>1. Next1("setupAccounts") /\ UNCHANGED <<transactions, teal, currentTx>> /\ Arg + 1 \in Nat
    BY <1>1, HeadType DEF SetupAccount, txns, queue, IInv, Next1
  <2>2. CASE MalformedAccount(Setup[Arg])
    BY <2>1, <2>2, PanicCalls DEF MalformedAccount, INVALID_JSON, STUCK
  <2>3. CASE ReadAccount(Setup[Arg])
    <3>1. /\ CmdOf("setupAccounts", Arg + 1) \in Command
          /\ CmdOf("setupAccounts", Arg + 1).name = "setupAccounts"
      BY <2>1, CmdType DEF CommandNames
    <3>2. k' # <<>> /\ Head(k').name = "setupAccounts"
      BY <2>1, <2>3, <3>1, OneHead DEF ReadAccount
    <3> QED BY <1>0, <2>1, <2>3, <3>2, OutsideTurn DEF ReadAccount
  <2> QED BY <1>1, <2>2, <2>3 DEF SetupAccount
<1>2. CASE SetupAccountsDone
  BY <1>0, <1>2, OutsideDone, OutsideCalls DEF SetupAccountsDone, txns
<1>3. CASE SetupCounters
  BY <1>0, <1>3, OutsideDone, OutsideCalls DEF SetupCounters, txns
<1>4. CASE ReadExecutionStages
  <2> DEFINE s == <<CmdOf("setupTransactions", 1), Cmd("evalTxGroup"), Cmd("checkExecutionResults")>>
  <2>1. Next1("readExecutionStages") /\ UNCHANGED <<transactions, teal, returncode>> /\ Become(s)
    BY <1>4 DEF ReadExecutionStages, txns
  <2>2. s \in Seq(Command) /\ s # <<>> /\ s[1] = CmdOf("setupTransactions", 1)
    BY FitsStage
  <2> HIDE DEF s
  <2>3. k' # <<>> /\ Head(k').name = "setupTransactions"
    <3>1. k' # <<>> /\ Head(k') = s[1]
      BY <2>1, <2>2, BecomeSeq DEF IInv, Next1
    <3>2. CmdOf("setupTransactions", 1).name = "setupTransactions"
      BY CmdType DEF CommandNames
    <3> QED BY <2>2, <3>1, <3>2
  <2> QED BY <1>0, <2>1, <2>3, OutsideTurn
<1>5. CASE AddTxnJSON
  <2>1. /\ Next1("setupTransactions") /\ Arg \in 1..Len(OuterGroups) /\ Arg + 1 \in Nat
        /\ UNCHANGED <<activeApps, returncode, innerTransactions>>
        /\ Become(<<CmdOf("pushTxnBack", nextTxnID), CmdOf("setupTransactions", Arg + 1)>>)
    BY <1>5, HeadType DEF AddTxnJSON, Next1, teal, IInv, Sound, Iterating, Arg
  <2>2. PICK p \in OuterPayloads, u \in Users :
          transactions' = WithTransaction(NewTransaction(p, u, OuterGroups[Arg]))
    BY <1>5 DEF AddTxnJSON
  <2>3. NewTransaction(p, u, OuterGroups[Arg]) \in Transaction
    BY <2>1, OuterTransaction
  <2>4. NewTransaction(p, u, OuterGroups[Arg]).context = NoContext
    BY DEF NewTransaction
  <2>5. CmdOf("setupTransactions", Arg + 1) \in Command
    BY <2>1, CmdType DEF CommandNames
  <2>6. \A i \in 1..Len(innerTransactions') : innerTransactions'[i].context = NoContext
    BY <2>1 DEF Calls, CallInv
  <2> QED BY <1>0, <2>1, <2>2, <2>3, <2>4, <2>5, <2>6, PushCalls
<1>6. CASE SetupTransactionsDone
  BY <1>0, <1>6, OutsideDone, OutsideCalls DEF SetupTransactionsDone, txns
<1>7. CASE CheckExecutionResults
  BY <1>0, <1>7, OutsideDone, OutsideCalls DEF CheckExecutionResults, txns, SUCCESS, MISMATCH, STUCK
<1> QED BY <1>1, <1>2, <1>3, <1>4, <1>5, <1>6, <1>7 DEF Driver

LEMMA DequeCalls ==
  ASSUME IInv, KOrder, Calls, Deque
  PROVE  Calls'
<1>0. \A h \in {"pushTxnBack", "pushTxnFront", "getNextTxn", "popTxnFront"} :
        h \notin Executing /\ h # "stopIfError"
  BY DEF Executing, InProgram
<1>1. ASSUME NEW h \in {"pushTxnBack", "pushTxnFront"}, Next1(h), NEW q, Schedule(Arg, q)
      PROVE  Calls'
  <2>1. UNCHANGED <<transactions, teal, currentTx>>
    BY <1>1 DEF Schedule, txns
  <2>2. CASE Done /\ UNCHANGED returncode
    BY <1>0, <1>1, <2>1, <2>2, OutsideDone, OutsideCalls
  <2>3. CASE Panic(TXN_DEQUE_ERROR)
    BY <1>1, <2>1, <2>3, PanicCalls DEF TXN_DEQUE_ERROR, STUCK
  <2> QED BY <1>1, <2>2, <2>3 DEF Schedule
<1>2. CASE PushTxnBack \/ PushTxnFront
  BY <1>1, <1>2 DEF PushTxnBack, PushTxnFront
<1>3. CASE GetNextTxn
  <2>1. Next1("getNextTxn") /\ UNCHANGED <<transactions, teal, returncode>> /\ Done
    BY <1>3 DEF GetNextTxn, txns, IInv, HeadReady, Next1
  <2> QED BY <1>0, <2>1, OutsideDone, OutsideCalls
<1>4. CASE PopTxnFront
  BY <1>0, <1>4, OutsideDone, OutsideCalls DEF PopTxnFront, txns
<1> QED BY <1>2, <1>3, <1>4 DEF Deque

LEMMA GroupCalls ==
  ASSUME IInv, KOrder, Calls, Group
  PROVE  Calls'
<1>0. /\ \A h \in {"evalTxGroup", "evalNextTx", "checkSufficientBalance"} :
           h \notin Executing /\ h # "stopIfError"
      /\ "getNextTxn" \notin Executing
  BY DEF Executing, InProgram
<1>1. ASSUME NEW h \in {"evalTxGroup", "evalNextTx"}, Next1(h), UNCHANGED <<transactions, teal, returncode>>,
             Become(Evaluation) \/ Become(<<Cmd("getNextTxn"), Cmd("evalTx")>>)
      PROVE  Calls'
  <2>1. /\ Cmd("getNextTxn") \in Command /\ Cmd("getNextTxn").name = "getNextTxn"
        /\ Cmd("evalTx") \in Command
    BY CmdType DEF CommandNames
  <2>2. k' # <<>> /\ Head(k').name = "getNextTxn"
    <3>1. CASE Become(Evaluation)
      <4>1. PICK s \in Seq(Command) : s # <<>> /\ Become(s) /\ s[1] = Cmd("getNextTxn")
        BY <3>1, FitsEvaluation
      <4> QED BY <1>1, <2>1, <4>1, BecomeSeq DEF IInv, Next1
    <3>2. CASE Become(<<Cmd("getNextTxn"), Cmd("evalTx")>>)
      BY <1>1, <2>1, <3>2, TwoHead
    <3> QED BY <1>1, <3>1, <3>2
  <2> QED BY <1>0, <1>1, <2>2, OutsideTurn
<1>2. CASE EvalTxGroup
  BY <1>1, <1>2 DEF EvalTxGroup, txns
<1>3. CASE EvalNextTx
  BY <1>1, <1>3 DEF EvalNextTx, txns
<1>4. CASE GroupAccepted
  <2>1. k' # <<>> /\ Head(k').name = "checkSufficientBalance"
    BY <1>4, OneHead, CmdType DEF GroupAccepted, CommandNames
  <2> QED BY <1>0, <1>4, <2>1, OutsideTurn DEF GroupAccepted, txns, SUCCESS, STUCK
<1>5. CASE CheckSufficientBalance
  <2>1. /\ Next1("checkSufficientBalance") /\ UNCHANGED <<transactions, teal, currentTx>>
        /\ \/ Done /\ UNCHANGED returncode
           \/ UNCHANGED <<k, returncode>>
           \/ Panic(MIN_BALANCE_VIOLATION)
    BY <1>5 DEF CheckSufficientBalance, txns, queue
  <2>2. CASE Done /\ UNCHANGED returncode
    BY <1>0, <2>1, <2>2, OutsideDone, OutsideCalls
  <2>3. CASE UNCHANGED <<k, returncode>>
    <3>1. k' # <<>> /\ Head(k').name = "checkSufficientBalance"
      BY <2>1, <2>3 DEF Next1
    <3> QED BY <1>0, <2>1, <2>3, <3>1, OutsideTurn
  <2>4. CASE Panic(MIN_BALANCE_VIOLATION)
    BY <2>1, <2>4, PanicCalls DEF MIN_BALANCE_VIOLATION, STUCK
  <2> QED BY <2>1, <2>2, <2>3, <2>4
<1> QED BY <1>2, <1>3, <1>4, <1>5 DEF Group

\* The transaction that is evaluated begins.
LEMMA StartCalls ==
  ASSUME IInv, Calls, Next1("evalTx"), Become(<<Cmd("executeTxn")>>),
         currentTx \notin Suspended, UNCHANGED <<currentTx, activeApps, innerTransactions, returncode>>,
         DOMAIN transactions' = DOMAIN transactions,
         \A t \in DOMAIN transactions : /\ transactions'[t].type = transactions[t].type
                                        /\ transactions'[t].context = transactions[t].context
                                        /\ t # currentTx => transactions'[t].resume = transactions[t].resume,
         transactions'[currentTx].type = "appl" => transactions'[currentTx].resume
  PROVE  Calls'
<1>1. k' # <<>> /\ Head(k').name = "executeTxn"
  BY OneHead, CmdType DEF CommandNames
<1>2. currentTx \in DOMAIN transactions
  BY CurrentType DEF Next1, Evaluating
<1>3. Suspended' = Suspended /\ AppsOf(Suspended)' = AppsOf(Suspended)
  <2>1. Suspended' = Suspended
    BY DEF Suspended
  <2> QED BY <2>1 DEF Suspended, AppsOf
<1>4. ~HeadIn(Executing \ {"executeTxn"})' /\ ~HeadIn(InProgram)' /\ ~HeadIn(InProgram)
  BY <1>1 DEF HeadIn, Next1, Executing, InProgram
<1>5. CallInv'
  <2>1. \A t \in Suspended' : transactions'[t].type = "appl" /\ transactions'[t].resume
    BY <1>3 DEF Calls, CallInv, Suspended
  <2>2. currentTx' \in DOMAIN transactions' /\ currentTx' \notin Suspended'
        /\ (Current'.type = "appl" => Current'.resume)
    BY <1>2, <1>3 DEF Current
  <2> QED BY <1>4, <2>1, <2>2 DEF Calls, CallInv
<1>6. Distinct'
  BY <1>3 DEF Calls, ActInv, Distinct, Suspended
<1>7. RunningApp' = {} /\ RunningApp = {}
  BY <1>4 DEF RunningApp
<1>8. ActInv'
  BY <1>3, <1>6, <1>7 DEF Calls, ActInv, Next1
<1> QED BY <1>5, <1>8 DEF Calls

\* A suspended application call goes on.
LEMMA ResumeCalls ==
  ASSUME IInv, Calls, EvalApplResume
  PROVE  Calls'
<1>1. PICK c, x : c = Current.context /\ x = currentTx
  OBVIOUS
<1>2. /\ Next1("evalTx") /\ Become(<<Cmd("fetchOpcode")>>) /\ Current.type = "appl" /\ Current.resume
      /\ c # NoContext /\ currentTxnExecution' = c
      /\ transactions' = [transactions EXCEPT ![x].context = NoContext]
      /\ UNCHANGED <<returncode, currentTx, innerTransactions, activeApps>>
  BY <1>1 DEF EvalApplResume, queue
<1>3. k' # <<>> /\ Head(k').name = "fetchOpcode"
  BY <1>2, OneHead, CmdType DEF CommandNames
<1>4. x \in DOMAIN transactions /\ transactions[x] \in Transaction /\ transactions[x].context = c
  BY <1>1, <1>2, CurrentType DEF Next1, Evaluating, Current
<1>5. /\ transactions'[x].context = NoContext
      /\ transactions'[x].type = transactions[x].type /\ transactions'[x].resume = transactions[x].resume
      /\ DOMAIN transactions' = DOMAIN transactions
      /\ \A t \in DOMAIN transactions : t # x => transactions'[t] = transactions[t]
  <2>1. /\ transactions'[x] = [transactions[x] EXCEPT !.context = NoContext]
        /\ DOMAIN transactions' = DOMAIN transactions
        /\ \A t \in DOMAIN transactions : t # x => transactions'[t] = transactions[t]
    BY <1>2, <1>4
  <2> QED BY <1>4, <2>1 DEF Transaction
<1>6. Suspended' = Suspended \ {x} /\ x \in Suspended
  BY <1>2, <1>4, <1>5 DEF Suspended
<1>7. /\ AppsOf(Suspended)' \subseteq AppsOf(Suspended)
      /\ AppsOf(Suspended) \subseteq AppsOf(Suspended)' \cup {c.app}
      /\ c.app \in AppsOf(Suspended) /\ c.app \notin AppsOf(Suspended)'
  <2>1. \A t \in Suspended : t # x => t \in Suspended' /\ transactions'[t] = transactions[t]
    BY <1>5, <1>6 DEF Suspended
  <2>2. \A t \in Suspended' : t \in Suspended /\ t # x /\ transactions'[t] = transactions[t]
    BY <1>6, <2>1
  <2>3. \A t \in Suspended' : transactions[t].context.app # c.app
    BY <1>4, <1>6, <2>2 DEF Calls, ActInv, Distinct
  <2> QED BY <1>4, <1>6, <2>1, <2>2, <2>3 DEF AppsOf
<1>8. HeadIn(InProgram)' /\ ~HeadIn(InProgram)
  BY <1>2, <1>3 DEF HeadIn, Next1, InProgram
<1>9. RunningApp' = {c.app} /\ RunningApp = {}
  BY <1>2, <1>8 DEF RunningApp
<1>10. CallInv'
  <2>1. \A t \in Suspended' : transactions'[t].type = "appl" /\ transactions'[t].resume
    BY <1>5, <1>6 DEF Calls, CallInv, Suspended
  <2>2. currentTx' = x /\ x \in DOMAIN transactions' /\ x \notin Suspended'
        /\ Current'.type = "appl" /\ Current'.resume
    BY <1>1, <1>2, <1>4, <1>5, <1>6 DEF Current
  <2> QED BY <1>2, <2>1, <2>2 DEF Calls, CallInv
<1>11. Distinct'
  <2>1. \A t \in Suspended' : t \in Suspended /\ transactions'[t] = transactions[t]
    BY <1>5, <1>6 DEF Suspended
  <2> QED BY <2>1 DEF Calls, ActInv, Distinct
<1>12. ActInv'
  BY <1>2, <1>7, <1>9, <1>11 DEF Calls, ActInv, Next1
<1> QED BY <1>10, <1>12 DEF Calls

LEMMA TxnCalls ==
  ASSUME IInv, KOrder, Calls, Txn
  PROVE  Calls'
<1>a. ASSUME NEW a \in Nat, IsApplCall, Become(<<CmdOf("executeAppl", a)>>),
             UNCHANGED <<transactions, currentTx, teal, returncode>>
      PROVE  Calls'
  <2>0. CmdOf("executeAppl", a) \in Command /\ CmdOf("executeAppl", a).name = "executeAppl"
    BY CmdType DEF CommandNames
  <2>1. k' # <<>> /\ Head(k').name = "executeAppl"
    BY <1>a, <2>0, OneHead DEF IsApplCall
  <2>2. \A i \in 1..Len(innerTransactions') : innerTransactions'[i].context = NoContext
    BY <1>a DEF teal, Calls, CallInv
  <2>3. "executeTxn" \in Executing /\ "executeAppl" \notin InProgram /\ "executeTxn" \notin InProgram
    BY DEF Executing, InProgram
  <2> QED BY <1>a, <2>1, <2>2, <2>3, TurnCalls DEF IsApplCall, teal
<1>b. ASSUME NEW h \in Posts, Next1(h), Done, UNCHANGED <<txns, teal, returncode>>
      PROVE  Calls'
  <2>1. h \notin Executing /\ h # "stopIfError"
    BY DEF Posts, Executing, InProgram
  <2> QED BY <1>b, <2>1, OutsideDone, OutsideCalls DEF txns
<1>1. CASE EvalNonAppl
  <2>1. currentTx \notin Suspended
    BY <1>1 DEF EvalNonAppl, Current, Calls, CallInv
  <2> QED BY <1>1, <2>1, StartCalls DEF EvalNonAppl, Current, txns, queue, teal
<1>2. CASE EvalApplFirst
  <2>1. PICK x : x = currentTx
    OBVIOUS
  <2>2. currentTx \notin Suspended
    BY <1>2 DEF EvalApplFirst, Current, Calls, CallInv
  <2>3. x \in DOMAIN transactions /\ transactions[x] \in Transaction
    BY <1>2, <2>1, CurrentType DEF EvalApplFirst, Next1, Evaluating, Current
  <2>4. transactions' = [transactions EXCEPT ![x].resume = TRUE]
    BY <1>2, <2>1 DEF EvalApplFirst
  <2>5. /\ transactions'[x] = [transactions[x] EXCEPT !.resume = TRUE]
        /\ DOMAIN transactions' = DOMAIN transactions
        /\ \A t \in DOMAIN transactions : t # x => transactions'[t] = transactions[t]
    BY <2>3, <2>4
  <2>6. /\ transactions'[x].resume /\ transactions'[x].type = transactions[x].type
        /\ transactions'[x].context = transactions[x].context
    BY <2>3, <2>5 DEF Transaction
  <2>7. \A t \in DOMAIN transactions : /\ transactions'[t].type = transactions[t].type
                                       /\ transactions'[t].context = transactions[t].context
                                       /\ t # x => transactions'[t].resume = transactions[t].resume
    BY <2>5, <2>6
  <2> QED BY <1>2, <2>1, <2>2, <2>5, <2>6, <2>7, StartCalls DEF EvalApplFirst, queue
<1>3. CASE EvalApplResume
  BY <1>3, ResumeCalls
<1>4. CASE ExecuteNonAppl
  <2>1. Next1("executeTxn") /\ UNCHANGED <<transactions, currentTx, teal>>
    BY <1>4 DEF ExecuteNonAppl, txns, queue
  <2>0. "executeTxn" \in Executing \ {"initApp"} /\ "unmatched" \notin Executing /\ "unmatched" \notin InProgram
        /\ "executeTxn" \notin InProgram
    BY DEF Executing, InProgram
  <2>2. CASE Done /\ UNCHANGED returncode
    BY <2>0, <2>1, <2>2, DoneCalls
  <2>3. CASE Panic(INSUFFICIENT_FUNDS)
    BY <2>1, <2>3, PanicCalls DEF INSUFFICIENT_FUNDS, STUCK
  <2>4. CASE Become(<<Cmd("unmatched")>>) /\ UNCHANGED returncode
    <3>1. k' # <<>> /\ Head(k').name = "unmatched"
      BY <2>1, <2>4, OneHead, CmdType DEF CommandNames
    <3>2. \A i \in 1..Len(innerTransactions') : innerTransactions'[i].context = NoContext
      BY <2>1 DEF teal, Calls, CallInv
    <3> QED BY <2>0, <2>1, <2>4, <3>1, <3>2, TurnCalls DEF teal
  <2> QED BY <1>4, <2>2, <2>3, <2>4 DEF ExecuteNonAppl
<1>5. CASE CreateApplication
  BY <1>a, <1>5 DEF CreateApplication, IInv, DataOK, txns, queue
<1>6. CASE CallApplication
  <2>1. Current.app \in Nat
    BY <1>6, CurrentType DEF CallApplication, IsApplCall, Next1, Evaluating, Transaction
  <2> QED BY <1>a, <1>6, <2>1 DEF CallApplication, txns, queue
<1>7. CASE ExecuteAppl
  <2> DEFINE s == <<CmdOf("initApp", Arg), Cmd("loadInputPgm"), Cmd("fetchOpcode")>> \o PostOperations(Arg)
  <2>1. /\ Arg \in Nat /\ Current \in Transaction /\ Next1("executeAppl")
        /\ UNCHANGED <<transactions, currentTx, teal, returncode>> /\ Become(s)
    BY <1>7, HeadType, CurrentType DEF ExecuteAppl, Next1, IInv, Evaluating, txns, queue
  <2>2. s \in Seq(Command) /\ s # <<>> /\ s[1] = CmdOf("initApp", Arg)
    BY <2>1, PostFits, FitsProgram
  <2>3. k' # <<>> /\ Head(k').name = "initApp"
    <3> HIDE DEF s
    <3>1. k' # <<>> /\ Head(k') = s[1]
      BY <2>1, <2>2, BecomeSeq DEF IInv, Next1
    <3>2. CmdOf("initApp", Arg).name = "initApp"
      BY <2>1, CmdType DEF CommandNames
    <3> QED BY <2>2, <3>1, <3>2
  <2>4. "executeAppl" \in Executing \ {"executeTxn"} /\ "executeAppl" \notin InProgram /\ "initApp" \notin InProgram
    BY DEF Executing, InProgram
  <2>5. \A i \in 1..Len(innerTransactions') : innerTransactions'[i].context = NoContext
    BY <2>1 DEF teal, Calls, CallInv
  <2> HIDE DEF s
  <2> QED BY <2>1, <2>3, <2>4, <2>5, TurnCalls DEF teal
<1>8. CASE ClearState
  BY <1>b, <1>8 DEF ClearState, Posts
<1>9. CASE UpdatePrograms
  BY <1>b, <1>9 DEF UpdatePrograms, Posts
<1>10. CASE DeleteApplication
  BY <1>b, <1>10 DEF DeleteApplication, Posts
<1> QED BY <1>1, <1>2, <1>3, <1>4, <1>5, <1>6, <1>7, <1>8, <1>9, <1>10 DEF Txn

\* An application comes on the call stack.
LEMMA InitAppCalls ==
  ASSUME IInv, KOrder, Calls, InitApp
  PROVE  Calls'
<1>1. PICK a : a = Arg
  OBVIOUS
<1>2. /\ Next1("initApp") /\ Done /\ a \notin activeApps /\ activeApps' = activeApps \cup {a}
      /\ currentTxnExecution' = [currentTxnExecution EXCEPT !.app = a, !.lastGroup = NoGroup]
      /\ UNCHANGED <<returncode, transactions, currentTx, innerTransactions>>
  BY <1>1 DEF InitApp, txns, queue
<1>3. currentTxnExecution'.app = a
  BY <1>2 DEF IInv, DataOK, Execution
<1>4. Suspended' = Suspended /\ AppsOf(Suspended)' = AppsOf(Suspended) /\ Current' = Current
  BY <1>2 DEF Suspended, AppsOf, Current
<1>5. HeadIn(Executing \ {"executeTxn"}) /\ HeadIn(Executing) /\ ~HeadIn(InProgram)
  BY <1>2 DEF HeadIn, Next1, Executing, InProgram
<1>6. k' = <<>> \/ Head(k').name = "loadInputPgm"
  <2>1. k' = <<>> \/ \E g : Head(k').name = g /\ May("initApp", g)
    BY <1>2, DoneHead
  <2> QED BY <2>1, MayAfter
<1>7. CallInv'
  BY <1>2, <1>4, <1>5 DEF Calls, CallInv
<1>8. Distinct'
  BY <1>2, <1>4 DEF Calls, ActInv, Distinct
<1>9. RunningApp = {} /\ RunningApp' \subseteq {a} /\ (k' # <<>> => RunningApp' = {a})
  BY <1>3, <1>5, <1>6 DEF RunningApp, HeadIn, InProgram
<1>10. ActInv'
  BY <1>2, <1>4, <1>8, <1>9 DEF Calls, ActInv, Next1
<1> QED BY <1>7, <1>10 DEF Calls

\* An application leaves the call stack.
LEMMA FinalizeCalls ==
  ASSUME IInv, KOrder, Calls, FinalizeExecution
  PROVE  Calls'
<1>1. PICK a : a = currentTxnExecution.app
  OBVIOUS
<1>2. /\ Next1("finalizeExecution") /\ activeApps' = activeApps \ {a}
      /\ UNCHANGED <<transactions, currentTx, innerTransactions>>
      /\ \/ Done /\ UNCHANGED returncode
         \/ Panic(ZERO_STACK)
         \/ Panic(BAD_STACK)
  BY <1>1 DEF FinalizeExecution, txns, queue
<1>3. Suspended' = Suspended /\ AppsOf(Suspended)' = AppsOf(Suspended)
  BY <1>2 DEF Suspended, AppsOf
<1>4. HeadIn(InProgram)
  BY <1>2 DEF HeadIn, Next1, InProgram
<1>5. ~HeadIn(Executing)' /\ (returncode' = STUCK => returncode = STUCK)
  <2>1. CASE Done /\ UNCHANGED returncode
    <3>1. \A g : May("finalizeExecution", g) => g \notin Executing
      BY DEF May, Follows, Before, After, Busy, InProgram, Posts, TestingCommands, Executing
    <3> QED BY <1>2, <2>1, <3>1, DoneHead DEF HeadIn
  <2>2. CASE Panic(ZERO_STACK) \/ Panic(BAD_STACK)
    <3>1. k' # <<>> /\ Head(k').name = "stopIfError" /\ returncode' \in {ZERO_STACK, BAD_STACK}
      BY <1>2, <2>2, PanicHead
    <3> QED BY <3>1 DEF HeadIn, Executing, InProgram, ZERO_STACK, BAD_STACK, STUCK
  <2> QED BY <1>2, <2>1, <2>2
<1>6. ~HeadIn(Executing \ {"executeTxn"})' /\ ~HeadIn(InProgram)'
  BY <1>5 DEF HeadIn, Executing
<1>7. CallInv'
  BY <1>2, <1>3, <1>5, <1>6 DEF Calls, CallInv
<1>8. Distinct'
  BY <1>2, <1>3 DEF Calls, ActInv, Distinct
<1>9. RunningApp = {a} /\ RunningApp' = {}
  BY <1>1, <1>4, <1>6 DEF RunningApp
<1>10. ActInv'
  BY <1>2, <1>3, <1>5, <1>8, <1>9 DEF Calls, ActInv, Next1
<1> QED BY <1>7, <1>10 DEF Calls

\* An opcode, or the end of the program.
LEMMA OpcodeCalls ==
  ASSUME IInv, Calls, Next1("fetchOpcode"), NEW g \in InProgram, k' # <<>>, Head(k').name = g,
         UNCHANGED <<returncode, transactions, currentTx, activeApps>>,
         currentTxnExecution'.app = currentTxnExecution.app,
         \A i \in 1..Len(innerTransactions') : innerTransactions'[i].context = NoContext
  PROVE  Calls'
<1>1. "fetchOpcode" \in Executing \ {"executeTxn"} /\ "fetchOpcode" \in InProgram
  BY DEF Executing, InProgram
<1> QED BY <1>1, TurnCalls

LEMMA TealCalls ==
  ASSUME IInv, KOrder, Calls, Teal
  PROVE  Calls'
<1>0. InProgram \subseteq Executing \ {"initApp"} /\ "fetchOpcode" \in InProgram
      /\ {"loadInputPgm", "checkItxns", "finalizeExecution"} \subseteq InProgram
  BY DEF InProgram, Executing
<1>s. /\ nextGroupID \in Nat /\ innerTransactions \in Seq(Transaction) /\ currentTxnExecution \in Execution
      /\ \A i \in 1..Len(innerTransactions) : innerTransactions[i].context = NoContext
  BY DEF Calls, CallInv, IInv, DataOK
<1>a. ASSUME Running, UNCHANGED <<k, returncode, transactions, currentTx, activeApps>>, IncrementPC,
             \A i \in 1..Len(innerTransactions') : innerTransactions'[i].context = NoContext
      PROVE  Calls'
  <2>1. currentTxnExecution'.app = currentTxnExecution.app
    BY <1>s, <1>a DEF IncrementPC, Execution
  <2>2. Next1("fetchOpcode") /\ k' # <<>> /\ Head(k').name = "fetchOpcode"
    BY <1>a DEF Running, Next1
  <2> QED BY <1>0, <1>a, <2>1, <2>2, OpcodeCalls
<1>1. CASE InitApp
  BY <1>1, InitAppCalls
<1>2. CASE InitAppError
  BY <1>2, PanicCalls DEF InitAppError, txns, queue, APP_ALREADY_ACTIVE, STUCK
<1>3. CASE LoadInputPgm
  <2>1. Next1("loadInputPgm") /\ UNCHANGED <<transactions, currentTx, teal>>
    BY <1>3 DEF LoadInputPgm, txns, queue
  <2>2. CASE Done /\ UNCHANGED returncode
    BY <1>0, <2>1, <2>2, DoneCalls
  <2>3. CASE Panic(DUPLICATE_LABEL)
    BY <2>1, <2>3, PanicCalls DEF DUPLICATE_LABEL, STUCK
  <2> QED BY <1>3, <2>2, <2>3 DEF LoadInputPgm
<1>4. CASE OpPlain
  BY <1>a, <1>s, <1>4 DEF OpPlain, txns, queue
<1>5. CASE OpPanic
  BY <1>5, PanicCalls DEF OpPanic, Running, txns, queue, ERR_OPCODE, STUCK
<1>6. CASE ItxnBegin
  <2>1. innerTransactions' = <<Blank(nextGroupID + 1)>>
    BY <1>6 DEF ItxnBegin
  <2>2. Blank(nextGroupID + 1).context = NoContext
    BY DEF Blank, NewTransaction
  <2>3. \A i \in 1..Len(innerTransactions') : innerTransactions'[i].context = NoContext
    BY <2>1, <2>2
  <2> QED BY <1>a, <1>6, <2>3 DEF ItxnBegin, CanStage, queue
<1>7. CASE ItxnNext
  <2> DEFINE b == Blank(nextGroupID)
  <2>1. b.context = NoContext /\ b \in Transaction
    BY BlankType DEF Blank, NewTransaction, IInv, DataOK
  <2>2. innerTransactions' = Append(innerTransactions, b)
    BY <1>7 DEF ItxnNext
  <2> HIDE DEF b
  <2>3. \A i \in 1..Len(innerTransactions') :
          innerTransactions'[i] = b \/ (i \in 1..Len(innerTransactions) /\ innerTransactions'[i] = innerTransactions[i])
    BY <1>s, <2>1, <2>2
  <2>4. \A i \in 1..Len(innerTransactions') : innerTransactions'[i].context = NoContext
    BY <1>s, <2>1, <2>3
  <2> QED BY <1>a, <1>7, <2>4 DEF ItxnNext, CanStage, txns, queue
<1>8. CASE ItxnField
  <2> DEFINE n == Len(innerTransactions)
             last == innerTransactions[n]
  <2>1. PICK p \in InnerPayloads :
          innerTransactions' = [innerTransactions EXCEPT ![n] = NewTransaction(p, last.sender, last.group)]
    BY <1>8 DEF ItxnField
  <2> DEFINE b == NewTransaction(p, last.sender, last.group)
  <2>2. b.context = NoContext /\ innerTransactions' = [innerTransactions EXCEPT ![n] = b]
    BY <2>1 DEF NewTransaction
  <2> HIDE DEF b, last
  <2>3. Len(innerTransactions') = n
    BY <1>s, <2>2
  <2>4. \A i \in 1..n : innerTransactions'[i] = b \/ innerTransactions'[i] = innerTransactions[i]
    BY <1>s, <2>2
  <2>5. \A i \in 1..Len(innerTransactions') : innerTransactions'[i].context = NoContext
    BY <1>s, <2>2, <2>3, <2>4
  <2> QED BY <1>a, <1>8, <2>5 DEF ItxnField, txns, queue
<1>9. CASE ItxnSubmit
  <2>1. PICK c, g : c = currentTxnExecution.pc + 1 /\ g = nextGroupID
    OBVIOUS
  <2>2. /\ Next1("fetchOpcode") /\ UNCHANGED <<returncode, transactions, currentTx, innerTransactions, activeApps>>
        /\ Become(<<CmdOf("checkItxns", 1), Cmd("executeItxnGroup")>>)
        /\ currentTxnExecution' = [currentTxnExecution EXCEPT !.pc = c, !.lastGroup = g]
    BY <1>9, <2>1 DEF ItxnSubmit, Running, txns, queue
  <2>3. currentTxnExecution'.app = currentTxnExecution.app
    BY <1>s, <2>2 DEF Execution
  <2>4. /\ CmdOf("checkItxns", 1) \in Command /\ CmdOf("checkItxns", 1).name = "checkItxns"
        /\ Cmd("executeItxnGroup") \in Command
    BY CmdType DEF CommandNames
  <2>5. k' # <<>> /\ Head(k').name = "checkItxns"
    BY <2>2, <2>4, TwoHead
  <2> QED BY <1>0, <1>s, <2>2, <2>3, <2>5, OpcodeCalls
<1>10. CASE EndProgram
  <2>1. Cmd("finalizeExecution") \in Command /\ Cmd("finalizeExecution").name = "finalizeExecution"
    BY CmdType DEF CommandNames
  <2>2. k' # <<>> /\ Head(k').name = "finalizeExecution"
    BY <1>10, <2>1, OneHead DEF EndProgram
  <2> QED BY <1>0, <1>s, <1>10, <2>2, OpcodeCalls DEF EndProgram, txns, queue, teal
<1>11. CASE FetchStopped
  BY <1>0, <1>11, DoneCalls DEF FetchStopped, txns, queue
<1>12. CASE FinalizeExecution
  BY <1>12, FinalizeCalls
<1> QED BY <1>1, <1>2, <1>3, <1>4, <1>5, <1>6, <1>7, <1>8, <1>9, <1>10, <1>11, <1>12 DEF Teal

\* A program waits for the group it has submitted.
LEMMA SaveCalls ==
  ASSUME IInv, Flow, Calls, ExecuteItxnGroup
  PROVE  Calls'
<1>1. PICK e, x : e = currentTxnExecution /\ x = currentTx
  OBVIOUS
<1>2. /\ Next1("executeItxnGroup") /\ UNCHANGED <<returncode, queue, teal>>
      /\ transactions' = [transactions EXCEPT ![x].context = e]
      /\ Become(<<Cmd("pushItxns"), Cmd("evalTxGroup")>>)
  BY <1>1 DEF ExecuteItxnGroup
<1>3. k' # <<>> /\ Head(k').name = "pushItxns"
  <2>1. /\ Cmd("pushItxns") \in Command /\ Cmd("pushItxns").name = "pushItxns"
        /\ Cmd("evalTxGroup") \in Command
    BY CmdType DEF CommandNames
  <2> QED BY <1>2, <2>1, TwoHead
<1>4. e # NoContext
  <2>1. e.lastGroup # NoGroup
    BY <1>1, <1>2 DEF Flow, ResumeInv, SubmitHasGroup, HeadIn, Next1
  <2> QED BY <2>1 DEF NoContext
<1>5. HeadIn(InProgram) /\ HeadIn(Executing \ {"executeTxn"}) /\ HeadIn(Executing)
  BY <1>2 DEF HeadIn, Next1, InProgram, Executing
<1>6. /\ x \in DOMAIN transactions /\ x \notin Suspended /\ transactions[x].type = "appl"
      /\ transactions[x].resume /\ transactions[x] \in Transaction
  <2>1. x \in DOMAIN transactions /\ x \notin Suspended /\ Current.type = "appl" /\ Current.resume
    BY <1>1, <1>5 DEF Calls, CallInv
  <2> QED BY <1>1, <2>1 DEF Current, IInv, TxnsOK
<1>7. /\ transactions'[x].context = e
      /\ transactions'[x].type = "appl" /\ transactions'[x].resume
      /\ DOMAIN transactions' = DOMAIN transactions
      /\ \A t \in DOMAIN transactions : t # x => transactions'[t] = transactions[t]
  <2>1. /\ transactions'[x] = [transactions[x] EXCEPT !.context = e]
        /\ DOMAIN transactions' = DOMAIN transactions
        /\ \A t \in DOMAIN transactions : t # x => transactions'[t] = transactions[t]
    BY <1>2, <1>6
  <2> QED BY <1>6, <2>1 DEF Transaction
<1>8. Suspended' = Suspended \cup {x} /\ \A t \in Suspended : t # x /\ transactions'[t] = transactions[t]
  BY <1>4, <1>6, <1>7 DEF Suspended
<1>9. AppsOf(Suspended)' = AppsOf(Suspended) \cup {e.app}
  BY <1>7, <1>8 DEF AppsOf
<1>10. RunningApp = {e.app} /\ RunningApp' = {} /\ ~HeadIn(Executing)' /\ ~HeadIn(Executing \ {"executeTxn"})'
  BY <1>1, <1>3, <1>5 DEF RunningApp, HeadIn, InProgram, Executing
<1>11. CallInv'
  <2>1. \A t \in Suspended' : transactions'[t].type = "appl" /\ transactions'[t].resume
    BY <1>7, <1>8 DEF Calls, CallInv
  <2> QED BY <1>2, <1>10, <2>1 DEF Calls, CallInv, teal
<1>12. Distinct'
  <2>1. \A t \in Suspended : transactions[t].context.app # e.app
    BY <1>10 DEF Calls, ActInv, AppsOf
  <2>2. ASSUME NEW t \in Suspended', NEW u \in Suspended', t # u
        PROVE  transactions'[t].context.app # transactions'[u].context.app
    BY <1>7, <1>8, <2>1, <2>2 DEF Calls, ActInv, Distinct
  <2> QED BY <2>2 DEF Distinct
<1>13. ActInv'
  BY <1>2, <1>9, <1>10, <1>12 DEF Calls, ActInv, teal, Next1
<1> QED BY <1>11, <1>13 DEF Calls

LEMMA InnerCalls ==
  ASSUME IInv, Flow, Calls, Inner
  PROVE  Calls'
<1> USE DEF Flow
<1>0. /\ "checkItxns" \in Executing \ {"executeTxn", "initApp"} /\ "checkItxns" \in InProgram
      /\ "pushItxns" \notin Executing
  BY DEF Executing, InProgram
<1>s. \A i \in 1..Len(innerTransactions) : innerTransactions[i].context = NoContext
  BY DEF Calls, CallInv
<1>1. CASE CheckItxn
  <2>1. /\ Next1("checkItxns") /\ UNCHANGED <<transactions, currentTx, teal>> /\ Arg + 1 \in Nat
        /\ \/ Panic(TXN_INVALID) \/ Panic(ITXN_REENTRY)
           \/ Become(<<CmdOf("checkItxns", Arg + 1)>>) /\ UNCHANGED returncode
    BY <1>1, HeadType DEF CheckItxn, txns, queue, IInv, Next1
  <2>2. CASE Panic(TXN_INVALID) \/ Panic(ITXN_REENTRY)
    BY <2>1, <2>2, PanicCalls DEF TXN_INVALID, ITXN_REENTRY, STUCK
  <2>3. CASE Become(<<CmdOf("checkItxns", Arg + 1)>>) /\ UNCHANGED returncode
    <3>1. /\ CmdOf("checkItxns", Arg + 1) \in Command
          /\ CmdOf("checkItxns", Arg + 1).name = "checkItxns"
      BY <2>1, CmdType DEF CommandNames
    <3>2. k' # <<>> /\ Head(k').name = "checkItxns"
      BY <2>1, <2>3, <3>1, OneHead
    <3> QED BY <1>0, <1>s, <2>1, <2>3, <3>2, TurnCalls DEF teal
  <2> QED BY <2>1, <2>2, <2>3
<1>2. CASE CheckItxnsDone
  BY <1>0, <1>2, DoneCalls DEF CheckItxnsDone, txns, queue
<1>3. CASE ExecuteItxnGroup
  BY <1>3, SaveCalls
<1>4. CASE PushItxns
  <2> DEFINE n == Len(innerTransactions)
             t == innerTransactions[n]
  <2>0. innerTransactions \in Seq(Transaction) /\ innerTransactions # <<>>
    BY <1>4 DEF PushItxns, IInv, DataOK
  <2>1. /\ Next1("pushItxns") /\ UNCHANGED <<activeApps, returncode>>
        /\ transactions' = WithTransaction(t)
        /\ innerTransactions' = SubSeq(innerTransactions, 1, n - 1)
        /\ Become(<<CmdOf("pushTxnFront", nextTxnID), Cmd("pushItxns")>>)
    BY <1>4 DEF PushItxns
  <2>2. n \in 1..n /\ t \in Transaction /\ t.context = NoContext
    BY <1>s, <2>0
  <2>3. \A i \in 1..Len(innerTransactions') : innerTransactions'[i].context = NoContext
    <3>1. \A i \in 1..Len(innerTransactions') : i \in 1..n /\ innerTransactions'[i] = innerTransactions[i]
      BY <2>0, <2>1
    <3> QED BY <1>s, <3>1
  <2>4. Cmd("pushItxns") \in Command
    BY CmdType DEF CommandNames
  <2> HIDE DEF t
  <2> QED BY <1>0, <2>1, <2>2, <2>3, <2>4, PushCalls
<1>5. CASE PushItxnsDone
  BY <1>0, <1>5, OutsideDone, OutsideCalls DEF PushItxnsDone, txns
<1> QED BY <1>1, <1>2, <1>3, <1>4, <1>5 DEF Inner

\* After an error nothing is executed any more.
LEMMA StopCalls ==
  ASSUME IInv, Flow, Calls, StopIfError
  PROVE  Calls'
<1>1. Next1("stopIfError") /\ UNCHANGED <<returncode, transactions, teal>> /\ k \in Seq(Command)
      /\ "stopIfError" \notin Executing
  BY StopSeq DEF StopIfError, txns, IInv, KInv, Executing, InProgram
<1>5. k' # <<>> => Head(k').name \in {"stopIfError"} \cup TestingCommands
  BY StopHeads DEF Flow
<1>6. ~HeadIn(Executing)'
  BY <1>5 DEF HeadIn, Executing, InProgram, TestingCommands
<1> QED BY <1>1, <1>6, OutsideCalls

LEMMA NextCalls == IInv /\ Flow /\ Calls /\ [Next]_vars => Calls'
<1> SUFFICES ASSUME IInv, Flow, Calls, [Next]_vars PROVE Calls'
  OBVIOUS
<1>1. CASE UNCHANGED vars
  <2>1. Suspended' = Suspended /\ AppsOf(Suspended)' = AppsOf(Suspended) /\ Current' = Current
    BY <1>1 DEF Suspended, AppsOf, Current, vars, txns, queue
  <2>2. \A S : HeadIn(S)' = HeadIn(S)
    BY <1>1 DEF HeadIn, vars
  <2>3. RunningApp' = RunningApp /\ Distinct' = Distinct
    BY <1>1, <2>1, <2>2 DEF RunningApp, Distinct, vars, txns, teal
  <2>4. CallInv'
    BY <1>1, <2>1, <2>2 DEF Calls, CallInv, vars, txns, queue, teal
  <2>5. ActInv'
    BY <1>1, <2>1, <2>3 DEF Calls, ActInv, vars, teal
  <2> QED BY <2>4, <2>5 DEF Calls
<1>2. CASE Driver \/ Deque \/ Group \/ Txn \/ Teal
  BY <1>2, DriverCalls, DequeCalls, GroupCalls, TxnCalls, TealCalls DEF Flow
<1>3. CASE Inner \/ StopIfError
  BY <1>3, InnerCalls, StopCalls
<1> QED BY <1>1, <1>2, <1>3 DEF Next

LEMMA InitCalls == Init => Calls
<1> SUFFICES ASSUME Init PROVE Calls
  OBVIOUS
<1>1. k # <<>> /\ Head(k).name = "setupAccounts"
  <2>1. CmdOf("setupAccounts", 1).name = "setupAccounts"
    BY CmdType DEF CommandNames
  <2> QED BY <2>1 DEF Init
<1>2. Suspended = {}
  BY DEF Init, Suspended
<1>3. AppsOf(Suspended) = {}
  BY <1>2 DEF AppsOf
<1>4. ~HeadIn(Executing) /\ ~HeadIn(Executing \ {"executeTxn"}) /\ RunningApp = {}
  BY <1>1 DEF HeadIn, Executing, InProgram, RunningApp
<1>5. CallInv
  BY <1>2, <1>4 DEF Init, CallInv
<1>6. ActInv
  BY <1>2, <1>3, <1>4 DEF Init, ActInv, Distinct
<1> QED BY <1>5, <1>6 DEF Calls

\* The call stack is acyclic, whatever programs do: an application that is suspended
\* or running is active, no other one is, and so none can be called again
\* (#initApp panics on an active application).
THEOREM CallStackIsAcyclic == Spec => []NoReentrance
<1>1. Init => IInv /\ Flow /\ Calls
  BY InitIInv, InitFlow, InitCalls
<1>2. IInv /\ Flow /\ Calls /\ [Next]_vars => (IInv /\ Flow /\ Calls)'
  BY NextIInv, NextFlow, NextCalls
<1>3. IInv /\ Flow /\ Calls => NoReentrance
  <2> SUFFICES ASSUME Calls PROVE NoReentrance
    OBVIOUS
  <2>1. Running => RunningApp = {currentTxnExecution.app} /\ returncode = STUCK /\ k # <<>>
    BY DEF Running, Next1, RunningApp, HeadIn, InProgram
  <2> QED BY <2>1 DEF Calls, ActInv, Distinct, NoReentrance
<1> QED BY <1>1, <1>2, <1>3, PTL DEF Spec

-----------------------------------------------------------------------------
(* The frames on <k>: how transactions being executed are nested.           *)
\* The run goes on: no panic has been raised, and no verdict given.
Going == k # <<>> /\ ~HeadIn(Over)

\* Commands of <k> are counted from its end, which no step moves.
Below(s, i) == s[Len(s) + 1 - i].name
PopsOf(s) == {i \in 1..Len(s) : Below(s, i) = "popTxnFront"}
Pops == PopsOf(k)
\* Commands for the transaction in front of the deque; the last of them pops it.
InFrame == Busy \cup {"getNextTxn", "evalTx"}
Framed  == InFrame \ {"popTxnFront"}
\* The transactions that <k> still has to pop.
Waiting == IF HeadIn(InFrame) THEN Suspended \cup {deque[1]} ELSE Suspended

NoStop     == \A i \in 1..Len(k) : k[i].name # "stopIfError"
EndsFinal  == k[Len(k)].name \in Finals
CheckPlain == \A i \in 1..Len(k) : k[i].name = "checkExecutionResults"
                                     => k[i] = Cmd("checkExecutionResults")
PopBehind  == \A i \in 1..Len(k) : Below(k, i) \in Framed => \E j \in Pops : j < i
Frames  == NoStop /\ EndsFinal /\ CheckPlain /\ PopBehind
Counted == Cardinality(Pops) = Cardinality(Waiting)

\* What is below the head stays when the head is dropped,
LEMMA BelowDone ==
  ASSUME KInv, k # <<>>, Done
  PROVE  /\ k \in Seq(Command) /\ k' \in Seq(Command)
         /\ Len(k) \in Nat \ {0} /\ Len(k') = Len(k) - 1
         /\ \A i \in 1..Len(k') : Below(k', i) = Below(k, i)
         /\ Below(k, Len(k)) = Head(k).name
         /\ k' # <<>> => k'[Len(k')] = k[Len(k)]
         /\ \A i \in 1..Len(k') : i + 1 \in 1..Len(k) /\ k'[i] = k[i + 1]
<1>1. /\ k \in Seq(Command) /\ k' \in Seq(Command) /\ Len(k') = Len(k) - 1 /\ Head(k) = k[1]
      /\ \A i \in 1..Len(k') : i + 1 \in 2..Len(k) /\ k'[i] = k[i + 1]
      /\ Len(k) \in Nat \ {0} /\ (k' # <<>> => Len(k') \in 1..Len(k'))
  BY DEF KInv, Done
<1>2. ASSUME NEW i \in 1..Len(k') PROVE Below(k', i) = Below(k, i)
  <2>1. Len(k') + 1 - i \in 1..Len(k') /\ Len(k') + 1 - i + 1 = Len(k) + 1 - i
    BY <1>1
  <2>2. k'[Len(k') + 1 - i] = k[Len(k) + 1 - i]
    BY <1>1, <2>1
  <2> QED BY <2>2 DEF Below
<1>3. Below(k, Len(k)) = Head(k).name
  BY <1>1 DEF Below
<1> QED BY <1>1, <1>2, <1>3

\* and when it is replaced.
LEMMA BelowBecome ==
  ASSUME KInv, k # <<>>, NEW s \in Seq(Command), s # <<>>, Become(s)
  PROVE  /\ k \in Seq(Command) /\ k' \in Seq(Command) /\ k' # <<>> /\ Head(k') = s[1]
         /\ Len(k) \in Nat \ {0} /\ Len(s) \in Nat \ {0} /\ Len(k') = Len(k) + Len(s) - 1
         /\ \A i \in 1..(Len(k) - 1) : Below(k', i) = Below(k, i)
         /\ \A i \in 1..Len(s) : Below(k', Len(k) + Len(s) - i) = s[i].name
         /\ Below(k, Len(k)) = Head(k).name
         /\ \A i \in 1..Len(s) : k'[i] = s[i]
         /\ \A i \in (Len(s) + 1)..Len(k') : /\ i - Len(s) + 1 \in 2..Len(k)
                                             /\ k'[i] = k[i - Len(s) + 1]
<1>1. /\ k' \in Seq(Command) /\ k' # <<>> /\ Head(k') = s[1]
      /\ Len(s) \in Nat \ {0} /\ Len(k) \in Nat \ {0} /\ Len(k') = Len(s) + Len(k) - 1
      /\ \A i \in 1..Len(s) : k'[i] = s[i]
      /\ \A i \in (Len(s) + 1)..Len(k') : /\ i - Len(s) + 1 \in 2..Len(k)
                                          /\ k'[i] = k[i - Len(s) + 1]
  BY BecomeSeq
<1>2. ASSUME NEW i \in 1..(Len(k) - 1) PROVE Below(k', i) = Below(k, i)
  <2>1. Len(k') + 1 - i \in (Len(s) + 1)..Len(k')
        /\ (Len(k') + 1 - i) - Len(s) + 1 = Len(k) + 1 - i
    BY <1>1
  <2>2. k'[Len(k') + 1 - i] = k[Len(k) + 1 - i]
    BY <1>1, <2>1
  <2> QED BY <2>2 DEF Below
<1>3. ASSUME NEW i \in 1..Len(s) PROVE Below(k', Len(k) + Len(s) - i) = s[i].name
  <2>1. Len(k') + 1 - (Len(k) + Len(s) - i) = i
    BY <1>1
  <2>2. k'[Len(k') + 1 - (Len(k) + Len(s) - i)] = s[i]
    BY <1>1, <2>1
  <2> QED BY <2>2 DEF Below
<1>4. k \in Seq(Command) /\ Head(k) = k[1]
  BY DEF KInv
<1>5. Below(k, Len(k)) = Head(k).name
  <2>1. Len(k) + 1 - Len(k) = 1
    BY <1>1
  <2> QED BY <1>4, <2>1 DEF Below
<1> QED BY <1>1, <1>2, <1>3, <1>4, <1>5

\* Taking the head off <k> takes a pop off if the head is one.
LEMMA FramesDone ==
  ASSUME KInv, Frames, NEW h, Next1(h), Done, k' # <<>>
  PROVE  /\ Frames' /\ Pops' = Pops \ {Len(k)}
         /\ h = "popTxnFront" => Len(k) \in Pops
         /\ h # "popTxnFront" => Pops' = Pops
<1>0. k # <<>> /\ Head(k).name = h
  BY DEF Next1
<1>1. /\ Len(k) \in Nat \ {0} /\ Len(k') = Len(k) - 1
      /\ \A i \in 1..Len(k') : Below(k', i) = Below(k, i)
      /\ Below(k, Len(k)) = h
      /\ k'[Len(k')] = k[Len(k)]
      /\ \A i \in 1..Len(k') : i + 1 \in 1..Len(k) /\ k'[i] = k[i + 1]
  BY <1>0, BelowDone
<1>2. Pops' = Pops \ {Len(k)}
  <2>1. \A i : i \in 1..Len(k') <=> i \in 1..Len(k) /\ i # Len(k)
    BY <1>1
  <2> QED BY <1>1, <2>1 DEF Pops, PopsOf
<1>3. Len(k) \in 1..Len(k) /\ (Len(k) \in Pops <=> h = "popTxnFront")
  BY <1>1 DEF Pops, PopsOf
<1>4. NoStop' /\ EndsFinal' /\ CheckPlain'
  BY <1>1 DEF Frames, NoStop, EndsFinal, CheckPlain
<1>5. PopBehind'
  <2>1. ASSUME NEW i \in 1..Len(k'), Below(k', i) \in Framed
        PROVE  \E j \in Pops' : j < i
    <3>1. i \in 1..Len(k) /\ i < Len(k) /\ Below(k, i) \in Framed
      BY <1>1, <2>1
    <3>2. PICK j \in Pops : j < i
      BY <3>1 DEF Frames, PopBehind
    <3>3. j \in Nat /\ j # Len(k)
      BY <1>1, <3>1, <3>2 DEF Pops, PopsOf
    <3> QED BY <1>2, <3>2, <3>3
  <2> QED BY <2>1 DEF PopBehind
<1> QED BY <1>2, <1>3, <1>4, <1>5 DEF Frames

\* Replacing the head by commands that pop nothing: if they execute a transaction,
\* something is left that pops it.
LEMMA FramesBecome ==
  ASSUME KInv, Frames, NEW h, Next1(h), h \notin Finals, h # "popTxnFront",
         NEW s \in Seq(Command), s # <<>>, Become(s),
         \A i \in 1..Len(s) : /\ s[i].name \notin {"stopIfError", "popTxnFront", "checkExecutionResults"}
                              /\ s[i].name \in Framed => h \in Framed \/ Pops # {}
  PROVE  Frames' /\ Pops' = Pops
<1>0. k # <<>> /\ Head(k).name = h
  BY DEF Next1
<1>1. /\ Len(k) \in Nat \ {0} /\ Len(s) \in Nat \ {0} /\ Len(k') = Len(k) + Len(s) - 1
      /\ \A i \in 1..(Len(k) - 1) : Below(k', i) = Below(k, i)
      /\ \A i \in 1..Len(s) : Below(k', Len(k) + Len(s) - i) = s[i].name
      /\ Below(k, Len(k)) = h
      /\ \A i \in 1..Len(s) : k'[i] = s[i]
      /\ \A i \in (Len(s) + 1)..Len(k') : i - Len(s) + 1 \in 2..Len(k) /\ k'[i] = k[i - Len(s) + 1]
  BY <1>0, BelowBecome
<1>2. ASSUME NEW i \in 1..Len(k')
      PROVE  \/ i \in 1..(Len(k) - 1)
             \/ i >= Len(k) /\ \E j \in 1..Len(s) : Below(k', i) = s[j].name
  <2>1. CASE i >= Len(k)
    <3>1. Len(k) + Len(s) - i \in 1..Len(s) /\ Len(k) + Len(s) - (Len(k) + Len(s) - i) = i
      BY <1>1, <2>1
    <3> QED BY <1>1, <2>1, <3>1
  <2> QED BY <1>1, <2>1
<1>3. ASSUME NEW i \in Pops PROVE i \in 1..(Len(k) - 1)
  BY <1>1 DEF Pops, PopsOf
<1>4. Pops' = Pops
  <2>1. \A i \in 1..(Len(k) - 1) : i \in 1..Len(k) /\ i \in 1..Len(k')
    BY <1>1
  <2>2. \A i \in Pops' : i \in Pops
    BY <1>1, <1>2, <2>1 DEF Pops, PopsOf
  <2>3. \A i \in Pops : i \in Pops'
    BY <1>1, <1>3, <2>1 DEF Pops, PopsOf
  <2> QED BY <2>2, <2>3
<1>5. ASSUME NEW i \in 1..Len(k')
      PROVE  (\E j \in 1..Len(s) : k'[i] = s[j]) \/ (\E j \in 1..Len(k) : k'[i] = k[j])
  <2>1. i \in 1..Len(s) \/ i \in (Len(s) + 1)..Len(k')
    BY <1>1
  <2>2. \A j \in 2..Len(k) : j \in 1..Len(k)
    BY <1>1
  <2> QED BY <1>1, <2>1, <2>2
<1>6. NoStop' /\ CheckPlain'
  BY <1>5 DEF Frames, NoStop, CheckPlain
<1>7. EndsFinal'
  <2>1. Len(k) > 1
    <3>1. k[1].name = h
      <4>1. k \in Seq(Command)
        BY DEF KInv
      <4> QED BY <1>0, <4>1
    <3> QED BY <1>1, <3>1 DEF Frames, EndsFinal
  <2>2. Len(k') \in (Len(s) + 1)..Len(k') /\ Len(k') - Len(s) + 1 = Len(k)
    BY <1>1, <2>1
  <2>3. k'[Len(k')] = k[Len(k)]
    BY <1>1, <2>2
  <2> QED BY <2>3 DEF Frames, EndsFinal
<1>8. PopBehind'
  <2>1. ASSUME NEW i \in 1..Len(k'), Below(k', i) \in Framed
        PROVE  \E j \in Pops' : j < i
    <3>1. CASE i \in 1..(Len(k) - 1)
      <4>1. i \in 1..Len(k) /\ Below(k, i) \in Framed
        BY <1>1, <2>1, <3>1
      <4> QED BY <1>4, <4>1 DEF Frames, PopBehind
    <3>2. CASE i >= Len(k) /\ \E j \in 1..Len(s) : Below(k', i) = s[j].name
      <4>1. h \in Framed \/ Pops # {}
        BY <2>1, <3>2
      <4>2. Len(k) \in 1..Len(k)
        BY <1>1
      <4>3. PICK j \in Pops : TRUE
        BY <1>1, <4>1, <4>2 DEF Frames, PopBehind
      <4>4. j < i
        BY <1>1, <1>3, <3>2
      <4> QED BY <1>4, <4>4
    <3> QED BY <1>2, <3>1, <3>2
  <2> QED BY <2>1 DEF PopBehind
<1> QED BY <1>4, <1>6, <1>7, <1>8 DEF Frames

\* The same for the commands that begin the evaluation of a transaction: one pop more.
LEMMA FramesEvaluation ==
  ASSUME KInv, Frames, NEW h \in {"evalTxGroup", "evalNextTx"}, Next1(h), Become(Evaluation)
  PROVE  /\ Frames' /\ Pops' = Pops \cup {Len(k) + 1} /\ Len(k) + 1 \notin Pops
         /\ k' # <<>> /\ Head(k').name = "getNextTxn"
<1>0. k # <<>> /\ Head(k).name = h /\ h \notin Finals /\ h # "popTxnFront"
  BY DEF Next1, Finals
<1>s. /\ \A c \in {"getNextTxn", "evalTx", "popTxnFront", "evalNextTx"} :
           Cmd(c) \in Command /\ Cmd(c).name = c
  BY CmdType DEF CommandNames
<1> DEFINE s == Evaluation
<1>t. /\ s \in Seq(Command) /\ s # <<>> /\ Become(s) /\ Len(s) = 4
      /\ s[1].name = "getNextTxn" /\ s[2].name = "evalTx" /\ s[3].name = "popTxnFront"
      /\ s[4].name = "evalNextTx"
  BY <1>s DEF Evaluation
<1> HIDE DEF s
<1>1. /\ Len(k) \in Nat \ {0} /\ Len(k') = Len(k) + 3 /\ k' # <<>> /\ Head(k') = s[1]
      /\ \A i \in 1..(Len(k) - 1) : Below(k', i) = Below(k, i)
      /\ \A i \in 1..Len(s) : Below(k', Len(k) + Len(s) - i) = s[i].name
      /\ Below(k, Len(k)) = h
      /\ \A i \in 1..Len(s) : k'[i] = s[i]
      /\ \A i \in (Len(s) + 1)..Len(k') : i - Len(s) + 1 \in 2..Len(k) /\ k'[i] = k[i - Len(s) + 1]
  <2>1. /\ Len(k) \in Nat \ {0} /\ Len(k') = Len(k) + Len(s) - 1 /\ k' # <<>> /\ Head(k') = s[1]
        /\ \A i \in 1..(Len(k) - 1) : Below(k', i) = Below(k, i)
        /\ \A i \in 1..Len(s) : Below(k', Len(k) + Len(s) - i) = s[i].name
        /\ Below(k, Len(k)) = h
        /\ \A i \in 1..Len(s) : k'[i] = s[i]
        /\ \A i \in (Len(s) + 1)..Len(k') : i - Len(s) + 1 \in 2..Len(k) /\ k'[i] = k[i - Len(s) + 1]
    BY <1>0, <1>t, BelowBecome
  <2>2. Len(k') = Len(k) + 3
    BY <1>t, <2>1
  <2> QED BY <2>1, <2>2
<1>2. /\ Below(k', Len(k) + 3) = "getNextTxn" /\ Below(k', Len(k) + 2) = "evalTx"
      /\ Below(k', Len(k) + 1) = "popTxnFront" /\ Below(k', Len(k)) = "evalNextTx"
  <2>1. /\ Len(k) + Len(s) - 1 = Len(k) + 3 /\ Len(k) + Len(s) - 2 = Len(k) + 2
        /\ Len(k) + Len(s) - 3 = Len(k) + 1 /\ Len(k) + Len(s) - 4 = Len(k)
        /\ 1 \in 1..Len(s) /\ 2 \in 1..Len(s) /\ 3 \in 1..Len(s) /\ 4 \in 1..Len(s)
    BY <1>1, <1>t
  <2> QED BY <1>1, <1>t, <2>1
<1>3. ASSUME NEW i \in 1..Len(k')
      PROVE  i \in 1..(Len(k) - 1) \/ i \in {Len(k), Len(k) + 1, Len(k) + 2, Len(k) + 3}
  BY <1>1
<1>4. ASSUME NEW i \in Pops PROVE i \in 1..(Len(k) - 1)
  BY <1>0, <1>1 DEF Pops, PopsOf
<1>5. Pops' = Pops \cup {Len(k) + 1}
  <2>1. \A i \in 1..(Len(k) - 1) : i \in 1..Len(k) /\ i \in 1..Len(k')
    BY <1>1
  <2>2. \A i \in Pops' : i \in Pops \cup {Len(k) + 1}
    BY <1>1, <1>2, <1>3, <2>1 DEF Pops, PopsOf
  <2>3. \A i \in Pops : i \in Pops'
    BY <1>1, <1>4, <2>1 DEF Pops, PopsOf
  <2>4. Len(k) + 1 \in Pops'
    BY <1>1, <1>2 DEF Pops, PopsOf
  <2> QED BY <2>2, <2>3, <2>4
<1>6. Len(k) + 1 \notin Pops
  BY <1>1, <1>4
<1>7. ASSUME NEW i \in 1..Len(k')
      PROVE  \/ k'[i].name \in {"getNextTxn", "evalTx", "popTxnFront", "evalNextTx"}
             \/ \E j \in 1..Len(k) : k'[i] = k[j]
  <2>1. i \in 1..Len(s) \/ i \in (Len(s) + 1)..Len(k')
    BY <1>1, <1>t
  <2>2. \A j \in 2..Len(k) : j \in 1..Len(k)
    BY <1>1
  <2>3. \A j \in 1..Len(s) : j = 1 \/ j = 2 \/ j = 3 \/ j = 4
    BY <1>t
  <2> QED BY <1>1, <1>t, <2>1, <2>2, <2>3
<1>8. NoStop' /\ CheckPlain'
  BY <1>7 DEF Frames, NoStop, CheckPlain
<1>9. EndsFinal'
  <2>1. Len(k) > 1
    <3>1. k[1].name = h
      <4>1. k \in Seq(Command)
        BY DEF KInv
      <4> QED BY <1>0, <4>1
    <3> QED BY <1>0, <1>1, <3>1 DEF Frames, EndsFinal
  <2>2. Len(k') \in (Len(s) + 1)..Len(k') /\ Len(k') - Len(s) + 1 = Len(k)
    BY <1>1, <1>t, <2>1
  <2>3. k'[Len(k')] = k[Len(k)]
    BY <1>1, <2>2
  <2> QED BY <2>3 DEF Frames, EndsFinal
<1>10. PopBehind'
  <2>1. ASSUME NEW i \in 1..Len(k'), Below(k', i) \in Framed
        PROVE  \E j \in Pops' : j < i
    <3>1. CASE i \in 1..(Len(k) - 1)
      <4>1. i \in 1..Len(k) /\ Below(k, i) \in Framed
        BY <1>1, <2>1, <3>1
      <4> QED BY <1>5, <4>1 DEF Frames, PopBehind
    <3>2. CASE i \in {Len(k) + 2, Len(k) + 3}
      <4>1. Len(k) + 1 \in Pops' /\ Len(k) + 1 < i
        BY <1>1, <1>5, <3>2
      <4> QED BY <4>1
    <3>3. i \notin {Len(k), Len(k) + 1}
      BY <1>2, <2>1 DEF Framed, InFrame, Busy, InProgram, Posts
    <3> QED BY <1>3, <3>1, <3>2, <3>3
  <2> QED BY <2>1 DEF PopBehind
<1> QED BY <1>1, <1>5, <1>6, <1>8, <1>9, <1>10, <1>t DEF Frames

\* The stage is put on <k> when nothing else is left there.
LEMMA FramesStage ==
  ASSUME IInv, KOrder, Frames, ReadExecutionStages
  PROVE  Frames' /\ Pops' = {} /\ Pops = {} /\ k' # <<>> /\ Head(k').name = "setupTransactions"
<1>0. /\ k # <<>> /\ Head(k).name = "readExecutionStages" /\ k \in Seq(Command) /\ k[1] = Head(k)
      /\ Len(k) \in Nat \ {0}
  BY DEF ReadExecutionStages, Next1, IInv, KInv
<1>n. Len(k) \in Nat \ {0}
  BY <1>0
<1>1. Len(k) = 1
  <2>0. Len(k) > 1 \/ Len(k) = 1
    BY <1>n
  <2>1. SUFFICES ASSUME Len(k) > 1 PROVE FALSE
    BY <2>0
  <2>2. FALSE
    <3>1. 1 \in 1..Len(k) /\ 2 \in 1..Len(k) /\ 1 < 2
      BY <1>0, <2>1
    <3>2. k[2].name = "stopIfError"
      BY <1>0, <3>1 DEF KOrder, FinalsLast, Finals
    <3> QED BY <3>1, <3>2 DEF Frames, NoStop
  <2> QED BY <2>2
<1>2. Pops = {}
  <2>1. \A i \in 1..Len(k) : i = 1 /\ Len(k) + 1 - i = 1
    BY <1>1
  <2> QED BY <1>0, <2>1 DEF Pops, PopsOf, Below
<1> DEFINE s == <<CmdOf("setupTransactions", 1), Cmd("evalTxGroup"), Cmd("checkExecutionResults")>>
<1>3. /\ \A c \in {"evalTxGroup", "checkExecutionResults"} : Cmd(c) \in Command /\ Cmd(c).name = c
      /\ CmdOf("setupTransactions", 1) \in Command
      /\ CmdOf("setupTransactions", 1).name = "setupTransactions"
  BY CmdType DEF CommandNames, TestingCommands
<1>4. /\ s \in Seq(Command) /\ s # <<>> /\ Len(s) = 3 /\ s[1].name = "setupTransactions"
      /\ s[2].name = "evalTxGroup" /\ s[3] = Cmd("checkExecutionResults")
      /\ s[3].name = "checkExecutionResults" /\ Become(s)
  BY <1>3 DEF ReadExecutionStages
<1> HIDE DEF s
<1>5. /\ Len(k') = 3 /\ k' # <<>> /\ Head(k').name = "setupTransactions"
      /\ k'[1].name = "setupTransactions" /\ k'[2].name = "evalTxGroup"
      /\ k'[3].name = "checkExecutionResults" /\ k'[3] = Cmd("checkExecutionResults")
  <2>1. /\ Len(k') = Len(k) + Len(s) - 1 /\ k' # <<>> /\ Head(k') = s[1]
        /\ \A i \in 1..Len(s) : k'[i] = s[i]
    BY <1>0, <1>4, BelowBecome DEF IInv
  <2> QED BY <1>1, <1>4, <2>1
<1>6. \A i \in 1..Len(k') : i = 1 \/ i = 2 \/ i = 3
  BY <1>5
<1>7. \A i \in 1..Len(k') : Below(k', i) \in {"setupTransactions", "evalTxGroup", "checkExecutionResults"}
  <2>1. \A i \in 1..Len(k') : Len(k') + 1 - i \in 1..Len(k')
    BY <1>5
  <2> QED BY <1>5, <1>6, <2>1 DEF Below
<1>8. Pops' = {}
  BY <1>7 DEF Pops, PopsOf
<1>9. PopBehind'
  BY <1>7 DEF PopBehind, Framed, InFrame, Busy, InProgram, Posts
<1>10. NoStop' /\ CheckPlain' /\ EndsFinal'
  BY <1>5, <1>6 DEF NoStop, CheckPlain, EndsFinal, Finals
<1> QED BY <1>2, <1>5, <1>8, <1>9, <1>10 DEF Frames

\* One command in the place of the head, and two.
LEMMA FramesOne ==
  ASSUME KInv, Frames, NEW h, Next1(h), h \notin Finals, h # "popTxnFront",
         NEW c \in Command, Become(<<c>>),
         c.name \notin {"stopIfError", "popTxnFront", "checkExecutionResults"},
         c.name \in Framed => h \in Framed \/ Pops # {}
  PROVE  Frames' /\ Pops' = Pops /\ k' # <<>> /\ Head(k') = c
<1> DEFINE s == <<c>>
<1>1. s \in Seq(Command) /\ Len(s) = 1 /\ s[1] = c /\ s # <<>> /\ Become(s)
  OBVIOUS
<1> HIDE DEF s
<1>2. \A i \in 1..Len(s) : i = 1
  BY <1>1
<1>3. k' # <<>> /\ Head(k') = c
  BY <1>1, BelowBecome DEF Next1
<1> QED BY <1>1, <1>2, <1>3, FramesBecome

\* The same for two commands.
LEMMA FramesTwo ==
  ASSUME KInv, Frames, NEW h, Next1(h), h \notin Finals, h # "popTxnFront",
         NEW c \in Command, NEW d \in Command, Become(<<c, d>>),
         c.name \notin {"stopIfError", "popTxnFront", "checkExecutionResults"},
         d.name \notin {"stopIfError", "popTxnFront", "checkExecutionResults"},
         c.name \in Framed => h \in Framed \/ Pops # {},
         d.name \in Framed => h \in Framed \/ Pops # {}
  PROVE  Frames' /\ Pops' = Pops /\ k' # <<>> /\ Head(k') = c
<1> DEFINE s == <<c, d>>
<1>1. s \in Seq(Command) /\ Len(s) = 2 /\ s[1] = c /\ s[2] = d /\ s # <<>> /\ Become(s)
  OBVIOUS
<1> HIDE DEF s
<1>2. \A i \in 1..Len(s) : i = 1 \/ i = 2
  BY <1>1
<1>3. k' # <<>> /\ Head(k') = c
  BY <1>1, BelowBecome DEF Next1
<1> QED BY <1>1, <1>2, <1>3, FramesBecome

-----------------------------------------------------------------------------
(* Groups in the deque, and what a program has submitted.                   *)
Scheduled(t) == \E i \in 1..Len(deque) : deque[i] = t
GroupOf(t) == transactions[t].group
Context(t) == transactions[t].context

\* What is being executed is in front, and not suspended.
BusyFront ==
  HeadIn(Busy) => /\ deque # <<>> /\ deque[1] = currentTx
                  /\ currentTx \in DOMAIN transactions /\ currentTx \notin Suspended
                  /\ Current.type = "appl" => Current.resume

\* What is suspended is scheduled; it is the first of its group in the deque, behind the
\* group it submitted.
Line == /\ \A t \in Suspended : Scheduled(t)
        /\ \A i \in 2..Len(deque) : deque[i] \in Suspended <=> (GroupOf(deque[i]) # GroupOf(deque[i - 1]))

\* The front of the deque, where the next transaction is chosen.
NextInLine ==
  /\ HeadIn({"evalNextTx"}) /\ deque # <<>> =>
       (deque[1] \in Suspended <=> (GroupOf(deque[1]) # Current.group))
  /\ HeadIn({"evalTxGroup"}) /\ deque # <<>> => deque[1] \notin Suspended
  /\ HeadIn({"pushTxnBack", "setupTransactions"}) =>
       /\ Suspended = {}
       /\ \A t \in DOMAIN transactions : \E i \in 1..Len(OuterGroups) : GroupOf(t) = OuterGroups[i]

\* Group ids are handed out in order.
GroupIds == /\ \A t \in DOMAIN transactions : GroupOf(t) <= nextGroupID
            /\ currentTxnExecution.lastGroup <= nextGroupID
            /\ \A t \in Suspended : Context(t).lastGroup <= nextGroupID

\* Where there may be staged transactions.
Staging == {"fetchOpcode", "checkItxns", "executeItxnGroup"}
Pushing == {"pushItxns", "pushTxnFront"}
StagedWhere == innerTransactions # <<>> => HeadIn(Staging \cup Pushing)
\* They are of the newest group, sent by application a.
StagedBy(a) == \A i \in 1..Len(innerTransactions) : /\ innerTransactions[i].group = nextGroupID
                                                    /\ innerTransactions[i].sender = AppAddress(a)
\* Until they are pushed no transaction is of that group.
StagedFresh ==
  HeadIn(Staging) /\ innerTransactions # <<>> =>
    /\ \A t \in DOMAIN transactions : GroupOf(t) # nextGroupID
    /\ \A t \in Suspended : Context(t).lastGroup # nextGroupID
    /\ StagedBy(currentTxnExecution.app)
Submitting ==
  HeadIn({"checkItxns", "executeItxnGroup"}) =>
    innerTransactions # <<>> /\ currentTxnExecution.lastGroup = nextGroupID
\* While they are pushed, the program that staged them is suspended, and it is
\* in front or behind some of them.
Submitter ==
  HeadIn(Pushing) =>
    /\ currentTx \in Suspended /\ Context(currentTx).lastGroup = nextGroupID
    /\ \A t \in Suspended : t # currentTx => Context(t).lastGroup # nextGroupID
    /\ StagedBy(Context(currentTx).app)
    /\ deque # <<>>
    /\ \/ deque[1] = currentTx /\ GroupOf(currentTx) # nextGroupID
          /\ (HeadIn({"pushTxnFront"}) \/ innerTransactions # <<>>)
       \/ deque[1] \notin Suspended /\ GroupOf(deque[1]) = nextGroupID
Pushed == HeadIn({"pushTxnFront"}) => GroupOf(Arg) = nextGroupID /\ Arg \notin Suspended

\* The last group of a suspended program is its own, and ahead of it;
ContextOwn ==
  \A s \in Suspended, t \in DOMAIN transactions :
    GroupOf(t) = Context(s).lastGroup => transactions[t].sender = AppAddress(Context(s).app)
ContextAhead ==
  \A i, j \in 1..Len(deque) :
    deque[j] \in Suspended /\ GroupOf(deque[i]) = Context(deque[j]).lastGroup => i < j
\* the last group of a running program has been executed.
RunningOwn ==
  HeadIn({"loadInputPgm", "fetchOpcode"}) /\ currentTxnExecution.lastGroup # NoGroup =>
    \A t \in DOMAIN transactions : GroupOf(t) = currentTxnExecution.lastGroup =>
      transactions[t].sender = AppAddress(currentTxnExecution.app) /\ ~Scheduled(t)

\* The success of the group is the only verdict before the stage is checked.
Verdicts == /\ ~HeadIn({"checkSufficientBalance"}) => returncode = STUCK
            /\ HeadIn({"checkSufficientBalance"}) => Suspended = {} /\ activeApps = {}
\* An application call that has not started is scheduled, or about to be.
Started ==
  \A t \in DOMAIN transactions : transactions[t].type = "appl" /\ ~transactions[t].resume =>
    Scheduled(t) \/ (HeadIn({"pushTxnBack", "pushTxnFront"}) /\ t = Arg)

Queued == Line /\ GroupIds /\ ContextOwn /\ ContextAhead
AtHead == /\ BusyFront /\ NextInLine /\ StagedWhere /\ StagedFresh /\ Submitting
          /\ Submitter /\ Pushed /\ RunningOwn /\ Verdicts
Nested == Frames /\ Counted /\ Queued /\ AtHead /\ Started
\* Until a panic or the verdict.
Nesting == Going => Nested

\* All this relies on programs that submit what they stage (Disciplined), on
\* account objects that are well formed (WellFormedSetup), and on submitted
\* transactions of one group, as the client submits them: #evalNextTx takes a change
\* of group for the return to a suspended transaction.
SubmittedTogether == \A i, j \in 1..Len(OuterGroups) : OuterGroups[i] = OuterGroups[j]

Ready == IInv /\ Flow /\ Calls /\ Nested

-----------------------------------------------------------------------------
(* Steps that leave the deque and the transactions alone.                   *)
Unmoved == UNCHANGED <<transactions, deque>>
Same == UNCHANGED <<transactions, deque, currentTx>>

\* What is suspended and what is scheduled stays,
LEMMA SameSuspended ==
  ASSUME Unmoved
  PROVE  /\ Suspended' = Suspended
         /\ \A t : Scheduled(t)' = Scheduled(t)
BY DEF Unmoved, Suspended, Scheduled

\* and so do the groups in the deque, when group ids only grow;
LEMMA SameQueued ==
  ASSUME IInv, Queued, Unmoved, nextGroupID' \in Nat, nextGroupID' >= nextGroupID,
         currentTxnExecution'.lastGroup <= nextGroupID'
  PROVE  Queued'
<1>1. Suspended' = Suspended /\ \A t : Scheduled(t)' = Scheduled(t)
  BY SameSuspended
<1>2. Line'
  BY <1>1 DEF Unmoved, Queued, Line, GroupOf
<1>3. GroupIds'
  <2>1. nextGroupID \in Int /\ nextGroupID' \in Int
    BY DEF IInv, DataOK
  <2>2. \A t \in DOMAIN transactions : GroupOf(t) \in Int /\ Context(t).lastGroup \in Int
    BY DEF IInv, TxnsOK, Transaction, Execution, GroupOf, Context
  <2>3. \A t \in Suspended : t \in DOMAIN transactions
    BY DEF Suspended
  <2>4. /\ \A t \in DOMAIN transactions : GroupOf(t) <= nextGroupID'
        /\ \A t \in Suspended : Context(t).lastGroup <= nextGroupID'
    BY <2>1, <2>2, <2>3 DEF Queued, GroupIds
  <2> QED BY <1>1, <2>4 DEF Unmoved, GroupIds, GroupOf, Context
<1>4. ContextOwn'
  BY <1>1 DEF Unmoved, Queued, ContextOwn, GroupOf, Context
<1>5. ContextAhead'
  BY <1>1 DEF Unmoved, Queued, ContextAhead, GroupOf, Context
<1> QED BY <1>2, <1>3, <1>4, <1>5 DEF Queued

\* what has not started is still scheduled;
LEMMA SameStarted ==
  ASSUME Started, Unmoved, NEW h, Next1(h), h \notin {"pushTxnBack", "pushTxnFront"}
  PROVE  Started'
<1>1. \A t : Scheduled(t)' = Scheduled(t)
  BY SameSuspended
<1>2. ~HeadIn({"pushTxnBack", "pushTxnFront"})
  BY DEF HeadIn, Next1
<1> QED BY <1>1, <1>2 DEF Unmoved, Started

\* The number of pops stays when neither they nor those waiting for one change.
LEMMA SameCount ==
  ASSUME Counted, Pops' = Pops, Waiting' = Waiting
  PROVE  Counted'
BY DEF Counted

\* a pop is still due to the same transactions.
LEMMA SameWaiting ==
  ASSUME Unmoved, NEW h, Next1(h), NEW g, k' # <<>>, Head(k').name = g, h \in InFrame <=> g \in InFrame
  PROVE  Waiting' = Waiting
<1>1. Suspended' = Suspended
  BY SameSuspended
<1>2. HeadIn(InFrame)' <=> HeadIn(InFrame)
  BY DEF HeadIn, Next1
<1> QED BY <1>1, <1>2 DEF Unmoved, Waiting

\* Between the executions of transactions only the front of the deque matters.
LEMMA PlainHead ==
  ASSUME NEW g, k' # <<>>, Head(k').name = g, g \notin Busy \cup Pushing \cup {"checkSufficientBalance"},
         innerTransactions' = <<>>, returncode' = STUCK, NextInLine'
  PROVE  AtHead'
<1>1. \A S \in {Busy, Staging, Pushing, {"checkItxns", "executeItxnGroup"}, {"pushTxnFront"},
                {"loadInputPgm", "fetchOpcode"}, {"checkSufficientBalance"}} : g \notin S
  BY DEF Busy, InProgram, Staging, Pushing
<1>2. /\ ~HeadIn(Busy)' /\ ~HeadIn(Staging)' /\ ~HeadIn(Pushing)'
      /\ ~HeadIn({"checkItxns", "executeItxnGroup"})' /\ ~HeadIn({"pushTxnFront"})'
      /\ ~HeadIn({"loadInputPgm", "fetchOpcode"})' /\ ~HeadIn({"checkSufficientBalance"})'
  BY <1>1 DEF HeadIn
<1> QED BY <1>2 DEF AtHead, BusyFront, StagedWhere, StagedFresh, Submitting, Submitter, Pushed,
                    RunningOwn, Verdicts

\* Commands at whose turn little is asked.
Free(g) == g \notin Busy \cup Pushing
                    \cup {"evalNextTx", "evalTxGroup", "pushTxnBack", "setupTransactions",
                          "checkSufficientBalance"}

\* Nothing has to be shown where such a command comes next,
LEMMA FreeHead ==
  ASSUME NEW g, k' # <<>>, Head(k').name = g, Free(g), innerTransactions' = <<>>, returncode' = STUCK
  PROVE  AtHead'
<1>1. NextInLine'
  BY DEF NextInLine, HeadIn, Free
<1> QED BY <1>1, PlainHead DEF Free

\* Command g may come after h without more being asked than before.
Passes(h, g) ==
  /\ g \in InFrame <=> h \in InFrame
  /\ g \in Busy => h \in Busy
  /\ g \in Busy \/ Free(g)
  /\ g \in {"checkItxns", "executeItxnGroup"} => h = "checkItxns"
  /\ g \in {"loadInputPgm", "fetchOpcode"} => h \in {"loadInputPgm", "fetchOpcode"}
  /\ h \notin {"pushTxnBack", "pushTxnFront", "checkSufficientBalance"}

\* and what is asked at the head holds after it as it did before.
LEMMA QuietAtHead ==
  ASSUME Nested, Same, NEW h, Next1(h), NEW g, k' # <<>>, Head(k').name = g, Passes(h, g),
         UNCHANGED <<innerTransactions, nextGroupID, returncode>>,
         currentTxnExecution'.app = currentTxnExecution.app,
         currentTxnExecution'.lastGroup = currentTxnExecution.lastGroup,
         innerTransactions = <<>> \/ (h \in Staging /\ g \in Staging)
  PROVE  AtHead'
<1>0. Suspended' = Suspended /\ Current' = Current /\ \A t : Scheduled(t)' = Scheduled(t)
  BY SameSuspended DEF Same, Unmoved, Current
<1>1. BusyFront'
  BY <1>0 DEF Nested, AtHead, BusyFront, HeadIn, Next1, Passes, Same
<1>2. NextInLine' /\ Submitter' /\ Pushed'
  <2>1. /\ ~HeadIn({"evalNextTx"})' /\ ~HeadIn({"evalTxGroup"})' /\ ~HeadIn({"pushTxnBack", "setupTransactions"})'
        /\ ~HeadIn(Pushing)' /\ ~HeadIn({"pushTxnFront"})'
    BY DEF HeadIn, Passes, Free, Pushing, Busy, InProgram, Posts
  <2> QED BY <2>1 DEF NextInLine, Submitter, Pushed
<1>3. StagedWhere'
  BY DEF StagedWhere, HeadIn
<1>4. StagedFresh'
  <2>1. SUFFICES ASSUME innerTransactions # <<>> PROVE StagedFresh'
    BY DEF StagedFresh
  <2>2. HeadIn(Staging)
    BY <2>1 DEF HeadIn, Next1
  <2> QED BY <1>0, <2>1, <2>2 DEF Nested, AtHead, StagedFresh, StagedBy, Same, GroupOf, Context
<1>5. Submitting'
  BY DEF Nested, AtHead, Submitting, HeadIn, Next1, Passes
<1>6. RunningOwn'
  <2>1. HeadIn({"loadInputPgm", "fetchOpcode"})' => HeadIn({"loadInputPgm", "fetchOpcode"})
    BY DEF HeadIn, Next1, Passes
  <2> QED BY <1>0, <2>1 DEF Nested, AtHead, RunningOwn, Same, GroupOf
<1>7. Verdicts'
  <2>1. ~HeadIn({"checkSufficientBalance"}) /\ ~HeadIn({"checkSufficientBalance"})'
    BY DEF HeadIn, Next1, Passes, Free, Busy, InProgram, Posts
  <2> QED BY <2>1 DEF Nested, AtHead, Verdicts
<1> QED BY <1>1, <1>2, <1>3, <1>4, <1>5, <1>6, <1>7 DEF AtHead

\* A step for the transaction being executed, or before any is.
LEMMA QuietNest ==
  ASSUME Ready, Same, NEW h, Next1(h), NEW g, k' # <<>>, Head(k').name = g, Passes(h, g),
         UNCHANGED <<innerTransactions, nextGroupID, returncode>>,
         currentTxnExecution'.app = currentTxnExecution.app,
         currentTxnExecution'.lastGroup = currentTxnExecution.lastGroup,
         innerTransactions = <<>> \/ (h \in Staging /\ g \in Staging),
         Frames' /\ Pops' = Pops
  PROVE  Nested'
<1>0. Unmoved
  BY DEF Same, Unmoved
<1>1. Queued'
  <2>1. nextGroupID' \in Nat /\ nextGroupID' >= nextGroupID
    BY DEF Ready, IInv, DataOK
  <2>2. currentTxnExecution'.lastGroup <= nextGroupID'
    BY DEF Ready, Nested, Queued, GroupIds
  <2> QED BY <1>0, <2>1, <2>2, SameQueued DEF Ready, Nested
<1>2. Counted'
  BY <1>0, SameWaiting, SameCount DEF Ready, Nested, Passes
<1>3. Started'
  BY <1>0, SameStarted DEF Ready, Nested, Passes
<1>4. AtHead'
  BY QuietAtHead DEF Ready
<1> QED BY <1>1, <1>2, <1>3, <1>4 DEF Nested

-----------------------------------------------------------------------------
(* Steps for the transaction being executed.                                *)
LEMMA DonePasses ==
  ASSUME NEW h \in {"setupAccounts", "setupCounters", "executeTxn", "finalizeExecution",
                    "loadInputPgm", "checkItxns"} \cup Posts,
         NEW g, May(h, g), g \notin Over
  PROVE  Passes(h, g) /\ (h = "checkItxns" => g \in Staging)
<1>1. /\ h = "setupAccounts" => g = "setupCounters"
      /\ h = "setupCounters" => g = "readExecutionStages"
      /\ h = "loadInputPgm" => g = "fetchOpcode"
      /\ h = "checkItxns" => g = "executeItxnGroup"
      /\ h \in Before => g \in Posts \cup {"popTxnFront"}
  BY MayAfter DEF Over, After, Posts
<1>2. h \in {"executeTxn", "finalizeExecution"} \cup Posts => h \in Before
  BY DEF Before, Busy, InProgram, Posts
<1>3. CASE h \in {"executeTxn", "finalizeExecution"} \cup Posts
  <2>1. g \in Posts \cup {"popTxnFront"} /\ g \in Busy /\ h \in Busy
    BY <1>1, <1>2, <1>3 DEF Busy, InProgram
  <2> QED BY <1>3, <2>1 DEF Passes, InFrame, Posts, Pushing
<1>4. CASE h \in {"setupAccounts", "setupCounters", "loadInputPgm", "checkItxns"}
  BY <1>1, <1>4 DEF Passes, InFrame, Busy, InProgram, Posts, Free, Pushing, Staging
<1> QED BY <1>3, <1>4

\* A quiet step that takes its command off <k>, or
LEMMA QuietDoneNest ==
  ASSUME Ready, Going',
         NEW h \in {"setupAccounts", "setupCounters", "executeTxn", "finalizeExecution",
                    "loadInputPgm", "checkItxns"} \cup Posts,
         Next1(h), Done, UNCHANGED <<txns, queue, innerTransactions, currentTxnExecution, returncode>>
  PROVE  Nested'
<1>1. k' # <<>> /\ Head(k').name \notin Over
  BY DEF Going, HeadIn
<1>2. PICK g : Head(k').name = g /\ May(h, g)
  BY <1>1, DoneHead DEF Ready, Flow
<1>3. Passes(h, g) /\ (h = "checkItxns" => g \in Staging)
  BY <1>1, <1>2, DonePasses
<1>4. Frames' /\ Pops' = Pops
  <2>1. h # "popTxnFront"
    BY DEF Posts
  <2> QED BY <1>1, <2>1, FramesDone DEF Ready, IInv, Nested
<1>5. innerTransactions = <<>> \/ (h \in Staging /\ g \in Staging)
  <2>1. h = "checkItxns" \/ h \notin Staging \cup Pushing
    BY DEF Staging, Pushing, Posts
  <2>2. CASE h = "checkItxns"
    BY <1>3, <2>2 DEF Staging
  <2>3. CASE h \notin Staging \cup Pushing
    BY <2>3 DEF Ready, Nested, AtHead, StagedWhere, HeadIn, Next1
  <2> QED BY <2>1, <2>2, <2>3
<1>6. Same /\ UNCHANGED nextGroupID
  BY DEF Same, txns, queue
<1> QED BY <1>1, <1>2, <1>3, <1>4, <1>5, <1>6, QuietNest

\* replaces it by another one.
LEMMA QuietOneNest ==
  ASSUME Ready, NEW h, Next1(h), h \notin Finals, h # "popTxnFront", NEW c \in Command, Become(<<c>>),
         Passes(h, c.name), c.name \notin {"stopIfError", "popTxnFront", "checkExecutionResults"},
         h \notin Pushing, h \in Staging => c.name \in Staging \/ innerTransactions = <<>>,
         UNCHANGED <<txns, queue, innerTransactions, currentTxnExecution, returncode>>
  PROVE  Nested'
<1>1. c.name \in Framed => h \in Framed \/ Pops # {}
  BY DEF Passes, Framed
<1>2. Frames' /\ Pops' = Pops /\ k' # <<>> /\ Head(k') = c
  BY <1>1, FramesOne DEF Ready, IInv, Nested
<1>3. innerTransactions = <<>> \/ (h \in Staging /\ c.name \in Staging)
  BY DEF Ready, Nested, AtHead, StagedWhere, HeadIn, Next1
<1>4. Same /\ UNCHANGED nextGroupID
  BY DEF Same, txns, queue
<1> QED BY <1>2, <1>3, <1>4, QuietNest

\* #initApp and the program.
LEMMA ExecuteApplNest ==
  ASSUME Ready, ExecuteAppl
  PROVE  Nested'
<1>1. PICK a : a = Arg
  OBVIOUS
<1>2. a \in Nat /\ Current \in Transaction /\ Next1("executeAppl")
  BY <1>1, HeadType, CurrentType DEF ExecuteAppl, Next1, Ready, IInv, Evaluating
<1>3. PICK c : /\ c = PostOperations(a)
               /\ c = <<>> \/ (\E d \in Command : c = <<d>> /\ d.name \in Posts)
  BY <1>2, PostFits
<1> DEFINE p == <<CmdOf("initApp", a), Cmd("loadInputPgm"), Cmd("fetchOpcode")>>
           s == p \o c
<1>4. /\ s \in Seq(Command) /\ s # <<>> /\ s[1] = CmdOf("initApp", a)
  BY <1>2, <1>3, FitsProgram
<1>5. Become(s)
  BY <1>1, <1>3 DEF ExecuteAppl
<1>6. \A i \in 1..Len(s) : s[i].name \in {"initApp", "loadInputPgm", "fetchOpcode"} \cup Posts
  <2>1. /\ \A n \in {"loadInputPgm", "fetchOpcode"} : Cmd(n) \in Command /\ Cmd(n).name = n
        /\ CmdOf("initApp", a) \in Command /\ CmdOf("initApp", a).name = "initApp"
    BY <1>2, CmdType DEF CommandNames
  <2>2. /\ p \in Seq(Command) /\ Len(p) = 3 /\ p[1].name = "initApp" /\ p[2].name = "loadInputPgm"
        /\ p[3].name = "fetchOpcode"
    BY <2>1
  <2>3. c \in Seq(Command) /\ \A i \in 1..Len(c) : c[i].name \in Posts
    <3>1. CASE c = <<>>
      BY <3>1
    <3>2. CASE \E d \in Command : c = <<d>> /\ d.name \in Posts
      <4>1. PICK d \in Command : c = <<d>> /\ d.name \in Posts
        BY <3>2
      <4>2. Len(c) = 1 /\ c[1] = d /\ c \in Seq(Command)
        BY <4>1
      <4>3. \A i \in 1..Len(c) : i = 1
        BY <4>2
      <4> QED BY <4>1, <4>2, <4>3
    <3> QED BY <1>3, <3>1, <3>2
  <2>4. s = p \o c
    OBVIOUS
  <2> HIDE DEF p, s
  <2>5. /\ Len(s) = Len(p) + Len(c)
        /\ \A i \in 1..Len(p) : s[i] = p[i]
        /\ \A i \in (Len(p) + 1)..(Len(p) + Len(c)) : s[i] = c[i - Len(p)]
    BY <2>2, <2>3, <2>4, ConcatType
  <2>6. \A i \in 1..Len(s) : i = 1 \/ i = 2 \/ i = 3 \/ i \in (Len(p) + 1)..(Len(p) + Len(c))
    BY <2>2, <2>3, <2>5
  <2>7. \A i \in (Len(p) + 1)..(Len(p) + Len(c)) : i - Len(p) \in 1..Len(c)
    BY <2>2, <2>3
  <2>8. 1 \in 1..Len(p) /\ 2 \in 1..Len(p) /\ 3 \in 1..Len(p)
    BY <2>2
  <2> QED BY <2>2, <2>3, <2>5, <2>6, <2>7, <2>8
<1>7. CmdOf("initApp", a).name = "initApp"
  BY <1>2, CmdType DEF CommandNames
<1> HIDE DEF p, s
<1>8. /\ "executeAppl" \in Framed /\ "executeAppl" \notin Finals
      /\ \A i \in 1..Len(s) : s[i].name \notin {"stopIfError", "popTxnFront", "checkExecutionResults"}
  BY <1>6 DEF Framed, InFrame, Busy, Finals, Posts
<1>9. Frames' /\ Pops' = Pops
  BY <1>2, <1>4, <1>5, <1>8, FramesBecome DEF Ready, IInv, Nested
<1>10. k' # <<>> /\ Head(k').name = "initApp"
  BY <1>2, <1>4, <1>5, <1>7, BecomeSeq DEF Ready, IInv, Next1
<1>11. Passes("executeAppl", "initApp")
  BY DEF Passes, InFrame, Busy, InProgram, Posts
<1>12. innerTransactions = <<>>
  BY <1>2 DEF Ready, Nested, AtHead, StagedWhere, HeadIn, Next1, Staging, Pushing
<1>13. /\ Same
       /\ UNCHANGED <<innerTransactions, nextGroupID, returncode, currentTxnExecution>>
  BY DEF ExecuteAppl, Same, txns, queue, teal
<1> QED BY <1>2, <1>9, <1>10, <1>11, <1>12, <1>13, QuietNest

\* A program that goes on.
LEMMA OpPlainNest ==
  ASSUME Ready, OpPlain
  PROVE  Nested'
<1>1. /\ Next1("fetchOpcode") /\ k' = k /\ Same
      /\ UNCHANGED <<innerTransactions, nextGroupID, returncode>>
      /\ currentTxnExecution'.app = currentTxnExecution.app
      /\ currentTxnExecution'.lastGroup = currentTxnExecution.lastGroup
  BY DEF OpPlain, Running, IncrementPC, Same, txns, queue, Ready, IInv, DataOK, Execution
<1>2. Frames' /\ Pops' = Pops
  BY <1>1 DEF Ready, Nested, Frames, NoStop, EndsFinal, CheckPlain, PopBehind, Pops
<1>3. Passes("fetchOpcode", "fetchOpcode") /\ "fetchOpcode" \in Staging
  BY DEF Passes, InFrame, Busy, InProgram, Staging
<1>4. k' # <<>> /\ Head(k').name = "fetchOpcode"
  BY <1>1 DEF Next1
<1> QED BY <1>1, <1>2, <1>3, <1>4, QuietNest

\* What is done before transactions are scheduled.
LEMMA SetupNest ==
  ASSUME Ready, Going', SetupAccount \/ SetupAccountsDone \/ SetupCounters
  PROVE  Nested'
<1>1. CASE SetupAccount
  <2>1. /\ Next1("setupAccounts") /\ Arg + 1 \in Nat
        /\ UNCHANGED <<txns, queue, innerTransactions, currentTxnExecution>>
    BY <1>1, HeadType DEF SetupAccount, Next1, Ready, IInv, teal
  <2>2. ~Panic(INVALID_JSON)
    BY <2>1, PanicHead DEF Going, HeadIn, Over, Ready
  <2> DEFINE c == CmdOf("setupAccounts", Arg + 1)
  <2>3. Become(<<c>>) /\ UNCHANGED returncode
    BY <1>1, <2>2 DEF SetupAccount, ReadAccount, MalformedAccount
  <2>4. c \in Command /\ c.name = "setupAccounts"
    BY <2>1, CmdType DEF CommandNames
  <2> HIDE DEF c
  <2>5. Passes("setupAccounts", "setupAccounts")
    BY DEF Passes, InFrame, Busy, InProgram, Posts, Free, Pushing
  <2> QED BY <2>1, <2>3, <2>4, <2>5, QuietOneNest DEF Finals, Pushing, Staging
<1>2. CASE SetupAccountsDone \/ SetupCounters
  BY <1>2, QuietDoneNest DEF SetupAccountsDone, SetupCounters, teal
<1> QED BY <1>1, <1>2

\* What is executed for a transaction, its evaluation and #initApp apart.
LEMMA TxnQuiet ==
  ASSUME Ready, Going',
         \/ ExecuteNonAppl \/ CreateApplication \/ CallApplication \/ ExecuteAppl
         \/ ClearState \/ UpdatePrograms \/ DeleteApplication
  PROVE  Nested'
<1>1. CASE ExecuteNonAppl
  <2>1. Next1("executeTxn") /\ UNCHANGED <<txns, queue, innerTransactions, currentTxnExecution>>
    BY <1>1 DEF ExecuteNonAppl, teal
  <2>2. ~Panic(INSUFFICIENT_FUNDS)
    BY <2>1, PanicHead DEF Going, HeadIn, Over, Ready
  <2>3. CASE Done /\ UNCHANGED returncode
    BY <2>1, <2>3, QuietDoneNest
  <2>4. CASE Become(<<Cmd("unmatched")>>) /\ UNCHANGED returncode
    <3>1. Cmd("unmatched") \in Command /\ Cmd("unmatched").name = "unmatched"
      BY CmdType DEF CommandNames
    <3>2. Passes("executeTxn", "unmatched")
      BY DEF Passes, InFrame, Busy, InProgram, Posts
    <3> QED BY <2>1, <2>4, <3>1, <3>2, QuietOneNest DEF Finals, Pushing, Staging
  <2> QED BY <1>1, <2>2, <2>3, <2>4 DEF ExecuteNonAppl
<1>2. ASSUME NEW a \in Nat, IsApplCall, Become(<<CmdOf("executeAppl", a)>>),
             UNCHANGED <<txns, queue, teal, returncode>>
      PROVE  Nested'
  <2>1. CmdOf("executeAppl", a) \in Command /\ CmdOf("executeAppl", a).name = "executeAppl"
    BY CmdType DEF CommandNames
  <2>2. Passes("executeTxn", "executeAppl")
    BY DEF Passes, InFrame, Busy, InProgram, Posts
  <2> QED BY <1>2, <2>1, <2>2, QuietOneNest DEF IsApplCall, teal, Finals, Pushing, Staging
<1>3. CASE CreateApplication
  BY <1>2, <1>3 DEF CreateApplication, Ready, IInv, DataOK
<1>4. CASE CallApplication
  <2>1. Current.app \in Nat
    BY <1>4, CurrentType DEF CallApplication, IsApplCall, Next1, Evaluating, Transaction, Ready
  <2> QED BY <1>2, <1>4, <2>1 DEF CallApplication
<1>5. CASE ClearState \/ UpdatePrograms \/ DeleteApplication
  BY <1>5, QuietDoneNest DEF ClearState, UpdatePrograms, DeleteApplication, teal, Posts
<1> QED BY <1>1, <1>3, <1>4, <1>5, ExecuteApplNest

\* Programs, their inner groups and #initApp apart.
LEMMA TealQuiet ==
  ASSUME Disciplined, Ready, Going', LoadInputPgm \/ OpPlain \/ EndProgram \/ FinalizeExecution
  PROVE  Nested'
<1>1. CASE LoadInputPgm
  <2>1. Next1("loadInputPgm") /\ UNCHANGED <<txns, queue, innerTransactions, currentTxnExecution>>
    BY <1>1 DEF LoadInputPgm, teal
  <2>2. ~Panic(DUPLICATE_LABEL)
    BY <2>1, PanicHead DEF Going, HeadIn, Over, Ready
  <2> QED BY <1>1, <2>1, <2>2, QuietDoneNest DEF LoadInputPgm
<1>2. CASE EndProgram
  <2>1. Cmd("finalizeExecution") \in Command /\ Cmd("finalizeExecution").name = "finalizeExecution"
    BY CmdType DEF CommandNames
  <2>2. Passes("fetchOpcode", "finalizeExecution")
    BY DEF Passes, InFrame, Busy, InProgram, Posts
  <2> QED BY <1>2, <2>1, <2>2, QuietOneNest DEF EndProgram, teal, Finals, Pushing, Staging
<1>3. CASE FinalizeExecution
  <2>1. Next1("finalizeExecution") /\ UNCHANGED <<txns, queue, innerTransactions, currentTxnExecution>>
    BY <1>3 DEF FinalizeExecution
  <2>2. ~Panic(ZERO_STACK) /\ ~Panic(BAD_STACK)
    BY <2>1, PanicHead DEF Going, HeadIn, Over, Ready
  <2> QED BY <1>3, <2>1, <2>2, QuietDoneNest DEF FinalizeExecution
<1> QED BY <1>1, <1>2, <1>3, OpPlainNest

\* The checks on an inner group.
LEMMA CheckNest ==
  ASSUME Ready, Going', CheckItxn \/ CheckItxnsDone
  PROVE  Nested'
<1>1. CASE CheckItxn
  <2>1. /\ Next1("checkItxns") /\ Arg + 1 \in Nat
        /\ UNCHANGED <<txns, queue, innerTransactions, currentTxnExecution>>
    BY <1>1, HeadType DEF CheckItxn, Next1, Ready, IInv, teal
  <2>2. ~Panic(TXN_INVALID) /\ ~Panic(ITXN_REENTRY)
    BY <2>1, PanicHead DEF Going, HeadIn, Over, Ready
  <2> DEFINE c == CmdOf("checkItxns", Arg + 1)
  <2>3. Become(<<c>>) /\ UNCHANGED returncode
    BY <1>1, <2>2 DEF CheckItxn
  <2>4. c \in Command /\ c.name = "checkItxns"
    BY <2>1, CmdType DEF CommandNames
  <2> HIDE DEF c
  <2>5. Passes("checkItxns", "checkItxns")
    BY DEF Passes, InFrame, Busy, InProgram
  <2> QED BY <2>1, <2>3, <2>4, <2>5, QuietOneNest DEF Finals, Pushing, Staging
<1>2. CASE CheckItxnsDone
  BY <1>2, QuietDoneNest DEF CheckItxnsDone, teal
<1> QED BY <1>1, <1>2

-----------------------------------------------------------------------------
(* The driver's steps.                                                      *)
\* What the head of <k> tells of the return code and of what is staged.
LEMMA HeadTells ==
  ASSUME Ready, NEW h, Next1(h)
  PROVE  /\ h # "checkSufficientBalance" => returncode = STUCK
         /\ h \notin Staging \cup Pushing => innerTransactions = <<>>
BY DEF Ready, Nested, AtHead, Verdicts, StagedWhere, HeadIn, Next1

\* What the next step finds when it goes on to one command.
LEMMA NextHead ==
  ASSUME IInv, KOrder, NEW h, Next1(h), Done, Going', h # "stopIfError"
  PROVE  k' # <<>> /\ Head(k').name \notin Over /\ May(h, Head(k').name)
BY DoneHead DEF Going, HeadIn

\* The stage begins.
LEMMA StageNest ==
  ASSUME Ready, ReadExecutionStages
  PROVE  Nested'
<1>1. /\ Next1("readExecutionStages") /\ Unmoved
      /\ UNCHANGED <<innerTransactions, nextGroupID, returncode, currentTxnExecution>>
  BY DEF ReadExecutionStages, Unmoved, txns, queue, teal
<1>2. Frames' /\ Pops' = {} /\ Pops = {} /\ k' # <<>> /\ Head(k').name = "setupTransactions"
  BY FramesStage DEF Ready, Flow, Nested
<1>3. nextTxnID = 0
  <2>1. k \in Seq(Command) /\ k # <<>> /\ Head(k) = k[1]
    BY <1>1 DEF Ready, IInv, KInv, Next1
  <2>2. 1 \in 1..Len(k) /\ k[1].name \in SetupNames
    BY <1>1, <2>1 DEF Next1, SetupNames
  <2>3. SettingUp
    BY <2>2 DEF SettingUp
  <2> QED BY <2>3 DEF Ready, Flow, SetupState
<1>4. DOMAIN transactions = {}
  <2>1. 0..(nextTxnID - 1) = {}
    BY <1>3
  <2> QED BY <2>1 DEF Ready, IInv, TxnsOK
<1>5. Suspended' = {} /\ DOMAIN transactions' = {}
  BY <1>1, <1>4 DEF Suspended, Unmoved
<1>6. Counted'
  <2>1. Waiting' = Waiting
    BY <1>1, <1>2, SameWaiting DEF InFrame, Busy, InProgram, Posts
  <2> QED BY <1>2, <2>1, SameCount DEF Ready, Nested
<1>7. Queued'
  BY <1>1, SameQueued DEF Ready, IInv, DataOK, Nested, Queued, GroupIds
<1>8. Started'
  BY <1>1, SameStarted DEF Ready, Nested
<1>9. AtHead'
  <2>1. NextInLine'
    BY <1>2, <1>5 DEF NextInLine, HeadIn
  <2>2. innerTransactions' = <<>> /\ returncode' = STUCK
    BY <1>1, HeadTells DEF Staging, Pushing
  <2>3. "setupTransactions" \notin Busy \cup Pushing \cup {"checkSufficientBalance"}
    BY DEF Busy, InProgram, Posts, Pushing
  <2> QED BY <1>2, <2>1, <2>2, <2>3, PlainHead
<1> QED BY <1>2, <1>6, <1>7, <1>8, <1>9 DEF Nested

\* A new transaction, about to be pushed, disturbs no group.
LEMMA NewQueued ==
  ASSUME IInv, Queued, NEW t \in Transaction, t.context = NoContext, transactions' = WithTransaction(t),
         UNCHANGED <<deque, nextGroupID, currentTxnExecution>>, t.group <= nextGroupID,
         \A s \in Suspended : Context(s).lastGroup = t.group => t.sender = AppAddress(Context(s).app)
  PROVE  /\ Queued' /\ Suspended' = Suspended
         /\ \A u \in DOMAIN transactions : GroupOf(u)' = GroupOf(u) /\ Context(u)' = Context(u)
         /\ transactions'[nextTxnID].group = t.group
         /\ \A u : Scheduled(u)' = Scheduled(u)
<1>1. /\ \A u \in DOMAIN transactions : transactions'[u] = transactions[u]
      /\ transactions'[nextTxnID] = t /\ nextTxnID \notin DOMAIN transactions
      /\ DOMAIN transactions' = DOMAIN transactions \cup {nextTxnID}
      /\ \A i \in 1..Len(deque) : deque[i] \in DOMAIN transactions
  BY OldTransactions
<1>2. Suspended' = Suspended /\ \A u \in Suspended : u \in DOMAIN transactions
  BY NewNotSuspended DEF Suspended
<1>3. /\ \A u \in DOMAIN transactions : GroupOf(u)' = GroupOf(u) /\ Context(u)' = Context(u)
      /\ transactions'[nextTxnID].group = t.group
  BY <1>1 DEF GroupOf, Context
<1>4. \A u : Scheduled(u)' = Scheduled(u)
  BY DEF Scheduled
<1>5. Line'
  <2>1. \A i \in 2..Len(deque) : i \in 1..Len(deque) /\ i - 1 \in 1..Len(deque)
    BY DEF IInv, QueueOK
  <2> QED BY <1>1, <1>2, <1>3, <1>4, <2>1 DEF Queued, Line
<1>6. GroupIds'
  <2>1. /\ \A u \in DOMAIN transactions' : GroupOf(u)' <= nextGroupID
        /\ \A u \in Suspended : Context(u)'.lastGroup <= nextGroupID
    BY <1>1, <1>2, <1>3 DEF Queued, GroupIds, GroupOf
  <2> QED BY <1>2, <2>1 DEF Queued, GroupIds
<1>7. ContextOwn'
  BY <1>1, <1>2, <1>3 DEF Queued, ContextOwn, GroupOf, Context
<1>8. ContextAhead'
  BY <1>1, <1>2, <1>3 DEF Queued, ContextAhead
<1> QED BY <1>2, <1>3, <1>4, <1>5, <1>6, <1>7, <1>8 DEF Queued

\* An application call that is new is the one about to be pushed.
LEMMA NewStarted ==
  ASSUME IInv, Started, NEW h, Next1(h), h \notin {"pushTxnBack", "pushTxnFront"},
         NEW t \in Transaction, transactions' = WithTransaction(t), UNCHANGED deque,
         k' # <<>>, Head(k').name \in {"pushTxnBack", "pushTxnFront"}, Arg' = nextTxnID
  PROVE  Started'
<1>1. /\ \A u \in DOMAIN transactions : transactions'[u] = transactions[u]
      /\ DOMAIN transactions' = DOMAIN transactions \cup {nextTxnID}
  BY OldTransactions
<1>2. \A u : Scheduled(u)' = Scheduled(u)
  BY DEF Scheduled
<1>3. ~HeadIn({"pushTxnBack", "pushTxnFront"}) /\ HeadIn({"pushTxnBack", "pushTxnFront"})'
  BY DEF HeadIn, Next1
<1> QED BY <1>1, <1>2, <1>3 DEF Started

\* A transaction is submitted.
LEMMA AddNest ==
  ASSUME Ready, AddTxnJSON
  PROVE  Nested'
<1>1. PICK a, n : a = Arg /\ n = nextTxnID
  OBVIOUS
<1>2. PICK p \in OuterPayloads, s \in Users :
        transactions' = WithTransaction(NewTransaction(p, s, OuterGroups[a]))
  BY <1>1 DEF AddTxnJSON
<1> DEFINE t == NewTransaction(p, s, OuterGroups[a])
           c == CmdOf("pushTxnBack", n)
           d == CmdOf("setupTransactions", a + 1)
<1>3. /\ Next1("setupTransactions") /\ a \in 1..Len(OuterGroups) /\ Become(<<c, d>>)
      /\ UNCHANGED <<returncode, nextGroupID, deque, currentTx, innerTransactions, currentTxnExecution>>
  <2>1. a \in Nat /\ a > 0 /\ a <= Len(OuterGroups)
    BY <1>1, HeadType DEF AddTxnJSON, Next1, Sound, Iterating, Ready, IInv, Arg
  <2> QED BY <1>1, <2>1 DEF AddTxnJSON, queue, teal
<1>4. t \in Transaction
  BY <1>3, OuterTransaction
<1>5. t.context = NoContext /\ t.group = OuterGroups[a]
  BY DEF NewTransaction
<1>6. /\ c \in Command /\ c.name = "pushTxnBack" /\ c.arg = n
      /\ d \in Command /\ d.name = "setupTransactions"
  <2>1. n \in Nat /\ a + 1 \in Nat
    BY <1>1, <1>3 DEF Ready, IInv, TxnsOK
  <2> QED BY <2>1, CmdType DEF CommandNames
<1>7. transactions' = WithTransaction(t)
  BY <1>2
<1> HIDE DEF t, c, d
<1>8. Frames' /\ Pops' = Pops /\ k' # <<>> /\ Head(k') = c
  BY <1>3, <1>6, FramesTwo DEF Ready, IInv, Nested, Finals, Framed, InFrame, Busy, InProgram, Posts
<1>9. /\ Suspended = {}
      /\ \A u \in DOMAIN transactions : \E i \in 1..Len(OuterGroups) : GroupOf(u) = OuterGroups[i]
  BY <1>3 DEF Ready, Nested, AtHead, NextInLine, HeadIn, Next1
<1>10. t.group <= nextGroupID
  BY <1>3, <1>5, OuterGroupsAssumption DEF Ready, IInv, DataOK
<1>11. /\ Queued' /\ Suspended' = Suspended
       /\ \A u \in DOMAIN transactions : GroupOf(u)' = GroupOf(u)
       /\ transactions'[nextTxnID].group = t.group
  BY <1>3, <1>4, <1>5, <1>7, <1>9, <1>10, NewQueued DEF Ready, Nested
<1>12. Counted'
  <2>1. ~HeadIn(InFrame) /\ ~HeadIn(InFrame)'
    BY <1>3, <1>6, <1>8 DEF HeadIn, Next1, InFrame, Busy, InProgram, Posts
  <2>2. Waiting' = Waiting
    BY <1>11, <2>1 DEF Waiting
  <2> QED BY <1>8, <2>2, SameCount DEF Ready, Nested
<1>13. Started'
  BY <1>1, <1>3, <1>4, <1>6, <1>7, <1>8, NewStarted DEF Ready, Nested, Arg
<1>14. AtHead'
  <2>1. DOMAIN transactions' = DOMAIN transactions \cup {nextTxnID}
    BY <1>4, <1>7, OldTransactions DEF Ready
  <2>2. \A u \in DOMAIN transactions' : \E i \in 1..Len(OuterGroups) : GroupOf(u)' = OuterGroups[i]
    BY <1>3, <1>5, <1>9, <1>11, <2>1 DEF GroupOf
  <2>3. NextInLine'
    BY <1>6, <1>8, <1>9, <1>11, <2>2 DEF NextInLine, HeadIn
  <2>4. innerTransactions' = <<>> /\ returncode' = STUCK
    BY <1>3, HeadTells DEF Staging, Pushing
  <2>5. "pushTxnBack" \notin Busy \cup Pushing \cup {"checkSufficientBalance"}
    BY DEF Busy, InProgram, Posts, Pushing
  <2> QED BY <1>6, <1>8, <2>3, <2>4, <2>5, PlainHead
<1> QED BY <1>8, <1>11, <1>12, <1>13, <1>14 DEF Nested

\* The last one has been.
LEMMA AddedNest ==
  ASSUME Ready, Going', SetupTransactionsDone
  PROVE  Nested'
<1>1. /\ Next1("setupTransactions") /\ Done /\ Unmoved
      /\ UNCHANGED <<innerTransactions, nextGroupID, returncode, currentTxnExecution>>
  BY DEF SetupTransactionsDone, Unmoved, txns, queue, teal
<1>2. k' # <<>> /\ Head(k').name = "evalTxGroup"
  BY <1>1, NextHead, MayAfter DEF Ready, Flow
<1>3. Frames' /\ Pops' = Pops
  BY <1>1, <1>2, FramesDone DEF Ready, IInv, Nested
<1>4. Counted'
  <2>1. Waiting' = Waiting
    BY <1>1, <1>2, SameWaiting DEF InFrame, Busy, InProgram, Posts
  <2> QED BY <1>3, <2>1, SameCount DEF Ready, Nested
<1>5. Queued'
  BY <1>1, SameQueued DEF Ready, IInv, DataOK, Nested, Queued, GroupIds
<1>6. Started'
  BY <1>1, SameStarted DEF Ready, Nested
<1>7. AtHead'
  <2>1. Suspended' = {}
    BY <1>1, SameSuspended DEF Ready, Nested, AtHead, NextInLine, HeadIn, Next1
  <2>2. NextInLine'
    BY <1>2, <2>1 DEF NextInLine, HeadIn
  <2>3. innerTransactions' = <<>> /\ returncode' = STUCK
    BY <1>1, HeadTells DEF Staging, Pushing
  <2>4. "evalTxGroup" \notin Busy \cup Pushing \cup {"checkSufficientBalance"}
    BY DEF Busy, InProgram, Posts, Pushing
  <2> QED BY <1>2, <2>2, <2>3, <2>4, PlainHead
<1> QED BY <1>3, <1>4, <1>5, <1>6, <1>7 DEF Nested

-----------------------------------------------------------------------------
(* The deque.                                                               *)
\* An element more in front, or the first one less.
LEMMA ConsDeque ==
  ASSUME NEW a \in Nat, NEW q \in Seq(Nat)
  PROVE  LET p == <<a>> \o q IN
         /\ p \in Seq(Nat) /\ Len(q) \in Nat /\ Len(p) = Len(q) + 1 /\ p[1] = a
         /\ \A i \in 2..Len(p) : i - 1 \in 1..Len(q) /\ p[i] = q[i - 1]
         /\ \A i \in 1..Len(q) : i + 1 \in 2..Len(p) /\ p[i + 1] = q[i]
  OBVIOUS

LEMMA TailDeque ==
  ASSUME NEW q \in Seq(Nat), q # <<>>
  PROVE  LET p == Tail(q) IN
         /\ p \in Seq(Nat) /\ Len(q) \in Nat \ {0} /\ Len(p) = Len(q) - 1 /\ Head(q) = q[1]
         /\ \A i \in 1..Len(p) : i + 1 \in 2..Len(q) /\ p[i] = q[i + 1]
         /\ \A i \in 2..Len(q) : i - 1 \in 1..Len(p) /\ p[i - 1] = q[i]
  OBVIOUS

\* What is to be pushed can be.
LEMMA Pushes ==
  ASSUME IInv, NEW h \in {"pushTxnBack", "pushTxnFront"}, Next1(h), NEW q, Schedule(Arg, q)
  PROVE  /\ deque' = q /\ Done /\ Arg \in DOMAIN transactions /\ Arg \in Nat
         /\ UNCHANGED <<transactions, nextGroupID, currentTx, innerTransactions, currentTxnExecution, returncode>>
<1>1. CanPush(Arg)
  BY DEF IInv, HeadReady, Next1, Arg
<1>2. Arg \in Nat
  BY HeadType DEF IInv, Next1
<1> QED BY <1>1, <1>2 DEF Schedule, CanPush, txns, teal

\* A submitted transaction is pushed at the back: they are all of one group.
LEMMA PushBackNest ==
  ASSUME SubmittedTogether, Ready, Going', PushTxnBack
  PROVE  Nested'
<1>1. PICK a : a = Arg
  OBVIOUS
<1>2. /\ Next1("pushTxnBack") /\ deque' = Append(deque, a) /\ Done
      /\ a \in DOMAIN transactions /\ a \in Nat /\ deque \in Seq(Nat)
      /\ UNCHANGED <<transactions, nextGroupID, currentTx, innerTransactions, currentTxnExecution, returncode>>
  BY <1>1, Pushes DEF PushTxnBack, Ready, IInv, QueueOK
<1>3. k' # <<>> /\ Head(k').name = "setupTransactions"
  BY <1>2, NextHead, MayAfter DEF Ready, Flow
<1>4. Frames' /\ Pops' = Pops
  BY <1>2, <1>3, FramesDone DEF Ready, IInv, Nested
<1>5. /\ Suspended = {} /\ Suspended' = {}
      /\ \A u \in DOMAIN transactions : \E i \in 1..Len(OuterGroups) : GroupOf(u) = OuterGroups[i]
  BY <1>2 DEF Ready, Nested, AtHead, NextInLine, HeadIn, Next1, Suspended
<1>6. \A u, v \in DOMAIN transactions : GroupOf(u)' = GroupOf(v)'
  BY <1>2, <1>5 DEF SubmittedTogether, GroupOf
<1>7. /\ Len(deque') = Len(deque) + 1 /\ Len(deque) \in Nat
      /\ \A i \in 1..Len(deque) : i \in 1..Len(deque') /\ deque'[i] = deque[i]
      /\ deque'[Len(deque) + 1] = a /\ Len(deque) + 1 \in 1..Len(deque')
  BY <1>2
<1>8. \A i \in 1..Len(deque') : deque'[i] \in DOMAIN transactions
  <2>1. \A i \in 1..Len(deque') : i \in 1..Len(deque) \/ i = Len(deque) + 1
    BY <1>7
  <2> QED BY <1>2, <1>7, <2>1 DEF Ready, IInv, QueueOK, DequeInv
<1>9. Queued'
  <2>1. Line'
    <3>1. \A i \in 2..Len(deque') : i \in 1..Len(deque') /\ i - 1 \in 1..Len(deque')
      BY <1>7
    <3> QED BY <1>5, <1>6, <1>8, <3>1 DEF Line
  <2>2. GroupIds'
    BY <1>2, <1>5 DEF Ready, Nested, Queued, GroupIds, GroupOf
  <2>3. ContextOwn' /\ ContextAhead'
    BY <1>5 DEF ContextOwn, ContextAhead
  <2> QED BY <2>1, <2>2, <2>3 DEF Queued
<1>10. Counted'
  <2>1. ~HeadIn(InFrame) /\ ~HeadIn(InFrame)'
    BY <1>2, <1>3 DEF HeadIn, Next1, InFrame, Busy, InProgram, Posts
  <2>2. Waiting' = Waiting
    BY <1>5, <2>1 DEF Waiting
  <2> QED BY <1>4, <2>2, SameCount DEF Ready, Nested
<1>11. Started'
  <2>1. Scheduled(a)' /\ \A t : Scheduled(t) => Scheduled(t)'
    BY <1>7 DEF Scheduled
  <2> QED BY <1>1, <1>2, <2>1 DEF Ready, Nested, Started, HeadIn
<1>12. AtHead'
  <2>1. NextInLine'
    BY <1>2, <1>3, <1>5 DEF NextInLine, HeadIn, GroupOf
  <2>2. innerTransactions' = <<>> /\ returncode' = STUCK
    BY <1>2, HeadTells DEF Staging, Pushing
  <2>3. "setupTransactions" \notin Busy \cup Pushing \cup {"checkSufficientBalance"}
    BY DEF Busy, InProgram, Posts, Pushing
  <2> QED BY <1>3, <2>1, <2>2, <2>3, PlainHead
<1> QED BY <1>4, <1>9, <1>10, <1>11, <1>12 DEF Nested

\* What is pushed in front is of the group that is waited for.
LEMMA PushFrontNest ==
  ASSUME Ready, Going', PushTxnFront
  PROVE  Nested'
<1>1. PICK a : a = Arg
  OBVIOUS
<1>2. /\ Next1("pushTxnFront") /\ deque' = <<a>> \o deque /\ Done
      /\ a \in DOMAIN transactions /\ a \in Nat /\ deque \in Seq(Nat)
      /\ UNCHANGED <<transactions, nextGroupID, currentTx, innerTransactions, currentTxnExecution, returncode>>
  BY <1>1, Pushes DEF PushTxnFront, Ready, IInv, QueueOK
<1>3. k' # <<>> /\ Head(k').name = "pushItxns"
  BY <1>2, NextHead, MayAfter DEF Ready, Flow
<1>4. Frames' /\ Pops' = Pops
  BY <1>2, <1>3, FramesDone DEF Ready, IInv, Nested
<1>5. /\ Suspended' = Suspended /\ \A t : GroupOf(t)' = GroupOf(t) /\ Context(t)' = Context(t)
  BY <1>2 DEF Suspended, GroupOf, Context
<1>6. GroupOf(a) = nextGroupID /\ a \notin Suspended /\ HeadIn(Pushing)
  BY <1>1, <1>2 DEF Ready, Nested, AtHead, Pushed, HeadIn, Next1, Pushing
<1>7. /\ currentTx \in Suspended /\ Context(currentTx).lastGroup = nextGroupID
      /\ \A t \in Suspended : t # currentTx => Context(t).lastGroup # nextGroupID
      /\ StagedBy(Context(currentTx).app)
      /\ deque # <<>>
      /\ \/ deque[1] = currentTx /\ GroupOf(currentTx) # nextGroupID
         \/ deque[1] \notin Suspended /\ GroupOf(deque[1]) = nextGroupID
  BY <1>6 DEF Ready, Nested, AtHead, Submitter
<1>8. /\ Len(deque) \in Nat /\ Len(deque') = Len(deque) + 1 /\ deque'[1] = a /\ deque' # <<>>
      /\ \A i \in 2..Len(deque') : i - 1 \in 1..Len(deque) /\ deque'[i] = deque[i - 1]
      /\ \A i \in 1..Len(deque) : i + 1 \in 2..Len(deque') /\ deque'[i + 1] = deque[i]
  <2>1. /\ Len(deque) \in Nat /\ Len(deque') = Len(deque) + 1 /\ deque'[1] = a
        /\ \A i \in 2..Len(deque') : i - 1 \in 1..Len(deque) /\ deque'[i] = deque[i - 1]
        /\ \A i \in 1..Len(deque) : i + 1 \in 2..Len(deque') /\ deque'[i + 1] = deque[i]
    BY <1>2, ConsDeque
  <2>2. deque' # <<>>
    BY <1>2
  <2> QED BY <2>1, <2>2
<1>9. /\ \A t : Scheduled(t) => Scheduled(t)'
      /\ Scheduled(a)'
  <2>1. 1 \in 1..Len(deque') /\ \A i \in 2..Len(deque') : i \in 1..Len(deque')
    BY <1>8
  <2> QED BY <1>8, <2>1 DEF Scheduled
<1>10. Queued'
  <2>1. Line'
    <3>1. \A t \in Suspended' : Scheduled(t)'
      BY <1>5, <1>9 DEF Ready, Nested, Queued, Line
    <3>2. ASSUME NEW i \in 2..Len(deque')
          PROVE  deque'[i] \in Suspended' <=> GroupOf(deque'[i]) # GroupOf(deque'[i - 1])
      <4>1. CASE i = 2
        <5>1. deque'[i] = deque[1] /\ deque'[i - 1] = a
          BY <1>8, <4>1
        <5> QED BY <1>5, <1>6, <1>7, <5>1
      <4>2. CASE i # 2
        <5>1. i - 1 \in 2..Len(deque) /\ i - 1 \in 2..Len(deque') /\ i - 1 - 1 = i - 2
          BY <1>8, <4>2
        <5>2. deque'[i] = deque[i - 1] /\ deque'[i - 1] = deque[i - 1 - 1]
          BY <1>8, <5>1
        <5> QED BY <1>5, <5>1, <5>2 DEF Ready, Nested, Queued, Line
      <4> QED BY <4>1, <4>2
    <3>3. \A i \in 2..Len(deque') :
            deque'[i] \in Suspended' <=> (transactions'[deque'[i]].group # transactions'[deque'[i - 1]].group)
      BY <1>2, <3>2 DEF GroupOf
    <3> QED BY <3>1, <3>3 DEF Line, GroupOf
  <2>2. GroupIds' /\ ContextOwn'
    BY <1>2, <1>5 DEF Ready, Nested, Queued, GroupIds, ContextOwn
  <2>3. ContextAhead'
    <3>1. ASSUME NEW i \in 1..Len(deque'), NEW j \in 1..Len(deque'),
                 deque'[j] \in Suspended,
                 transactions[deque'[i]].group = transactions[deque'[j]].context.lastGroup
          PROVE  i < j
      <4>1. j \in 2..Len(deque')
        <5>1. j # 1
          BY <1>6, <1>8, <3>1
        <5> QED BY <5>1
      <4>2. CASE i = 1
        BY <4>1, <4>2
      <4>3. CASE i # 1
        <5>1. i \in 2..Len(deque')
          BY <4>3
        <5>2. i - 1 \in 1..Len(deque) /\ j - 1 \in 1..Len(deque) /\ deque'[i] = deque[i - 1] /\ deque'[j] = deque[j - 1]
          BY <1>8, <4>1, <5>1
        <5>3. i - 1 < j - 1
          BY <3>1, <5>2 DEF Ready, Nested, Queued, ContextAhead, GroupOf, Context
        <5> QED BY <5>3
      <4> QED BY <4>2, <4>3
    <3> QED BY <1>2, <1>5, <3>1 DEF ContextAhead, GroupOf, Context
  <2> QED BY <2>1, <2>2, <2>3 DEF Queued
<1>11. Counted'
  <2>1. ~HeadIn(InFrame) /\ ~HeadIn(InFrame)'
    BY <1>2, <1>3 DEF HeadIn, Next1, InFrame, Busy, InProgram, Posts
  <2>2. Waiting' = Waiting
    BY <1>5, <2>1 DEF Waiting
  <2> QED BY <1>4, <2>2, SameCount DEF Ready, Nested
<1>12. Started'
  BY <1>1, <1>2, <1>9 DEF Ready, Nested, Started, HeadIn
<1>13. AtHead'
  <2>1. ~HeadIn(Busy)' /\ ~HeadIn(Staging)' /\ HeadIn(Pushing)' /\ ~HeadIn({"evalNextTx"})'
        /\ ~HeadIn({"evalTxGroup"})' /\ ~HeadIn({"pushTxnBack", "setupTransactions"})'
        /\ ~HeadIn({"checkItxns", "executeItxnGroup"})' /\ ~HeadIn({"pushTxnFront"})'
        /\ ~HeadIn({"loadInputPgm", "fetchOpcode"})' /\ ~HeadIn({"checkSufficientBalance"})'
    BY <1>3 DEF HeadIn, Busy, InProgram, Posts, Staging, Pushing
  <2>2. BusyFront' /\ NextInLine' /\ StagedFresh' /\ Submitting' /\ Pushed' /\ RunningOwn'
    BY <2>1 DEF BusyFront, NextInLine, StagedFresh, Submitting, Pushed, RunningOwn
  <2>3. StagedWhere'
    <3>1. HeadIn(Staging \cup Pushing)'
      BY <2>1 DEF HeadIn
    <3> QED BY <3>1 DEF StagedWhere
  <2>4. Submitter'
    <3>1. StagedBy(Context(currentTx).app)'
      BY <1>2, <1>5, <1>7 DEF StagedBy
    <3>2. deque'[1] \notin Suspended' /\ GroupOf(deque'[1]) = nextGroupID'
      BY <1>2, <1>5, <1>6, <1>8
    <3>3. /\ currentTx' \in Suspended' /\ Context(currentTx)'.lastGroup = nextGroupID'
          /\ \A t \in Suspended' : t # currentTx' => Context(t)'.lastGroup # nextGroupID'
      BY <1>2, <1>5, <1>7
    <3>4. transactions'[deque'[1]].group = nextGroupID'
      BY <1>2, <3>2 DEF GroupOf
    <3> QED BY <1>8, <3>1, <3>2, <3>3, <3>4 DEF Submitter, GroupOf, Context
  <2>5. Verdicts'
    <3>1. returncode' = STUCK
      BY <1>2, HeadTells
    <3> QED BY <2>1, <3>1 DEF Verdicts
  <2> QED BY <2>2, <2>3, <2>4, <2>5 DEF AtHead
<1> QED BY <1>4, <1>10, <1>11, <1>12, <1>13 DEF Nested

-----------------------------------------------------------------------------
(* Counting frames.                                                         *)
LEMMA FrameSets ==
  ASSUME IInv
  PROVE  IsFiniteSet(Suspended) /\ IsFiniteSet(Pops) /\ Cardinality(Suspended) \in Nat /\ Cardinality(Pops) \in Nat
<1>1. IsFiniteSet(Suspended)
  <2>1. nextTxnID - 1 \in Int /\ Suspended \subseteq 0..(nextTxnID - 1)
    BY DEF IInv, TxnsOK, Suspended
  <2>2. IsFiniteSet(0..(nextTxnID - 1))
    BY <2>1, FS_Interval
  <2> QED BY <2>1, <2>2, FS_Subset
<1>2. IsFiniteSet(Pops)
  <2>1. Len(k) \in Int /\ Pops \subseteq 1..Len(k)
    BY DEF IInv, KInv, Pops, PopsOf
  <2>2. IsFiniteSet(1..Len(k))
    BY <2>1, FS_Interval
  <2> QED BY <2>1, <2>2, FS_Subset
<1> QED BY <1>1, <1>2, FS_CardinalityType

\* A transaction is to be popped for each frame.
LEMMA FramesWait ==
  ASSUME Ready, NEW h, Next1(h), h \notin InFrame
  PROVE  Pops = {} <=> Suspended = {}
<1>1. Waiting = Suspended
  BY DEF Waiting, HeadIn, Next1
<1>2. Cardinality(Pops) = Cardinality(Suspended)
  BY <1>1 DEF Ready, Nested, Counted
<1> QED BY <1>2, FrameSets, FS_EmptySet DEF Ready

-----------------------------------------------------------------------------
(* The evaluation of a group.                                               *)
\* A transaction is chosen for execution.
LEMMA GetNest ==
  ASSUME Ready, Going', GetNextTxn
  PROVE  Nested'
<1>1. Next1("getNextTxn") /\ deque # <<>>
  BY DEF GetNextTxn, Ready, IInv, HeadReady, Next1
<1>2. /\ Done /\ Unmoved
      /\ UNCHANGED <<innerTransactions, nextGroupID, returncode, currentTxnExecution>>
  BY <1>1 DEF GetNextTxn, Unmoved, txns, teal
<1>3. k' # <<>> /\ Head(k').name = "evalTx"
  BY <1>1, <1>2, NextHead, MayAfter DEF Ready, Flow
<1>4. Frames' /\ Pops' = Pops
  BY <1>1, <1>2, <1>3, FramesDone DEF Ready, IInv, Nested
<1>5. Counted'
  <2>1. Waiting' = Waiting
    BY <1>1, <1>2, <1>3, SameWaiting DEF InFrame
  <2> QED BY <1>4, <2>1, SameCount DEF Ready, Nested
<1>6. Queued'
  BY <1>2, SameQueued DEF Ready, IInv, DataOK, Nested, Queued, GroupIds
<1>7. Started'
  BY <1>1, <1>2, SameStarted DEF Ready, Nested
<1>8. AtHead'
  <2>1. innerTransactions' = <<>> /\ returncode' = STUCK
    BY <1>1, <1>2, HeadTells DEF Staging, Pushing
  <2>2. Free("evalTx")
    BY DEF Free, Busy, InProgram, Posts, Pushing
  <2> QED BY <1>3, <2>1, <2>2, FreeHead
<1> QED BY <1>4, <1>5, <1>6, <1>7, <1>8 DEF Nested

\* One that has been executed is taken off the deque, and its frame off <k>.
LEMMA PopNest ==
  ASSUME Ready, Going', PopTxnFront
  PROVE  Nested'
<1>1. Next1("popTxnFront") /\ HeadIn(Busy) /\ HeadIn(InFrame)
  BY DEF PopTxnFront, Next1, HeadIn, Busy, InFrame
<1>2. /\ deque # <<>> /\ deque[1] = currentTx /\ currentTx \in DOMAIN transactions /\ currentTx \notin Suspended
      /\ Current.type = "appl" => Current.resume
  BY <1>1 DEF Ready, Nested, AtHead, BusyFront
<1>3. /\ Done /\ deque' = Tail(deque)
      /\ UNCHANGED <<transactions, nextGroupID, currentTx, innerTransactions, currentTxnExecution, returncode>>
  BY <1>2 DEF PopTxnFront, txns, teal
<1>4. k' # <<>> /\ Head(k').name = "evalNextTx"
  BY <1>1, <1>3, NextHead, MayAfter DEF Ready, Flow
<1>5. Frames' /\ Pops' = Pops \ {Len(k)} /\ Len(k) \in Pops
  BY <1>1, <1>3, <1>4, FramesDone DEF Ready, IInv, Nested
<1>6. /\ Suspended' = Suspended /\ \A t : GroupOf(t)' = GroupOf(t) /\ Context(t)' = Context(t)
  BY <1>3 DEF Suspended, GroupOf, Context
<1>7. /\ Len(deque) \in Nat \ {0} /\ Len(deque') = Len(deque) - 1
      /\ \A i \in 1..Len(deque') : i + 1 \in 2..Len(deque) /\ deque'[i] = deque[i + 1]
      /\ \A i \in 2..Len(deque) : i - 1 \in 1..Len(deque') /\ deque'[i - 1] = deque[i]
  BY <1>2, <1>3, TailDeque DEF Ready, IInv, QueueOK
<1>8. \A t : Scheduled(t) /\ t # currentTx => Scheduled(t)'
  <2>1. \A i \in 1..Len(deque) : i = 1 \/ i \in 2..Len(deque)
    BY <1>7
  <2> QED BY <1>2, <1>7, <2>1 DEF Scheduled
<1>9. Counted'
  <2>1. Waiting = Suspended \cup {currentTx} /\ Waiting' = Suspended
    BY <1>1, <1>2, <1>4, <1>6 DEF Waiting, HeadIn, InFrame, Busy, InProgram, Posts
  <2>2. Cardinality(Waiting) = Cardinality(Suspended) + 1
    BY <1>2, <2>1, FrameSets, FS_AddElement DEF Ready
  <2>3. Cardinality(Pops \ {Len(k)}) = Cardinality(Pops) - 1
    BY <1>5, FrameSets, FS_RemoveElement DEF Ready
  <2>4. Cardinality(Pops) = Cardinality(Waiting) /\ Cardinality(Suspended) \in Nat
    BY FrameSets DEF Ready, Nested, Counted
  <2>5. Cardinality(Pops \ {Len(k)}) = Cardinality(Suspended)
    BY <2>2, <2>3, <2>4
  <2> QED BY <1>5, <2>1, <2>5 DEF Counted
<1>10. Queued'
  <2>1. Line'
    <3>1. \A t \in Suspended' : Scheduled(t)'
      BY <1>2, <1>6, <1>8 DEF Ready, Nested, Queued, Line
    <3>2. ASSUME NEW i \in 2..Len(deque')
          PROVE  deque'[i] \in Suspended' <=> GroupOf(deque'[i]) # GroupOf(deque'[i - 1])
      <4>1. i \in 1..Len(deque') /\ i - 1 \in 1..Len(deque') /\ i + 1 \in 2..Len(deque) /\ i - 1 + 1 = i /\ i + 1 - 1 = i
        BY <1>7
      <4>2. deque'[i] = deque[i + 1] /\ deque'[i - 1] = deque[i + 1 - 1]
        BY <1>7, <4>1
      <4> QED BY <1>6, <4>1, <4>2 DEF Ready, Nested, Queued, Line
    <3>3. \A i \in 2..Len(deque') :
            deque'[i] \in Suspended' <=> (transactions'[deque'[i]].group # transactions'[deque'[i - 1]].group)
      BY <1>3, <3>2 DEF GroupOf
    <3> QED BY <3>1, <3>3 DEF Line, GroupOf
  <2>2. GroupIds' /\ ContextOwn'
    BY <1>3, <1>6 DEF Ready, Nested, Queued, GroupIds, ContextOwn
  <2>3. ContextAhead'
    <3>1. ASSUME NEW i \in 1..Len(deque'), NEW j \in 1..Len(deque'),
                 deque'[j] \in Suspended,
                 transactions[deque'[i]].group = transactions[deque'[j]].context.lastGroup
          PROVE  i < j
      <4>1. i + 1 \in 1..Len(deque) /\ j + 1 \in 1..Len(deque) /\ deque'[i] = deque[i + 1] /\ deque'[j] = deque[j + 1]
        BY <1>7
      <4>2. i + 1 < j + 1
        BY <3>1, <4>1 DEF Ready, Nested, Queued, ContextAhead, GroupOf, Context
      <4> QED BY <4>2
    <3> QED BY <1>3, <1>6, <3>1 DEF ContextAhead, GroupOf, Context
  <2> QED BY <2>1, <2>2, <2>3 DEF Queued
<1>11. Started'
  <2>1. \A t \in DOMAIN transactions : transactions[t].type = "appl" /\ ~transactions[t].resume => Scheduled(t)
    BY <1>1 DEF Ready, Nested, Started, HeadIn, Next1
  <2> QED BY <1>2, <1>3, <1>8, <2>1 DEF Started, Current
<1>12. AtHead'
  <2>1. NextInLine'
    <3>1. ASSUME deque' # <<>>
          PROVE  deque'[1] \in Suspended <=> GroupOf(deque'[1]) # GroupOf(currentTx)
      <4>1. deque' \in Seq(Nat)
        BY <1>2, <1>3 DEF Ready, IInv, QueueOK
      <4>2. 1 \in 1..Len(deque')
        BY <3>1, <4>1
      <4>3. 2 \in 2..Len(deque) /\ deque'[1] = deque[2]
        BY <1>7, <4>2
      <4>4. deque[2] \in Suspended <=> GroupOf(deque[2]) # GroupOf(deque[2 - 1])
        BY <4>3 DEF Ready, Nested, Queued, Line
      <4>5. 2 - 1 = 1
        OBVIOUS
      <4> QED BY <1>2, <4>3, <4>4, <4>5
    <3>2. deque' # <<>> => (deque'[1] \in Suspended' <=> (transactions'[deque'[1]].group # Current'.group))
      BY <1>3, <1>6, <3>1 DEF GroupOf, Current
    <3> QED BY <1>4, <3>2 DEF NextInLine, HeadIn, GroupOf
  <2>2. innerTransactions' = <<>> /\ returncode' = STUCK
    BY <1>1, <1>3, HeadTells DEF Staging, Pushing
  <2>3. "evalNextTx" \notin Busy \cup Pushing \cup {"checkSufficientBalance"}
    BY DEF Busy, InProgram, Posts, Pushing
  <2> QED BY <1>4, <2>1, <2>2, <2>3, PlainHead
<1> QED BY <1>5, <1>9, <1>10, <1>11, <1>12 DEF Nested

\* A step that leaves everything but <k> alone and goes on to an undemanding command.
LEMMA QuietFree ==
  ASSUME Ready, NEW h, Next1(h), h \notin {"pushTxnBack", "pushTxnFront", "checkSufficientBalance"} \cup Staging \cup Pushing,
         k' # <<>>, Free(Head(k').name), UNCHANGED <<returncode, txns, queue, teal>>, Frames', Counted'
  PROVE  Nested'
<1>1. Unmoved /\ UNCHANGED <<innerTransactions, nextGroupID, currentTxnExecution>>
  BY DEF Unmoved, txns, queue, teal
<1>2. Queued'
  BY <1>1, SameQueued DEF Ready, IInv, DataOK, Nested, Queued, GroupIds
<1>3. Started'
  BY <1>1, SameStarted DEF Ready, Nested
<1>4. AtHead'
  BY <1>1, HeadTells, FreeHead
<1> QED BY <1>2, <1>3, <1>4 DEF Nested

\* The evaluation of one transaction after another.
LEMMA EvaluationNest ==
  ASSUME Ready, NEW h \in {"evalTxGroup", "evalNextTx"}, Next1(h), Become(Evaluation),
         deque # <<>>, deque[1] \notin Suspended, UNCHANGED <<returncode, txns, queue, teal>>
  PROVE  Nested'
<1>1. /\ Frames' /\ Pops' = Pops \cup {Len(k) + 1} /\ Len(k) + 1 \notin Pops
      /\ k' # <<>> /\ Head(k').name = "getNextTxn"
  BY FramesEvaluation DEF Ready, IInv, Nested
<1>2. Suspended' = Suspended /\ deque' = deque
  BY DEF Suspended, txns, queue
<1>3. Waiting = Suspended /\ Waiting' = Suspended \cup {deque[1]}
  BY <1>1, <1>2 DEF Waiting, HeadIn, Next1, InFrame, Busy, InProgram, Posts
<1>4. Counted'
  <2>1. Cardinality(Suspended \cup {deque[1]}) = Cardinality(Suspended) + 1
    BY FrameSets, FS_AddElement DEF Ready
  <2>2. Cardinality(Pops \cup {Len(k) + 1}) = Cardinality(Pops) + 1
    BY <1>1, FrameSets, FS_AddElement DEF Ready
  <2>3. Cardinality(Pops) = Cardinality(Suspended)
    BY <1>3 DEF Ready, Nested, Counted
  <2>4. Cardinality(Pops \cup {Len(k) + 1}) = Cardinality(Suspended \cup {deque[1]})
    BY <2>1, <2>2, <2>3
  <2> QED BY <1>1, <1>3, <2>4 DEF Counted
<1>5. Free("getNextTxn")
  BY DEF Free, Busy, InProgram, Posts, Pushing
<1>6. h \notin {"pushTxnBack", "pushTxnFront", "checkSufficientBalance"} \cup Staging \cup Pushing
  BY DEF Staging, Pushing
<1> QED BY <1>1, <1>4, <1>5, <1>6, QuietFree

\* The first of a group is not suspended.
LEMMA EvalGroupNest ==
  ASSUME Ready, EvalTxGroup
  PROVE  Nested'
<1>1. Next1("evalTxGroup") /\ deque # <<>> /\ Become(Evaluation) /\ UNCHANGED <<returncode, txns, queue, teal>>
  BY DEF EvalTxGroup
<1>2. deque[1] \notin Suspended
  BY <1>1 DEF Ready, Nested, AtHead, NextInLine, HeadIn, Next1
<1> QED BY <1>1, <1>2, EvaluationNest

\* The next one is of the same group, or it waits for the group that is over.
LEMMA EvalNextNest ==
  ASSUME Ready, EvalNextTx
  PROVE  Nested'
<1>1. /\ Next1("evalNextTx") /\ deque # <<>> /\ UNCHANGED <<returncode, txns, queue, teal>>
      /\ IF GroupOf(deque[1]) = Current.group THEN Become(Evaluation)
                                              ELSE Become(<<Cmd("getNextTxn"), Cmd("evalTx")>>)
  <2>1. deque # <<>> => Head(deque) = deque[1]
    BY DEF Ready, IInv, QueueOK
  <2> QED BY <2>1 DEF EvalNextTx, GroupOf
<1>2. deque[1] \in Suspended <=> GroupOf(deque[1]) # Current.group
  BY <1>1 DEF Ready, Nested, AtHead, NextInLine, HeadIn, Next1
<1>3. CASE GroupOf(deque[1]) = Current.group
  BY <1>1, <1>2, <1>3, EvaluationNest
<1>4. CASE GroupOf(deque[1]) # Current.group
  <2> DEFINE c == Cmd("getNextTxn")
             d == Cmd("evalTx")
  <2>1. c \in Command /\ c.name = "getNextTxn" /\ d \in Command /\ d.name = "evalTx" /\ Become(<<c, d>>)
    BY <1>1, <1>4, CmdType DEF CommandNames
  <2> HIDE DEF c, d
  <2>2. deque[1] \in Suspended
    BY <1>2, <1>4
  <2>3. "evalNextTx" \notin InFrame \cup Finals
    BY DEF InFrame, Busy, InProgram, Posts, Finals
  <2>4. Pops # {}
    BY <1>1, <2>2, <2>3, FramesWait
  <2>5. Frames' /\ Pops' = Pops /\ k' # <<>> /\ Head(k') = c
    BY <1>1, <2>1, <2>3, <2>4, FramesTwo DEF Ready, IInv, Nested
  <2>6. Waiting' = Waiting
    <3>1. Suspended' = Suspended /\ deque' = deque
      BY <1>1 DEF Suspended, txns, queue
    <3>2. HeadIn(InFrame)' /\ ~HeadIn(InFrame)
      BY <1>1, <2>1, <2>3, <2>5 DEF HeadIn, Next1, InFrame
    <3> QED BY <2>2, <3>1, <3>2 DEF Waiting
  <2>7. Counted'
    BY <2>5, <2>6, SameCount DEF Ready, Nested
  <2>8. Free("getNextTxn")
    BY DEF Free, Busy, InProgram, Posts, Pushing
  <2> QED BY <1>1, <2>1, <2>5, <2>7, <2>8, QuietFree DEF Staging, Pushing
<1> QED BY <1>3, <1>4

-----------------------------------------------------------------------------
(* The end of the group.                                                    *)
LEMMA AcceptedNest ==
  ASSUME Ready, GroupAccepted
  PROVE  Nested'
<1>1. /\ Next1("evalNextTx") /\ deque = <<>> /\ Become(<<Cmd("checkSufficientBalance")>>) /\ Unmoved
      /\ UNCHANGED <<innerTransactions, nextGroupID, currentTxnExecution, activeApps>>
  BY DEF GroupAccepted, Unmoved, txns, queue, teal
<1>2. Cmd("checkSufficientBalance") \in Command /\ Cmd("checkSufficientBalance").name = "checkSufficientBalance"
  BY CmdType DEF CommandNames
<1>3. Frames' /\ Pops' = Pops /\ k' # <<>> /\ Head(k').name = "checkSufficientBalance"
  BY <1>1, <1>2, FramesOne DEF Ready, IInv, Nested, Finals, Framed, InFrame, Busy, InProgram, Posts
<1>4. Suspended = {}
  <2>1. Len(deque) = 0
    BY <1>1
  <2>2. \A t : ~Scheduled(t)
    BY <2>1 DEF Scheduled
  <2> QED BY <2>2 DEF Ready, Nested, Queued, Line
<1>5. Suspended' = Suspended
  BY <1>1, SameSuspended
<1>6. activeApps = {}
  <2>1. returncode = STUCK
    BY <1>1, HeadTells
  <2>2. RunningApp = {}
    BY <1>1 DEF RunningApp, HeadIn, Next1, InProgram
  <2>3. AppsOf(Suspended) = {}
    BY <1>4 DEF AppsOf
  <2> QED BY <1>1, <2>1, <2>2, <2>3 DEF Ready, Calls, ActInv, Next1
<1>7. Counted'
  <2>1. Waiting' = Waiting
    BY <1>1, <1>3, SameWaiting DEF InFrame, Busy, InProgram, Posts
  <2> QED BY <1>3, <2>1, SameCount DEF Ready, Nested
<1>8. Queued'
  BY <1>1, SameQueued DEF Ready, IInv, DataOK, Nested, Queued, GroupIds
<1>9. Started'
  BY <1>1, SameStarted DEF Ready, Nested
<1>10. AtHead'
  <2>1. \A S \in {Busy, Staging, Pushing, {"evalNextTx"}, {"evalTxGroup"}, {"pushTxnBack", "setupTransactions"},
                  {"checkItxns", "executeItxnGroup"}, {"pushTxnFront"}, {"loadInputPgm", "fetchOpcode"}} :
          "checkSufficientBalance" \notin S
    BY DEF Busy, InProgram, Posts, Staging, Pushing
  <2>2. /\ ~HeadIn(Busy)' /\ ~HeadIn(Staging)' /\ ~HeadIn(Pushing)' /\ ~HeadIn({"evalNextTx"})'
        /\ ~HeadIn({"evalTxGroup"})' /\ ~HeadIn({"pushTxnBack", "setupTransactions"})'
        /\ ~HeadIn({"checkItxns", "executeItxnGroup"})' /\ ~HeadIn({"pushTxnFront"})'
        /\ ~HeadIn({"loadInputPgm", "fetchOpcode"})' /\ HeadIn({"checkSufficientBalance"})'
    BY <1>3, <2>1 DEF HeadIn
  <2>3. innerTransactions' = <<>>
    BY <1>1, HeadTells DEF Staging, Pushing
  <2>4. Verdicts'
    BY <1>1, <1>4, <1>5, <1>6, <2>2 DEF Verdicts
  <2> QED BY <2>2, <2>3, <2>4 DEF AtHead, BusyFront, NextInLine, StagedWhere, StagedFresh, Submitting,
                                  Submitter, Pushed, RunningOwn
<1> QED BY <1>3, <1>7, <1>8, <1>9, <1>10 DEF Nested

\* When balances are checked only the verdict is left on <k>.
LEMMA BalanceLast ==
  ASSUME Ready, Next1("checkSufficientBalance")
  PROVE  Tail(k) = <<Cmd("checkExecutionResults")>>
<1>1. k \in Seq(Command) /\ k # <<>> /\ Len(k) \in Nat \ {0} /\ k[1].name = "checkSufficientBalance"
  BY DEF Ready, IInv, KInv, Next1
<1>n. Len(k) \in Nat \ {0}
  BY <1>1
<1>2. Len(k) # 1
  BY <1>1 DEF Ready, Nested, Frames, EndsFinal, Finals
<1>m. Len(k) > 1
  <2>1. \A n \in Nat \ {0} : n > 1 \/ n = 1
    OBVIOUS
  <2> QED BY <1>n, <1>2, <2>1
<1>3. 1 \in 1..(Len(k) - 1) /\ 2 \in 1..Len(k) /\ Len(k) - 1 \in 1..Len(k) /\ Len(k) + 1 - (Len(k) - 1) = 2
  BY <1>n, <1>m
<1>4. k[2].name \in After
  <2>1. May(k[1].name, k[1 + 1].name) /\ 1 + 1 = 2
    BY <1>3 DEF Ready, Flow, KOrder, Ordered
  <2>2. "checkSufficientBalance" \in Before /\ "checkSufficientBalance" # "stopIfError"
    BY DEF Before
  <2> QED BY <1>1, <2>1, <2>2, MayAfter
<1>5. Pops = {}
  <2>1. Suspended = {}
    BY DEF Ready, Nested, AtHead, Verdicts, HeadIn, Next1
  <2>2. "checkSufficientBalance" \notin InFrame
    BY DEF InFrame, Busy, InProgram, Posts
  <2> QED BY <2>1, <2>2, FramesWait
<1>6. Below(k, Len(k) - 1) = k[2].name
  BY <1>3 DEF Below
<1>7. k[2].name = "checkExecutionResults"
  <2>1. k[2].name # "popTxnFront"
    BY <1>3, <1>5, <1>6 DEF Pops, PopsOf
  <2>2. k[2].name \notin Framed
    BY <1>3, <1>5, <1>6 DEF Ready, Nested, Frames, PopBehind
  <2> QED BY <1>4, <2>1, <2>2 DEF After, Framed, InFrame, Busy, Posts
<1>8. Len(k) = 2
  <2>1. ASSUME Len(k) > 2 PROVE FALSE
    <3>1. 3 \in 1..Len(k) /\ 2 < 3
      BY <1>n, <2>1
    <3>2. k[3].name = "stopIfError"
      BY <1>3, <1>7, <3>1 DEF Ready, Flow, KOrder, FinalsLast, Finals
    <3> QED BY <3>1, <3>2 DEF Ready, Nested, Frames, NoStop
  <2>2. Len(k) > 2 \/ Len(k) = 2
    BY <1>n, <1>m
  <2> QED BY <2>1, <2>2
<1>9. k[2] = Cmd("checkExecutionResults")
  BY <1>3, <1>7 DEF Ready, Nested, Frames, CheckPlain
<1>10. /\ Tail(k) \in Seq(Command) /\ Len(Tail(k)) = Len(k) - 1
       /\ \A i \in 1..Len(Tail(k)) : Tail(k)[i] = k[i + 1]
  BY <1>1
<1>11. Len(Tail(k)) = 1 /\ Tail(k)[1] = k[2]
  <2>1. Len(Tail(k)) = 1
    BY <1>8, <1>10
  <2>2. 1 \in 1..Len(Tail(k)) /\ 1 + 1 = 2
    BY <2>1
  <2> QED BY <1>10, <2>1, <2>2
<1>12. \A s \in Seq(Command) : Len(s) = 1 => s = <<s[1]>>
  OBVIOUS
<1> QED BY <1>9, <1>10, <1>11, <1>12

\* A step that changes nothing of all this.
LEMMA IdleNest ==
  ASSUME Nested, UNCHANGED <<k, transactions, deque, currentTx, innerTransactions, nextGroupID, returncode,
                             activeApps, currentTxnExecution>>
  PROVE  Nested'
<1>1. Suspended' = Suspended /\ Current' = Current
  BY DEF Suspended, Current
<1>2. /\ \A t : /\ Scheduled(t)' = Scheduled(t) /\ GroupOf(t)' = GroupOf(t) /\ Context(t)' = Context(t)
      /\ \A S : HeadIn(S)' = HeadIn(S)
      /\ Pops' = Pops /\ Arg' = Arg
  BY DEF Scheduled, GroupOf, Context, HeadIn, Pops, Arg
<1>3. Waiting' = Waiting
  BY <1>1, <1>2 DEF Waiting
<1>4. Frames' /\ Counted'
  BY <1>2, <1>3 DEF Nested, Frames, NoStop, EndsFinal, CheckPlain, PopBehind, Counted
<1>5. Queued'
  BY <1>1, <1>2 DEF Nested, Queued, Line, GroupIds, ContextOwn, ContextAhead, GroupOf, Context
<1>6. BusyFront' /\ NextInLine' /\ StagedWhere' /\ Submitting' /\ Verdicts'
  BY <1>1, <1>2 DEF Nested, AtHead, BusyFront, NextInLine, StagedWhere, Submitting, Verdicts, GroupOf
<1>7. StagedFresh' /\ Submitter' /\ Pushed' /\ RunningOwn'
  BY <1>1, <1>2 DEF Nested, AtHead, StagedFresh, StagedBy, Submitter, Pushed, RunningOwn, GroupOf, Context
<1>8. Started'
  BY <1>2 DEF Nested, Started
<1> QED BY <1>4, <1>5, <1>6, <1>7, <1>8 DEF Nested, AtHead

\* The balances are checked, one account after the other.
LEMMA BalanceNest ==
  ASSUME Ready, Going', CheckSufficientBalance
  PROVE  Nested'
<1>1. /\ Next1("checkSufficientBalance")
      /\ UNCHANGED <<transactions, deque, currentTx, innerTransactions, nextGroupID, activeApps, currentTxnExecution>>
  BY DEF CheckSufficientBalance, txns, queue, teal
<1>2. ~Panic(MIN_BALANCE_VIOLATION)
  BY <1>1, PanicHead DEF Going, HeadIn, Over, Ready
<1>3. ~Done
  <2>1. SUFFICES ASSUME Done PROVE ~Going'
    OBVIOUS
  <2>2. k' = <<Cmd("checkExecutionResults")>>
    BY <1>1, <2>1, BalanceLast DEF Done
  <2>3. Cmd("checkExecutionResults").name = "checkExecutionResults"
    BY CmdType DEF CommandNames, TestingCommands
  <2>4. Head(k').name = "checkExecutionResults" /\ k' # <<>>
    BY <2>2, <2>3
  <2> QED BY <2>4 DEF Going, HeadIn, Over
<1>4. UNCHANGED <<k, returncode>>
  BY <1>2, <1>3 DEF CheckSufficientBalance
<1> QED BY <1>1, <1>4, IdleNest DEF Ready

-----------------------------------------------------------------------------
(* A transaction is executed, or goes on.                                   *)
\* While one is executed little is asked but that it be in front.
LEMMA BusyHead ==
  ASSUME NEW g \in Busy \ {"checkItxns", "executeItxnGroup"}, k' # <<>>, Head(k').name = g,
         BusyFront', innerTransactions' = <<>>, returncode' = STUCK,
         g \in {"loadInputPgm", "fetchOpcode"} => RunningOwn'
  PROVE  AtHead'
<1>1. \A S \in {Pushing, {"evalNextTx"}, {"evalTxGroup"}, {"pushTxnBack", "setupTransactions"},
                {"checkItxns", "executeItxnGroup"}, {"pushTxnFront"}, {"checkSufficientBalance"}} : g \notin S
  BY DEF Busy, InProgram, Posts, Pushing
<1>2. /\ ~HeadIn(Pushing)' /\ ~HeadIn({"evalNextTx"})'
      /\ ~HeadIn({"evalTxGroup"})' /\ ~HeadIn({"pushTxnBack", "setupTransactions"})'
      /\ ~HeadIn({"checkItxns", "executeItxnGroup"})' /\ ~HeadIn({"pushTxnFront"})'
      /\ ~HeadIn({"checkSufficientBalance"})'
  BY <1>1 DEF HeadIn
<1>3. RunningOwn'
  BY DEF RunningOwn, HeadIn
<1> QED BY <1>2, <1>3 DEF AtHead, NextInLine, StagedWhere, StagedFresh, Submitting, Submitter, Pushed, Verdicts

\* What is in front is evaluated.
LEMMA FrontNest ==
  ASSUME Ready, Next1("evalTx")
  PROVE  /\ deque # <<>> /\ deque[1] = currentTx /\ 1 \in 1..Len(deque)
         /\ currentTx \in DOMAIN transactions /\ Current \in Transaction
         /\ innerTransactions = <<>> /\ returncode = STUCK
<1>1. deque # <<>> /\ deque[1] = currentTx
  BY DEF Ready, Flow, ResumeInv, FrontEvaluated, HeadIn, Next1
<1>2. 1 \in 1..Len(deque)
  BY <1>1 DEF Ready, IInv, QueueOK
<1>3. currentTx \in DOMAIN transactions /\ Current \in Transaction
  BY CurrentType DEF Ready, Next1, Evaluating
<1>4. innerTransactions = <<>> /\ returncode = STUCK
  BY HeadTells DEF Staging, Pushing
<1> QED BY <1>1, <1>2, <1>3, <1>4

\* Groups, contexts and senders stay.
LEMMA AlikeQueued ==
  ASSUME IInv, Queued, UNCHANGED <<deque, nextGroupID>>,
         currentTxnExecution'.lastGroup = currentTxnExecution.lastGroup,
         DOMAIN transactions' = DOMAIN transactions,
         \A t \in DOMAIN transactions : /\ transactions'[t].group = transactions[t].group
                                        /\ transactions'[t].context = transactions[t].context
                                        /\ transactions'[t].sender = transactions[t].sender
  PROVE  Queued' /\ Suspended' = Suspended
<1>1. Suspended' = Suspended /\ \A t \in Suspended : t \in DOMAIN transactions
  BY DEF Suspended
<1>2. \A i \in 1..Len(deque) : deque[i] \in DOMAIN transactions
  BY DEF IInv, QueueOK, DequeInv
<1>3. \A t \in DOMAIN transactions : GroupOf(t)' = GroupOf(t) /\ Context(t)' = Context(t)
  BY DEF GroupOf, Context
<1>4. \A t : Scheduled(t)' = Scheduled(t)
  BY DEF Scheduled
<1>5. Line'
  <2>1. \A i \in 2..Len(deque) : i \in 1..Len(deque) /\ i - 1 \in 1..Len(deque)
    BY DEF IInv, QueueOK
  <2> QED BY <1>1, <1>2, <1>3, <1>4, <2>1 DEF Queued, Line
<1>6. GroupIds'
  BY <1>1, <1>3 DEF Queued, GroupIds
<1>7. ContextOwn'
  BY <1>1, <1>3 DEF Queued, ContextOwn
<1>8. ContextAhead'
  BY <1>1, <1>2, <1>3 DEF Queued, ContextAhead
<1> QED BY <1>1, <1>5, <1>6, <1>7, <1>8 DEF Queued

\* A transaction starts: its groups, senders and contexts are as before.
LEMMA StartNest ==
  ASSUME Ready, Next1("evalTx"), Become(<<Cmd("executeTxn")>>), currentTx \notin Suspended,
         UNCHANGED <<deque, currentTx, innerTransactions, nextGroupID, returncode>>,
         currentTxnExecution'.lastGroup = currentTxnExecution.lastGroup,
         DOMAIN transactions' = DOMAIN transactions,
         \A t \in DOMAIN transactions : /\ transactions'[t].group = transactions[t].group
                                        /\ transactions'[t].context = transactions[t].context
                                        /\ transactions'[t].sender = transactions[t].sender
                                        /\ transactions'[t].type = transactions[t].type
                                        /\ transactions[t].resume => transactions'[t].resume,
         transactions'[currentTx].type = "appl" => transactions'[currentTx].resume
  PROVE  Nested'
<1>1. Cmd("executeTxn") \in Command /\ Cmd("executeTxn").name = "executeTxn"
  BY CmdType DEF CommandNames
<1>2. Frames' /\ Pops' = Pops /\ k' # <<>> /\ Head(k').name = "executeTxn"
  BY <1>1, FramesOne DEF Ready, IInv, Nested, Finals, Framed, InFrame, Busy
<1>3. Queued' /\ Suspended' = Suspended
  BY AlikeQueued DEF Ready, Nested
<1>4. Counted'
  <2>1. HeadIn(InFrame) /\ HeadIn(InFrame)'
    BY <1>2 DEF HeadIn, Next1, InFrame, Busy
  <2>2. Waiting' = Waiting
    BY <1>3, <2>1 DEF Waiting
  <2> QED BY <1>2, <2>2, SameCount DEF Ready, Nested
<1>5. Started'
  <2>1. ~HeadIn({"pushTxnBack", "pushTxnFront"}) /\ \A t : Scheduled(t)' = Scheduled(t)
    BY DEF HeadIn, Next1, Scheduled
  <2> QED BY <2>1 DEF Ready, Nested, Started
<1>6. AtHead'
  <2>1. BusyFront'
    BY <1>3, FrontNest DEF BusyFront, Current
  <2>2. "executeTxn" \in Busy \ {"checkItxns", "executeItxnGroup"}
    BY DEF Busy
  <2> QED BY <1>2, <2>1, <2>2, BusyHead, FrontNest
<1> QED BY <1>2, <1>3, <1>4, <1>5, <1>6 DEF Nested

\* It is an application call or not.
LEMMA EvalNest ==
  ASSUME Ready, EvalNonAppl \/ EvalApplFirst
  PROVE  Nested'
<1>1. CASE EvalNonAppl
  <2>1. /\ Next1("evalTx") /\ Become(<<Cmd("executeTxn")>>) /\ Current.type # "appl"
        /\ UNCHANGED <<transactions, deque, currentTx, innerTransactions, nextGroupID, returncode, currentTxnExecution>>
    BY <1>1 DEF EvalNonAppl, txns, queue, teal
  <2>2. currentTx \notin Suspended
    BY <2>1 DEF Ready, Calls, CallInv, Current
  <2>3. transactions'[currentTx].type # "appl"
    BY <2>1 DEF Current
  <2> QED BY <2>1, <2>2, <2>3, StartNest
<1>2. CASE EvalApplFirst
  <2>1. PICK x, e : x = currentTx /\ e = currentTxnExecution
    OBVIOUS
  <2>2. /\ Next1("evalTx") /\ Become(<<Cmd("executeTxn")>>) /\ ~Current.resume
        /\ transactions' = [transactions EXCEPT ![x].resume = TRUE]
        /\ currentTxnExecution' = [e EXCEPT !.pc = 0]
        /\ UNCHANGED <<deque, currentTx, innerTransactions, nextGroupID, returncode>>
    BY <1>2, <2>1 DEF EvalApplFirst, queue
  <2>3. x \notin Suspended
    BY <2>1, <2>2 DEF Ready, Calls, CallInv, Current
  <2>4. x \in DOMAIN transactions /\ transactions[x] \in Transaction
    BY <2>1, <2>2, FrontNest DEF Current
  <2>5. /\ DOMAIN transactions' = DOMAIN transactions
        /\ transactions'[x] = [transactions[x] EXCEPT !.resume = TRUE]
        /\ \A t \in DOMAIN transactions : t # x => transactions'[t] = transactions[t]
    BY <2>2, <2>4
  <2>6. /\ transactions'[x].group = transactions[x].group /\ transactions'[x].context = transactions[x].context
        /\ transactions'[x].sender = transactions[x].sender /\ transactions'[x].type = transactions[x].type
        /\ transactions'[x].resume
    BY <2>4, <2>5 DEF Transaction
  <2>7. currentTxnExecution'.lastGroup = e.lastGroup
    BY <2>1, <2>2 DEF Ready, IInv, DataOK, Execution
  <2> QED BY <2>1, <2>2, <2>3, <2>5, <2>6, <2>7, StartNest
<1> QED BY <1>1, <1>2

\* A program goes on: the group it submitted has been executed.
LEMMA ResumeNest ==
  ASSUME Ready, EvalApplResume
  PROVE  Nested'
<1>1. PICK c, x : c = Current.context /\ x = currentTx
  OBVIOUS
<1>2. /\ Next1("evalTx") /\ Become(<<Cmd("fetchOpcode")>>) /\ Current.type = "appl" /\ Current.resume
      /\ c # NoContext /\ currentTxnExecution' = c
      /\ transactions' = [transactions EXCEPT ![x].context = NoContext]
      /\ UNCHANGED <<returncode, deque, currentTx, innerTransactions, nextGroupID>>
  BY <1>1 DEF EvalApplResume, queue
<1>3. /\ deque # <<>> /\ deque[1] = x /\ 1 \in 1..Len(deque) /\ innerTransactions = <<>> /\ returncode = STUCK
      /\ x \in DOMAIN transactions /\ transactions[x] \in Transaction /\ transactions[x].context = c
      /\ transactions[x].resume
  BY <1>1, <1>2, FrontNest DEF Current
<1>4. Cmd("fetchOpcode") \in Command /\ Cmd("fetchOpcode").name = "fetchOpcode"
  BY CmdType DEF CommandNames
<1>5. Frames' /\ Pops' = Pops /\ k' # <<>> /\ Head(k').name = "fetchOpcode"
  BY <1>2, <1>4, FramesOne DEF Ready, IInv, Nested, Finals, Framed, InFrame, Busy
<1>6. /\ DOMAIN transactions' = DOMAIN transactions
      /\ transactions'[x] = [transactions[x] EXCEPT !.context = NoContext]
      /\ \A t \in DOMAIN transactions : t # x => transactions'[t] = transactions[t]
  BY <1>2, <1>3
<1>7. /\ \A t \in DOMAIN transactions : /\ transactions'[t].group = transactions[t].group
                                        /\ transactions'[t].sender = transactions[t].sender
                                        /\ transactions'[t].type = transactions[t].type
                                        /\ transactions'[t].resume = transactions[t].resume
      /\ transactions'[x].context = NoContext
  BY <1>3, <1>6 DEF Transaction
<1>8. Suspended' = Suspended \ {x} /\ x \in Suspended
  BY <1>2, <1>3, <1>6, <1>7 DEF Suspended
<1>9. \A t \in Suspended' : transactions'[t].context = transactions[t].context
  BY <1>6, <1>8 DEF Suspended
<1>10. /\ \A i \in 1..Len(deque) : deque[i] \in DOMAIN transactions
       /\ \A i \in 2..Len(deque) : i \in 1..Len(deque) /\ i - 1 \in 1..Len(deque) /\ deque[i] # x
  <2>1. \A i \in 2..Len(deque) : i \in 1..Len(deque) /\ i - 1 \in 1..Len(deque) /\ i # 1
    BY DEF Ready, IInv, QueueOK
  <2> QED BY <1>3, <2>1 DEF Ready, IInv, QueueOK, DequeInv
<1>11. Queued'
  <2>1. Line'
    BY <1>2, <1>7, <1>8, <1>10 DEF Ready, Nested, Queued, Line, GroupOf, Scheduled
  <2>2. GroupIds'
    <3>1. c.lastGroup <= nextGroupID
      BY <1>3, <1>8 DEF Ready, Nested, Queued, GroupIds, Context
    <3> QED BY <1>2, <1>6, <1>7, <1>8, <1>9, <3>1 DEF Ready, Nested, Queued, GroupIds, GroupOf, Context
  <2>3. ContextOwn'
    BY <1>6, <1>7, <1>8, <1>9 DEF Ready, Nested, Queued, ContextOwn, GroupOf, Context
  <2>4. ContextAhead'
    BY <1>2, <1>7, <1>8, <1>9, <1>10 DEF Ready, Nested, Queued, ContextAhead, GroupOf, Context
  <2> QED BY <2>1, <2>2, <2>3, <2>4 DEF Queued
<1>12. Counted'
  <2>1. HeadIn(InFrame) /\ HeadIn(InFrame)'
    BY <1>2, <1>5 DEF HeadIn, Next1, InFrame, Busy, InProgram
  <2>2. Waiting' = Waiting
    BY <1>2, <1>3, <1>8, <2>1 DEF Waiting
  <2> QED BY <1>5, <2>2, SameCount DEF Ready, Nested
<1>13. Started'
  <2>1. ~HeadIn({"pushTxnBack", "pushTxnFront"}) /\ \A t : Scheduled(t)' = Scheduled(t)
    BY <1>2 DEF HeadIn, Next1, Scheduled
  <2> QED BY <1>6, <1>7, <2>1 DEF Ready, Nested, Started
<1>14. AtHead'
  <2>1. BusyFront'
    <3>1. currentTx' = x /\ deque' # <<>> /\ deque'[1] = x /\ x \in DOMAIN transactions' /\ x \notin Suspended'
      BY <1>1, <1>2, <1>3, <1>6, <1>8
    <3>2. transactions'[x].resume
      BY <1>3, <1>7
    <3> QED BY <3>1, <3>2 DEF BusyFront, Current
  <2>2. ASSUME NEW t \in DOMAIN transactions, transactions[t].group = c.lastGroup
        PROVE  transactions[t].sender = AppAddress(c.app) /\ ~Scheduled(t)
    <3>1. transactions[t].sender = AppAddress(c.app)
      BY <1>3, <1>8, <2>2 DEF Ready, Nested, Queued, ContextOwn, GroupOf, Context
    <3>2. ASSUME NEW i \in 1..Len(deque), deque[i] = t PROVE FALSE
      <4>1. i < 1
        BY <1>3, <1>8, <2>2, <3>2 DEF Ready, Nested, Queued, ContextAhead, GroupOf, Context
      <4> QED BY <4>1
    <3> QED BY <3>1, <3>2 DEF Scheduled
  <2>3. RunningOwn'
    BY <1>2, <1>6, <1>7, <2>2 DEF RunningOwn, GroupOf, Scheduled
  <2>4. "fetchOpcode" \in Busy \ {"checkItxns", "executeItxnGroup"}
    BY DEF Busy, InProgram
  <2> QED BY <1>2, <1>3, <1>5, <2>1, <2>3, <2>4, BusyHead
<1> QED BY <1>5, <1>11, <1>12, <1>13, <1>14 DEF Nested

\* A program begins: it has submitted nothing yet.
LEMMA InitAppNest ==
  ASSUME Ready, Going', InitApp
  PROVE  Nested'
<1>1. PICK a, e : a = Arg /\ e = currentTxnExecution
  OBVIOUS
<1>2. /\ Next1("initApp") /\ Done /\ Unmoved
      /\ currentTxnExecution' = [e EXCEPT !.app = a, !.lastGroup = NoGroup]
      /\ UNCHANGED <<returncode, currentTx, nextGroupID, innerTransactions>>
  BY <1>1 DEF InitApp, Unmoved, txns, queue
<1>3. k' # <<>> /\ Head(k').name = "loadInputPgm"
  BY <1>2, NextHead, MayAfter DEF Ready, Flow
<1>4. Frames' /\ Pops' = Pops
  BY <1>2, <1>3, FramesDone DEF Ready, IInv, Nested
<1>5. currentTxnExecution'.lastGroup = 0 /\ nextGroupID \in Nat
  BY <1>1, <1>2 DEF Ready, IInv, DataOK, Execution, NoGroup
<1>6. Queued'
  BY <1>2, <1>5, SameQueued DEF Ready, Nested
<1>7. Counted'
  <2>1. Waiting' = Waiting
    BY <1>2, <1>3, SameWaiting DEF InFrame, Busy, InProgram
  <2> QED BY <1>4, <2>1, SameCount DEF Ready, Nested
<1>8. Started'
  BY <1>2, SameStarted DEF Ready, Nested
<1>9. AtHead'
  <2>1. BusyFront'
    <3>1. HeadIn(Busy)
      BY <1>2 DEF HeadIn, Next1, Busy
    <3> QED BY <1>2, <3>1, SameSuspended DEF Ready, Nested, AtHead, BusyFront, Unmoved, Current
  <2>2. RunningOwn'
    BY <1>5 DEF RunningOwn, NoGroup
  <2>3. innerTransactions' = <<>> /\ returncode' = STUCK
    BY <1>2, HeadTells DEF Staging, Pushing
  <2>4. "loadInputPgm" \in Busy \ {"checkItxns", "executeItxnGroup"}
    BY DEF Busy, InProgram
  <2> QED BY <1>3, <2>1, <2>2, <2>3, <2>4, BusyHead
<1> QED BY <1>4, <1>6, <1>7, <1>8, <1>9 DEF Nested

-----------------------------------------------------------------------------
(* Inner groups.                                                            *)
\* An opcode that stages transactions of the newest group.
LEMMA StagingNest ==
  ASSUME Ready, Next1("fetchOpcode"), Same, UNCHANGED <<k, returncode>>,
         currentTxnExecution'.app = currentTxnExecution.app,
         currentTxnExecution'.lastGroup = currentTxnExecution.lastGroup,
         nextGroupID' \in Nat, nextGroupID' >= nextGroupID,
         StagedFresh'
  PROVE  Nested'
<1>0. Unmoved /\ k' # <<>> /\ Head(k').name = "fetchOpcode" /\ Current' = Current /\ Suspended' = Suspended
  BY DEF Same, Unmoved, Next1, Current, Suspended
<1>1. Frames' /\ Pops' = Pops
  BY DEF Ready, Nested, Frames, NoStop, EndsFinal, CheckPlain, PopBehind, Pops
<1>2. Counted'
  <2>1. Waiting' = Waiting
    BY <1>0, SameWaiting
  <2> QED BY <1>1, <2>1, SameCount DEF Ready, Nested
<1>3. Queued'
  <2>1. currentTxnExecution'.lastGroup <= nextGroupID'
    BY DEF Ready, IInv, DataOK, Execution, Nested, Queued, GroupIds
  <2> QED BY <1>0, <2>1, SameQueued DEF Ready, Nested
<1>4. Started'
  BY <1>0, SameStarted DEF Ready, Nested
<1>5. /\ ~HeadIn(Pushing)' /\ ~HeadIn({"evalNextTx"})' /\ HeadIn(Staging)' /\ HeadIn(Staging \cup Pushing)'
      /\ ~HeadIn({"evalTxGroup"})' /\ ~HeadIn({"pushTxnBack", "setupTransactions"})'
      /\ ~HeadIn({"checkItxns", "executeItxnGroup"})' /\ ~HeadIn({"pushTxnFront"})'
      /\ ~HeadIn({"checkSufficientBalance"})' /\ HeadIn(Busy) /\ HeadIn({"loadInputPgm", "fetchOpcode"})
  BY <1>0 DEF HeadIn, Next1, Pushing, Staging, Busy, InProgram
<1>6. AtHead'
  <2>1. BusyFront'
    BY <1>0, <1>5 DEF Ready, Nested, AtHead, BusyFront, Same
  <2>2. RunningOwn'
    BY <1>0, <1>5, SameSuspended DEF Ready, Nested, AtHead, RunningOwn, Same, GroupOf
  <2>3. returncode' = STUCK
    BY HeadTells
  <2> QED BY <1>5, <2>1, <2>2, <2>3 DEF AtHead, NextInLine, StagedWhere, Submitting, Submitter, Pushed, Verdicts
<1> QED BY <1>1, <1>2, <1>3, <1>4, <1>6 DEF Nested

\* These are itxn_begin, itxn_next and itxn_field.
LEMMA ItxnNest ==
  ASSUME Ready, ItxnBegin \/ ItxnNext \/ ItxnField
  PROVE  Nested'
<1>1. PICK e, n, s : e = currentTxnExecution /\ n = nextGroupID /\ s = innerTransactions
  OBVIOUS
<1>2. /\ Next1("fetchOpcode") /\ Same /\ UNCHANGED <<k, returncode>>
      /\ currentTxnExecution' = [e EXCEPT !.pc = @ + 1]
  BY <1>1 DEF ItxnBegin, ItxnNext, ItxnField, CanStage, Running, IncrementPC, Same, txns, queue
<1>3. currentTxnExecution'.app = e.app /\ currentTxnExecution'.lastGroup = e.lastGroup /\ n \in Nat
      /\ s \in Seq(Transaction)
  BY <1>1, <1>2 DEF Ready, IInv, DataOK, Execution
<1>4. Suspended' = Suspended /\ HeadIn(Staging)
  BY <1>2 DEF Same, Suspended, HeadIn, Next1, Staging
<1>5. ASSUME nextGroupID' \in Nat, nextGroupID' >= n,
             \A t \in DOMAIN transactions : GroupOf(t) # nextGroupID',
             \A t \in Suspended : Context(t).lastGroup # nextGroupID',
             \A i \in 1..Len(innerTransactions') : /\ innerTransactions'[i].group = nextGroupID'
                                                   /\ innerTransactions'[i].sender = AppAddress(e.app)
      PROVE  Nested'
  <2>1. StagedFresh'
    BY <1>1, <1>2, <1>3, <1>4, <1>5 DEF StagedFresh, StagedBy, GroupOf, Context, Same
  <2> QED BY <1>1, <1>2, <1>3, <1>5, <2>1, StagingNest
<1>b. ASSUME NEW g PROVE Blank(g).group = g /\ Blank(g).sender = AppAddress(e.app)
  BY <1>1 DEF Blank, NewTransaction
<1>6. CASE ItxnBegin
  <2>1. nextGroupID' = n + 1 /\ innerTransactions' = <<Blank(n + 1)>>
    BY <1>1, <1>6 DEF ItxnBegin
  <2>2. \A t \in DOMAIN transactions : GroupOf(t) \in Int /\ Context(t).lastGroup \in Int
    BY DEF Ready, IInv, TxnsOK, Transaction, Execution, GroupOf, Context
  <2>3. \A t \in Suspended : t \in DOMAIN transactions
    BY DEF Suspended
  <2>4. \A t \in DOMAIN transactions : GroupOf(t) <= n
    BY <1>1 DEF Ready, Nested, Queued, GroupIds
  <2>5. \A t \in Suspended : Context(t).lastGroup <= n
    BY <1>1 DEF Ready, Nested, Queued, GroupIds
  <2>6. \A g \in Int : g <= n => g # n + 1
    BY <1>3
  <2>7. /\ \A t \in DOMAIN transactions : GroupOf(t) # n + 1
        /\ \A t \in Suspended : Context(t).lastGroup # n + 1
    BY <2>2, <2>3, <2>4, <2>5, <2>6
  <2>8. \A i \in 1..Len(innerTransactions') : innerTransactions'[i] = Blank(n + 1)
    BY <2>1
  <2>9. n + 1 \in Nat /\ n + 1 >= n
    BY <1>3
  <2> QED BY <1>5, <1>b, <2>1, <2>7, <2>8, <2>9
<1>7. CASE ItxnNext \/ ItxnField
  <2>1. nextGroupID' = n /\ s # <<>>
    BY <1>1, <1>7 DEF ItxnNext, ItxnField, txns
  <2>2. /\ \A t \in DOMAIN transactions : GroupOf(t) # n
        /\ \A t \in Suspended : Context(t).lastGroup # n
        /\ \A i \in 1..Len(s) : s[i].group = n /\ s[i].sender = AppAddress(e.app)
    BY <1>1, <1>4, <2>1 DEF Ready, Nested, AtHead, StagedFresh, StagedBy
  <2>3. \A i \in 1..Len(innerTransactions') : /\ innerTransactions'[i].group = n
                                              /\ innerTransactions'[i].sender = AppAddress(e.app)
    <3>1. CASE ItxnNext
      <4>1. innerTransactions' = Append(s, Blank(n))
        BY <1>1, <3>1 DEF ItxnNext
      <4>2. \A i \in 1..Len(innerTransactions') : i \in 1..Len(s) \/ i = Len(s) + 1
        BY <1>3, <4>1
      <4>3. /\ \A i \in 1..Len(s) : innerTransactions'[i] = s[i]
            /\ innerTransactions'[Len(s) + 1] = Blank(n)
        BY <1>3, <4>1
      <4> QED BY <1>b, <2>2, <4>2, <4>3
    <3>2. CASE ItxnField
      <4>1. PICK p \in InnerPayloads :
              innerTransactions' = [s EXCEPT ![Len(s)] = NewTransaction(p, s[Len(s)].sender, s[Len(s)].group)]
        BY <1>1, <3>2 DEF ItxnField
      <4>2. Len(s) \in 1..Len(s) /\ DOMAIN s = 1..Len(s)
        BY <1>3, <2>1
      <4> DEFINE new == NewTransaction(p, s[Len(s)].sender, s[Len(s)].group)
      <4>3. new.sender = s[Len(s)].sender /\ new.group = s[Len(s)].group
        BY DEF NewTransaction
      <4> HIDE DEF new
      <4>4. innerTransactions' = [i \in 1..Len(s) |-> IF i = Len(s) THEN new ELSE s[i]]
        BY <4>1, <4>2 DEF new
      <4>5. /\ \A i \in 1..Len(s) : i # Len(s) => innerTransactions'[i] = s[i]
            /\ innerTransactions'[Len(s)] = new
        BY <4>2, <4>4
      <4>6. Len(innerTransactions') = Len(s)
        <5>1. Len(s) \in Nat
          BY <1>3
        <5> QED BY <4>4, <5>1
      <4>7. \A i \in 1..Len(s) : /\ innerTransactions'[i].group = s[i].group
                                 /\ innerTransactions'[i].sender = s[i].sender
        BY <4>3, <4>5
      <4> QED BY <2>2, <4>6, <4>7
    <3> QED BY <1>7, <3>1, <3>2
  <2>4. n >= n
    BY <1>3
  <2> QED BY <1>3, <1>5, <2>1, <2>2, <2>3, <2>4
<1> QED BY <1>6, <1>7

\* The group is submitted.
LEMMA SubmitNest ==
  ASSUME Disciplined, Ready, ItxnSubmit
  PROVE  Nested'
<1>1. PICK e, n : e = currentTxnExecution /\ n = nextGroupID
  OBVIOUS
<1> DEFINE c == CmdOf("checkItxns", 1)
           d == Cmd("executeItxnGroup")
<1>2. /\ Next1("fetchOpcode") /\ innerTransactions # <<>> /\ Become(<<c, d>>)
      /\ currentTxnExecution' = [e EXCEPT !.pc = @ + 1, !.lastGroup = n]
      /\ Same /\ Unmoved /\ UNCHANGED <<returncode, nextGroupID, innerTransactions>>
  BY <1>1 DEF ItxnSubmit, Running, Same, Unmoved, txns, queue
<1>3. c \in Command /\ c.name = "checkItxns" /\ d \in Command /\ d.name = "executeItxnGroup"
  BY CmdType DEF CommandNames
<1> HIDE DEF c, d
<1>4. Frames' /\ Pops' = Pops /\ k' # <<>> /\ Head(k').name = "checkItxns"
  BY <1>2, <1>3, FramesTwo DEF Ready, IInv, Nested, Finals, Framed, InFrame, Busy, InProgram
<1>5. currentTxnExecution'.app = e.app /\ currentTxnExecution'.lastGroup = n /\ n \in Nat
  BY <1>1, <1>2 DEF Ready, IInv, DataOK, Execution
<1>6. Queued'
  <2>1. n >= n /\ n <= n
    BY <1>5
  <2> QED BY <1>1, <1>2, <1>5, <2>1, SameQueued DEF Ready, Nested
<1>7. Counted'
  <2>1. Waiting' = Waiting
    BY <1>2, <1>4, SameWaiting DEF InFrame, Busy, InProgram
  <2> QED BY <1>4, <2>1, SameCount DEF Ready, Nested
<1>8. Started'
  BY <1>2, SameStarted DEF Ready, Nested
<1>9. AtHead'
  <2>1. /\ ~HeadIn(Pushing)' /\ ~HeadIn({"evalNextTx"})' /\ HeadIn(Staging \cup Pushing)'
        /\ ~HeadIn({"evalTxGroup"})' /\ ~HeadIn({"pushTxnBack", "setupTransactions"})'
        /\ ~HeadIn({"pushTxnFront"})' /\ ~HeadIn({"loadInputPgm", "fetchOpcode"})'
        /\ ~HeadIn({"checkSufficientBalance"})' /\ HeadIn(Busy) /\ HeadIn(Staging)
    BY <1>2, <1>4 DEF HeadIn, Next1, Pushing, Staging, Busy, InProgram
  <2>2. Current' = Current /\ Suspended' = Suspended
    BY <1>2 DEF Same, Current, Suspended
  <2>3. BusyFront'
    BY <1>2, <2>1, <2>2 DEF Ready, Nested, AtHead, BusyFront, Same
  <2>4. StagedFresh'
    BY <1>1, <1>2, <1>5, <2>1, <2>2 DEF Ready, Nested, AtHead, StagedFresh, StagedBy, GroupOf, Context, Same
  <2>5. Submitting'
    BY <1>1, <1>2, <1>5 DEF Submitting
  <2>6. returncode' = STUCK
    BY <1>2, HeadTells
  <2> QED BY <2>1, <2>3, <2>4, <2>5, <2>6 DEF AtHead, NextInLine, StagedWhere, Submitter, Pushed, RunningOwn, Verdicts
<1> QED BY <1>4, <1>6, <1>7, <1>8, <1>9 DEF Nested

-----------------------------------------------------------------------------
\* The program that submitted the group is suspended.
LEMMA SaveNest ==
  ASSUME Ready, ExecuteItxnGroup
  PROVE  Nested'
<1>1. PICK e, x, n : e = currentTxnExecution /\ x = currentTx /\ n = nextGroupID
  OBVIOUS
<1> DEFINE c == Cmd("pushItxns")
           d == Cmd("evalTxGroup")
<1>2. /\ Next1("executeItxnGroup") /\ Become(<<c, d>>)
      /\ UNCHANGED <<returncode, deque, currentTx, nextGroupID, innerTransactions, currentTxnExecution>>
      /\ transactions' = [transactions EXCEPT ![x].context = e]
  BY <1>1 DEF ExecuteItxnGroup, queue, teal
<1>3. c \in Command /\ c.name = "pushItxns" /\ d \in Command /\ d.name = "evalTxGroup"
  BY CmdType DEF CommandNames
<1> HIDE DEF c, d
<1>4. Frames' /\ Pops' = Pops /\ k' # <<>> /\ Head(k').name = "pushItxns"
  BY <1>2, <1>3, FramesTwo DEF Ready, IInv, Nested, Finals, Framed, InFrame, Busy, InProgram, Posts
<1>5. HeadIn({"checkItxns", "executeItxnGroup"}) /\ HeadIn(Staging) /\ HeadIn(Busy) /\ HeadIn(InFrame)
      /\ HeadIn(Executing \ {"executeTxn"})
  BY <1>2 DEF HeadIn, Next1, Staging, InFrame, Busy, InProgram, Executing
<1>6. /\ innerTransactions # <<>> /\ e.lastGroup = n
      /\ \A t \in DOMAIN transactions : transactions[t].group # n
      /\ \A t \in Suspended : transactions[t].context.lastGroup # n
      /\ StagedBy(e.app)
  BY <1>1, <1>5 DEF Ready, Nested, AtHead, Submitting, StagedFresh, GroupOf, Context
<1>7. /\ deque # <<>> /\ deque[1] = x /\ x \in DOMAIN transactions /\ x \notin Suspended
      /\ transactions[x] \in Transaction /\ 1 \in 1..Len(deque)
  BY <1>1, <1>5 DEF Ready, Nested, AtHead, BusyFront, IInv, TxnsOK, QueueOK
<1>8. e # NoContext
  BY <1>1, <1>5 DEF Ready, Flow, ResumeInv, SubmitHasGroup, NoContext
<1>9. /\ DOMAIN transactions' = DOMAIN transactions
      /\ transactions'[x] = [transactions[x] EXCEPT !.context = e]
      /\ \A t \in DOMAIN transactions : t # x => transactions'[t] = transactions[t]
  BY <1>2, <1>7
<1>10. /\ \A t \in DOMAIN transactions : /\ transactions'[t].group = transactions[t].group
                                         /\ transactions'[t].sender = transactions[t].sender
                                         /\ transactions'[t].type = transactions[t].type
                                         /\ transactions'[t].resume = transactions[t].resume
       /\ transactions'[x].context = e
  BY <1>7, <1>9 DEF Transaction
<1>11. /\ Suspended' = Suspended \cup {x}
       /\ \A t \in Suspended : t # x /\ t \in DOMAIN transactions
                               /\ transactions'[t].context = transactions[t].context
  <2>1. \A t \in Suspended : t # x /\ t \in DOMAIN transactions
    BY <1>7 DEF Suspended
  <2>2. \A t \in DOMAIN transactions : t # x => transactions'[t].context = transactions[t].context
    BY <1>9
  <2>3. Suspended' = Suspended \cup {x}
    BY <1>7, <1>8, <1>9, <1>10, <2>2 DEF Suspended
  <2> QED BY <2>1, <2>2, <2>3
<1>12. /\ \A i \in 1..Len(deque) : deque[i] \in DOMAIN transactions
       /\ \A i \in 2..Len(deque) : i \in 1..Len(deque) /\ i - 1 \in 1..Len(deque) /\ deque[i] # x
  <2>1. \A i \in 2..Len(deque) : i \in 1..Len(deque) /\ i - 1 \in 1..Len(deque) /\ i # 1
    BY DEF Ready, IInv, QueueOK
  <2> QED BY <1>7, <2>1 DEF Ready, IInv, QueueOK, DequeInv
<1>13. Queued'
  <2>1. Line'
    <3>1. \A t \in Suspended' : Scheduled(t)'
      BY <1>2, <1>7, <1>11 DEF Ready, Nested, Queued, Line, Scheduled
    <3>2. \A i \in 2..Len(deque) : deque[i] \in Suspended' <=>
            (transactions'[deque[i]].group # transactions'[deque[i - 1]].group)
      BY <1>10, <1>11, <1>12 DEF Ready, Nested, Queued, Line, GroupOf
    <3> QED BY <1>2, <3>1, <3>2 DEF Line, GroupOf
  <2>2. GroupIds'
    <3>1. e.lastGroup <= n
      BY <1>1 DEF Ready, Nested, Queued, GroupIds
    <3> QED BY <1>1, <1>2, <1>9, <1>10, <1>11, <3>1 DEF Ready, Nested, Queued, GroupIds, GroupOf, Context
  <2>3. ContextOwn'
    <3>1. ASSUME NEW s \in Suspended', NEW t \in DOMAIN transactions,
                 transactions'[t].group = transactions'[s].context.lastGroup
          PROVE  transactions'[t].sender = AppAddress(transactions'[s].context.app)
      <4>1. CASE s = x
        BY <1>6, <1>10, <3>1, <4>1
      <4>2. CASE s \in Suspended
        <5>1. transactions[t].group = transactions[s].context.lastGroup
          BY <1>10, <1>11, <3>1, <4>2
        <5>2. transactions[t].sender = AppAddress(transactions[s].context.app)
          BY <4>2, <5>1 DEF Ready, Nested, Queued, ContextOwn, GroupOf, Context
        <5> QED BY <1>10, <1>11, <4>2, <5>2
      <4> QED BY <1>11, <4>1, <4>2
    <3> QED BY <1>9, <3>1 DEF ContextOwn, GroupOf, Context
  <2>4. ContextAhead'
    BY <1>2, <1>6, <1>10, <1>11, <1>12 DEF Ready, Nested, Queued, ContextAhead, GroupOf, Context
  <2> QED BY <2>1, <2>2, <2>3, <2>4 DEF Queued
<1>14. Counted'
  <2>1. ~HeadIn(InFrame)'
    BY <1>4 DEF HeadIn, InFrame, Busy, InProgram, Posts
  <2>2. Waiting' = Waiting
    BY <1>5, <1>7, <1>11, <2>1 DEF Waiting
  <2> QED BY <1>4, <2>2, SameCount DEF Ready, Nested
<1>15. Started'
  <2>1. ~HeadIn({"pushTxnBack", "pushTxnFront"}) /\ \A t : Scheduled(t)' = Scheduled(t)
    BY <1>2 DEF HeadIn, Next1, Scheduled
  <2> QED BY <1>9, <1>10, <2>1 DEF Ready, Nested, Started
<1>16. AtHead'
  <2>1. ~HeadIn(Busy)' /\ ~HeadIn(Staging)' /\ HeadIn(Staging \cup Pushing)' /\ ~HeadIn({"evalNextTx"})'
        /\ ~HeadIn({"evalTxGroup"})' /\ ~HeadIn({"pushTxnBack", "setupTransactions"})'
        /\ ~HeadIn({"checkItxns", "executeItxnGroup"})' /\ ~HeadIn({"pushTxnFront"})'
        /\ ~HeadIn({"loadInputPgm", "fetchOpcode"})' /\ ~HeadIn({"checkSufficientBalance"})'
    BY <1>4 DEF HeadIn, Busy, InProgram, Posts, Staging, Pushing
  <2>2. Submitter'
    <3>1. StagedBy(Context(currentTx).app)'
      BY <1>1, <1>2, <1>6, <1>10 DEF StagedBy, Context
    <3>2. /\ currentTx' = x /\ x \in Suspended' /\ transactions'[x].context.lastGroup = n /\ n = nextGroupID'
          /\ \A t \in Suspended' : t # x => transactions'[t].context.lastGroup # n
      BY <1>1, <1>2, <1>6, <1>10, <1>11
    <3>3. /\ deque' # <<>> /\ deque'[1] = x /\ transactions'[x].group # n /\ innerTransactions' # <<>>
      BY <1>2, <1>6, <1>7, <1>10
    <3> QED BY <3>1, <3>2, <3>3 DEF Submitter, GroupOf, Context
  <2>3. returncode' = STUCK
    BY <1>2, HeadTells
  <2> QED BY <2>1, <2>2, <2>3 DEF AtHead, BusyFront, NextInLine, StagedWhere, StagedFresh, Submitting, Pushed, RunningOwn, Verdicts
<1> QED BY <1>4, <1>13, <1>14, <1>15, <1>16 DEF Nested

\* The staged transactions are pushed, the last one first.
LEMMA PushInnerNest ==
  ASSUME Ready, PushItxns
  PROVE  Nested'
<1>1. PICK s, x, n : s = innerTransactions /\ x = currentTx /\ n = nextGroupID
  OBVIOUS
<1> DEFINE t == s[Len(s)]
           c == CmdOf("pushTxnFront", nextTxnID)
           d == Cmd("pushItxns")
<1>2. /\ Next1("pushItxns") /\ s # <<>> /\ Become(<<c, d>>) /\ transactions' = WithTransaction(t)
      /\ innerTransactions' = SubSeq(s, 1, Len(s) - 1)
      /\ UNCHANGED <<returncode, nextGroupID, deque, currentTx, currentTxnExecution>>
  BY <1>1 DEF PushItxns, queue
<1>3. /\ s \in Seq(Transaction) /\ Len(s) \in 1..Len(s)
      /\ \A i \in 1..Len(innerTransactions') : i \in 1..Len(s) /\ innerTransactions'[i] = s[i]
  <2>1. s \in Seq(Transaction)
    BY <1>1 DEF Ready, IInv, DataOK
  <2> QED BY <1>2, <2>1
<1>4. HeadIn(Pushing)
  BY <1>2 DEF HeadIn, Next1, Pushing
<1>5. /\ x \in Suspended /\ Context(x).lastGroup = n
      /\ \A u \in Suspended : u # x => Context(u).lastGroup # n
      /\ \A i \in 1..Len(s) : s[i].group = n /\ s[i].sender = AppAddress(Context(x).app)
      /\ deque # <<>>
      /\ \/ deque[1] = x /\ GroupOf(x) # n
         \/ deque[1] \notin Suspended /\ GroupOf(deque[1]) = n
  BY <1>1, <1>4 DEF Ready, Nested, AtHead, Submitter, StagedBy
<1>6. /\ t \in Transaction /\ t.context = NoContext /\ t.group = n
      /\ t.sender = AppAddress(Context(x).app)
  BY <1>1, <1>3, <1>5 DEF Ready, Calls, CallInv
<1>7. /\ c \in Command /\ c.name = "pushTxnFront" /\ c.arg = nextTxnID
      /\ d \in Command /\ d.name = "pushItxns" /\ nextTxnID \in Nat /\ n \in Int
  <2>1. nextTxnID \in Nat /\ n \in Int
    BY <1>1 DEF Ready, IInv, TxnsOK, DataOK
  <2> QED BY <2>1, CmdType DEF CommandNames
<1> HIDE DEF t, c, d
<1>8. Frames' /\ Pops' = Pops /\ k' # <<>> /\ Head(k') = c
  BY <1>2, <1>7, FramesTwo DEF Ready, IInv, Nested, Finals, Framed, InFrame, Busy, InProgram, Posts
<1>9. /\ Queued' /\ Suspended' = Suspended
      /\ \A u \in DOMAIN transactions : GroupOf(u)' = GroupOf(u) /\ Context(u)' = Context(u)
      /\ transactions'[nextTxnID].group = n
  <2>1. t.group <= nextGroupID
    BY <1>1, <1>6, <1>7
  <2>2. \A u \in Suspended : Context(u).lastGroup = t.group => t.sender = AppAddress(Context(u).app)
    BY <1>5, <1>6
  <2> QED BY <1>2, <1>6, <2>1, <2>2, NewQueued DEF Ready, Nested
<1>10. Started'
  BY <1>2, <1>6, <1>7, <1>8, NewStarted DEF Ready, Nested, Arg
<1>11. Counted'
  <2>1. ~HeadIn(InFrame) /\ ~HeadIn(InFrame)'
    BY <1>2, <1>7, <1>8 DEF HeadIn, Next1, InFrame, Busy, InProgram, Posts
  <2>2. Waiting' = Waiting
    BY <1>9, <2>1 DEF Waiting
  <2> QED BY <1>8, <2>2, SameCount DEF Ready, Nested
<1>12. /\ x \in DOMAIN transactions /\ deque[1] \in DOMAIN transactions /\ nextTxnID \notin Suspended
       /\ \A u \in Suspended : u \in DOMAIN transactions
  <2>1. 1 \in 1..Len(deque)
    BY <1>5 DEF Ready, IInv, QueueOK
  <2>2. deque[1] \in DOMAIN transactions
    BY <2>1 DEF Ready, IInv, QueueOK, DequeInv
  <2>3. nextTxnID \notin DOMAIN transactions
    BY <1>2, <1>6, OldTransactions DEF Ready
  <2> QED BY <1>5, <2>2, <2>3 DEF Suspended
<1>13. AtHead'
  <2>1. /\ ~HeadIn(Busy)' /\ ~HeadIn(Staging)' /\ HeadIn(Staging \cup Pushing)' /\ ~HeadIn({"evalNextTx"})'
        /\ ~HeadIn({"evalTxGroup"})' /\ ~HeadIn({"pushTxnBack", "setupTransactions"})'
        /\ ~HeadIn({"checkItxns", "executeItxnGroup"})' /\ HeadIn({"pushTxnFront"})'
        /\ ~HeadIn({"loadInputPgm", "fetchOpcode"})' /\ ~HeadIn({"checkSufficientBalance"})'
    BY <1>7, <1>8 DEF HeadIn, Busy, InProgram, Posts, Staging, Pushing
  <2>2. Submitter'
    <3>1. /\ transactions'[x].group = GroupOf(x) /\ transactions'[x].context = Context(x)
          /\ transactions'[deque[1]].group = GroupOf(deque[1])
          /\ \A u \in Suspended : transactions'[u].context = Context(u)
      BY <1>9, <1>12 DEF GroupOf, Context
    <3>2. StagedBy(Context(currentTx).app)'
      BY <1>1, <1>2, <1>3, <1>5, <3>1 DEF StagedBy, Context
    <3> QED BY <1>1, <1>2, <1>5, <1>9, <2>1, <3>1, <3>2 DEF Submitter, GroupOf, Context
  <2>3. Pushed'
    BY <1>1, <1>2, <1>7, <1>8, <1>9, <1>12 DEF Pushed, Arg, GroupOf
  <2>4. returncode' = STUCK
    BY <1>2, HeadTells
  <2> QED BY <2>1, <2>2, <2>3, <2>4 DEF AtHead, BusyFront, NextInLine, StagedWhere, StagedFresh, Submitting, RunningOwn, Verdicts
<1> QED BY <1>8, <1>9, <1>10, <1>11, <1>13 DEF Nested

\* The inner group is evaluated next.
LEMMA PushedNest ==
  ASSUME Ready, Going', PushItxnsDone
  PROVE  Nested'
<1>1. /\ Next1("pushItxns") /\ innerTransactions = <<>> /\ Done /\ Unmoved
      /\ UNCHANGED <<innerTransactions, nextGroupID, returncode, currentTxnExecution>>
  BY DEF PushItxnsDone, Unmoved, txns, queue, teal
<1>2. k' # <<>> /\ Head(k').name = "evalTxGroup"
  BY <1>1, NextHead, MayAfter DEF Ready, Flow
<1>3. Frames' /\ Pops' = Pops
  BY <1>1, <1>2, FramesDone DEF Ready, IInv, Nested
<1>4. Counted'
  <2>1. Waiting' = Waiting
    BY <1>1, <1>2, SameWaiting DEF InFrame, Busy, InProgram, Posts
  <2> QED BY <1>3, <2>1, SameCount DEF Ready, Nested
<1>5. Queued'
  BY <1>1, SameQueued DEF Ready, IInv, DataOK, Nested, Queued, GroupIds
<1>6. Started'
  BY <1>1, SameStarted DEF Ready, Nested
<1>7. AtHead'
  <2>1. deque[1] \notin Suspended
    <3>1. HeadIn(Pushing) /\ ~HeadIn({"pushTxnFront"})
      BY <1>1 DEF HeadIn, Next1, Pushing
    <3> QED BY <1>1, <3>1 DEF Ready, Nested, AtHead, Submitter
  <2>2. NextInLine'
    BY <1>1, <1>2, <2>1, SameSuspended DEF NextInLine, HeadIn, Unmoved
  <2>3. innerTransactions' = <<>> /\ returncode' = STUCK
    BY <1>1, HeadTells
  <2>4. "evalTxGroup" \notin Busy \cup Pushing \cup {"checkSufficientBalance"}
    BY DEF Busy, InProgram, Posts, Pushing
  <2> QED BY <1>2, <2>2, <2>3, <2>4, PlainHead
<1> QED BY <1>3, <1>4, <1>5, <1>6, <1>7 DEF Nested

-----------------------------------------------------------------------------
(* Every step.                                                              *)
\* After a panic or the verdict a stage is only stopped or checked,
LEMMA OverActions ==
  ASSUME Next, HeadIn(Over)
  PROVE  CheckExecutionResults \/ StopIfError
<1>1. k # <<>> /\ Head(k).name \in {"stopIfError", "checkExecutionResults"}
  BY DEF HeadIn, Over
<1>2. Driver => CheckExecutionResults
  BY <1>1 DEF Driver, SetupAccount, SetupAccountsDone, SetupCounters, ReadExecutionStages,
              AddTxnJSON, SetupTransactionsDone, Next1
<1>3. ~Deque /\ ~Group
  BY <1>1 DEF Deque, PushTxnBack, PushTxnFront, GetNextTxn, PopTxnFront,
              Group, EvalTxGroup, EvalNextTx, GroupAccepted, CheckSufficientBalance, Next1
<1>4. ~Txn
  BY <1>1 DEF Txn, EvalNonAppl, EvalApplFirst, EvalApplResume, ExecuteNonAppl, CreateApplication,
              CallApplication, IsApplCall, ExecuteAppl, ClearState, UpdatePrograms,
              DeleteApplication, Next1
<1>5. ~Teal
  BY <1>1 DEF Teal, InitApp, InitAppError, LoadInputPgm, OpPlain, OpPanic, ItxnBegin, ItxnNext,
              CanStage, ItxnField, ItxnSubmit, EndProgram, FetchStopped, FinalizeExecution,
              Running, Next1
<1>6. ~Inner
  BY <1>1 DEF Inner, CheckItxn, CheckItxnsDone, ExecuteItxnGroup, PushItxns, PushItxnsDone, Next1
<1> QED BY <1>2, <1>3, <1>4, <1>5, <1>6 DEF Next

\* and what is behind goes no further.
LEMMA OverStays ==
  ASSUME IInv, Flow, SetupGoesOn, CheckExecutionResults \/ StopIfError
  PROVE  ~Going'
<1>1. CASE CheckExecutionResults
  <2>1. Next1("checkExecutionResults") /\ Done
    BY <1>1 DEF CheckExecutionResults
  <2>2. SUFFICES ASSUME Going' PROVE FALSE
    OBVIOUS
  <2>3. k' # <<>> /\ Head(k').name \notin Over /\ May("checkExecutionResults", Head(k').name)
    BY <2>1, <2>2, NextHead DEF Flow
  <2> QED BY <2>3, MayAfter DEF Over
<1>2. CASE StopIfError
  <2>1. /\ k # <<>> /\ 1 \in 1..Len(k) /\ k[1].name = "stopIfError"
    <3>1. k \in Seq(Command) /\ k # <<>> /\ k[1].name = "stopIfError"
      BY <1>2, StopSeq DEF IInv
    <3> QED BY <3>1
  <2>2. ~SettingUp
    BY <2>1 DEF SetupGoesOn
  <2>3. k' # <<>> => Head(k').name = "stopIfError" \/ Head(k').name = "checkExecutionResults"
    BY <1>2, <2>2, StopHeads DEF Flow, TestingCommands
  <2> QED BY <2>3 DEF Going, HeadIn, Over
<1> QED BY <1>1, <1>2

\* All steps outside programs,
LEMMA NestSteps ==
  ASSUME Disciplined, SubmittedTogether, Ready, Going', Driver \/ Deque \/ Group \/ Txn \/ Inner,
         ~CheckExecutionResults
  PROVE  Nested'
<1>1. CASE Driver
  BY <1>1, SetupNest, StageNest, AddNest, AddedNest DEF Driver
<1>2. CASE Deque
  BY <1>2, PushBackNest, PushFrontNest, GetNest, PopNest DEF Deque
<1>3. CASE Group
  BY <1>3, EvalGroupNest, EvalNextNest, AcceptedNest, BalanceNest DEF Group
<1>4. CASE Txn
  BY <1>4, EvalNest, ResumeNest, TxnQuiet DEF Txn
<1>5. CASE Inner
  BY <1>5, CheckNest, SaveNest, PushInnerNest, PushedNest DEF Inner
<1> QED BY <1>1, <1>2, <1>3, <1>4, <1>5

\* and those of programs: nothing panics where the run goes on.
LEMMA NestTeal ==
  ASSUME Disciplined, Ready, Going', Teal
  PROVE  Nested'
<1>1. CASE InitApp
  BY <1>1, InitAppNest
<1>2. CASE LoadInputPgm \/ OpPlain \/ EndProgram \/ FinalizeExecution
  BY <1>2, TealQuiet
<1>3. CASE ItxnBegin \/ ItxnNext \/ ItxnField
  BY <1>3, ItxnNest
<1>4. CASE ItxnSubmit
  BY <1>4, SubmitNest
<1>5. ~InitAppError /\ ~OpPanic
  <2>1. InitAppError => Next1("initApp") /\ Panic(APP_ALREADY_ACTIVE)
    BY DEF InitAppError
  <2>2. OpPanic => Next1("fetchOpcode") /\ Panic(ERR_OPCODE)
    BY DEF OpPanic, Running
  <2>3. ~(InitAppError \/ OpPanic)
    <3>1. SUFFICES ASSUME NEW h, Next1(h), NEW code, Panic(code) PROVE FALSE
      BY <2>1, <2>2
    <3> QED BY <3>1, PanicHead DEF Going, HeadIn, Over, Ready
  <2> QED BY <2>3
<1>6. ~FetchStopped
  <2>1. SUFFICES ASSUME FetchStopped PROVE FALSE
    OBVIOUS
  <2>2. Next1("fetchOpcode") /\ returncode # STUCK
    BY <2>1 DEF FetchStopped
  <2> QED BY <2>2, HeadTells
<1> QED BY <1>1, <1>2, <1>3, <1>4, <1>5, <1>6 DEF Teal

\* A run that goes on after a step was nested before it.
LEMMA NestingStep ==
  ASSUME Disciplined, SubmittedTogether, IInv, Flow, Calls, SetupGoesOn, Nesting, [Next]_vars
  PROVE  Nesting'
<1>1. SUFFICES ASSUME Going' PROVE Nested'
  BY DEF Nesting
<1>2. CASE UNCHANGED vars
  <2>1. Going
    BY <1>1, <1>2 DEF Going, HeadIn, vars
  <2>2. UNCHANGED <<k, transactions, deque, currentTx, innerTransactions, nextGroupID, returncode,
                    activeApps, currentTxnExecution>>
    BY <1>2 DEF vars, txns, queue, teal
  <2> QED BY <2>1, <2>2, IdleNest DEF Nesting
<1>3. CASE Next
  <2>1. ~CheckExecutionResults /\ ~StopIfError
    BY <1>1, OverStays
  <2>2. ~HeadIn(Over)
    BY <1>3, <2>1, OverActions
  <2>3. k # <<>>
    BY <1>3, <2>1, NotStopping DEF Next
  <2>4. Ready
    BY <2>2, <2>3 DEF Going, Nesting, Ready
  <2> QED BY <1>1, <1>3, <2>1, <2>4, NestSteps, NestTeal DEF Next
<1> QED BY <1>2, <1>3

\* The set-up is on <k>, and nothing is scheduled.
LEMMA InitNesting == Init => Nesting
<1> SUFFICES ASSUME Init PROVE Nested
  BY DEF Nesting
<1>1. /\ k \in Seq(Command) /\ Len(k) = 3 /\ k # <<>> /\ Head(k) = k[1]
      /\ k[1].name = "setupAccounts" /\ k[2].name = "setupCounters" /\ k[3].name = "readExecutionStages"
  BY InitK
<1>2. \A i \in 1..Len(k) : k[i].name \in SetupNames
  BY InitK
<1>3. \A i \in 1..Len(k) : Below(k, i) \in SetupNames
  <2>1. \A i \in 1..Len(k) : Len(k) + 1 - i \in 1..Len(k)
    BY <1>1
  <2> QED BY <1>2, <2>1 DEF Below
<1>4. Pops = {}
  BY <1>3 DEF Pops, PopsOf, SetupNames
<1>5. Frames
  <2>1. NoStop /\ CheckPlain
    BY <1>2 DEF NoStop, CheckPlain, SetupNames
  <2>2. PopBehind
    BY <1>3 DEF PopBehind, Framed, InFrame, Busy, InProgram, Posts, SetupNames
  <2>3. EndsFinal
    BY <1>1 DEF EndsFinal, Finals
  <2> QED BY <2>1, <2>2, <2>3 DEF Frames
<1>6. Suspended = {} /\ DOMAIN transactions = {} /\ Len(deque) = 0 /\ deque = <<>>
  BY DEF Init, Suspended
<1>7. Counted
  <2>1. ~HeadIn(InFrame)
    BY <1>1 DEF HeadIn, InFrame, Busy, InProgram, Posts
  <2>2. Waiting = {}
    BY <1>6, <2>1 DEF Waiting
  <2> QED BY <1>4, <2>2 DEF Counted
<1>8. Queued
  <2>1. 1..Len(deque) = {} /\ 2..Len(deque) = {}
    BY <1>6
  <2>2. GroupIds
    BY <1>6 DEF Init, GroupIds, NoContext, NoGroup
  <2>3. Line /\ ContextOwn /\ ContextAhead
    BY <1>6, <2>1 DEF Line, ContextOwn, ContextAhead
  <2> QED BY <2>2, <2>3 DEF Queued
<1>9. Started
  BY <1>6 DEF Started
<1>10. AtHead
  <2>1. /\ ~HeadIn(Busy) /\ ~HeadIn(Staging) /\ ~HeadIn(Pushing) /\ ~HeadIn({"evalNextTx"})
        /\ ~HeadIn({"evalTxGroup"}) /\ ~HeadIn({"pushTxnBack", "setupTransactions"})
        /\ ~HeadIn({"checkItxns", "executeItxnGroup"}) /\ ~HeadIn({"pushTxnFront"})
        /\ ~HeadIn({"loadInputPgm", "fetchOpcode"}) /\ ~HeadIn({"checkSufficientBalance"})
    BY <1>1 DEF HeadIn, Busy, InProgram, Posts, Staging, Pushing
  <2>2. innerTransactions = <<>> /\ returncode = STUCK
    BY DEF Init
  <2> QED BY <2>1, <2>2 DEF AtHead, BusyFront, NextInLine, StagedWhere, StagedFresh, Submitting,
                            Submitter, Pushed, RunningOwn, Verdicts
<1> QED BY <1>5, <1>7, <1>8, <1>9, <1>10 DEF Nested

-----------------------------------------------------------------------------
\* No panic in the set-up has let the run go on with its code.
SoundSetup == WellFormedSetup \/ returncode = STUCK
\* What every step keeps.
NestingInv == IInv /\ Flow /\ Calls /\ (SoundSetup => SetupGoesOn /\ Nesting)

\* Nothing sets the code back to the one a run begins with.
LEMMA CodeIsLost ==
  ASSUME [Next]_vars, returncode' = STUCK
  PROVE  returncode = STUCK
<1> USE DEF Panic, STUCK, SUCCESS, ZERO_STACK, BAD_STACK, INVALID_JSON, ERR_OPCODE, TXN_INVALID,
            DUPLICATE_LABEL, ITXN_REENTRY, INSUFFICIENT_FUNDS, TXN_DEQUE_ERROR,
            MIN_BALANCE_VIOLATION, APP_ALREADY_ACTIVE, MISMATCH
<1>1. CASE Driver
  <2>1. CASE SetupAccount
    <3>1. returncode' \in {returncode, INVALID_JSON}
      BY <2>1 DEF SetupAccount, ReadAccount, MalformedAccount
    <3> QED BY <3>1
  <2>2. CASE CheckExecutionResults
    <3>1. returncode' \in {SUCCESS, MISMATCH}
      BY <2>2 DEF CheckExecutionResults
    <3> QED BY <3>1
  <2> QED BY <1>1, <2>1, <2>2 DEF Driver, SetupAccountsDone, SetupCounters, ReadExecutionStages,
                                  AddTxnJSON, SetupTransactionsDone
<1>2. CASE Deque
  BY <1>2 DEF Deque, PushTxnBack, PushTxnFront, Schedule, GetNextTxn, PopTxnFront
<1>3. CASE Group
  BY <1>3 DEF Group, EvalTxGroup, EvalNextTx, GroupAccepted, CheckSufficientBalance
<1>4. CASE Txn
  BY <1>4 DEF Txn, EvalNonAppl, EvalApplFirst, EvalApplResume, ExecuteNonAppl, CreateApplication,
              CallApplication, IsApplCall, ExecuteAppl, ClearState, UpdatePrograms, DeleteApplication
<1>5. CASE Teal
  BY <1>5 DEF Teal, InitApp, InitAppError, LoadInputPgm, OpPlain, OpPanic, ItxnBegin, ItxnNext,
              ItxnField, ItxnSubmit, EndProgram, FetchStopped, FinalizeExecution
<1>6. CASE Inner
  BY <1>6 DEF Inner, CheckItxn, CheckItxnsDone, ExecuteItxnGroup, PushItxns, PushItxnsDone
<1>7. CASE StopIfError \/ UNCHANGED vars
  BY <1>7 DEF StopIfError, vars
<1> QED BY <1>1, <1>2, <1>3, <1>4, <1>5, <1>6, <1>7 DEF Next

\* The nesting is an invariant of runs of disciplined programs on one group.
LEMMA NestingInvariance ==
  ASSUME Disciplined, SubmittedTogether
  PROVE  Spec => []NestingInv
<1>1. Init => NestingInv
  BY InitIInv, InitFlow, InitCalls, InitSetupGoesOn, InitNesting DEF NestingInv
<1>2. NestingInv /\ [Next]_vars => NestingInv'
  <2> SUFFICES ASSUME NestingInv, [Next]_vars PROVE NestingInv'
    OBVIOUS
  <2>1. IInv' /\ Flow' /\ Calls'
    BY NextIInv, NextFlow, NextCalls DEF NestingInv
  <2>2. ASSUME SoundSetup' PROVE SetupGoesOn' /\ Nesting'
    <3>1. WellFormedSetup \/ returncode' = STUCK
      BY <2>2 DEF SoundSetup, WellFormedSetup
    <3>2. SetupGoesOn /\ Nesting
      BY <3>1, CodeIsLost DEF NestingInv, SoundSetup
    <3>3. SetupGoesOn'
      BY <3>1, <3>2, SetupGoesOnStep DEF NestingInv, Flow
    <3> QED BY <3>2, <3>3, NestingStep DEF NestingInv
  <2> QED BY <2>1, <2>2 DEF NestingInv
<1> QED BY <1>1, <1>2, PTL DEF Spec

\* What #popTxnFront takes off the deque is the transaction just executed (PopsCurrent):
\* the nesting of inner groups survives in one deque and one continuation.
THEOREM PopsAreCurrent ==
  ASSUME Disciplined, WellFormedSetup, SubmittedTogether
  PROVE  Spec => []PopsCurrent
<1>1. NestingInv => PopsCurrent
  <2> SUFFICES ASSUME NestingInv, Next1("popTxnFront")
               PROVE  deque # <<>> /\ Head(deque) = currentTx /\ currentTx \notin Suspended
    BY DEF PopsCurrent
  <2>1. Going /\ HeadIn(Busy)
    BY DEF Next1, Going, HeadIn, Over, Busy
  <2>2. deque # <<>> /\ deque[1] = currentTx /\ currentTx \notin Suspended
    BY <2>1 DEF NestingInv, SoundSetup, Nesting, Nested, AtHead, BusyFront
  <2> QED BY <2>2 DEF NestingInv, IInv, QueueOK
<1> QED BY <1>1, NestingInvariance, PTL

\* The last group of the program that runs is one this program submitted, and all of
\* it has been executed (LastGroupIsOwn).
THEOREM LastGroupsAreOwn ==
  ASSUME Disciplined, SubmittedTogether
  PROVE  Spec => []LastGroupIsOwn
<1>1. NestingInv => LastGroupIsOwn
  <2> SUFFICES ASSUME NestingInv, Running, currentTxnExecution.lastGroup # NoGroup,
                      NEW t \in DOMAIN transactions,
                      transactions[t].group = currentTxnExecution.lastGroup
               PROVE  /\ transactions[t].sender = AppAddress(currentTxnExecution.app)
                      /\ \A i \in 1..Len(deque) : deque[i] # t
    BY DEF LastGroupIsOwn
  <2>1. Going /\ HeadIn({"loadInputPgm", "fetchOpcode"})
    BY DEF Running, Next1, Going, HeadIn, Over
  <2>2. SoundSetup
    BY DEF Running, SoundSetup
  <2> QED BY <2>1, <2>2 DEF NestingInv, Nesting, Nested, AtHead, RunningOwn, GroupOf, Scheduled
<1> QED BY <1>1, NestingInvariance, PTL

\* When minimum balances are checked all groups are done, and the verdict is next
\* (BalanceCheckIsLast).
THEOREM BalancesAreLast ==
  ASSUME Disciplined, WellFormedSetup, SubmittedTogether
  PROVE  Spec => []BalanceCheckIsLast
<1>1. NestingInv => BalanceCheckIsLast
  <2> SUFFICES ASSUME NestingInv, Next1("checkSufficientBalance")
               PROVE  /\ Tail(k) = <<Cmd("checkExecutionResults")>>
                      /\ deque = <<>> /\ innerTransactions = <<>>
                      /\ Suspended = {} /\ activeApps = {}
                      /\ \A t \in DOMAIN transactions : transactions[t].type = "appl" => transactions[t].resume
    BY DEF BalanceCheckIsLast
  <2>1. /\ Going /\ HeadIn({"checkSufficientBalance"}) /\ ~HeadIn(Staging \cup Pushing)
        /\ ~HeadIn({"pushTxnBack", "pushTxnFront"})
    BY DEF Next1, Going, HeadIn, Over, Staging, Pushing
  <2>2. Ready
    BY <2>1 DEF NestingInv, SoundSetup, Nesting, Ready
  <2>3. Tail(k) = <<Cmd("checkExecutionResults")>>
    BY <2>2, BalanceLast
  <2>4. deque = <<>>
    BY <2>1, <2>2 DEF Ready, Flow, ResumeInv, FrontEvaluated
  <2>5. innerTransactions = <<>> /\ Suspended = {} /\ activeApps = {}
    BY <2>1, <2>2 DEF Ready, Nested, AtHead, StagedWhere, Verdicts
  <2>6. \A t : ~Scheduled(t)
    <3>1. 1..Len(deque) = {}
      BY <2>4
    <3> QED BY <3>1 DEF Scheduled
  <2>7. \A t \in DOMAIN transactions : transactions[t].type = "appl" => transactions[t].resume
    <3>1. ASSUME NEW t \in DOMAIN transactions, transactions[t].type = "appl" PROVE transactions[t].resume
      <4>1. transactions[t].type = "appl" /\ ~transactions[t].resume => Scheduled(t)
        BY <2>1, <2>2 DEF Ready, Nested, Started
      <4> QED BY <2>6, <3>1, <4>1
    <3> QED BY <3>1
  <2> QED BY <2>3, <2>4, <2>5, <2>7
<1> QED BY <1>1, NestingInvariance, PTL
=============================================================================
