---------------------------- MODULE AvmExecution ----------------------------
(***************************************************************************)
(* The transaction pipeline of the K semantics: the <k> continuation, the  *)
(* transaction deque, the call stack of applications and inner             *)
(* transaction groups, panics, and the scenario driver that starts a run   *)
(* and checks its return code.                                             *)
(*                                                                         *)
(* <k> is modelled as it is in the semantics: a sequence of commands whose *)
(* head is rewritten by the next step.  A run is sequential; what varies   *)
(* is the submitted group, the TEAL programs (any opcode may come next)    *)
(* and the outcome of ledger operations.  A command no rule matches leaves *)
(* the run stuck: no action is enabled and returncode keeps its value.     *)
(*                                                                         *)
(* #startTx, #endTx, #checkTxnSignature, #initTxnIndexMap and #initGlobals *)
(* change nothing that is modelled here and are left out of <k>.           *)
(***************************************************************************)
EXTENDS Integers, Sequences

CONSTANTS
  Setup,          \* the "setup-network" stage: a sequence of account objects
  OuterGroups,    \* the "grp" of each submitted transaction, in order
  OuterPayloads,  \* what a submitted transaction may be
  InnerPayloads,  \* what itxn_field may turn a staged transaction into
  Expected,       \* "expected-returncode"
  Disciplined,    \* TRUE: TEAL programs pair itxn_begin with itxn_submit
  MaxTxns,        \* bound: transactions in a run, inner ones included
  MaxStaged,      \* bound: transactions in one inner group
  MaxOps          \* bound: opcodes a program executes before it must end

\* An account object: its address, the applications it created and those it has
\* opted into; one that is not well formed matches no setup rule, and an instance
\* may leave open whether one is.
AccountObject == [addr: Nat, apps: SUBSET (Nat \ {0}), locals: SUBSET Nat,
                  wellFormed: SUBSET BOOLEAN]
ASSUME SetupAssumption == Setup \in Seq(AccountObject)
\* A "grp" is a string no inner group id equals; a negative number stands for it.
ASSUME OuterGroupsAssumption ==
  OuterGroups \in Seq(Int) /\ \A i \in 1..Len(OuterGroups) : OuterGroups[i] < 0
ASSUME BoundsAssumption ==
  /\ Expected \in Nat /\ Disciplined \in BOOLEAN
  /\ MaxTxns \in Nat /\ MaxStaged \in Nat /\ MaxOps \in Nat

VARIABLES
  k, returncode, accounts, apps, nextAppID, optedIn,
  transactions, nextTxnID, nextGroupID, deque, dequeIndexSet, currentTx,
  currentTxnExecution, innerTransactions, activeApps, touchedAccounts

network == <<accounts, apps, nextAppID, optedIn>>
txns    == <<transactions, nextTxnID, nextGroupID>>
queue   == <<deque, dequeIndexSet, currentTx>>
teal    == <<currentTxnExecution, innerTransactions, activeApps>>
vars    == <<k, returncode, network, txns, queue, teal, touchedAccounts>>

-----------------------------------------------------------------------------
(* Return codes (panics.md).  ERR_OPCODE stands for every panic an opcode  *)
(* raises by itself, INSUFFICIENT_FUNDS for every panic of a non-          *)
(* application transaction.                                                *)
SUCCESS               == 0
ZERO_STACK            == 1
BAD_STACK             == 2
STUCK                 == 4
INVALID_JSON          == 5
ERR_OPCODE            == 7
TXN_INVALID           == 13
DUPLICATE_LABEL       == 30
ITXN_REENTRY          == 34
INSUFFICIENT_FUNDS    == 36
TXN_DEQUE_ERROR       == 40
MIN_BALANCE_VIOLATION == 48
APP_ALREADY_ACTIVE    == 56
\* what checkExecutionResults reports when the code is not the expected one
MISMATCH              == 1

ReturnCodes == {SUCCESS, ZERO_STACK, BAD_STACK, STUCK, INVALID_JSON,
  ERR_OPCODE, TXN_INVALID, DUPLICATE_LABEL, ITXN_REENTRY, INSUFFICIENT_FUNDS,
  TXN_DEQUE_ERROR, MIN_BALANCE_VIOLATION, APP_ALREADY_ACTIVE}

\* "pay" stands for every transaction type but "appl"; "unknown" is the type
\* of a transaction that itxn_begin or itxn_next has just created.
TxTypes == {"unknown", "pay", "appl"}
\* Which type-specific cells a transaction has: none, one, or several.
FieldCells == {"none", "pay", "appl", "mixed"}
OnCompletions == {"NoOp", "OptIn", "CloseOut", "ClearState",
                  "UpdateApplication", "DeleteApplication"}
Payload == [type: TxTypes, cell: FieldCells, app: Nat, oc: OnCompletions]
ASSUME PayloadAssumption == OuterPayloads \subseteq Payload /\ InnerPayloads \subseteq Payload

\* The account of an application (getAppAddressBytes): an address no user has.
AppAddress(a) == 100 + a

\* No transaction group: the initial <lastTxnGroupID> "".
NoGroup == 0

\* The part of <currentTxnExecution> that control depends on.
Execution == [app: Nat, lastGroup: Int, pc: Nat]
NoContext == [app |-> 0, lastGroup |-> NoGroup, pc |-> 0]

Transaction == [type: TxTypes, cell: FieldCells, app: Nat, oc: OnCompletions,
                sender: Nat, group: Int, resume: BOOLEAN, context: Execution]

NewTransaction(p, sender, group) ==
  [type |-> p.type, cell |-> p.cell, app |-> p.app, oc |-> p.oc,
   sender |-> sender, group |-> group, resume |-> FALSE, context |-> NoContext]

-----------------------------------------------------------------------------
(* The continuation: commands with an argument (a transaction, application *)
(* or position) and, for #clearState, an address.                          *)
TestingCommands == {"setupCounters", "readExecutionStages", "checkExecutionResults"}
CommandNames == TestingCommands \cup
  {"setupAccounts", "setupTransactions", "pushTxnBack", "pushTxnFront",
   "evalTxGroup", "evalNextTx", "getNextTxn", "popTxnFront",
   "evalTx", "executeTxn", "executeAppl", "initApp", "loadInputPgm",
   "fetchOpcode", "finalizeExecution", "clearState", "updatePrograms",
   "deleteApplication", "checkItxns", "executeItxnGroup", "pushItxns",
   "checkSufficientBalance", "stopIfError", "unmatched"}
Command == [name: CommandNames, arg: Nat, addr: Nat]

Cmd(c)         == [name |-> c, arg |-> 0, addr |-> 0]
CmdOf(c, a)    == [name |-> c, arg |-> a, addr |-> 0]
CmdBy(c, a, s) == [name |-> c, arg |-> a, addr |-> s]

Next1(c)  == k # <<>> /\ Head(k).name = c
Arg       == Head(k).arg
Become(s) == k' = s \o Tail(k)
Done      == k' = Tail(k)

\* Faulty: the code is set but the rest of <k> goes on.
PanicGoesOn(code) == returncode' = code /\ Done

\* #panic(S): the code is set and #stopIfError takes over <k>.
Panic(code) == /\ returncode' = code
               /\ Become(<<Cmd("stopIfError")>>)

\* The transaction now being executed.
Current == transactions[currentTx]

\* Transactions waiting for the inner group they submitted.
Suspended == {t \in DOMAIN transactions : transactions[t].context # NoContext}

-----------------------------------------------------------------------------
(* The scenario driver (avm-testing.md, algod-models.md).                  *)
Init ==
  /\ k = <<CmdOf("setupAccounts", 1), Cmd("setupCounters"), Cmd("readExecutionStages")>>
  /\ returncode = STUCK
  /\ accounts = {} /\ apps = {} /\ nextAppID = 1 /\ optedIn = {}
  /\ transactions = <<>> /\ nextTxnID = 0 /\ nextGroupID = 1
  /\ deque = <<>> /\ dequeIndexSet = {} /\ currentTx = 0
  /\ currentTxnExecution = NoContext /\ innerTransactions = <<>> /\ activeApps = {}
  /\ touchedAccounts = {}

ReadAccount(a) ==
  /\ TRUE \in a.wellFormed
  /\ accounts' = accounts \cup {a.addr}
  /\ apps' = apps \cup a.apps
  /\ optedIn' = optedIn \cup ({a.addr} \X a.locals)
  /\ Become(<<CmdOf("setupAccounts", Arg + 1)>>)
  /\ UNCHANGED returncode

MalformedAccount(a) ==
  /\ FALSE \in a.wellFormed
  /\ Panic(INVALID_JSON)
  /\ UNCHANGED <<accounts, apps, optedIn>>

SetupAccount ==
  /\ Next1("setupAccounts") /\ Arg <= Len(Setup)
  /\ ReadAccount(Setup[Arg]) \/ MalformedAccount(Setup[Arg])
  /\ UNCHANGED <<nextAppID, txns, queue, teal, touchedAccounts>>

SetupAccountsDone ==
  /\ Next1("setupAccounts") /\ Arg > Len(Setup)
  /\ Done
  /\ UNCHANGED <<returncode, network, txns, queue, teal, touchedAccounts>>

\* maxInList(keys_list(appCreator)) + 1
SetupCounters ==
  /\ Next1("setupCounters")
  /\ \E m \in apps \cup {0} : /\ \A a \in apps : a <= m
                              /\ nextAppID' = m + 1
  /\ Done
  /\ UNCHANGED <<returncode, accounts, apps, optedIn, txns, queue, teal, touchedAccounts>>

ReadExecutionStages ==
  /\ Next1("readExecutionStages")
  /\ Become(<<CmdOf("setupTransactions", 1), Cmd("evalTxGroup"), Cmd("checkExecutionResults")>>)
  /\ UNCHANGED <<returncode, network, txns, queue, teal, touchedAccounts>>

\* Faulty: the new transaction is left out.
WithoutTransaction(t) == [i \in 0..(nextTxnID - 1) |-> transactions[i]]

\* transactions with one more, under the next id
WithTransaction(t) == [i \in 0..nextTxnID |-> IF i = nextTxnID THEN t ELSE transactions[i]]

\* Submitted transactions are sent by users: an application cannot sign.
SetupApps == UNION {Setup[i].apps : i \in 1..Len(Setup)}
Users == {Setup[i].addr : i \in 1..Len(Setup)} \ {AppAddress(a) : a \in SetupApps}

AddTxnJSON ==
  /\ Next1("setupTransactions") /\ Arg <= Len(OuterGroups)
  /\ \E p \in OuterPayloads, s \in Users :
       transactions' = WithTransaction(NewTransaction(p, s, OuterGroups[Arg]))
  /\ nextTxnID' = nextTxnID + 1
  /\ Become(<<CmdOf("pushTxnBack", nextTxnID), CmdOf("setupTransactions", Arg + 1)>>)
  /\ UNCHANGED <<returncode, network, nextGroupID, queue, teal, touchedAccounts>>

SetupTransactionsDone ==
  /\ Next1("setupTransactions") /\ Arg > Len(OuterGroups)
  /\ Done
  /\ UNCHANGED <<returncode, network, txns, queue, teal, touchedAccounts>>

\* The verdict of a stage; #dumpFinalState only logs.
CheckExecutionResults ==
  /\ Next1("checkExecutionResults")
  /\ returncode' = IF returncode = Expected THEN SUCCESS ELSE MISMATCH
  /\ Done
  /\ UNCHANGED <<network, txns, queue, teal, touchedAccounts>>

-----------------------------------------------------------------------------
(* The transaction deque (avm-txn-deque.md).                               *)
CanPush(t) == t \notin dequeIndexSet /\ t \in DOMAIN transactions

\* Schedule t by making q the deque; a transaction unknown or already indexed
\* is a panic.
Schedule(t, q) ==
  /\ IF CanPush(t)
       THEN /\ deque' = q
            /\ dequeIndexSet' = dequeIndexSet \cup {t}
            /\ Done
            /\ UNCHANGED returncode
       ELSE /\ Panic(TXN_DEQUE_ERROR)
            /\ UNCHANGED <<deque, dequeIndexSet>>
  /\ UNCHANGED <<network, txns, currentTx, teal, touchedAccounts>>

PushTxnBack  == Next1("pushTxnBack") /\ Schedule(Arg, Append(deque, Arg))
\* Faulty: what was scheduled is lost.
PushTxnOnly == Next1("pushTxnFront") /\ Schedule(Arg, <<Arg>>)

PushTxnFront == Next1("pushTxnFront") /\ Schedule(Arg, <<Arg>> \o deque)

\* The id stays in dequeIndexSet, and in the deque until #popTxnFront.
GetNextTxn ==
  /\ Next1("getNextTxn")
  /\ IF deque # <<>>
       THEN /\ currentTx' = Head(deque)
            /\ Done
            /\ UNCHANGED returncode
       ELSE /\ Panic(TXN_DEQUE_ERROR)
            /\ UNCHANGED currentTx
  /\ UNCHANGED <<network, txns, deque, dequeIndexSet, teal, touchedAccounts>>

\* Popping an empty deque is allowed and does nothing.
PopTxnFront ==
  /\ Next1("popTxnFront")
  /\ deque' = IF deque = <<>> THEN <<>> ELSE Tail(deque)
  /\ Done
  /\ UNCHANGED <<returncode, network, txns, dequeIndexSet, currentTx, teal, touchedAccounts>>

-----------------------------------------------------------------------------
(* Group evaluation (avm-execution.md).                                    *)
\* Faulty: the transaction is not taken off the deque.
EvaluationNoPop == <<Cmd("getNextTxn"), Cmd("evalTx"), Cmd("evalNextTx")>>

Evaluation == <<Cmd("getNextTxn"), Cmd("evalTx"), Cmd("popTxnFront"), Cmd("evalNextTx")>>

\* #evalTxGroup and the #evalFirstTx it becomes
EvalTxGroup ==
  /\ Next1("evalTxGroup") /\ deque # <<>>
  /\ Become(Evaluation)
  /\ UNCHANGED <<returncode, network, txns, queue, teal, touchedAccounts>>

\* Faulty: a resumed transaction is popped a second time.
EvalNextTxPopsTwice ==
  /\ Next1("evalNextTx") /\ deque # <<>>
  /\ Become(Evaluation)
  /\ UNCHANGED <<returncode, network, txns, queue, teal, touchedAccounts>>

EvalNextTx ==
  /\ Next1("evalNextTx") /\ deque # <<>>
  /\ IF transactions[Head(deque)].group = Current.group
       THEN Become(Evaluation)
       \* the group is over: go back to the transaction that submitted it,
       \* whose own #popTxnFront is still in <k>
       ELSE Become(<<Cmd("getNextTxn"), Cmd("evalTx")>>)
  /\ UNCHANGED <<returncode, network, txns, queue, teal, touchedAccounts>>

GroupAccepted ==
  /\ Next1("evalNextTx") /\ deque = <<>>
  /\ returncode' = SUCCESS
  /\ Become(<<Cmd("checkSufficientBalance")>>)
  /\ UNCHANGED <<network, txns, queue, teal, touchedAccounts>>

\* Each touched account is checked; an address without an account is stuck.
CheckSufficientBalance ==
  /\ Next1("checkSufficientBalance")
  /\ \/ /\ touchedAccounts = {}
        /\ Done
        /\ UNCHANGED <<returncode, touchedAccounts>>
     \/ \E a \in touchedAccounts \cap accounts :
          /\ touchedAccounts' = touchedAccounts \ {a}
          /\ \/ UNCHANGED <<k, returncode>>
             \/ Panic(MIN_BALANCE_VIOLATION)
  /\ UNCHANGED <<network, txns, queue, teal>>

-----------------------------------------------------------------------------
(* One transaction.                                                        *)
EvalNonAppl ==
  /\ Next1("evalTx") /\ Current.type # "appl"
  /\ touchedAccounts' = touchedAccounts \cup {Current.sender}
  /\ Become(<<Cmd("executeTxn")>>)
  /\ UNCHANGED <<returncode, network, txns, queue, teal>>

\* #initContext gives the program a fresh <teal> cell.
EvalApplFirst ==
  /\ Next1("evalTx") /\ Current.type = "appl" /\ ~Current.resume
  /\ touchedAccounts' = touchedAccounts \cup {Current.sender}
  /\ transactions' = [transactions EXCEPT ![currentTx].resume = TRUE]
  /\ currentTxnExecution' = [currentTxnExecution EXCEPT !.pc = 0]
  /\ Become(<<Cmd("executeTxn")>>)
  /\ UNCHANGED <<returncode, network, nextTxnID, nextGroupID, queue, innerTransactions, activeApps>>

\* #restoreContext takes the saved execution back; without one it is stuck.
EvalApplResume ==
  /\ Next1("evalTx") /\ Current.type = "appl" /\ Current.resume
  /\ Current.context # NoContext
  /\ touchedAccounts' = touchedAccounts \cup {Current.sender}
  /\ currentTxnExecution' = Current.context
  /\ transactions' = [transactions EXCEPT ![currentTx].context = NoContext]
  /\ Become(<<Cmd("fetchOpcode")>>)
  /\ UNCHANGED <<returncode, network, nextTxnID, nextGroupID, queue, innerTransactions, activeApps>>

\* Effects on balances and assets are left out: the rules apply them, panic,
\* or do not match.  A payment also touches its receiver.
ExecuteNonAppl ==
  /\ Next1("executeTxn") /\ Current.type = "pay" /\ Current.cell = "pay"
  /\ \/ Done /\ UNCHANGED returncode
     \/ Panic(INSUFFICIENT_FUNDS)
     \/ Become(<<Cmd("unmatched")>>) /\ UNCHANGED returncode
  /\ \/ UNCHANGED touchedAccounts
     \/ \E a \in accounts : touchedAccounts' = touchedAccounts \cup {a}
  /\ UNCHANGED <<network, txns, queue, teal>>

IsApplCall == Next1("executeTxn") /\ Current.type = "appl" /\ Current.cell = "appl"

CreateApplication ==
  /\ IsApplCall /\ Current.app = 0 /\ Current.sender \in accounts
  /\ apps' = apps \cup {nextAppID}
  /\ accounts' = accounts \cup {AppAddress(nextAppID)}
  /\ nextAppID' = nextAppID + 1
  /\ Become(<<CmdOf("executeAppl", nextAppID)>>)
  /\ UNCHANGED <<returncode, optedIn, txns, queue, teal, touchedAccounts>>

CallApplication ==
  /\ IsApplCall /\ Current.app # 0
  /\ Become(<<CmdOf("executeAppl", Current.app)>>)
  /\ UNCHANGED <<returncode, network, txns, queue, teal, touchedAccounts>>

\* What a completion adds after the program.
PostOperations(a) ==
  CASE Current.oc \in {"NoOp", "OptIn"}           -> <<>>
    [] Current.oc \in {"CloseOut", "ClearState"}  -> <<CmdBy("clearState", a, Current.sender)>>
    [] Current.oc = "UpdateApplication"           -> <<CmdOf("updatePrograms", a)>>
    [] OTHER                                      -> <<CmdOf("deleteApplication", a)>>

\* Opting in is recorded before the program has approved it.
ExecuteAppl ==
  /\ Next1("executeAppl") /\ Arg \in apps
  /\ IF Current.oc = "OptIn"
       THEN /\ Current.sender \in accounts
            /\ <<Current.sender, Arg>> \notin optedIn
            /\ optedIn' = optedIn \cup {<<Current.sender, Arg>>}
       ELSE UNCHANGED optedIn
  /\ Become(<<CmdOf("initApp", Arg), Cmd("loadInputPgm"), Cmd("fetchOpcode")>>
            \o PostOperations(Arg))
  /\ UNCHANGED <<returncode, accounts, apps, nextAppID, txns, queue, teal, touchedAccounts>>

ClearState ==
  /\ Next1("clearState") /\ Arg \in apps
  /\ <<Head(k).addr, Arg>> \in optedIn
  /\ optedIn' = optedIn \ {<<Head(k).addr, Arg>>}
  /\ Done
  /\ UNCHANGED <<returncode, accounts, apps, nextAppID, txns, queue, teal, touchedAccounts>>

UpdatePrograms ==
  /\ Next1("updatePrograms") /\ Arg \in apps
  /\ Done
  /\ UNCHANGED <<returncode, network, txns, queue, teal, touchedAccounts>>

\* The rule needs the extra pages, which the setup of an application leaves unset.
DeleteApplication ==
  /\ Next1("deleteApplication") /\ Arg \in apps \ SetupApps
  /\ apps' = apps \ {Arg}
  /\ Done
  /\ UNCHANGED <<returncode, accounts, nextAppID, optedIn, txns, queue, teal, touchedAccounts>>

-----------------------------------------------------------------------------
(* TEAL programs (teal-execution.md).  A program is any sequence of opcodes *)
(* that ends.                                                              *)
\* Faulty: <lastTxnGroupID> keeps the group of the program before.
InitAppKeepsGroup ==
  /\ Next1("initApp") /\ Arg \in apps \ activeApps
  /\ currentTxnExecution' = [currentTxnExecution EXCEPT !.app = Arg]
  /\ activeApps' = activeApps \cup {Arg}
  /\ Done
  /\ UNCHANGED <<returncode, network, txns, queue, innerTransactions, touchedAccounts>>

InitApp ==
  /\ Next1("initApp") /\ Arg \notin activeApps
  /\ Arg \in apps
  /\ currentTxnExecution' = [currentTxnExecution EXCEPT !.app = Arg, !.lastGroup = NoGroup]
  /\ activeApps' = activeApps \cup {Arg}
  /\ Done
  /\ UNCHANGED <<returncode, network, txns, queue, innerTransactions, touchedAccounts>>

InitAppError ==
  /\ Next1("initApp") /\ Arg \in activeApps
  /\ Panic(APP_ALREADY_ACTIVE)
  /\ UNCHANGED <<network, txns, queue, teal, touchedAccounts>>

LoadInputPgm ==
  /\ Next1("loadInputPgm")
  /\ \/ Done /\ UNCHANGED returncode
     \/ Panic(DUPLICATE_LABEL)
  /\ UNCHANGED <<network, txns, queue, teal, touchedAccounts>>

Running == Next1("fetchOpcode") /\ returncode = STUCK

IncrementPC == currentTxnExecution' = [currentTxnExecution EXCEPT !.pc = @ + 1]

\* An opcode that stays within the program.
OpPlain ==
  /\ Running /\ currentTxnExecution.pc < MaxOps
  /\ IncrementPC
  /\ UNCHANGED <<k, returncode, network, txns, queue, innerTransactions, activeApps, touchedAccounts>>

\* err, assert, or an opcode whose arguments are wrong
OpPanic ==
  /\ Running
  /\ Panic(ERR_OPCODE)
  /\ UNCHANGED <<network, txns, queue, teal, touchedAccounts>>

\* A transaction as itxn_begin and itxn_next create it: sent by the running
\* application, with no type-specific fields.
Blank(group) ==
  NewTransaction([type |-> "unknown", cell |-> "none", app |-> 0, oc |-> "NoOp"],
                 AppAddress(currentTxnExecution.app), group)

CanStage == /\ Running /\ currentTxnExecution.pc < MaxOps
            /\ nextTxnID + Len(innerTransactions) < MaxTxns

ItxnBegin ==
  /\ CanStage /\ innerTransactions = <<>>
  /\ innerTransactions' = <<Blank(nextGroupID + 1)>>
  /\ nextGroupID' = nextGroupID + 1
  /\ IncrementPC
  /\ UNCHANGED <<k, returncode, network, transactions, nextTxnID, queue, activeApps, touchedAccounts>>

ItxnNext ==
  /\ CanStage /\ Len(innerTransactions) \in 1..(MaxStaged - 1)
  /\ innerTransactions' = Append(innerTransactions, Blank(nextGroupID))
  /\ IncrementPC
  /\ UNCHANGED <<k, returncode, network, txns, queue, activeApps, touchedAccounts>>

\* The itxn_field opcodes that give the last staged transaction its type and
\* fields, taken together.
ItxnField ==
  /\ Running /\ currentTxnExecution.pc < MaxOps
  /\ innerTransactions # <<>>
  /\ \E p \in InnerPayloads :
       LET last == innerTransactions[Len(innerTransactions)] IN
       innerTransactions' = [innerTransactions EXCEPT ![Len(innerTransactions)] =
                               NewTransaction(p, last.sender, last.group)]
  /\ IncrementPC
  /\ UNCHANGED <<k, returncode, network, txns, queue, activeApps, touchedAccounts>>

\* #fetchOpcode is taken out of <k>: the program goes on when it is resumed.
ItxnSubmit ==
  /\ Running /\ currentTxnExecution.pc <= MaxOps
  /\ Disciplined => innerTransactions # <<>>
  /\ currentTxnExecution' = [currentTxnExecution EXCEPT !.pc = @ + 1, !.lastGroup = nextGroupID]
  /\ Become(<<CmdOf("checkItxns", 1), Cmd("executeItxnGroup")>>)
  /\ UNCHANGED <<returncode, network, txns, queue, innerTransactions, activeApps, touchedAccounts>>

\* return, or the last opcode has been executed
EndProgram ==
  /\ Next1("fetchOpcode") /\ currentTxnExecution.pc > 0
  /\ Disciplined => innerTransactions = <<>>
  /\ Become(<<Cmd("finalizeExecution")>>)
  /\ UNCHANGED <<returncode, network, txns, queue, teal, touchedAccounts>>

\* A return code other than 4 stops the program, without finalising it.
FetchStopped ==
  /\ Next1("fetchOpcode") /\ returncode # STUCK
  /\ Done
  /\ UNCHANGED <<returncode, network, txns, queue, teal, touchedAccounts>>

\* Faulty: the application stays on the call stack.
FinalizeStaysActive ==
  /\ Next1("finalizeExecution") /\ currentTxnExecution.app \in activeApps
  /\ Done
  /\ UNCHANGED <<returncode, network, txns, queue, teal, touchedAccounts>>

\* #saveScratch, #deactivateApp and #checkStack
FinalizeExecution ==
  /\ Next1("finalizeExecution") /\ Current.type = "appl"
  /\ currentTxnExecution.app \in activeApps
  /\ activeApps' = activeApps \ {currentTxnExecution.app}
  /\ \/ Done /\ UNCHANGED returncode
     \/ Panic(ZERO_STACK)
     \/ Panic(BAD_STACK)
  /\ UNCHANGED <<network, txns, queue, currentTxnExecution, innerTransactions, touchedAccounts>>

-----------------------------------------------------------------------------
(* Inner transaction groups (itxn.md).                                     *)
CheckItxn ==
  /\ Next1("checkItxns") /\ Arg <= Len(innerTransactions)
  /\ LET t == innerTransactions[Arg] IN
       \/ /\ t.cell \in {"none", "mixed"}
          /\ Panic(TXN_INVALID)
       \/ /\ t.cell = "appl" /\ t.app \in activeApps
          /\ Panic(ITXN_REENTRY)
       \/ /\ t.cell = "pay" \/ (t.cell = "appl" /\ t.app \notin activeApps)
          /\ Become(<<CmdOf("checkItxns", Arg + 1)>>)
          /\ UNCHANGED returncode
  /\ UNCHANGED <<network, txns, queue, teal, touchedAccounts>>

CheckItxnsDone ==
  /\ Next1("checkItxns") /\ Arg > Len(innerTransactions)
  /\ Done
  /\ UNCHANGED <<returncode, network, txns, queue, teal, touchedAccounts>>

\* Faulty: the program is not saved.
ExecuteItxnGroupUnsaved ==
  /\ Next1("executeItxnGroup")
  /\ Become(<<Cmd("pushItxns"), Cmd("evalTxGroup")>>)
  /\ UNCHANGED <<returncode, network, txns, queue, teal, touchedAccounts>>

\* #saveState: the running program is suspended in its transaction.
ExecuteItxnGroup ==
  /\ Next1("executeItxnGroup")
  /\ transactions' = [transactions EXCEPT ![currentTx].context = currentTxnExecution]
  /\ Become(<<Cmd("pushItxns"), Cmd("evalTxGroup")>>)
  /\ UNCHANGED <<returncode, network, nextTxnID, nextGroupID, queue, teal, touchedAccounts>>

\* From the last to the first, so that the first ends up in front.
PushItxns ==
  /\ Next1("pushItxns") /\ innerTransactions # <<>>
  /\ transactions' = WithTransaction(innerTransactions[Len(innerTransactions)])
  /\ nextTxnID' = nextTxnID + 1
  /\ innerTransactions' = SubSeq(innerTransactions, 1, Len(innerTransactions) - 1)
  /\ Become(<<CmdOf("pushTxnFront", nextTxnID), Cmd("pushItxns")>>)
  /\ UNCHANGED <<returncode, network, nextGroupID, queue, currentTxnExecution, activeApps, touchedAccounts>>

PushItxnsDone ==
  /\ Next1("pushItxns") /\ innerTransactions = <<>>
  /\ Done
  /\ UNCHANGED <<returncode, network, txns, queue, teal, touchedAccounts>>

-----------------------------------------------------------------------------
(* #stopIfError (panics.md): commands are dropped, but the driver's own are *)
(* moved in front and run.                                                 *)
IsTesting(c) == c.name \in TestingCommands

StopIfError ==
  /\ Next1("stopIfError")
  /\ \/ /\ Len(k) > 1 /\ IsTesting(k[2])
        /\ k' = <<k[2], k[1]>> \o Tail(Tail(k))
     \/ /\ returncode # SUCCESS /\ Len(k) > 1 /\ ~IsTesting(k[2])
        /\ k' = <<k[1]>> \o Tail(Tail(k))
     \/ /\ returncode # SUCCESS /\ Len(k) = 1
        /\ k' = <<>>
     \/ /\ returncode = SUCCESS
        /\ Done
  /\ UNCHANGED <<returncode, network, txns, queue, teal, touchedAccounts>>

-----------------------------------------------------------------------------
Driver == \/ SetupAccount \/ SetupAccountsDone \/ SetupCounters \/ ReadExecutionStages
          \/ AddTxnJSON \/ SetupTransactionsDone \/ CheckExecutionResults
Deque  == PushTxnBack \/ PushTxnFront \/ GetNextTxn \/ PopTxnFront
Group  == \/ EvalTxGroup \/ EvalNextTx \/ GroupAccepted \/ CheckSufficientBalance
Txn    == \/ EvalNonAppl \/ EvalApplFirst \/ EvalApplResume \/ ExecuteNonAppl
          \/ CreateApplication \/ CallApplication \/ ExecuteAppl
          \/ ClearState \/ UpdatePrograms \/ DeleteApplication
Teal   == \/ InitApp \/ InitAppError \/ LoadInputPgm \/ OpPlain \/ OpPanic
          \/ ItxnBegin \/ ItxnNext \/ ItxnField \/ ItxnSubmit
          \/ EndProgram \/ FetchStopped \/ FinalizeExecution
Inner  == \/ CheckItxn \/ CheckItxnsDone \/ ExecuteItxnGroup \/ PushItxns \/ PushItxnsDone

Next == Driver \/ Deque \/ Group \/ Txn \/ Teal \/ Inner \/ StopIfError

Spec == Init /\ [][Next]_vars

\* The rewriter takes a step as long as some rule applies.
FairSpec == Spec /\ WF_vars(Next)
-----------------------------------------------------------------------------
(* Properties.                                                             *)

\* Every variable has the type the configuration gives its cell; transaction
\* ids are the numbers already handed out by <nextTxnID>.
TypeOK ==
  /\ k \in Seq(Command) /\ returncode \in ReturnCodes
  /\ accounts \subseteq Nat /\ apps \subseteq Nat /\ nextAppID \in Nat
  /\ optedIn \subseteq Nat \X Nat
  /\ nextTxnID \in Nat /\ nextGroupID \in Nat
  /\ transactions \in [0..(nextTxnID - 1) -> Transaction]
  /\ deque \in Seq(Nat) /\ dequeIndexSet \subseteq Nat /\ currentTx \in Nat
  /\ currentTxnExecution \in Execution
  /\ innerTransactions \in Seq(Transaction)
  /\ activeApps \subseteq Nat /\ touchedAccounts \subseteq Nat

\* A transaction is scheduled once: no id is twice in the deque, every id in it
\* is in the index set, and every id in the index set is a transaction.
DequeInv ==
  /\ \A i, j \in 1..Len(deque) : i # j => deque[i] # deque[j]
  /\ \A i \in 1..Len(deque) : deque[i] \in dequeIndexSet
  /\ dequeIndexSet \subseteq DOMAIN transactions

\* The panics of the deque are assertions that never fail: whatever programs
\* do, no id is pushed twice and no empty deque is asked for a transaction.
NoDequeError == returncode # TXN_DEQUE_ERROR

\* A panic is final: until the stage is checked, nothing (not even the end of
\* the group) changes the code it left.
PanicIsFinal ==
  [][returncode \notin {SUCCESS, STUCK} /\ returncode' # returncode
       => Next1("checkExecutionResults")]_vars

AppsOf(s) == {transactions[t].context.app : t \in s}

\* No application is on the call stack twice: the suspended applications differ
\* from one another and from the one running, and all of them are active.
NoReentrance ==
  /\ \A t, u \in Suspended :
       t # u => transactions[t].context.app # transactions[u].context.app
  /\ AppsOf(Suspended) \subseteq activeApps
  /\ Running => /\ currentTxnExecution.app \in activeApps \ AppsOf(Suspended)
                /\ activeApps \subseteq AppsOf(Suspended) \cup {currentTxnExecution.app}

\* What #popTxnFront takes off is the transaction just executed, and it is not
\* waiting for an inner group.
PopsCurrent ==
  Next1("popTxnFront") => /\ deque # <<>> /\ Head(deque) = currentTx
                          /\ currentTx \notin Suspended

\* A transaction that is evaluated again was suspended, so #restoreContext has
\* a context to take.
ResumeHasContext ==
  Next1("evalTx") /\ Current.type = "appl" /\ Current.resume => currentTx \in Suspended

\* Minimum balances are checked last, and success is reported right after: by
\* then every application call of every nested group has run to its end, and
\* nothing that could change an account is scheduled, staged or suspended.
BalanceCheckIsLast ==
  Next1("checkSufficientBalance") =>
    /\ Tail(k) = <<Cmd("checkExecutionResults")>>
    /\ deque = <<>> /\ innerTransactions = <<>>
    /\ Suspended = {} /\ activeApps = {}
    /\ \A t \in DOMAIN transactions : transactions[t].type = "appl" => transactions[t].resume

\* <lastTxnGroupID> is the last group the running program itself submitted:
\* its transactions were sent by this application and have all been executed.
LastGroupIsOwn ==
  Running /\ currentTxnExecution.lastGroup # NoGroup =>
    \A t \in DOMAIN transactions : transactions[t].group = currentTxnExecution.lastGroup =>
      /\ transactions[t].sender = AppAddress(currentTxnExecution.app)
      /\ \A i \in 1..Len(deque) : deque[i] # t

\* Stated of the code, not true of it (see the findings in the README):

\* a program starts without artefacts of an earlier one, so what is staged was
\* staged by the application that is running (#initContext);
StagedByRunning ==
  Running => \A i \in 1..Len(innerTransactions) :
               innerTransactions[i].sender = AppAddress(currentTxnExecution.app)

\* Every run ends: it consumes <k> or stops at a command without a rule.
Ends == <>(k = <<>> \/ ~ENABLED Next)
=============================================================================
