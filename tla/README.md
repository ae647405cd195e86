# KAVM: a TLA+ model of the AVM semantics and its tools

KAVM executes, tests and verifies Algorand smart contracts. Its core is a K
semantics of the Algorand Virtual Machine: rewrite rules over a configuration of
cells. A Python package presents the semantics as an `algod` node, offers a
command line, and builds K claims from accounts and transactions with symbolic
amounts. This directory holds TLA+ modules of all of these, TLC configurations
that check them on small instances, and proofs, checked by TLAPS, of what holds
for every instance.

`avm/` abbreviates `src/lib/include/kframework/avm/`, `kavm/` abbreviates
`src/kavm/src/kavm/`.

## 1. The system

| Component | State | Operations | Hard behaviour | Correct if | Modelled by |
|---|---|---|---|---|---|
| **Scenario driver** `avm/avm-testing.md`, `avm/algod/algod-models.md` | `<k>`, `<returncode>`, the network it builds | setup and submission stages, expected return codes, the dump | a panic in the middle of a stage; commands that survive it | a stage is always checked, by the panic's code | AvmExecution (partly) |
| **Execution pipeline** `avm/avm-execution.md`, `avm-txn-deque.md`, `avm-initialization.md` | deque, index set, current transaction, touched accounts | evaluating a group, a transaction, an application call | nesting: one deque and one continuation for groups inside groups | everything runs once, in order; balances are checked after all else | AvmExecution (partly) |
| **Inner transactions** `avm/itxn.md` and their opcodes | staged transactions, saved contexts, active applications | `itxn_begin/next/field/submit` | reentrance, resumption, leftovers of other programs | no application runs twice at once; a suspended program resumes as it was | AvmExecution (partly) |
| **TEAL program execution** `avm/teal/teal-execution.md` | pc, labels, stack, call stack, scratch space | load, fetch, finish, verdict | state left over from the program before | a program starts fresh and ends with a verdict | TealStack, AvmExecution |
| **TEAL opcodes** `avm/teal/teal-driver.md`, `teal-stack.md`, `teal-types.md`, `teal-fields.md` | the stack and its cached size | about 150 opcodes | subroutine frames; overlapping and missing rules | results as specified; the cached size is the size | TealStack, AppStorage, AvmExecution (partly) |
| **Ledger** `avm/avm-execution.md`, `avm/blockchain.md` | balances, minimum balances, assets, holdings | `@pay`, `@acfg`, `@axfer`, `@afrz` | a transaction is several commands, any of which may fail | nothing is created or lost; minimum balances are kept | Ledger (partly) |
| **Applications** `avm/avm-execution.md`, `avm/teal/teal-driver.md` | creators, global and local state, schemas | creation, the completions, `app_global_*`, `app_local_*` | what is charged in one place is given back in others | the minimum balance is the price of what is there | AppStorage, AvmExecution (partly) |
| **Boxes** `avm/teal/teal-driver.md` | boxes of an application's account | `box_create`, `box_put`, `box_replace`, `box_del`, ... | references to boxes of other applications, sizes, boundaries | sizes and charges agree | AppStorage (partly) |
| **Panics** `avm/panics.md` | `<returncode>` | `#panic`, `#stopIfError` | what remains in `<k>` | a panic is final | AvmExecution, Ledger |
| **State dump and reload** `algod-models.md`, `kavm/scenario.py` | none of its own | dump a state, read it again | what the round trip loses | submissions continue where the last one ended | AvmRun, ScenarioFiles (partly) |
| **KAVM client** `kavm/algod.py`, `kavm/adaptors/` | accounts, creators, confirmed transactions | submit a group, query, execute a composer | errors before and after the run; accounts replaced wholesale; responses of older groups | a group takes effect wholly or not at all; answers are current | KAVMClient, AlgodNode, AvmRun |
| **Scenario files** `kavm/scenario.py` | programs and their file names | sanitise, complete, extract programs | a key forgotten makes a run stuck | what it makes can be read by the K rules | ScenarioFiles |
| **Command line, compilation** `kavm/__main__.py`, `kompile.py`, `kavm.py` | definition and proof directories | `kompile`, `run`, `prove`, `kast`, `kcfg-*`, ... | errors passed through several handlers; tools that fail or crash; options nobody checks | the exit status is the verdict | CommandLine |
| **Prover front end** `kavm/proof.py`, `kast/factory.py`, `prover.py` | a proof's accounts, transactions, conditions | build a claim, prove it, report | a claim that says something else than the group | what is proved is so on the network | KAVMProof (partly) |
| **TEAL grammar, hooks, scripts, packaging** | none | parsing, conversions, build | | | not modelled |

How they interact. The driver fills the ledger and schedules the pipeline; the
pipeline executes transactions on the ledger and runs programs; a program's
`itxn_submit` suspends it and calls the pipeline again. The client turns its
accounts into a scenario, sanitises it, runs it and replaces its accounts by the
dump. The command line calls the same `run_avm_json`. Claims start in the middle
of the pipeline, at `#evalTxGroup`.

Everything runs in one thread: K rewrites the head of `<k>`, and Python calls one
function after the other. What is hard is not concurrency but *nesting* (inner
groups push onto the continuation and the deque of the group they belong to),
*partial failure* (a transaction is several commands, a submission several
updates, and nothing is undone), *overlapping or missing rules* (several match:
any may apply; none does: the run is stuck with code 4), and *state that
outlives its owner* (cells not reset between programs, caches between
submissions, files between commands). The hazards found while reading, each at
its line, are listed in `PROJECT.json` with the properties that cover them.

## 2. The modules

```
AvmExecution   Ledger   AppStorage   TealStack      the semantics
      |           |          |           |
  ...Proofs    ...Proofs  ...Proofs   ...Proofs
                  |
              SumTheorems                           sums over finite sets

AvmRun  <- KAVMClient  => AlgodNode                 one run, as Python sees it;
   ^          ^- KAVMClientProofs                   the client implements the node
   +----- KAVMProof                                 claims about the same run
ScenarioFiles    CommandLine                        files and processes around it
      |               |
  ...Proofs       ...Proofs
```

`A <- B` is EXTENDS, `=>` is implementation (INSTANCE). Each `MC` module gives the
constants of one of these values for TLC. The parts of the semantics are modules
of their own because their product is beyond TLC; where two meet, both state the
interface, as told below.

### AvmExecution

`<k>` is a variable `k`: a sequence of commands whose head the next step rewrites,
as in the semantics. `Become(s)` replaces the head by `s`, `Done` drops it,
`Panic(code)` sets the code and leaves `#stopIfError` in its place. An action is
a rule, or the rules for one command, and has its name.

| Actions | Code |
|---|---|
| `SetupAccount` ... `CheckExecutionResults` | scenario stages (`avm-testing.md`, `algod-models.md`) |
| `PushTxnBack`, `PushTxnFront`, `GetNextTxn`, `PopTxnFront` | `avm-txn-deque.md` |
| `EvalTxGroup`, `EvalNextTx`, `GroupAccepted`, `CheckSufficientBalance` | group evaluation |
| `EvalNonAppl`, `EvalApplFirst`, `EvalApplResume` | the three `#evalTx` rules |
| `CreateApplication`, `CallApplication`, `ExecuteAppl`, `ClearState`, `UpdatePrograms`, `DeleteApplication` | application calls and completions |
| `InitApp` ... `FinalizeExecution` | `teal-execution.md` |
| `ItxnBegin`, `ItxnNext`, `ItxnField`, `ItxnSubmit`, `CheckItxn`, `ExecuteItxnGroup`, `PushItxns` | inner groups |
| `StopIfError` | `panics.md` |

Abstractions. A program is any sequence of opcodes (`OpPlain`, `OpPanic`, the
`itxn_` opcodes, then the end). A transaction is its type, the type-specific cells
it has, application, completion, sender, group and saved context. What a payment
does to balances is the choice among applied, refused and no rule; a balance that
is checked may be too low or not. `#startTx`, `#endTx`, `#checkTxnSignature`,
`#initGlobals` and `#initTxnIndexMap` change nothing that is modelled.
`Disciplined = TRUE` restricts programs to those that submit only when something
is staged and end only when nothing is. It is a precondition of the properties of
`completions`; `any_program` and `leaked_stage` are without it.

### Ledger

Balances, minimum balances, assets and holdings. Choosing a transaction
(`Evaluate`) stands for fetching it, touching its accounts and `#executeTxn`; the
commands a payment or transfer becomes (`GiveAlgos`, `GiveAsset`, `CloseTo`) are
steps of their own because the second can fail after the first. Rules that overlap
are alternatives; a transaction no rule matches is not among the choices, while a
*command* no rule matches (giving to an account that does not exist, taking from a
frozen holding) leaves the state without successor. `ZeroAddress` stands for every
address without an account. Rekeying, reserve and clawback addresses and the
descriptive parameters are left out. `AvmExecution` shows that the balance check
comes last whatever is nested in the group; `Ledger` that the check then suffices.

### AppStorage

Global state, local state, boxes, and the minimum balances charged for them. A
group is any sequence of application calls and payments; the running calls are a
stack, so that inner calls interleave with what their callers store. `AppGlobalPut`
... `BoxDel` are opcodes, each with its panics; `EndProgram`, `ClearState` and
`DeleteApplication` the completions; `Charged` is every change of a minimum
balance. A value is an integer or a byte string, a box its size.

The group starts in any network that the set-up can load (`SetupBalance`,
`SetupApps`, `SetupLocal`): accounts, those of applications included, applications with
global state, and opt-ins with local state; no boxes, for which the set-up has no field.
Loading charges nobody, so the model keeps apart what an account owns (`PriceOf`) and
what of the loaded it was never charged for (`Uncharged`). The assumptions are that
what is loaded belongs to loaded accounts and fits its schemas, as what an
earlier group left does.

### TealStack

One program: `LoadInputPgm` refuses duplicate labels, then a step is one opcode
together with the `#incrementPC` and `#fetchOpcode` behind it (therefore there is
no `<jumped>`), and `Accept`, `ZeroStack` and `BadStack` are the verdict. The
stack is the cons-list of the semantics, its head the top; `Take`, `Drop`,
`FromBottom` and `SetFromBottom` are `#take`, `#drop` and the accesses from the
bottom; `stacksize` is the cell that caches the size. Overlapping rules are
disjuncts that are enabled together. Where no rule matches, no action is enabled and the
code stays `STUCK`: `NoRule` names those cases. Byte strings are one value and `+`
stands for the arithmetic of two integers.

### AvmRun, KAVMClient, AlgodNode

`AvmRun` is one run of the semantics as a function: `Load` is the setup stage,
`RunGroup` the set of final states of a group (empty when it fails), `DumpAccounts`
the dump. An application has `pages` if its `<extraPages>` is set, which creating it does
and loading it does not: only one with `pages` can be deleted. A program approves the
groups whose size is in `sizes`. `KAVMClient` is the client: `SendTransactions` and `Execute` begin a
submission, `RunFails` or `RunReturns` end its run, `MergeAccount` replaces the
accounts one by one, `MergeTransactions` the confirmed transactions, and
`WaitForConfirmation` and `CollectResults` complete a composer. What comes before the
run returns, and what comes after the merge, may raise, and leaves what is done by then;
nothing in the merge loops can. `AlgodNode` is the abstract specification: addresses
become known, and groups take effect as a whole. While the accounts are being
replaced, the node's ledger is the dump they are replaced by (`NodeLedger`).

### ScenarioFiles, CommandLine, KAVMProof

`ScenarioFiles` is `from_json` check by check, as objects with keys and types, the
files `run_avm_json` writes, and, as patterns, what the K rules for JSON match.
`CommandLine` is every command from its options to its exit status: `Process`
is the process, in which each tool succeeds, fails or crashes and each handler
passes an exception on or replaces it; `Type` and `Edit` are the user. A `krun` that
fails has printed a configuration (`panic`) or nothing (`crash`). `--backend` takes any
string: `other` stands for those that `kompile` does not know.
`KAVMProof` is a proof as its user builds it (`New`, `Require`, `Ensure`) and the
claim it makes (`Lhs`, `Requires`, `MatchesRhs`, `Ensured`); `Valid` is what the K
prover decides, by running `AvmRun` on every valuation of the variables. The run of a
claim starts behind `#initGlobals`, with a group of size 0, and its applications have
their extra pages, unlike those a network has loaded.

## 3. The runs

No run checks for deadlock: a run of KAVM ends or is stuck at a command without a
rule, and the number of submissions, scenarios and commands is bounded.

| Run | Instance | Shows |
|---|---|---|
| `completions` | two submitted transactions out of payments, creations and all completions; inner calls, opt-ins, deletions and an incoherent transaction; 4 transactions, 2 per inner group, 3 opcodes per program | `TypeOK`; `PopsCurrent`: the nesting survives in one deque; `NoReentrance`; `LastGroupIsOwn`; `BalanceCheckIsLast`: what is checked, and reported, is the end of everything; `PanicIsFinal`; with fairness, `Ends` |
| `any_program` | two calls, programs that submit or end with anything staged, an account that may be malformed | `NoDequeError`, `ResumeHasContext` |
| `ledger_groups` | three interchangeable accounts, 2 algos each, amounts 0 and 1, four transactions, one asset | `TypeOK`; `AlgosConserved`, `AssetsConserved`; `MinBalanceCounts`, `MinBalanceHolds`; `FrozenHoldingsStay` |
| `app_storage` | two users, two applications with different schemas, one of them loaded with its account, a key and an opt-in; two keys, one box name, sizes up to one above the limit, three transactions, inner ones included | `TypeOK`; `MinBalanceIsPrice`; `WithinSchema`; `StateIsPaidFor`; `BoxSizesStay` |
| `teal_stack` | 27708 programs: two opcodes on three stacks, loops, and subroutines with six prototypes or none that may call themselves; stack of 4, call stack of 2, 2 scratch places, integers up to 3 | `TypeOK`; `FramesReturnToCalls`; `EveryStackHasRule`; `OnlyReturnsDrift`; `ReturnKeepsCaller` |
| `client_submissions` | three composers and other submissions in any order, 15 groups that pay, create, update, delete, opt in and call, five submissions, two application ids | `SubmissionInv`; `ImplementsNode` (refinement); `AppsServed`, `ResultsAreOwn`, `CommittedOnce`; with fairness, `SubmissionReturns` |
| `scenario_session` | two scenarios, the second on the accounts of the first; transactions with any two of their optional keys, programs as code or file | `KCanRead`, `TrackedProgramsReadable`, `NamesKeepTheirProgram` |
| `command_status` | two commands of any kind in two directories, any string for a backend, tools that fail or crash, one edit of the sources | `TypeOK`; `StatusIsVerdict`, `FailureIsReported`, `KompiledIsCurrent` |
| `claim_verdicts` | five networks, eight groups, programs that approve any size, only 0 or only 1, up to three of twelve conditions, three variables over -1..4 with amounts up to 2 | `ProvedIsAccepted`, `RefusalIsReal` |
| `leaked_stage`, `stack_size`, `claim_addresses` | | the findings, below |

Why the bounds are enough. *Pipeline:* four transactions let a call submit a group
of two, or a group whose call submits again, so that a group is resumed inside
another; three opcodes stage, type and submit. *Ledger:* four transactions reach
opt-in, transfer, freeze or opt-out, and destruction in one group; with 2 algos
and a price of 1 an account affords exactly one payment or holding, so the check is
met from both sides. Accounts are interchangeable there, and no liveness is checked
under that symmetry. *Storage:* one application has a global and the other a local schema with
a single entry of a type, so every second put is at the limit and every change of
a key's type crosses it; one account can just pay for what it creates, another
cannot. One application, its state and an opt-in are loaded, so that uncharged state is
cleared and used, and the account of a loaded application is too poor for a box. *TEAL:* an opcode looks at most at three values and at the size, so programs
of two opcodes on zero, one and three values, on a stack of four, reach every rule
from below, at and above its bounds; two frames are enough for a return into a
subroutine. *Client:* five submissions create, fund and call an application, and
retry the composer that failed; two ids let an application be created and deleted in
one group, and its account be in the way of the next one. *Scenarios:*
defaults are independent per key, so any two keys expose a forgotten
dependency. *Commands:* what one command leaves, the next one finds; nothing looks
further back. *Claims:* a condition relates at most three variables, and range
violations show one below 0 and one above the maximum; a group of one, and programs that
tell its size from 0, show what a claim says wrongly of the size in both directions.

Fairness. `FairSpec` of AvmExecution is `WF_vars(Next)`: the rewriter takes a step
while a rule applies. Nothing is assumed among actions; programs end because the
bound on opcodes stands for their finite length. `KAVMClient` has `WF_vars(Handle)`:
a Python function that was called goes on, and the `krun` it starts returns; no
fairness is assumed of whoever submits. A `krun` that hangs is outside the model.

### Findings

Each of these runs is expected to be violated, because the code departs from what
a comment or a document says.

- `leaked_stage`: inner transactions staged by a program that ends without
  submitting them are still staged when the next program starts, which then sends them as its
  own. `#initContext` resets only the `<teal>` cell.
- `stack_size`: `retsub` takes more or less from `<stacksize>` than from the stack,
  unless the prototype has exactly twice as many arguments as results, as the only
  one in the tests has (`proto 2 1`). The programs of the run are subroutines that do
  just what they declare, so nothing but the return can be the cause.
- `claim_addresses`: the right-hand side of a claim has no addresses, so a claim
  that gives the balances of two accounts the wrong way round is proved.

### Other divergences met while modelling

No run is kept for these; the models have the behaviour, or leave it out as stated.

*Pipeline and driver.* `itxn_submit` with nothing staged evaluates the running call
again, after which completions are executed behind the balance check
(`teal-driver.md:2770`, against `avm-execution.md:78`). A panic in the setup stage
lets the driver's commands through, so the group still runs and may replace code 5
by 0 (`panics.md:273`). A stage that names two groups stops with a transaction left
in the deque (`avm-execution.md:74`). Nothing rolls a failed group back
(`avm-configuration.md:88` says so).

*Ledger.* Holdings declared in a setup are not paid for, closing one is: the minimum
balance falls below that of an empty account (`algod-models.md:67`,
`avm-execution.md:325`, `:452`). A payment to an unknown address may take the amount
and get stuck (`avm-execution.md:491`).

*Applications and boxes.* An application that the set-up loads cannot be deleted: its
extra pages are not set, and the rule that refunds them does not match
(`algod-models.md:402`, `blockchain.md:126`, `avm-execution.md:286`). So the client can delete
an application only in the group that creates it. Clearing a loaded opt-in gives back
what was never charged: the minimum balance falls below that of an empty account.
Clearing the state of a deleted application is stuck: its
schema is gone. `box_create` charges the application's account without touching it,
so the check may skip it, also when that account has created applications or opted in
to some in an earlier group; `StateIsPaidFor` says how far this goes. The bound of `box_replace` is strict: the last byte is out
of reach. `box_put` of a missing box leaves a 1 on the stack, and is stuck when the
box is too large. A program may replace and delete boxes of another application
through references.

*TEAL.* A return below its frame gives the wrong values silently; `frame_bury`
outside the stack makes it longer; with a drifted size a stack exceeds its limit,
or ends where `#checkStack` has no rule. `NoRule`: `assert` and `select` on byte
strings, `assert`, `dupn` and `frame_bury` on an empty stack, `select` on one value,
`frame_dig` on a full stack or outside it, frame opcodes outside a subroutine.

*Client and scenarios.* An unknown transaction id is answered with a transaction of
an older, longer group (`algod.py:143`). The dump has no `apps-local-state`, so
opt-ins are lost (`algod-models.md:141`). An account at the address of a future
application makes its creation fail (`algod.py:257`): an application that is
created and deleted in one group leaves its account, so the next creation, which has
the same id, fails. `#updatePrograms` changes the source but
not the name that is dumped. A partial `apls` is not completed (`scenario.py:116`).
A short list of stages raises an `IndexError` (`scenario.py:206`).

*Command line.* `kompile` without `--backend`, or with a string that is neither `llvm`
nor `haskell`, compiles nothing and ends with 0 if an old definition is there
(`__main__.py:397`, `kompile.py:30`, `:44`). When `krun` crashes without a configuration,
`kavm run` reports an empty one, and the client gets the `ParseError` of the parser in
place of an `AlgodHTTPError`; what `krun` wrote to stderr is dropped (`kavm.py:158`).
`kcfg-prove` ends with 0 whatever the verdict (`__main__.py:333`). `env` raises when
the directory is not set (`__main__.py:344`). `run --output json` or `kast` prints
nothing. The handler of `exec_run` ends with status 1 only because unpacking the
error fails (`__main__.py:246`). `kore-repl` has no default for `--definition`.

*Claims.* The size of the group, the round and the timestamp are 0 (`proof.py:265`), and
the next application id is 2 (`:279`), whatever the group and the accounts. A program that
approves only a size of 0 is proved and then rejected by the network; one that
refuses it is refused and approved there. Variables that occur only inside
expressions have no range (`proof.py:288`). Two proofs given the same lists of
conditions extend each other's (`proof.py:182`). A group that makes an account can
never match, nor one that deletes an application: the creators on the right-hand side are
those on the left (`proof.py:309`). On the network such a deletion is stuck.

## 4. The proofs

Theorems hold for all values of the constants that satisfy the named assumptions
of the modules: sets and sequences of the right types, addresses that are distinct,
bounds that are naturals. No theorem uses the bounds of the runs.

**AvmExecution** (`TypeCorrect`, `DequeNeverPanics`). `IInv`
strengthens `TypeOK` and `DequeInv` (no id twice in the deque, all of them
indexed, all indexed ones known) by what the rules rely on without testing:

- `HeadReady`: a push at the head of `k` names a transaction that exists and is
  not indexed; a fetch at the head finds a deque that is not empty;
- `KInv`: these commands are *only* ever at the head (whoever writes one makes
  it next), so nothing can come between the test and the use; commands that read
  the current transaction occur only once there is one;
- `CurrentKnown`: the current transaction exists.

`DequeInv` is not inductive without them: a push deep in `k` could run after
another push of the same id. One lemma per group of actions.

`ResumptionHasContext` and `PanicsAreFinal` rest on `Flow`, which says where a run
can be:

- `KOrder`: which command may stand behind which on `<k>` (`May`); only
  `#stopIfError` is behind the last command of a stage, and the set-up is alone;
- `ResumeInv`: of the scheduled transactions only the one being executed can have
  started without a saved context; what is pushed has not started; a program that
  submits has a last group, so what it saves is not the empty context;
- `SetupState`, `StopsLast`: while the set-up is on `<k>` nothing is scheduled and
  there is no verdict; after a success nothing but `#stopIfError` remains.

For `PanicsAreFinal` the account objects are well formed (`WellFormedSetup`): after a
panic in the set-up stage the group still runs and may replace the code, as told
among the divergences.

`CallStackIsAcyclic` adds `Calls`. `CallInv`: a suspended transaction is an application
call that has started, and is neither staged nor being executed. `ActInv`: suspended
applications differ and are active; the running one (`RunningApp`) is active and is
none of them; while nothing has failed, no other application is active. The
second half is what makes the first inductive: an application is put on the stack
by `#initApp`, which looks only at the active ones. The theorems so far are about any
program.

`PopsAreCurrent`, `LastGroupsAreOwn` and `BalancesAreLast` say that the nesting of groups
survives in one deque and one continuation, and rest on `Nesting`, which holds until a
panic or the verdict:

- `Frames`: behind every command for the transaction in front of the deque there is the
  pop of that transaction. Commands of `<k>` are numbered from its end, where no step
  reaches;
- `Counted`: `<k>` has one pop for each suspended transaction, and one for the
  transaction in front while that is executed. So the last pop leaves nothing suspended
  and nothing but the balance check (`BalanceLast`);
- `Line`: a suspended transaction is the first of its group in the deque, behind the
  group it submitted. This is where `#evalNextTx` finds that the group has changed;
- `ContextOwn`, `ContextAhead`: the group a suspended program submitted was sent by its
  application, and what is left of it is in front of the program. Therefore all of it is
  executed when the program resumes (`RunningOwn`);
- `StagedWhere`, `StagedFresh`, `Submitter`: staged transactions exist only while their
  program stages, submits and pushes them; no scheduled transaction has their group;
- `Started`: a call that has not started is scheduled.

Their hypotheses. `Disciplined`: a program that submits nothing evaluates itself again,
and one that ends with something staged leaves it to the next (the finding
`leaked_stage`); TLC shows all three properties violated without it. `WellFormedSetup`:
a panic in the set-up lets the group run and the checks be reached with a code. It is
not needed for `LastGroupIsOwn`, which speaks of runs without a code. `SubmittedTogether`:
the submitted transactions are of one group, as the client submits them; `Line` takes a
change of group for the return to a suspended transaction, and so does the code, which
stops with a transaction in the deque when a stage names two groups. TLC finds
`BalanceCheckIsLast` violated by a malformed account. It finds no counterexample to
`PopsCurrent` there, nor to any of the three with two groups in a stage; the proofs do not
cover these cases.

**Ledger.** `TypeCorrect`: no balance or holding is ever negative.
`MinBalanceCorrect`: if no account starts with holdings, `MinBalanceCounts` is
invariant; it needs `Fresh` (asset ids are below `nextAssetID`, so that a creation
never replaces a holding). `MinBalanceEnforced`: if every account starts with
`PARAM_MIN_BALANCE`, then `MinBalanceHolds`. Its invariant `CInv` says that
untouched accounts are covered, that a command which still has to take algos from an
account names a touched one, and that after acceptance only the check is left. A
minimum balance that rises is the sender's, who is touched; one that falls does no
harm. This is why checking the touched accounts suffices.

`AlgosAreConserved` and `AssetsAreConserved` are about sums over all accounts.
`SumTheorems` proves what they need of the folds of the community modules: a sum is
that of a set without one element plus the element, functions that agree have the
same sum, and changing two places by opposite amounts changes nothing. Where this
takes induction over a finite set, it is done with a smallest counterexample among
the cardinalities. The algos, and the units of each asset, that a command on the way
has still to take or to give are counted with the balances (`Due`): every step then
moves an amount from one account or command to another. `AddressAssumption` makes
the accounts finite, as the cells of the configuration are. `AssetsAreConserved` is
under `SetupAgrees`: the holdings declared for an asset add up to its total, which the
set-up stage does not check. `FrozenHoldingsAreKept` is an action property; it
assumes that the holdings a scenario declares are of assets it declares.

**AppStorage.** `TypeCorrect`. `StateWithinSchema`: a put looks at one map and takes
the key out of the other, so it never leaves more entries than the schema has; by
induction on steps, with the cardinalities of a set with an element more or less.
`BoxesKeepSize`: whichever application puts.
`MinBalanceIsPaidFor`: the minimum balance of an account is the price of what it owns,
a sum over its applications and boxes, less `Uncharged`, which stays what it was at the
start; every creation, deletion, opt-in and
box changes one summand, and the charge is the difference.
`StatePaidFor`: after acceptance an account is below its minimum balance only if the check
missed it, and then only in the one way that the code has. Its invariant `PaidInv` says
that who created an application, opted in to one or calls one in this group is touched,
and that after acceptance the touched accounts are covered; `Apart` that an untouched account
has the balance it was loaded with, and a minimum balance that nothing but boxes has
raised. The start is any network the set-up can load, not an empty one.

**TealStack.** `TypeCorrect` and `ReturnBehindCalls` are proved together: the program
counter stays within the program only because frames return behind calls, and frames
do so only because they were pushed with the counter inside the program. `IInv` is
their conjunction. `SizeDrifts`: under `IInv` every opcode changes stack and
`<stacksize>` by the same amount, unless `Drifts` holds; one lemma per group of opcodes,
from what `Take`, `Drop` and concatenation do to lengths. `ReturnsToCaller`:
`ReturnedProperties` gives the length and each element of what a frame leaves.

**KAVMClient.** `ClientInvariant`: a composer is `SUBMITTED` only while its own group is
being confirmed, and a merge holds exactly the dumped accounts it has taken over.
`GroupCommittedOnce` follows. `ClientImplementsNode`: initial states map to initial
states; `MergeAccount` and the rest map to stuttering, a submission to `Announce`,
the return of a run to `Commit`. For these three what a run does is not expanded: they hold
for whatever `RunGroup` is.

`ApplicationsAreServed` and `ResultsBelong` are about what a run does, a fold over the
places of the group. `MapThenFoldSet` is defined by a choice, so the proof first shows
that there is exactly one function from sets of places to sets of states that starts
with the initial state and evaluates the last place after the others (`Evaluates`; where
this takes induction, with a smallest counterexample, as in `SumTheorems`). `Reached(A, s, n)`
is what holds of a state after `n` transactions on the accounts `A`: exactly the
ids below `n` are confirmed, every application has one creator, and all ids are below
the counter, which only grows. `Keeps(A, s.accts)` says what a group cannot take away:
an application that was loaded stays its creator's, because it cannot be deleted. The
client's invariant is `Serving`: the accounts can be loaded (`Tracked`), each of their
applications is remembered as its creator's (`Remembered`), and a run that has returned
has confirmed the whole group (`AllConfirmed`), with its own responses (`OwnResponses`).
`NoneGone`: no application of a remembered creator is gone, though no creator is ever
forgotten.

**CommandLine.** Under `CommandAssumption` (the directories are not the value that
stands for a missing option): `TypeCorrect`. `StatusesAreVerdicts`: `kavm run`, `prove` and
`kore-repl` end with 0 only if the scenario ended with the code it expects, or the claim is
provable. `FailuresAreReported`: a `run` that failed has shown a configuration, and
a client whose group was rejected gets an `AlgodHTTPError` with the reason, if and only if
`krun` did not crash; after a crash neither is told anything.
`DefinitionsAreCurrent`: after `kompile` has ended with 0 the directory holds a definition,
and after `kompile --backend` with `llvm` or `haskell` one of the sources as they are, for
that backend; after any other backend it may be an old one. The invariant has `Phased` (a
phase is reached by its own commands only), `Handled` (an error exists only once `krun`
has failed, and what each handler has left of it) and `Compiled` (the definition is
current right after the tool ran).

**ScenarioFiles.** `NamesKeepTheirPrograms`: a program keeps the file name it got in an
earlier scenario. A program given as code is named by its hash, and the theorem assumes
that the files there at the start under such a name hold that program
(`Honest(SourceFiles)`); that different programs have different hashes is part of the
model (`HashName`). `TrackedProgramsAreReadable`: between calls, every program that a
tracked account names can be read. It assumes what the SDK guarantees of its objects and
the caller of the files (`SessionCanStart`): lists where lists belong, a type on every
transaction, and the programs of the accounts given at the start among `SourceFiles`.
`ScenariosAreReadable` (`KCanRead`) goes through the defaults key by key: `TypeDefaultsFit`,
`HeaderDefaultsFit` and `CompletedReads` for transactions, `SanitizedReads` for accounts,
`NamedMatches` for the programs that become names. Its invariant is `ReadInv`: tracked
accounts are good enough to be sanitised (`GoodAccount`), those that were read match their
rule (`ReadAccount`), and what a run dumps is good enough again (`DumpedGood`), though it
has null for a key and a new application without a global state. It assumes that the objects
have the keys without a default (`Mandatory`), no unknown ones, and values of the right
types (`SessionReads`); a receiver is among them even for an asset transfer, because its
default is null.

Only model-checked:

- liveness (`Ends`, `SubmissionReturns`) and `EveryStackHasRule`, which
  speaks of ENABLED: out of the prover's reach;
- `ProvedIsAccepted` and `RefusalIsReal`, which compare the run of a claim with that of
  the group. The two start in different states (the divergences above). Both properties
  are stated under `SizeBlind`: the programs called decide for this group as they
  do for one of size 0. The instance has programs that do not, and TLC finds each
  property violated without the hypothesis.

## 5. Not modelled

- *Opcodes that only compute*: byte math, hashing, conversions, comparisons and the
  reading of fields. They change nothing but the top of the stack; as opcodes of two
  integers they are like `+`, as byte strings they need the bytes, which no property
  here tells apart.
- *Rekeying, reserve and clawback addresses*, descriptive parameters, the sizes of keys and
  values, application versions: no other modelled state depends on them.
- *Which fields an `itxn_field` sets*, and reading inner results.
- *The TEAL grammar* (`teal-syntax.md`) and JSON parsing beyond what keys and types
  there are: parsing has no state.
- *`AutoProver`* (`prover.py`): its constructor calls `KAVMProof` and
  `SymbolicAccount` without arguments they require, so no state of it is reached.
  Assets in claims.
- *The K prover, `krun`, `kompile` and the parsers*: external. `CommandLine` lets them
  succeed or fail, `KAVMProof` takes the prover to decide what a claim says.
- *The C++ hooks* (address encoding, mnemonics), scripts, packaging and tests: pure
  conversions and build plumbing.
