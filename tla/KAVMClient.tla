----------------------------- MODULE KAVMClient -----------------------------
(***************************************************************************)
(* KAVMClient (algod.py): the object that answers the requests of the      *)
(* Algorand SDK in place of a node.  It keeps the accounts, the creators   *)
(* of the applications and the confirmed transactions; a submission adds   *)
(* the addresses it mentions, builds a scenario from the accounts, runs it *)
(* and replaces the accounts by the dumped state.  A composer              *)
(* (KAVMAtomicTransactionComposer.execute) submits its group, waits for    *)
(* it, and reads the results of its method calls.                          *)
(*                                                                         *)
(* One thread: nothing else happens between the steps of a submission.     *)
(* They are steps here because they leave things behind when a later one   *)
(* raises, which all but the loops over a dump can, and because these have *)
(* emptied the accounts before.  Transaction ids are the numbers that the  *)
(* strings "0", "1", ... denote.                                           *)
(***************************************************************************)
EXTENDS AvmRun

CONSTANTS
  Groups,          \* sequences of transactions
  FaucetAddress,   \* faucet_address
  FaucetSupply,    \* FAUCET_ALGO_SUPPLY
  Composers,       \* atomic transaction composers
  Direct,          \* stands for a caller of send_transactions
  Group,           \* composer |-> its group (txn_list)
  Methods,         \* composer |-> index of a method call |-> "void" or "value"
  MaxSubmissions   \* bound: submissions

ASSUME ClientAssumption ==
  /\ Direct \notin Composers /\ MaxSubmissions \in Nat /\ FaucetSupply \in Nat
  /\ Group \in [Composers -> Groups] /\ FaucetAddress \in Addresses
  /\ \A g \in Groups : g \in Seq(Range(g))
                       /\ \A i \in DOMAIN g : {g[i].snd, g[i].rcv} \subseteq Addresses
  /\ \A c \in Composers : DOMAIN Methods[c] \subseteq Nat

VARIABLES
  accounts,       \* _accounts
  appCreators,    \* _app_creators
  committed,      \* _committed_txns: id |-> pending transaction response
  pc,             \* where the submission in progress is
  caller,         \* who submitted it
  group,          \* and what
  final, dump,    \* the final state of the run, and what is left to merge of it
  submissions,    \* how many there were
  raised,         \* the last call raised an error
  status, results \* of the composers

runVars      == <<caller, group, final, dump, submissions>>
composerVars == <<status, results>>
vars == <<accounts, appCreators, committed, pc, runVars, raised, composerVars>>

EmptyAccount  == [amount |-> 0, localState |-> {}, apps |-> Nothing]
FaucetAccount == [EmptyAccount EXCEPT !.amount = FaucetSupply]

Init ==
  /\ accounts = [a \in {FaucetAddress} |-> FaucetAccount]
  /\ appCreators = Nothing /\ committed = Nothing
  /\ pc = "idle" /\ caller = Direct /\ group = <<>>
  /\ final = Nothing /\ dump = Nothing /\ submissions = 0 /\ raised = FALSE
  /\ status = [c \in Composers |-> "SIGNED"]
  /\ results = [c \in Composers |-> <<>>]

-----------------------------------------------------------------------------
(* GET requests.                                                           *)

\* GET accounts: an unknown address has an empty account.
AccountInfo(a) == IF a \in DOMAIN accounts THEN accounts[a] ELSE EmptyAccount

\* GET applications: the application among those of its creator
ApplicationInfo(id) ==
  IF id \in DOMAIN appCreators /\ id \in DOMAIN AccountInfo(appCreators[id]).apps
  THEN [creator |-> appCreators[id]]
  ELSE [error |-> "ValueError"]

\* Ids below 100 in the order of the strings that write them: "1" < "10" < "2"
StringRank(n) == IF n < 10 THEN 100 * n ELSE 100 * (n \div 10) + (n % 10) + 1
LastKey(S)    == CHOOSE n \in S : \A m \in S : StringRank(m) <= StringRank(n)

\* GET transactions/pending: the last of the sorted ids in place of one that is
\* not known
PendingInfo(id) ==
  IF id \in DOMAIN committed THEN committed[id]
  ELSE committed[LastKey(DOMAIN committed)]

-----------------------------------------------------------------------------
(* POST transactions: _eval_transactions.                                  *)
Mentioned(g) == {g[i].snd : i \in DOMAIN g} \cup {g[i].rcv : i \in {j \in DOMAIN g : g[j].type = "pay"}}

\* Mentioned addresses that are not known get an empty account.
Acquaint(g) == [a \in DOMAIN accounts \cup Mentioned(g) |-> AccountInfo(a)]

\* sanitize_transactions looks up the clawback address of an asset
\* configuration without a manager, and raises when there is none either.
Constructible(g) == \A i \in DOMAIN g : g[i].type # "acfg"

\* Faulty: the accounts are forgotten before the run has succeeded.
SubmitForgetting(c, g) ==
  /\ pc = "idle" /\ submissions < MaxSubmissions
  /\ submissions' = submissions + 1 /\ caller' = c /\ group' = g
  /\ accounts' = [a \in Mentioned(g) |-> AccountInfo(a)]
  /\ raised' = ~Constructible(g)
  /\ pc' = IF Constructible(g) THEN "running" ELSE "idle"
  /\ UNCHANGED <<appCreators, committed, final, dump, composerVars>>

Submit(c, g) ==
  /\ pc = "idle" /\ submissions < MaxSubmissions
  /\ submissions' = submissions + 1 /\ caller' = c /\ group' = g
  /\ accounts' = Acquaint(g)
  /\ raised' = ~Constructible(g)
  /\ pc' = IF Constructible(g) THEN "running" ELSE "idle"
  /\ UNCHANGED <<appCreators, committed, final, dump, composerVars>>

SendTransactions == \E g \in Groups : Submit(Direct, g)

\* run_avm_json or the parser of the dumped state raises: AlgodHTTPError.
\* Any run may fail to leave a dump that can be parsed.
RunFails ==
  /\ pc = "running" /\ pc' = "idle" /\ raised' = TRUE
  /\ UNCHANGED <<accounts, appCreators, committed, runVars, composerVars>>

\* Faulty: the dumped accounts are added to those that were there.
RunReturnsAdding ==
  /\ pc = "running" /\ pc' = "merging"
  /\ final' \in RunGroup(accounts, group)
  /\ dump' = DumpAccounts(final')
  /\ UNCHANGED <<accounts, appCreators, committed, caller, group, submissions, raised, composerVars>>

\* The run succeeds, and the tracked accounts are about to be replaced.
RunReturns ==
  /\ pc = "running" /\ pc' = "merging"
  /\ final' \in RunGroup(accounts, group)
  /\ dump' = DumpAccounts(final')
  /\ accounts' = Nothing
  /\ UNCHANGED <<appCreators, committed, caller, group, submissions, raised, composerVars>>

\* Creators are added or replaced, never removed.
CreatorsIn(accts) ==
  [id \in UNION {DOMAIN accts[a].apps : a \in DOMAIN accts} |->
     CHOOSE a \in DOMAIN accts : id \in DOMAIN accts[a].apps] ++ appCreators

\* Faulty: only the accounts that the group mentions are taken over.
MergeMentioned == \E a \in (DOMAIN dump \ DOMAIN accounts) \cap Mentioned(group) :
  /\ pc = "merging"
  /\ accounts' = Put(accounts, a, dump[a])
  /\ appCreators' = CreatorsIn(accounts')
  /\ UNCHANGED <<committed, pc, runVars, raised, composerVars>>

\* Faulty: the creators are collected before the account is taken over.
MergeCreatorsFirst == \E a \in DOMAIN dump \ DOMAIN accounts :
  /\ pc = "merging"
  /\ accounts' = Put(accounts, a, dump[a])
  /\ appCreators' = CreatorsIn(accounts)
  /\ UNCHANGED <<committed, pc, runVars, raised, composerVars>>

\* One turn of the loop over the dumped accounts
MergeAccount == \E a \in DOMAIN dump \ DOMAIN accounts :
  /\ pc = "merging"
  /\ accounts' = Put(accounts, a, dump[a])
  /\ appCreators' = CreatorsIn(accounts')
  /\ UNCHANGED <<committed, pc, runVars, raised, composerVars>>

\* The dumped transactions, with the submission they come from (of)
Confirmed == [id \in DOMAIN final.confirmed |->
                [of |-> <<submissions, id>>] ++ final.confirmed[id]]

\* Faulty: ids that are known already keep their response.
MergeNewTransactions ==
  /\ pc = "merging" /\ DOMAIN accounts = DOMAIN dump
  /\ committed' = committed ++ Confirmed
  /\ raised' = FALSE
  /\ IF caller \in Composers
     THEN pc' = "confirming" /\ status' = [status EXCEPT ![caller] = "SUBMITTED"]
     ELSE pc' = "idle" /\ UNCHANGED status
  /\ UNCHANGED <<accounts, appCreators, runVars, results>>

\* The loop over the dumped transactions, and the return to the caller
MergeTransactions ==
  /\ pc = "merging" /\ DOMAIN accounts = DOMAIN dump
  /\ committed' = Confirmed ++ committed
  /\ raised' = FALSE
  /\ IF caller \in Composers
     THEN pc' = "confirming" /\ status' = [status EXCEPT ![caller] = "SUBMITTED"]
     ELSE pc' = "idle" /\ UNCHANGED status
  /\ UNCHANGED <<accounts, appCreators, runVars, results>>

-----------------------------------------------------------------------------
(* execute of a composer.  A composer whose status is above SUBMITTED      *)
(* raises at once and changes nothing.                                     *)

\* Faulty: the status is not looked at.
ExecuteAgain(c) == Submit(c, Group[c])

Execute(c) == status[c] \in {"SIGNED", "SUBMITTED"} /\ Submit(c, Group[c])

\* The ids of its transactions are overridden by 0, 1, ...; the first is confirmed.
WaitForConfirmation ==
  /\ pc = "confirming" /\ pc' = "collecting"
  /\ status' = [status EXCEPT ![caller] = "COMMITTED"]
  /\ UNCHANGED <<accounts, appCreators, committed, runVars, raised, results>>

\* A method that returns a value must have logged it.
Returned(c, i) == Methods[c][i] = "void" \/ PendingInfo(i).log

\* The results of the method calls, or an error when one is missing
CollectResults ==
  /\ pc = "collecting" /\ pc' = "idle"
  /\ LET calls == {i \in DOMAIN Methods[caller] : i < Len(group)} IN
       /\ raised' = \E i \in calls : ~Returned(caller, i)
       /\ results' = [results EXCEPT ![caller] =
                        IF raised' THEN <<>> ELSE [i \in calls |-> PendingInfo(i)]]
  /\ UNCHANGED <<accounts, appCreators, committed, runVars, status>>

-----------------------------------------------------------------------------
Handle == RunReturns \/ RunFails \/ MergeAccount \/ MergeTransactions
            \/ WaitForConfirmation \/ CollectResults

Next == SendTransactions \/ (\E c \in Composers : Execute(c)) \/ Handle

\* A submission that has begun goes on: nothing else runs in the thread.
Spec == Init /\ [][Next]_vars /\ WF_vars(Handle)

-----------------------------------------------------------------------------
(* Properties.                                                             *)
\* The value of every variable that is not a snapshot of the ledger, and what
\* holds at each place of a submission: a composer is SUBMITTED only until it
\* is confirmed, and a merge has taken over some of the dumped accounts as
\* they are.
TypeOK ==
  /\ pc \in {"idle", "running", "merging", "confirming", "collecting"}
  /\ caller \in Composers \cup {Direct} /\ submissions \in 0 .. MaxSubmissions
  /\ raised \in BOOLEAN /\ status \in [Composers -> {"SIGNED", "SUBMITTED", "COMMITTED"}]
StatusInv ==
  /\ \A c \in Composers : status[c] = "SUBMITTED" => pc = "confirming" /\ c = caller
  /\ pc \in {"running", "merging"} /\ caller \in Composers => status[caller] = "SIGNED"
  /\ pc \in {"confirming", "collecting"} => caller \in Composers
MergeInv ==
  /\ pc # "idle" => group \in Groups
  /\ pc = "merging" => accounts = Restrict(dump, DOMAIN accounts)
                       /\ DOMAIN accounts \subseteq DOMAIN dump
                       /\ dump = Restrict(dump, DOMAIN dump)
SubmissionInv == TypeOK /\ StatusInv /\ MergeInv

\* The node that the client stands in for.  While the accounts are being
\* replaced its ledger is the dump they are replaced by.
NodeLedger == IF pc = "merging" THEN dump ELSE accounts
Outcomes(accs, g) == {DumpAccounts(s) : s \in RunGroup(accs, g)}
Node == INSTANCE AlgodNode WITH ledger <- NodeLedger

\* The client behaves as a node: a submission that raises, wherever it can, leaves
\* the ledger as it was, and one that succeeds replaces all of it, although the
\* accounts are emptied and refilled one by one (_eval_transactions).
ImplementsNode == Node!Spec

\* Between submissions the client serves exactly the applications that exist,
\* each as its creator's, and remembers no other.  _app_creators is never pruned,
\* and need not be: only an application that its own group created can be
\* deleted, and it is in no dump.
AppsServed == pc = "idle" =>
  /\ DOMAIN appCreators \subseteq AppsOf(accounts)
  /\ \A id \in AppIds, a \in DOMAIN accounts :
       id \in DOMAIN accounts[a].apps <=> ApplicationInfo(id) = [creator |-> a]

\* What a composer returns for its i-th transaction is the response of that very
\* transaction of that very submission: not of an earlier group, though every
\* group numbers its transactions from 0, nor of an inner transaction.
ResultsAreOwn == [][\A c \in Composers : results'[c] # results[c] =>
  \A i \in DOMAIN results'[c] : results'[c][i].of = <<submissions, i>>]_vars

\* The group of a composer takes effect once: it can be executed again after a
\* submission that raised, and not after one whose results were missing.
CommittedOnce == [][pc = "running" /\ pc' = "merging" /\ caller \in Composers =>
                      status[caller] = "SIGNED"]_vars

\* Every submission comes back to its caller.
SubmissionReturns == pc # "idle" ~> pc = "idle"
=============================================================================
