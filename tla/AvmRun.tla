------------------------------- MODULE AvmRun -------------------------------
(***************************************************************************)
(* One run of the K semantics as its Python callers see it: the accounts   *)
(* of the "setup-network" stage are loaded, the group is executed, and the *)
(* final state is dumped.  A function of its input: RunGroup is the set of *)
(* final states, with nothing in it when the run fails.                    *)
(*                                                                         *)
(* Kept: balances, minimum balances, applications with the name and the    *)
(* source of their program and whether their extra pages are set, opt-ins, *)
(* and transaction ids (those of inner transactions too).  What programs   *)
(* compute is abstracted: a program approves, in groups of some sizes, and *)
(* the transaction record says what it logs and sends.                     *)
(***************************************************************************)
EXTENDS Integers, Sequences, FiniteSets, FiniteSetsExt, SequencesExt, Functions

CONSTANTS
  Addresses,     \* every address a transaction can mention
  AppIds,        \* application ids: 1 .. n
  AppAddress,    \* id |-> the address of the application's account
  MinBalance,    \* PARAM_MIN_BALANCE
  AppCost        \* what an application or an opt-in adds to the minimum balance

ASSUME AppAssumption ==
  /\ AppIds \subseteq Nat \ {0} /\ IsFiniteSet(AppIds) /\ IsFiniteSet(Addresses)
  /\ AppAddress \in [AppIds -> Addresses]

\* A function with one more argument, or with the value of one replaced
Put(f, x, v) == [y \in DOMAIN f \cup {x} |-> IF y = x THEN v ELSE f[y]]
Drop(f, x)   == Restrict(f, DOMAIN f \ {x})

\* Both functions in one; the value of f, where both have one
f ++ g == [x \in DOMAIN f \cup DOMAIN g |-> IF x \in DOMAIN f THEN f[x] ELSE g[x]]
Nothing      == [x \in {} |-> 0]

\* #addAccountJSON: the minimum balance starts from its default, and the
\* source of a program is looked up by its name.  #addApplicationJSON leaves
\* the extra pages of an application unset.
LoadAccount(acc) ==
  [balance |-> acc.amount, minBalance |-> MinBalance, optedIn |-> acc.localState,
   apps |-> [id \in DOMAIN acc.apps |-> [name |-> acc.apps[id], src |-> acc.apps[id], pages |-> FALSE]]]

\* #dumpAccountJSON: "apps-local-state" is null, and there is no minimum balance.
DumpAccount(acct) ==
  [amount |-> acct.balance, localState |-> {},
   apps |-> [id \in DOMAIN acct.apps |-> acct.apps[id].name]]

NewAccount == LoadAccount([amount |-> 0, localState |-> {}, apps |-> Nothing])

AppsOf(accts) == UNION {DOMAIN accts[a].apps : a \in DOMAIN accts}
CreatorOf(accts, id) == CHOOSE a \in DOMAIN accts : id \in DOMAIN accts[a].apps

\* #setupCounters: application ids count on from the largest that is loaded.
\* #initGlobals: the size of the group is the number of its transactions.
Load(accounts, size) ==
  LET accts == [a \in DOMAIN accounts |-> LoadAccount(accounts[a])] IN
  [accts |-> accts, nextApp |-> 1 + Max({0} \cup AppsOf(accts)),
   confirmed |-> Nothing, pending |-> 0, nextTxn |-> size, groupSize |-> size, touched |-> {}]

-----------------------------------------------------------------------------
(* The transactions.  Each operator is the set of states after t: empty    *)
(* when t fails, which fails the whole run.                                *)
If(guard, s) == IF guard THEN {s} ELSE {}

Exists(s, a)  == a \in DOMAIN s.accts
HasApp(s, id) == id \in AppsOf(s.accts)

\* The account of a changed by one field
With(s, a, field, v) == [s EXCEPT !.accts[a] = [@ EXCEPT ![field] = v]]
AddCost(s, a, n)     == With(s, a, "minBalance", s.accts[a].minBalance + n)

\* #giveAlgos, taken from one account and then given to the other
Give(s, a, n) == IF Exists(s, a) /\ s.accts[a].balance + n >= 0
                 THEN {With(s, a, "balance", s.accts[a].balance + n)} ELSE {}
Pay(s, t) == UNION {Give([r EXCEPT !.touched = @ \cup {t.snd, t.rcv}], t.rcv, t.amt) :
                      r \in Give(s, t.snd, -t.amt)}

\* The creator gets the application, which gets an account: it cannot be
\* added to the map of accounts when its address is there already.
CreateApp(s, t) ==
  LET id == s.nextApp
      s1 == [s EXCEPT !.accts = Put(@, AppAddress[id], NewAccount), !.nextApp = @ + 1]
      s2 == With(s1, t.snd, "apps", Put(s1.accts[t.snd].apps, id, [name |-> t.pgm, src |-> t.pgm, pages |-> TRUE]))
  IN If(id \in AppIds /\ ~Exists(s, AppAddress[id]),
        AddCost(s2, t.snd, AppCost))

\* #updatePrograms: the source changes, the name does not.
UpdateApp(s, t) ==
  LET c == CreatorOf(s.accts, t.app) IN
  If(HasApp(s, t.app),
     With(s, c, "apps", Put(s.accts[c].apps, t.app, [s.accts[c].apps[t.app] EXCEPT !.src = t.pgm])))

\* #deleteApplication computes with the extra pages, so that it has no rule for
\* an application in which they are not set.
DeleteApp(s, t) ==
  LET c == CreatorOf(s.accts, t.app) IN
  If(HasApp(s, t.app) /\ s.accts[c].apps[t.app].pages,
     AddCost(With(s, c, "apps", Drop(s.accts[c].apps, t.app)), c, -AppCost))

OptInApp(s, t) ==
  If(HasApp(s, t.app) /\ t.app \notin s.accts[t.snd].optedIn,
     AddCost(With(s, t.snd, "optedIn", s.accts[t.snd].optedIn \cup {t.app}), t.snd, AppCost))

\* A call whose program approves in groups of the sizes t.sizes, and pays t.amt
\* to t.rcv in an inner transaction, which takes the next transaction id
CallApp(s, t) ==
  IF ~HasApp(s, t.app) \/ s.groupSize \notin t.sizes THEN {}
  ELSE Pay([s EXCEPT !.confirmed = Put(@, s.nextTxn, [app |-> 0, log |-> FALSE]), !.nextTxn = @ + 1],
           [t EXCEPT !.snd = AppAddress[t.app]])

ExecuteTxn(s, t) ==
  CASE t.type = "pay"    -> Pay(s, t)
    [] t.type = "create" -> CreateApp(s, t)
    [] t.type = "update" -> UpdateApp(s, t)
    [] t.type = "delete" -> DeleteApp(s, t)
    [] t.type = "optin"  -> OptInApp(s, t)
    [] t.type = "call"   -> CallApp(s, t)
    [] OTHER             -> {}

\* #evalTx of the next transaction of the deque, whose id is its place in the group
EvalTx(s, t) ==
  {[r EXCEPT !.touched = @ \cup {t.snd}, !.pending = @ + 1,
             !.confirmed = Put(@, s.pending, [app |-> IF t.type = "create" THEN s.nextApp ELSE 0,
                                              log |-> t.log])] :
     r \in IF Exists(s, t.snd) THEN ExecuteTxn(s, t) ELSE {}}

\* #checkSufficientBalance
Sufficient(s) == \A a \in s.touched : s.accts[a].balance >= s.accts[a].minBalance

\* #evalTxGroup in state s, with the transactions in the order of the deque
RunFrom(s, group) ==
  {r \in FoldLeft(LAMBDA ss, t : UNION {EvalTx(x, t) : x \in ss}, {s}, group) : Sufficient(r)}

RunGroup(accounts, group) == RunFrom(Load(accounts, Len(group)), group)

\* #dumpFinalState
DumpAccounts(s) == [a \in DOMAIN s.accts |-> DumpAccount(s.accts[a])]
=============================================================================
