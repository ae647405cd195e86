------------------------------ MODULE KAVMProof -----------------------------
(***************************************************************************)
(* Claims: what KAVMProof (proof.py) builds from accounts and transactions *)
(* with symbolic amounts, and what it means that the K prover proves it.   *)
(* A claim says that every run of #evalTxGroup from its left-hand side, in *)
(* every state that satisfies its requires clause, ends in a state that    *)
(* matches its right-hand side and its ensures clause; the prover itself   *)
(* is external, and taken to decide just that.                             *)
(*                                                                         *)
(* Kept of a cell: balance and minimum balance, applications, opt-ins.  A  *)
(* term of sort Int is a constant with variables added to it; integers are *)
(* as far out as Ints goes.                                                *)
(***************************************************************************)
EXTENDS AvmRun, TLC

CONSTANTS
  Vars,          \* variables of sort Int
  MaxUint,       \* 2^64 - 1
  Ints,          \* bound: the integers that variables range over
  Accounts,      \* what the accounts of a proof may be
  Groups,        \* sequences of transactions with an amount that is a term
  Preconditions, \* conditions to be required
  Postconditions,
  MaxConditions  \* bound: conditions added to one proof

ASSUME ProofAssumption ==
  /\ MaxUint \in Nat /\ 0..MaxUint \subseteq Ints /\ Ints \subseteq Int
  /\ IsFiniteSet(Ints) /\ IsFiniteSet(Vars) /\ MaxConditions \in Nat

VARIABLES
  accts,    \* _accounts: address |-> account
  txns,     \* _txns_pre
  pre,      \* _preconditions
  post,     \* _postconditions
  phase     \* "new", then "open", "proved", "refused" or "raised"

vars == <<accts, txns, pre, post, phase>>

-----------------------------------------------------------------------------
(* Terms and conditions.  Var(v) is a variable of the left-hand side,      *)
(* Evar(v) the existential one the constructor makes for it.               *)
Var(v)   == [name |-> v, post |-> FALSE]
Evar(v)  == [name |-> v, post |-> TRUE]

Token(n)         == [const |-> n, plus |-> {}, minus |-> {}]
Term(n, P, M)    == [const |-> n, plus |-> P, minus |-> M]
IsVariable(t)    == t.const = 0 /\ t.minus = {} /\ Cardinality(t.plus) = 1
Occurring(t)     == t.plus \cup t.minus
Value(t, sigma)  == t.const + MapThenSumSet(LAMBDA x : sigma[x], t.plus)
                            - MapThenSumSet(LAMBDA x : sigma[x], t.minus)

\* #range(lo <= t <= hi); an equation is a range with equal bounds.
Between(lo, t, hi) == [lo |-> lo, term |-> t, hi |-> hi]
Holds(c, sigma)   == /\ Value(c.lo, sigma) <= Value(c.term, sigma)
                     /\ Value(c.term, sigma) <= Value(c.hi, sigma)
RangeUInt(x)      == Between(Token(0), Term(0, {x}, {}), Token(MaxUint))

-----------------------------------------------------------------------------
(* The parts of a claim.                                                   *)
\* account_cell: the minimum balance is MIN_BALANCE unless one is given.
AccountCell(a) ==
  [balance |-> a.amount,
   minBalance |-> IF "minBalance" \in DOMAIN a THEN a.minBalance ELSE Token(MinBalance)]
Cells == [a \in DOMAIN accts |-> AccountCell(accts[a])]

\* collect_vars: the values of an account that are variables.
CollectVars(a) == UNION {t.plus : t \in {u \in Range(AccountCell(a)) : IsVariable(u)}}
\* _collect_lhs_vars
LhsVars == UNION {CollectVars(accts[a]) : a \in DOMAIN accts}
             \cup UNION {Occurring(txns[i].amt) : i \in DOMAIN txns}

\* Faulty: variables are any integers.
NoRangePredicates == {}

RangePredicates == {RangeUInt(x) : x \in LhsVars}
Requires        == pre \cup RangePredicates

\* Faulty: the last transaction is evaluated first.
BuildDequeReversed == [i \in DOMAIN txns |-> Len(txns) - i]

\* The ids are the positions in the list of transactions.
BuildDeque == [i \in DOMAIN txns |-> i - 1]

\* build_claim, left-hand side: what is not set keeps its initial value, so
\* the group has size 0.  The cell of an application has its extra pages.
Lhs(sigma) ==
  [accts |-> [a \in DOMAIN accts |->
      [LoadAccount([amount |-> Value(Cells[a].balance, sigma), localState |-> {},
                    apps |-> accts[a].apps])
       EXCEPT !.minBalance = Value(Cells[a].minBalance, sigma),
              !.apps = [id \in DOMAIN @ |-> [@[id] EXCEPT !.pages = TRUE]]]],
   nextApp |-> 2, confirmed |-> Nothing, pending |-> 0, nextTxn |-> Len(txns),
   groupSize |-> 0, touched |-> {}]

Concrete(t, sigma) == [t EXCEPT !.amt = Value(t.amt, sigma)]
Runs(sigma) == RunFrom(Lhs(sigma), [i \in DOMAIN txns |-> Concrete(txns[BuildDeque[i] + 1], sigma)])

\* Right-hand side: variables become their existential variables, and every
\* other leaf of a cell one of its own, its address included.
Kept(t) == IF IsVariable(t) THEN {Evar(x.name) : x \in t.plus \cap LhsVars} ELSE {}

\* The account cells of the claim, matched with the accounts of a final state.
\* One application has a cell with leaves of its own; none or many are a leaf.
Matchings(s) ==
  {m \in Bijection(DOMAIN accts, DOMAIN s.accts) :
     \A a \in DOMAIN accts : Cardinality(DOMAIN accts[a].apps) = 1
                            => Cardinality(DOMAIN s.accts[m[a]].apps) = 1}

\* What the existential variables may stand for under a matching
Solutions(s, m) ==
  {e \in [{Evar(x.name) : x \in LhsVars} -> Ints] :
     \A a \in DOMAIN accts : \A f \in {"balance", "minBalance"} :
       \A x \in Kept(Cells[a][f]) : e[x] = s.accts[m[a]][f]}

Creators(s) == [id \in AppsOf(s.accts) |-> CreatorOf(s.accts, id)]

\* The ensures clause, of the variables before and after
Ensured(sigma, e) == \A c \in post : Holds(c, sigma @@ e)

MatchesRhs(sigma, s) ==
  /\ Creators(s) = Creators(Lhs(sigma))
  /\ \E m \in Matchings(s) : \E e \in Solutions(s, m) : Ensured(sigma, e)

\* The variables of the claim, each given a value
Valuations == [{Var(v) : v \in Vars} -> Ints]

Valid == \A sigma \in Valuations :
  (\A c \in Requires : Holds(c, sigma)) =>
    Runs(sigma) # {} /\ \A s \in Runs(sigma) : MatchesRhs(sigma, s)
-----------------------------------------------------------------------------
(* The operations of a proof.                                              *)
Init == accts = Nothing /\ txns = <<>> /\ pre = {} /\ post = {} /\ phase = "new"

\* opt_in_app_cell and transaction_k_term raise for what they do not know.
Supported(as, g) ==
  /\ \A a \in DOMAIN as : as[a].localState = {}
  /\ \A i \in DOMAIN g : g[i].type \in {"pay", "create", "update", "delete", "optin", "call"}

\* __init__, without conditions or with one
New ==
  /\ phase = "new"
  /\ accts' \in Accounts /\ txns' \in Groups
  /\ pre' \in {{}} \cup {{c} : c \in Preconditions}
  /\ phase' = IF Supported(accts', txns') THEN "open" ELSE "raised"
  /\ UNCHANGED post

Extensible == phase \in {"open", "proved"} /\ Cardinality(pre) + Cardinality(post) < MaxConditions

Require ==
  /\ Extensible /\ \E c \in Preconditions : pre' = pre \cup {c}
  /\ phase' = "open" /\ UNCHANGED <<accts, txns, post>>

\* A postcondition takes its existential variables from _evar_mapping.
Expressible(c) == \A t \in Range(c) : \A x \in Occurring(t) : x.post => Var(x.name) \in LhsVars
Ensure ==
  /\ Extensible /\ \E c \in Postconditions : Expressible(c) /\ post' = post \cup {c}
  /\ phase' = "open" /\ UNCHANGED <<accts, txns, pre>>

\* prove: #Top or a state that the prover is left with
Prove ==
  /\ phase = "open" /\ phase' = IF Valid THEN "proved" ELSE "refused"
  /\ UNCHANGED <<accts, txns, pre, post>>

\* KAVM_VERIFICATION_DEFINITION_DIR is not set.
ProveNowhere ==
  /\ phase = "open" /\ phase' = "raised"
  /\ UNCHANGED <<accts, txns, pre, post>>

\* report_failure ends the process.
ReportFailure ==
  /\ phase = "refused" /\ phase' = "exited"
  /\ UNCHANGED <<accts, txns, pre, post>>

Next == New \/ Require \/ Ensure \/ Prove \/ ProveNowhere \/ ReportFailure
Spec == Init /\ [][Next]_vars

-----------------------------------------------------------------------------
(* What a claim is about: a network with the accounts of the proof, whose  *)
(* minimum balances are those of the proof, on which the scenario driver   *)
(* evaluates the group.                                                    *)
Network(sigma) ==
  LET s == Load([a \in DOMAIN accts |-> [amount |-> Value(Cells[a].balance, sigma),
                                        localState |-> {}, apps |-> accts[a].apps]], Len(txns))
  IN [s EXCEPT !.accts = [a \in DOMAIN accts |->
                            [@[a] EXCEPT !.minBalance = Value(Cells[a].minBalance, sigma)]]]

NetworkRuns(sigma) == RunFrom(Network(sigma), [i \in DOMAIN txns |-> Concrete(txns[i], sigma)])

\* What occurs in accounts and transactions are uint64 values.
Amounts  == UNION {Occurring(t) : t \in UNION {Range(Cells[a]) : a \in DOMAIN accts}
                                         \cup {txns[i].amt : i \in DOMAIN txns}}
Admitted == {sigma \in Valuations : (\A x \in Amounts : sigma[x] \in 0..MaxUint)
                                    /\ \A c \in pre : Holds(c, sigma)}

\* The postconditions hold, an existential variable being what its variable
\* has become where it stood.
EnsuredInPlace(sigma, s) == DOMAIN s.accts = DOMAIN accts
  /\ \E e \in Solutions(s, [a \in DOMAIN accts |-> a]) : Ensured(sigma, e)

\* The programs that are called decide alike for this group and for one of size 0,
\* which is what they see in a claim: it starts behind #initGlobals, with the size,
\* the round and the timestamp at 0.  Of these a program here looks at the size.
SizeBlind == \A i \in DOMAIN txns : 0 \in txns[i].sizes <=> Len(txns) \in txns[i].sizes

\* A claim about such programs is proved only if every network it is about accepts
\* the group, and ends in accounts of which the postconditions hold.
ProvedIsAccepted == phase = "proved" /\ SizeBlind =>
  \A sigma \in Admitted :
    NetworkRuns(sigma) # {} /\ \A s \in NetworkRuns(sigma) : MatchesRhs(sigma, s)

\* A claim about such programs is refused only for a reason: amounts of uint64 with
\* which the group is rejected, makes an account the claim has no cell for, or ends
\* in accounts that break the postconditions.
RefusalIsReal == phase = "refused" /\ SizeBlind =>
  \E sigma \in Admitted :
    NetworkRuns(sigma) = {} \/ \E s \in NetworkRuns(sigma) : ~EnsuredInPlace(sigma, s)

\* "existential variables that the lhs vars rewrite to" (proof.py:186): what is
\* proved of ?X_POST holds of the account that X is the balance of.
ProvedIsEnsured == phase = "proved" =>
  \A sigma \in Admitted : \A s \in NetworkRuns(sigma) : EnsuredInPlace(sigma, s)
=============================================================================
