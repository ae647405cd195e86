---------------------------- MODULE LedgerProofs ----------------------------
(***************************************************************************)
(* Proofs about Ledger: types (no balance or holding is ever negative),    *)
(* the minimum balance as a count of holdings, and that an accepted group  *)
(* leaves every account its minimum balance.                               *)
(***************************************************************************)
EXTENDS Ledger, SumTheorems, FiniteSetTheorems, SequenceTheorems, TLAPS

-----------------------------------------------------------------------------
(* Finite maps.                                                            *)

\* With adds a key, and changes nothing else.
LEMMA WithType ==
  ASSUME NEW S, NEW f, IsAssetMap(f, S), NEW id \in Nat \ {0}, NEW v \in S
  PROVE  /\ IsAssetMap(With(f, id, v), S)
         /\ DOMAIN With(f, id, v) = DOMAIN f \cup {id}
         /\ With(f, id, v)[id] = v
         /\ \A x \in DOMAIN f \ {id} : With(f, id, v)[x] = f[x]
<1>1. IsFiniteSet(DOMAIN f \cup {id})
  BY FS_AddElement DEF IsAssetMap
<1> QED BY <1>1 DEF IsAssetMap, With

\* Without removes a key, and changes nothing else.
LEMMA WithoutType ==
  ASSUME NEW S, NEW f, IsAssetMap(f, S), NEW id
  PROVE  /\ IsAssetMap(Without(f, id), S)
         /\ DOMAIN Without(f, id) = DOMAIN f \ {id}
         /\ \A x \in DOMAIN f \ {id} : Without(f, id)[x] = f[x]
<1>1. IsFiniteSet(DOMAIN f \ {id})
  BY FS_RemoveElement DEF IsAssetMap
<1> QED BY <1>1 DEF IsAssetMap, Without, Restrict

\* Changing the amount of a holding leaves the other holdings as they are.
LEMMA AmountType ==
  ASSUME NEW f, IsAssetMap(f, Holding), NEW id \in DOMAIN f, NEW n \in Nat
  PROVE  LET g == [f EXCEPT ![id].amount = n] IN
         /\ IsAssetMap(g, Holding) /\ DOMAIN g = DOMAIN f
         /\ g[id].amount = n /\ g[id].frozen = f[id].frozen
         /\ \A x \in DOMAIN f \ {id} : g[x] = f[x]
<1> DEFINE g == [f EXCEPT ![id].amount = n]
<1>1. f \in [DOMAIN f -> Holding] /\ f[id] \in Holding
  BY DEF IsAssetMap
<1>2. [f[id] EXCEPT !.amount = n] \in Holding
      /\ [f[id] EXCEPT !.amount = n].amount = n
      /\ [f[id] EXCEPT !.amount = n].frozen = f[id].frozen
  BY <1>1 DEF Holding
<1>3. g = [f EXCEPT ![id] = [f[id] EXCEPT !.amount = n]]
  BY <1>1
<1> QED BY <1>1, <1>2, <1>3 DEF IsAssetMap

\* So does freezing or unfreezing one.
LEMMA FrozenType ==
  ASSUME NEW f, IsAssetMap(f, Holding), NEW id \in DOMAIN f, NEW b \in BOOLEAN
  PROVE  LET g == [f EXCEPT ![id].frozen = b] IN
         /\ IsAssetMap(g, Holding) /\ DOMAIN g = DOMAIN f
         /\ \A x \in DOMAIN f : g[x].amount = f[x].amount
<1> DEFINE g == [f EXCEPT ![id].frozen = b]
<1>1. f \in [DOMAIN f -> Holding] /\ f[id] \in Holding
  BY DEF IsAssetMap
<1>2. [f[id] EXCEPT !.frozen = b] \in Holding
      /\ [f[id] EXCEPT !.frozen = b].amount = f[id].amount
  BY <1>1 DEF Holding
<1>3. g = [f EXCEPT ![id] = [f[id] EXCEPT !.frozen = b]]
  BY <1>1
<1> QED BY <1>1, <1>2, <1>3 DEF IsAssetMap

\* The same of the two kinds of map the ledger has.
LEMMA WithHolding ==
  \A f : IsAssetMap(f, Holding) => \A id \in Nat \ {0}, h \in Holding :
    /\ IsAssetMap(With(f, id, h), Holding)
    /\ DOMAIN With(f, id, h) = DOMAIN f \cup {id} /\ With(f, id, h)[id] = h
    /\ \A x \in DOMAIN f \ {id} : With(f, id, h)[x] = f[x]
BY WithType

\* f with another amount under id, and the same of it.
WithAmount(f, id, n) == [f EXCEPT ![id].amount = n]

LEMMA HoldingAmount ==
  \A f : IsAssetMap(f, Holding) => \A id \in DOMAIN f, n \in Nat :
    /\ IsAssetMap(WithAmount(f, id, n), Holding)
    /\ DOMAIN WithAmount(f, id, n) = DOMAIN f
    /\ WithAmount(f, id, n)[id].amount = n /\ WithAmount(f, id, n)[id].frozen = f[id].frozen
    /\ \A x \in DOMAIN f \ {id} : WithAmount(f, id, n)[x] = f[x]
BY AmountType DEF WithAmount

\* The same of Without, for holdings.
LEMMA WithoutHolding ==
  \A f : IsAssetMap(f, Holding) => \A id :
    /\ IsAssetMap(Without(f, id), Holding)
    /\ DOMAIN Without(f, id) = DOMAIN f \ {id}
    /\ \A x \in DOMAIN f \ {id} : Without(f, id)[x] = f[x]
BY WithoutType

\* The same of both, for assets.
LEMMA AssetMaps ==
  \A f : IsAssetMap(f, AssetParams) =>
    /\ \A id \in Nat \ {0}, p \in AssetParams :
         /\ IsAssetMap(With(f, id, p), AssetParams)
         /\ DOMAIN With(f, id, p) = DOMAIN f \cup {id}
    /\ \A id : /\ IsAssetMap(Without(f, id), AssetParams)
               /\ DOMAIN Without(f, id) = DOMAIN f \ {id}
<1>1. \A f : IsAssetMap(f, AssetParams) => \A id \in Nat \ {0}, p \in AssetParams :
        /\ IsAssetMap(With(f, id, p), AssetParams)
        /\ DOMAIN With(f, id, p) = DOMAIN f \cup {id}
  BY WithType
<1>2. \A f : IsAssetMap(f, AssetParams) => \A id :
        /\ IsAssetMap(Without(f, id), AssetParams)
        /\ DOMAIN Without(f, id) = DOMAIN f \ {id}
  BY WithoutType
<1> QED BY <1>1, <1>2

-----------------------------------------------------------------------------
(* Types.                                                                  *)
HoldingsOK == DOMAIN holdings = Accounts /\ \A a \in Accounts : IsAssetMap(holdings[a], Holding)
ContOK     == k \in Seq(Command) /\ returncode \in ReturnCodes
GroupOK    == touchedAccounts \subseteq Addresses /\ submitted \in 0..MaxTxns
LedgerOK   == /\ balance \in [Accounts -> Nat] /\ minBalance \in [Accounts -> Int]
              /\ IsAssetMap(assets, AssetParams) /\ HoldingsOK
              /\ nextAssetID \in Nat \ {0}

TInv == ContOK /\ GroupOK /\ LedgerOK

\* The commands transactions become, field by field.
LEMMA CommandFields ==
  /\ \A c \in Ops : Cmd(c) = [op |-> c, asset |-> 0, account |-> ZeroAddress,
                              amount |-> 0, to |-> ZeroAddress]
  /\ \A a, n : GiveAlgosTo(a, n) =
       [op |-> "giveAlgos", asset |-> 0, account |-> a, amount |-> n, to |-> ZeroAddress]
  /\ \A id, a, n : GiveAssetTo(id, a, n) =
       [op |-> "giveAsset", asset |-> id, account |-> a, amount |-> n, to |-> ZeroAddress]
  /\ \A id, a, b : CloseToFor(id, a, b) =
       [op |-> "closeTo", asset |-> id, account |-> a, amount |-> 0, to |-> b]
BY DEF Cmd, CmdOf, GiveAlgosTo, GiveAssetTo, CloseToFor

\* The commands the transactions become are commands.
LEMMA CommandTypes ==
  /\ \A c \in Ops : Cmd(c) \in Command
  /\ \A a \in Addresses, n \in Int : GiveAlgosTo(a, n) \in Command
  /\ \A id \in Nat, a \in Addresses, n \in Int : GiveAssetTo(id, a, n) \in Command
  /\ \A id \in Nat, a, b \in Addresses : CloseToFor(id, a, b) \in Command
<1>1. ZeroAddress \in Addresses /\ {"giveAlgos", "giveAsset", "closeTo"} \subseteq Ops
  BY DEF Addresses, Ops
<1> QED BY <1>1, CommandFields DEF Command

\* The command at the head of <k>, and what follows it.
LEMMA HeadType ==
  ASSUME TInv, k # <<>>
  PROVE  /\ Head(k) \in Command /\ Tail(k) \in Seq(Command)
         /\ Head(k).amount \in Int /\ Head(k).asset \in Nat
<1>1. Head(k) \in Command /\ Tail(k) \in Seq(Command)
  BY DEF TInv, ContOK
<1> QED BY <1>1 DEF Command

\* Prepending commands to <k>.
LEMMA BecomesType ==
  ASSUME TInv, NEW s \in Seq(Command), Becomes(s)
  PROVE  ContOK' /\ LedgerOK'
BY DEF TInv, ContOK, LedgerOK, HoldingsOK, Becomes, ledger

\* A panic leaves the continuation empty.
LEMMA PanicType ==
  ASSUME TInv, NEW code \in ReturnCodes, Panic(code)
  PROVE  ContOK'
BY DEF Panic, ContOK

\* The commands after one that is done are still a continuation.
LEMMA DoneType ==
  ASSUME TInv, k # <<>>, Done, UNCHANGED returncode
  PROVE  ContOK'
BY DEF TInv, ContOK, Done

\* The counters of the group, after another transaction.
LEMMA EvaluateType ==
  ASSUME TInv, NEW t \in SUBSET Addresses, Evaluate(t)
  PROVE  GroupOK'
BY NumberAssumption DEF TInv, GroupOK, Evaluate

\* A step that leaves the ledger alone keeps its types.
LEMMA SameLedger ==
  ASSUME TInv, UNCHANGED ledger
  PROVE  LedgerOK'
BY DEF TInv, LedgerOK, HoldingsOK, ledger

\* One account's holdings are replaced.
LEMMA OneHolding ==
  ASSUME HoldingsOK, NEW a \in Accounts, NEW f, IsAssetMap(f, Holding),
         holdings' = [holdings EXCEPT ![a] = f]
  PROVE  /\ HoldingsOK'
         /\ holdings'[a] = f /\ \A b \in Accounts \ {a} : holdings'[b] = holdings[b]
BY DEF HoldingsOK

\* The codes, one by one.
LEMMA Codes ==
  {SUCCESS, STUCK, INSUFFICIENT_FUNDS, UNKNOWN_ADDRESS, ASSET_FROZEN, ASSET_NOT_OPT_IN,
   ASSET_NOT_FOUND, ASSET_NO_PERMISSION, INSUFFICIENT_ASSET_BALANCE,
   MIN_BALANCE_VIOLATION} \subseteq ReturnCodes
BY DEF ReturnCodes

\* The initial state is typed.
LEMMA InitType == Init => TInv
<1> SUFFICES ASSUME Init PROVE TInv
  OBVIOUS
<1>1. ContOK
  BY CommandTypes, Codes DEF Init, ContOK, Ops
<1>2. GroupOK
  BY NumberAssumption DEF Init, GroupOK
<1>3. LedgerOK
  <2>1. nextAssetID \in Nat \ {0}
    BY SetupAssumption DEF Init, IsAssetMap
  <2>2. HoldingsOK
    BY SetupAssumption DEF Init, HoldingsOK
  <2> QED BY <2>1, <2>2, SetupAssumption, NumberAssumption DEF Init, LedgerOK
<1> QED BY <1>1, <1>2, <1>3 DEF TInv

\* Transactions that only prepend commands, and those that panic at once.
LEMMA BeginType ==
  TInv /\ (Pay \/ TransferAsset \/ OptOutAsset) => TInv'
<1> SUFFICES ASSUME TInv PROVE Pay \/ TransferAsset \/ OptOutAsset => TInv'
  OBVIOUS
<1>1. DOMAIN assets \subseteq Nat /\ Accounts \subseteq Addresses
  BY DEF TInv, LedgerOK, IsAssetMap, Addresses
<1>2. ASSUME NEW s \in Accounts, NEW r \in Addresses, NEW n \in Amounts,
             Evaluate({s, r}), Becomes(<<GiveAlgosTo(s, -n), GiveAlgosTo(r, n)>>)
      PROVE  TInv'
  <2>1. GiveAlgosTo(s, -n) \in Command /\ GiveAlgosTo(r, n) \in Command
    BY <1>1, CommandTypes, NumberAssumption
  <2>2. <<GiveAlgosTo(s, -n), GiveAlgosTo(r, n)>> \in Seq(Command) /\ {s, r} \in SUBSET Addresses
    BY <1>1, <2>1
  <2> QED BY <1>2, <2>2, BecomesType, EvaluateType DEF TInv
<1>3. ASSUME NEW s \in Accounts, NEW r \in Accounts, NEW id \in DOMAIN assets, NEW n \in Amounts,
             Evaluate({s}), Becomes(<<GiveAssetTo(id, s, -n), GiveAssetTo(id, r, n)>>)
      PROVE  TInv'
  <2>1. GiveAssetTo(id, s, -n) \in Command /\ GiveAssetTo(id, r, n) \in Command
    BY <1>1, CommandTypes, NumberAssumption
  <2>2. <<GiveAssetTo(id, s, -n), GiveAssetTo(id, r, n)>> \in Seq(Command)
        /\ {s} \in SUBSET Addresses
    BY <1>1, <2>1
  <2> QED BY <1>3, <2>2, BecomesType, EvaluateType DEF TInv
<1>4. ASSUME NEW s \in Accounts, NEW r \in Addresses, NEW c \in Addresses,
             NEW id \in DOMAIN assets, NEW n \in Amounts, Evaluate({s}),
             Becomes(<<GiveAssetTo(id, s, -n), GiveAssetTo(id, r, n), CloseToFor(id, s, c)>>)
      PROVE  TInv'
  <2>1. /\ GiveAssetTo(id, s, -n) \in Command /\ GiveAssetTo(id, r, n) \in Command
        /\ CloseToFor(id, s, c) \in Command
    BY <1>1, CommandTypes, NumberAssumption
  <2>2. <<GiveAssetTo(id, s, -n), GiveAssetTo(id, r, n), CloseToFor(id, s, c)>> \in Seq(Command)
        /\ {s} \in SUBSET Addresses
    BY <1>1, <2>1
  <2> QED BY <1>4, <2>2, BecomesType, EvaluateType DEF TInv
<1> QED BY <1>2, <1>3, <1>4 DEF Pay, TransferAsset, OptOutAsset

Refused == \/ PayInsufficientFunds \/ PayUnknownAddress \/ AssetNoPermission
           \/ TransferNotOptedIn \/ TransferNotFound \/ TransferFrozen

\* A refused transaction touches its sender and panics.
LEMMA RefusedEffect ==
  ASSUME Refused
  PROVE  /\ \E s \in Accounts : Evaluate({s})
         /\ \E code \in ReturnCodes \ {SUCCESS, STUCK} : Panic(code)
         /\ UNCHANGED ledger
<1>1. {INSUFFICIENT_FUNDS, UNKNOWN_ADDRESS, ASSET_FROZEN, ASSET_NOT_OPT_IN,
       ASSET_NOT_FOUND, ASSET_NO_PERMISSION} \subseteq ReturnCodes \ {SUCCESS, STUCK}
  BY DEF ReturnCodes, SUCCESS, STUCK, INSUFFICIENT_FUNDS, UNKNOWN_ADDRESS, ASSET_FROZEN,
         ASSET_NOT_OPT_IN, ASSET_NOT_FOUND, ASSET_NO_PERMISSION
<1>2. \E s \in Accounts : Evaluate({s})
  BY DEF Refused, PayInsufficientFunds, PayUnknownAddress, AssetNoPermission,
         TransferNotOptedIn, TransferNotFound, TransferFrozen
<1>3. UNCHANGED ledger
  BY DEF Refused, PayInsufficientFunds, PayUnknownAddress, AssetNoPermission,
         TransferNotOptedIn, TransferNotFound, TransferFrozen
<1>4. \E code \in ReturnCodes \ {SUCCESS, STUCK} : Panic(code)
  BY <1>1 DEF Refused, PayInsufficientFunds, PayUnknownAddress, AssetNoPermission,
         TransferNotOptedIn, TransferNotFound, TransferFrozen
<1> QED BY <1>2, <1>3, <1>4

-----------------------------------------------------------------------------
(* What each of the other actions does to holdings and minimum balances.   *)
\* #giveAlgos refuses rather than let a balance become negative.
LEMMA GiveAlgosStep == TInv /\ GiveAlgos => TInv'
<1> SUFFICES ASSUME TInv, GiveAlgos PROVE TInv'
  OBVIOUS
<1>1. /\ k # <<>> /\ k \in Seq(Command) /\ Head(k) \in Command
      /\ Head(k).account \in Accounts /\ Head(k).amount \in Int
      /\ UNCHANGED <<minBalance, assets, holdings, nextAssetID, touchedAccounts, submitted>>
  BY HeadType DEF TInv, ContOK, GiveAlgos, Next1
<1>2. balance' \in [Accounts -> Nat]
  BY <1>1 DEF TInv, LedgerOK, GiveAlgos
<1>3. ContOK'
  BY <1>1, DoneType, PanicType, Codes DEF GiveAlgos
<1> QED BY <1>1, <1>2, <1>3 DEF TInv, LedgerOK, HoldingsOK, GroupOK

\* One more holding, at its price.
Gains(a, id) ==
  /\ HoldingsOK' /\ a \in Accounts
  /\ DOMAIN holdings'[a] = DOMAIN holdings[a] \cup {id}
  /\ \A x \in DOMAIN holdings[a] \ {id} : holdings'[a][x] = holdings[a][x]
  /\ \A b \in Accounts \ {a} : holdings'[b] = holdings[b]
  /\ minBalance' = [minBalance EXCEPT ![a] = @ + PARAM_MIN_BALANCE]

\* One holding less.
Loses(a, id) ==
  /\ HoldingsOK' /\ a \in Accounts /\ id \in DOMAIN holdings[a]
  /\ DOMAIN holdings'[a] = DOMAIN holdings[a] \ {id}
  /\ \A x \in DOMAIN holdings[a] \ {id} : holdings'[a][x] = holdings[a][x]
  /\ \A b \in Accounts \ {a} : DOMAIN holdings'[b] = DOMAIN holdings[b]
  /\ minBalance' = [minBalance EXCEPT ![a] = @ - PARAM_MIN_BALANCE]

\* The same holdings, whatever their amounts.
Keeps == /\ HoldingsOK' /\ minBalance' = minBalance
         /\ \A a \in Accounts : DOMAIN holdings'[a] = DOMAIN holdings[a]

\* A holding is added and paid for.
LEMMA GainsType ==
  ASSUME TInv, NEW a \in Accounts, NEW id \in Nat \ {0}, NEW h \in Holding,
         holdings' = [holdings EXCEPT ![a] = With(@, id, h)],
         minBalance' = [minBalance EXCEPT ![a] = @ + PARAM_MIN_BALANCE]
  PROVE  Gains(a, id) /\ minBalance' \in [Accounts -> Int]
<1>1. HoldingsOK /\ IsAssetMap(holdings[a], Holding)
  BY DEF TInv, LedgerOK, HoldingsOK
<1> DEFINE f == With(holdings[a], id, h)
<1>2. /\ IsAssetMap(f, Holding) /\ DOMAIN f = DOMAIN holdings[a] \cup {id}
      /\ \A x \in DOMAIN holdings[a] \ {id} : f[x] = holdings[a][x]
  BY <1>1, WithHolding
<1>3. holdings' = [holdings EXCEPT ![a] = f]
  OBVIOUS
<1> HIDE DEF f
<1>4. HoldingsOK' /\ holdings'[a] = f /\ \A b \in Accounts \ {a} : holdings'[b] = holdings[b]
  BY <1>1, <1>2, <1>3, OneHolding
<1>5. minBalance' \in [Accounts -> Int]
  BY NumberAssumption DEF TInv, LedgerOK
<1> QED BY <1>2, <1>4, <1>5 DEF Gains

\* The creator of an asset gains a holding under a new id.
LEMMA CreateEffect ==
  ASSUME TInv, CreateAsset
  PROVE  /\ TInv' /\ UNCHANGED <<k, returncode, balance>>
         /\ \E a \in Accounts : Evaluate({a}) /\ Gains(a, nextAssetID)
         /\ DOMAIN assets' = DOMAIN assets \cup {nextAssetID}
         /\ nextAssetID' = nextAssetID + 1
<1>1. PICK p \in AssetParams :
        /\ Evaluate({p.creator})
        /\ assets' = With(assets, nextAssetID, p)
        /\ holdings' = [holdings EXCEPT ![p.creator] =
             With(@, nextAssetID, [amount |-> p.total, frozen |-> p.defaultFrozen])]
        /\ minBalance' = [minBalance EXCEPT ![p.creator] = @ + PARAM_MIN_BALANCE]
        /\ nextAssetID' = nextAssetID + 1
        /\ UNCHANGED <<k, returncode, balance>>
  BY NumberAssumption DEF CreateAsset, AssetParams
<1>2. /\ p.creator \in Accounts /\ nextAssetID \in Nat \ {0}
      /\ [amount |-> p.total, frozen |-> p.defaultFrozen] \in Holding
  BY DEF AssetParams, Holding, TInv, LedgerOK
<1>3. Gains(p.creator, nextAssetID) /\ minBalance' \in [Accounts -> Int]
  BY <1>1, <1>2, GainsType
<1>4. IsAssetMap(assets', AssetParams) /\ DOMAIN assets' = DOMAIN assets \cup {nextAssetID}
  BY <1>1, <1>2, AssetMaps DEF TInv, LedgerOK
<1>5. GroupOK'
  BY <1>1, <1>2, EvaluateType DEF Addresses
<1>6. TInv'
  BY <1>1, <1>2, <1>3, <1>4, <1>5 DEF TInv, ContOK, LedgerOK, Gains
<1> QED BY <1>1, <1>2, <1>3, <1>4, <1>6

\* An opt-in gains a holding of an asset that exists.
LEMMA OptInEffect ==
  ASSUME TInv, OptInAsset
  PROVE  /\ TInv' /\ UNCHANGED <<k, returncode, balance, assets, nextAssetID>>
         /\ \E a \in Accounts, id \in DOMAIN assets :
              id \notin DOMAIN holdings[a] /\ Evaluate({a}) /\ Gains(a, id)
<1>1. PICK s \in Accounts, id \in DOMAIN assets :
        /\ Evaluate({s}) /\ id \notin DOMAIN holdings[s]
        /\ holdings' = [holdings EXCEPT ![s] =
             With(@, id, [amount |-> 0, frozen |-> assets[id].defaultFrozen])]
        /\ minBalance' = [minBalance EXCEPT ![s] = @ + PARAM_MIN_BALANCE]
        /\ UNCHANGED <<k, returncode, balance, assets, nextAssetID>>
  BY DEF OptInAsset, HasOptedIn
<1>2. /\ id \in Nat \ {0} /\ assets[id] \in AssetParams
      /\ [amount |-> 0, frozen |-> assets[id].defaultFrozen] \in Holding
  BY DEF AssetParams, Holding, TInv, LedgerOK, IsAssetMap
<1>3. Gains(s, id) /\ minBalance' \in [Accounts -> Int]
  BY <1>1, <1>2, GainsType
<1>4. GroupOK'
  BY <1>1, EvaluateType DEF Addresses
<1>5. TInv'
  BY <1>1, <1>3, <1>4 DEF TInv, ContOK, LedgerOK, Gains
<1> QED BY <1>1, <1>3, <1>5

\* The creator of a destroyed asset loses its holding.
LEMMA DestroyEffect ==
  ASSUME TInv, DestroyAsset
  PROVE  /\ TInv' /\ UNCHANGED <<k, returncode, balance, nextAssetID>>
         /\ \E s \in Accounts : Evaluate({s})
         /\ \E a \in Accounts, id \in DOMAIN assets :
              /\ Loses(a, id) /\ DOMAIN assets' = DOMAIN assets \ {id}
              /\ \A b \in Accounts \ {a} : holdings'[b] = holdings[b]
<1>1. PICK s \in Accounts, id \in DOMAIN assets :
        /\ Evaluate({s}) /\ HasOptedIn(assets[id].creator, id)
        /\ assets' = Without(assets, id)
        /\ holdings' = [holdings EXCEPT ![assets[id].creator] = Without(@, id)]
        /\ minBalance' = [minBalance EXCEPT ![assets[id].creator] = @ - PARAM_MIN_BALANCE]
        /\ UNCHANGED <<k, returncode, balance, nextAssetID>>
  BY DEF DestroyAsset, HasAllUnits
<1> DEFINE a == assets[id].creator
           f == Without(holdings[a], id)
<1>2. a \in Accounts /\ id \in DOMAIN holdings[a] /\ HoldingsOK
  BY <1>1 DEF HasOptedIn, TInv, LedgerOK
<1>3. /\ IsAssetMap(f, Holding) /\ DOMAIN f = DOMAIN holdings[a] \ {id}
      /\ \A x \in DOMAIN holdings[a] \ {id} : f[x] = holdings[a][x]
  BY <1>2, WithoutHolding DEF HoldingsOK
<1>4. holdings' = [holdings EXCEPT ![a] = f]
  BY <1>1
<1>5. minBalance' = [minBalance EXCEPT ![a] = @ - PARAM_MIN_BALANCE]
  BY <1>1
<1> HIDE DEF a, f
<1>6. HoldingsOK' /\ holdings'[a] = f /\ \A b \in Accounts \ {a} : holdings'[b] = holdings[b]
  BY <1>2, <1>3, <1>4, OneHolding
<1>7. minBalance' \in [Accounts -> Int]
  BY <1>2, <1>5, NumberAssumption DEF TInv, LedgerOK
<1>8. IsAssetMap(assets', AssetParams) /\ DOMAIN assets' = DOMAIN assets \ {id}
  BY <1>1, AssetMaps DEF TInv, LedgerOK
<1>9. GroupOK'
  BY <1>1, EvaluateType DEF Addresses
<1>10. Loses(a, id)
  BY <1>2, <1>3, <1>5, <1>6 DEF Loses
<1>11. TInv'
  BY <1>1, <1>6, <1>7, <1>8, <1>9 DEF TInv, ContOK, LedgerOK
<1> QED BY <1>1, <1>2, <1>6, <1>8, <1>10, <1>11

\* The account that is closed loses its holding, the other only gains units.
LEMMA CloseToEffect ==
  ASSUME TInv, CloseTo
  PROVE  /\ TInv' /\ k # <<>> /\ k' = Tail(k) /\ Head(k).op = "closeTo"
         /\ UNCHANGED <<returncode, balance, assets, nextAssetID, touchedAccounts, submitted>>
         /\ Loses(Head(k).account, Head(k).asset)
         /\ \A b \in Accounts \ {Head(k).account} : \A x \in DOMAIN holdings[b] :
              holdings'[b][x].amount >= holdings[b][x].amount
<1> DEFINE a  == Head(k).account
           id == Head(k).asset
           to == Head(k).to
           f  == Without(holdings[a], id)
           n  == holdings[to][id].amount + holdings[a][id].amount
           g  == [holdings[to] EXCEPT ![id].amount = n]
<1>1. /\ k # <<>> /\ k' = Tail(k) /\ Head(k).op = "closeTo" /\ a # to
      /\ HasOptedIn(a, id) /\ HasOptedIn(to, id)
      /\ holdings' = [holdings EXCEPT ![a] = Without(@, id),
                                      ![to][id].amount = @ + holdings[a][id].amount]
      /\ minBalance' = [minBalance EXCEPT ![a] = @ - PARAM_MIN_BALANCE]
      /\ UNCHANGED <<returncode, balance, assets, nextAssetID, touchedAccounts, submitted>>
  BY DEF CloseTo, Next1, Done
<1>2. /\ a \in Accounts /\ to \in Accounts /\ HoldingsOK
      /\ id \in DOMAIN holdings[a] /\ id \in DOMAIN holdings[to]
  BY <1>1 DEF HasOptedIn, TInv, LedgerOK
<1>3. /\ IsAssetMap(f, Holding) /\ DOMAIN f = DOMAIN holdings[a] \ {id}
      /\ \A x \in DOMAIN holdings[a] \ {id} : f[x] = holdings[a][x]
  BY <1>2, WithoutHolding DEF HoldingsOK
<1>4. \A b \in Accounts : \A x \in DOMAIN holdings[b] : holdings[b][x].amount \in Nat
  BY <1>2 DEF HoldingsOK, IsAssetMap, Holding
<1>5. n \in Nat /\ n >= holdings[to][id].amount
  BY <1>2, <1>4
<1>6. holdings' = [[holdings EXCEPT ![a] = f] EXCEPT ![to] = g]
  BY <1>1, <1>2
<1> HIDE DEF a, id, to, f, n
<1>7. /\ IsAssetMap(g, Holding) /\ DOMAIN g = DOMAIN holdings[to]
      /\ g[id].amount = n
      /\ \A x \in DOMAIN holdings[to] \ {id} : g[x] = holdings[to][x]
  BY <1>2, <1>5, AmountType DEF HoldingsOK
<1> HIDE DEF g
<1>8. /\ DOMAIN holdings' = Accounts /\ holdings'[a] = f /\ holdings'[to] = g
      /\ \A b \in Accounts \ {a, to} : holdings'[b] = holdings[b]
  BY <1>1, <1>2, <1>6 DEF HoldingsOK
<1>9. HoldingsOK'
  BY <1>2, <1>3, <1>7, <1>8 DEF HoldingsOK
<1>10. minBalance' \in [Accounts -> Int]
  BY <1>1, <1>2, NumberAssumption DEF TInv, LedgerOK
<1>11. Loses(a, id)
  BY <1>1, <1>2, <1>3, <1>7, <1>8, <1>9 DEF Loses
<1>12. ASSUME NEW b \in Accounts \ {a}, NEW x \in DOMAIN holdings[b]
       PROVE  holdings'[b][x].amount >= holdings[b][x].amount
  <2>1. CASE b = to
    BY <1>4, <1>5, <1>7, <1>8, <2>1
  <2>2. CASE b # to
    BY <1>4, <1>8, <2>2
  <2> QED BY <2>1, <2>2
<1>13. TInv'
  <2>1. ContOK'
    BY <1>1, DoneType DEF Done
  <2> QED BY <1>1, <1>9, <1>10, <2>1 DEF TInv, LedgerOK, GroupOK
<1> QED BY <1>1, <1>11, <1>12, <1>13 DEF a, id

\* #giveAsset changes the amount of one holding, or refuses.
LEMMA GiveAssetEffect ==
  ASSUME TInv, GiveAsset
  PROVE  /\ TInv' /\ k # <<>> /\ Head(k).op = "giveAsset" /\ Keeps
         /\ UNCHANGED <<balance, assets, nextAssetID, touchedAccounts, submitted>>
         /\ \/ k' = Tail(k) /\ UNCHANGED returncode
            \/ k' = <<>> /\ returncode' = INSUFFICIENT_ASSET_BALANCE
         /\ HasOptedIn(Head(k).account, Head(k).asset)
         /\ ~IsFrozen(Head(k).account, Head(k).asset)
         /\ \A b \in Accounts : \A x \in DOMAIN holdings[b] :
              /\ holdings'[b][x].frozen = holdings[b][x].frozen
              /\ holdings'[b][x] = holdings[b][x] \/ ~IsFrozen(b, x)
<1> DEFINE a == Head(k).account
           id == Head(k).asset
           n == holdings[a][id].amount + Head(k).amount
           g == [holdings[a] EXCEPT ![id].amount = n]
<1>1. /\ k # <<>> /\ Head(k).op = "giveAsset" /\ HasOptedIn(a, id) /\ ~IsFrozen(a, id)
      /\ \/ /\ n >= 0 /\ holdings' = [holdings EXCEPT ![a][id].amount = n]
            /\ Done /\ UNCHANGED returncode
         \/ Panic(INSUFFICIENT_ASSET_BALANCE) /\ UNCHANGED holdings
      /\ UNCHANGED <<balance, minBalance, assets, nextAssetID, touchedAccounts, submitted>>
  BY DEF GiveAsset, Next1
<1>2. /\ a \in Accounts /\ id \in DOMAIN holdings[a] /\ HoldingsOK
      /\ \A b \in Accounts : \A x \in DOMAIN holdings[b] : holdings[b][x] \in Holding
  BY <1>1 DEF HasOptedIn, TInv, LedgerOK, HoldingsOK, IsAssetMap
<1>3. n \in Int
  <2>1. holdings[a][id].amount \in Nat
    BY <1>2 DEF Holding
  <2>2. Head(k).amount \in Int
    BY <1>1, HeadType
  <2> QED BY <2>1, <2>2
<1>4. ContOK'
  BY <1>1, DoneType, PanicType, Codes
<1>5. CASE UNCHANGED holdings
  <2>1. TInv'
    BY <1>1, <1>4, <1>5 DEF TInv, LedgerOK, HoldingsOK, GroupOK
  <2>2. Keeps
    BY <1>1, <1>2, <1>5 DEF Keeps, HoldingsOK
  <2> QED BY <1>1, <1>5, <2>1, <2>2 DEF Done, Panic
<1>6. CASE n >= 0 /\ holdings' = [holdings EXCEPT ![a][id].amount = n]
  <2>1. holdings' = [holdings EXCEPT ![a] = g]
    BY <1>2, <1>6
  <2>2. n \in Nat
    BY <1>3, <1>6
  <2> HIDE DEF a, id, n
  <2>3. /\ IsAssetMap(g, Holding) /\ DOMAIN g = DOMAIN holdings[a]
        /\ g[id].frozen = holdings[a][id].frozen
        /\ \A x \in DOMAIN holdings[a] \ {id} : g[x] = holdings[a][x]
    BY <1>2, <2>2, AmountType DEF HoldingsOK
  <2> HIDE DEF g
  <2>4. HoldingsOK' /\ holdings'[a] = g /\ \A b \in Accounts \ {a} : holdings'[b] = holdings[b]
    BY <1>2, <2>1, <2>3, OneHolding
  <2>5. Keeps
    BY <1>1, <2>3, <2>4 DEF Keeps
  <2>6. TInv'
    BY <1>1, <1>4, <2>4 DEF TInv, LedgerOK, GroupOK
  <2>7. ASSUME NEW b \in Accounts, NEW x \in DOMAIN holdings[b]
        PROVE  /\ holdings'[b][x].frozen = holdings[b][x].frozen
               /\ holdings'[b][x] = holdings[b][x] \/ ~IsFrozen(b, x)
    BY <1>1, <2>3, <2>4
  <2> QED BY <1>1, <2>5, <2>6, <2>7 DEF Done, Panic, a, id
<1> QED BY <1>1, <1>5, <1>6

\* A freeze changes no amount.
LEMMA FreezeEffect ==
  ASSUME TInv, FreezeAsset
  PROVE  /\ TInv' /\ Keeps /\ \E s \in Accounts : Evaluate({s})
         /\ UNCHANGED <<k, returncode, balance, assets, nextAssetID>>
         /\ \A b \in Accounts : \A x \in DOMAIN holdings[b] :
              holdings'[b][x].amount = holdings[b][x].amount
<1>1. PICK s \in Accounts, a \in Accounts, id \in DOMAIN assets, z \in BOOLEAN :
        /\ Evaluate({s}) /\ HasOptedIn(a, id)
        /\ holdings' = [holdings EXCEPT ![a][id].frozen = z]
        /\ UNCHANGED <<k, returncode, balance, minBalance, assets, nextAssetID>>
  BY DEF FreezeAsset
<1>2. id \in DOMAIN holdings[a] /\ HoldingsOK /\ IsAssetMap(holdings[a], Holding)
  BY <1>1 DEF HasOptedIn, TInv, LedgerOK, HoldingsOK
<1> DEFINE g == [holdings[a] EXCEPT ![id].frozen = z]
<1>3. holdings' = [holdings EXCEPT ![a] = g]
  BY <1>1, <1>2
<1>4. /\ IsAssetMap(g, Holding) /\ DOMAIN g = DOMAIN holdings[a]
      /\ \A x \in DOMAIN holdings[a] : g[x].amount = holdings[a][x].amount
  BY <1>2, FrozenType
<1> HIDE DEF g
<1>5. HoldingsOK' /\ holdings'[a] = g /\ \A b \in Accounts \ {a} : holdings'[b] = holdings[b]
  BY <1>2, <1>3, <1>4, OneHolding
<1>6. GroupOK'
  BY <1>1, EvaluateType DEF Addresses
<1>7. TInv' /\ Keeps
  BY <1>1, <1>4, <1>5, <1>6 DEF TInv, ContOK, LedgerOK, Keeps
<1>8. ASSUME NEW b \in Accounts, NEW x \in DOMAIN holdings[b]
      PROVE  holdings'[b][x].amount = holdings[b][x].amount
  <2>1. CASE b = a
    BY <1>4, <1>5, <2>1
  <2>2. CASE b # a
    BY <1>5, <2>2
  <2> QED BY <2>1, <2>2
<1> QED BY <1>1, <1>7, <1>8

\* The end of the group changes neither the ledger nor what was submitted.
LEMMA EndType ==
  TInv /\ (GroupAccepted \/ CheckSufficientBalance \/ CheckDone) => TInv'
<1> SUFFICES ASSUME TInv, GroupAccepted \/ CheckSufficientBalance \/ CheckDone PROVE TInv'
  OBVIOUS
<1>1. /\ k # <<>> /\ UNCHANGED <<ledger, submitted>> /\ GroupOK' /\ LedgerOK'
  BY SameLedger DEF GroupAccepted, CheckSufficientBalance, CheckDone, Next1, TInv, GroupOK
<1>2. CASE GroupAccepted
  <2>1. Cmd("checkSufficientBalance") \in Command /\ SUCCESS \in ReturnCodes
    BY CommandTypes, Codes DEF Ops
  <2> QED BY <1>1, <1>2, <2>1 DEF GroupAccepted, TInv, ContOK
<1>3. CASE CheckSufficientBalance
  BY <1>1, <1>3, PanicType, Codes DEF CheckSufficientBalance, TInv, ContOK
<1>4. CASE CheckDone
  BY <1>1, <1>4, DoneType DEF CheckDone, TInv
<1> QED BY <1>2, <1>3, <1>4

\* A transaction that panics changes no ledger.
LEMMA RefusedType == TInv /\ Refused => TInv'
<1> SUFFICES ASSUME TInv, Refused PROVE TInv'
  OBVIOUS
<1>1. PICK s \in Accounts : Evaluate({s})
  BY RefusedEffect
<1>2. {s} \in SUBSET Addresses
  BY DEF Addresses
<1> QED BY <1>1, <1>2, EvaluateType, PanicType, SameLedger, RefusedEffect DEF TInv

\* The actions, grouped by what they do.
LEMMA NextCases ==
  Next => \/ Pay \/ TransferAsset \/ OptOutAsset \/ Refused
          \/ CreateAsset \/ ModifyAsset \/ DestroyAsset \/ OptInAsset \/ FreezeAsset
          \/ GiveAlgos \/ GiveAsset \/ CloseTo
          \/ GroupAccepted \/ CheckSufficientBalance \/ CheckDone
BY DEF Next, Refused

\* A change of an asset keeps every holding.
LEMMA ModifyEffect ==
  ASSUME TInv, ModifyAsset
  PROVE  /\ TInv' /\ \E s \in Accounts : Evaluate({s})
         /\ DOMAIN assets' = DOMAIN assets
         /\ UNCHANGED <<k, returncode, balance, minBalance, holdings, nextAssetID>>
<1>1. PICK s \in Accounts, id \in DOMAIN assets, m \in Addresses, f \in Addresses :
        /\ Evaluate({s})
        /\ assets' = [assets EXCEPT ![id].manager = m, ![id].freeze = f]
        /\ UNCHANGED <<k, returncode, balance, minBalance, holdings, nextAssetID>>
  BY DEF ModifyAsset
<1>2. IsAssetMap(assets, AssetParams) /\ assets[id] \in AssetParams
  BY DEF TInv, LedgerOK, IsAssetMap
<1> DEFINE p == [assets[id] EXCEPT !.manager = m, !.freeze = f]
<1>3. p \in AssetParams
  BY <1>2 DEF AssetParams
<1>4. assets' = [assets EXCEPT ![id] = p]
  BY <1>1, <1>2 DEF IsAssetMap
<1> HIDE DEF p
<1>5. IsAssetMap(assets', AssetParams) /\ DOMAIN assets' = DOMAIN assets
  BY <1>2, <1>3, <1>4 DEF IsAssetMap
<1>6. GroupOK'
  BY <1>1, EvaluateType DEF Addresses
<1> QED BY <1>1, <1>5, <1>6 DEF TInv, ContOK, LedgerOK, HoldingsOK

\* Every step keeps the types.
LEMMA TypeStep == TInv /\ [Next]_vars => TInv'
<1>1. TInv /\ UNCHANGED vars => TInv'
  BY DEF vars, ledger, TInv, ContOK, GroupOK, LedgerOK, HoldingsOK
<1>2. TInv /\ Next => TInv'
  BY NextCases, BeginType, RefusedType, CreateEffect, ModifyEffect, DestroyEffect,
     OptInEffect, FreezeEffect, GiveAlgosStep, GiveAssetEffect, CloseToEffect, EndType
<1> QED BY <1>1, <1>2

\* Type correctness, for every set of accounts, every setup and every group: in
\* particular no balance and no holding ever becomes negative.
THEOREM TypeCorrect == Spec => []TypeOK
<1>1. TInv => TypeOK
  BY DEF TInv, ContOK, GroupOK, LedgerOK, HoldingsOK, TypeOK
<1> QED BY <1>1, InitType, TypeStep, PTL DEF Spec

-----------------------------------------------------------------------------
(* The minimum balance counts the holdings.                                *)

\* The next asset id is new to every account.
Fresh == /\ \A id \in DOMAIN assets : id < nextAssetID
         /\ \A a \in Accounts : \A id \in DOMAIN holdings[a] : id < nextAssetID

\* The price of one holding more, and of one less.
LEMMA Price ==
  \A p \in Nat, c \in Int : /\ p * (1 + (c + 1)) = p * (1 + c) + p
                            /\ p * (1 + (c - 1)) = p * (1 + c) - p
OBVIOUS

\* The count survives a new holding,
LEMMA GainsCounts ==
  ASSUME TInv, MinBalanceCounts, NEW a \in Accounts, NEW id, id \notin DOMAIN holdings[a],
         Gains(a, id)
  PROVE  MinBalanceCounts'
<1>1. IsFiniteSet(DOMAIN holdings[a])
  BY DEF TInv, LedgerOK, HoldingsOK, IsAssetMap
<1> DEFINE c == Cardinality(DOMAIN holdings[a])
<1>2. c \in Nat /\ Cardinality(DOMAIN holdings'[a]) = c + 1
  <2>1. /\ Cardinality(DOMAIN holdings[a] \cup {id}) = c + 1 /\ c \in Nat
    BY <1>1, FS_AddElement, FS_CardinalityType
  <2> QED BY <2>1 DEF Gains
<1>3. /\ minBalance'[a] = minBalance[a] + PARAM_MIN_BALANCE
      /\ \A b \in Accounts \ {a} : minBalance'[b] = minBalance[b] /\ holdings'[b] = holdings[b]
  BY DEF Gains, TInv, LedgerOK
<1>4. minBalance[a] = PARAM_MIN_BALANCE * (1 + c)
  BY DEF MinBalanceCounts
<1> HIDE DEF c
<1>5. minBalance'[a] = PARAM_MIN_BALANCE * (1 + Cardinality(DOMAIN holdings'[a]))
  BY <1>2, <1>3, <1>4, Price, NumberAssumption
<1> QED BY <1>3, <1>5 DEF MinBalanceCounts

\* the end of one,
LEMMA LosesCounts ==
  ASSUME TInv, MinBalanceCounts, NEW a, NEW id, Loses(a, id)
  PROVE  MinBalanceCounts'
<1>1. a \in Accounts /\ IsFiniteSet(DOMAIN holdings[a]) /\ id \in DOMAIN holdings[a]
  BY DEF Loses, TInv, LedgerOK, HoldingsOK, IsAssetMap
<1> DEFINE c == Cardinality(DOMAIN holdings[a])
<1>2. c \in Nat /\ Cardinality(DOMAIN holdings'[a]) = c - 1
  <2>1. /\ Cardinality(DOMAIN holdings[a] \ {id}) = c - 1 /\ c \in Nat
    BY <1>1, FS_RemoveElement, FS_CardinalityType
  <2> QED BY <2>1 DEF Loses
<1>3. /\ minBalance'[a] = minBalance[a] - PARAM_MIN_BALANCE
      /\ \A b \in Accounts \ {a} : /\ minBalance'[b] = minBalance[b]
                                   /\ DOMAIN holdings'[b] = DOMAIN holdings[b]
  BY <1>1 DEF Loses, TInv, LedgerOK
<1>4. minBalance[a] = PARAM_MIN_BALANCE * (1 + c)
  BY <1>1 DEF MinBalanceCounts
<1> HIDE DEF c
<1>5. minBalance'[a] = PARAM_MIN_BALANCE * (1 + Cardinality(DOMAIN holdings'[a]))
  BY <1>2, <1>3, <1>4, Price, NumberAssumption
<1> QED BY <1>3, <1>5 DEF MinBalanceCounts

\* and a step that neither adds nor removes one.
LEMMA KeepsCounts ==
  ASSUME MinBalanceCounts, Keeps PROVE MinBalanceCounts'
BY DEF MinBalanceCounts, Keeps

\* Steps that change no holding and no minimum balance.
Quiet == UNCHANGED <<minBalance, holdings, nextAssetID>> /\ DOMAIN assets' = DOMAIN assets

\* Only seven actions change holdings or minimum balances.
LEMMA QuietCases ==
  ASSUME TInv, [Next]_vars
  PROVE  \/ Quiet \/ CreateAsset \/ DestroyAsset \/ OptInAsset \/ FreezeAsset
         \/ GiveAsset \/ CloseTo
<1>1. UNCHANGED ledger => Quiet
  BY DEF ledger, Quiet
<1>2. CASE UNCHANGED vars
  BY <1>1, <1>2 DEF vars
<1>3. CASE Next
  <2>1. Pay \/ TransferAsset \/ OptOutAsset \/ Refused => UNCHANGED ledger
    BY RefusedEffect DEF Pay, TransferAsset, OptOutAsset, Becomes
  <2>2. GroupAccepted \/ CheckSufficientBalance \/ CheckDone => UNCHANGED ledger
    BY DEF GroupAccepted, CheckSufficientBalance, CheckDone
  <2>3. ModifyAsset => Quiet
    BY ModifyEffect DEF Quiet
  <2>4. GiveAlgos => Quiet
    BY DEF GiveAlgos, Quiet
  <2> QED BY <1>1, <1>3, <2>1, <2>2, <2>3, <2>4, NextCases
<1> QED BY <1>2, <1>3

\* Asset ids are not reused.
LEMMA FreshStep == TInv /\ Fresh /\ [Next]_vars => Fresh'
<1> SUFFICES ASSUME TInv, Fresh, [Next]_vars PROVE Fresh'
  OBVIOUS
<1>0. nextAssetID \in Nat /\ \A id \in DOMAIN assets : id \in Nat
  BY DEF TInv, LedgerOK, IsAssetMap
<1>1. CASE Quiet
  BY <1>1 DEF Quiet, Fresh
<1>2. CASE CreateAsset
  <2>1. PICK a \in Accounts : Gains(a, nextAssetID)
    BY <1>2, CreateEffect
  <2>2. /\ DOMAIN assets' = DOMAIN assets \cup {nextAssetID} /\ nextAssetID' = nextAssetID + 1
        /\ \A b \in Accounts : DOMAIN holdings'[b] \subseteq DOMAIN holdings[b] \cup {nextAssetID}
    BY <1>2, <2>1, CreateEffect DEF Gains
  <2>3. \A b \in Accounts : \A id \in DOMAIN holdings[b] : id \in Nat
    BY DEF TInv, LedgerOK, HoldingsOK, IsAssetMap
  <2> QED BY <1>0, <2>2, <2>3 DEF Fresh
<1>3. CASE OptInAsset
  <2>1. PICK a \in Accounts, id \in DOMAIN assets : Gains(a, id)
    BY <1>3, OptInEffect
  <2>2. \A b \in Accounts : DOMAIN holdings'[b] \subseteq DOMAIN holdings[b] \cup {id}
    BY <2>1 DEF Gains
  <2> QED BY <1>3, <2>2, OptInEffect DEF Fresh
<1>4. CASE DestroyAsset
  <2>1. PICK a \in Accounts, id \in DOMAIN assets :
          Loses(a, id) /\ DOMAIN assets' = DOMAIN assets \ {id}
    BY <1>4, DestroyEffect
  <2>2. \A b \in Accounts : DOMAIN holdings'[b] \subseteq DOMAIN holdings[b]
    BY <2>1 DEF Loses
  <2> QED BY <1>4, <2>1, <2>2, DestroyEffect DEF Fresh
<1>5. CASE CloseTo
  <2>1. \A b \in Accounts : DOMAIN holdings'[b] \subseteq DOMAIN holdings[b]
    BY <1>5, CloseToEffect DEF Loses
  <2> QED BY <1>5, <2>1, CloseToEffect DEF Fresh
<1>6. CASE FreezeAsset \/ GiveAsset
  BY <1>6, FreezeEffect, GiveAssetEffect DEF Keeps, Fresh
<1> QED BY <1>1, <1>2, <1>3, <1>4, <1>5, <1>6, QuietCases

\* Every step keeps the count.
LEMMA CountStep == TInv /\ Fresh /\ MinBalanceCounts /\ [Next]_vars => MinBalanceCounts'
<1> SUFFICES ASSUME TInv, Fresh, MinBalanceCounts, [Next]_vars PROVE MinBalanceCounts'
  OBVIOUS
<1>1. CASE Quiet
  BY <1>1 DEF Quiet, MinBalanceCounts
<1>2. CASE CreateAsset
  <2>1. nextAssetID \in Nat /\ \A a \in Accounts : nextAssetID \notin DOMAIN holdings[a]
    BY DEF Fresh, TInv, LedgerOK
  <2> QED BY <1>2, <2>1, CreateEffect, GainsCounts
<1>3. CASE OptInAsset
  BY <1>3, OptInEffect, GainsCounts
<1>4. CASE DestroyAsset
  BY <1>4, DestroyEffect, LosesCounts
<1>5. CASE CloseTo
  BY <1>5, CloseToEffect, LosesCounts
<1>6. CASE FreezeAsset \/ GiveAsset
  BY <1>6, FreezeEffect, GiveAssetEffect, KeepsCounts
<1> QED BY <1>1, <1>2, <1>3, <1>4, <1>5, <1>6, QuietCases

\* From a network whose accounts hold no assets, the minimum balance of every
\* account is at all times the price of its holdings.
THEOREM MinBalanceCorrect ==
  ASSUME \A a \in Accounts : DOMAIN SetupHoldings[a] = {}
  PROVE  Spec => []MinBalanceCounts
<1>1. Init => TInv /\ Fresh /\ MinBalanceCounts
  <2> SUFFICES ASSUME Init PROVE TInv /\ Fresh /\ MinBalanceCounts
    OBVIOUS
  <2>1. TInv
    BY InitType
  <2>2. Fresh
    BY SetupAssumption DEF Init, Fresh, IsAssetMap
  <2>3. ASSUME NEW a \in Accounts
        PROVE  minBalance[a] = PARAM_MIN_BALANCE * (1 + Cardinality(DOMAIN holdings[a]))
    <3>1. minBalance[a] = PARAM_MIN_BALANCE /\ Cardinality(DOMAIN holdings[a]) = 0
      BY FS_EmptySet DEF Init
    <3> QED BY <3>1, NumberAssumption
  <2> QED BY <2>1, <2>2, <2>3 DEF MinBalanceCounts
<1>2. TInv /\ Fresh /\ MinBalanceCounts /\ [Next]_vars => (TInv /\ Fresh /\ MinBalanceCounts)'
  BY TypeStep, FreshStep, CountStep
<1> QED BY <1>1, <1>2, PTL DEF Spec

-----------------------------------------------------------------------------
(* An accepted group leaves every account its minimum balance.             *)

\* Until a panic, an account that has not been touched is covered; one that is
\* still to be debited has been touched; nothing is left to do once the group is
\* accepted.
Covered == k # <<>> \/ returncode = SUCCESS =>
             \A a \in Accounts \ touchedAccounts : balance[a] >= minBalance[a]
SafeCmd(c) == /\ c.op = "giveAlgos" /\ c.amount < 0 => c.account \in touchedAccounts
              /\ c.op = "checkSufficientBalance" => returncode = SUCCESS
CmdsSafe == \A i \in 1..Len(k) : SafeCmd(k[i])
Accepted == returncode = SUCCESS =>
              k = <<Cmd("checkSufficientBalance")>> \/ (k = <<>> /\ touchedAccounts = {})
CInv == Covered /\ CmdsSafe /\ Accepted

\* While a transaction may still be evaluated the group is not accepted.
LEMMA NotAccepted ==
  ASSUME Accepted, k # <<>>, Head(k).op # "checkSufficientBalance"
  PROVE  returncode # SUCCESS
BY CommandFields DEF Accepted, Ops

\* Covered is kept by a step that lowers only the balances of touched accounts.
LEMMA CoveredKeeps ==
  ASSUME TInv, Covered, k # <<>>, touchedAccounts \subseteq touchedAccounts',
         \A a \in Accounts \ touchedAccounts' :
           balance'[a] - minBalance'[a] >= balance[a] - minBalance[a],
         balance' \in [Accounts -> Nat], minBalance' \in [Accounts -> Int]
  PROVE  Covered'
<1> SUFFICES ASSUME NEW a \in Accounts \ touchedAccounts' PROVE balance'[a] >= minBalance'[a]
  BY DEF Covered
<1>1. /\ balance[a] \in Nat /\ minBalance[a] \in Int /\ balance[a] >= minBalance[a]
      /\ balance'[a] \in Nat /\ minBalance'[a] \in Int
  BY DEF TInv, LedgerOK, Covered
<1> QED BY <1>1

\* The evaluation of a transaction that neither pays nor panics.
LEMMA EvaluateSafe ==
  ASSUME TInv, CInv, NEW t, Evaluate(t), UNCHANGED <<k, returncode>>
  PROVE  CmdsSafe' /\ Accepted' /\ touchedAccounts \subseteq touchedAccounts'
<1>1. /\ k # <<>> /\ Head(k).op = "evalNextTx" /\ touchedAccounts' = touchedAccounts \cup t
  BY DEF Evaluate, Next1
<1>2. returncode # SUCCESS
  BY <1>1, NotAccepted DEF CInv
<1> QED BY <1>1, <1>2 DEF CInv, CmdsSafe, SafeCmd, Accepted

\* A panic.
LEMMA PanicSafe ==
  ASSUME NEW code \in ReturnCodes \ {SUCCESS}, Panic(code)
  PROVE  CmdsSafe' /\ Accepted'
BY DEF Panic, CmdsSafe, Accepted

\* The next command of a transaction.
LEMMA DoneSafe ==
  ASSUME TInv, CInv, k # <<>>, Done, UNCHANGED <<returncode, touchedAccounts>>,
         Head(k).op # "checkSufficientBalance"
  PROVE  CmdsSafe' /\ Accepted'
<1>1. \A i \in 1..Len(k') : i + 1 \in 1..Len(k) /\ k'[i] = k[i + 1]
  BY DEF Done, TInv, ContOK
<1>2. CmdsSafe'
  BY <1>1 DEF CInv, CmdsSafe, SafeCmd
<1>3. returncode # SUCCESS
  BY NotAccepted DEF CInv
<1> QED BY <1>2, <1>3 DEF Accepted

\* The commands a transaction becomes.
LEMMA BecomesSafe ==
  ASSUME TInv, CInv, NEW t, Evaluate(t), NEW s \in Seq(Command), Becomes(s),
         \A i \in 1..Len(s) : /\ s[i].op # "checkSufficientBalance"
                              /\ s[i].op = "giveAlgos" /\ s[i].amount < 0 => s[i].account \in t
  PROVE  CmdsSafe' /\ Accepted' /\ touchedAccounts \subseteq touchedAccounts'
<1>1. /\ k # <<>> /\ Head(k).op = "evalNextTx" /\ touchedAccounts' = touchedAccounts \cup t
      /\ k' = s \o k /\ returncode' = returncode /\ k \in Seq(Command)
  BY DEF Evaluate, Next1, Becomes, TInv, ContOK
<1>2. returncode # SUCCESS
  BY <1>1, NotAccepted DEF CInv
<1>3. /\ Len(k') = Len(s) + Len(k)
      /\ \A i \in 1..Len(s) : k'[i] = s[i]
      /\ \A i \in (Len(s) + 1)..(Len(s) + Len(k)) : k'[i] = k[i - Len(s)]
  BY <1>1
<1>4. ASSUME NEW i \in 1..Len(k')
      PROVE  /\ k'[i].op = "giveAlgos" /\ k'[i].amount < 0 => k'[i].account \in touchedAccounts'
             /\ k'[i].op # "checkSufficientBalance"
  <2>1. CASE i \in 1..Len(s)
    BY <1>1, <1>3, <2>1
  <2>2. CASE i \in (Len(s) + 1)..(Len(s) + Len(k))
    <3>1. i - Len(s) \in 1..Len(k) /\ k'[i] = k[i - Len(s)]
      BY <1>1, <1>3, <2>2
    <3> QED BY <1>1, <1>2, <3>1 DEF CInv, CmdsSafe, SafeCmd
  <2> QED BY <1>1, <1>3, <2>1, <2>2
<1>5. CmdsSafe'
  BY <1>4 DEF CmdsSafe, SafeCmd
<1> QED BY <1>1, <1>2, <1>5 DEF Accepted

\* Whom a transaction debits it has touched.
LEMMA BeginSafe == TInv /\ CInv /\ (Pay \/ TransferAsset \/ OptOutAsset) => CInv'
<1> SUFFICES ASSUME TInv, CInv PROVE Pay \/ TransferAsset \/ OptOutAsset => CInv'
  OBVIOUS
<1>1. /\ DOMAIN assets \subseteq Nat /\ Accounts \subseteq Addresses
      /\ \A n \in Amounts : n \in Int /\ -n \in Int /\ ~(n < 0)
  BY NumberAssumption DEF TInv, LedgerOK, IsAssetMap, Addresses
<1>2. ASSUME NEW t, Evaluate(t), UNCHANGED ledger PROVE Covered'
  <2>1. /\ k # <<>> /\ touchedAccounts \subseteq touchedAccounts'
        /\ UNCHANGED <<balance, minBalance>>
        /\ balance \in [Accounts -> Nat] /\ minBalance \in [Accounts -> Int]
    BY <1>2 DEF Evaluate, Next1, ledger, TInv, LedgerOK
  <2> QED BY <2>1, CoveredKeeps DEF CInv
<1>3. ASSUME NEW s \in Accounts, NEW r \in Addresses, NEW n \in Amounts,
             Evaluate({s, r}), Becomes(<<GiveAlgosTo(s, -n), GiveAlgosTo(r, n)>>)
      PROVE  CInv'
  <2> DEFINE q == <<GiveAlgosTo(s, -n), GiveAlgosTo(r, n)>>
  <2>1. /\ q \in Seq(Command) /\ Len(q) = 2
        /\ q[1] = GiveAlgosTo(s, -n) /\ q[2] = GiveAlgosTo(r, n)
    BY <1>1, CommandTypes
  <2>2. Becomes(q)
    BY <1>3
  <2> HIDE DEF q
  <2>3. \A i \in 1..Len(q) : /\ q[i].op # "checkSufficientBalance"
                             /\ q[i].op = "giveAlgos" /\ q[i].amount < 0 => q[i].account \in {s, r}
    <3>1. \A i \in 1..Len(q) : i = 1 \/ i = 2
      BY <2>1
    <3> QED BY <2>1, <3>1, CommandFields
  <2> QED BY <1>2, <1>3, <2>1, <2>2, <2>3, BecomesSafe DEF CInv, Becomes
<1>4. ASSUME NEW s \in Accounts, NEW r \in Accounts, NEW id \in DOMAIN assets, NEW n \in Amounts,
             Evaluate({s}), Becomes(<<GiveAssetTo(id, s, -n), GiveAssetTo(id, r, n)>>)
      PROVE  CInv'
  <2> DEFINE q == <<GiveAssetTo(id, s, -n), GiveAssetTo(id, r, n)>>
  <2>1. /\ q \in Seq(Command) /\ Len(q) = 2
        /\ q[1] = GiveAssetTo(id, s, -n) /\ q[2] = GiveAssetTo(id, r, n)
    BY <1>1, CommandTypes
  <2>2. Becomes(q)
    BY <1>4
  <2> HIDE DEF q
  <2>3. \A i \in 1..Len(q) : q[i].op = "giveAsset"
    <3>1. \A i \in 1..Len(q) : i = 1 \/ i = 2
      BY <2>1
    <3> QED BY <2>1, <3>1, CommandFields
  <2> QED BY <1>2, <1>4, <2>1, <2>2, <2>3, BecomesSafe DEF CInv, Becomes
<1>5. ASSUME NEW s \in Accounts, NEW r \in Addresses, NEW c \in Addresses,
             NEW id \in DOMAIN assets, NEW n \in Amounts, Evaluate({s}),
             Becomes(<<GiveAssetTo(id, s, -n), GiveAssetTo(id, r, n), CloseToFor(id, s, c)>>)
      PROVE  CInv'
  <2> DEFINE q == <<GiveAssetTo(id, s, -n), GiveAssetTo(id, r, n), CloseToFor(id, s, c)>>
  <2>1. /\ q \in Seq(Command) /\ Len(q) = 3
        /\ q[1] = GiveAssetTo(id, s, -n) /\ q[2] = GiveAssetTo(id, r, n)
        /\ q[3] = CloseToFor(id, s, c)
    BY <1>1, CommandTypes
  <2>2. Becomes(q)
    BY <1>5
  <2> HIDE DEF q
  <2>3. \A i \in 1..Len(q) : q[i].op = "giveAsset" \/ q[i].op = "closeTo"
    <3>1. \A i \in 1..Len(q) : i = 1 \/ i = 2 \/ i = 3
      BY <2>1
    <3> QED BY <2>1, <3>1, CommandFields
  <2> QED BY <1>2, <1>5, <2>1, <2>2, <2>3, BecomesSafe DEF CInv, Becomes
<1> QED BY <1>3, <1>4, <1>5 DEF Pay, TransferAsset, OptOutAsset

\* Every step keeps the cover.
LEMMA CoverStep == TInv /\ CInv /\ [Next]_vars => CInv'
<1> SUFFICES ASSUME TInv, CInv, [Next]_vars PROVE CInv'
  OBVIOUS
<1> USE DEF CInv
<1>0. TInv'
  BY TypeStep
<1>1. /\ balance' \in [Accounts -> Nat] /\ minBalance' \in [Accounts -> Int]
      /\ \A a \in Accounts : /\ balance[a] \in Nat /\ balance'[a] \in Nat
                             /\ minBalance[a] \in Int /\ minBalance'[a] \in Int
  BY <1>0 DEF TInv, LedgerOK
<1>2. CASE UNCHANGED vars
  BY <1>2 DEF vars, ledger, Covered, CmdsSafe, SafeCmd, Accepted
<1>3. CASE Pay \/ TransferAsset \/ OptOutAsset
  BY <1>3, BeginSafe
<1>4. CASE Refused
  <2>1. PICK s \in Accounts : Evaluate({s})
    BY <1>4, RefusedEffect
  <2>a. k # <<>>
    BY <2>1 DEF Evaluate, Next1
  <2>2. CmdsSafe' /\ Accepted'
    BY <1>4, RefusedEffect, PanicSafe
  <2>3. Covered'
    BY <1>1, <1>4, <2>1, <2>a, RefusedEffect, CoveredKeeps DEF Evaluate, ledger
  <2> QED BY <2>2, <2>3
<1>5. CASE CreateAsset \/ OptInAsset
  <2>1. PICK a \in Accounts : /\ Evaluate({a}) /\ UNCHANGED <<k, returncode, balance>>
                              /\ \A b \in Accounts \ {a} : minBalance'[b] = minBalance[b]
    BY <1>1, <1>5, CreateEffect, OptInEffect DEF Gains, TInv, LedgerOK
  <2>2. CmdsSafe' /\ Accepted' /\ touchedAccounts \subseteq touchedAccounts'
    BY <2>1, EvaluateSafe
  <2>3. \A b \in Accounts \ touchedAccounts' : minBalance'[b] = minBalance[b]
    BY <2>1 DEF Evaluate
  <2>4. Covered'
    BY <1>1, <2>1, <2>2, <2>3, CoveredKeeps DEF Evaluate, Next1
  <2> QED BY <2>2, <2>4
<1>6. CASE DestroyAsset
  <2>1. PICK s \in Accounts : Evaluate({s}) /\ UNCHANGED <<k, returncode, balance>>
    BY <1>6, DestroyEffect
  <2>2. CmdsSafe' /\ Accepted' /\ touchedAccounts \subseteq touchedAccounts'
    BY <2>1, EvaluateSafe
  <2>3. \A b \in Accounts : minBalance'[b] <= minBalance[b]
    <3>1. PICK b \in Accounts : minBalance' = [minBalance EXCEPT ![b] = @ - PARAM_MIN_BALANCE]
      BY <1>6, DestroyEffect DEF Loses
    <3> QED BY <1>1, <3>1, NumberAssumption DEF TInv, LedgerOK
  <2>4. Covered'
    BY <1>1, <2>1, <2>2, <2>3, CoveredKeeps DEF Evaluate, Next1
  <2> QED BY <2>2, <2>4
<1>7. CASE ModifyAsset \/ FreezeAsset
  <2>1. PICK s \in Accounts : Evaluate({s}) /\ UNCHANGED <<k, returncode, balance, minBalance>>
    BY <1>7, ModifyEffect, FreezeEffect DEF Keeps
  <2>2. CmdsSafe' /\ Accepted' /\ touchedAccounts \subseteq touchedAccounts'
    BY <2>1, EvaluateSafe
  <2>3. Covered'
    BY <1>1, <2>1, <2>2, CoveredKeeps DEF Evaluate, Next1
  <2> QED BY <2>2, <2>3
<1>8. CASE GiveAlgos
  <2>1. /\ k # <<>> /\ Head(k).op = "giveAlgos" /\ Head(k) = k[1] /\ 1 \in 1..Len(k)
        /\ UNCHANGED <<minBalance, touchedAccounts>> /\ Head(k).amount \in Int
    BY <1>8, HeadType DEF GiveAlgos, Next1, TInv, ContOK
  <2>2. Head(k).amount < 0 => Head(k).account \in touchedAccounts
    BY <2>1 DEF CmdsSafe, SafeCmd
  <2>3. \A b \in Accounts \ touchedAccounts : balance'[b] >= balance[b]
    <3> DEFINE a == Head(k).account
               left == balance[a] + Head(k).amount
    <3>1. a \in Accounts /\ left \in Int
      BY <1>1, <1>8, <2>1 DEF GiveAlgos
    <3>2. CASE UNCHANGED balance
      BY <1>1, <3>2
    <3>3. CASE balance' = [balance EXCEPT ![a] = left]
      <4> SUFFICES ASSUME NEW b \in Accounts \ touchedAccounts PROVE balance'[b] >= balance[b]
        OBVIOUS
      <4>1. CASE b = a
        <5>1. ~(Head(k).amount < 0)
          BY <2>2, <4>1
        <5> QED BY <1>1, <2>1, <3>3, <4>1, <5>1 DEF TInv, LedgerOK
      <4>2. CASE b # a
        BY <1>1, <3>3, <4>2 DEF TInv, LedgerOK
      <4> QED BY <4>1, <4>2
    <3> QED BY <1>8, <3>2, <3>3 DEF GiveAlgos
  <2>4. Covered'
    BY <1>1, <2>1, <2>3, CoveredKeeps
  <2>5. INSUFFICIENT_FUNDS \in ReturnCodes \ {SUCCESS}
    BY Codes DEF INSUFFICIENT_FUNDS, SUCCESS
  <2>6. CmdsSafe' /\ Accepted'
    BY <1>8, <2>1, <2>5, DoneSafe, PanicSafe DEF GiveAlgos
  <2> QED BY <2>4, <2>6
<1>9. CASE GiveAsset
  <2>1. /\ k # <<>> /\ Head(k).op = "giveAsset"
        /\ UNCHANGED <<balance, minBalance, touchedAccounts>>
    BY <1>9, GiveAssetEffect DEF Keeps
  <2>2. Covered'
    BY <1>1, <2>1, CoveredKeeps
  <2>3. INSUFFICIENT_ASSET_BALANCE \in ReturnCodes \ {SUCCESS}
    BY Codes DEF INSUFFICIENT_ASSET_BALANCE, SUCCESS
  <2>4. CmdsSafe' /\ Accepted'
    BY <1>9, <2>1, <2>3, DoneSafe, PanicSafe, GiveAssetEffect DEF Done, Panic
  <2> QED BY <2>2, <2>4
<1>10. CASE CloseTo
  <2>1. /\ k # <<>> /\ Head(k).op = "closeTo" /\ Done
        /\ UNCHANGED <<returncode, balance, touchedAccounts>>
    BY <1>10, CloseToEffect DEF Done
  <2>2. \A b \in Accounts : minBalance'[b] <= minBalance[b]
    BY <1>1, <1>10, CloseToEffect, NumberAssumption DEF Loses, TInv, LedgerOK
  <2>3. Covered'
    BY <1>1, <2>1, <2>2, CoveredKeeps
  <2> QED BY <2>1, <2>3, DoneSafe
<1>11. CASE GroupAccepted
  <2> DEFINE c == Cmd("checkSufficientBalance")
  <2>1. /\ k # <<>> /\ k' = <<c>> /\ returncode' = SUCCESS
        /\ UNCHANGED <<balance, minBalance, touchedAccounts>>
    BY <1>11 DEF GroupAccepted, Next1, ledger
  <2>2. c.op = "checkSufficientBalance"
    BY DEF Cmd, CmdOf
  <2> HIDE DEF c
  <2>3. Len(k') = 1 /\ k'[1] = c
    BY <2>1
  <2>4. CmdsSafe'
    BY <2>1, <2>2, <2>3 DEF CmdsSafe, SafeCmd
  <2>5. Covered'
    BY <2>1 DEF Covered
  <2>6. Accepted'
    BY <2>1 DEF Accepted, c
  <2> QED BY <2>4, <2>5, <2>6
<1>12. CASE CheckSufficientBalance \/ CheckDone
  <2>1. k # <<>> /\ Head(k).op = "checkSufficientBalance" /\ UNCHANGED ledger
    BY <1>12 DEF CheckSufficientBalance, CheckDone, Next1
  <2>2. returncode = SUCCESS /\ k = <<Cmd("checkSufficientBalance")>>
    <3>1. Head(k) = k[1] /\ 1 \in 1..Len(k)
      BY <2>1 DEF TInv, ContOK
    <3>2. returncode = SUCCESS
      BY <2>1, <3>1 DEF CmdsSafe, SafeCmd
    <3> QED BY <2>1, <3>2 DEF Accepted
  <2>3. CASE CheckDone
    <3>1. k' = <<>> /\ touchedAccounts' = {} /\ touchedAccounts = {}
      BY <2>2, <2>3 DEF CheckDone, Done
    <3> QED BY <2>1, <3>1 DEF ledger, Covered, CmdsSafe, Accepted
  <2>4. CASE CheckSufficientBalance
    <3>1. PICK a \in touchedAccounts \cap Accounts :
            /\ touchedAccounts' = touchedAccounts \ {a}
            /\ \/ balance[a] >= minBalance[a] /\ UNCHANGED <<k, returncode>>
               \/ Panic(MIN_BALANCE_VIOLATION)
      BY <2>4 DEF CheckSufficientBalance
    <3>2. CASE balance[a] >= minBalance[a] /\ UNCHANGED <<k, returncode>>
      <4>1. Covered'
        BY <2>1, <3>1, <3>2 DEF ledger, Covered
      <4>2. CmdsSafe' /\ Accepted'
        BY <2>2, <3>2, CommandFields DEF CmdsSafe, SafeCmd, Accepted, Ops
      <4> QED BY <4>1, <4>2
    <3>3. CASE Panic(MIN_BALANCE_VIOLATION)
      <4>1. MIN_BALANCE_VIOLATION \in ReturnCodes \ {SUCCESS}
        BY Codes DEF MIN_BALANCE_VIOLATION, SUCCESS
      <4>2. CmdsSafe' /\ Accepted'
        BY <3>3, <4>1, PanicSafe
      <4>3. Covered'
        BY <3>3, <4>1 DEF Panic, Covered
      <4> QED BY <4>2, <4>3
    <3> QED BY <3>1, <3>2, <3>3
  <2> QED BY <1>12, <2>3, <2>4
<1> QED BY <1>2, <1>3, <1>4, <1>5, <1>6, <1>7, <1>8, <1>9, <1>10, <1>11, <1>12, NextCases

\* If every account starts with its minimum balance, an accepted group leaves
\* every account with it, although only the touched accounts are checked.
THEOREM MinBalanceEnforced ==
  ASSUME \A a \in Accounts : SetupBalance[a] >= PARAM_MIN_BALANCE
  PROVE  Spec => []MinBalanceHolds
<1>1. Init => TInv /\ CInv
  <2> SUFFICES ASSUME Init PROVE TInv /\ CInv
    OBVIOUS
  <2>1. TInv
    BY InitType
  <2>2. CInv
    BY CommandFields DEF Init, CInv, Covered, CmdsSafe, SafeCmd, Accepted, Ops, STUCK, SUCCESS
  <2> QED BY <2>1, <2>2
<1>2. TInv /\ CInv /\ [Next]_vars => (TInv /\ CInv)'
  BY TypeStep, CoverStep
<1>3. CInv => MinBalanceHolds
  BY CommandFields DEF CInv, Covered, Accepted, MinBalanceHolds, Ops
<1> QED BY <1>1, <1>2, <1>3, PTL DEF Spec

-----------------------------------------------------------------------------
(* What is due: the units the commands left in <k> give and take.          *)

\* The part of a command is a number.
LEMMA PartType == \A c \in Command : \A op, id : Part(c, op, id) \in Int
BY DEF Part, Command

\* What is due is a number; of no commands it is nothing,
LEMMA DueType ==
  ASSUME NEW s \in Seq(Command), NEW op, NEW id
  PROVE  Due(s, op, id) \in Int
<1> DEFINE f == [i \in 1..Len(s) |-> Part(s[i], op, id)]
<1>1. \A i \in 1..Len(s) : f[i] \in Int
  BY PartType
<1>2. IsFiniteSet(1..Len(s)) /\ DOMAIN f = 1..Len(s)
  BY FS_Interval
<1> HIDE DEF f
<1>3. SumFunctionOnSet(f, DOMAIN f) \in Int
  BY <1>1, <1>2, SumType
<1> QED BY <1>3 DEF Due, SumFunction, f

LEMMA DueNothing == \A op, id : Due(<<>>, op, id) = 0
<1> SUFFICES ASSUME NEW op, NEW id PROVE Due(<<>>, op, id) = 0
  OBVIOUS
<1> DEFINE f == [i \in 1..Len(<<>>) |-> Part(<<>>[i], op, id)]
<1>1. DOMAIN f = {}
  OBVIOUS
<1> HIDE DEF f
<1> QED BY <1>1, SumEmpty DEF Due, SumFunction, f

\* and one command more adds its part.
LEMMA DueHead ==
  ASSUME NEW s \in Seq(Command), s # <<>>, NEW op, NEW id
  PROVE  Due(s, op, id) = Part(Head(s), op, id) + Due(Tail(s), op, id)
<1> DEFINE f == [i \in 1..Len(s) |-> Part(s[i], op, id)]
           t == Tail(s)
           g == [i \in 1..Len(t) |-> Part(t[i], op, id)]
<1>1. \A i \in 1..Len(s) : Part(s[i], op, id) \in Int
  BY PartType
<1>2. f \in Seq(Int) /\ Len(f) = Len(s) /\ f # <<>>
  BY <1>1
<1>3. Head(f) = Part(Head(s), op, id)
  BY <1>2
<1>4. Len(t) = Len(s) - 1 /\ \A i \in 1..Len(t) : t[i] = s[i + 1] /\ i + 1 \in 1..Len(s)
  OBVIOUS
<1>5. Tail(f) = g
  BY <1>2, <1>4
<1> HIDE DEF f, g, t
<1>6. SumFunction(f) = Head(f) + SumFunction(Tail(f))
  BY <1>2, SumCons
<1> QED BY <1>3, <1>5, <1>6 DEF Due, f, g, t

LEMMA DueCons ==
  ASSUME NEW c \in Command, NEW s \in Seq(Command), NEW op, NEW id
  PROVE  Due(<<c>> \o s, op, id) = Part(c, op, id) + Due(s, op, id)
<1> DEFINE t == <<c>> \o s
<1>1. t \in Seq(Command) /\ t # <<>> /\ Head(t) = c /\ Tail(t) = s
  OBVIOUS
<1> HIDE DEF t
<1>2. Due(t, op, id) = Part(c, op, id) + Due(s, op, id)
  BY <1>1, DueHead
<1> QED BY <1>2 DEF t

LEMMA DueOne == \A c \in Command : \A op, id : Due(<<c>>, op, id) = Part(c, op, id)
<1> SUFFICES ASSUME NEW c \in Command, NEW op, NEW id
             PROVE  Due(<<c>>, op, id) = Part(c, op, id)
  OBVIOUS
<1>1. PICK e : e = <<>>
  OBVIOUS
<1>2. <<c>> \o e = <<c>> /\ e \in Seq(Command)
  BY <1>1
<1>3. Due(<<c>> \o e, op, id) = Part(c, op, id) + Due(e, op, id)
  BY <1>2, DueCons
<1>4. Due(e, op, id) = 0
  BY <1>1, DueNothing
<1>5. Part(c, op, id) \in Int
  BY PartType
<1>6. Due(<<c>>, op, id) = Part(c, op, id) + 0
  BY <1>2, <1>3, <1>4
<1> QED BY <1>5, <1>6

\* A sequence of two is one and one.
LEMMA PairConcat ==
  ASSUME NEW S, NEW x \in S, NEW y \in S
  PROVE  <<x, y>> = <<x>> \o <<y>> /\ <<x>> \in Seq(S) /\ <<y>> \in Seq(S)
<1> DEFINE s == <<x>> \o <<y>>
<1>1. /\ <<x>> \in Seq(S) /\ <<y>> \in Seq(S) /\ <<x, y>> \in Seq(S)
      /\ Len(<<x, y>>) = 2 /\ Len(<<x>>) = 1 /\ Len(<<y>>) = 1
  OBVIOUS
<1>2. /\ s \in Seq(S) /\ Len(s) = 2
      /\ \A i \in 1 .. 2 : s[i] = IF i <= 1 THEN <<x>>[i] ELSE <<y>>[i - 1]
  BY <1>1, ConcatProperties
<1>3. \A i \in 1 .. 2 : s[i] = <<x, y>>[i]
  BY <1>2
<1> HIDE DEF s
<1>4. s = <<x, y>>
  BY <1>1, <1>2, <1>3, SeqEqual
<1> QED BY <1>1, <1>4 DEF s

\* Two commands that take and give the same units, and perhaps one that is due
\* nothing, change nothing of what is due.
Pair(x, y) ==
  /\ x \in Command /\ y \in Command /\ y.op = x.op /\ y.asset = x.asset
  /\ y.amount >= 0 /\ x.amount = -y.amount
  /\ \/ x.op = "giveAlgos" /\ x.asset = 0
     \/ x.op = "giveAsset" /\ x.asset \in DOMAIN assets
Closes(z) == z \in Command /\ z.op = "closeTo" /\ z.amount = 0 /\ z.asset \in DOMAIN assets

LEMMA DuePair ==
  ASSUME NEW x, NEW y, Pair(x, y), NEW s \in Seq(Command), NEW op, NEW id
  PROVE  Due(<<x, y>> \o s, op, id) = Due(s, op, id)
<1> DEFINE t == <<y>> \o s
<1>1. x \in Command /\ y \in Command /\ t \in Seq(Command) /\ <<x, y>> \o s = <<x>> \o t
  <2>1. x \in Command /\ y \in Command
    BY DEF Pair
  <2>2. <<x, y>> = <<x>> \o <<y>> /\ <<x>> \in Seq(Command) /\ <<y>> \in Seq(Command)
    BY <2>1, PairConcat
  <2>3. (<<x>> \o <<y>>) \o s = <<x>> \o (<<y>> \o s)
    BY <2>2, ConcatAssociative
  <2> QED BY <2>1, <2>2, <2>3
<1>2. Due(t, op, id) = Part(y, op, id) + Due(s, op, id)
  BY <1>1, DueCons
<1> HIDE DEF t
<1>3. Due(<<x>> \o t, op, id) = Part(x, op, id) + Due(t, op, id)
  BY <1>1, DueCons
<1>4. Part(x, op, id) = -Part(y, op, id)
  BY DEF Pair, Part, Command
<1>5. Part(y, op, id) \in Int /\ Due(s, op, id) \in Int
  BY <1>1, PartType, DueType
<1>6. Due(<<x>> \o t, op, id) = Due(s, op, id)
  BY <1>2, <1>3, <1>4, <1>5
<1> QED BY <1>1, <1>6

LEMMA DueTriple ==
  ASSUME NEW x, NEW y, Pair(x, y), NEW z, Closes(z), NEW s \in Seq(Command), NEW op, NEW id
  PROVE  Due(<<x, y, z>> \o s, op, id) = Due(s, op, id)
<1> DEFINE t == <<z>> \o s
<1>1. z \in Command /\ t \in Seq(Command) /\ <<x, y, z>> \o s = <<x, y>> \o t
  BY DEF Closes, Pair
<1>2. Due(t, op, id) = Part(z, op, id) + Due(s, op, id)
  BY <1>1, DueCons
<1> HIDE DEF t
<1>3. Due(<<x, y>> \o t, op, id) = Due(t, op, id)
  BY <1>1, DuePair
<1>4. Part(z, op, id) = 0
  BY DEF Closes, Part
<1>5. Due(<<x, y>> \o t, op, id) = Due(s, op, id)
  BY <1>2, <1>3, <1>4, DueType
<1> QED BY <1>1, <1>5

-----------------------------------------------------------------------------
(* The commands left of a transaction.                                     *)

\* The command that takes comes first, and what it takes the others give; the
\* commands that end a transaction or the group come last; and a transaction
\* under way is about an asset that exists.
Ends          == {"evalNextTx", "checkSufficientBalance"}
LastEnds      == \A i \in 1..Len(k) : k[i].op \in Ends => i = Len(k) /\ k[i].amount = 0
OnlyHeadTakes == \A i \in 2..Len(k) : k[i].amount >= 0
KnownAssets   == \A i \in 1..Len(k) :
                   /\ k[i].op = "giveAlgos" => k[i].asset = 0
                   /\ k[i].op \in {"giveAsset", "closeTo"} => k[i].asset \in DOMAIN assets
TakesAreDue   == k # <<>> /\ (Head(k).amount < 0 \/ Head(k).op \in Ends) =>
                   \A op \in {"giveAlgos", "giveAsset"} : \A id : Due(k, op, id) = 0
DInv == LastEnds /\ OnlyHeadTakes /\ KnownAssets /\ TakesAreDue

\* What a step does to the commands left.
Idle     == k' = k /\ (DOMAIN assets' = DOMAIN assets \/ (k # <<>> /\ Head(k).op \in Ends))
Dropped  == k # <<>> /\ k' = <<>> /\ (Head(k).amount < 0 \/ Head(k).op \in Ends)
Executed == /\ k # <<>> /\ k' = Tail(k) /\ UNCHANGED assets
            /\ GiveAlgos \/ GiveAsset \/ CloseTo \/ CheckDone
Begun    == /\ k # <<>> /\ Head(k).op = "evalNextTx" /\ UNCHANGED assets
            /\ \E x, y : /\ Pair(x, y)
                         /\ \/ k' = <<x, y>> \o k
                            \/ \E z : /\ Closes(z) /\ z.account = x.account /\ z.asset = x.asset
                                      /\ k' = <<x, y, z>> \o k
Ended    == /\ k # <<>> /\ Head(k).op \in Ends
            /\ k' = <<Cmd("checkSufficientBalance")>>

\* A transaction becomes a pair of commands.
LEMMA BeginPairs ==
  ASSUME TInv, Pay \/ TransferAsset \/ OptOutAsset
  PROVE  Begun /\ UNCHANGED ledger
<1>1. /\ DOMAIN assets \subseteq Nat /\ Accounts \subseteq Addresses
      /\ \A n \in Amounts : n \in Int /\ -n \in Int /\ n >= 0
  BY NumberAssumption DEF TInv, LedgerOK, IsAssetMap, Addresses
<1>2. ASSUME NEW s \in Addresses, NEW r \in Addresses, NEW n \in Amounts
      PROVE  /\ Pair(GiveAlgosTo(s, -n), GiveAlgosTo(r, n))
             /\ \A id \in DOMAIN assets : Pair(GiveAssetTo(id, s, -n), GiveAssetTo(id, r, n))
  <2>1. Pair(GiveAlgosTo(s, -n), GiveAlgosTo(r, n))
    BY <1>1, CommandTypes, CommandFields DEF Pair
  <2>2. ASSUME NEW id \in DOMAIN assets
        PROVE  Pair(GiveAssetTo(id, s, -n), GiveAssetTo(id, r, n))
    BY <1>1, CommandTypes, CommandFields DEF Pair
  <2> QED BY <2>1, <2>2
<1>3. \A id \in DOMAIN assets, s, c \in Addresses : Closes(CloseToFor(id, s, c))
  BY <1>1, CommandTypes, CommandFields DEF Closes
<1>4. CASE Pay
  <2>1. PICK s \in Accounts, r \in Addresses, n \in Amounts :
          Evaluate({s, r}) /\ Becomes(<<GiveAlgosTo(s, -n), GiveAlgosTo(r, n)>>)
    BY <1>4 DEF Pay
  <2> DEFINE x == GiveAlgosTo(s, -n)  y == GiveAlgosTo(r, n)
  <2>2. Pair(x, y) /\ k' = <<x, y>> \o k
    BY <1>1, <1>2, <2>1 DEF Becomes
  <2> HIDE DEF x, y
  <2> QED BY <2>1, <2>2 DEF Begun, Evaluate, Next1, Becomes, ledger
<1>5. CASE TransferAsset
  <2>1. PICK s \in Accounts, r \in Accounts, id \in DOMAIN assets, n \in Amounts :
          Evaluate({s}) /\ Becomes(<<GiveAssetTo(id, s, -n), GiveAssetTo(id, r, n)>>)
    BY <1>5 DEF TransferAsset
  <2> DEFINE x == GiveAssetTo(id, s, -n)  y == GiveAssetTo(id, r, n)
  <2>2. Pair(x, y) /\ k' = <<x, y>> \o k
    BY <1>1, <1>2, <2>1 DEF Becomes
  <2> HIDE DEF x, y
  <2> QED BY <2>1, <2>2 DEF Begun, Evaluate, Next1, Becomes, ledger
<1>6. CASE OptOutAsset
  <2>1. PICK s \in Accounts, r \in Addresses, c \in Addresses, id \in DOMAIN assets, n \in Amounts :
          /\ Evaluate({s})
          /\ Becomes(<<GiveAssetTo(id, s, -n), GiveAssetTo(id, r, n), CloseToFor(id, s, c)>>)
    BY <1>6 DEF OptOutAsset
  <2> DEFINE x == GiveAssetTo(id, s, -n)  y == GiveAssetTo(id, r, n)  z == CloseToFor(id, s, c)
  <2>2. Pair(x, y) /\ Closes(z) /\ k' = <<x, y, z>> \o k
    BY <1>1, <1>2, <1>3, <2>1 DEF Becomes
  <2>3. z.account = x.account /\ z.asset = x.asset
    BY <1>1, CommandFields
  <2> HIDE DEF x, y, z
  <2> QED BY <2>1, <2>2, <2>3 DEF Begun, Evaluate, Next1, Becomes, ledger
<1> QED BY <1>4, <1>5, <1>6

\* A command that panics would have taken more than there is.
LEMMA GiveAlgosCases ==
  ASSUME TInv, GiveAlgos
  PROVE  Dropped \/ Executed
<1>1. /\ k # <<>> /\ Head(k).account \in Accounts /\ Head(k).amount \in Int
      /\ balance[Head(k).account] \in Nat /\ UNCHANGED assets
  BY HeadType DEF GiveAlgos, Next1, TInv, LedgerOK
<1>2. CASE k' = Tail(k)
  BY <1>1, <1>2 DEF Executed
<1>3. CASE balance[Head(k).account] + Head(k).amount < 0 /\ k' = <<>>
  BY <1>1, <1>3 DEF Dropped
<1> QED BY <1>2, <1>3 DEF GiveAlgos, Done, Panic

LEMMA GiveAssetCases ==
  ASSUME TInv, GiveAsset
  PROVE  Dropped \/ Executed
<1> DEFINE a == Head(k).account  id == Head(k).asset
<1>1. /\ k # <<>> /\ a \in Accounts /\ id \in DOMAIN holdings[a] /\ Head(k).amount \in Int
      /\ UNCHANGED assets
  BY HeadType DEF GiveAsset, Next1, HasOptedIn
<1>2. holdings[a][id].amount \in Nat
  BY <1>1 DEF TInv, LedgerOK, HoldingsOK, IsAssetMap, Holding
<1>3. CASE k' = Tail(k)
  BY <1>1, <1>3 DEF Executed
<1>4. CASE holdings[a][id].amount + Head(k).amount < 0 /\ k' = <<>>
  BY <1>1, <1>2, <1>4 DEF Dropped
<1> QED BY <1>3, <1>4 DEF GiveAsset, Done, Panic

\* Every step is one of these.
LEMMA CommandCases ==
  ASSUME TInv, [Next]_vars
  PROVE  Idle \/ Dropped \/ Executed \/ Begun \/ Ended
<1>1. CASE UNCHANGED vars
  BY <1>1 DEF vars, ledger, Idle
<1>2. CASE Pay \/ TransferAsset \/ OptOutAsset
  BY <1>2, BeginPairs
<1>3. CASE Refused
  BY <1>3, RefusedEffect DEF Evaluate, Next1, Panic, Dropped, Ends
<1>4. CASE CreateAsset \/ DestroyAsset \/ ModifyAsset \/ OptInAsset \/ FreezeAsset
  BY <1>4, CreateEffect, DestroyEffect, ModifyEffect, OptInEffect, FreezeEffect
     DEF Evaluate, Next1, Idle, Ends
<1>5. CASE GiveAlgos \/ GiveAsset
  BY <1>5, GiveAlgosCases, GiveAssetCases
<1>6. CASE CloseTo
  BY <1>6, CloseToEffect DEF Executed
<1>7. CASE GroupAccepted
  BY <1>7 DEF GroupAccepted, Next1, Ended, Ends
<1>8. CASE CheckSufficientBalance
  BY <1>8 DEF CheckSufficientBalance, Next1, Panic, ledger, Idle, Dropped, Ends
<1>9. CASE CheckDone
  BY <1>9 DEF CheckDone, Next1, Done, ledger, Executed
<1> QED BY <1>1, <1>2, <1>3, <1>4, <1>5, <1>6, <1>7, <1>8, <1>9, NextCases
LEMMA SingleSeq ==
  ASSUME NEW S, NEW s \in Seq(S), Len(s) = 1
  PROVE  s = <<Head(s)>> /\ Tail(s) = <<>> /\ Head(s) = s[1]
<1>1. Head(s) = s[1] /\ s[1] \in S
  OBVIOUS
<1>2. <<s[1]>> \in Seq(S) /\ Len(<<s[1]>>) = 1 /\ <<s[1]>>[1] = s[1]
  BY <1>1
<1>3. \A i \in 1 .. Len(s) : s[i] = <<s[1]>>[i]
  BY <1>2
<1>4. s = <<s[1]>>
  BY <1>2, <1>3, SeqEqual
<1>5. Tail(s) = <<>>
  <2>1. Tail(s) \in Seq(S) /\ Len(Tail(s)) = 0
    OBVIOUS
  <2> QED BY <2>1, EmptySeq
<1>6. s = <<Head(s)>>
  BY <1>1, <1>4, Zenon
<1> QED BY <1>1, <1>5, <1>6

\* A continuation of one command.
LEMMA LastOne ==
  ASSUME TInv, LastEnds, k # <<>>, Head(k).op \in Ends
  PROVE  Len(k) = 1 /\ k = <<Head(k)>> /\ Tail(k) = <<>>
<1>1. k \in Seq(Command) /\ Head(k) = k[1] /\ 1 \in 1..Len(k)
  BY DEF TInv, ContOK
<1>2. Len(k) = 1
  BY <1>1 DEF LastEnds
<1> QED BY <1>1, <1>2, SingleSeq

\* The rest of a transaction.
LEMMA TailType ==
  ASSUME TInv, k # <<>>
  PROVE  /\ Len(Tail(k)) = Len(k) - 1 /\ Len(k) \in Nat /\ k[1] = Head(k)
         /\ \A i \in 1..Len(Tail(k)) : i + 1 \in 2..Len(k) /\ Tail(k)[i] = k[i + 1]
  BY DEF TInv, ContOK

\* The commands that come before <k>.
LEMMA FrontType ==
  ASSUME NEW s \in Seq(Command), NEW t \in Seq(Command)
  PROVE  /\ Len(s \o t) = Len(s) + Len(t)
         /\ \A i \in 1..Len(s \o t) :
              (s \o t)[i] = IF i <= Len(s) THEN s[i] ELSE t[i - Len(s)]
<1>1. Len(s \o t) = Len(s) + Len(t)
  BY ConcatProperties
<1> QED BY <1>1, ConcatProperties

\* A transaction that becomes the commands s.
LEMMA BegunKeeps ==
  ASSUME TInv, DInv, k # <<>>, Head(k).op = "evalNextTx", UNCHANGED assets,
         NEW s \in Seq(Command), s # <<>>, k' = s \o k,
         \A i \in 1..Len(s) :
           /\ s[i].op \notin Ends /\ (i # 1 => s[i].amount >= 0)
           /\ s[i].op = "giveAlgos" => s[i].asset = 0
           /\ s[i].op \in {"giveAsset", "closeTo"} => s[i].asset \in DOMAIN assets,
         \A op \in {"giveAlgos", "giveAsset"} : \A id : Due(k', op, id) = Due(k, op, id)
  PROVE  DInv'
<1>1. Len(k) = 1 /\ k[1] = Head(k) /\ k \in Seq(Command) /\ Head(k).op \in Ends
  <2>1. Head(k).op \in Ends
    BY DEF Ends
  <2> QED BY <2>1, LastOne, TailType DEF DInv, TInv, ContOK
<1>2. k[1].amount = 0
  BY <1>1 DEF DInv, LastEnds
<1>3. Len(s) \in Nat \ {0}
  OBVIOUS
<1>4. Len(k') = Len(s) + 1
  BY <1>1, FrontType
<1>5. \A i \in 1..Len(k') : k'[i] = IF i <= Len(s) THEN s[i] ELSE k[i - Len(s)]
  BY FrontType
<1>6. \A i \in 1..Len(k') :
        (i \in 1..Len(s) /\ k'[i] = s[i]) \/ (i = Len(s) + 1 /\ k'[i] = Head(k))
  BY <1>1, <1>3, <1>4, <1>5
<1>7. LastEnds'
  BY <1>1, <1>2, <1>4, <1>6 DEF LastEnds
<1>8. OnlyHeadTakes'
  BY <1>1, <1>2, <1>3, <1>4, <1>6 DEF OnlyHeadTakes
<1>9. KnownAssets'
  BY <1>6 DEF KnownAssets
<1>10. TakesAreDue'
  BY <1>1 DEF DInv, TakesAreDue
<1> QED BY <1>7, <1>8, <1>9, <1>10 DEF DInv

\* A pair of commands does not change what is due.
LEMMA BegunSame ==
  ASSUME TInv, DInv, Begun
  PROVE  DInv' /\ \A op \in {"giveAlgos", "giveAsset"} : \A id : Due(k', op, id) = Due(k, op, id)
<1>1. PICK x, y : /\ Pair(x, y)
                  /\ \/ k' = <<x, y>> \o k
                     \/ \E z : Closes(z) /\ k' = <<x, y, z>> \o k
  BY DEF Begun
<1>2. k # <<>> /\ Head(k).op = "evalNextTx" /\ UNCHANGED assets /\ k \in Seq(Command)
  BY DEF Begun, TInv, ContOK
<1>3. CASE k' = <<x, y>> \o k
  <2> DEFINE s == <<x, y>>
  <2>1. \A op, id : Due(k', op, id) = Due(k, op, id)
    BY <1>1, <1>2, <1>3, DuePair
  <2>2. s \in Seq(Command) /\ s # <<>> /\ Len(s) = 2 /\ s[1] = x /\ s[2] = y
    BY <1>1 DEF Pair
  <2>3. \A i \in 1..Len(s) : i = 1 \/ i = 2
    BY <2>2
  <2>4. k' = s \o k
    BY <1>3
  <2> HIDE DEF s
  <2>5. \A i \in 1..Len(s) :
          /\ s[i].op \notin Ends /\ (i # 1 => s[i].amount >= 0)
          /\ s[i].op = "giveAlgos" => s[i].asset = 0
          /\ s[i].op \in {"giveAsset", "closeTo"} => s[i].asset \in DOMAIN assets
    BY <1>1, <2>2, <2>3 DEF Pair, Ends
  <2> QED BY <1>2, <2>1, <2>2, <2>4, <2>5, BegunKeeps
<1>4. ASSUME NEW z, Closes(z), k' = <<x, y, z>> \o k
      PROVE  DInv' /\ \A op \in {"giveAlgos", "giveAsset"} : \A id : Due(k', op, id) = Due(k, op, id)
  <2> DEFINE s == <<x, y, z>>
  <2>1. \A op, id : Due(k', op, id) = Due(k, op, id)
    BY <1>1, <1>2, <1>4, DueTriple
  <2>2. s \in Seq(Command) /\ s # <<>> /\ Len(s) = 3 /\ s[1] = x /\ s[2] = y /\ s[3] = z
    BY <1>1, <1>4 DEF Pair, Closes
  <2>3. \A i \in 1..Len(s) : i = 1 \/ i = 2 \/ i = 3
    BY <2>2
  <2>4. k' = s \o k
    BY <1>4
  <2> HIDE DEF s
  <2>5. \A i \in 1..Len(s) :
          /\ s[i].op \notin Ends /\ (i # 1 => s[i].amount >= 0)
          /\ s[i].op = "giveAlgos" => s[i].asset = 0
          /\ s[i].op \in {"giveAsset", "closeTo"} => s[i].asset \in DOMAIN assets
    BY <1>1, <1>4, <2>2, <2>3 DEF Pair, Closes, Ends
  <2> QED BY <1>2, <2>1, <2>2, <2>4, <2>5, BegunKeeps
<1> QED BY <1>1, <1>3, <1>4

\* The first step of the check.
LEMMA EndedDue ==
  ASSUME Ended
  PROVE  /\ k' = <<Cmd("checkSufficientBalance")>> /\ Cmd("checkSufficientBalance") \in Command
         /\ \A op \in {"giveAlgos", "giveAsset"} : \A id : Due(k', op, id) = 0
<1> DEFINE c == Cmd("checkSufficientBalance")
<1>1. k' = <<c>> /\ c \in Command
  BY CommandTypes DEF Ended, Ops
<1>2. c.op = "checkSufficientBalance"
  BY CommandFields DEF Ops
<1> HIDE DEF c
<1>3. \A op \in {"giveAlgos", "giveAsset"} : \A id : Part(c, op, id) = 0
  BY <1>2 DEF Part
<1> QED BY <1>1, <1>3, DueOne DEF c

\* Every step keeps the commands in order.
LEMMA DueStep == TInv /\ DInv /\ [Next]_vars => DInv'
<1> SUFFICES ASSUME TInv, DInv, [Next]_vars PROVE DInv'
  OBVIOUS
<1>1. CASE Idle
  <2>1. KnownAssets'
    <3>1. CASE DOMAIN assets' = DOMAIN assets
      BY <1>1, <3>1 DEF Idle, DInv, KnownAssets
    <3>2. CASE k # <<>> /\ Head(k).op \in Ends
      <4>1. Len(k') = 1 /\ k'[1].op \in Ends
        BY <1>1, <3>2, LastOne, TailType DEF Idle, DInv
      <4> QED BY <4>1 DEF KnownAssets, Ends
    <3> QED BY <1>1, <3>1, <3>2 DEF Idle
  <2> QED BY <1>1, <2>1 DEF Idle, DInv, LastEnds, OnlyHeadTakes, TakesAreDue
<1>2. CASE Dropped
  BY <1>2 DEF Dropped, DInv, LastEnds, OnlyHeadTakes, KnownAssets, TakesAreDue
<1>3. CASE Executed
  <2>1. /\ Len(k') = Len(k) - 1 /\ Len(k) \in Nat
        /\ \A i \in 1..Len(k') : i + 1 \in 2..Len(k) /\ k'[i] = k[i + 1]
    BY <1>3, TailType DEF Executed
  <2>2. LastEnds' /\ OnlyHeadTakes' /\ KnownAssets'
    <3>1. LastEnds'
      BY <2>1 DEF DInv, LastEnds
    <3>2. OnlyHeadTakes'
      BY <2>1 DEF DInv, OnlyHeadTakes
    <3>3. KnownAssets'
      BY <1>3, <2>1 DEF DInv, KnownAssets, Executed
    <3> QED BY <3>1, <3>2, <3>3
  <2>3. TakesAreDue'
    <3> SUFFICES ASSUME k' # <<>>, Head(k').amount < 0 \/ Head(k').op \in Ends
                 PROVE  \A op \in {"giveAlgos", "giveAsset"} : \A id : Due(k', op, id) = 0
      BY DEF TakesAreDue
    <3>1. TInv'
      BY TypeStep
    <3>2. k' \in Seq(Command) /\ 1 \in 1..Len(k') /\ k'[1] = Head(k') /\ Head(k') \in Command
      BY <3>1 DEF TInv, ContOK
    <3>3. Head(k').amount >= 0 /\ Head(k').amount \in Int
      BY <2>1, <3>2 DEF DInv, OnlyHeadTakes, Command
    <3>4. Head(k').op \in Ends
      BY <3>3
    <3>5. Len(k') = 1 /\ k' = <<Head(k')>>
      <4>1. Len(k') = 1
        BY <2>2, <3>2, <3>4 DEF LastEnds
      <4> QED BY <3>2, <4>1, SingleSeq
    <3>6. \A op \in {"giveAlgos", "giveAsset"} : \A id : Part(Head(k'), op, id) = 0
      BY <3>4 DEF Part, Ends
    <3> QED BY <3>2, <3>5, <3>6, DueOne
  <2> QED BY <2>2, <2>3 DEF DInv
<1>4. CASE Begun
  BY <1>4, BegunSame
<1>5. CASE Ended
  <2> DEFINE c == Cmd("checkSufficientBalance")
  <2>1. k' = <<c>> /\ \A op \in {"giveAlgos", "giveAsset"} : \A id : Due(k', op, id) = 0
    BY <1>5, EndedDue
  <2>2. c.op = "checkSufficientBalance" /\ c.amount = 0
    BY CommandFields DEF Ops
  <2> HIDE DEF c
  <2>3. Len(k') = 1 /\ k'[1] = c
    BY <2>1
  <2> QED BY <2>1, <2>2, <2>3 DEF DInv, LastEnds, OnlyHeadTakes, KnownAssets, TakesAreDue
<1> QED BY <1>1, <1>2, <1>3, <1>4, <1>5, CommandCases

\* What is due changes only when a command is executed, by its part.
LEMMA DueChange ==
  ASSUME TInv, DInv, [Next]_vars, NEW op \in {"giveAlgos", "giveAsset"}, NEW id
  PROVE  \/ Due(k', op, id) = Due(k, op, id)
         \/ /\ Executed /\ Head(k).op = op /\ Head(k).asset = id
            /\ Due(k', op, id) = Due(k, op, id) - Head(k).amount
<1>1. CASE Idle
  BY <1>1 DEF Idle
<1>2. CASE Dropped
  BY <1>2, DueNothing DEF Dropped, DInv, TakesAreDue
<1>3. CASE Executed
  <2>1. k # <<>> /\ k' = Tail(k) /\ k \in Seq(Command) /\ Head(k) \in Command /\ Tail(k) \in Seq(Command)
    BY <1>3, HeadType DEF Executed, TInv, ContOK
  <2>2. Due(k, op, id) = Part(Head(k), op, id) + Due(k', op, id)
    BY <2>1, DueHead
  <2>3. Part(Head(k), op, id) \in Int /\ Due(k', op, id) \in Int /\ Due(k, op, id) \in Int
    BY <2>1, PartType, DueType
  <2>4. CASE Head(k).op = op /\ Head(k).asset = id
    <3>1. Part(Head(k), op, id) = Head(k).amount
      BY <2>4 DEF Part
    <3> QED BY <1>3, <2>2, <2>3, <2>4, <3>1
  <2>5. CASE ~ (Head(k).op = op /\ Head(k).asset = id)
    <3>1. Part(Head(k), op, id) = 0
      BY <2>5 DEF Part
    <3> QED BY <2>2, <2>3, <3>1
  <2> QED BY <2>4, <2>5
<1>4. CASE Begun
  BY <1>4, BegunSame
<1>5. CASE Ended
  BY <1>5, EndedDue DEF Ended, DInv, TakesAreDue
<1> QED BY <1>1, <1>2, <1>3, <1>4, <1>5, CommandCases

-----------------------------------------------------------------------------
(* Algos and assets are conserved.                                         *)
Algos == SumFunction(balance)

\* Giving algos changes their sum by what is given.
LEMMA GiveAlgosSum ==
  ASSUME TInv, GiveAlgos
  PROVE  \/ Dropped /\ UNCHANGED balance
         \/ k' = Tail(k) /\ Algos' = Algos + Head(k).amount
<1> DEFINE a == Head(k).account
           left == balance[a] + Head(k).amount
<1>1. /\ k # <<>> /\ a \in Accounts /\ Head(k).amount \in Int
      /\ balance \in [Accounts -> Nat] /\ IsFiniteSet(Accounts)
  BY HeadType, AddressAssumption DEF GiveAlgos, Next1, TInv, LedgerOK
<1>2. CASE left < 0 /\ UNCHANGED balance /\ k' = <<>>
  <2>1. Head(k).amount < 0
    BY <1>1, <1>2
  <2> QED BY <1>1, <1>2, <2>1 DEF Dropped
<1>3. CASE left >= 0 /\ balance' = [balance EXCEPT ![a] = left] /\ k' = Tail(k)
  <2>1. left \in Nat
    BY <1>1, <1>3
  <2>2. /\ balance' \in [Accounts -> Nat] /\ balance'[a] = left
        /\ \A b \in Accounts : b # a => balance'[b] = balance[b]
    BY <1>1, <1>3, <2>1
  <2>3. SumFunctionOnSet(balance', Accounts) =
          SumFunctionOnSet(balance, Accounts) - balance[a] + balance'[a]
    BY <1>1, <2>2, SumChange
  <2>4. SumFunctionOnSet(balance, Accounts) \in Int
    BY <1>1, SumType
  <2>5. Algos = SumFunctionOnSet(balance, Accounts) /\ Algos' = SumFunctionOnSet(balance', Accounts)
    BY <1>1, <2>2 DEF Algos, SumFunction
  <2> HIDE DEF a
  <2> QED BY <1>1, <1>3, <2>2, <2>3, <2>4, <2>5
<1> QED BY <1>2, <1>3 DEF GiveAlgos, Done, Panic

\* Only #giveAlgos changes balances, and what it gives was due.
LEMMA AlgosStep ==
  ASSUME TInv, DInv, [Next]_vars
  PROVE  Algos' + Due(k', "giveAlgos", 0) = Algos + Due(k, "giveAlgos", 0)
<1>1. k \in Seq(Command) /\ Due(k, "giveAlgos", 0) \in Int /\ Algos \in Int
  <2>1. SumFunctionOnSet(balance, Accounts) \in Int /\ DOMAIN balance = Accounts
    BY SumType, AddressAssumption DEF TInv, LedgerOK
  <2> QED BY <2>1, DueType DEF TInv, ContOK, Algos, SumFunction
<1>2. CASE GiveAlgos
  <2>1. /\ k # <<>> /\ Head(k) = k[1] /\ 1 \in 1..Len(k) /\ Head(k).op = "giveAlgos"
        /\ Head(k) \in Command /\ Tail(k) \in Seq(Command) /\ Head(k).amount \in Int
    BY <1>2, HeadType DEF GiveAlgos, Next1, TInv, ContOK
  <2>2. Head(k).asset = 0
    BY <2>1 DEF DInv, KnownAssets
  <2>3. CASE Dropped /\ UNCHANGED balance
    <3>1. Due(k, "giveAlgos", 0) = 0 /\ k' = <<>>
      BY <2>3 DEF Dropped, DInv, TakesAreDue
    <3> QED BY <2>3, <3>1, DueNothing DEF Algos
  <2>4. CASE k' = Tail(k) /\ Algos' = Algos + Head(k).amount
    <3>1. Due(k, "giveAlgos", 0) = Part(Head(k), "giveAlgos", 0) + Due(k', "giveAlgos", 0)
      BY <1>1, <2>1, <2>4, DueHead
    <3>2. Part(Head(k), "giveAlgos", 0) = Head(k).amount
      BY <2>1, <2>2 DEF Part
    <3>3. Due(k', "giveAlgos", 0) \in Int
      BY <2>1, <2>4, DueType
    <3> QED BY <1>1, <2>1, <2>4, <3>1, <3>2, <3>3
  <2> QED BY <1>2, <2>3, <2>4, GiveAlgosSum
<1>3. CASE ~GiveAlgos
  <2>1. UNCHANGED balance
    <3>1. UNCHANGED ledger => UNCHANGED balance
      BY DEF ledger
    <3>2. CASE UNCHANGED vars
      BY <3>1, <3>2 DEF vars
    <3>3. CASE Next
      <4>1. Pay \/ TransferAsset \/ OptOutAsset \/ Refused => UNCHANGED ledger
        BY RefusedEffect, BeginPairs
      <4>2. GroupAccepted \/ CheckSufficientBalance \/ CheckDone => UNCHANGED ledger
        BY DEF GroupAccepted, CheckSufficientBalance, CheckDone
      <4>3. CreateAsset \/ DestroyAsset \/ ModifyAsset \/ OptInAsset \/ FreezeAsset => UNCHANGED balance
        BY CreateEffect, DestroyEffect, ModifyEffect, OptInEffect, FreezeEffect
      <4>4. GiveAsset \/ CloseTo => UNCHANGED balance
        BY GiveAssetEffect, CloseToEffect
      <4> QED BY <1>3, <3>1, <3>3, <4>1, <4>2, <4>3, <4>4, NextCases
    <3> QED BY <3>2, <3>3
  <2>2. CASE Due(k', "giveAlgos", 0) = Due(k, "giveAlgos", 0)
    BY <2>1, <2>2 DEF Algos
  <2>3. CASE Executed /\ Head(k).op = "giveAlgos"
    BY <1>3, <2>3 DEF Executed, GiveAsset, CloseTo, CheckDone, Next1
  <2> QED BY <2>2, <2>3, DueChange
<1> QED BY <1>2, <1>3

\* At the start nothing is due.
LEMMA InitDue ==
  ASSUME Init
  PROVE  DInv /\ \A op \in {"giveAlgos", "giveAsset"} : \A id : Due(k, op, id) = 0
<1> DEFINE c == Cmd("evalNextTx")
<1>1. k = <<c>>
  BY DEF Init
<1>2. c \in Command /\ c.op = "evalNextTx" /\ c.amount = 0
  BY CommandTypes, CommandFields DEF Ops
<1> HIDE DEF c
<1>3. Len(k) = 1 /\ k[1] = c
  BY <1>1
<1>4. \A op \in {"giveAlgos", "giveAsset"} : \A id : Due(k, op, id) = 0
  BY <1>1, <1>2, DueOne DEF Part
<1> QED BY <1>2, <1>3, <1>4 DEF DInv, LastEnds, OnlyHeadTakes, KnownAssets, TakesAreDue, Ends

\* No algo is created or destroyed by a group, whoever pays whom, how often and
\* however the group ends.
THEOREM AlgosAreConserved == Spec => []AlgosConserved
<1> DEFINE I == Algos + Due(k, "giveAlgos", 0) = SumFunction(SetupBalance)
<1>1. Init => TInv /\ DInv /\ I
  <2> SUFFICES ASSUME Init PROVE TInv /\ DInv /\ I
    OBVIOUS
  <2>1. TInv /\ DInv /\ balance = SetupBalance /\ Due(k, "giveAlgos", 0) = 0
    BY InitType, InitDue DEF Init
  <2>2. SumFunction(SetupBalance) \in Int
    <3>1. SumFunctionOnSet(SetupBalance, Accounts) \in Int /\ DOMAIN SetupBalance = Accounts
      BY SumType, AddressAssumption, SetupAssumption
    <3> QED BY <3>1 DEF SumFunction
  <2> QED BY <2>1, <2>2 DEF Algos
<1>2. TInv /\ DInv /\ I /\ [Next]_vars => (TInv /\ DInv /\ I)'
  BY TypeStep, DueStep, AlgosStep
<1>3. I => AlgosConserved
  BY DEF AlgosConserved, Algos
<1> HIDE DEF I
<1> QED BY <1>1, <1>2, <1>3, PTL DEF Spec

\* Held, for the holdings before and after a step.
UnitsOf(h, a, id) == IF a \in Accounts /\ id \in DOMAIN h[a] THEN h[a][id].amount ELSE 0
HeldIn(h, id)     == SumFunction([a \in Accounts |-> UnitsOf(h, a, id)])

LEMMA HeldIsIn ==
  /\ \A id : Held(id) = HeldIn(holdings, id)
  /\ \A id : HeldIn(holdings, id)' = HeldIn(holdings', id)
  BY DEF Held, HeldIn, Units, UnitsOf, HasOptedIn

\* Units are numbers, and so is their sum.
LEMMA HeldType ==
  ASSUME TInv
  PROVE  \A id : HeldIn(holdings, id) \in Int /\ \A a \in Accounts : UnitsOf(holdings, a, id) \in Nat
<1> SUFFICES ASSUME NEW id PROVE HeldIn(holdings, id) \in Int /\ \A a \in Accounts : UnitsOf(holdings, a, id) \in Nat
  OBVIOUS
<1>1. \A a \in Accounts : UnitsOf(holdings, a, id) \in Nat
  BY DEF UnitsOf, TInv, LedgerOK, HoldingsOK, IsAssetMap, Holding
<1> DEFINE f == [a \in Accounts |-> UnitsOf(holdings, a, id)]
<1>2. DOMAIN f = Accounts /\ \A a \in Accounts : f[a] \in Int
  BY <1>1
<1> HIDE DEF f
<1>3. SumFunctionOnSet(f, Accounts) \in Int
  BY <1>2, SumType, AddressAssumption
<1> QED BY <1>1, <1>2, <1>3 DEF HeldIn, SumFunction, f

LEMMA UnitsAfter ==
  ASSUME TInv'
  PROVE  \A id : \A a \in Accounts : UnitsOf(holdings', a, id) \in Nat
  BY DEF UnitsOf, TInv, LedgerOK, HoldingsOK, IsAssetMap, Holding

\* A step that changes the units of one account at most.
LEMMA HeldChange ==
  ASSUME TInv, TInv', NEW a \in Accounts, NEW id,
         \A b \in Accounts : b # a => UnitsOf(holdings', b, id) = UnitsOf(holdings, b, id)
  PROVE  HeldIn(holdings', id) = HeldIn(holdings, id) - UnitsOf(holdings, a, id) + UnitsOf(holdings', a, id)
<1> DEFINE f == [b \in Accounts |-> UnitsOf(holdings, b, id)]
           g == [b \in Accounts |-> UnitsOf(holdings', b, id)]
<1>1. (\A b \in Accounts : UnitsOf(holdings, b, id) \in Nat) /\ (\A b \in Accounts : UnitsOf(holdings', b, id) \in Nat)
  BY HeldType, UnitsAfter
<1>2. /\ DOMAIN f = Accounts /\ DOMAIN g = Accounts
      /\ \A b \in Accounts : f[b] \in Int /\ g[b] \in Int
      /\ f[a] = UnitsOf(holdings, a, id) /\ g[a] = UnitsOf(holdings', a, id)
      /\ \A b \in Accounts : b # a => g[b] = f[b]
  BY <1>1
<1>3. HeldIn(holdings, id) = SumFunctionOnSet(f, Accounts)
  BY DEF HeldIn, SumFunction
<1>4. HeldIn(holdings', id) = SumFunctionOnSet(g, Accounts)
  BY DEF HeldIn, SumFunction
<1> HIDE DEF f, g
<1>5. SumFunctionOnSet(g, Accounts) = SumFunctionOnSet(f, Accounts) - f[a] + g[a]
  BY <1>2, SumChange, AddressAssumption
<1> QED BY <1>2, <1>3, <1>4, <1>5

LEMMA HeldSame ==
  ASSUME NEW id, \A b \in Accounts : UnitsOf(holdings', b, id) = UnitsOf(holdings, b, id)
  PROVE  HeldIn(holdings', id) = HeldIn(holdings, id)
<1>1. [b \in Accounts |-> UnitsOf(holdings', b, id)] = [b \in Accounts |-> UnitsOf(holdings, b, id)]
  OBVIOUS
<1> QED BY <1>1 DEF HeldIn

\* Units move from one account to another.
LEMMA HeldMoves ==
  ASSUME TInv, TInv', NEW a \in Accounts, NEW to \in Accounts, a # to, NEW id,
         \A b \in Accounts \ {a, to} : UnitsOf(holdings', b, id) = UnitsOf(holdings, b, id),
         UnitsOf(holdings', a, id) = 0, UnitsOf(holdings', to, id) = UnitsOf(holdings, to, id) + UnitsOf(holdings, a, id)
  PROVE  HeldIn(holdings', id) = HeldIn(holdings, id)
<1> DEFINE f == [b \in Accounts |-> UnitsOf(holdings, b, id)]
           g == [b \in Accounts |-> IF b = a THEN 0 ELSE UnitsOf(holdings, b, id)]
           h == [b \in Accounts |-> UnitsOf(holdings', b, id)]
<1>1. (\A b \in Accounts : UnitsOf(holdings, b, id) \in Nat) /\ (\A b \in Accounts : UnitsOf(holdings', b, id) \in Nat)
  BY HeldType, UnitsAfter
<1>2. /\ \A b \in Accounts : f[b] \in Int /\ g[b] \in Int /\ h[b] \in Int
      /\ g[a] = 0 /\ \A b \in Accounts : b # a => g[b] = f[b]
      /\ h[to] = f[to] + f[a] /\ \A b \in Accounts : b # to => h[b] = g[b]
  BY <1>1
<1>3. HeldIn(holdings, id) = SumFunctionOnSet(f, Accounts) /\ HeldIn(holdings, id) \in Int
  BY HeldType DEF HeldIn, SumFunction
<1>4. HeldIn(holdings', id) = SumFunctionOnSet(h, Accounts)
  BY DEF HeldIn, SumFunction
<1> HIDE DEF f, g, h
<1>5. SumFunctionOnSet(g, Accounts) = SumFunctionOnSet(f, Accounts) - f[a] + g[a]
  BY <1>2, SumChange, AddressAssumption
<1>6. SumFunctionOnSet(h, Accounts) = SumFunctionOnSet(g, Accounts) - g[to] + h[to]
  BY <1>2, SumChange, AddressAssumption
<1> QED BY <1>2, <1>3, <1>4, <1>5, <1>6

-----------------------------------------------------------------------------
(* What each action does to units.                                         *)
SameUnits(id) == \A b \in Accounts : UnitsOf(holdings', b, id) = UnitsOf(holdings, b, id)
SameTotals    == DOMAIN assets' = DOMAIN assets
                 /\ \A id \in DOMAIN assets : assets'[id].total = assets[id].total

LEMMA SameHoldings ==
  ASSUME UNCHANGED holdings PROVE \A id : SameUnits(id)
  BY DEF SameUnits, UnitsOf, HasOptedIn

\* The creator has every unit of an asset nobody has heard of.
LEMMA CreateUnits ==
  ASSUME TInv, Fresh, CreateAsset
  PROVE  \E a \in Accounts :
           /\ DOMAIN assets' = DOMAIN assets \cup {nextAssetID}
           /\ \A id \in DOMAIN assets : assets'[id] = assets[id]
           /\ UnitsOf(holdings', a, nextAssetID) = assets'[nextAssetID].total /\ UnitsOf(holdings, a, nextAssetID) = 0
           /\ \A b \in Accounts : b # a => UnitsOf(holdings', b, nextAssetID) = UnitsOf(holdings, b, nextAssetID)
           /\ \A id : id # nextAssetID => SameUnits(id)
<1>1. PICK p \in AssetParams :
        /\ assets' = With(assets, nextAssetID, p)
        /\ holdings' = [holdings EXCEPT ![p.creator] =
             With(@, nextAssetID, [amount |-> p.total, frozen |-> p.defaultFrozen])]
  BY NumberAssumption DEF CreateAsset, AssetParams
<1> DEFINE a == p.creator
           h == [amount |-> p.total, frozen |-> p.defaultFrozen]
           f == With(holdings[a], nextAssetID, h)
<1>2. a \in Accounts /\ h \in Holding /\ nextAssetID \in Nat \ {0} /\ HoldingsOK
  BY DEF AssetParams, Holding, TInv, LedgerOK
<1>3. nextAssetID \notin DOMAIN assets /\ \A b \in Accounts : nextAssetID \notin DOMAIN holdings[b]
  BY <1>2 DEF Fresh
<1>4. /\ DOMAIN assets' = DOMAIN assets \cup {nextAssetID} /\ assets'[nextAssetID] = p
      /\ \A id \in DOMAIN assets : assets'[id] = assets[id]
  BY <1>1, <1>3 DEF With
<1>5. /\ IsAssetMap(f, Holding) /\ DOMAIN f = DOMAIN holdings[a] \cup {nextAssetID}
      /\ f[nextAssetID] = h /\ \A x \in DOMAIN holdings[a] : f[x] = holdings[a][x]
  <2>1. IsAssetMap(holdings[a], Holding)
    BY <1>2 DEF HoldingsOK
  <2>2. nextAssetID \notin DOMAIN holdings[a]
    BY <1>2, <1>3
  <2> HIDE DEF a, h
  <2>3. DOMAIN holdings[a] \ {nextAssetID} = DOMAIN holdings[a]
    BY <2>2
  <2> QED BY <1>2, <2>1, <2>3, WithHolding
<1>6. holdings' = [holdings EXCEPT ![a] = f]
  BY <1>1
<1> HIDE DEF f
<1>7. holdings'[a] = f /\ \A b \in Accounts \ {a} : holdings'[b] = holdings[b]
  BY <1>2, <1>5, <1>6, OneHolding
<1>8. UnitsOf(holdings', a, nextAssetID) = p.total /\ UnitsOf(holdings, a, nextAssetID) = 0
  BY <1>2, <1>3, <1>5, <1>7 DEF UnitsOf, HasOptedIn
<1>9. \A b \in Accounts : b # a => UnitsOf(holdings', b, nextAssetID) = UnitsOf(holdings, b, nextAssetID)
  BY <1>7 DEF UnitsOf, HasOptedIn
<1>10. \A id : id # nextAssetID => SameUnits(id)
  BY <1>2, <1>5, <1>7 DEF SameUnits, UnitsOf, HasOptedIn
<1> QED BY <1>2, <1>4, <1>8, <1>9, <1>10

\* The creator of an asset that is destroyed had every unit of it.
LEMMA DestroyUnits ==
  ASSUME TInv, DestroyAsset
  PROVE  \E a \in Accounts, id \in DOMAIN assets :
           /\ DOMAIN assets' = DOMAIN assets \ {id}
           /\ \A x \in DOMAIN assets \ {id} : assets'[x] = assets[x]
           /\ UnitsOf(holdings, a, id) = assets[id].total /\ UnitsOf(holdings', a, id) = 0
           /\ \A b \in Accounts : b # a => UnitsOf(holdings', b, id) = UnitsOf(holdings, b, id)
           /\ \A x : x # id => SameUnits(x)
<1>1. PICK s \in Accounts, id \in DOMAIN assets :
        /\ HasAllUnits(assets[id].creator, id)
        /\ assets' = Without(assets, id)
        /\ holdings' = [holdings EXCEPT ![assets[id].creator] = Without(@, id)]
  BY DEF DestroyAsset
<1> DEFINE a == assets[id].creator
           f == Without(holdings[a], id)
<1>2. /\ a \in Accounts /\ id \in DOMAIN holdings[a] /\ HoldingsOK
      /\ holdings[a][id].amount = assets[id].total
  BY <1>1 DEF HasAllUnits, HasOptedIn, TInv, LedgerOK
<1>3. /\ IsAssetMap(f, Holding) /\ DOMAIN f = DOMAIN holdings[a] \ {id}
      /\ \A x \in DOMAIN holdings[a] \ {id} : f[x] = holdings[a][x]
  BY <1>2, WithoutHolding DEF HoldingsOK
<1>4. holdings' = [holdings EXCEPT ![a] = f]
  BY <1>1
<1> HIDE DEF a, f
<1>5. holdings'[a] = f /\ \A b \in Accounts \ {a} : holdings'[b] = holdings[b]
  BY <1>2, <1>3, <1>4, OneHolding
<1>6. DOMAIN assets' = DOMAIN assets \ {id} /\ \A x \in DOMAIN assets \ {id} : assets'[x] = assets[x]
  BY <1>1, WithoutType DEF TInv, LedgerOK
<1>7. UnitsOf(holdings, a, id) = assets[id].total /\ UnitsOf(holdings', a, id) = 0
  BY <1>2, <1>3, <1>5 DEF UnitsOf, HasOptedIn
<1>8. \A b \in Accounts : b # a => UnitsOf(holdings', b, id) = UnitsOf(holdings, b, id)
  BY <1>5 DEF UnitsOf, HasOptedIn
<1>9. \A x : x # id => SameUnits(x)
  BY <1>2, <1>3, <1>5 DEF SameUnits, UnitsOf, HasOptedIn
<1> QED BY <1>2, <1>6, <1>7, <1>8, <1>9

\* An opt-in brings no units.
LEMMA OptInUnits ==
  ASSUME TInv, OptInAsset
  PROVE  UNCHANGED assets /\ \A x : SameUnits(x)
<1>1. PICK s \in Accounts, id \in DOMAIN assets :
        /\ id \notin DOMAIN holdings[s] /\ UNCHANGED assets
        /\ holdings' = [holdings EXCEPT ![s] =
             With(@, id, [amount |-> 0, frozen |-> assets[id].defaultFrozen])]
  BY DEF OptInAsset, HasOptedIn
<1> DEFINE h == [amount |-> 0, frozen |-> assets[id].defaultFrozen]
           f == With(holdings[s], id, h)
<1>2. h \in Holding /\ id \in Nat \ {0} /\ HoldingsOK /\ h.amount = 0
  BY <1>1 DEF AssetParams, Holding, TInv, LedgerOK, IsAssetMap
<1>3. /\ IsAssetMap(f, Holding) /\ DOMAIN f = DOMAIN holdings[s] \cup {id}
      /\ f[id] = h /\ \A x \in DOMAIN holdings[s] : f[x] = holdings[s][x]
  BY <1>1, <1>2, WithHolding DEF HoldingsOK
<1>4. holdings' = [holdings EXCEPT ![s] = f]
  BY <1>1
<1> HIDE DEF f, h
<1>5. holdings'[s] = f /\ \A b \in Accounts \ {s} : holdings'[b] = holdings[b]
  BY <1>2, <1>3, <1>4, OneHolding
<1> QED BY <1>1, <1>2, <1>3, <1>5 DEF SameUnits, UnitsOf, HasOptedIn

\* Neither does a freeze.
LEMMA FreezeUnits ==
  ASSUME TInv, FreezeAsset
  PROVE  \A x : SameUnits(x)
  BY FreezeEffect DEF Keeps, SameUnits, UnitsOf, HasOptedIn

\* Nor a change of an asset, which keeps its total.
LEMMA ModifyTotals ==
  ASSUME TInv, ModifyAsset
  PROVE  UNCHANGED holdings /\ SameTotals
<1>1. PICK id \in DOMAIN assets, m \in Addresses, f \in Addresses :
        assets' = [assets EXCEPT ![id].manager = m, ![id].freeze = f]
  BY DEF ModifyAsset
<1>2. assets[id] \in AssetParams
  BY DEF TInv, LedgerOK, IsAssetMap
<1> DEFINE p == [assets[id] EXCEPT !.manager = m, !.freeze = f]
<1>3. p.total = assets[id].total
  BY <1>2 DEF AssetParams
<1>4. assets' = [assets EXCEPT ![id] = p]
  BY <1>1, <1>2 DEF TInv, LedgerOK, IsAssetMap
<1> HIDE DEF p
<1>5. \A x \in DOMAIN assets : assets'[x].total = assets[x].total
  BY <1>3, <1>4 DEF TInv, LedgerOK, IsAssetMap
<1> QED BY <1>4, <1>5, ModifyEffect DEF SameTotals

\* #giveAsset adds its amount, or takes more than there is and changes nothing.
LEMMA GiveAssetUnits ==
  ASSUME TInv, GiveAsset
  PROVE  /\ UNCHANGED assets /\ Head(k).op = "giveAsset" /\ Head(k).account \in Accounts
         /\ \A x : x # Head(k).asset => SameUnits(x)
         /\ \A b \in Accounts : b # Head(k).account =>
              UnitsOf(holdings', b, Head(k).asset) = UnitsOf(holdings, b, Head(k).asset)
         /\ \/ Dropped /\ UNCHANGED holdings
            \/ /\ k' = Tail(k)
               /\ UnitsOf(holdings', Head(k).account, Head(k).asset) =
                    UnitsOf(holdings, Head(k).account, Head(k).asset) + Head(k).amount
<1> DEFINE a == Head(k).account  id == Head(k).asset
           n == holdings[a][id].amount + Head(k).amount
           g == WithAmount(holdings[a], id, n)
<1>1. /\ k # <<>> /\ a \in Accounts /\ id \in DOMAIN holdings[a] /\ Head(k).amount \in Int
      /\ UNCHANGED assets /\ Head(k).op = "giveAsset" /\ HoldingsOK
  BY HeadType DEF GiveAsset, Next1, HasOptedIn, TInv, LedgerOK
<1>2. holdings[a][id].amount \in Nat
  BY <1>1 DEF HoldingsOK, IsAssetMap, Holding
<1>3. CASE n < 0 /\ k' = <<>> /\ UNCHANGED holdings
  <2>1. Head(k).amount < 0
    BY <1>1, <1>2, <1>3
  <2>2. \A x : SameUnits(x)
    BY <1>3, SameHoldings
  <2> QED BY <1>1, <1>3, <2>1, <2>2 DEF Dropped, SameUnits
<1>4. CASE n >= 0 /\ holdings' = [holdings EXCEPT ![a][id].amount = n] /\ k' = Tail(k)
  <2>1. n \in Nat /\ n = holdings[a][id].amount + Head(k).amount
    BY <1>1, <1>2, <1>4
  <2>2. holdings' = [holdings EXCEPT ![a] = g]
    BY <1>1, <1>4 DEF WithAmount
  <2> HIDE DEF n, a, id
  <2>3. /\ IsAssetMap(g, Holding) /\ DOMAIN g = DOMAIN holdings[a]
        /\ g[id].amount = n /\ \A x \in DOMAIN holdings[a] \ {id} : g[x] = holdings[a][x]
    <3>1. IsAssetMap(holdings[a], Holding)
      BY <1>1 DEF HoldingsOK
    <3> QED BY <1>1, <2>1, <3>1, HoldingAmount
  <2> HIDE DEF g
  <2>4. holdings'[a] = g /\ \A b \in Accounts \ {a} : holdings'[b] = holdings[b]
    BY <1>1, <2>2, <2>3, OneHolding
  <2>5. UnitsOf(holdings', a, id) = UnitsOf(holdings, a, id) + Head(k).amount
    BY <1>1, <2>1, <2>3, <2>4 DEF UnitsOf, HasOptedIn
  <2>6. \A b \in Accounts : b # a => UnitsOf(holdings', b, id) = UnitsOf(holdings, b, id)
    BY <2>4 DEF UnitsOf, HasOptedIn
  <2>7. \A x : x # id => SameUnits(x)
    BY <1>1, <2>3, <2>4 DEF SameUnits, UnitsOf, HasOptedIn
  <2> QED BY <1>1, <1>4, <2>5, <2>6, <2>7 DEF a, id
<1> QED BY <1>3, <1>4 DEF GiveAsset, Done, Panic

\* Closing a holding moves its units.
LEMMA CloseToUnits ==
  ASSUME TInv, CloseTo
  PROVE  /\ UNCHANGED assets
         /\ \A x : x # Head(k).asset => SameUnits(x)
         /\ \E a \in Accounts, to \in Accounts :
              /\ a # to
              /\ \A b \in Accounts \ {a, to} : UnitsOf(holdings', b, Head(k).asset) = UnitsOf(holdings, b, Head(k).asset)
              /\ UnitsOf(holdings', a, Head(k).asset) = 0
              /\ UnitsOf(holdings', to, Head(k).asset) = UnitsOf(holdings, to, Head(k).asset) + UnitsOf(holdings, a, Head(k).asset)
<1> DEFINE a  == Head(k).account
           id == Head(k).asset
           to == Head(k).to
           f  == Without(holdings[a], id)
           n  == holdings[to][id].amount + holdings[a][id].amount
           g  == WithAmount(holdings[to], id, n)
<1>1. /\ a # to /\ HasOptedIn(a, id) /\ HasOptedIn(to, id)
      /\ holdings' = [holdings EXCEPT ![a] = Without(@, id),
                                      ![to][id].amount = @ + holdings[a][id].amount]
      /\ UNCHANGED assets
  BY DEF CloseTo
<1>2. /\ a \in Accounts /\ to \in Accounts /\ HoldingsOK
      /\ id \in DOMAIN holdings[a] /\ id \in DOMAIN holdings[to]
  BY <1>1 DEF HasOptedIn, TInv, LedgerOK
<1>3. /\ DOMAIN f = DOMAIN holdings[a] \ {id}
      /\ \A x \in DOMAIN holdings[a] \ {id} : f[x] = holdings[a][x]
  BY <1>2, WithoutHolding DEF HoldingsOK
<1>4. n \in Nat /\ n = holdings[to][id].amount + holdings[a][id].amount
  BY <1>2 DEF HoldingsOK, IsAssetMap, Holding
<1>5. holdings' = [[holdings EXCEPT ![a] = f] EXCEPT ![to] = g]
  BY <1>1, <1>2 DEF WithAmount
<1> HIDE DEF f, n, a, id, to
<1>6. /\ DOMAIN g = DOMAIN holdings[to] /\ g[id].amount = n
      /\ \A x \in DOMAIN holdings[to] \ {id} : g[x] = holdings[to][x]
  <2>1. IsAssetMap(holdings[to], Holding)
    BY <1>2 DEF HoldingsOK
  <2> QED BY <1>2, <1>4, <2>1, HoldingAmount
<1> HIDE DEF g
<1>7. /\ DOMAIN holdings' = Accounts /\ holdings'[a] = f /\ holdings'[to] = g
      /\ \A b \in Accounts \ {a, to} : holdings'[b] = holdings[b]
  BY <1>1, <1>2, <1>5 DEF HoldingsOK
<1>8. \A b \in Accounts \ {a, to} : \A x : UnitsOf(holdings', b, x) = UnitsOf(holdings, b, x)
  BY <1>7 DEF UnitsOf, HasOptedIn
<1>9. UnitsOf(holdings', a, id) = 0
  BY <1>3, <1>7 DEF UnitsOf, HasOptedIn
<1>10. UnitsOf(holdings', to, id) = UnitsOf(holdings, to, id) + UnitsOf(holdings, a, id)
  BY <1>2, <1>4, <1>6, <1>7 DEF UnitsOf, HasOptedIn
<1>11. ASSUME NEW x, x # id PROVE SameUnits(x)
  <2>1. UnitsOf(holdings', a, x) = UnitsOf(holdings, a, x)
    BY <1>2, <1>3, <1>7, <1>11 DEF UnitsOf, HasOptedIn
  <2>2. UnitsOf(holdings', to, x) = UnitsOf(holdings, to, x)
    BY <1>2, <1>6, <1>7, <1>11 DEF UnitsOf, HasOptedIn
  <2> QED BY <1>8, <2>1, <2>2 DEF SameUnits
<1> QED BY <1>1, <1>2, <1>8, <1>9, <1>10, <1>11 DEF a, id, to

\* Nothing else changes what there is of an asset.
LEMMA TotalsKept ==
  ASSUME TInv, [Next]_vars, ~CreateAsset, ~DestroyAsset
  PROVE  SameTotals
<1>1. UNCHANGED assets => SameTotals
  BY DEF SameTotals
<1>2. UNCHANGED ledger => UNCHANGED assets
  BY DEF ledger
<1>3. CASE UNCHANGED vars
  BY <1>1, <1>2, <1>3 DEF vars
<1>4. CASE Next
  <2>1. Pay \/ TransferAsset \/ OptOutAsset \/ Refused => UNCHANGED ledger
    BY RefusedEffect, BeginPairs
  <2>2. GroupAccepted \/ CheckSufficientBalance \/ CheckDone => UNCHANGED ledger
    BY DEF GroupAccepted, CheckSufficientBalance, CheckDone
  <2>3. OptInAsset \/ GiveAsset \/ CloseTo => UNCHANGED assets
    BY OptInUnits, GiveAssetUnits, CloseToUnits
  <2>4. FreezeAsset \/ GiveAlgos => UNCHANGED assets
    BY DEF FreezeAsset, GiveAlgos
  <2> QED BY <1>1, <1>2, <1>4, <2>1, <2>2, <2>3, <2>4, ModifyTotals, NextCases
<1> QED BY <1>3, <1>4

\* Only #giveAsset changes the units still due.
LEMMA DueQuiet ==
  ASSUME TInv, DInv, [Next]_vars, ~GiveAsset, NEW id
  PROVE  Due(k', "giveAsset", id) = Due(k, "giveAsset", id)
<1>1. ~(Executed /\ Head(k).op = "giveAsset")
  BY DEF Executed, GiveAlgos, CloseTo, CheckDone, Next1
<1> QED BY <1>1, DueChange

\* Units that are due are given, so that what is held and what is due stays the
\* same; and nobody gets units of an asset that does not exist.
LEMMA UnitsDue ==
  ASSUME TInv, TInv', DInv, [Next]_vars, ~CreateAsset, ~DestroyAsset, NEW id
  PROVE  /\ HeldIn(holdings', id) + Due(k', "giveAsset", id) = HeldIn(holdings, id) + Due(k, "giveAsset", id)
         /\ id \notin DOMAIN assets => HeldIn(holdings', id) = HeldIn(holdings, id)
<1>1. CASE SameUnits(id) /\ ~GiveAsset
  <2>1. HeldIn(holdings', id) = HeldIn(holdings, id)
    BY <1>1, HeldSame DEF SameUnits
  <2> QED BY <1>1, <2>1, DueQuiet
<1>2. CASE CloseTo
  <2>1. HeldIn(holdings', id) = HeldIn(holdings, id)
    <3>1. CASE id = Head(k).asset
      <4>1. PICK a \in Accounts, to \in Accounts :
              /\ a # to
              /\ \A b \in Accounts \ {a, to} : UnitsOf(holdings', b, id) = UnitsOf(holdings, b, id)
              /\ UnitsOf(holdings', a, id) = 0
              /\ UnitsOf(holdings', to, id) = UnitsOf(holdings, to, id) + UnitsOf(holdings, a, id)
        BY <1>2, <3>1, CloseToUnits
      <4> QED BY <4>1, HeldMoves
    <3>2. CASE id # Head(k).asset
      <4>1. SameUnits(id)
        BY <1>2, <3>2, CloseToUnits
      <4> QED BY <4>1, HeldSame DEF SameUnits
    <3> QED BY <3>1, <3>2
  <2>2. ~GiveAsset
    BY <1>2 DEF CloseTo, GiveAsset, Next1
  <2> QED BY <2>1, <2>2, DueQuiet
<1>3. CASE GiveAsset
  <2>1. /\ k # <<>> /\ Head(k).op = "giveAsset" /\ Head(k).account \in Accounts
        /\ k \in Seq(Command) /\ Head(k) \in Command /\ Tail(k) \in Seq(Command)
        /\ Head(k).amount \in Int /\ 1 \in 1..Len(k) /\ k[1] = Head(k)
    BY <1>3, GiveAssetUnits, HeadType DEF GiveAsset, Next1, TInv, ContOK
  <2>2. Head(k).asset \in DOMAIN assets
    BY <2>1 DEF DInv, KnownAssets
  <2>3. HeldIn(holdings, id) \in Int /\ Due(k, "giveAsset", id) \in Int
    BY <2>1, HeldType, DueType
  <2>4. CASE UNCHANGED holdings /\ Dropped
    <3>1. Due(k, "giveAsset", id) = 0 /\ Due(k', "giveAsset", id) = 0
      BY <2>4, DueNothing DEF Dropped, DInv, TakesAreDue
    <3> QED BY <2>4, <3>1
  <2>5. CASE k' = Tail(k) /\ id # Head(k).asset
    <3>1. SameUnits(id)
      BY <1>3, <2>5, GiveAssetUnits
    <3>2. HeldIn(holdings', id) = HeldIn(holdings, id)
      BY <3>1, HeldSame DEF SameUnits
    <3>3. Due(k', "giveAsset", id) = Due(k, "giveAsset", id)
      BY <2>5, DueChange
    <3> QED BY <3>2, <3>3
  <2>6. CASE /\ k' = Tail(k) /\ id = Head(k).asset
             /\ UnitsOf(holdings', Head(k).account, id) = UnitsOf(holdings, Head(k).account, id) + Head(k).amount
    <3> DEFINE a == Head(k).account  n == Head(k).amount
               before == UnitsOf(holdings, a, id)  after == UnitsOf(holdings', a, id)
    <3>1. /\ a \in Accounts /\ after = before + n /\ n \in Int /\ before \in Nat
          /\ \A b \in Accounts : b # a => UnitsOf(holdings', b, id) = UnitsOf(holdings, b, id)
      BY <1>3, <2>1, <2>6, GiveAssetUnits, HeldType
    <3>2. Due(k, "giveAsset", id) = n + Due(k', "giveAsset", id)
      <4>1. Part(Head(k), "giveAsset", id) = n
        BY <2>1, <2>6 DEF Part
      <4> QED BY <2>1, <2>6, <4>1, DueHead
    <3>3. Due(k', "giveAsset", id) \in Int
      BY <2>1, <2>6, DueType
    <3> HIDE DEF a, n
    <3>4. HeldIn(holdings', id) = HeldIn(holdings, id) - before + after
      BY <3>1, HeldChange
    <3> HIDE DEF before, after
    <3>5. HeldIn(holdings', id) = HeldIn(holdings, id) + n
      BY <2>3, <3>1, <3>4
    <3> QED BY <2>2, <2>3, <2>6, <3>1, <3>2, <3>3, <3>5
  <2> QED BY <1>3, <2>4, <2>5, <2>6, GiveAssetUnits
<1>4. CASE ~GiveAsset /\ ~CloseTo
  <2>1. Quiet \/ OptInAsset \/ FreezeAsset
    BY <1>4, QuietCases
  <2>2. SameUnits(id)
    BY <2>1, SameHoldings, OptInUnits, FreezeUnits DEF Quiet
  <2> QED BY <1>1, <1>4, <2>2
<1> QED BY <1>2, <1>3, <1>4

\* The units of an asset add up to its total, and of others there are none.
AInv ==
  /\ \A id \in DOMAIN assets : HeldIn(holdings, id) + Due(k, "giveAsset", id) = assets[id].total
  /\ \A id \in Nat \ {0} : id \notin DOMAIN assets => HeldIn(holdings, id) = 0

LEMMA UnitsStep ==
  ASSUME TInv, DInv, Fresh, AInv, [Next]_vars
  PROVE  AInv'
<1>1. TInv' /\ DInv'
  BY TypeStep, DueStep
<1>2. /\ \A id : /\ HeldIn(holdings, id) \in Int /\ HeldIn(holdings, id)' = HeldIn(holdings', id)
                 /\ Due(k, "giveAsset", id) \in Int
      /\ DOMAIN assets \subseteq Nat \ {0} /\ nextAssetID \in Nat \ {0}
  BY HeldType, HeldIsIn, DueType DEF TInv, ContOK, LedgerOK, IsAssetMap
<1>3. CASE ~CreateAsset /\ ~DestroyAsset
  <2>1. /\ DOMAIN assets' = DOMAIN assets
        /\ \A id \in DOMAIN assets : assets'[id].total = assets[id].total
    BY <1>3, TotalsKept DEF SameTotals
  <2>2. \A id : /\ HeldIn(holdings', id) + Due(k', "giveAsset", id) = HeldIn(holdings, id) + Due(k, "giveAsset", id)
                /\ id \notin DOMAIN assets => HeldIn(holdings', id) = HeldIn(holdings, id)
    BY <1>1, <1>3, UnitsDue
  <2> QED BY <1>2, <2>1, <2>2 DEF AInv
<1>4. CASE CreateAsset
  <2>1. PICK a \in Accounts :
          /\ DOMAIN assets' = DOMAIN assets \cup {nextAssetID}
          /\ \A id \in DOMAIN assets : assets'[id] = assets[id]
          /\ UnitsOf(holdings', a, nextAssetID) = assets'[nextAssetID].total
          /\ UnitsOf(holdings, a, nextAssetID) = 0
          /\ \A b \in Accounts : b # a => UnitsOf(holdings', b, nextAssetID) = UnitsOf(holdings, b, nextAssetID)
          /\ \A id : id # nextAssetID => SameUnits(id)
    BY <1>4, CreateUnits
  <2>2. nextAssetID \notin DOMAIN assets
    BY <1>2 DEF Fresh
  <2>3. HeldIn(holdings, nextAssetID) = 0
    BY <1>2, <2>2 DEF AInv
  <2>4. \A id : id # nextAssetID => HeldIn(holdings', id) = HeldIn(holdings, id)
    BY <2>1, HeldSame DEF SameUnits
  <2>5. \A id : Due(k', "giveAsset", id) = Due(k, "giveAsset", id) /\ Due(k, "giveAsset", id) = 0
    <3>1. k' = k /\ k # <<>> /\ Head(k).op \in Ends
      BY <1>4, CreateEffect DEF Evaluate, Next1, Ends
    <3> QED BY <3>1 DEF DInv, TakesAreDue
  <2>6. HeldIn(holdings', nextAssetID) = assets'[nextAssetID].total
    <3> DEFINE before == UnitsOf(holdings, a, nextAssetID)  after == UnitsOf(holdings', a, nextAssetID)
    <3>1. HeldIn(holdings', nextAssetID) = HeldIn(holdings, nextAssetID) - before + after
      BY <1>1, <2>1, HeldChange
    <3>2. before = 0 /\ after = assets'[nextAssetID].total /\ after \in Nat
      BY <1>1, <2>1, UnitsAfter
    <3> HIDE DEF before, after
    <3> QED BY <2>3, <3>1, <3>2
  <2>7. HeldIn(holdings', nextAssetID) \in Int
    <3>1. nextAssetID \in DOMAIN assets' /\ IsAssetMap(assets', AssetParams)
      BY <1>1, <2>1 DEF TInv, LedgerOK
    <3>2. assets'[nextAssetID].total \in Nat
      BY <3>1 DEF IsAssetMap, AssetParams
    <3> QED BY <2>6, <3>2
  <2> QED BY <1>2, <2>1, <2>2, <2>4, <2>5, <2>6, <2>7 DEF AInv
<1>5. CASE DestroyAsset
  <2>1. PICK a \in Accounts, id \in DOMAIN assets :
          /\ DOMAIN assets' = DOMAIN assets \ {id}
          /\ \A x \in DOMAIN assets \ {id} : assets'[x] = assets[x]
          /\ UnitsOf(holdings, a, id) = assets[id].total /\ UnitsOf(holdings', a, id) = 0
          /\ \A b \in Accounts : b # a => UnitsOf(holdings', b, id) = UnitsOf(holdings, b, id)
          /\ \A x : x # id => SameUnits(x)
    BY <1>5, DestroyUnits
  <2>2. \A x : x # id => HeldIn(holdings', x) = HeldIn(holdings, x)
    BY <2>1, HeldSame DEF SameUnits
  <2>3. \A x : Due(k', "giveAsset", x) = Due(k, "giveAsset", x) /\ Due(k, "giveAsset", x) = 0
    <3>1. k' = k /\ k # <<>> /\ Head(k).op \in Ends
      BY <1>5, DestroyEffect DEF Evaluate, Next1, Ends
    <3> QED BY <3>1 DEF DInv, TakesAreDue
  <2>4. HeldIn(holdings', id) = 0
    <3> DEFINE before == UnitsOf(holdings, a, id)  after == UnitsOf(holdings', a, id)
    <3>1. HeldIn(holdings', id) = HeldIn(holdings, id) - before + after
      BY <1>1, <2>1, HeldChange
    <3>2. before = assets[id].total /\ after = 0 /\ before \in Nat
      BY <2>1, HeldType
    <3>3. HeldIn(holdings, id) + Due(k, "giveAsset", id) = before
      BY <2>1, <3>2 DEF AInv
    <3>4. Due(k, "giveAsset", id) = 0
      BY <2>3
    <3> HIDE DEF before, after
    <3> QED BY <1>2, <3>1, <3>2, <3>3, <3>4
  <2> QED BY <1>2, <2>1, <2>2, <2>3, <2>4 DEF AInv
<1> QED BY <1>3, <1>4, <1>5

\* The holdings a scenario sets up are of assets it sets up, all of their units.
SetupAgrees ==
  /\ \A a \in Accounts : DOMAIN SetupHoldings[a] \subseteq DOMAIN SetupAssets
  /\ \A id \in DOMAIN SetupAssets : HeldIn(SetupHoldings, id) = SetupAssets[id].total

\* The units of an asset that exists add up to its total, counting those under
\* way from one account to another, and of an asset that is destroyed none are
\* left, whatever the group and however it ends.
THEOREM AssetsAreConserved ==
  ASSUME SetupAgrees
  PROVE  Spec => []AssetsConserved
<1> DEFINE I == TInv /\ DInv /\ Fresh /\ AInv
<1>1. Init => I
  <2> SUFFICES ASSUME Init PROVE I
    OBVIOUS
  <2>1. TInv /\ DInv
    BY InitType, InitDue
  <2>2. /\ assets = SetupAssets /\ holdings = SetupHoldings
        /\ \A id : Due(k, "giveAsset", id) = 0
    BY InitDue DEF Init
  <2>3. Fresh
    BY <2>2, SetupAssumption DEF Init, Fresh, IsAssetMap, SetupAgrees
  <2>4. ASSUME NEW id \in DOMAIN assets
        PROVE  HeldIn(holdings, id) + Due(k, "giveAsset", id) = assets[id].total
    <3>1. HeldIn(holdings, id) = assets[id].total /\ HeldIn(holdings, id) \in Int
      BY <2>1, <2>2, HeldType DEF SetupAgrees
    <3> QED BY <2>2, <3>1
  <2>5. ASSUME NEW id, id \notin DOMAIN assets
        PROVE  HeldIn(holdings, id) = 0
    <3> DEFINE f == [a \in Accounts |-> UnitsOf(holdings, a, id)]
    <3>1. \A a \in Accounts : f[a] = 0
      BY <2>2, <2>5 DEF SetupAgrees, UnitsOf
    <3>2. HeldIn(holdings, id) = SumFunctionOnSet(f, Accounts)
      BY DEF HeldIn, SumFunction
    <3> HIDE DEF f
    <3> QED BY <3>1, <3>2, SumZero, AddressAssumption
  <2> QED BY <2>1, <2>3, <2>4, <2>5 DEF AInv
<1>2. I /\ [Next]_vars => I'
  BY TypeStep, DueStep, FreshStep, UnitsStep
<1>3. I => AssetsConserved
  <2> SUFFICES ASSUME I PROVE AssetsConserved
    OBVIOUS
  <2>1. nextAssetID \in Nat
    BY DEF TInv, LedgerOK
  <2>2. \A id \in 1..(nextAssetID - 1) : id \in Nat \ {0}
    BY <2>1
  <2> QED BY <2>2, HeldIsIn DEF AInv, AssetsConserved, AssetCreated
<1> HIDE DEF I
<1> QED BY <1>1, <1>2, <1>3, PTL DEF Spec

-----------------------------------------------------------------------------
(* Frozen holdings.                                                        *)

\* What is closed has been looked at: unless it is not frozen, units of it are
\* taken first, and a frozen holding stops that.
Looked(a, id, i) == \E j \in 1..(i - 1) : k[j].op = "giveAsset" /\ k[j].account = a /\ k[j].asset = id
ThawedCloses ==
  \A i \in 1..Len(k) : k[i].op = "closeTo" =>
    ~IsFrozen(k[i].account, k[i].asset) \/ Looked(k[i].account, k[i].asset, i)

\* Nothing that happens while a transaction is under way freezes a holding.
LEMMA CloseToThaws ==
  ASSUME TInv, CloseTo, NEW b \in Accounts, NEW x
  PROVE  IsFrozen(b, x)' => IsFrozen(b, x)
<1> DEFINE a  == Head(k).account
           id == Head(k).asset
           to == Head(k).to
           f  == Without(holdings[a], id)
           n  == holdings[to][id].amount + holdings[a][id].amount
           g  == WithAmount(holdings[to], id, n)
<1>1. /\ a # to /\ HasOptedIn(a, id) /\ HasOptedIn(to, id)
      /\ holdings' = [holdings EXCEPT ![a] = Without(@, id),
                                      ![to][id].amount = @ + holdings[a][id].amount]
  BY DEF CloseTo
<1>2. /\ a \in Accounts /\ to \in Accounts /\ HoldingsOK
      /\ id \in DOMAIN holdings[a] /\ id \in DOMAIN holdings[to]
      /\ IsAssetMap(holdings[a], Holding) /\ IsAssetMap(holdings[to], Holding)
  BY <1>1 DEF HasOptedIn, TInv, LedgerOK, HoldingsOK
<1>3. /\ DOMAIN f = DOMAIN holdings[a] \ {id}
      /\ \A y \in DOMAIN holdings[a] \ {id} : f[y] = holdings[a][y]
  BY <1>2, WithoutHolding
<1>4. n \in Nat
  BY <1>2 DEF IsAssetMap, Holding
<1>5. holdings' = [[holdings EXCEPT ![a] = f] EXCEPT ![to] = g]
  BY <1>1, <1>2 DEF WithAmount
<1> HIDE DEF f, n, a, id, to
<1>6. /\ DOMAIN g = DOMAIN holdings[to] /\ g[id].frozen = holdings[to][id].frozen
      /\ \A y \in DOMAIN holdings[to] \ {id} : g[y] = holdings[to][y]
  BY <1>2, <1>4, HoldingAmount
<1> HIDE DEF g
<1>7. /\ DOMAIN holdings' = Accounts /\ holdings'[a] = f /\ holdings'[to] = g
      /\ \A c \in Accounts \ {a, to} : holdings'[c] = holdings[c]
  BY <1>1, <1>2, <1>5 DEF HoldingsOK
<1>8. CASE b = a
  BY <1>3, <1>7, <1>8 DEF IsFrozen, HasOptedIn
<1>9. CASE b = to
  BY <1>6, <1>7, <1>9 DEF IsFrozen, HasOptedIn
<1>10. CASE b \notin {a, to}
  BY <1>7, <1>10 DEF IsFrozen, HasOptedIn
<1> QED BY <1>8, <1>9, <1>10

LEMMA ExecutedThaws ==
  ASSUME TInv, Executed, [Next]_vars, NEW b, NEW x
  PROVE  IsFrozen(b, x)' => IsFrozen(b, x)
<1>1. CASE CloseTo
  BY <1>1, CloseToThaws DEF IsFrozen, HasOptedIn
<1>2. CASE GiveAsset
  BY <1>2, GiveAssetEffect DEF IsFrozen, HasOptedIn, Keeps
<1>3. CASE GiveAlgos \/ CheckDone
  BY <1>3 DEF GiveAlgos, CheckDone, ledger, IsFrozen, HasOptedIn
<1> QED BY <1>1, <1>2, <1>3 DEF Executed

\* A transaction under way is not interrupted: while one is, k stays as it is
\* only when nothing happens.
LEMMA IdleCases ==
  ASSUME TInv, [Next]_vars, Idle
  PROVE  UNCHANGED <<k, holdings>> \/ (k' = k /\ k # <<>> /\ Head(k).op \in Ends)
<1> DEFINE G == UNCHANGED <<k, holdings>> \/ (k' = k /\ k # <<>> /\ Head(k).op \in Ends)
<1>1. k' = k
  BY DEF Idle
<1>2. UNCHANGED vars => G
  BY DEF vars, ledger
<1>3. Pay \/ TransferAsset \/ OptOutAsset \/ Refused => G
  <2> SUFFICES ASSUME Pay \/ TransferAsset \/ OptOutAsset \/ Refused PROVE G
    OBVIOUS
  <2>1. k # <<>> /\ Head(k).op = "evalNextTx"
    BY BeginPairs, RefusedEffect DEF Begun, Evaluate, Next1
  <2> QED BY <1>1, <2>1 DEF Ends
<1>4. CreateAsset \/ DestroyAsset \/ ModifyAsset \/ OptInAsset \/ FreezeAsset => G
  BY <1>1 DEF CreateAsset, DestroyAsset, ModifyAsset, OptInAsset, FreezeAsset, Evaluate, Next1, Ends
<1>5. GroupAccepted \/ CheckSufficientBalance \/ CheckDone => G
  BY <1>1 DEF GroupAccepted, CheckSufficientBalance, CheckDone, Next1, Ends
<1>6. GiveAlgos => G
  BY <1>1 DEF GiveAlgos
<1>7. GiveAsset \/ CloseTo => G
  <2> SUFFICES ASSUME GiveAsset \/ CloseTo PROVE G
    OBVIOUS
  <2>1. k # <<>> /\ (k' = Tail(k) \/ k' = <<>>)
    BY GiveAssetEffect, CloseToEffect
  <2>2. Len(Tail(k)) = Len(k) - 1 /\ Len(k) \in Nat
    BY <2>1, TailType
  <2>3. Tail(k) # k
    BY <2>2
  <2> QED BY <1>1, <2>1, <2>3
<1> HIDE DEF G
<1>8. G
  BY <1>2, <1>3, <1>4, <1>5, <1>6, <1>7, NextCases
<1> QED BY <1>8 DEF G

\* A transaction that closes a holding first takes units of it.
LEMMA BegunLooks ==
  ASSUME TInv, DInv, Begun
  PROVE  ThawedCloses'
<1>1. PICK x, y : /\ Pair(x, y)
                  /\ \/ k' = <<x, y>> \o k
                     \/ \E z : /\ Closes(z) /\ z.account = x.account /\ z.asset = x.asset
                               /\ k' = <<x, y, z>> \o k
  BY DEF Begun
<1>2. Len(k) = 1 /\ k[1].op \in Ends /\ k \in Seq(Command)
  <2>1. k # <<>> /\ Head(k).op \in Ends
    BY DEF Begun, Ends
  <2> QED BY <2>1, LastOne, TailType DEF TInv, ContOK, DInv
<1>3. x \in Command /\ y \in Command /\ x.op # "closeTo" /\ y.op # "closeTo"
  BY <1>1 DEF Pair
<1>4. CASE k' = <<x, y>> \o k
  <2> DEFINE s == <<x, y>>
  <2>1. s \in Seq(Command) /\ Len(s) = 2 /\ s[1] = x /\ s[2] = y /\ k' = s \o k
    BY <1>3, <1>4
  <2> HIDE DEF s
  <2>2. Len(k') = 3 /\ k'[1] = x /\ k'[2] = y /\ k'[3] = k[1]
    <3>1. Len(k') = 3
      <4>1. Len(s \o k) = Len(s) + Len(k)
        BY <1>2, <2>1, FrontType
      <4> QED BY <1>2, <2>1, <4>1
    <3>2. \A i \in 1..Len(k') : k'[i] = IF i <= Len(s) THEN s[i] ELSE k[i - Len(s)]
      BY <1>2, <2>1, FrontType
    <3> QED BY <2>1, <3>1, <3>2
  <2> QED BY <1>2, <1>3, <2>2 DEF ThawedCloses, Ends
<1>5. ASSUME NEW z, Closes(z), z.account = x.account, z.asset = x.asset, k' = <<x, y, z>> \o k
      PROVE  ThawedCloses'
  <2> DEFINE s == <<x, y, z>>
  <2>1. s \in Seq(Command) /\ Len(s) = 3 /\ s[1] = x /\ s[2] = y /\ s[3] = z /\ k' = s \o k
    BY <1>3, <1>5 DEF Closes
  <2> HIDE DEF s
  <2>2. Len(k') = 4 /\ k'[1] = x /\ k'[2] = y /\ k'[3] = z /\ k'[4] = k[1]
    <3>1. Len(k') = 4
      <4>1. Len(s \o k) = Len(s) + Len(k)
        BY <1>2, <2>1, FrontType
      <4> QED BY <1>2, <2>1, <4>1
    <3>2. \A i \in 1..Len(k') : k'[i] = IF i <= Len(s) THEN s[i] ELSE k[i - Len(s)]
      BY <1>2, <2>1, FrontType
    <3> QED BY <2>1, <3>1, <3>2
  <2>3. x.op = "giveAsset"
    BY <1>1, <1>5 DEF Pair, Closes, TInv, LedgerOK, IsAssetMap
  <2>4. Looked(z.account, z.asset, 3)'
    BY <1>5, <2>2, <2>3 DEF Looked
  <2> QED BY <1>2, <1>3, <2>2, <2>4 DEF ThawedCloses, Ends
<1> QED BY <1>1, <1>4, <1>5

\* Every step keeps it.
LEMMA ThawStep ==
  ASSUME TInv, DInv, ThawedCloses, [Next]_vars
  PROVE  ThawedCloses'
<1>1. CASE Idle
  <2>1. CASE UNCHANGED <<k, holdings>>
    BY <2>1 DEF ThawedCloses, Looked, IsFrozen, HasOptedIn
  <2>2. CASE k' = k /\ k # <<>> /\ Head(k).op \in Ends
    <3>1. Len(k') = 1 /\ k'[1].op \in Ends
      BY <2>2, LastOne, TailType DEF DInv
    <3> QED BY <3>1 DEF ThawedCloses, Ends
  <2> QED BY <1>1, <2>1, <2>2, IdleCases
<1>2. CASE Dropped
  BY <1>2 DEF Dropped, ThawedCloses
<1>3. CASE Executed
  <2>1. /\ Len(k') = Len(k) - 1 /\ Len(k) \in Nat /\ k[1] = Head(k) /\ k # <<>>
        /\ \A i \in 1..Len(k') : i + 1 \in 2..Len(k) /\ k'[i] = k[i + 1]
    BY <1>3, TailType DEF Executed
  <2> SUFFICES ASSUME NEW i \in 1..Len(k'), k'[i].op = "closeTo"
               PROVE  (~IsFrozen(k[i].account, k[i].asset) \/ Looked(k[i].account, k[i].asset, i))'
    BY DEF ThawedCloses
  <2> PICK a, id : a = k'[i].account /\ id = k'[i].asset
    OBVIOUS
  <2>2. k[i + 1].op = "closeTo" /\ a = k[i + 1].account /\ id = k[i + 1].asset /\ i + 1 \in 1..Len(k)
    BY <2>1
  <2>3. CASE ~IsFrozen(a, id)
    <3>1. ~IsFrozen(a, id)'
      BY <1>3, <2>3, ExecutedThaws
    <3> QED BY <3>1 DEF IsFrozen, HasOptedIn
  <2>4. CASE Looked(a, id, i + 1)
    <3>1. PICK j \in 1..i : k[j].op = "giveAsset" /\ k[j].account = a /\ k[j].asset = id
      BY <2>4 DEF Looked
    <3>2. CASE j = 1
      <4>1. GiveAsset
        BY <1>3, <2>1, <3>1, <3>2 DEF Executed, GiveAlgos, CloseTo, CheckDone, Next1
      <4> QED BY <2>1, <2>3, <3>1, <3>2, <4>1, GiveAssetEffect
    <3>3. CASE j # 1
      <4>1. j - 1 \in 1..(i - 1) /\ j - 1 \in 1..Len(k') /\ (j - 1) + 1 = j
        BY <2>1, <3>3
      <4>2. k'[j - 1] = k[j]
        BY <2>1, <4>1
      <4> QED BY <3>1, <4>1, <4>2 DEF Looked
    <3> QED BY <3>2, <3>3
  <2> QED BY <2>2, <2>3, <2>4 DEF ThawedCloses
<1>4. CASE Begun
  BY <1>4, BegunLooks
<1>5. CASE Ended
  <2> DEFINE c == Cmd("checkSufficientBalance")
  <2>1. k' = <<c>> /\ c.op # "closeTo"
    BY <1>5, CommandFields DEF Ended, Ops
  <2> HIDE DEF c
  <2> QED BY <2>1 DEF ThawedCloses
<1> QED BY <1>1, <1>2, <1>3, <1>4, <1>5, CommandCases

\* What a step does to a holding that is frozen.
FrozenStays(a, id) ==
  \/ id \in DOMAIN holdings'[a] /\ holdings'[a][id].amount >= holdings[a][id].amount
  \/ id \notin DOMAIN assets'

LEMMA FrozenStep ==
  ASSUME TInv, DInv, Fresh, ThawedCloses, [Next]_vars,
         NEW a \in Accounts, NEW id \in DOMAIN holdings[a], IsFrozen(a, id)
  PROVE  FrozenStays(a, id)
<1>1. /\ holdings[a][id].amount \in Nat
      /\ \A h : a \in Accounts /\ id \in DOMAIN h[a] => UnitsOf(h, a, id) = h[a][id].amount
  BY DEF TInv, LedgerOK, HoldingsOK, IsAssetMap, Holding, UnitsOf
<1>2. ASSUME id \in DOMAIN holdings'[a], UnitsOf(holdings', a, id) = UnitsOf(holdings, a, id)
      PROVE  FrozenStays(a, id)
  BY <1>1, <1>2 DEF FrozenStays
<1>3. CASE Quiet
  BY <1>1, <1>3 DEF Quiet, FrozenStays
<1>4. CASE CreateAsset
  <2>1. id # nextAssetID
    BY DEF Fresh, TInv, LedgerOK
  <2>2. UnitsOf(holdings', a, id) = UnitsOf(holdings, a, id)
    BY <1>4, <2>1, CreateUnits DEF SameUnits
  <2>3. id \in DOMAIN holdings'[a]
    BY <1>4, CreateEffect DEF Gains
  <2> QED BY <1>2, <2>2, <2>3
<1>5. CASE OptInAsset
  <2>1. UnitsOf(holdings', a, id) = UnitsOf(holdings, a, id)
    BY <1>5, OptInUnits DEF SameUnits
  <2>2. id \in DOMAIN holdings'[a]
    BY <1>5, OptInEffect DEF Gains
  <2> QED BY <1>2, <2>1, <2>2
<1>6. CASE FreezeAsset
  BY <1>1, <1>6, FreezeEffect DEF Keeps, FrozenStays
<1>7. CASE GiveAsset
  BY <1>1, <1>7, GiveAssetEffect DEF Keeps, FrozenStays
<1>8. CASE CloseTo
  <2>1. k # <<>> /\ Head(k).op = "closeTo" /\ Loses(Head(k).account, Head(k).asset)
    BY <1>8, CloseToEffect
  <2>2. ~IsFrozen(Head(k).account, Head(k).asset)
    <3>1. 1 \in 1..Len(k) /\ k[1] = Head(k)
      BY <2>1, TailType
    <3>2. ~Looked(k[1].account, k[1].asset, 1)
      BY DEF Looked
    <3> QED BY <2>1, <3>1, <3>2 DEF ThawedCloses
  <2>3. CASE a = Head(k).account
    <3>1. id # Head(k).asset
      BY <2>2, <2>3
    <3>2. id \in DOMAIN holdings'[a] /\ holdings'[a][id] = holdings[a][id]
      BY <2>1, <2>3, <3>1 DEF Loses
    <3> QED BY <1>1, <3>2 DEF FrozenStays
  <2>4. CASE a # Head(k).account
    BY <1>8, <2>1, <2>4, CloseToEffect DEF Loses, FrozenStays
  <2> QED BY <2>3, <2>4
<1>9. CASE DestroyAsset
  <2>1. PICK b \in Accounts, x \in DOMAIN assets :
          Loses(b, x) /\ DOMAIN assets' = DOMAIN assets \ {x}
          /\ \A c \in Accounts \ {b} : holdings'[c] = holdings[c]
    BY <1>9, DestroyEffect
  <2>2. CASE id = x
    BY <2>1, <2>2 DEF FrozenStays
  <2>3. CASE id # x
    <3>1. id \in DOMAIN holdings'[a] /\ holdings'[a][id] = holdings[a][id]
      BY <2>1, <2>3 DEF Loses
    <3> QED BY <1>1, <3>1 DEF FrozenStays
  <2> QED BY <2>2, <2>3
<1> QED BY <1>3, <1>4, <1>5, <1>6, <1>7, <1>8, <1>9, QuietCases

\* Nothing takes units out of a frozen holding, not even closing it: only the
\* end of the asset does.
THEOREM FrozenHoldingsAreKept ==
  ASSUME \A a \in Accounts : DOMAIN SetupHoldings[a] \subseteq DOMAIN SetupAssets
  PROVE  Spec => FrozenHoldingsStay
<1> DEFINE I == TInv /\ DInv /\ Fresh /\ ThawedCloses
           A == \A a \in Accounts : \A id \in DOMAIN holdings[a] :
                  IsFrozen(a, id) =>
                    \/ id \in DOMAIN holdings'[a] /\ holdings'[a][id].amount >= holdings[a][id].amount
                    \/ id \notin DOMAIN assets'
<1>1. Init => I
  <2> SUFFICES ASSUME Init PROVE I
    OBVIOUS
  <2>1. TInv /\ DInv
    BY InitType, InitDue
  <2>2. Fresh
    BY SetupAssumption DEF Init, Fresh, IsAssetMap
  <2> DEFINE c == Cmd("evalNextTx")
  <2>3. k = <<c>> /\ c.op # "closeTo"
    BY CommandFields DEF Init, Ops
  <2> HIDE DEF c
  <2>4. ThawedCloses
    BY <2>3 DEF ThawedCloses
  <2> QED BY <2>1, <2>2, <2>4
<1>2. I /\ [Next]_vars => I' /\ A
  BY TypeStep, DueStep, FreshStep, ThawStep, FrozenStep DEF FrozenStays
<1> HIDE DEF I
<1>3. I /\ [Next]_vars => I' /\ [A]_vars
  BY <1>2
<1> HIDE DEF A
<1>4. Init /\ [][Next]_vars => [][A]_vars
  BY <1>1, <1>3, PTL
<1> QED BY <1>4 DEF Spec, FrozenHoldingsStay, A

=============================================================================
