------------------------------- MODULE Ledger -------------------------------
(***************************************************************************)
(* Algos and assets: what payment, asset configuration, asset transfer and *)
(* asset freeze transactions do to balances, holdings and minimum balances *)
(* (avm-execution.md), and the check of minimum balances that ends a group.*)
(*                                                                         *)
(* A group is any sequence of these transactions, sent by any account.     *)
(* Choosing a transaction stands for #getNextTxn, #evalTx and #executeTxn, *)
(* between which nothing else runs; the commands a transaction becomes are *)
(* steps of their own, because the second may fail after the first.  Where *)
(* several rules match the same transaction any of them may be the one     *)
(* applied; one that no rule matches ends the run where it stands, and is  *)
(* not among the choices.                                                  *)
(*                                                                         *)
(* Left out: rekeying, fees, and the parameters of an asset that no rule   *)
(* reads.  Reserve and clawback addresses are read only where all four     *)
(* addresses of a transaction must be zero.                                *)
(***************************************************************************)
EXTENDS Integers, Sequences, FiniteSets, Functions

CONSTANTS
  Accounts,           \* addresses with an account
  ZeroAddress,        \* stands for every address without one
  Amounts,            \* amounts a transaction may name
  PARAM_MIN_BALANCE,  \* minimum balance of an account, and its price per holding
  SetupBalance,       \* the "amount" of each account object
  SetupAssets,        \* asset id |-> parameters ("created-assets")
  SetupHoldings,      \* account |-> asset id |-> holding ("assets")
  MaxTxns,            \* bound: transactions in the group
  MaxAssets           \* bound: asset ids

Addresses == Accounts \cup {ZeroAddress}
Holding   == [amount: Nat, frozen: BOOLEAN]
AssetParams == [creator: Accounts, total: Nat, defaultFrozen: BOOLEAN,
                manager: Addresses, freeze: Addresses]

\* A finite map from asset ids to S.
IsAssetMap(f, S) == /\ f \in [DOMAIN f -> S]
                    /\ DOMAIN f \subseteq Nat \ {0} /\ IsFiniteSet(DOMAIN f)

ASSUME AddressAssumption == IsFiniteSet(Accounts) /\ ZeroAddress \notin Accounts
ASSUME NumberAssumption ==
  /\ Amounts \subseteq Nat /\ PARAM_MIN_BALANCE \in Nat
  /\ MaxTxns \in Nat /\ MaxAssets \in Nat
ASSUME SetupAssumption ==
  /\ SetupBalance \in [Accounts -> Nat]
  /\ IsAssetMap(SetupAssets, AssetParams)
  /\ SetupHoldings = [a \in Accounts |-> SetupHoldings[a]]
  /\ \A a \in Accounts : IsAssetMap(SetupHoldings[a], Holding)

VARIABLES
  k, returncode, balance, minBalance, assets, holdings, nextAssetID,
  touchedAccounts, submitted

ledger == <<balance, minBalance, assets, holdings, nextAssetID>>
vars   == <<k, returncode, ledger, touchedAccounts, submitted>>

SUCCESS                    == 0
STUCK                      == 4
INSUFFICIENT_FUNDS         == 36
UNKNOWN_ADDRESS            == 52
ASSET_FROZEN               == 50
ASSET_NOT_OPT_IN           == 51
ASSET_NOT_FOUND            == 54
ASSET_NO_PERMISSION        == 53
INSUFFICIENT_ASSET_BALANCE == 57
MIN_BALANCE_VIOLATION      == 48
ReturnCodes == {SUCCESS, STUCK, INSUFFICIENT_FUNDS, UNKNOWN_ADDRESS, ASSET_FROZEN,
  ASSET_NOT_OPT_IN, ASSET_NOT_FOUND, ASSET_NO_PERMISSION,
  INSUFFICIENT_ASSET_BALANCE, MIN_BALANCE_VIOLATION}

-----------------------------------------------------------------------------
(* The continuation: the commands left of the current transaction, then    *)
(* #evalNextTx; at the end, #checkSufficientBalance.                       *)
Ops == {"giveAlgos", "giveAsset", "closeTo", "evalNextTx", "checkSufficientBalance"}
Command == [op: Ops, asset: Nat, account: Addresses, amount: Int, to: Addresses]

CmdOf(c, id, a, n, to) == [op |-> c, asset |-> id, account |-> a, amount |-> n, to |-> to]
Cmd(c)                 == CmdOf(c, 0, ZeroAddress, 0, ZeroAddress)
GiveAlgosTo(a, n)      == CmdOf("giveAlgos", 0, a, n, ZeroAddress)
GiveAssetTo(id, a, n)  == CmdOf("giveAsset", id, a, n, ZeroAddress)
CloseToFor(id, a, to)  == CmdOf("closeTo", id, a, 0, to)

Next1(c) == k # <<>> /\ Head(k).op = c
Done     == k' = Tail(k)

\* #panic sets the code and #stopIfError drops what is left of <k>.
Panic(code) == returncode' = code /\ k' = <<>>

\* f with id mapped to v, and f without id
With(f, id, v) == [x \in DOMAIN f \cup {id} |-> IF x = id THEN v ELSE f[x]]
Without(f, id) == Restrict(f, DOMAIN f \ {id})

HasOptedIn(a, id) == a \in Accounts /\ id \in DOMAIN holdings[a]
IsFrozen(a, id)   == HasOptedIn(a, id) /\ holdings[a][id].frozen
AssetCreated(id)  == id \in DOMAIN assets

Init ==
  /\ k = <<Cmd("evalNextTx")>> /\ returncode = STUCK
  /\ balance = SetupBalance
  /\ minBalance = [a \in Accounts |-> PARAM_MIN_BALANCE]
  /\ assets = SetupAssets /\ holdings = SetupHoldings
  \* #setupCounters: one more than the largest id of an asset that exists
  /\ \E m \in {0} \cup DOMAIN SetupAssets : /\ \A id \in DOMAIN SetupAssets : id <= m
                                            /\ nextAssetID = m + 1
  /\ touchedAccounts = {} /\ submitted = 0

-----------------------------------------------------------------------------
(* The next transaction of the group; t are the accounts it touches.       *)
Evaluate(t) ==
  /\ Next1("evalNextTx") /\ submitted < MaxTxns
  /\ submitted' = submitted + 1
  /\ touchedAccounts' = touchedAccounts \cup t

\* The transaction becomes the commands s.
Becomes(s) == k' = s \o k /\ UNCHANGED <<returncode, ledger>>

\* Faulty: the receiver is paid before the sender.
PayReceiverFirst == \E s \in Accounts, r \in Addresses, n \in Amounts :
  /\ Evaluate({s, r})
  /\ Becomes(<<GiveAlgosTo(r, n), GiveAlgosTo(s, -n)>>)

\* Faulty: the sender of a payment is not marked for the check.
PayTouchesReceiver == \E s \in Accounts, r \in Addresses, n \in Amounts :
  /\ Evaluate({r})
  /\ Becomes(<<GiveAlgosTo(s, -n), GiveAlgosTo(r, n)>>)

Pay == \E s \in Accounts, r \in Addresses, n \in Amounts :
  /\ Evaluate({s, r})
  /\ Becomes(<<GiveAlgosTo(s, -n), GiveAlgosTo(r, n)>>)

\* The tests of the panics overlap the rule above: who pays too much may also
\* be stopped by #giveAlgos, and who pays to nobody may lose the amount.
PayInsufficientFunds == \E s \in Accounts, n \in Amounts :
  /\ Evaluate({s}) /\ balance[s] < n
  /\ Panic(INSUFFICIENT_FUNDS) /\ UNCHANGED ledger

PayUnknownAddress == \E s \in Accounts, r \in Addresses :
  /\ Evaluate({s}) /\ r \notin Accounts
  /\ Panic(UNKNOWN_ADDRESS) /\ UNCHANGED ledger

\* Faulty: what is taken is not compared with what is there.
GiveAlgosUnchecked ==
  /\ Next1("giveAlgos") /\ Head(k).account \in Accounts
  /\ balance' = [balance EXCEPT ![Head(k).account] = @ + Head(k).amount]
  /\ Done
  /\ UNCHANGED <<returncode, minBalance, assets, holdings, nextAssetID, touchedAccounts, submitted>>

GiveAlgos ==
  /\ Next1("giveAlgos") /\ Head(k).account \in Accounts
  /\ LET left == balance[Head(k).account] + Head(k).amount IN
       \/ /\ left >= 0
          /\ balance' = [balance EXCEPT ![Head(k).account] = left]
          /\ Done /\ UNCHANGED returncode
       \/ /\ left < 0
          /\ Panic(INSUFFICIENT_FUNDS) /\ UNCHANGED balance
  /\ UNCHANGED <<minBalance, assets, holdings, nextAssetID, touchedAccounts, submitted>>

-----------------------------------------------------------------------------
(* Asset configuration.                                                    *)

\* The creator holds every unit, frozen if the asset is frozen by default.
CreateAsset == \E p \in [creator: Accounts, total: Amounts, defaultFrozen: BOOLEAN,
                         manager: Addresses, freeze: Addresses] :
  /\ Evaluate({p.creator}) /\ nextAssetID <= MaxAssets
  /\ assets' = With(assets, nextAssetID, p)
  /\ holdings' = [holdings EXCEPT ![p.creator] =
                    With(@, nextAssetID, [amount |-> p.total, frozen |-> p.defaultFrozen])]
  /\ minBalance' = [minBalance EXCEPT ![p.creator] = @ + PARAM_MIN_BALANCE]
  /\ nextAssetID' = nextAssetID + 1
  /\ UNCHANGED <<k, returncode, balance>>

\* One of the four addresses is not zero; it may be the reserve or the clawback.
ModifyAsset == \E s \in Accounts, id \in DOMAIN assets, m, f \in Addresses :
  /\ Evaluate({s}) /\ assets[id].manager = s
  /\ assets' = [assets EXCEPT ![id].manager = m, ![id].freeze = f]
  /\ UNCHANGED <<k, returncode, balance, minBalance, holdings, nextAssetID>>

\* The manager destroys an asset of which the creator holds every unit.
HasAllUnits(a, id) == HasOptedIn(a, id) /\ holdings[a][id].amount = assets[id].total

DestroyAsset == \E s \in Accounts, id \in DOMAIN assets :
  LET creator == assets[id].creator IN
  /\ Evaluate({s}) /\ assets[id].manager = s /\ HasAllUnits(creator, id)
  /\ assets' = Without(assets, id)
  /\ holdings' = [holdings EXCEPT ![creator] = Without(@, id)]
  /\ minBalance' = [minBalance EXCEPT ![creator] = @ - PARAM_MIN_BALANCE]
  /\ UNCHANGED <<k, returncode, balance, nextAssetID>>

\* [owise]: an unknown asset, a sender who is not its manager, or an asset to
\* destroy of which the creator lacks units
AssetNoPermission == \E s \in Accounts, id \in 1..MaxAssets, destroy \in BOOLEAN :
  /\ Evaluate({s})
  /\ \/ ~AssetCreated(id)
     \/ AssetCreated(id) /\ assets[id].manager # s
     \/ AssetCreated(id) /\ destroy /\ ~HasAllUnits(assets[id].creator, id)
  /\ Panic(ASSET_NO_PERMISSION) /\ UNCHANGED ledger

-----------------------------------------------------------------------------
(* Asset transfer.                                                         *)
\* Faulty: the receiver is given the units before the sender has lost them.
TransferReceiverFirst == \E s \in Accounts, r \in Accounts, id \in DOMAIN assets, n \in Amounts :
  /\ Evaluate({s})
  /\ HasOptedIn(s, id) /\ HasOptedIn(r, id) /\ ~IsFrozen(s, id) /\ ~IsFrozen(r, id)
  /\ Becomes(<<GiveAssetTo(id, r, n), GiveAssetTo(id, s, -n)>>)

TransferAsset == \E s \in Accounts, r \in Accounts, id \in DOMAIN assets, n \in Amounts :
  /\ Evaluate({s})
  /\ HasOptedIn(s, id) /\ HasOptedIn(r, id) /\ ~IsFrozen(s, id) /\ ~IsFrozen(r, id)
  /\ Becomes(<<GiveAssetTo(id, s, -n), GiveAssetTo(id, r, n)>>)

TransferNotOptedIn == \E s \in Accounts, r \in Accounts, id \in DOMAIN assets, n \in Amounts :
  /\ Evaluate({s}) /\ s # r /\ n > 0
  /\ ~HasOptedIn(s, id) \/ ~HasOptedIn(r, id)
  /\ Panic(ASSET_NOT_OPT_IN) /\ UNCHANGED ledger

TransferNotFound == \E s \in Accounts, id \in 1..MaxAssets :
  /\ Evaluate({s}) /\ ~AssetCreated(id)
  /\ Panic(ASSET_NOT_FOUND) /\ UNCHANGED ledger

\* Whatever the close-to address: this test overlaps the opt-out.
TransferFrozen == \E s \in Accounts, r \in Accounts, id \in DOMAIN assets, n \in Amounts :
  /\ Evaluate({s}) /\ n > 0
  /\ HasOptedIn(s, id) /\ HasOptedIn(r, id) /\ (IsFrozen(s, id) \/ IsFrozen(r, id))
  /\ Panic(ASSET_FROZEN) /\ UNCHANGED ledger

\* A transfer of nothing to oneself
OptInAsset == \E s \in Accounts, id \in DOMAIN assets :
  /\ Evaluate({s}) /\ ~HasOptedIn(s, id)
  /\ holdings' = [holdings EXCEPT ![s] =
                    With(@, id, [amount |-> 0, frozen |-> assets[id].defaultFrozen])]
  /\ minBalance' = [minBalance EXCEPT ![s] = @ + PARAM_MIN_BALANCE]
  /\ UNCHANGED <<k, returncode, balance, assets, nextAssetID>>

\* A transfer with a close-to address, of which nothing is tested beforehand:
\* here ZeroAddress is an address without an account, not the zero address.
OptOutAsset == \E s \in Accounts, r, c \in Addresses, id \in DOMAIN assets, n \in Amounts :
  /\ Evaluate({s})
  /\ Becomes(<<GiveAssetTo(id, s, -n), GiveAssetTo(id, r, n), CloseToFor(id, s, c)>>)

\* Faulty: frozen holdings are given and taken like any other.
GiveAssetThaws ==
  /\ Next1("giveAsset") /\ HasOptedIn(Head(k).account, Head(k).asset)
  /\ LET h == holdings[Head(k).account][Head(k).asset] IN
       /\ h.amount + Head(k).amount >= 0
       /\ holdings' = [holdings EXCEPT ![Head(k).account][Head(k).asset].amount =
                         @ + Head(k).amount]
  /\ Done
  /\ UNCHANGED <<returncode, balance, minBalance, assets, nextAssetID, touchedAccounts, submitted>>

\* No rule matches a holding that is missing or frozen.
GiveAsset ==
  /\ Next1("giveAsset")
  /\ LET a == Head(k).account  id == Head(k).asset IN
       /\ HasOptedIn(a, id) /\ ~IsFrozen(a, id)
       /\ LET left == holdings[a][id].amount + Head(k).amount IN
            \/ /\ left >= 0
               /\ holdings' = [holdings EXCEPT ![a][id].amount = left]
               /\ Done /\ UNCHANGED returncode
            \/ /\ left < 0
               /\ Panic(INSUFFICIENT_ASSET_BALANCE) /\ UNCHANGED holdings
  /\ UNCHANGED <<balance, minBalance, assets, nextAssetID, touchedAccounts, submitted>>

\* Faulty: the price of the holding stays in the minimum balance.
CloseToKeepsPrice ==
  /\ Next1("closeTo")
  /\ LET a == Head(k).account  id == Head(k).asset  to == Head(k).to IN
       /\ a # to /\ HasOptedIn(a, id) /\ HasOptedIn(to, id)
       /\ holdings' = [holdings EXCEPT ![a] = Without(@, id),
                                       ![to][id].amount = @ + holdings[a][id].amount]
  /\ Done
  /\ UNCHANGED <<returncode, balance, minBalance, assets, nextAssetID, touchedAccounts, submitted>>

\* Two <account> cells: no rule closes a holding to its own account.
CloseTo ==
  /\ Next1("closeTo")
  /\ LET a == Head(k).account  id == Head(k).asset  to == Head(k).to IN
       /\ a # to /\ HasOptedIn(a, id) /\ HasOptedIn(to, id)
       /\ holdings' = [holdings EXCEPT ![a] = Without(@, id),
                                       ![to][id].amount = @ + holdings[a][id].amount]
       /\ minBalance' = [minBalance EXCEPT ![a] = @ - PARAM_MIN_BALANCE]
  /\ Done
  /\ UNCHANGED <<returncode, balance, assets, nextAssetID, touchedAccounts, submitted>>

-----------------------------------------------------------------------------
\* Asset freeze
FreezeAsset == \E s \in Accounts, a \in Accounts, id \in DOMAIN assets, freeze \in BOOLEAN :
  /\ Evaluate({s}) /\ assets[id].freeze = s /\ HasOptedIn(a, id)
  /\ holdings' = [holdings EXCEPT ![a][id].frozen = freeze]
  /\ UNCHANGED <<k, returncode, balance, minBalance, assets, nextAssetID>>

-----------------------------------------------------------------------------
(* The end of the group.                                                   *)
GroupAccepted ==
  /\ Next1("evalNextTx") /\ submitted > 0
  /\ returncode' = SUCCESS
  /\ k' = <<Cmd("checkSufficientBalance")>>
  /\ UNCHANGED <<ledger, touchedAccounts, submitted>>

CheckSufficientBalance ==
  /\ Next1("checkSufficientBalance")
  /\ \E a \in touchedAccounts \cap Accounts :
       /\ touchedAccounts' = touchedAccounts \ {a}
       /\ \/ /\ balance[a] >= minBalance[a]
             /\ UNCHANGED <<k, returncode>>
          \/ /\ balance[a] < minBalance[a]
             /\ Panic(MIN_BALANCE_VIOLATION)
  /\ UNCHANGED <<ledger, submitted>>

CheckDone ==
  /\ Next1("checkSufficientBalance") /\ touchedAccounts = {}
  /\ Done
  /\ UNCHANGED <<returncode, ledger, touchedAccounts, submitted>>

Next ==
  \/ Pay \/ PayInsufficientFunds \/ PayUnknownAddress \/ GiveAlgos
  \/ CreateAsset \/ ModifyAsset \/ DestroyAsset \/ AssetNoPermission
  \/ TransferAsset \/ TransferNotOptedIn \/ TransferNotFound \/ TransferFrozen
  \/ OptInAsset \/ OptOutAsset \/ GiveAsset \/ CloseTo \/ FreezeAsset
  \/ GroupAccepted \/ CheckSufficientBalance \/ CheckDone

Spec == Init /\ [][Next]_vars
-----------------------------------------------------------------------------
(* Properties.                                                             *)

\* Every cell holds a value of its type; no balance and no holding is negative.
TypeOK ==
  /\ k \in Seq(Command) /\ returncode \in ReturnCodes
  /\ balance \in [Accounts -> Nat] /\ minBalance \in [Accounts -> Int]
  /\ IsAssetMap(assets, AssetParams)
  /\ DOMAIN holdings = Accounts /\ \A a \in Accounts : IsAssetMap(holdings[a], Holding)
  /\ nextAssetID \in Nat
  /\ touchedAccounts \subseteq Addresses /\ submitted \in 0..MaxTxns

\* What the commands s still have to give or take of an asset, or of the algos
\* (which have no asset id).
Part(c, op, id) == IF c.op = op /\ c.asset = id THEN c.amount ELSE 0
Due(s, op, id)  == SumFunction([i \in 1..Len(s) |-> Part(s[i], op, id)])

\* Payments neither create nor destroy algos: what has been taken from a sender
\* and not yet given is still to be given, and a panic, which drops the commands
\* left, never drops half a payment.
AlgosConserved == SumFunction(balance) + Due(k, "giveAlgos", 0) = SumFunction(SetupBalance)

Units(a, id) == IF HasOptedIn(a, id) THEN holdings[a][id].amount ELSE 0
Held(id)     == SumFunction([a \in Accounts |-> Units(a, id)])

\* The holdings of an asset that exists add up to its total, whatever opt-outs,
\* freezes and panics happened in between; and an asset is destroyed only when
\* nobody but its creator has units of it, although nobody else is looked at.
AssetsConserved ==
  /\ \A id \in DOMAIN assets : Held(id) + Due(k, "giveAsset", id) = assets[id].total
  /\ \A id \in 1..(nextAssetID - 1) : ~AssetCreated(id) => Held(id) = 0

\* The minimum balance of an account is that of an empty one plus the price of
\* each asset it holds, whoever's transaction added or removed the holding.
MinBalanceCounts ==
  \A a \in Accounts :
    minBalance[a] = PARAM_MIN_BALANCE * (1 + Cardinality(DOMAIN holdings[a]))

\* A group is accepted only if it leaves every account, touched or not, with its
\* minimum balance.
MinBalanceHolds ==
  returncode = SUCCESS /\ k = <<>> => \A a \in Accounts : balance[a] >= minBalance[a]

\* Nothing takes units out of a frozen holding; only the end of the asset does.
FrozenHoldingsStay ==
  [][\A a \in Accounts : \A id \in DOMAIN holdings[a] :
       IsFrozen(a, id) =>
         \/ id \in DOMAIN holdings'[a] /\ holdings'[a][id].amount >= holdings[a][id].amount
         \/ id \notin DOMAIN assets']_vars
=============================================================================
