----------------------------- MODULE AppStorage -----------------------------
(***************************************************************************)
(* What applications store and what it costs: global state, local state    *)
(* and boxes, and the minimum balances that are charged for them           *)
(* (avm-execution.md, teal-driver.md).                                     *)
(*                                                                         *)
(* A group is any sequence of application calls and payments.  A program   *)
(* is any sequence of storage opcodes and inner transactions; the calls    *)
(* that are running, innermost first, are the context stack that           *)
(* AvmExecution has in detail.  A command or an opcode that no rule        *)
(* matches ends the run where it stands, and is not among the choices.     *)
(*                                                                         *)
(* The group starts in whatever network the set-up stage loads: accounts,  *)
(* those of applications included, applications and local states, for      *)
(* which it charges nobody.  It can load no boxes.                         *)
(*                                                                         *)
(* Kept of a value is whether it is an integer, of a box its size.  Left   *)
(* out: the opcodes that only read, sizes of keys and values, updates.     *)
(***************************************************************************)
EXTENDS Integers, Sequences, FiniteSetsExt, Functions

CONSTANTS
  Users,         \* accounts that submit transactions
  AppIds,        \* 1 .. n
  AppAddress,    \* id |-> getAppAddressBytes
  Schemas,       \* id |-> what the transaction that creates it asks for
  Keys, Names,   \* of local and global state, of boxes
  NameLength, Sizes,
  SetupBalance,  \* account of the set-up |-> balance
  SetupApps,     \* application it loads |-> creator and global state
  SetupLocal,    \* <<account, id>> |-> local state it loads
  Amounts,
  PARAM_MIN_BALANCE, PARAM_APP_PAGE_FLAT, PARAM_APP_OPTIN_FLAT,
  IntEntry, BytesEntry,       \* PARAM_MIN_BALANCE_PER_ENTRY with the part of the type
  BoxFlat, BoxByte,           \* 2500 and 400
  PARAM_MAX_BOX_SIZE,
  MaxTxns        \* bound: transactions in the group, inner ones included

Addresses == Users \cup Range(AppAddress)
Schema    == [globalInts: Nat, globalBytes: Nat, localInts: Nat, localBytes: Nat, extraPages: Nat]
OnCompletions == {"NoOp", "OptIn", "CloseOut", "ClearState", "DeleteApplication"}
LocalState == [ints : SUBSET Keys, bytes : SUBSET Keys]
AppState   == [creator : Addresses, ints : SUBSET Keys, bytes : SUBSET Keys]

\* No more integers and byte strings than a schema has entries, and no key twice
Within(e, ints, bytes) == /\ e.ints \cap e.bytes = {}
                          /\ Cardinality(e.ints) <= ints /\ Cardinality(e.bytes) <= bytes
GlobalWithin(id, e) == Within(e, Schemas[id].globalInts, Schemas[id].globalBytes)
LocalWithin(at, e)  == Within(e, Schemas[at[2]].localInts, Schemas[at[2]].localBytes)

ASSUME SchemaAssumption ==
  /\ AppIds \subseteq Nat \ {0} /\ IsFiniteSet(Keys)
  /\ Schemas \in [AppIds -> Schema]
ASSUME AccountAssumption ==
  /\ AppAddress \in [AppIds -> Addresses]
  /\ \A id \in AppIds : AppAddress[id] \notin Users
ASSUME NumberAssumption ==
  /\ Amounts \subseteq Nat /\ NameLength \in [Names -> Nat] /\ Sizes \subseteq Nat
  /\ {PARAM_MIN_BALANCE, PARAM_APP_PAGE_FLAT, PARAM_APP_OPTIN_FLAT, IntEntry, BytesEntry,
      BoxFlat, BoxByte, PARAM_MAX_BOX_SIZE, MaxTxns} \subseteq Nat
\* What is loaded belongs to accounts that are loaded, an application has its
\* account, and states fit their schemas, as what an earlier group left does.
ASSUME SetupAssumption ==
  /\ Users \subseteq DOMAIN SetupBalance /\ DOMAIN SetupBalance \subseteq Addresses
  /\ SetupBalance \in [DOMAIN SetupBalance -> Nat]
  /\ DOMAIN SetupApps \subseteq AppIds /\ IsFiniteSet(DOMAIN SetupApps)
  /\ SetupApps \in [DOMAIN SetupApps -> AppState]
  /\ \A id \in DOMAIN SetupApps : /\ {SetupApps[id].creator, AppAddress[id]} \subseteq DOMAIN SetupBalance
                                  /\ GlobalWithin(id, SetupApps[id])
  /\ DOMAIN SetupLocal \subseteq (DOMAIN SetupBalance) \X AppIds /\ IsFiniteSet(DOMAIN SetupLocal)
  /\ SetupLocal \in [DOMAIN SetupLocal -> LocalState]
  /\ \A at \in DOMAIN SetupLocal : LocalWithin(at, SetupLocal[at])

VARIABLES
  accounts,         \* address |-> balance, minimum balance
  apps,             \* id |-> creator and global state (<appsCreated>, <appCreator>)
  local,            \* <<address, id>> |-> local state (<appsOptedIn>)
  boxes,            \* <<address, name>> |-> size
  nextAppID,
  touchedAccounts,
  calls,            \* running application calls, innermost first
  refs,             \* box references of the group: name |-> 0 or the id of an application
  txns,             \* transactions so far
  verdict           \* "none", then "accepted" or "failed"

storage == <<accounts, apps, local, boxes, nextAppID>>
vars    == <<storage, touchedAccounts, calls, refs, txns, verdict>>

-----------------------------------------------------------------------------
(* Prices.                                                                 *)
Entries(ints, bytes) == IntEntry * ints + BytesEntry * bytes
AppPrice(id)   == (1 + Schemas[id].extraPages) * PARAM_APP_PAGE_FLAT
                  + Entries(Schemas[id].globalInts, Schemas[id].globalBytes)
LocalPrice(id) == PARAM_APP_OPTIN_FLAT + Entries(Schemas[id].localInts, Schemas[id].localBytes)
BoxPrice(name, size) == BoxFlat + BoxByte * (NameLength[name] + size)

Charged(accts, a, n) == [accts EXCEPT ![a].minBalance = @ + n]
NewAccount(n)        == [balance |-> n, minBalance |-> PARAM_MIN_BALANCE]

\* f with x mapped to v, and f without x
Put(f, x, v) == [y \in DOMAIN f \cup {x} |-> IF y = x THEN v ELSE f[y]]
Drop(f, x)   == Restrict(f, DOMAIN f \ {x})

\* Faulty: the key stays in the other map.
PutKeyTwice(e, key, type) ==
  IF type = "int" THEN [e EXCEPT !.ints = @ \cup {key}] ELSE [e EXCEPT !.bytes = @ \cup {key}]

\* A state with key put to an integer or to bytes: the key leaves the other map.
PutKey(e, key, type) ==
  IF type = "int" THEN [e EXCEPT !.ints = @ \cup {key}, !.bytes = @ \ {key}]
  ELSE [e EXCEPT !.bytes = @ \cup {key}, !.ints = @ \ {key}]
DelKey(e, key) == [e EXCEPT !.ints = @ \ {key}, !.bytes = @ \ {key}]

Fits(e, type, ints, bytes) == IF type = "int" THEN Cardinality(e.ints) <= ints
                              ELSE Cardinality(e.bytes) <= bytes

Panic == /\ verdict' = "failed"
         /\ UNCHANGED <<storage, touchedAccounts, calls, refs, txns>>

-----------------------------------------------------------------------------
\* After #readSetupStage: loading charges no minimum balance (#addAccountJSON).
Init ==
  /\ accounts = [a \in DOMAIN SetupBalance |-> NewAccount(SetupBalance[a])]
  /\ apps = SetupApps /\ local = SetupLocal /\ boxes = [at \in {} |-> 0]
  /\ nextAppID = Max(DOMAIN SetupApps \cup {0}) + 1
  /\ touchedAccounts = {} /\ calls = <<>> /\ txns = 0 /\ verdict = "none"
  /\ \E S \in SUBSET Names : refs \in [S -> AppIds \cup {0}]

\* Who may send the next transaction: any user, or the application that runs.
Running == verdict = "none" /\ calls # <<>>
Current == Head(calls)
Self    == AppAddress[Current.app]
Sender(s) == verdict = "none" /\ txns < MaxTxns
             /\ IF calls = <<>> THEN s \in Users ELSE s = Self

\* Faulty: an application touches no account.
EnterUntouched(s, id, oc) ==
  /\ txns' = txns + 1 /\ calls' = <<[app |-> id, oc |-> oc, sender |-> s]>> \o calls
  /\ UNCHANGED <<boxes, touchedAccounts, refs, verdict>>

\* #evalTx, then #executeAppl up to the program
Enter(s, id, oc) ==
  /\ txns' = txns + 1 /\ touchedAccounts' = touchedAccounts \cup {s}
  /\ calls' = <<[app |-> id, oc |-> oc, sender |-> s]>> \o calls
  /\ UNCHANGED <<boxes, refs, verdict>>

\* The local state of an opt-in; there must not be one.
OptedIn(s, id, oc) ==
  IF oc = "OptIn" THEN /\ <<s, id>> \notin DOMAIN local
                       /\ local' = Put(local, <<s, id>>, [ints |-> {}, bytes |-> {}])
  ELSE UNCHANGED local
OptInPrice(id, oc) == IF oc = "OptIn" THEN LocalPrice(id) ELSE 0

CreateApplication == \E s \in DOMAIN accounts, oc \in OnCompletions :
  LET id == nextAppID IN
  /\ Sender(s) /\ id \in AppIds /\ AppAddress[id] \notin DOMAIN accounts
  /\ OptedIn(s, id, oc)
  /\ accounts' = Put(Charged(accounts, s, AppPrice(id) + OptInPrice(id, oc)),
                     AppAddress[id], NewAccount(0))
  /\ apps' = Put(apps, id, [creator |-> s, ints |-> {}, bytes |-> {}])
  /\ nextAppID' = id + 1
  /\ Enter(s, id, oc)

\* Of an application that is not running already (#checkForReentrance)
CallApplication == \E s \in DOMAIN accounts, id \in DOMAIN apps, oc \in OnCompletions :
  /\ Sender(s) /\ \A i \in DOMAIN calls : calls[i].app # id
  /\ OptedIn(s, id, oc)
  /\ accounts' = Charged(accounts, s, OptInPrice(id, oc))
  /\ Enter(s, id, oc) /\ UNCHANGED <<apps, nextAppID>>

\* Faulty: the balance of the sender is not looked at.
PayUnchecked == \E s, r \in DOMAIN accounts, n \in Amounts :
  /\ Sender(s) /\ s # r
  /\ accounts' = [accounts EXCEPT ![s].balance = @ - n, ![r].balance = @ + n]
  /\ txns' = txns + 1 /\ touchedAccounts' = touchedAccounts \cup {s, r}
  /\ UNCHANGED <<apps, local, boxes, nextAppID, calls, refs, verdict>>

\* The two accounts of a payment are touched.
Pay == \E s, r \in DOMAIN accounts, n \in Amounts :
  /\ Sender(s) /\ s # r /\ accounts[s].balance >= n
  /\ accounts' = [accounts EXCEPT ![s].balance = @ - n, ![r].balance = @ + n]
  /\ txns' = txns + 1 /\ touchedAccounts' = touchedAccounts \cup {s, r}
  /\ UNCHANGED <<apps, local, boxes, nextAppID, calls, refs, verdict>>

-----------------------------------------------------------------------------
(* Opcodes of the running program.                                         *)
Opcode == Running /\ UNCHANGED <<nextAppID, touchedAccounts, calls, refs, txns, verdict>>

\* A program may fail at any time.
OpPanic == Running /\ Panic

AppGlobalPut == \E key \in Keys, type \in {"int", "bytes"} :
  LET id == Current.app
      e  == PutKey(apps[id], key, type)
      fits == Fits(e, type, Schemas[id].globalInts, Schemas[id].globalBytes)
  IN \/ Opcode /\ fits /\ apps' = [apps EXCEPT ![id] = e] /\ UNCHANGED <<accounts, local, boxes>>
     \/ Running /\ ~fits /\ Panic

AppGlobalDel == \E key \in Keys :
  /\ Opcode /\ apps' = [apps EXCEPT ![Current.app] = DelKey(@, key)]
  /\ UNCHANGED <<accounts, local, boxes>>

AppLocalPut == \E a \in DOMAIN accounts, key \in Keys, type \in {"int", "bytes"} :
  LET at == <<a, Current.app>>
      e  == PutKey(local[at], key, type)
      fits == at \in DOMAIN local
              /\ Fits(e, type, Schemas[Current.app].localInts, Schemas[Current.app].localBytes)
  IN \/ Opcode /\ fits /\ local' = [local EXCEPT ![at] = e] /\ UNCHANGED <<accounts, apps, boxes>>
     \/ Running /\ ~fits /\ Panic

AppLocalDel == \E a \in DOMAIN accounts, key \in Keys :
  LET at == <<a, Current.app>> IN
  \/ /\ Opcode /\ at \in DOMAIN local /\ local' = [local EXCEPT ![at] = DelKey(@, key)]
     /\ UNCHANGED <<accounts, apps, boxes>>
  \/ Running /\ at \notin DOMAIN local /\ Panic

\* boxAcct: the account of a referenced box; inner transactions refer to none.
Referenced(name) == Len(calls) = 1 /\ name \in DOMAIN refs
BoxAt(name) == <<IF refs[name] = 0 THEN Self ELSE AppAddress[refs[name]], name>>

\* Faulty: a box that is there is not looked for.
CreateBoxAnew(name, size) ==
  /\ Opcode /\ Referenced(name) /\ size <= PARAM_MAX_BOX_SIZE /\ BoxAt(name)[1] = Self
  /\ boxes' = Put(boxes, BoxAt(name), size)
  /\ accounts' = Charged(accounts, Self, BoxPrice(name, size))
  /\ UNCHANGED <<apps, local>>

\* #createBox in the account of the application
CreateBox(name, size) ==
  /\ Opcode /\ Referenced(name) /\ size <= PARAM_MAX_BOX_SIZE
  /\ BoxAt(name)[1] = Self /\ BoxAt(name) \notin DOMAIN boxes
  /\ boxes' = Put(boxes, BoxAt(name), size)
  /\ accounts' = Charged(accounts, Self, BoxPrice(name, size))
  /\ UNCHANGED <<apps, local>>

\* Any size but that of the box, and any account but its own, is refused.
BoxCreate == \E name \in Names, size \in Sizes :
  \/ CreateBox(name, size)
  \/ /\ Running /\ Panic
     /\ \/ ~Referenced(name)
        \/ size > PARAM_MAX_BOX_SIZE
        \/ BoxAt(name)[1] # Self
        \/ BoxAt(name) \in DOMAIN boxes /\ boxes[BoxAt(name)] # size

\* Creates the box that is not there; replaces its contents otherwise.
BoxPut == \E name \in Names, size \in Sizes :
  \/ CreateBox(name, size)
  \/ /\ Running /\ Panic
     /\ \/ ~Referenced(name)
        \/ BoxAt(name) \in DOMAIN boxes /\ boxes[BoxAt(name)] # size
        \/ BoxAt(name) \notin DOMAIN boxes /\ BoxAt(name)[1] # Self

\* box_replace, box_extract up to end: the last byte is out of bounds too.
BoxAccess == \E name \in Names, end \in Sizes :
  /\ Running /\ Panic
  /\ \/ ~Referenced(name)
     \/ BoxAt(name) \notin DOMAIN boxes
     \/ end >= boxes[BoxAt(name)]

\* Of a box of any application that is referenced
BoxDel == \E name \in Names :
  \/ /\ Opcode /\ Referenced(name) /\ BoxAt(name) \in DOMAIN boxes
     /\ boxes' = Drop(boxes, BoxAt(name))
     /\ accounts' = Charged(accounts, BoxAt(name)[1], -BoxPrice(name, boxes[BoxAt(name)]))
     /\ UNCHANGED <<apps, local>>
  \/ Running /\ ~Referenced(name) /\ Panic

-----------------------------------------------------------------------------
(* The program approves: what remains of the call, by on-completion.       *)
Return(oc) == /\ Running /\ Current.oc \in oc /\ calls' = Tail(calls)
              /\ UNCHANGED <<boxes, nextAppID, touchedAccounts, refs, txns, verdict>>

EndProgram == Return({"NoOp", "OptIn"}) /\ UNCHANGED <<accounts, apps, local>>

\* #clearState, which needs the application and the local state to be there
ClearState ==
  LET at == <<Current.sender, Current.app>> IN
  /\ Return({"CloseOut", "ClearState"}) /\ at \in DOMAIN local
  /\ local' = Drop(local, at)
  /\ accounts' = Charged(accounts, Current.sender, -LocalPrice(Current.app))
  /\ UNCHANGED apps

\* Faulty: who deletes the application is given back what its creator paid.
DeleteForSender ==
  /\ Return({"DeleteApplication"}) /\ Current.app \notin DOMAIN SetupApps
  /\ apps' = Drop(apps, Current.app)
  /\ accounts' = Charged(accounts, Current.sender, -AppPrice(Current.app))
  /\ UNCHANGED local

\* #deleteApplication: local state and boxes stay.  No rule for an application
\* that the set-up has loaded: its <extraPages> is not set.
DeleteApplication ==
  /\ Return({"DeleteApplication"}) /\ Current.app \notin DOMAIN SetupApps
  /\ apps' = Drop(apps, Current.app)
  /\ accounts' = Charged(accounts, apps[Current.app].creator, -AppPrice(Current.app))
  /\ UNCHANGED local

\* The end of the group
CheckSufficientBalance ==
  /\ verdict = "none" /\ calls = <<>> /\ txns > 0
  /\ verdict' = IF \A a \in touchedAccounts : accounts[a].balance >= accounts[a].minBalance
                THEN "accepted" ELSE "failed"
  /\ UNCHANGED <<storage, touchedAccounts, calls, refs, txns>>

Next ==
  \/ CreateApplication \/ CallApplication \/ Pay
  \/ OpPanic \/ AppGlobalPut \/ AppGlobalDel \/ AppLocalPut \/ AppLocalDel
  \/ BoxCreate \/ BoxPut \/ BoxAccess \/ BoxDel
  \/ EndProgram \/ ClearState \/ DeleteApplication \/ CheckSufficientBalance

Spec == Init /\ [][Next]_vars

-----------------------------------------------------------------------------
\* No balance is negative; what is there belongs to accounts and applications.
Account    == [balance : Nat, minBalance : Int]
Call       == [app : AppIds, oc : OnCompletions, sender : Addresses]
TypeOK ==
  /\ DOMAIN accounts \subseteq Addresses /\ accounts \in [DOMAIN accounts -> Account]
  /\ DOMAIN apps \subseteq AppIds /\ apps \in [DOMAIN apps -> AppState]
  /\ DOMAIN local \subseteq Addresses \X AppIds /\ local \in [DOMAIN local -> LocalState]
  /\ DOMAIN boxes \subseteq Addresses \X Names /\ boxes \in [DOMAIN boxes -> Nat]
  /\ calls \in Seq(Call)
  /\ DOMAIN refs \subseteq Names /\ refs \in [DOMAIN refs -> AppIds \cup {0}]

\* A minimum balance is the price of what is there: the account, the
\* applications it created, its local states, those of deleted applications
\* included, and the boxes of its application; less, for ever, the price of what
\* the set-up loaded, which was not charged but is paid back when it is cleared.
AppCost(a)    == SumFunction([id \in DOMAIN apps |-> IF apps[id].creator = a THEN AppPrice(id) ELSE 0])
LocalCost(a)  == SumFunction([at \in DOMAIN local |-> IF at[1] = a THEN LocalPrice(at[2]) ELSE 0])
BoxCost(a)    == SumFunction([at \in DOMAIN boxes |-> IF at[1] = a THEN BoxPrice(at[2], boxes[at]) ELSE 0])
PriceOf(a)    == PARAM_MIN_BALANCE + AppCost(a) + LocalCost(a) + BoxCost(a)
Uncharged(a)  ==
  SumFunction([id \in DOMAIN SetupApps |-> IF SetupApps[id].creator = a THEN AppPrice(id) ELSE 0])
  + SumFunction([at \in DOMAIN SetupLocal |-> IF at[1] = a THEN LocalPrice(at[2]) ELSE 0])
MinBalanceIsPrice == \A a \in DOMAIN accounts : accounts[a].minBalance = PriceOf(a) - Uncharged(a)

\* No state holds more integers or byte strings than its schema has entries,
\* and no key is both.
WithinSchema == /\ \A id \in DOMAIN apps : GlobalWithin(id, apps[id])
                /\ \A at \in DOMAIN local : LocalWithin(at, local[at])

\* Only touched accounts are checked, and an application that creates boxes is
\* not touched.  So an accepted group may leave an account without its minimum
\* balance; but only one that has not created an application or opted in to one
\* in this group, and that has boxes, is new, or was too poor when it was loaded.
Covered(a) == accounts[a].balance >= accounts[a].minBalance
StateIsPaidFor == verdict = "accepted" => \A a \in DOMAIN accounts : Covered(a) \/
  /\ \A id \in DOMAIN apps : apps[id].creator = a => id \in DOMAIN SetupApps
  /\ \A at \in DOMAIN local : at[1] = a => at \in DOMAIN SetupLocal
  /\ \/ \E at \in DOMAIN boxes : at[1] = a
     \/ a \notin DOMAIN SetupBalance
     \/ SetupBalance[a] < PARAM_MIN_BALANCE

\* A box keeps its size, whatever its application or another one puts into it,
\* until it is deleted.
BoxSizesStay == [][\A at \in DOMAIN boxes \cap DOMAIN boxes' : boxes'[at] = boxes[at]]_vars
=============================================================================
