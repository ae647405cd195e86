-------------------------- MODULE AppStorageProofs --------------------------
(***************************************************************************)
(* Proofs about AppStorage: types, states within their schemas, minimum    *)
(* balances, and whom an accepted group may leave without one.             *)
(***************************************************************************)
EXTENDS AppStorage, SumTheorems, FiniteSetTheorems, TLAPS

(* What the helpers return.                                                *)

\* Prices are integers, and so is a minimum balance to which one is added.
LEMMA PriceType ==
  /\ \A id \in AppIds : AppPrice(id) \in Int /\ LocalPrice(id) \in Int
  /\ \A n \in Names, m \in Nat : BoxPrice(n, m) \in Int
BY SchemaAssumption, NumberAssumption DEF AppPrice, LocalPrice, BoxPrice, Entries, Schema

\* Charging an account keeps the others, and all balances.
LEMMA ChargedType ==
  ASSUME NEW f, f \in [DOMAIN f -> Account], NEW a, NEW n \in Int
  PROVE  /\ DOMAIN Charged(f, a, n) = DOMAIN f
         /\ Charged(f, a, n) \in [DOMAIN f -> Account]
<1>1. a \in DOMAIN f =>
        /\ f[a].minBalance + n \in Int
        /\ [f[a] EXCEPT !.minBalance = @ + n] \in Account
  BY DEF Account
<1> QED BY <1>1 DEF Charged

\* Putting and deleting a key keeps the type of a state.
LEMMA StateType ==
  /\ \A e \in AppState, key \in Keys, t \in {"int", "bytes"} :
       PutKey(e, key, t) \in AppState /\ DelKey(e, key) \in AppState
  /\ \A e \in LocalState, key \in Keys, t \in {"int", "bytes"} :
       PutKey(e, key, t) \in LocalState /\ DelKey(e, key) \in LocalState
BY DEF PutKey, DelKey, AppState, LocalState

\* The running call, its account, and the calls below it.
LEMMA CurrentType ==
  ASSUME TypeOK, Running
  PROVE  Current \in Call /\ Self \in Addresses /\ Tail(calls) \in Seq(Call)
<1>1. Current \in Call /\ Tail(calls) \in Seq(Call)
  BY DEF TypeOK, Running, Current
<1>2. Current.app \in AppIds
  BY <1>1 DEF Call
<1> QED BY <1>1, <1>2, AccountAssumption DEF Self

-----------------------------------------------------------------------------
(* Type correctness.                                                       *)
LEMMA TypeInit == Init => TypeOK
<1> SUFFICES ASSUME Init PROVE TypeOK
  OBVIOUS
<1>1. DOMAIN accounts \subseteq Addresses /\ accounts \in [DOMAIN accounts -> Account]
  BY NumberAssumption, SetupAssumption DEF Init, NewAccount, Account
<1>2. DOMAIN refs \subseteq Names /\ refs \in [DOMAIN refs -> AppIds \cup {0}]
  BY DEF Init
<1>3. calls \in Seq(Call)
  BY DEF Init
<1> QED BY <1>1, <1>2, <1>3, SetupAssumption DEF Init, TypeOK

\* A call is entered by an account, for an application.
LEMMA EnterType ==
  ASSUME TypeOK, NEW s \in Addresses, NEW id \in AppIds, NEW oc \in OnCompletions, Enter(s, id, oc)
  PROVE  calls' \in Seq(Call)
<1>1. [app |-> id, oc |-> oc, sender |-> s] \in Call
  BY DEF Call
<1> QED BY <1>1 DEF Enter, TypeOK

\* An opt-in adds an empty local state.
LEMMA OptedInType ==
  ASSUME TypeOK, NEW s \in Addresses, NEW id \in AppIds, NEW oc, OptedIn(s, id, oc)
  PROVE  DOMAIN local' \subseteq Addresses \X AppIds /\ local' \in [DOMAIN local' -> LocalState]
<1>1. [ints |-> {}, bytes |-> {}] \in LocalState
  BY DEF LocalState
<1>2. CASE oc = "OptIn"
  <2> DEFINE e == [ints |-> {}, bytes |-> {}]
  <2>1. local' = [y \in DOMAIN local \cup {<<s, id>>} |-> IF y = <<s, id>> THEN e ELSE local[y]]
    BY <1>2 DEF OptedIn, Put
  <2>2. \A y \in DOMAIN local : local[y] \in LocalState
    BY DEF TypeOK
  <2>3. e \in LocalState /\ <<s, id>> \in Addresses \X AppIds
    BY <1>1
  <2> HIDE DEF e
  <2> QED BY <2>1, <2>2, <2>3 DEF TypeOK
<1>3. CASE oc # "OptIn"
  BY <1>3 DEF OptedIn, TypeOK
<1> QED BY <1>2, <1>3

LEMMA OptInPriceType == \A id \in AppIds, oc \in OnCompletions : OptInPrice(id, oc) \in Int
BY PriceType DEF OptInPrice

\* Every step keeps the types.
LEMMA TypeNext == TypeOK /\ [Next]_vars => TypeOK'
<1> SUFFICES ASSUME TypeOK, [Next]_vars PROVE TypeOK'
  OBVIOUS
<1>1. CASE CreateApplication
  <2> PICK s \in DOMAIN accounts, oc \in OnCompletions :
        /\ nextAppID \in AppIds /\ OptedIn(s, nextAppID, oc)
        /\ accounts' = Put(Charged(accounts, s, AppPrice(nextAppID) + OptInPrice(nextAppID, oc)),
                           AppAddress[nextAppID], NewAccount(0))
        /\ apps' = Put(apps, nextAppID, [creator |-> s, ints |-> {}, bytes |-> {}])
        /\ Enter(s, nextAppID, oc)
    BY <1>1 DEF CreateApplication
  <2>1. s \in Addresses /\ AppAddress[nextAppID] \in Addresses
    BY AccountAssumption DEF TypeOK
  <2>2. NewAccount(0) \in Account
    BY NumberAssumption DEF NewAccount, Account
  <2>3. AppPrice(nextAppID) + OptInPrice(nextAppID, oc) \in Int
    BY PriceType, OptInPriceType
  <2>4. DOMAIN accounts' \subseteq Addresses /\ accounts' \in [DOMAIN accounts' -> Account]
    <3> DEFINE f == Charged(accounts, s, AppPrice(nextAppID) + OptInPrice(nextAppID, oc))
    <3>1. DOMAIN f = DOMAIN accounts /\ f \in [DOMAIN f -> Account]
      BY <2>3, ChargedType DEF TypeOK
    <3> HIDE DEF f
    <3>2. accounts' = Put(f, AppAddress[nextAppID], NewAccount(0))
      BY DEF f
    <3>3. \A y \in DOMAIN f : f[y] \in Account
      BY <3>1
    <3>4. DOMAIN accounts' = DOMAIN f \cup {AppAddress[nextAppID]}
      BY <3>2 DEF Put
    <3>5. \A y \in DOMAIN accounts' : accounts'[y] \in Account
      BY <2>2, <3>2, <3>3 DEF Put
    <3>6. accounts' = [y \in DOMAIN accounts' |-> accounts'[y]]
      BY <3>2 DEF Put
    <3> QED BY <2>1, <3>1, <3>4, <3>5, <3>6 DEF TypeOK
  <2>5. DOMAIN apps' \subseteq AppIds /\ apps' \in [DOMAIN apps' -> AppState]
    <3>1. [creator |-> s, ints |-> {}, bytes |-> {}] \in AppState
      BY <2>1 DEF AppState
    <3> QED BY <3>1 DEF Put, TypeOK
  <2>6. calls' \in Seq(Call) /\ boxes' = boxes /\ refs' = refs
    BY <2>1, EnterType DEF Enter
  <2> QED BY <2>1, <2>4, <2>5, <2>6, OptedInType DEF TypeOK
<1>2. CASE CallApplication
  <2> PICK s \in DOMAIN accounts, id \in DOMAIN apps, oc \in OnCompletions :
        /\ OptedIn(s, id, oc) /\ accounts' = Charged(accounts, s, OptInPrice(id, oc))
        /\ Enter(s, id, oc) /\ UNCHANGED <<apps, nextAppID>>
    BY <1>2 DEF CallApplication
  <2>1. s \in Addresses /\ id \in AppIds
    BY DEF TypeOK
  <2>2. DOMAIN accounts' = DOMAIN accounts /\ accounts' \in [DOMAIN accounts -> Account]
    BY <2>1, OptInPriceType, ChargedType DEF TypeOK
  <2>3. calls' \in Seq(Call) /\ boxes' = boxes /\ refs' = refs
    BY <2>1, EnterType DEF Enter
  <2>4. DOMAIN local' \subseteq Addresses \X AppIds /\ local' \in [DOMAIN local' -> LocalState]
    BY <2>1, OptedInType
  <2> QED BY <2>1, <2>2, <2>3, <2>4 DEF TypeOK
<1>3. CASE Pay
  <2> PICK s \in DOMAIN accounts, r \in DOMAIN accounts, n \in Amounts :
        /\ s # r /\ accounts[s].balance >= n
        /\ accounts' = [accounts EXCEPT ![s].balance = @ - n, ![r].balance = @ + n]
        /\ UNCHANGED <<apps, local, boxes, nextAppID, calls, refs, verdict>>
    BY <1>3 DEF Pay
  <2>1. n \in Nat /\ accounts[s] \in Account /\ accounts[r] \in Account
    BY NumberAssumption DEF TypeOK
  <2> DEFINE e == [accounts[s] EXCEPT !.balance = @ - n]
             d == [accounts[r] EXCEPT !.balance = @ + n]
  <2>2. e \in Account /\ d \in Account
    BY <2>1 DEF Account
  <2>3. accounts' = [accounts EXCEPT ![s] = e, ![r] = d]
    BY DEF TypeOK
  <2> HIDE DEF e, d
  <2>4. DOMAIN accounts' = DOMAIN accounts /\ accounts' \in [DOMAIN accounts -> Account]
    BY <2>2, <2>3 DEF TypeOK
  <2> QED BY <2>4 DEF TypeOK
<1>4. CASE OpPanic \/ BoxAccess \/ CheckSufficientBalance
  BY <1>4 DEF OpPanic, BoxAccess, CheckSufficientBalance, Panic, storage, TypeOK
<1>5. CASE AppGlobalPut \/ AppGlobalDel
  BY SMTT(30), <1>5, StateType DEF AppGlobalPut, AppGlobalDel, Opcode, Panic, storage, TypeOK
<1>6. CASE AppLocalPut \/ AppLocalDel
  <2>1. ASSUME NEW at \in DOMAIN local, NEW e \in LocalState, local' = [local EXCEPT ![at] = e],
               Opcode, UNCHANGED <<accounts, apps, boxes>>
        PROVE  TypeOK'
    BY <2>1 DEF Opcode, TypeOK
  <2>2. CASE Panic
    BY <2>2 DEF Panic, storage, TypeOK
  <2>3. \A at \in DOMAIN local : local[at] \in LocalState
    BY DEF TypeOK
  <2>4. CASE AppLocalPut
    BY <2>1, <2>2, <2>3, <2>4, StateType DEF AppLocalPut
  <2>5. CASE AppLocalDel
    BY <2>1, <2>2, <2>3, <2>5, StateType DEF AppLocalDel
  <2> QED BY <1>6, <2>4, <2>5
<1>7. ASSUME NEW name \in Names, NEW size \in Sizes, CreateBox(name, size) PROVE TypeOK'
  <2>1. Running /\ size \in Nat
    BY <1>7, NumberAssumption DEF CreateBox, Opcode
  <2>2. BoxAt(name) \in Addresses \X Names
    BY <1>7, <2>1, CurrentType DEF CreateBox, BoxAt
  <2>3. DOMAIN boxes' \subseteq Addresses \X Names /\ boxes' \in [DOMAIN boxes' -> Nat]
    BY <1>7, <2>1, <2>2 DEF CreateBox, Put, TypeOK
  <2>4. DOMAIN accounts' = DOMAIN accounts /\ accounts' \in [DOMAIN accounts -> Account]
    BY <1>7, <2>1, PriceType, ChargedType DEF CreateBox, TypeOK
  <2> QED BY <1>7, <2>3, <2>4 DEF CreateBox, Opcode, TypeOK
<1>8. CASE BoxCreate \/ BoxPut
  BY <1>7, <1>8 DEF BoxCreate, BoxPut, Panic, storage, TypeOK
<1>9. CASE BoxDel
  <2> SUFFICES ASSUME NEW name \in Names, Opcode, BoxAt(name) \in DOMAIN boxes,
                      boxes' = Drop(boxes, BoxAt(name)),
                      accounts' = Charged(accounts, BoxAt(name)[1], -BoxPrice(name, boxes[BoxAt(name)])),
                      UNCHANGED <<apps, local>>
               PROVE  TypeOK'
    BY <1>9 DEF BoxDel, Panic, storage, TypeOK
  <2>1. -BoxPrice(name, boxes[BoxAt(name)]) \in Int
    BY PriceType DEF TypeOK
  <2>2. DOMAIN accounts' = DOMAIN accounts /\ accounts' \in [DOMAIN accounts -> Account]
    BY <2>1, ChargedType DEF TypeOK
  <2>3. DOMAIN boxes' \subseteq Addresses \X Names /\ boxes' \in [DOMAIN boxes' -> Nat]
    BY DEF Drop, Restrict, TypeOK
  <2> QED BY <2>2, <2>3 DEF Opcode, TypeOK
<1>10. CASE EndProgram
  BY <1>10, CurrentType DEF EndProgram, Return, TypeOK
<1>11. CASE ClearState
  <2>1. Running /\ Current.app \in AppIds
    BY <1>11, CurrentType DEF ClearState, Return, Call
  <2>2. -LocalPrice(Current.app) \in Int
    BY <2>1, PriceType
  <2>3. DOMAIN accounts' = DOMAIN accounts /\ accounts' \in [DOMAIN accounts -> Account]
    BY <1>11, <2>2, ChargedType DEF ClearState, TypeOK
  <2>4. DOMAIN local' \subseteq Addresses \X AppIds /\ local' \in [DOMAIN local' -> LocalState]
    BY <1>11 DEF ClearState, Drop, Restrict, TypeOK
  <2> QED BY <1>11, <2>1, <2>3, <2>4, CurrentType DEF ClearState, Return, TypeOK
<1>12. CASE DeleteApplication
  <2>1. Running /\ Current.app \in AppIds
    BY <1>12, CurrentType DEF DeleteApplication, Return, Call
  <2>2. -AppPrice(Current.app) \in Int
    BY <2>1, PriceType
  <2>3. DOMAIN accounts' = DOMAIN accounts /\ accounts' \in [DOMAIN accounts -> Account]
    BY <1>12, <2>2, ChargedType DEF DeleteApplication, TypeOK
  <2>4. DOMAIN apps' \subseteq AppIds /\ apps' \in [DOMAIN apps' -> AppState]
    BY <1>12 DEF DeleteApplication, Drop, Restrict, TypeOK
  <2> QED BY <1>12, <2>1, <2>3, <2>4, CurrentType DEF DeleteApplication, Return, TypeOK
<1>13. CASE UNCHANGED vars
  BY <1>13 DEF vars, storage, TypeOK
<1> QED BY <1>1, <1>2, <1>3, <1>4, <1>5, <1>6, <1>8, <1>9, <1>10, <1>11, <1>12, <1>13 DEF Next

\* Balances are never negative, and what is stored belongs to accounts and
\* applications.
THEOREM TypeCorrect == Spec => []TypeOK
BY TypeInit, TypeNext, PTL DEF Spec
-----------------------------------------------------------------------------
(* States within their schemas.                                            *)

\* The empty state is within every schema.
LEMMA EmptyWithin ==
  ASSUME NEW e, e.ints = {}, e.bytes = {}, NEW i \in Nat, NEW b \in Nat
  PROVE  Within(e, i, b)
BY FS_EmptySet DEF Within

\* Taking keys out keeps a finite set within its bound.
LEMMA FewerKeys ==
  ASSUME NEW S, S \subseteq Keys, NEW T, T \subseteq S, NEW n \in Nat, Cardinality(S) <= n
  PROVE  Cardinality(T) <= n
<1>1. IsFiniteSet(S) /\ IsFiniteSet(T)
  BY SchemaAssumption, FS_Subset
<1>2. Cardinality(T) <= Cardinality(S) /\ Cardinality(T) \in Nat /\ Cardinality(S) \in Nat
  BY <1>1, FS_Subset, FS_CardinalityType
<1> QED BY <1>2

\* A key that is put, and fits, keeps a state within its schema: it leaves the
\* other map.
LEMMA PutWithin ==
  ASSUME NEW e, e \in AppState \/ e \in LocalState, NEW key \in Keys, NEW t \in {"int", "bytes"},
         NEW i \in Nat, NEW b \in Nat, Within(e, i, b), Fits(PutKey(e, key, t), t, i, b)
  PROVE  Within(PutKey(e, key, t), i, b)
<1>1. e.ints \subseteq Keys /\ e.bytes \subseteq Keys
  BY DEF AppState, LocalState
<1>2. Cardinality(e.ints \ {key}) <= i /\ Cardinality(e.bytes \ {key}) <= b
  BY <1>1, FewerKeys DEF Within
<1>3. CASE t = "int"
  <2>1. /\ PutKey(e, key, t).ints = e.ints \cup {key}
        /\ PutKey(e, key, t).bytes = e.bytes \ {key}
    BY <1>3 DEF PutKey, AppState, LocalState
  <2> QED BY <1>2, <1>3, <2>1 DEF Within, Fits
<1>4. CASE t = "bytes"
  <2>1. /\ PutKey(e, key, t).ints = e.ints \ {key}
        /\ PutKey(e, key, t).bytes = e.bytes \cup {key}
    BY <1>4 DEF PutKey, AppState, LocalState
  <2> QED BY <1>2, <1>4, <2>1 DEF Within, Fits
<1> QED BY <1>3, <1>4

\* So does deleting a key.
LEMMA DelWithin ==
  ASSUME NEW e, e \in AppState \/ e \in LocalState, NEW key \in Keys,
         NEW i \in Nat, NEW b \in Nat, Within(e, i, b)
  PROVE  Within(DelKey(e, key), i, b)
<1>1. e.ints \subseteq Keys /\ e.bytes \subseteq Keys
  BY DEF AppState, LocalState
<1>2. DelKey(e, key).ints = e.ints \ {key} /\ DelKey(e, key).bytes = e.bytes \ {key}
  BY DEF DelKey, AppState, LocalState
<1>3. Cardinality(e.ints \ {key}) <= i /\ Cardinality(e.bytes \ {key}) <= b
  BY <1>1, FewerKeys DEF Within
<1> QED BY <1>2, <1>3 DEF Within

LEMMA SchemaType ==
  \A id \in AppIds : /\ Schemas[id].globalInts \in Nat /\ Schemas[id].globalBytes \in Nat
                     /\ Schemas[id].localInts \in Nat /\ Schemas[id].localBytes \in Nat
BY SchemaAssumption DEF Schema

\* An opt-in keeps local states within their schemas.
LEMMA OptedInWithin ==
  ASSUME TypeOK, NEW s, NEW id \in AppIds, NEW oc, OptedIn(s, id, oc),
         \A at \in DOMAIN local : LocalWithin(at, local[at])
  PROVE  \A at \in DOMAIN local' : LocalWithin(at, local'[at])
<1>1. LocalWithin(<<s, id>>, [ints |-> {}, bytes |-> {}])
  BY SchemaType, EmptyWithin DEF LocalWithin
<1> QED BY <1>1 DEF OptedIn, Put

\* Every step keeps states within their schemas.
LEMMA WithinNext == TypeOK /\ WithinSchema /\ [Next]_vars => WithinSchema'
<1> DEFINE G == \A id \in DOMAIN apps : GlobalWithin(id, apps[id])
           L == \A at \in DOMAIN local : LocalWithin(at, local[at])
<1> SUFFICES ASSUME TypeOK, G, L, [Next]_vars PROVE G' /\ L'
  BY DEF WithinSchema
<1>1. CASE CreateApplication
  <2> PICK s \in DOMAIN accounts, oc \in OnCompletions :
        /\ nextAppID \in AppIds /\ OptedIn(s, nextAppID, oc)
        /\ apps' = Put(apps, nextAppID, [creator |-> s, ints |-> {}, bytes |-> {}])
    BY <1>1 DEF CreateApplication
  <2>1. GlobalWithin(nextAppID, [creator |-> s, ints |-> {}, bytes |-> {}])
    BY SchemaType, EmptyWithin DEF GlobalWithin
  <2>2. G'
    BY <2>1 DEF Put
  <2> QED BY <2>2, OptedInWithin
<1>2. CASE CallApplication
  <2>1. L'
    BY <1>2, OptedInWithin DEF CallApplication, TypeOK
  <2> QED BY <1>2, <2>1 DEF CallApplication
<1>3. CASE AppGlobalPut
  <2> SUFFICES ASSUME NEW key \in Keys, NEW t \in {"int", "bytes"}, Running,
                      Fits(PutKey(apps[Current.app], key, t), t,
                           Schemas[Current.app].globalInts, Schemas[Current.app].globalBytes),
                      apps' = [apps EXCEPT ![Current.app] = PutKey(apps[Current.app], key, t)],
                      local' = local
               PROVE  G' /\ L'
    BY <1>3 DEF AppGlobalPut, Opcode, Panic, storage
  <2>1. Current.app \in AppIds
    BY CurrentType DEF Call
  <2>2. Current.app \in DOMAIN apps =>
          GlobalWithin(Current.app, PutKey(apps[Current.app], key, t))
    BY <2>1, SchemaType, PutWithin DEF GlobalWithin, TypeOK
  <2> QED BY <2>2
<1>4. CASE AppGlobalDel
  <2> PICK key \in Keys : /\ Running /\ local' = local
                          /\ apps' = [apps EXCEPT ![Current.app] = DelKey(@, key)]
    BY <1>4 DEF AppGlobalDel, Opcode
  <2>1. Current.app \in AppIds
    BY CurrentType DEF Call
  <2>2. Current.app \in DOMAIN apps => GlobalWithin(Current.app, DelKey(apps[Current.app], key))
    BY <2>1, SchemaType, DelWithin DEF GlobalWithin, TypeOK
  <2> QED BY <2>2
<1>5. CASE AppLocalPut
  <2> SUFFICES ASSUME NEW a, NEW key \in Keys, NEW t \in {"int", "bytes"}, Running,
                      <<a, Current.app>> \in DOMAIN local,
                      Fits(PutKey(local[<<a, Current.app>>], key, t), t,
                           Schemas[Current.app].localInts, Schemas[Current.app].localBytes),
                      local' = [local EXCEPT ![<<a, Current.app>>] =
                                  PutKey(local[<<a, Current.app>>], key, t)],
                      apps' = apps
               PROVE  G' /\ L'
    BY <1>5 DEF AppLocalPut, Opcode, Panic, storage
  <2>1. Current.app \in AppIds /\ local[<<a, Current.app>>] \in LocalState
    BY CurrentType DEF Call, TypeOK
  <2>2. LocalWithin(<<a, Current.app>>, PutKey(local[<<a, Current.app>>], key, t))
    BY <2>1, SchemaType, PutWithin DEF LocalWithin
  <2> QED BY <2>2
<1>6. CASE AppLocalDel
  <2> SUFFICES ASSUME NEW a, NEW key \in Keys, Running, <<a, Current.app>> \in DOMAIN local,
                      local' = [local EXCEPT ![<<a, Current.app>>] =
                                  DelKey(local[<<a, Current.app>>], key)],
                      apps' = apps
               PROVE  G' /\ L'
    BY <1>6 DEF AppLocalDel, Opcode, Panic, storage
  <2>1. Current.app \in AppIds /\ local[<<a, Current.app>>] \in LocalState
    BY CurrentType DEF Call, TypeOK
  <2>2. LocalWithin(<<a, Current.app>>, DelKey(local[<<a, Current.app>>], key))
    BY <2>1, SchemaType, DelWithin DEF LocalWithin
  <2> QED BY <2>2
<1>7. CASE ClearState \/ DeleteApplication
  BY <1>7 DEF ClearState, DeleteApplication, Drop, Restrict
<1>8. CASE UNCHANGED <<apps, local>>
  BY <1>8
<1>9. CASE Pay \/ OpPanic \/ BoxCreate \/ BoxPut \/ BoxAccess \/ BoxDel \/ EndProgram
           \/ CheckSufficientBalance \/ UNCHANGED vars
  <2> UNCHANGED <<apps, local>>
    BY <1>9 DEF Pay, OpPanic, BoxCreate, CreateBox, BoxPut, BoxAccess, BoxDel, EndProgram,
                CheckSufficientBalance, Panic, storage, vars
  <2> QED BY <1>8
<1> QED BY <1>1, <1>2, <1>3, <1>4, <1>5, <1>6, <1>7, <1>9 DEF Next

\* No state of an application outgrows the schema it was created with, for every
\* schema, every set of keys and every sequence of calls (app_global_put,
\* app_local_put: each looks at the keys of one type only).
THEOREM StateWithinSchema == Spec => []WithinSchema
<1>1. Init => WithinSchema
  BY SetupAssumption DEF Init, WithinSchema
<1> QED BY <1>1, TypeInit, TypeNext, WithinNext, PTL DEF Spec

-----------------------------------------------------------------------------
(* Boxes.                                                                  *)

\* A box keeps its size until it is deleted, whoever puts into it (box_create and
\* box_put create a box only where none is, and take another size for an error).
THEOREM BoxesKeepSize == Spec => BoxSizesStay
<1> DEFINE Same == \A at \in DOMAIN boxes \cap DOMAIN boxes' : boxes'[at] = boxes[at]
<1>1. ASSUME [Next]_vars PROVE [Same]_vars
  <2>1. CASE boxes' = boxes
    BY <2>1
  <2>2. ASSUME NEW name, NEW size, CreateBox(name, size) PROVE Same
    BY <2>2 DEF CreateBox, Put
  <2>3. CASE BoxCreate \/ BoxPut
    BY <2>1, <2>2, <2>3 DEF BoxCreate, BoxPut, Panic, storage
  <2>4. CASE BoxDel
    BY <2>4 DEF BoxDel, Drop, Restrict, Panic, storage
  <2>5. CASE CreateApplication \/ CallApplication \/ Pay
    BY <2>1, <2>5 DEF CreateApplication, CallApplication, Pay, Enter
  <2>6. CASE OpPanic \/ AppGlobalPut \/ AppGlobalDel \/ AppLocalPut \/ AppLocalDel \/ BoxAccess
    BY <2>1, <2>6 DEF OpPanic, AppGlobalPut, AppGlobalDel, AppLocalPut, AppLocalDel, BoxAccess,
                      Panic, storage
  <2>7. CASE EndProgram \/ ClearState \/ DeleteApplication \/ CheckSufficientBalance
    BY <2>1, <2>7 DEF EndProgram, ClearState, DeleteApplication, Return, CheckSufficientBalance,
                      storage
  <2> QED BY <1>1, <2>3, <2>4, <2>5, <2>6, <2>7 DEF Next
<1> QED BY <1>1, PTL DEF Spec, BoxSizesStay

-----------------------------------------------------------------------------
(* The minimum balance is the price of what is there.                      *)

\* What is there is finite and belongs to accounts; the applications that run
\* exist, and none runs twice.
Members ==
  /\ IsFiniteSet(DOMAIN apps) /\ IsFiniteSet(DOMAIN local) /\ IsFiniteSet(DOMAIN boxes)
  /\ nextAppID \in Nat
  /\ \A id \in DOMAIN apps : /\ id < nextAppID /\ apps[id].creator \in DOMAIN accounts
                             /\ AppAddress[id] \in DOMAIN accounts
  /\ DOMAIN SetupBalance \subseteq DOMAIN accounts
  /\ \A at \in DOMAIN local : at[1] \in DOMAIN accounts
  /\ \A at \in DOMAIN boxes : at[1] \in DOMAIN accounts
RunningKnown ==
  \A i \in DOMAIN calls : /\ calls[i].app \in DOMAIN apps /\ calls[i].sender \in DOMAIN accounts
                          /\ \A j \in DOMAIN calls : j # i => calls[j].app # calls[i].app
Known == Members /\ RunningKnown

\* n for the one who pays, nothing for others
Share(a, s, n) == IF a = s THEN n ELSE 0

LEMMA CostType ==
  ASSUME TypeOK, Members, NEW a
  PROVE  AppCost(a) \in Int /\ LocalCost(a) \in Int /\ BoxCost(a) \in Int
<1> DEFINE f == [id \in DOMAIN apps |-> IF apps[id].creator = a THEN AppPrice(id) ELSE 0]
           g == [at \in DOMAIN local |-> IF at[1] = a THEN LocalPrice(at[2]) ELSE 0]
           h == [at \in DOMAIN boxes |-> IF at[1] = a THEN BoxPrice(at[2], boxes[at]) ELSE 0]
<1>1. \A id \in DOMAIN f : f[id] \in Int
  BY PriceType DEF TypeOK
<1>2. \A at \in DOMAIN g : g[at] \in Int
  BY PriceType DEF TypeOK
<1>3. \A at \in DOMAIN h : h[at] \in Int
  BY PriceType DEF TypeOK
<1>4. DOMAIN f = DOMAIN apps /\ DOMAIN g = DOMAIN local /\ DOMAIN h = DOMAIN boxes
  OBVIOUS
<1>5. AppCost(a) = SumFunction(f) /\ LocalCost(a) = SumFunction(g) /\ BoxCost(a) = SumFunction(h)
  BY DEF AppCost, LocalCost, BoxCost
<1> HIDE DEF f, g, h
<1> QED BY <1>1, <1>2, <1>3, <1>4, <1>5, SumType DEF SumFunction, Members

\* Nothing is created or deleted.
LEMMA SameCosts ==
  ASSUME NEW a
  PROVE  /\ DOMAIN apps' = DOMAIN apps /\ (\A id \in DOMAIN apps : apps'[id].creator = apps[id].creator)
              => AppCost(a)' = AppCost(a)
         /\ DOMAIN local' = DOMAIN local => LocalCost(a)' = LocalCost(a)
         /\ boxes' = boxes => BoxCost(a)' = BoxCost(a)
<1> DEFINE f(m) == [id \in DOMAIN m |-> IF m[id].creator = a THEN AppPrice(id) ELSE 0]
           g(m) == [at \in DOMAIN m |-> IF at[1] = a THEN LocalPrice(at[2]) ELSE 0]
<1>1. AppCost(a) = SumFunction(f(apps)) /\ AppCost(a)' = SumFunction(f(apps'))
  BY DEF AppCost, AppPrice, Entries
<1>2. LocalCost(a) = SumFunction(g(local)) /\ LocalCost(a)' = SumFunction(g(local'))
  BY DEF LocalCost, LocalPrice, Entries
<1>3. DOMAIN apps' = DOMAIN apps /\ (\A id \in DOMAIN apps : apps'[id].creator = apps[id].creator)
        => f(apps') = f(apps)
  OBVIOUS
<1>4. DOMAIN local' = DOMAIN local => g(local') = g(local)
  OBVIOUS
<1>5. boxes' = boxes => BoxCost(a)' = BoxCost(a)
  BY DEF BoxCost, BoxPrice
<1> QED BY <1>1, <1>2, <1>3, <1>4, <1>5

\* An application is created, or deleted.
LEMMA AppCostNew ==
  ASSUME TypeOK, Members, NEW id \in AppIds, id \notin DOMAIN apps, NEW e,
         apps' = Put(apps, id, e), NEW a
  PROVE  AppCost(a)' = AppCost(a) + Share(a, e.creator, AppPrice(id))
<1> DEFINE f == [x \in DOMAIN apps |-> IF apps[x].creator = a THEN AppPrice(x) ELSE 0]
           g == [x \in DOMAIN apps' |-> IF apps'[x].creator = a THEN AppPrice(x) ELSE 0]
<1>1. AppCost(a) = SumFunction(f) /\ AppCost(a)' = SumFunction(g)
  BY DEF AppCost, AppPrice, Entries
<1>2. DOMAIN apps' = DOMAIN apps \cup {id} /\ apps'[id] = e /\ \A x \in DOMAIN apps : apps'[x] = apps[x]
  BY DEF Put
<1>3. /\ DOMAIN f = DOMAIN apps /\ DOMAIN g = DOMAIN f \cup {id}
      /\ g[id] = Share(a, e.creator, AppPrice(id)) /\ g[id] \in Int
      /\ \A y \in DOMAIN f : f[y] \in Int /\ g[y] = f[y]
  BY <1>2, PriceType DEF Share, TypeOK
<1> HIDE DEF f, g
<1> QED BY <1>1, <1>3, SumGrows DEF Members

LEMMA AppCostGone ==
  ASSUME TypeOK, Members, NEW id \in DOMAIN apps, apps' = Drop(apps, id), NEW a
  PROVE  AppCost(a)' = AppCost(a) - Share(a, apps[id].creator, AppPrice(id))
<1> DEFINE f == [x \in DOMAIN apps |-> IF apps[x].creator = a THEN AppPrice(x) ELSE 0]
           g == [x \in DOMAIN apps' |-> IF apps'[x].creator = a THEN AppPrice(x) ELSE 0]
<1>1. AppCost(a) = SumFunction(f) /\ AppCost(a)' = SumFunction(g)
  BY DEF AppCost, AppPrice, Entries
<1>2. DOMAIN apps' = DOMAIN apps \ {id} /\ \A x \in DOMAIN apps' : apps'[x] = apps[x]
  BY DEF Drop, Restrict
<1>3. /\ DOMAIN f = DOMAIN apps /\ DOMAIN g = DOMAIN f \ {id}
      /\ f[id] = Share(a, apps[id].creator, AppPrice(id))
      /\ (\A y \in DOMAIN f : f[y] \in Int) /\ \A y \in DOMAIN g : g[y] = f[y]
  BY <1>2, PriceType DEF Share, TypeOK
<1> HIDE DEF f, g
<1> QED BY <1>1, <1>3, SumShrinks DEF Members

\* A local state is created, or cleared.
LEMMA LocalCostNew ==
  ASSUME TypeOK, Members, NEW at \in Addresses \X AppIds, at \notin DOMAIN local, NEW e,
         local' = Put(local, at, e), NEW a
  PROVE  LocalCost(a)' = LocalCost(a) + Share(a, at[1], LocalPrice(at[2]))
<1> DEFINE f == [x \in DOMAIN local |-> IF x[1] = a THEN LocalPrice(x[2]) ELSE 0]
           g == [x \in DOMAIN local' |-> IF x[1] = a THEN LocalPrice(x[2]) ELSE 0]
<1>1. LocalCost(a) = SumFunction(f) /\ LocalCost(a)' = SumFunction(g)
  BY DEF LocalCost, LocalPrice, Entries
<1>2. DOMAIN local' = DOMAIN local \cup {at}
  BY DEF Put
<1>3. /\ DOMAIN f = DOMAIN local /\ DOMAIN g = DOMAIN f \cup {at} /\ at \notin DOMAIN f
      /\ g[at] = Share(a, at[1], LocalPrice(at[2])) /\ g[at] \in Int
      /\ \A y \in DOMAIN f : f[y] \in Int /\ g[y] = f[y]
  BY <1>2, PriceType DEF Share, TypeOK
<1> HIDE DEF f, g
<1> QED BY <1>1, <1>3, SumGrows DEF Members

LEMMA LocalCostGone ==
  ASSUME TypeOK, Members, NEW at \in DOMAIN local, local' = Drop(local, at), NEW a
  PROVE  LocalCost(a)' = LocalCost(a) - Share(a, at[1], LocalPrice(at[2]))
<1> DEFINE f == [x \in DOMAIN local |-> IF x[1] = a THEN LocalPrice(x[2]) ELSE 0]
           g == [x \in DOMAIN local' |-> IF x[1] = a THEN LocalPrice(x[2]) ELSE 0]
<1>1. LocalCost(a) = SumFunction(f) /\ LocalCost(a)' = SumFunction(g)
  BY DEF LocalCost, LocalPrice, Entries
<1>2. DOMAIN local' = DOMAIN local \ {at}
  BY DEF Drop, Restrict
<1>3. /\ DOMAIN f = DOMAIN local /\ DOMAIN g = DOMAIN f \ {at}
      /\ f[at] = Share(a, at[1], LocalPrice(at[2]))
      /\ (\A y \in DOMAIN f : f[y] \in Int) /\ \A y \in DOMAIN g : g[y] = f[y]
  BY <1>2, PriceType DEF Share, TypeOK
<1> HIDE DEF f, g
<1> QED BY <1>1, <1>3, SumShrinks DEF Members

\* A box is created, or deleted.
LEMMA BoxCostNew ==
  ASSUME TypeOK, Members, NEW at \in Addresses \X Names, at \notin DOMAIN boxes, NEW n \in Nat,
         boxes' = Put(boxes, at, n), NEW a
  PROVE  BoxCost(a)' = BoxCost(a) + Share(a, at[1], BoxPrice(at[2], n))
<1> DEFINE f == [x \in DOMAIN boxes |-> IF x[1] = a THEN BoxPrice(x[2], boxes[x]) ELSE 0]
           g == [x \in DOMAIN boxes' |-> IF x[1] = a THEN BoxPrice(x[2], boxes'[x]) ELSE 0]
<1>1. BoxCost(a) = SumFunction(f) /\ BoxCost(a)' = SumFunction(g)
  BY DEF BoxCost, BoxPrice
<1>2. DOMAIN boxes' = DOMAIN boxes \cup {at} /\ boxes'[at] = n /\ \A x \in DOMAIN boxes : boxes'[x] = boxes[x]
  BY DEF Put
<1>3. /\ DOMAIN f = DOMAIN boxes /\ DOMAIN g = DOMAIN f \cup {at}
      /\ g[at] = Share(a, at[1], BoxPrice(at[2], n)) /\ g[at] \in Int
      /\ \A y \in DOMAIN f : f[y] \in Int /\ g[y] = f[y]
  BY <1>2, PriceType DEF Share, TypeOK
<1> HIDE DEF f, g
<1> QED BY <1>1, <1>3, SumGrows DEF Members

LEMMA BoxCostGone ==
  ASSUME TypeOK, Members, NEW at \in DOMAIN boxes, boxes' = Drop(boxes, at), NEW a
  PROVE  BoxCost(a)' = BoxCost(a) - Share(a, at[1], BoxPrice(at[2], boxes[at]))
<1> DEFINE f == [x \in DOMAIN boxes |-> IF x[1] = a THEN BoxPrice(x[2], boxes[x]) ELSE 0]
           g == [x \in DOMAIN boxes' |-> IF x[1] = a THEN BoxPrice(x[2], boxes'[x]) ELSE 0]
<1>1. BoxCost(a) = SumFunction(f) /\ BoxCost(a)' = SumFunction(g)
  BY DEF BoxCost, BoxPrice
<1>2. DOMAIN boxes' = DOMAIN boxes \ {at} /\ \A x \in DOMAIN boxes' : boxes'[x] = boxes[x]
  BY DEF Drop, Restrict
<1>3. /\ DOMAIN f = DOMAIN boxes /\ DOMAIN g = DOMAIN f \ {at}
      /\ f[at] = Share(a, at[1], BoxPrice(at[2], boxes[at]))
      /\ (\A y \in DOMAIN f : f[y] \in Int) /\ \A y \in DOMAIN g : g[y] = f[y]
  BY <1>2, PriceType DEF Share, TypeOK
<1> HIDE DEF f, g
<1> QED BY <1>1, <1>3, SumShrinks DEF Members

\* The running calls, as one is entered or left.
LEMMA EnterKnown ==
  ASSUME TypeOK, RunningKnown, NEW s \in Addresses, NEW id \in AppIds, NEW oc \in OnCompletions,
         Enter(s, id, oc), \A i \in DOMAIN calls : calls[i].app # id,
         id \in DOMAIN apps', DOMAIN apps \subseteq DOMAIN apps',
         s \in DOMAIN accounts', DOMAIN accounts \subseteq DOMAIN accounts'
  PROVE  RunningKnown'
<1> DEFINE c == [app |-> id, oc |-> oc, sender |-> s]
<1>1. calls' = <<c>> \o calls /\ calls \in Seq(Call) /\ c.app = id /\ c.sender = s
  BY DEF Enter, TypeOK
<1> HIDE DEF c
<1>2. /\ Len(calls') = Len(calls) + 1 /\ Len(calls) \in Nat
      /\ \A i \in 1..Len(calls') : calls'[i] = IF i = 1 THEN c ELSE calls[i - 1]
  BY <1>1
<1>3. /\ DOMAIN calls' = 1..Len(calls') /\ DOMAIN calls = 1..Len(calls)
      /\ \A i \in DOMAIN calls' : i = 1 \/ i - 1 \in DOMAIN calls
  BY <1>1, <1>2
<1>4. \A i \in DOMAIN calls' : calls'[i].app \in DOMAIN apps' /\ calls'[i].sender \in DOMAIN accounts'
  BY <1>1, <1>2, <1>3 DEF RunningKnown
<1>5. ASSUME NEW i \in DOMAIN calls', NEW j \in DOMAIN calls', j # i
      PROVE  calls'[j].app # calls'[i].app
  <2>1. i \in Int /\ j \in Int
    BY <1>3
  <2>2. i = 1 \/ j = 1 \/ i - 1 # j - 1
    BY <1>5, <2>1
  <2> QED BY <1>1, <1>2, <1>3, <1>5, <2>2 DEF RunningKnown
<1> QED BY <1>4, <1>5 DEF RunningKnown

LEMMA ReturnKnown ==
  ASSUME TypeOK, RunningKnown, Running, calls' = Tail(calls),
         DOMAIN apps \ {Current.app} \subseteq DOMAIN apps', DOMAIN accounts \subseteq DOMAIN accounts'
  PROVE  RunningKnown'
<1>1. calls \in Seq(Call) /\ calls # <<>>
  BY DEF TypeOK, Running
<1>2. /\ DOMAIN calls = 1..Len(calls) /\ DOMAIN calls' = 1..(Len(calls) - 1) /\ Len(calls) \in Nat
      /\ \A i \in DOMAIN calls' : i + 1 \in DOMAIN calls /\ calls'[i] = calls[i + 1]
      /\ 1 \in DOMAIN calls /\ Current = calls[1]
  BY <1>1 DEF Current
<1>3. \A i \in DOMAIN calls' : calls'[i].app # Current.app
  BY <1>2 DEF RunningKnown
<1>4. \A i, j \in DOMAIN calls' : j # i => j + 1 # i + 1
  BY <1>2
<1> QED BY <1>2, <1>3, <1>4 DEF RunningKnown

\* What runs is known: its application and its account exist.
LEMMA CurrentKnown ==
  ASSUME TypeOK, Known, Running
  PROVE  Current.app \in DOMAIN apps /\ Current.sender \in DOMAIN accounts /\ Self \in DOMAIN accounts
<1>1. 1 \in DOMAIN calls /\ Current = calls[1]
  BY DEF TypeOK, Running, Current
<1> QED BY <1>1 DEF Known, RunningKnown, Members, Self

LEMMA OptedInMembers ==
  ASSUME TypeOK, Members, NEW s \in DOMAIN accounts, NEW id, NEW oc, OptedIn(s, id, oc)
  PROVE  IsFiniteSet(DOMAIN local') /\ \A at \in DOMAIN local' : at[1] \in DOMAIN accounts
<1>1. CASE oc = "OptIn"
  <2>1. DOMAIN local' = DOMAIN local \cup {<<s, id>>}
    BY <1>1 DEF OptedIn, Put
  <2>2. IsFiniteSet(DOMAIN local')
    BY <2>1, FS_AddElement DEF Members
  <2>3. <<s, id>>[1] = s
    OBVIOUS
  <2> QED BY <2>1, <2>2, <2>3 DEF Members
<1>2. CASE oc # "OptIn"
  BY <1>2 DEF OptedIn, Members
<1> QED BY <1>1, <1>2

LEMMA KnownInit == Init => Known
<1> SUFFICES ASSUME Init PROVE Known
  OBVIOUS
<1>1. /\ DOMAIN accounts = DOMAIN SetupBalance /\ apps = SetupApps /\ local = SetupLocal
      /\ DOMAIN boxes = {} /\ DOMAIN calls = {}
  BY DEF Init
<1>2. nextAppID \in Nat /\ \A id \in DOMAIN apps : id < nextAppID
  <2> DEFINE S == DOMAIN SetupApps \cup {0}
  <2>1. S \in SUBSET Int /\ S # {} /\ IsFiniteSet(S) /\ \A y \in S : y \in Nat
    BY SchemaAssumption, SetupAssumption, FS_AddElement
  <2>2. nextAppID = Max(S) + 1
    BY DEF Init
  <2> HIDE DEF S
  <2>3. PICK m : m = Max(S)
    OBVIOUS
  <2>4. m \in S /\ \A y \in S : m >= y
    BY <2>1, <2>3, MaxIsMember
  <2>5. nextAppID = m + 1
    BY <2>2, <2>3
  <2>6. m + 1 \in Nat /\ \A y \in S : y < m + 1
    BY <2>1, <2>4
  <2> QED BY <1>1, <2>5, <2>6 DEF S
<1>3. /\ \A id \in DOMAIN apps : apps[id].creator \in DOMAIN accounts /\ AppAddress[id] \in DOMAIN accounts
      /\ \A at \in DOMAIN local : at[1] \in DOMAIN accounts
  BY <1>1, SetupAssumption
<1> QED BY <1>1, <1>2, <1>3, SetupAssumption, FS_EmptySet DEF Known, Members, RunningKnown

LEMMA KnownNext == TypeOK /\ Known /\ [Next]_vars => Known'
<1> SUFFICES ASSUME TypeOK, Known, [Next]_vars PROVE Known'
  OBVIOUS
<1>1. CASE CreateApplication
  <2> PICK s \in DOMAIN accounts, oc \in OnCompletions :
        /\ nextAppID \in AppIds /\ OptedIn(s, nextAppID, oc)
        /\ accounts' = Put(Charged(accounts, s, AppPrice(nextAppID) + OptInPrice(nextAppID, oc)),
                           AppAddress[nextAppID], NewAccount(0))
        /\ apps' = Put(apps, nextAppID, [creator |-> s, ints |-> {}, bytes |-> {}])
        /\ nextAppID' = nextAppID + 1 /\ Enter(s, nextAppID, oc)
    BY <1>1 DEF CreateApplication
  <2>1. /\ DOMAIN apps' = DOMAIN apps \cup {nextAppID} /\ apps'[nextAppID].creator = s
        /\ \A id \in DOMAIN apps : id # nextAppID /\ apps'[id] = apps[id]
    BY DEF Put, Known, Members
  <2>2. DOMAIN accounts' = DOMAIN accounts \cup {AppAddress[nextAppID]}
    BY DEF Put, Charged
  <2>3. s \in Addresses /\ boxes' = boxes
    BY DEF TypeOK, Enter
  <2>4. Members'
    <3>1. IsFiniteSet(DOMAIN apps')
      BY <2>1, FS_AddElement DEF Known, Members
    <3>2. IsFiniteSet(DOMAIN local') /\ \A at \in DOMAIN local' : at[1] \in DOMAIN accounts
      BY OptedInMembers DEF Known
    <3>3. nextAppID' \in Nat /\ \A id \in DOMAIN apps' : id < nextAppID'
      <4>1. nextAppID \in Nat /\ nextAppID' = nextAppID + 1
        BY DEF Known, Members
      <4>2. \A id \in DOMAIN apps : id \in Nat /\ id < nextAppID
        BY SchemaAssumption DEF Known, Members, TypeOK
      <4> QED BY <2>1, <4>1, <4>2
    <3> QED BY <2>1, <2>2, <2>3, <3>1, <3>2, <3>3 DEF Known, Members
  <2>5. \A i \in DOMAIN calls : calls[i].app # nextAppID
    BY <2>1 DEF Known, RunningKnown
  <2>6. RunningKnown'
    BY <2>1, <2>2, <2>3, <2>5, EnterKnown DEF Known
  <2> QED BY <2>4, <2>6 DEF Known
<1>2. CASE CallApplication
  <2> PICK s \in DOMAIN accounts, id \in DOMAIN apps, oc \in OnCompletions :
        /\ OptedIn(s, id, oc) /\ accounts' = Charged(accounts, s, OptInPrice(id, oc))
        /\ \A i \in DOMAIN calls : calls[i].app # id
        /\ Enter(s, id, oc) /\ UNCHANGED <<apps, nextAppID>>
    BY <1>2 DEF CallApplication
  <2>1. DOMAIN accounts' = DOMAIN accounts
    BY DEF Charged
  <2>2. Members'
    BY <2>1, OptedInMembers DEF Known, Members, Enter
  <2>3. s \in Addresses /\ id \in AppIds
    BY DEF TypeOK
  <2>4. RunningKnown'
    BY <2>1, <2>3, EnterKnown DEF Known
  <2> QED BY <2>2, <2>4 DEF Known
<1>3. ASSUME DOMAIN accounts' = DOMAIN accounts, UNCHANGED <<calls, nextAppID>>,
             DOMAIN apps' = DOMAIN apps, \A id \in DOMAIN apps : apps'[id].creator = apps[id].creator,
             DOMAIN local' = DOMAIN local, IsFiniteSet(DOMAIN boxes'),
             \A at \in DOMAIN boxes' : at[1] \in DOMAIN accounts
      PROVE  Known'
  BY <1>3 DEF Known, Members, RunningKnown
<1>4. CASE UNCHANGED <<storage, calls>>
  BY <1>4 DEF storage, Known, Members, RunningKnown
<1>5. CASE Pay
  BY <1>3, <1>5 DEF Pay, Known, Members
<1>6. CASE OpPanic \/ BoxAccess \/ CheckSufficientBalance
  BY <1>4, <1>6 DEF OpPanic, BoxAccess, CheckSufficientBalance, Panic
<1>7. CASE AppGlobalPut \/ AppGlobalDel
  <2>1. \A e \in AppState, key \in Keys, t \in {"int", "bytes"} :
          PutKey(e, key, t).creator = e.creator /\ DelKey(e, key).creator = e.creator
    BY DEF PutKey, DelKey, AppState
  <2>2. ASSUME NEW e, apps' = [apps EXCEPT ![Current.app] = e], Opcode,
               Current.app \in DOMAIN apps => e.creator = apps[Current.app].creator,
               UNCHANGED <<accounts, local, boxes>>
        PROVE  Known'
    BY <1>3, <2>2 DEF Opcode, Known, Members
  <2>3. \A id \in DOMAIN apps : apps[id] \in AppState
    BY DEF TypeOK
  <2>4. CASE Panic
    BY <1>4, <2>4 DEF Panic
  <2>5. CASE AppGlobalPut
    BY <2>1, <2>2, <2>3, <2>4, <2>5 DEF AppGlobalPut
  <2>6. CASE AppGlobalDel
    BY <2>1, <2>2, <2>3, <2>6 DEF AppGlobalDel
  <2> QED BY <1>7, <2>5, <2>6
<1>8. CASE AppLocalPut \/ AppLocalDel
  <2>1. CASE Panic
    BY <1>4, <2>1 DEF Panic
  <2>2. ~Panic => /\ DOMAIN local' = DOMAIN local /\ UNCHANGED <<accounts, apps, boxes>>
                  /\ UNCHANGED <<calls, nextAppID>>
    BY <1>8 DEF AppLocalPut, AppLocalDel, Opcode
  <2> QED BY <1>3, <2>1, <2>2 DEF Known, Members
<1>9. ASSUME NEW name \in Names, NEW size \in Sizes, CreateBox(name, size) PROVE Known'
  <2>1. Running /\ BoxAt(name)[1] = Self
    BY <1>9 DEF CreateBox, Opcode
  <2>2. DOMAIN boxes' = DOMAIN boxes \cup {BoxAt(name)} /\ IsFiniteSet(DOMAIN boxes')
    BY <1>9, FS_AddElement DEF CreateBox, Put, Known, Members
  <2>3. \A at \in DOMAIN boxes' : at[1] \in DOMAIN accounts
    BY <2>1, <2>2, CurrentKnown DEF Known, Members
  <2> QED BY <1>3, <1>9, <2>2, <2>3 DEF CreateBox, Charged, Opcode
<1>10. CASE BoxCreate \/ BoxPut
  BY <1>4, <1>9, <1>10 DEF BoxCreate, BoxPut, Panic
<1>11. CASE BoxDel
  <2>1. CASE Panic
    BY <1>4, <2>1 DEF Panic
  <2>2. CASE ~Panic
    <3>1. /\ DOMAIN boxes' \subseteq DOMAIN boxes /\ DOMAIN accounts' = DOMAIN accounts
          /\ UNCHANGED <<apps, local, calls, nextAppID>>
      BY <1>11, <2>2 DEF BoxDel, Drop, Restrict, Charged, Opcode
    <3>2. IsFiniteSet(DOMAIN boxes')
      BY <3>1, FS_Subset DEF Known, Members
    <3> QED BY <1>3, <3>1, <3>2 DEF Known, Members
  <2> QED BY <2>1, <2>2
<1>12. CASE EndProgram \/ ClearState \/ DeleteApplication
  <2>1. /\ Running /\ calls' = Tail(calls) /\ DOMAIN accounts' = DOMAIN accounts
        /\ UNCHANGED <<boxes, nextAppID>>
        /\ DOMAIN local' \subseteq DOMAIN local
        /\ DOMAIN apps \ {Current.app} \subseteq DOMAIN apps' /\ DOMAIN apps' \subseteq DOMAIN apps
        /\ \A id \in DOMAIN apps' : apps'[id] = apps[id]
    BY <1>12 DEF EndProgram, ClearState, DeleteApplication, Return, Drop, Restrict, Charged
  <2>2. IsFiniteSet(DOMAIN local') /\ IsFiniteSet(DOMAIN apps')
    BY <2>1, FS_Subset DEF Known, Members
  <2>3. Members'
    BY <2>1, <2>2 DEF Known, Members
  <2>4. RunningKnown'
    BY <2>1, ReturnKnown DEF Known
  <2> QED BY <2>3, <2>4 DEF Known
<1>13. CASE UNCHANGED vars
  BY <1>4, <1>13 DEF vars
<1> QED BY <1>1, <1>2, <1>5, <1>6, <1>7, <1>8, <1>10, <1>11, <1>12, <1>13 DEF Next

LEMMA PriceOfType == ASSUME TypeOK, Members, NEW a PROVE PriceOf(a) \in Int
BY CostType, NumberAssumption DEF PriceOf

\* What the set-up has loaded without charging is a fixed price, of accounts that
\* are there.
LEMMA UnchargedType ==
  ASSUME NEW a
  PROVE  Uncharged(a) \in Int /\ (a \notin DOMAIN SetupBalance => Uncharged(a) = 0)
<1> DEFINE f == [id \in DOMAIN SetupApps |-> IF SetupApps[id].creator = a THEN AppPrice(id) ELSE 0]
           g == [at \in DOMAIN SetupLocal |-> IF at[1] = a THEN LocalPrice(at[2]) ELSE 0]
<1>1. \A id \in DOMAIN f : f[id] \in Int /\ (a \notin DOMAIN SetupBalance => f[id] = 0)
  BY PriceType, SetupAssumption
<1>2. \A at \in DOMAIN g : g[at] \in Int /\ (a \notin DOMAIN SetupBalance => g[at] = 0)
  BY PriceType, SetupAssumption
<1>3. DOMAIN f = DOMAIN SetupApps /\ DOMAIN g = DOMAIN SetupLocal
  OBVIOUS
<1>4. Uncharged(a) = SumFunction(f) + SumFunction(g)
  BY DEF Uncharged
<1>5. IsFiniteSet(DOMAIN f) /\ IsFiniteSet(DOMAIN g)
  BY <1>3, SetupAssumption
<1> HIDE DEF f, g
<1>6. SumFunction(f) \in Int /\ SumFunction(g) \in Int
  BY <1>1, <1>2, <1>5, SumType DEF SumFunction
<1>7. a \notin DOMAIN SetupBalance => SumFunction(f) = 0 /\ SumFunction(g) = 0
  BY <1>1, <1>2, <1>5, SumZero DEF SumFunction
<1> QED BY <1>4, <1>6, <1>7

LEMMA SameUncharged == ASSUME NEW a PROVE Uncharged(a)' = Uncharged(a)
BY DEF Uncharged, AppPrice, LocalPrice, Entries

\* One account is charged for what changes its price.
LEMMA ChargedPrice ==
  ASSUME TypeOK, Members, MinBalanceIsPrice, NEW s \in DOMAIN accounts, NEW n \in Int,
         accounts' = Charged(accounts, s, n),
         \A a \in DOMAIN accounts : PriceOf(a)' = PriceOf(a) + Share(a, s, n)
  PROVE  MinBalanceIsPrice'
<1>1. DOMAIN accounts' = DOMAIN accounts
  BY DEF Charged
<1>2. ASSUME NEW a \in DOMAIN accounts
      PROVE  accounts'[a].minBalance = accounts[a].minBalance + Share(a, s, n)
  <2>1. accounts[a] \in Account
    BY DEF TypeOK
  <2>2. accounts[a].minBalance \in Int
    BY <2>1 DEF Account
  <2>3. CASE a = s
    BY <2>1, <2>3 DEF Charged, Share, Account
  <2>4. CASE a # s
    BY <2>2, <2>4 DEF Charged, Share
  <2> QED BY <2>3, <2>4
<1>3. \A a \in DOMAIN accounts : accounts[a].minBalance = PriceOf(a) - Uncharged(a)
  BY DEF MinBalanceIsPrice
<1>4. \A a : PriceOf(a) \in Int /\ Uncharged(a) \in Int /\ Share(a, s, n) \in Int
  BY PriceOfType, UnchargedType DEF Share
<1>5. ASSUME NEW a \in DOMAIN accounts PROVE accounts'[a].minBalance = PriceOf(a)' - Uncharged(a)
  BY <1>2, <1>3, <1>4
<1> QED BY <1>1, <1>5, SameUncharged DEF MinBalanceIsPrice

\* Nobody is charged for what changes no price.
LEMMA SamePrice ==
  ASSUME MinBalanceIsPrice, DOMAIN accounts' = DOMAIN accounts,
         \A a \in DOMAIN accounts : accounts'[a].minBalance = accounts[a].minBalance,
         DOMAIN apps' = DOMAIN apps, \A id \in DOMAIN apps : apps'[id].creator = apps[id].creator,
         DOMAIN local' = DOMAIN local, boxes' = boxes
  PROVE  MinBalanceIsPrice'
<1>1. \A a : PriceOf(a)' = PriceOf(a)
  BY SameCosts DEF PriceOf
<1>2. \A a \in DOMAIN accounts : accounts'[a].minBalance = PriceOf(a)' - Uncharged(a)
  BY <1>1 DEF MinBalanceIsPrice
<1> QED BY <1>2, SameUncharged DEF MinBalanceIsPrice

\* The price of an opt-in.
LEMMA OptInCost ==
  ASSUME TypeOK, Members, NEW s \in Addresses, NEW id \in AppIds, NEW oc \in OnCompletions,
         OptedIn(s, id, oc), NEW a
  PROVE  LocalCost(a)' = LocalCost(a) + Share(a, s, OptInPrice(id, oc))
<1>1. LocalCost(a) \in Int
  BY CostType
<1>2. CASE oc = "OptIn"
  <2> DEFINE at == <<s, id>>
  <2>1. /\ at \in Addresses \X AppIds /\ at \notin DOMAIN local
        /\ local' = Put(local, at, [ints |-> {}, bytes |-> {}])
    BY <1>2 DEF OptedIn
  <2>2. at[1] = s /\ at[2] = id
    OBVIOUS
  <2> HIDE DEF at
  <2>3. LocalCost(a)' = LocalCost(a) + Share(a, at[1], LocalPrice(at[2]))
    BY <2>1, LocalCostNew
  <2> QED BY <1>2, <2>2, <2>3 DEF OptInPrice
<1>3. CASE oc # "OptIn"
  <2>1. local' = local /\ OptInPrice(id, oc) = 0
    BY <1>3 DEF OptedIn, OptInPrice
  <2> QED BY <1>1, <2>1, SameCosts DEF Share
<1> QED BY <1>2, <1>3

\* An account without boxes is charged for none.
LEMMA NoBoxNoCost ==
  ASSUME NEW a, IsFiniteSet(DOMAIN boxes), \A at \in DOMAIN boxes : at[1] # a
  PROVE  BoxCost(a) = 0
<1> DEFINE h == [at \in DOMAIN boxes |-> IF at[1] = a THEN BoxPrice(at[2], boxes[at]) ELSE 0]
<1>1. \A at \in DOMAIN h : h[at] = 0
  OBVIOUS
<1>2. IsFiniteSet(DOMAIN h) /\ BoxCost(a) = SumFunction(h)
  BY DEF BoxCost
<1> HIDE DEF h
<1> QED BY <1>1, <1>2, SumZero DEF SumFunction

\* Nobody has been charged for an account that does not exist.
LEMMA NobodysCost ==
  ASSUME Members, NEW a, a \notin DOMAIN accounts
  PROVE  AppCost(a) = 0 /\ LocalCost(a) = 0 /\ BoxCost(a) = 0
<1> DEFINE f == [id \in DOMAIN apps |-> IF apps[id].creator = a THEN AppPrice(id) ELSE 0]
           g == [at \in DOMAIN local |-> IF at[1] = a THEN LocalPrice(at[2]) ELSE 0]
           h == [at \in DOMAIN boxes |-> IF at[1] = a THEN BoxPrice(at[2], boxes[at]) ELSE 0]
<1>1. \A id \in DOMAIN f : f[id] = 0
  BY DEF Members
<1>2. \A at \in DOMAIN g : g[at] = 0
  BY DEF Members
<1>3. \A at \in DOMAIN h : h[at] = 0
  BY DEF Members
<1>4. DOMAIN f = DOMAIN apps /\ DOMAIN g = DOMAIN local /\ DOMAIN h = DOMAIN boxes
  OBVIOUS
<1>5. AppCost(a) = SumFunction(f) /\ LocalCost(a) = SumFunction(g) /\ BoxCost(a) = SumFunction(h)
  BY DEF AppCost, LocalCost, BoxCost
<1> HIDE DEF f, g, h
<1> QED BY <1>1, <1>2, <1>3, <1>4, <1>5, SumZero DEF SumFunction, Members

\* Whoever creates an application pays for it, and for opting in to it; the
\* account of the application starts with the price of an empty one.
LEMMA CreatePrice ==
  ASSUME TypeOK, Known, MinBalanceIsPrice, CreateApplication
  PROVE  MinBalanceIsPrice'
<1> PICK s \in DOMAIN accounts, oc \in OnCompletions :
      /\ nextAppID \in AppIds /\ OptedIn(s, nextAppID, oc) /\ AppAddress[nextAppID] \notin DOMAIN accounts
      /\ accounts' = Put(Charged(accounts, s, AppPrice(nextAppID) + OptInPrice(nextAppID, oc)),
                         AppAddress[nextAppID], NewAccount(0))
      /\ apps' = Put(apps, nextAppID, [creator |-> s, ints |-> {}, bytes |-> {}])
      /\ Enter(s, nextAppID, oc)
  BY DEF CreateApplication
<1> PICK id, new : id = nextAppID /\ new = AppAddress[id]
  OBVIOUS
<1> DEFINE p == AppPrice(id)  q == OptInPrice(id, oc)
           e == [creator |-> s, ints |-> {}, bytes |-> {}]
<1>1. /\ id \in AppIds /\ id \notin DOMAIN apps /\ s \in Addresses /\ new \in Addresses
      /\ boxes' = boxes /\ e.creator = s /\ s # new
  BY AccountAssumption DEF Known, Members, TypeOK, Enter
<1>2. p \in Int /\ q \in Int
  BY PriceType, OptInPriceType
<1>3. \A a : /\ AppCost(a)' = AppCost(a) + Share(a, s, p)
             /\ LocalCost(a)' = LocalCost(a) + Share(a, s, q)
             /\ BoxCost(a)' = BoxCost(a)
  <2> SUFFICES ASSUME NEW a
               PROVE  /\ AppCost(a)' = AppCost(a) + Share(a, s, p)
                      /\ LocalCost(a)' = LocalCost(a) + Share(a, s, q)
                      /\ BoxCost(a)' = BoxCost(a)
    OBVIOUS
  <2>1. apps' = Put(apps, id, e)
    OBVIOUS
  <2> HIDE DEF e
  <2>2. AppCost(a)' = AppCost(a) + Share(a, e.creator, p)
    BY <1>1, <2>1, AppCostNew DEF Known
  <2>3. LocalCost(a)' = LocalCost(a) + Share(a, s, q)
    BY <1>1, OptInCost DEF Known
  <2>4. BoxCost(a)' = BoxCost(a)
    BY <1>1, SameCosts
  <2> QED BY <1>1, <2>2, <2>3, <2>4
<1>4. \A a : AppCost(a) \in Int /\ LocalCost(a) \in Int /\ BoxCost(a) \in Int
  BY CostType DEF Known
<1>5. \A a : PriceOf(a)' = PriceOf(a) + Share(a, s, p + q) /\ PriceOf(a) \in Int
  BY <1>2, <1>3, <1>4, NumberAssumption DEF PriceOf, Share
<1>6. /\ DOMAIN accounts' = DOMAIN accounts \cup {new}
      /\ accounts'[new].minBalance = PARAM_MIN_BALANCE
      /\ \A a \in DOMAIN accounts : accounts'[a] = Charged(accounts, s, p + q)[a]
  BY DEF Put, Charged, NewAccount
<1> HIDE DEF p, q, e
<1>7. PriceOf(new)' = PARAM_MIN_BALANCE
  <2>1. PriceOf(new)' = PriceOf(new)
    BY <1>1, <1>5 DEF Share
  <2>2. AppCost(new) = 0 /\ LocalCost(new) = 0 /\ BoxCost(new) = 0
    BY NobodysCost DEF Known
  <2> QED BY <2>1, <2>2, NumberAssumption DEF PriceOf
<1>8. ASSUME NEW a \in DOMAIN accounts PROVE accounts'[a].minBalance = PriceOf(a)' - Uncharged(a)
  <2>1. accounts[a] \in Account /\ accounts[a].minBalance = PriceOf(a) - Uncharged(a)
    BY DEF TypeOK, MinBalanceIsPrice
  <2>2. CASE a = s
    <3>1. accounts'[a].minBalance = accounts[a].minBalance + (p + q)
      BY <1>6, <2>1, <2>2 DEF Charged, Account
    <3>2. PriceOf(a)' = PriceOf(a) + (p + q) /\ PriceOf(a) \in Int /\ Uncharged(a) \in Int
      BY <1>5, <2>2, UnchargedType DEF Share
    <3> QED BY <1>2, <2>1, <3>1, <3>2
  <2>3. CASE a # s
    <3>1. PriceOf(a)' = PriceOf(a)
      BY <1>5, <2>3 DEF Share
    <3>2. accounts'[a] = accounts[a]
      BY <1>6, <2>3 DEF Charged
    <3> QED BY <2>1, <3>1, <3>2
  <2> QED BY <2>2, <2>3
<1>9. accounts'[new].minBalance = PriceOf(new)' - Uncharged(new)
  <2>1. Uncharged(new) = 0
    BY UnchargedType DEF Known, Members
  <2> QED BY <1>6, <1>7, <2>1, NumberAssumption
<1>10. \A a \in DOMAIN accounts' : accounts'[a].minBalance = PriceOf(a)' - Uncharged(a)
  BY <1>6, <1>8, <1>9
<1> QED BY <1>10, SameUncharged DEF MinBalanceIsPrice

\* Whoever opts in pays for the local state.
LEMMA CallPrice ==
  ASSUME TypeOK, Known, MinBalanceIsPrice, CallApplication
  PROVE  MinBalanceIsPrice'
<1> PICK s \in DOMAIN accounts, id \in DOMAIN apps, oc \in OnCompletions :
      /\ OptedIn(s, id, oc) /\ accounts' = Charged(accounts, s, OptInPrice(id, oc))
      /\ Enter(s, id, oc) /\ UNCHANGED apps
  BY DEF CallApplication
<1>1. s \in Addresses /\ id \in AppIds /\ boxes' = boxes
  BY DEF TypeOK, Enter
<1>2. OptInPrice(id, oc) \in Int
  BY <1>1, OptInPriceType
<1>3. ASSUME NEW a \in DOMAIN accounts PROVE PriceOf(a)' = PriceOf(a) + Share(a, s, OptInPrice(id, oc))
  <2>1. AppCost(a)' = AppCost(a) /\ BoxCost(a)' = BoxCost(a)
    BY <1>1, SameCosts
  <2>2. LocalCost(a)' = LocalCost(a) + Share(a, s, OptInPrice(id, oc))
    BY <1>1, OptInCost DEF Known
  <2>3. /\ AppCost(a) \in Int /\ LocalCost(a) \in Int /\ BoxCost(a) \in Int
        /\ Share(a, s, OptInPrice(id, oc)) \in Int
    BY <1>2, CostType DEF Known, Share
  <2> QED BY <2>1, <2>2, <2>3, NumberAssumption DEF PriceOf
<1> QED BY <1>2, <1>3, ChargedPrice DEF Known

\* An application pays for the boxes it creates.
LEMMA BoxPaid ==
  ASSUME TypeOK, Known, MinBalanceIsPrice, NEW name \in Names, NEW size \in Sizes, CreateBox(name, size)
  PROVE  MinBalanceIsPrice'
<1> PICK at, s : at = BoxAt(name) /\ s = Self
  OBVIOUS
<1> DEFINE n == BoxPrice(name, size)
<1>1. Running /\ size \in Nat /\ at[1] = s /\ at[2] = name /\ at \notin DOMAIN boxes
  BY NumberAssumption DEF CreateBox, Opcode, BoxAt
<1>2. s \in DOMAIN accounts /\ at \in Addresses \X Names
  BY <1>1, CurrentKnown, CurrentType DEF BoxAt
<1>3. /\ boxes' = Put(boxes, at, size) /\ accounts' = Charged(accounts, s, n) /\ UNCHANGED <<apps, local>>
      /\ n \in Int
  BY <1>1, PriceType DEF CreateBox
<1> HIDE DEF n
<1>4. ASSUME NEW a \in DOMAIN accounts PROVE PriceOf(a)' = PriceOf(a) + Share(a, s, n)
  <2>1. AppCost(a)' = AppCost(a) /\ LocalCost(a)' = LocalCost(a)
    BY <1>3, SameCosts
  <2>2. BoxCost(a)' = BoxCost(a) + Share(a, s, n)
    BY <1>1, <1>2, <1>3, BoxCostNew DEF Known, n
  <2>3. /\ AppCost(a) \in Int /\ LocalCost(a) \in Int /\ BoxCost(a) \in Int /\ Share(a, s, n) \in Int
    BY <1>3, CostType DEF Known, Share
  <2> QED BY <2>1, <2>2, <2>3, NumberAssumption DEF PriceOf
<1> QED BY <1>2, <1>3, <1>4, ChargedPrice DEF Known

\* Deleting a box pays its price back to the application it belongs to.
LEMMA BoxRefund ==
  ASSUME TypeOK, Known, MinBalanceIsPrice, NEW name \in Names, BoxAt(name) \in DOMAIN boxes,
         boxes' = Drop(boxes, BoxAt(name)),
         accounts' = Charged(accounts, BoxAt(name)[1], -BoxPrice(name, boxes[BoxAt(name)])),
         UNCHANGED <<apps, local>>
  PROVE  MinBalanceIsPrice'
<1> PICK at, s, n : at = BoxAt(name) /\ s = at[1] /\ n = BoxPrice(name, boxes[at])
  OBVIOUS
<1>1. at[2] = name /\ at \in DOMAIN boxes /\ s \in DOMAIN accounts
  BY DEF BoxAt, Known, Members
<1>2. n \in Int /\ -n \in Int
  BY <1>1, PriceType DEF TypeOK
<1>3. boxes' = Drop(boxes, at) /\ accounts' = Charged(accounts, s, -n) /\ n = BoxPrice(at[2], boxes[at])
  BY <1>1
<1>4. ASSUME NEW a \in DOMAIN accounts PROVE PriceOf(a)' = PriceOf(a) + Share(a, s, -n)
  <2>1. AppCost(a)' = AppCost(a) /\ LocalCost(a)' = LocalCost(a)
    BY SameCosts
  <2>2. BoxCost(a)' = BoxCost(a) - Share(a, s, n)
    BY <1>1, <1>3, BoxCostGone DEF Known
  <2>3. /\ AppCost(a) \in Int /\ LocalCost(a) \in Int /\ BoxCost(a) \in Int
        /\ Share(a, s, n) \in Int /\ Share(a, s, -n) = -Share(a, s, n)
    BY <1>2, CostType DEF Known, Share
  <2> QED BY <2>1, <2>2, <2>3, NumberAssumption DEF PriceOf
<1> QED BY <1>1, <1>2, <1>3, <1>4, ChargedPrice DEF Known

\* Clearing local state pays its price back to whoever had opted in.
LEMMA ClearRefund ==
  ASSUME TypeOK, Known, MinBalanceIsPrice, ClearState
  PROVE  MinBalanceIsPrice'
<1> PICK s, id, at, n : s = Current.sender /\ id = Current.app /\ at = <<s, id>> /\ n = LocalPrice(id)
  OBVIOUS
<1>1. /\ Running /\ at \in DOMAIN local /\ local' = Drop(local, at) /\ UNCHANGED <<apps, boxes>>
      /\ accounts' = Charged(accounts, s, -n)
  BY DEF ClearState, Return
<1>2. at[1] = s /\ at[2] = id /\ s \in DOMAIN accounts /\ id \in AppIds
  BY <1>1, CurrentKnown, CurrentType DEF Call
<1>3. n \in Int /\ -n \in Int
  BY <1>2, PriceType
<1>4. ASSUME NEW a \in DOMAIN accounts PROVE PriceOf(a)' = PriceOf(a) + Share(a, s, -n)
  <2>1. AppCost(a)' = AppCost(a) /\ BoxCost(a)' = BoxCost(a)
    BY <1>1, SameCosts
  <2>2. LocalCost(a)' = LocalCost(a) - Share(a, s, n)
    BY <1>1, <1>2, LocalCostGone DEF Known
  <2>3. /\ AppCost(a) \in Int /\ LocalCost(a) \in Int /\ BoxCost(a) \in Int
        /\ Share(a, s, n) \in Int /\ Share(a, s, -n) = -Share(a, s, n)
    BY <1>3, CostType DEF Known, Share
  <2> QED BY <2>1, <2>2, <2>3, NumberAssumption DEF PriceOf
<1> QED BY <1>1, <1>2, <1>3, <1>4, ChargedPrice DEF Known

\* Deleting an application pays its price back to its creator, whoever deletes it.
LEMMA DeleteRefund ==
  ASSUME TypeOK, Known, MinBalanceIsPrice, DeleteApplication
  PROVE  MinBalanceIsPrice'
<1> PICK id, s, n : id = Current.app /\ s = apps[id].creator /\ n = AppPrice(id)
  OBVIOUS
<1>1. /\ Running /\ apps' = Drop(apps, id) /\ UNCHANGED <<local, boxes>>
      /\ accounts' = Charged(accounts, s, -n)
  BY DEF DeleteApplication, Return
<1>2. id \in DOMAIN apps /\ s \in DOMAIN accounts
  BY <1>1, CurrentKnown DEF Known, Members
<1>3. n \in Int /\ -n \in Int
  BY <1>2, PriceType DEF TypeOK
<1>4. ASSUME NEW a \in DOMAIN accounts PROVE PriceOf(a)' = PriceOf(a) + Share(a, s, -n)
  <2>1. LocalCost(a)' = LocalCost(a) /\ BoxCost(a)' = BoxCost(a)
    BY <1>1, SameCosts
  <2>2. AppCost(a)' = AppCost(a) - Share(a, s, n)
    BY <1>1, <1>2, AppCostGone DEF Known
  <2>3. /\ AppCost(a) \in Int /\ LocalCost(a) \in Int /\ BoxCost(a) \in Int
        /\ Share(a, s, n) \in Int /\ Share(a, s, -n) = -Share(a, s, n)
    BY <1>3, CostType DEF Known, Share
  <2> QED BY <2>1, <2>2, <2>3, NumberAssumption DEF PriceOf
<1> QED BY <1>1, <1>2, <1>3, <1>4, ChargedPrice DEF Known

\* Every step charges what it creates, and pays back what it deletes.
LEMMA PriceNext == TypeOK /\ Known /\ MinBalanceIsPrice /\ [Next]_vars => MinBalanceIsPrice'
<1> SUFFICES ASSUME TypeOK, Known, MinBalanceIsPrice, [Next]_vars PROVE MinBalanceIsPrice'
  OBVIOUS
<1>1. CASE UNCHANGED storage
  BY <1>1, SamePrice DEF storage
<1>2. CASE Pay
  <2> PICK s \in DOMAIN accounts, r \in DOMAIN accounts, n \in Amounts :
        /\ s # r
        /\ accounts' = [accounts EXCEPT ![s].balance = @ - n, ![r].balance = @ + n]
        /\ UNCHANGED <<apps, local, boxes>>
    BY <1>2 DEF Pay
  <2> DEFINE e == [accounts[s] EXCEPT !.balance = @ - n]
             d == [accounts[r] EXCEPT !.balance = @ + n]
  <2>1. accounts[s] \in Account /\ accounts[r] \in Account
    BY DEF TypeOK
  <2>2. e.minBalance = accounts[s].minBalance /\ d.minBalance = accounts[r].minBalance
    BY <2>1 DEF Account
  <2>3. accounts' = [accounts EXCEPT ![s] = e, ![r] = d]
    BY DEF TypeOK
  <2> HIDE DEF e, d
  <2>4. DOMAIN accounts' = DOMAIN accounts
        /\ \A a \in DOMAIN accounts : accounts'[a].minBalance = accounts[a].minBalance
    BY <2>2, <2>3
  <2> QED BY <2>4, SamePrice
<1>3. CASE OpPanic \/ BoxAccess \/ CheckSufficientBalance
  BY <1>1, <1>3 DEF OpPanic, BoxAccess, CheckSufficientBalance, Panic
<1>4. CASE AppGlobalPut \/ AppGlobalDel
  <2>1. \A e \in AppState, key \in Keys, t \in {"int", "bytes"} :
          PutKey(e, key, t).creator = e.creator /\ DelKey(e, key).creator = e.creator
    BY DEF PutKey, DelKey, AppState
  <2>2. ASSUME NEW e, apps' = [apps EXCEPT ![Current.app] = e],
               Current.app \in DOMAIN apps => e.creator = apps[Current.app].creator,
               UNCHANGED <<accounts, local, boxes>>
        PROVE  MinBalanceIsPrice'
    BY <2>2, SamePrice
  <2>3. \A id \in DOMAIN apps : apps[id] \in AppState
    BY DEF TypeOK
  <2>4. CASE Panic
    BY <1>1, <2>4 DEF Panic
  <2>5. CASE AppGlobalPut
    BY <2>1, <2>2, <2>3, <2>4, <2>5 DEF AppGlobalPut
  <2>6. CASE AppGlobalDel
    BY <2>1, <2>2, <2>3, <2>6 DEF AppGlobalDel
  <2> QED BY <1>4, <2>5, <2>6
<1>5. CASE AppLocalPut \/ AppLocalDel
  <2>1. CASE Panic
    BY <1>1, <2>1 DEF Panic
  <2>2. ~Panic => DOMAIN local' = DOMAIN local /\ UNCHANGED <<accounts, apps, boxes>>
    BY <1>5 DEF AppLocalPut, AppLocalDel
  <2> QED BY <2>1, <2>2, SamePrice
<1>6. CASE BoxCreate \/ BoxPut
  BY <1>1, <1>6, BoxPaid DEF BoxCreate, BoxPut, Panic
<1>7. CASE BoxDel
  BY <1>1, <1>7, BoxRefund DEF BoxDel, Panic
<1>8. CASE EndProgram
  BY <1>8, SamePrice DEF EndProgram, Return
<1>9. CASE UNCHANGED vars
  BY <1>1, <1>9 DEF vars
<1> QED BY <1>2, <1>3, <1>4, <1>5, <1>6, <1>7, <1>8, <1>9, CreatePrice, CallPrice, ClearRefund,
           DeleteRefund DEF Next

\* Whatever applications, local states and boxes are created and deleted, by
\* whom and in which order, a minimum balance is exactly the price of what its
\* account is responsible for, less what the set-up has loaded without charging.
THEOREM MinBalanceIsPaidFor == Spec => []MinBalanceIsPrice
<1>1. Init => MinBalanceIsPrice
  <2> SUFFICES ASSUME Init, NEW a \in DOMAIN accounts
               PROVE  accounts[a].minBalance = PriceOf(a) - Uncharged(a)
    BY DEF MinBalanceIsPrice
  <2>1. apps = SetupApps /\ local = SetupLocal
    BY DEF Init
  <2>2. Uncharged(a) = AppCost(a) + LocalCost(a)
    BY <2>1 DEF Uncharged, AppCost, LocalCost
  <2>3. BoxCost(a) = 0
    BY FS_EmptySet, NoBoxNoCost DEF Init
  <2>4. AppCost(a) \in Int /\ LocalCost(a) \in Int
    BY TypeInit, KnownInit, CostType DEF Known
  <2>5. accounts[a].minBalance = PARAM_MIN_BALANCE
    BY DEF Init, NewAccount
  <2> HIDE DEF Init
  <2> QED BY <2>2, <2>3, <2>4, <2>5, NumberAssumption DEF PriceOf
<1> QED BY <1>1, TypeInit, TypeNext, KnownInit, KnownNext, PriceNext, PTL DEF Spec

-----------------------------------------------------------------------------
(* State is paid for.                                                      *)

\* Whoever got state from the group, or calls an application, has been touched;
\* the touched are covered in the end.
Creators == {apps[id].creator : id \in (DOMAIN apps) \ DOMAIN SetupApps}
OptedIns == {at[1] : at \in (DOMAIN local) \ DOMAIN SetupLocal}
Callers  == {calls[i].sender : i \in DOMAIN calls}
PaidInv  == /\ (Creators \cup OptedIns \cup Callers) \subseteq touchedAccounts
            /\ verdict = "accepted" => \A a \in touchedAccounts : Covered(a)

LEMMA PaidInit == Init => PaidInv
BY DEF Init, PaidInv, Creators, OptedIns, Callers

\* The callers, as a call is entered or left.
LEMMA EnterCallers ==
  ASSUME TypeOK, Callers \subseteq touchedAccounts, NEW s, NEW id, NEW oc, Enter(s, id, oc)
  PROVE  Callers' \subseteq touchedAccounts' /\ touchedAccounts' = touchedAccounts \cup {s}
<1> DEFINE c == [app |-> id, oc |-> oc, sender |-> s]
<1>1. calls' = <<c>> \o calls /\ calls \in Seq(Call) /\ c.sender = s
  BY DEF Enter, TypeOK
<1> HIDE DEF c
<1>2. /\ DOMAIN calls' = 1..(Len(calls) + 1) /\ DOMAIN calls = 1..Len(calls) /\ Len(calls) \in Nat
      /\ \A i \in DOMAIN calls' : calls'[i] = IF i = 1 THEN c ELSE calls[i - 1]
  BY <1>1
<1>3. \A i \in DOMAIN calls' : i = 1 \/ i - 1 \in DOMAIN calls
  BY <1>2
<1>4. \A i \in DOMAIN calls' : calls'[i].sender \in touchedAccounts \cup {s}
  BY <1>1, <1>2, <1>3 DEF Callers
<1> QED BY <1>4 DEF Enter, Callers

LEMMA ReturnCallers ==
  ASSUME TypeOK, Running, calls' = Tail(calls)
  PROVE  Callers' \subseteq Callers /\ Current.sender \in Callers
<1>1. calls \in Seq(Call) /\ calls # <<>>
  BY DEF TypeOK, Running
<1>2. /\ \A i \in DOMAIN calls' : i + 1 \in DOMAIN calls /\ calls'[i] = calls[i + 1]
      /\ 1 \in DOMAIN calls /\ Current = calls[1]
  BY <1>1 DEF Current
<1> QED BY <1>2 DEF Callers

\* Every step keeps it: state is only created for the sender of a transaction.
LEMMA PaidNext == TypeOK /\ PaidInv /\ [Next]_vars => PaidInv'
<1> SUFFICES ASSUME TypeOK, PaidInv, [Next]_vars PROVE PaidInv'
  OBVIOUS
<1>1. ASSUME NEW s, NEW id, NEW oc, Sender(s), OptedIn(s, id, oc), Enter(s, id, oc),
             Creators' \subseteq Creators \cup {s}
      PROVE  PaidInv'
  <2>1. Callers' \subseteq touchedAccounts' /\ touchedAccounts' = touchedAccounts \cup {s}
    BY <1>1, EnterCallers DEF PaidInv
  <2>2. OptedIns' \subseteq OptedIns \cup {s}
    BY <1>1 DEF OptedIn, Put, OptedIns
  <2>3. verdict' # "accepted"
    BY <1>1 DEF Sender, Enter
  <2> QED BY <1>1, <2>1, <2>2, <2>3 DEF PaidInv
<1>2. CASE CreateApplication
  <2> PICK s \in DOMAIN accounts, oc \in OnCompletions :
        /\ Sender(s) /\ OptedIn(s, nextAppID, oc) /\ Enter(s, nextAppID, oc)
        /\ apps' = Put(apps, nextAppID, [creator |-> s, ints |-> {}, bytes |-> {}])
    BY <1>2 DEF CreateApplication
  <2>1. Creators' \subseteq Creators \cup {s}
    BY DEF Put, Creators
  <2> QED BY <1>1, <2>1
<1>3. CASE CallApplication
  BY <1>1, <1>3 DEF CallApplication, Creators
<1>4. CASE Pay
  BY <1>4 DEF Pay, Sender, PaidInv, Creators, OptedIns, Callers
<1>5. ASSUME Running, UNCHANGED touchedAccounts, verdict' # "accepted", Creators' \subseteq Creators,
             OptedIns' \subseteq OptedIns, Callers' \subseteq Callers
      PROVE  PaidInv'
  BY <1>5 DEF PaidInv
<1>6. CASE AppGlobalPut \/ AppGlobalDel
  <2> SUFFICES ASSUME NEW e, apps' = [apps EXCEPT ![Current.app] = e],
                      Current.app \in DOMAIN apps => e.creator = apps[Current.app].creator,
                      Opcode, local' = local
               PROVE  PaidInv'
    <3>1. \A e \in AppState, key \in Keys, t \in {"int", "bytes"} :
            PutKey(e, key, t).creator = e.creator /\ DelKey(e, key).creator = e.creator
      BY DEF PutKey, DelKey, AppState
    <3>2. Panic => PaidInv'
      BY <1>6 DEF AppGlobalPut, AppGlobalDel, Panic, storage, PaidInv, Creators, OptedIns, Callers
    <3>3. \A id \in DOMAIN apps : apps[id] \in AppState
      BY DEF TypeOK
    <3>4. CASE AppGlobalPut
      BY <1>6, <3>1, <3>2, <3>3, <3>4 DEF AppGlobalPut
    <3>5. CASE AppGlobalDel
      BY <1>6, <3>1, <3>2, <3>3, <3>5 DEF AppGlobalDel
    <3> QED BY <1>6, <3>4, <3>5
  <2>1. Creators' \subseteq Creators
    BY DEF Creators
  <2> QED BY <1>5, <2>1 DEF Opcode, Running, OptedIns, Callers
<1>7. CASE AppLocalPut \/ AppLocalDel
  <2>1. DOMAIN local' = DOMAIN local /\ apps' = apps /\ calls' = calls
    BY <1>7 DEF AppLocalPut, AppLocalDel, Opcode, Panic, storage
  <2>2. Running /\ UNCHANGED touchedAccounts /\ verdict' # "accepted"
    BY <1>7 DEF AppLocalPut, AppLocalDel, Opcode, Panic, Running
  <2> QED BY <1>5, <2>1, <2>2 DEF Creators, OptedIns, Callers
<1>8. CASE OpPanic \/ BoxCreate \/ BoxPut \/ BoxAccess \/ BoxDel
  <2>1. apps' = apps /\ local' = local /\ calls' = calls
    BY <1>8 DEF OpPanic, BoxCreate, CreateBox, BoxPut, BoxAccess, BoxDel, Opcode, Panic, storage
  <2>2. Running /\ UNCHANGED touchedAccounts /\ verdict' # "accepted"
    BY <1>8 DEF OpPanic, BoxCreate, CreateBox, BoxPut, BoxAccess, BoxDel, Opcode, Panic, Running
  <2> QED BY <1>5, <2>1, <2>2 DEF Creators, OptedIns, Callers
<1>9. CASE EndProgram \/ ClearState \/ DeleteApplication
  <2>1. Running /\ UNCHANGED touchedAccounts /\ verdict' # "accepted" /\ calls' = Tail(calls)
    BY <1>9 DEF EndProgram, ClearState, DeleteApplication, Return, Running
  <2>2. Creators' \subseteq Creators /\ OptedIns' \subseteq OptedIns
    BY <1>9 DEF EndProgram, ClearState, DeleteApplication, Drop, Restrict, Creators, OptedIns
  <2> QED BY <1>5, <2>1, <2>2, ReturnCallers
<1>10. CASE CheckSufficientBalance
  BY <1>10 DEF CheckSufficientBalance, storage, PaidInv, Creators, OptedIns, Callers, Covered
<1>11. CASE UNCHANGED vars
  BY <1>11 DEF vars, storage, PaidInv, Creators, OptedIns, Callers, Covered
<1> QED BY <1>2, <1>3, <1>4, <1>6, <1>7, <1>8, <1>9, <1>10, <1>11 DEF Next

\* An account that is not touched has what it was loaded with, and is charged for
\* nothing but the boxes of its application.
Apart == \A a \in (DOMAIN accounts) \ touchedAccounts :
           /\ accounts[a].minBalance = PARAM_MIN_BALANCE + BoxCost(a)
           /\ a \in DOMAIN SetupBalance => accounts[a].balance = SetupBalance[a]

LEMMA ApartInit == Init => Apart
<1> SUFFICES ASSUME Init, NEW a \in DOMAIN SetupBalance
             PROVE  accounts[a] = NewAccount(SetupBalance[a]) /\ BoxCost(a) = 0
  BY NumberAssumption DEF Init, Apart, NewAccount
<1> QED BY FS_EmptySet, NoBoxNoCost DEF Init

\* A step that charges only who is touched, and changes no box, keeps it.
LEMMA ApartCharged ==
  ASSUME Apart, boxes' = boxes, touchedAccounts \subseteq touchedAccounts',
         \A a \in (DOMAIN accounts') \ touchedAccounts' :
           a \in DOMAIN accounts /\ accounts'[a] = accounts[a]
  PROVE  Apart'
<1>1. \A a : BoxCost(a)' = BoxCost(a)
  BY SameCosts
<1> QED BY <1>1 DEF Apart

\* A step that charges one account for its boxes keeps it.
LEMMA ApartBoxes ==
  ASSUME TypeOK, Members, Apart, touchedAccounts' = touchedAccounts, NEW s, NEW n \in Int,
         accounts' = Charged(accounts, s, n),
         \A a : BoxCost(a)' = BoxCost(a) + Share(a, s, n)
  PROVE  Apart'
<1> SUFFICES ASSUME NEW a \in (DOMAIN accounts) \ touchedAccounts
             PROVE  /\ accounts'[a].minBalance = PARAM_MIN_BALANCE + BoxCost(a)'
                    /\ a \in DOMAIN SetupBalance => accounts'[a].balance = SetupBalance[a]
  BY DEF Apart, Charged
<1>1. accounts[a] \in Account /\ accounts[a].minBalance = PARAM_MIN_BALANCE + BoxCost(a)
  BY DEF TypeOK, Apart
<1>2. BoxCost(a) \in Int
  BY CostType
<1>3. accounts'[a].minBalance = accounts[a].minBalance + Share(a, s, n)
      /\ accounts'[a].balance = accounts[a].balance
  BY <1>1 DEF Charged, Share, Account
<1> QED BY <1>1, <1>2, <1>3, NumberAssumption DEF Apart, Share

LEMMA ApartNext == TypeOK /\ Known /\ PaidInv /\ Apart /\ [Next]_vars => Apart'
<1> SUFFICES ASSUME TypeOK, Known, PaidInv, Apart, [Next]_vars PROVE Apart'
  OBVIOUS
<1>1. CASE CreateApplication
  <2> PICK s \in DOMAIN accounts, oc \in OnCompletions :
        /\ AppAddress[nextAppID] \notin DOMAIN accounts
        /\ accounts' = Put(Charged(accounts, s, AppPrice(nextAppID) + OptInPrice(nextAppID, oc)),
                           AppAddress[nextAppID], NewAccount(0))
        /\ Enter(s, nextAppID, oc)
    BY <1>1 DEF CreateApplication
  <2> PICK new : new = AppAddress[nextAppID]
    OBVIOUS
  <2>1. touchedAccounts' = touchedAccounts \cup {s} /\ boxes' = boxes
    BY DEF Enter
  <2>2. /\ DOMAIN accounts' = DOMAIN accounts \cup {new} /\ accounts'[new] = NewAccount(0)
        /\ \A a \in DOMAIN accounts : a # s => accounts'[a] = accounts[a]
    BY DEF Put, Charged
  <2>3. new \notin DOMAIN SetupBalance /\ BoxCost(new)' = 0
    BY <2>1, NobodysCost, SameCosts DEF Known, Members
  <2>4. accounts'[new].minBalance = PARAM_MIN_BALANCE + BoxCost(new)'
    BY <2>2, <2>3, NumberAssumption DEF NewAccount
  <2>5. ASSUME NEW a \in (DOMAIN accounts) \ touchedAccounts'
        PROVE  /\ accounts'[a].minBalance = PARAM_MIN_BALANCE + BoxCost(a)'
               /\ a \in DOMAIN SetupBalance => accounts'[a].balance = SetupBalance[a]
    <3>1. accounts'[a] = accounts[a] /\ BoxCost(a)' = BoxCost(a) /\ a \notin touchedAccounts
      BY <2>1, <2>2, SameCosts
    <3> QED BY <3>1 DEF Apart
  <2> QED BY <2>2, <2>3, <2>4, <2>5 DEF Apart
<1>2. CASE CallApplication
  BY <1>2, ApartCharged DEF CallApplication, Enter, Charged
<1>3. CASE Pay
  <2> PICK s \in DOMAIN accounts, r \in DOMAIN accounts, n \in Amounts :
        /\ accounts' = [accounts EXCEPT ![s].balance = @ - n, ![r].balance = @ + n]
        /\ touchedAccounts' = touchedAccounts \cup {s, r} /\ boxes' = boxes
    BY <1>3 DEF Pay
  <2>1. DOMAIN accounts' = DOMAIN accounts
        /\ \A a \in DOMAIN accounts : a # s /\ a # r => accounts'[a] = accounts[a]
    OBVIOUS
  <2> QED BY <2>1, ApartCharged
<1>4. CASE UNCHANGED <<accounts, boxes, touchedAccounts>>
  BY <1>4, ApartCharged
<1>5. CASE OpPanic \/ AppGlobalPut \/ AppGlobalDel \/ AppLocalPut \/ AppLocalDel \/ BoxAccess
           \/ EndProgram \/ CheckSufficientBalance \/ UNCHANGED vars
  <2> UNCHANGED <<accounts, boxes, touchedAccounts>>
    BY <1>5 DEF OpPanic, AppGlobalPut, AppGlobalDel, AppLocalPut, AppLocalDel, BoxAccess, EndProgram,
                Return, CheckSufficientBalance, Opcode, Panic, storage, vars
  <2> QED BY <1>4
<1>6. ASSUME NEW name \in Names, NEW size \in Sizes, CreateBox(name, size) PROVE Apart'
  <2> PICK at, s : at = BoxAt(name) /\ s = Self
    OBVIOUS
  <2> DEFINE n == BoxPrice(name, size)
  <2>1. /\ Running /\ size \in Nat /\ at[1] = s /\ at[2] = name /\ at \notin DOMAIN boxes
        /\ touchedAccounts' = touchedAccounts
    BY <1>6, NumberAssumption DEF CreateBox, Opcode, BoxAt
  <2>2. at \in Addresses \X Names
    BY <1>6, <2>1, CurrentType DEF BoxAt, CreateBox
  <2>3. boxes' = Put(boxes, at, size) /\ accounts' = Charged(accounts, s, n) /\ n \in Int
    BY <1>6, <2>1, PriceType DEF CreateBox
  <2>4. \A a : BoxCost(a)' = BoxCost(a) + Share(a, s, n)
    BY <2>1, <2>2, <2>3, BoxCostNew DEF Known
  <2> HIDE DEF n
  <2> QED BY <2>1, <2>3, <2>4, ApartBoxes DEF Known
<1>7. CASE BoxCreate \/ BoxPut
  BY <1>4, <1>6, <1>7 DEF BoxCreate, BoxPut, Panic, storage
<1>8. CASE BoxDel
  <2> SUFFICES ASSUME NEW name \in Names, BoxAt(name) \in DOMAIN boxes,
                      boxes' = Drop(boxes, BoxAt(name)), touchedAccounts' = touchedAccounts,
                      accounts' = Charged(accounts, BoxAt(name)[1], -BoxPrice(name, boxes[BoxAt(name)]))
               PROVE  Apart'
    BY <1>4, <1>8 DEF BoxDel, Opcode, Panic, storage
  <2> PICK at, s, n : at = BoxAt(name) /\ s = at[1] /\ n = BoxPrice(name, boxes[at])
    OBVIOUS
  <2>1. at[2] = name /\ at \in DOMAIN boxes
    BY DEF BoxAt
  <2>2. n \in Int /\ -n \in Int
    BY <2>1, PriceType DEF TypeOK
  <2>3. boxes' = Drop(boxes, at) /\ accounts' = Charged(accounts, s, -n) /\ n = BoxPrice(at[2], boxes[at])
    BY <2>1
  <2>4. \A a : BoxCost(a)' = BoxCost(a) - Share(a, s, n)
    BY <2>1, <2>3, BoxCostGone DEF Known
  <2>5. \A a : BoxCost(a) \in Int /\ Share(a, s, n) \in Int /\ Share(a, s, -n) = -Share(a, s, n)
    BY <2>2, CostType DEF Known, Share
  <2>6. \A a : BoxCost(a)' = BoxCost(a) + Share(a, s, -n)
    BY <2>4, <2>5
  <2> QED BY <2>2, <2>3, <2>6, ApartBoxes DEF Known
<1>9. CASE ClearState
  <2>1. Current.sender \in touchedAccounts
    BY <1>9, ReturnCallers DEF ClearState, Return, PaidInv
  <2> QED BY <1>9, <2>1, ApartCharged DEF ClearState, Return, Charged
<1>10. CASE DeleteApplication
  <2>1. Current.app \in DOMAIN apps
    BY <1>10, CurrentKnown DEF DeleteApplication, Return
  <2>2. apps[Current.app].creator \in touchedAccounts
    BY <1>10, <2>1 DEF DeleteApplication, PaidInv, Creators
  <2> QED BY <1>10, <2>2, ApartCharged DEF DeleteApplication, Return, Charged
<1> QED BY <1>1, <1>2, <1>3, <1>5, <1>7, <1>8, <1>9, <1>10 DEF Next

\* An accepted group leaves below the minimum balance only who was not touched:
\* nobody to whom it gave an application or an opt-in, and only accounts with
\* boxes, new ones, and ones that were loaded with too little
\* (#checkSufficientBalance looks at touched accounts only, and #createBox
\* touches none).
THEOREM StatePaidFor == Spec => []StateIsPaidFor
<1>1. TypeOK /\ Known /\ PaidInv /\ Apart => StateIsPaidFor
  <2> SUFFICES ASSUME TypeOK, Known, PaidInv, Apart, verdict = "accepted",
                      NEW a \in DOMAIN accounts, ~Covered(a)
               PROVE  /\ \A id \in DOMAIN apps : apps[id].creator = a => id \in DOMAIN SetupApps
                      /\ \A at \in DOMAIN local : at[1] = a => at \in DOMAIN SetupLocal
                      /\ \/ \E at \in DOMAIN boxes : at[1] = a
                         \/ a \notin DOMAIN SetupBalance
                         \/ SetupBalance[a] < PARAM_MIN_BALANCE
    BY DEF StateIsPaidFor
  <2>1. a \notin touchedAccounts
    BY DEF PaidInv
  <2>2. a \notin Creators /\ a \notin OptedIns
    BY <2>1 DEF PaidInv
  <2>3. ASSUME \A at \in DOMAIN boxes : at[1] # a, a \in DOMAIN SetupBalance
        PROVE  SetupBalance[a] < PARAM_MIN_BALANCE
    <3>1. BoxCost(a) = 0
      BY <2>3, NoBoxNoCost DEF Known, Members
    <3>2. accounts[a].minBalance = PARAM_MIN_BALANCE /\ accounts[a].balance = SetupBalance[a]
      BY <2>1, <2>3, <3>1, NumberAssumption DEF Apart
    <3> QED BY <2>3, <3>2, NumberAssumption, SetupAssumption DEF Covered
  <2> QED BY <2>2, <2>3 DEF Creators, OptedIns
<1> QED BY <1>1, PaidInit, ApartInit, TypeInit, KnownInit, TypeNext, KnownNext, PaidNext, ApartNext,
           PTL DEF Spec

=============================================================================
