---------------------------- MODULE MCKAVMProof -----------------------------
(* Instances of KAVMProof for TLC.                                         *)
EXTENDS KAVMProof

CONSTANTS alice, bob, app1

AppAccounts == 1 :> app1
Around      == -1..4

\* Variables: balances, a minimum balance, and the amount of a payment
V(v)    == Term(0, {Var(v)}, {})
E(v)    == Term(0, {Evar(v)}, {})
Eq(t, u) == Between(u, t, u)

Holder(t)     == [amount |-> t, apps |-> Nothing, localState |-> {}]
Creator(t)    == [Holder(t) EXCEPT !.apps = 1 :> "p1"]
Floored(a, t) == ("minBalance" :> t) @@ a

\* Two accounts with symbolic balances, or one of them, or a symbolic minimum, an
\* application with its creator, and an opt-in.
TwoHolders   == alice :> Holder(V("A")) @@ bob :> Holder(V("B"))
WithFloor    == alice :> Floored(Holder(V("A")), V("B")) @@ bob :> Holder(Token(1))
WithApp      == alice :> Creator(Token(2)) @@ app1 :> Holder(V("A"))
WithOptIn    == alice :> [Creator(Token(1)) EXCEPT !.localState = {1}] @@ app1 :> Holder(V("A"))
OneUnit      == alice :> Holder(Token(1)) @@ bob :> Holder(V("B"))
SomeAccounts == {TwoHolders, OneUnit, WithFloor, WithApp, WithOptIn}

Txn(type, s, r, t) == [type |-> type, snd |-> s, rcv |-> r, amt |-> t,
                       app |-> 1, sizes |-> 0 .. 2, pgm |-> "p1", log |-> FALSE]
PayX     == <<Txn("pay", alice, bob, V("X"))>>
Swap     == <<Txn("pay", alice, bob, V("X")), Txn("pay", bob, alice, V("B"))>>
CallPays == <<Txn("call", alice, alice, Token(1))>>
InSizes(S)  == <<[CallPays[1] EXCEPT !.sizes = S]>>
SomeGroups  == {PayX, Swap, CallPays, InSizes({0}), InSizes({1}), <<Txn("create", alice, alice, Token(0))>>,
                <<Txn("delete", alice, alice, Token(0))>>, <<Txn("acfg", alice, alice, Token(0))>>}
OneGroup    == {PayX}

\* The sender keeps its minimum balance, amounts stay in range, what comes back
\* covers what was paid, and more
Affordable == Between(Token(0), V("X"), Term(-1, {Var("A")}, {}))
InRange    == Between(Token(0), Term(0, {Var("A"), Var("B")}, {}), Token(2))
Covered    == Between(Token(1), V("X"), V("B"))
SomePre    == {Affordable, Covered, Eq(V("A"), Token(2)), Eq(V("B"), Token(1)), InRange,
               Between(Token(0), V("X"), Token(1))}

\* What becomes of the balances, said rightly, of the wrong account, and wrongly
Debited  == Eq(E("A"), Term(0, {Var("A")}, {Var("X")}))
Credited == Eq(E("B"), Term(0, {Var("B"), Var("X")}, {}))
Swapped  == Eq(E("A"), Term(0, {Var("B"), Var("X")}, {}))
Kept2    == Eq(Term(0, {Evar("A"), Evar("B")}, {}), Term(0, {Var("A"), Var("B")}, {}))
SomePost == {Debited, Credited, Swapped, Kept2, Eq(E("A"), V("A")), Between(Token(1), E("A"), Token(9))}
=============================================================================
