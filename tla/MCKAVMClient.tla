--------------------------- MODULE MCKAVMClient -----------------------------
(* Instances of KAVMClient for TLC.                                        *)
EXTENDS KAVMClient, TLC

CONSTANTS faucet, alice, app1, app2, c1, c2, c3

AppAccounts == 1 :> app1 @@ 2 :> app2

AnySize == 0 .. 9
Txn(type, snd) == [type |-> type, snd |-> snd, rcv |-> snd, amt |-> 0,
                   app |-> 0, sizes |-> AnySize, pgm |-> "p1", log |-> FALSE]
PayTo(s, r, n)     == [Txn("pay", s) EXCEPT !.rcv = r, !.amt = n]
AppTxn(type, s, i) == [Txn(type, s) EXCEPT !.app = i, !.pgm = "p2"]
Call(s, i, r, l)   == [AppTxn("call", s, i) EXCEPT !.rcv = r, !.amt = 1, !.log = l]

\* Payments that fund, that overdraw and that come back; applications created,
\* called and deleted, by a later group and by the one that creates them; an
\* asset without clawback.
LedgerGroups == {
  <<PayTo(faucet, alice, 3)>>,
  <<PayTo(alice, faucet, 1), PayTo(faucet, app1, 2)>>,
  <<Txn("create", alice)>>,
  <<Txn("create", faucet), PayTo(faucet, app1, 2)>>,
  <<AppTxn("delete", alice, 1)>>,
  <<Txn("create", faucet), AppTxn("delete", faucet, 1)>>,
  <<Txn("create", alice), AppTxn("delete", alice, 2)>>,
  <<Call(alice, 1, faucet, FALSE)>>,
  <<Txn("acfg", alice)>>}

\* An application with funds, and calls of it with and without the value they
\* are to return.
SetUp     == <<Txn("create", faucet)>>
Fund      == <<PayTo(faucet, app1, 4)>>
TwoCalls  == <<Call(faucet, 1, alice, TRUE), Call(faucet, 1, faucet, FALSE)>>
OneCall   == <<PayTo(faucet, alice, 2), [Call(faucet, 1, faucet, FALSE) EXCEPT !.sizes = {2}]>>
CallGroups == {SetUp, Fund, TwoCalls, OneCall}
CallerGroup   == c1 :> TwoCalls @@ c2 :> OneCall @@ c3 :> OneCall
CallerMethods == c1 :> (0 :> "value") @@ c2 :> (1 :> "void") @@ c3 :> (1 :> "value")

AllGroups == LedgerGroups \cup CallGroups
  \cup {<<AppTxn("optin", faucet, 1)>>, <<AppTxn("update", faucet, 1)>>}
=============================================================================
