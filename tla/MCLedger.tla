------------------------------ MODULE MCLedger ------------------------------
(* Instances of Ledger for TLC.                                            *)
EXTENDS Ledger, TLC

CONSTANTS alice, bob, carol

ThreeAccounts == {alice, bob, carol}

\* Accounts are interchangeable: no setup tells them apart.
AccountSymmetry == Permutations(Accounts)

Balanced   == [a \in Accounts |-> 2]
NoAssets   == [id \in {} |-> {}]
NoHoldings == [a \in Accounts |-> NoAssets]
=============================================================================
