----------------------------- MODULE AlgodNode ------------------------------
(***************************************************************************)
(* What a client may expect of the node that KAVMClient stands in for: a   *)
(* ledger that changes by whole groups.  A group is executed on the ledger *)
(* as the last one left it and takes effect entirely or not at all; apart  *)
(* from that, an address may become known, with an empty account.          *)
(* What a group does is a parameter.                                       *)
(***************************************************************************)
CONSTANTS
  Addresses,
  Groups,           \* the groups a client may submit
  Outcomes(_, _),   \* the ledgers a group may leave: none when it is rejected
  EmptyAccount,     \* the account of an address that was not known
  FaucetAddress,
  FaucetAccount

VARIABLE ledger

Init == ledger = [a \in {FaucetAddress} |-> FaucetAccount]

\* Addresses become known.
Announce == \E S \in SUBSET Addresses :
  ledger' = [a \in DOMAIN ledger \cup S |-> IF a \in DOMAIN ledger THEN ledger[a] ELSE EmptyAccount]

\* A group takes effect.
Commit == \E group \in Groups : ledger' \in Outcomes(ledger, group)

Next == Announce \/ Commit

Spec == Init /\ [][Next]_ledger
=============================================================================
