---------------------------- MODULE MCAppStorage ----------------------------
(* Instances of AppStorage for TLC.                                        *)
EXTENDS AppStorage, TLC

CONSTANTS alice, bob, app1, app2

AppAccounts == 1 :> app1 @@ 2 :> app2
TwoSchemas  ==
  1 :> [globalInts |-> 1, globalBytes |-> 1, localInts |-> 0, localBytes |-> 0, extraPages |-> 1]
  @@ 2 :> [globalInts |-> 0, globalBytes |-> 0, localInts |-> 0, localBytes |-> 1, extraPages |-> 0]
Lengths == [n \in Names |-> 1]

\* Alice has created application 1 before, bob has opted in to it; its account
\* has just the minimum balance.
Loaded        == alice :> 9 @@ bob :> 4 @@ app1 :> 1
LoadedApp     == 1 :> [creator |-> alice, ints |-> {"x"}, bytes |-> {}]
LoadedOptIn   == <<bob, 1>> :> [ints |-> {}, bytes |-> {}]
=============================================================================
