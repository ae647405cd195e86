SPECIFICATION Spec
CONSTANTS
  alice = alice
  bob = bob
  app1 = app1
  Addresses = {alice, bob, app1}
  AppIds = {1}
  AppAddress <- AppAccounts
  MinBalance = 1
  AppCost = 1
  Vars = {"A", "B", "X"}
  MaxUint = 2
  Ints <- Around
  Accounts <- SomeAccounts
  Groups <- OneGroup
  Preconditions <- SomePre
  Postconditions <- SomePost
  MaxConditions = 3
INVARIANTS
  ProvedIsEnsured
CHECK_DEADLOCK FALSE
