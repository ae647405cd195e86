SPECIFICATION Spec
CONSTANTS
  faucet = faucet
  alice = alice
  app1 = app1
  app2 = app2
  c1 = c1
  c2 = c2
  c3 = c3
  Direct = Direct
  Addresses = {faucet, alice, app1, app2}
  AppIds = {1, 2}
  AppAddress <- AppAccounts
  MinBalance = 1
  AppCost = 1
  FaucetAddress = faucet
  FaucetSupply = 9
  Groups <- AllGroups
  Composers = {c1, c2, c3}
  Group <- CallerGroup
  Methods <- CallerMethods
  MaxSubmissions = 5
INVARIANTS
  AppsServed
  SubmissionInv
PROPERTIES
  ImplementsNode
  ResultsAreOwn
  CommittedOnce
  SubmissionReturns
CHECK_DEADLOCK FALSE
