SPECIFICATION Spec
CONSTANTS
  alice = alice
  bob = bob
  carol = carol
  ZeroAddress = ZeroAddress
  Accounts <- ThreeAccounts
  Amounts = {0, 1}
  PARAM_MIN_BALANCE = 1
  SetupBalance <- Balanced
  SetupAssets <- NoAssets
  SetupHoldings <- NoHoldings
  MaxTxns = 4
  MaxAssets = 1
SYMMETRY AccountSymmetry
INVARIANTS
  TypeOK
  AlgosConserved
  AssetsConserved
  MinBalanceCounts
  MinBalanceHolds
PROPERTIES
  FrozenHoldingsStay
CHECK_DEADLOCK FALSE
