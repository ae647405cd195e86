SPECIFICATION Spec
CONSTANTS
  Setup <- MCSetup
  OuterGroups <- OneGroup
  OuterPayloads <- TwoApps
  InnerPayloads <- InnerCalls
  Expected = 0
  Disciplined = FALSE
  MaxTxns = 3
  MaxStaged = 1
  MaxOps = 2
INVARIANTS
  StagedByRunning
CHECK_DEADLOCK FALSE
