SPECIFICATION Spec
CONSTANTS
  Setup <- OpenSetup
  OuterGroups <- OneGroup
  OuterPayloads <- Calls
  InnerPayloads <- InnerCalls
  Expected = 0
  Disciplined = FALSE
  MaxTxns = 4
  MaxStaged = 2
  MaxOps = 3
INVARIANTS
  NoDequeError
  ResumeHasContext
CHECK_DEADLOCK FALSE
