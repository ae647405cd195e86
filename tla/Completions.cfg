SPECIFICATION FairSpec
CONSTANTS
  Setup <- MCSetup
  OuterGroups <- OneGroup
  OuterPayloads <- Completions
  InnerPayloads <- InnerCompletions
  Expected = 0
  Disciplined = TRUE
  MaxTxns = 4
  MaxStaged = 2
  MaxOps = 3
INVARIANTS
  TypeOK
  NoReentrance
  PopsCurrent
  LastGroupIsOwn
  BalanceCheckIsLast
PROPERTIES
  PanicIsFinal
  Ends
CHECK_DEADLOCK FALSE
