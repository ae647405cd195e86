SPECIFICATION Spec
CONSTANTS
  SourceFiles <- OneFile
  Accounts <- SomeAccounts
  Transactions <- AllTxns
  StageLists <- AllStages
  MaxScenarios = 2
INVARIANTS
  KCanRead
  TrackedProgramsReadable
PROPERTIES
  NamesKeepTheirProgram
CHECK_DEADLOCK FALSE
