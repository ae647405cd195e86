SPECIFICATION Spec
CONSTANTS
  Dirs = {avm_llvm, verification}
  Claims = {main}
  None = None
  MaxCommands = 2
  MaxEdits = 1
INVARIANTS
  TypeOK
  StatusIsVerdict
  FailureIsReported
  KompiledIsCurrent
CHECK_DEADLOCK FALSE
