SPECIFICATION Spec
CONSTANTS
  Programs <- Declared
  bytes = bytes
  MAX_STACK_DEPTH = 4
  MAX_CALLSTACK_DEPTH = 2
  MAX_SCRATCH_SIZE = 2
  MAX_UINT64 = 3
INVARIANTS
  StackSizeIsSize
CHECK_DEADLOCK FALSE
