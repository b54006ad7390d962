SPECIFICATION Spec
CONSTANTS
  BlockWords = 2
  CodeBlocks = 2
  NoTarget = NoTarget
  CALL_STACK_SIZE = 2
  MaxFrames = 3
  Programs <- MCPrograms
INVARIANTS
  CallStackMirrorsFrames
PROPERTY RefinesUnlessMisled
CHECK_DEADLOCK FALSE
