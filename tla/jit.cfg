SPECIFICATION Spec
CONSTANTS
  BlockWords = 2
  CodeBlocks = 3
  NoTarget = NoTarget
  Links = {2, 5}
  Programs <- MCPrograms
INVARIANTS
  TypeOK
  LocalGotoHasLabel
PROPERTY RefinesIsa
