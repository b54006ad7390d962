SPECIFICATION Spec
CONSTANTS
  BlockWords = 2
  CodeBlocks = 2
  NoTarget = NoTarget
  Links = {0, 1, 2, 3}
  Programs <- StaticPairPrograms
PROPERTY SecondBranchKicksIn
