SPECIFICATION Spec
CONSTANTS
  BlockWords = 1
  CodeBlocks = 3
  Value <- TwoWords
  Zero <- MCZero
  StaticEnd <- MCStaticEnd
  Hash <- MCHash
  NoCode = NoCode
INVARIANTS
  RunsCurrentCode
  CoherenceInv
CONSTRAINT FewRegions
