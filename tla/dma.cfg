SPECIFICATION Spec
CONSTANTS
  BlockWords = 2
  CodeBlocks = 2
  RdramWords = 8
  CacheInputs = {0, 12, 24}
  DramInputs = {0, 20}
  LengthInputs = {5, 8}
  CountInputs = {0, 1, 2}
  SkipInputs = {0, 6, 8}
  MaxDma = 2
  Value <- MCValue
  InitSpMem <- MCSpMem
  InitRdram <- MCRdram
INVARIANTS
  TransferExact
  StaysInBank
  MarksCoverChanges
  RoundTrip
PROPERTY ImplementsDmaRead
