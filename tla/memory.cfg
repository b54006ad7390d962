SPECIFICATION MCSpec
CONSTANTS
  PageSize = 4
  BlockSize = 8
  Sizes = {0, 1, 4, 5, 9}
  SpaceEnd = 40
  MaxRequests = 4
  Size = 128
  VecOpts = TRUE
  MaxOps = 14
  Microcode <- MCMicrocode
  InitDmem <- MCDmem
  InitRegs <- MCRegs
  InitSr <- MCSr
INVARIANTS
  NoSharedPage
  InsideReservation
  JumpsReach
  StaysInDmem
  UnalignedQuad
  PackedRoundTrip
  TransposeCorrect
PROPERTIES
  MovesInOrder
  ScalarIsBigEndian
CHECK_DEADLOCK FALSE
