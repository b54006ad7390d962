SPECIFICATION Spec
CONSTANTS
  t0 = t0
  t1 = t1
  Regs <- MCRegs
  NoReg = NoReg
  LongTimeout = 3
  ShortTimeout = 2
INVARIANT LaterWaitsAreShort
