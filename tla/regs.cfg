SPECIFICATION Spec
CONSTANTS
  NumRegisters = 3
  CallerSaves = {1, 3}
  Regs = {r1, r2}
  Extensions = {"noext", "sext", "zext"}
  Zero = Zero
  Cond = Cond
  Scratch0 = Scratch0
  Scratch1 = Scratch1
  None = None
SYMMETRY Symmetry
INVARIANTS
  OperandsInPlace
  RegisterFileCoherent
  SignStateTrue
  AssertionsHold
