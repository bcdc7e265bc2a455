SPECIFICATION Spec
CONSTANTS
  GPUs = {0, 1, 2, 3}
  Amd = {3}
  Jobs <- CommandLines
  FreeMemory = {60, 200}
  Medians = {1, 3}
  MaxIters = 3
  MaxInterrupts = 3
INVARIANTS
  PassWithinTolerance
