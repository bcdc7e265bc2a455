SPECIFICATION FairSpec
CONSTANTS
  GPUs = {g1, g2}
  Runs = {unit, manual, hasty}
  Early = {hasty}
  Watts = TRUE
  NoOne = NoOne
  NoGPU = NoGPU
INVARIANTS
  Exclusive
  PassHolds
  FailureUndone
PROPERTIES
  LockReleased
CHECK_DEADLOCK FALSE
