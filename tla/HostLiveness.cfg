SPECIFICATION FairSpec
CONSTANTS
  GPUs = {g1, g2}
  Coordinators = {timer}
  Timer = timer
  NoOne = NoOne
  MaxCalls = 2
  MaxBoot = 3
PROPERTIES
  Decided
