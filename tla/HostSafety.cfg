SPECIFICATION Spec
CONSTANTS
  GPUs = {g1, g2}
  Coordinators = {timer, operator}
  Timer = timer
  NoOne = NoOne
  MaxCalls = 2
  MaxBoot = 3
SYMMETRY Interchangeable
INVARIANTS
  TypeOK
  LatchRemembers
  FewAttempts
  InFlightLatched
PROPERTIES
  LiftedByPass
