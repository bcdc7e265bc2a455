SPECIFICATION Spec
CONSTANTS
  GPUs = {g1, g2}
  NoGPU = NoGPU
  Units = {}
  Workloads = {}
  Persistenced = persistenced
  AuxModules = {uvm}
SYMMETRY Interchangeable
INVARIANTS
  TypeOK
  FirmwareRecoverable
  OneDetached
  Gen2Provenance
PROPERTIES
  SignedBootOnly
  PassVerified
  ReportedOutcome
  KeepsContract
