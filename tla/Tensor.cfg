SPECIFICATION Spec
CONSTANTS
  GPUs = {g1, g2}
  NoGPU = NoGPU
  Units = {w1}
  Workloads = {w1}
  Persistenced = persistenced
  AuxModules = {uvm}
  Uvm = uvm
SYMMETRY Interchangeable
INVARIANTS
  TypeOK
  HealedFirst
PROPERTIES
  HandoverFromStock
  SignedBootOnly
  PassUnlocked
