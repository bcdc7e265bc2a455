SPECIFICATION BootSpec
CONSTANTS
  GPUs = {g1}
  NoGPU = NoGPU
  Units = {}
  Workloads = {}
  Persistenced = persistenced
  AuxModules = {uvm}
  Uvm = uvm
INVARIANTS
  Serialized
CHECK_DEADLOCK FALSE
