SPECIFICATION FairSpec
CONSTANTS
  GPUs = {g1}
  NoGPU = NoGPU
  Units = {w1, persistenced}
  Workloads = {w1}
  Persistenced = persistenced
  AuxModules = {}
PROPERTIES
  
  RunEnds
