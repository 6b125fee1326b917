SPECIFICATION Spec
CONSTANTS
  prefill = prefill
  decode = decode
  None = None
  Workloads <- FullDetailed
  Pids = {1}
  Kernels = {1}
  AggSize = 1
  RingSize = 2
  ConsumeBudget = 1
  OverflowTicks = 3
  ClearTicks = 3
  Ranges = {}
  NvtxSize = 1
  MaxDepth = 0
PROPERTY EveryLaunchObserved
