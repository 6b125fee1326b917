SPECIFICATION Spec
CONSTANTS
  prefill = prefill
  decode = decode
  None = None
  Workloads <- AllWorkloads
  Pids = {1, 2}
  Kernels = {1, 2}
  AggSize = 1
  RingSize = 2
  ConsumeBudget = 2
  OverflowTicks = 3
  ClearTicks = 3
  Ranges = {prefill, decode}
  NvtxSize = 1
  MaxDepth = 2
INVARIANTS TypeOK Accounted LeExact OtlpExact ReportExact PhaseOpen DropsOnce
PROPERTIES CountedAtMostOnce DropsReported IntervalRestored
