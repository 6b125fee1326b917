SPECIFICATION Spec
CONSTANTS
  t1 = t1
  t2 = t2
  NoEntry = NoEntry
  Threads = {t1, t2}
  PidOf <- OneProcess
  Cpus = {1, 2}
  Fns <- EntryFns
  InnerCalls <- LazyLoading
  Addrs = {1}
  Sizes = {3}
  MaxDepth = 2
  MaxCalls = 4
  Faults = {"kill", "read_faults", "call_fails"}
  SampleRate = 2
  AggMode = 0
  Detailed = FALSE
  InflightSize = 1
  MallocPtrsSize = 1
  MallocSizesSize = 1
  AggSize = 1
  LaunchAggSize = 1
  NcclAggSize = 1
  RingSize = 1
INVARIANTS EntryOwned SampleBound
CHECK_DEADLOCK FALSE
