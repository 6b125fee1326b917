SPECIFICATION Spec
CONSTANTS
  t1 = t1
  t2 = t2
  NoEntry = NoEntry
  Threads = {t1, t2}
  PidOf <- OneProcess
  Cpus = {1}
  Fns <- CallFns
  InnerCalls <- Wrappers
  Addrs = {1, 2}
  Sizes = {3, 5}
  MaxDepth = 3
  MaxCalls = 5
  Faults = {}
  SampleRate = 0
  AggMode = 1
  Detailed = TRUE
  InflightSize = 4
  MallocPtrsSize = 4
  MallocSizesSize = 4
  AggSize = 8
  LaunchAggSize = 1
  NcclAggSize = 8
  RingSize = 2
INVARIANTS TypeOK MallocSizesSound NetMemory OneEventPerDescent LaunchesAccounted
CHECK_DEADLOCK FALSE
