SPECIFICATION Spec
CONSTANTS
  None = None
  Pids = {1}
  Kernels = {1, 2}
  MaxIncarnation = 2
  MaxQueue = 2
INVARIANTS TypeOK ResolverForgets NamesCurrent
PROPERTY PendingAnswered
CHECK_DEADLOCK FALSE
