SPECIFICATION Spec
CONSTANTS
  p1 = p1
  c1 = c1
  podA = podA
  Pids = {p1}
  Containers = {c1}
  Pods = {podA}
  CidOf <- Single
  PodOf <- SinglePod
  MapSize = 1
  RingEvents = TRUE
  Allocating = {p1}
  Relists = TRUE
INVARIANTS TypeOK SyncedUnlessDirty CanBeInvalidated InvalidationReported
PROPERTY EventuallySynced
