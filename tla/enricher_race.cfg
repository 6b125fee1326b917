SPECIFICATION Spec
CONSTANTS
  p1 = p1
  c1 = c1
  podA = podA
  Pids = {p1}
  Containers = {c1}
  Pods = {podA}
  CidOf <- Single
  PodOf <- SinglePod
  MapSize = 1
  RingEvents = TRUE
  Allocating = {}
  Relists = FALSE
INVARIANT NoStaleUpgrade
