SPECIFICATION Spec
CONSTANTS
  p1 = p1
  p2 = p2
  none = none
  podA = podA
  Pids = {p1, p2}
  Pods = {none, podA}
  PodsOf <- SharedPods
  Ops = {"cuda", "launch"}
  detailed_launches = FALSE
  Streams = {}
  Kernels = {1, 2}
  max_time_series = 2
  max_streams_per_pid = 1
  max_kernels_per_pid = 1
PROPERTY CountersCumulative
