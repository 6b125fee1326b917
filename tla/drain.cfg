SPECIFICATION Spec
CONSTANTS
  c1 = c1
  c2 = c2
  e1 = e1
  e2 = e2
  None = None
  Keys = {1, 2, 3}
  Cpus = {c1, c2}
  Elems = {e1, e2}
  Budget = 2
  MaxRecords = 4
INVARIANTS TypeOK ExactUnlessRaced
PROPERTIES CountedAtMostOnce EveryKeyDrained
