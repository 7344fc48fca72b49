\* two processes that start with one configuration and share a store
CONSTANTS
  p1 = p1
  p2 = p2
  probe = probe
  k1 = k1
  high = high
  v1 = v1
  v2 = v2
  Procs = {p1, p2}
  Keys = {probe, k1, high}
  ProbeKey = probe
  Vals = {v1, v2}
  TestData = v2
  Beyond = {high}
  MaxOps = 2
  Starts <- AllStarts
  Absent = Absent
  Unsampled = Unsampled
SPECIFICATION Spec
INVARIANTS
  ProbeSound
  
PROPERTY ImplementsStore
\* processes that were refused, or have done their operations, stop
CHECK_DEADLOCK FALSE
