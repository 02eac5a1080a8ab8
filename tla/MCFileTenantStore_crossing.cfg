SPECIFICATION Spec
CONSTANTS
  c1 = c1
  c2 = c2
  c3 = c3
  c4 = c4
  p1 = p1
  p2 = p2
  p3 = p3
  Calls = {c1, c2, c3}
  Procs = {p1, p2, p3}
  ProcOf <- OneEach
  NoCall = NoCall
  NoPid = NoPid
  StaleTicks = 2
  TimeoutTicks = 1
  OneRuntime = FALSE
INVARIANTS
  AcknowledgedIsStored
