SPECIFICATION Spec
CONSTANTS
  c1 = c1
  c2 = c2
  c3 = c3
  Calls = {c1, c2, c3}
  NoHolder = NoHolder
  LeaseTicks = 1
  TimeoutTicks = 0
  RetryLimit = 2
SYMMETRY CallSymmetry
CONSTRAINT FewFailures
INVARIANTS
  StoreInvariant
PROPERTIES
  WritesExtendHistory
  ImplementsAtomicMutation
