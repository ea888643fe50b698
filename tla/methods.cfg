SPECIFICATION Spec
CONSTANTS
  Calls = {c1, c2, c3}
  Keys = {k1, k2}
  Publications = {p}
  Methods <- MCMethods
  Afters = 2
CHECK_DEADLOCK FALSE
INVARIANTS
  CachedIsCommitted
  AfterAdviceOnce
  EvictedStaysEvicted
SYMMETRY Symmetry
