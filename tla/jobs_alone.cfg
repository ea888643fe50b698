SPECIFICATION Spec
CONSTANTS
  Jobs = {j1, j2}
  Pollers = {p1}
  MaxAttempts = 3
  MaxWait = 2
  Backoff <- MCBackoff
  Delays = {0, 1}
  MaxCrashes = 0
PROPERTIES
  RunsOnlyDue
  ImplementsLifecycle
