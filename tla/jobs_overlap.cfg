SPECIFICATION Spec
CONSTANTS
  Jobs = {j1}
  Pollers = {p1, p2}
  MaxAttempts = 2
  MaxWait = 2
  Backoff <- MCBackoff
  Delays = {0, 1}
  MaxCrashes = 0
PROPERTY TerminalIsFinal
