SPECIFICATION FairSpec
CONSTANTS
  a = a
  b = b
  r = r
  Classes = {a, b, r}
  Bindings <- MCBindings
  Factories = {f}
  Requests = {q1, q2}
  MaxBuilds = 4
CHECK_DEADLOCK FALSE
INVARIANTS
  OneInstance
  ContextMatchesStack
  DependenciesFirst
  ReadyMeansInitialized
PROPERTY BootSettles
