SPECIFICATION Spec
CONSTANTS
  Requests = {r1}
  Alone = TRUE
  Values = {v}
  MaxIds = 3
  MaxObjects = 4
INVARIANTS
  CarefulLeavesNone
PROPERTY
  ImplementsSession
