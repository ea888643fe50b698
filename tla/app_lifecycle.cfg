SPECIFICATION FairSpec
CONSTANTS
  Tasks = {a, b}
  OnStart = {a}
  Stops = {s1, s2}
  Hooks = 1
  MaxListens = 2
INVARIANTS
  NoTaskForgotten TimersMatch FiresOnlyWhileListening
  DestroyedOnce UsersFirst CleanExit
PROPERTY StopSettles
