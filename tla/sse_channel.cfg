SPECIFICATION FairSpec
CONSTANTS
  Streams = {s1, s2}
  MaxEvents = 3
  KeepAlive = TRUE
CHECK_DEADLOCK FALSE
INVARIANTS
  NoLostWakeup
  InOrderOnce
  HeartbeatIsSafe
PROPERTIES
  ImplementsFifo
  EventsArrive
