SPECIFICATION FairSpec
CONSTANTS
  Slots = {"i1"}
  Conns = {"c1"}
  Sessions = {"s1"}
  None = None
  MaxLive = 2
  Backlog = 0
  Reaper = TRUE
  Watchdog = TRUE
PROPERTIES
  EndsWhenTold
  ShutdownEnds
