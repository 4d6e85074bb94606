SPECIFICATION Spec
CONSTANTS
  Slots = {"i1", "i2"}
  Conns = {"c1"}
  Sessions = {"s1"}
  None = None
  MaxLive = 2
  Backlog = 1
  Reaper = TRUE
  Watchdog = FALSE
INVARIANTS
  AssertsHold
  NoLostWakeup
  LinksOwned
  Accounts
PROPERTIES
  StopExplained
