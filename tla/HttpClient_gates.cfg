SPECIFICATION FairSpec
CONSTANTS
  Reqs = {"doc", "sync"}
  Fetches = {"f"}
  Owners = {"frame1"}
  Keys = {"k"}
  None = None
  OwnerOf <- MCOwnerOf
  KeyOf <- RobotsKey
  SyncReqs = {"sync"}
  DocReqs = {"doc"}
  StreamReqs = {}
  ModuleReqs = {}
  ThrottledReqs = {"doc"}
  Conns = 1
  MaxHops = 0
  ServeMode = FALSE
  Hazards = {}
INVARIANTS
  GatesServed
PROPERTIES
  StackUnwinds
  KeepsLifecycle
