SPECIFICATION Spec
CONSTANTS
  Reqs = {"stream", "sync2", "mod"}
  Fetches = {}
  Owners = {"frame1", "frame2"}
  Keys = {"k"}
  None = None
  OwnerOf <- MCOwnerOf
  KeyOf <- NoKeys
  SyncReqs = {"sync2"}
  DocReqs = {}
  StreamReqs = {"stream"}
  ModuleReqs = {"mod"}
  ThrottledReqs = {}
  Conns = 1
  MaxHops = 0
  ServeMode = FALSE
  Hazards = {}
INVARIANTS
  AssertsHold
  NoZombie
  CallbackStacks
  OwnerLinks
  QueuesExact
PROPERTIES
  NothingAfterRetire
  ImplementsLifecycle
