SPECIFICATION Spec
CONSTANTS
  Reqs = {"a"}
  Fetches = {"f", "g"}
  Owners = {"frame1"}
  Keys = {"k"}
  None = None
  OwnerOf <- MCOwnerOf
  KeyOf <- BothKeys
  SyncReqs = {}
  DocReqs = {}
  StreamReqs = {}
  ModuleReqs = {}
  ThrottledReqs = {}
  Conns = 1
  MaxHops = 1
  ServeMode = TRUE
  Hazards = {}
INVARIANTS
  TypeOK
  PoolExact
  InterceptAnswerable
