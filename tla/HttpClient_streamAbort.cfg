SPECIFICATION Spec
CONSTANTS
  Reqs = {"stream", "sync"}
  Fetches = {}
  Owners = {"frame1"}
  Keys = {"k"}
  None = None
  OwnerOf <- MCOwnerOf
  KeyOf <- NoKeys
  SyncReqs = {"sync"}
  DocReqs = {}
  StreamReqs = {"stream"}
  ModuleReqs = {}
  ThrottledReqs = {}
  Conns = 1
  MaxHops = 0
  ServeMode = FALSE
  Hazards = {"streamAbortSync"}
INVARIANTS
  AssertsHold
