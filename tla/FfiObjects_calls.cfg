SPECIFICATION Spec
CONSTANTS
  Lookalikes <- MCLookalikes
  HostNames <- MCHostNames
  PortNumber <- MCPortNumber
  Unmappable <- MCUnmappable
  Absolutes <- MCAbsolutes
  References <- MCReferences
  HostTexts <- MCHostTexts
  PortTexts <- MCPortTexts
  Queries <- MCQueries
  Names <- MCNames
  Pids = {1, 2}
  Chunks <- MCChunks
  MaxOps = 5
INVARIANTS
  BoxesExact
  QueryInSync
  JoinGuarded
  StreamedSame
PROPERTIES
  HostAtomic
CHECK_DEADLOCK FALSE
