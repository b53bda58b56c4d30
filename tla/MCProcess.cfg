SPECIFICATION Spec
CONSTANTS
  p1 = p1  p2 = p2  p3 = p3
  NoPid = NoPid
  LastDesc = 2
  Pids <- MCPids
  Codes <- MCCodes
INVARIANTS
  PidsAreChildren ChildrenAreKnown
PROPERTIES
  WaitAllReaps OwnStatus WaitAllReturns
CHECK_DEADLOCK FALSE
