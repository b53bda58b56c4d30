SPECIFICATION Spec
CONSTANTS
  Beat = 200
  Steps <- MCSteps
  Delays <- MCDelays
  Periods <- MCPeriods
  MaxItems = 2
  MaxTime = 2600
  TickMod = 12
  IntMax = 5
INVARIANTS
  RunCount
  InitTasksOnce
  NeverAhead
PROPERTIES
  MarshalMatchesRuns
  CallCatchesUp
  ImplementsDeadlines
  CallReturns
