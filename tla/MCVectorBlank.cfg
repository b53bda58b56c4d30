SPECIFICATION VectorSpec
CONSTANTS
  Indices = {0, 1}
  Items = {0, 1}
  None = None
  InitialCapacity = 2
  MaxCapacity = 2
INVARIANT BlankIsZero
