SPECIFICATION CollectionsSpec
CONSTANTS
  Indices = {0, 1, 2}
  Items = {0, 1, 2}
  None = None
  InitialCapacity = 1
  MaxCapacity = 4
  NodeIds <- MCNodeIds
  d = d  e = e
  Data = {d, e}
  NoId = NoId
  FreeNode = FreeNode
  Keys <- MCKeys
  Hashes = {0, 3, 7}
  Values = {d, e}
  AltValues = {}
  Null = Null
  NoNode = NoNode
  Sizes = {1, 2}
  MaxNodes = 8
  MaxUsed = 4
  Inputs <- MCInputs
  Functions <- MCFunctions
  MaxFuncs = 3
INVARIANTS FindsKey FirstInFirstOut EntriesInOrder PassesOwn
PROPERTY ImplementsEntries
