SPECIFICATION MarshalSpec
CONSTANTS
  str = str  Empty = Empty  Null = Null  Freed = Freed
  Tables <- MCTables
  Pieces <- MCPieces
  Blocks <- MCBlocks
  MaxLen = 2
  Interfaces <- MCInterfaces
  Doubles <- MCDoubles
  IntMax = 1
INVARIANTS
  MemoryHolds OutDelivers InDelivers MappedOnce CycleDelivers
