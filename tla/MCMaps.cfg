SPECIFICATION MapsSpec
CONSTANTS
  k1 = k1  k2 = k2  k3 = k3
  v = v  w = w
  Null = Null
  NoNode = NoNode
  Keys <- MCKeys
  Hashes <- MCHashes
  Values <- MCValues
  AltValues <- MCNoAltValues
  Sizes <- MCSizes
  MaxNodes = 16
  MaxUsed = 3
  Strings = {kind, a}
  Kind = kind
  Ids = {n1, n2, n3, n4}
  Nil = Nil
  MaxDocs = 2
  MaxPath = 3
  MaxLost = 2
SYMMETRY MCSymmetry
INVARIANTS
  KeysFit CountsMatch GetReturnsHeld OneNodePerKey
  OnePassSettles ReportsHold
  HeldOnce SearchesFind
PROPERTY ImplementsDocs
