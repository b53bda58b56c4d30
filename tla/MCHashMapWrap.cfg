SPECIFICATION Spec
CONSTANTS
  k1 = k1  k2 = k2  k3 = k3
  v = v  w = w
  Null = Null
  NoNode = NoNode
  Keys <- MCKeys
  Hashes <- MCHashes
  Values <- MCValues
  AltValues <- MCNoAltValues
  Sizes <- MCRoomy
  MaxNodes = 16
  MaxUsed = 3
INVARIANT GetFindsKey
