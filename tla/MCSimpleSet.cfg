SPECIFICATION Spec
CONSTANTS
  k1 = k1  k2 = k2  k3 = k3
  NoKey = NoKey
  Keys <- MCKeys
  Hashes <- MCHashes
  Sizes <- MCSizes
  MaxNodes = 8
SYMMETRY MCSymmetry
INVARIANTS
  HoldsWhatWasGiven AlgebraIsMeant
