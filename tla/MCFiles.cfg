SPECIFICATION Spec
CONSTANTS
  a = a  b = b  x = x  y = y  V = V  U = U  foo = foo  bar = bar  l = l  p = p  q = q
  A = A  B = B  f = f  g = g  h1 = h1  h2 = h2  NoName = NoName  NoHeader = NoHeader
  HeaderPaths = {h1, h2}
  Headers <- MCHeaderFiles
  MaxParses = 2
  Empty = Empty  Bad = Bad  NoFile = NoFile
  CsvFiles <- MCCsvFiles
  Cells <- MCCells
  LineMax = 4
  Eq = Eq  Hash = Hash  Space = Space  Dollar = Dollar  Default = Default  Brace = Brace
  IniKeys <- MCIniKeys
  Env <- MCEnv
  IniValues <- MCValues
  IniFiles <- MCIniFiles
  ChunkMax = 8
  ExpandMax = 4
  Names <- MCNames
  Groups <- MCGroups
  RecordIds = {1, 2}
  MaxRecords = 2
  Paths = {p, q}
  Kinds = {"Model", "Stack", "Other"}
  KnownKinds = {"Model", "Stack"}
  DocNames = {foo, bar}
  Labels = {l}
  Disks <- MCDisks
  Specs = {"old", "new"}
  MaxAdds = 4
  Texts <- MCTexts
  Number <- MCNumber
  Truth <- MCTruth
  Decimal <- MCDecimal
  Expands <- MCExpands
  NoValue = NoValue
  UintMax = 7
  MaxStrings = 6
  ByteBase = 5
  DigitBase = 4
  Z = Z
  Sources <- MCSources
INVARIANTS
  RowPerCall IniHolds FileReadsBack SavesWhatIsSeen AnswersHold RoundTrips
  IndexIsOfHeader
