SPECIFICATION MdfSpec
CONSTANTS
  Names = {7, 8}
  Groups <- MCGroups
  RecordIds = {1, 2}
  MaxRecords = 1
INVARIANT LengthsDeclared
