SPECIFICATION FairSpec
CONSTANTS
  r1 = r1
  r2 = r2
  ReadError = ReadError
  Names <- MCNames
  Inputs <- MCInputs
  MaxInput = 3
INVARIANTS
  TypeOK
  NoRecordLostOrDuplicated
  GroupsAreNameRuns
  SlotsOwnDistinctBuffers
PROPERTIES
  GroupByNameSpec
