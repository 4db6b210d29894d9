CONSTANTS
  RefLens <- MCRefLens
  InputRecords <- MCInputRecords
  MaxCalls = 2
  FixChoices <- MCAllFixChoices
SPECIFICATION Spec
INVARIANTS
  TypeOK
  MappedWithinReference
  TrimMatchesReference
PROPERTIES
  SanitizeIdempotent
