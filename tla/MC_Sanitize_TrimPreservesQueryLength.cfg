CONSTANTS
  RefLens <- MCRefLens
  InputRecords <- MCInputRecords
  MaxCalls = 2
  FixChoices <- MCDefaultFixChoices
SPECIFICATION Spec
PROPERTY
  TrimPreservesQueryLength
