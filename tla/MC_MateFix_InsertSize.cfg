CONSTANTS
  Templates <- MCStaleTemplates
  OptChoices <- MCDefaultOpts
SPECIFICATION Spec
INVARIANT
  InsertSizeWhenBothMapped
