CONSTANTS
  RefLens <- MCRefLens
  SanitizeFlags <- MCFixAll
  Templates <- MCReaderTemplates
  OptChoices <- MCDefaultOpts
SPECIFICATION Spec
INVARIANT
  NoAssertionFailure
