CONSTANTS
  Templates <- MCTemplates
  OptChoices <- MCDefaultOpts
SPECIFICATION Spec
INVARIANT
  NoNullDereference
