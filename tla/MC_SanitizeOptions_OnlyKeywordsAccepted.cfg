CONSTANTS
  Inputs <- MCInputs
SPECIFICATION Spec
INVARIANT
  OnlyKeywordsAccepted
