CONSTANTS
  Inputs <- MCInputs
SPECIFICATION Spec
INVARIANTS
  TypeOK
  AcceptedListsParsedAsReference
