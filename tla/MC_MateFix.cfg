CONSTANTS
  Templates <- MCTemplates
  OptChoices <- MCOptChoices
SPECIFICATION Spec
INVARIANTS
  TypeOK
  MateFieldsSynchronized
  ProperPairOnlyIfPlausible
  RemovalLeavesNoOrphans
