SPECIFICATION Spec
CONSTANTS
  Sigs <- PlainSigs
  Unknown <- NoName
  Inputs <- Values
  Outputs <- CValues
INVARIANT ProcessedStringsFreed
