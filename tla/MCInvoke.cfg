SPECIFICATION Spec
CONSTANTS
  Sigs <- AllSigs
  Unknown <- NoName
  Inputs <- Values
  Outputs <- CValues
INVARIANTS
  TypeOK
  ArgumentsArrive
  ChildrenArrive
  ResultComplete
  NeverMisfreed
  
  FailureReleases
