SPECIFICATION Spec
CHECK_DEADLOCK FALSE
CONSTANTS
  t1 = t1
  t2 = t2
  n1 = n1
  PyThreads = {t1, t2}
  NativeThreads = {n1}
  Programs <- AllPrograms
SYMMETRY Alike
INVARIANTS
  TypeOK
  NeverFreedInUse
  FunctionHeld
  EndedAreListed
  
  ResultsArrive
