SPECIFICATION Spec
CONSTANTS
  Objs = {o1, o2}
  Closures = {c1, c2}
  Funcs = {f1}
  Threads = {t1, t2}
  NoObj = NoObj
  NoClosure = NoClosure
  NoFunc = NoFunc
  Overlap = FALSE
SYMMETRY Symmetry
INVARIANTS
  TypeOK
  ListExact
  RefsOwned
  
