SPECIFICATION Spec
CONSTANTS
  Objs = {o1}
  Closures = {c1, c2}
  Funcs = {f1}
  Threads = {t1}
  NoObj = NoObj
  NoClosure = NoClosure
  NoFunc = NoFunc
  Overlap = FALSE
INVARIANT ClearInvalidates
