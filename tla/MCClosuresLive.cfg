SPECIFICATION MCFairSpec
CONSTANTS
  Objs = {o1, o2}
  Closures = {c1, c2}
  Funcs = {f1}
  Threads = {t1}
  NoObj = NoObj
  NoClosure = NoClosure
  NoFunc = NoFunc
  Overlap = FALSE
PROPERTY CyclesFreed
