SPECIFICATION Spec
CONSTANTS
  Objs = {o1, o2}
  Wraps = {w1, w2}
  Classes = {Base, Sub}
  BaseClass = Base
  NoObj = NoObj
  NoWrap = NoWrap
  NoClass = NoClass
  RewrapTrash = FALSE
  MaxNative = 1
  MaxHeld = 1
  MaxCalls = 0
  MaxPend = 1
SYMMETRY Symmetry
PROPERTIES
  KeepsPromise
  ClassKept
