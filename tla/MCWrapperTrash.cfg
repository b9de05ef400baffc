SPECIFICATION Spec
CONSTANTS
  Objs = {o1, o2}
  Wraps = {w1, w2}
  Classes = {Base}
  BaseClass = Base
  NoObj = NoObj
  NoWrap = NoWrap
  NoClass = NoClass
  RewrapTrash = TRUE
  MaxNative = 1
  MaxHeld = 1
  MaxCalls = 1
  MaxPend = 1
SYMMETRY Symmetry
PROPERTY AttributesKept
