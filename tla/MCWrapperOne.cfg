SPECIFICATION Spec
CONSTANTS
  Objs = {o1}
  Wraps = {w1, w2, w3}
  Classes = {Base}
  BaseClass = Base
  NoObj = NoObj
  NoWrap = NoWrap
  NoClass = NoClass
  RewrapTrash = FALSE
  MaxNative = 1
  MaxHeld = 1
  MaxCalls = 1
  MaxPend = 1
SYMMETRY Symmetry
INVARIANTS
  TypeOK
  RefsOwned
  NotifiedLive
  OneWrapper
  PyRefsOwned
PROPERTIES
  AttributesKept

