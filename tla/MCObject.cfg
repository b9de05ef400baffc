SPECIFICATION ObjectSpec
CHECK_DEADLOCK FALSE
CONSTANTS
  t1 = t1
  t2 = t2
  Threads = {t1, t2}
  Nobody = Nobody
  Worlds <- AllWorlds
  Makers = {t1, t2}
  Objects = {o1, o2}
  Wrappers = {w1, w2}
  Classes = {"native", "python", "derived"}
  Levels <- MCLevels
  Unowned = {"native", "derived"}
  MaxDepth = 3
  Reentrant = FALSE
  NoObject = NoObject
  NoWrapper = NoWrapper
  NoClass = NoClass
  Targets = {o1, o2}
  Bindings = {o2}
  Refs = {r1, r2}
  Garbage = {FALSE}
  Careless = FALSE
  NoTarget = NoTarget
  Loaders = {t1, t2}
  GTypes = {"object", "action", "application", "gtkapplication", "hidden", "own"}
  Root = "object"
  Parents <- MCParents
  Written = {"own"}
  Space <- MCSpace
  Spaces = {"GObject", "Gio", "Gtk"}
  Depends <- MCDepends
  Overrides <- MCOverrides
  Premature = FALSE
  Twice = FALSE
  NoSpace = "none"
  NoType = "none"
INVARIANTS
  TypesOK
  
  
  OwnErrors
  FreezeBalanced
  OwnObject
  InitialisedOnce
  StillThere
  Registered
  KeepsItself
  CalledUnlessUnreffed
  InstancesBelong
PROPERTIES
  CallsReturn
