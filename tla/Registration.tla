---------------------------- MODULE Registration ----------------------------
(***************************************************************************)
(* Which Python class stands for a GType: the class kept with the GType,   *)
(* the module gi.repository.X that makes introspected classes on demand,   *)
(* the overrides that replace some of them while that module is loaded,    *)
(* the classes made for GTypes no typelib describes, and the GTypes made   *)
(* for classes written in Python.                                          *)
(*                                                                         *)
(* Making one class asks for the classes of its parents, which may load a  *)
(* module, whose overrides make further classes: a thread has a stack of   *)
(* these.  They are Python code, so threads take turns between the steps.  *)
(***************************************************************************)
EXTENDS Naturals, Sequences

CONSTANTS
  Loaders,    \* threads
  GTypes,
  Root,       \* G_TYPE_OBJECT
  Parents,    \* the parent of a GType, then its interfaces
  Written,    \* the GTypes registered for classes written in Python
  Space,      \* the namespace whose typelib describes a GType
  Spaces,
  Depends,    \* the typelibs that are loaded with a namespace's own
  Overrides,  \* the GTypes that gi/overrides/<namespace>.py overrides, in its order
  Premature,  \* whether a module or an object may be used before what describes it is loaded
  Twice,      \* whether two threads may make a class for the same GType
  NoSpace, NoType

VARIABLES
  classes,    \* the Python classes made so far; others are referred to by position, 0 is no class
  pytype,     \* qdata pygobject_class_key (pyginterface_type_key) of a GType
  cached,     \* IntrospectionModule.__dict__
  registry,   \* gi.overrides.registry
  typelibs,   \* the namespaces known to GIRepository
  module,     \* gi.repository.X
  making,     \* what each thread is at, innermost last
  worn        \* the classes of the wrapped instances of a GType
regvars == <<classes, pytype, cached, registry, typelibs, module, making, worn>>

\* A GType with its ancestors and interfaces: the smallest set that has it and their parents.
Closed(S) == \A ty \in S : \A i \in DOMAIN Parents[ty] : Parents[ty][i] \in S
Kin[ty \in GTypes] == {p \in GTypes : \A S \in SUBSET GTypes : ty \in S /\ Closed(S) => p \in S}

Described(ty) == Space[ty] # NoSpace
Static == 1     \* gobject.GObject, registered with pygobject_register_class

\* A GType is registered after its parents.
ASSUME ParentsAssumption ==
  /\ Root \in GTypes /\ NoType \notin GTypes /\ Parents \in [GTypes -> Seq(GTypes)]
  /\ \A ty \in GTypes : \A i \in DOMAIN Parents[ty] : ty \notin Kin[Parents[ty][i]]

\* What a typelib describes has parents that it or one it depends on describes.
ASSUME SpacesAssumption ==
  /\ NoSpace \notin Spaces /\ Space \in [GTypes -> Spaces \cup {NoSpace}]
  /\ Depends \in [Spaces -> SUBSET Spaces]
  /\ \A s \in Spaces : s \notin Depends[s] /\ \A d \in Depends[s] : Depends[d] \subseteq Depends[s]
  /\ \A ty \in GTypes : Described(ty) =>
       ty \notin Written /\ \A p \in Kin[ty] : Space[p] \in {Space[ty]} \cup Depends[Space[ty]]

\* An overrides module defines classes of its own namespace, each after those of its ancestors;
\* that of GObject has one for the root.
ASSUME OrderAssumption ==
  /\ Overrides \in [Spaces -> Seq(GTypes)] /\ Described(Root)
  /\ \E i \in DOMAIN Overrides[Space[Root]] : Overrides[Space[Root]][i] = Root
  /\ \A s \in Spaces : \A i, j \in DOMAIN Overrides[s] :
       /\ Space[Overrides[s][i]] = s
       /\ Overrides[s][i] \in Kin[Overrides[s][j]] => i <= j

Making == [what : {"load", "introspected", "demand", "wrap"}, of : GTypes \cup Spaces,
           left : Seq(GTypes), bases : Seq(Nat), checked : BOOLEAN]
RegTypeOK ==
  /\ classes \in Seq([info : GTypes \cup {NoType}, mro : SUBSET (DOMAIN classes)])
  /\ {pytype, cached, registry} \subseteq [GTypes -> {0} \cup DOMAIN classes]
  /\ typelibs \subseteq Spaces
  /\ module \in [Spaces -> {"absent", "loading", "loaded"}]
  /\ making \in [Loaders -> Seq(Making)]
  /\ worn \in [GTypes -> SUBSET DOMAIN classes]

RegInit ==
  /\ classes = <<[info |-> NoType, mro |-> {Static}]>>
  /\ pytype = [ty \in GTypes |-> IF ty = Root THEN Static ELSE 0]
  /\ cached = [ty \in GTypes |-> 0] /\ registry = [ty \in GTypes |-> 0]
  /\ typelibs = {} /\ module = [s \in Spaces |-> "absent"]
  /\ making = [t \in Loaders |-> << >>] /\ worn = [ty \in GTypes |-> {}]

Active(t) == making[t] # << >>
Current(t) == making[t][Len(making[t])]
Enter(t, frame) == making' = [making EXCEPT ![t] = Append(@, frame)]
Leave(t) == making' = [making EXCEPT ![t] = SubSeq(@, 1, Len(@) - 1)]
Becomes(t, frame) == making' = [making EXCEPT ![t] = Append(SubSeq(@, 1, Len(@) - 1), frame)]

\* A new class: an info of its own, or the one its first base has (getattr(cls, '__info__')).
NewClass(info, bases) ==
  /\ classes' = Append(classes,
       [info |-> IF info = NoType /\ bases # << >> THEN classes[bases[1]].info ELSE info,
        mro |-> {Len(classes) + 1} \cup UNION {classes[bases[i]].mro : i \in DOMAIN bases}])
New == Len(classes) + 1

(***************************************************************************)
(* Attributes of modules.                                                  *)
(***************************************************************************)
\* DynamicModule.__getattr__: what the overrides define comes first, also while they load.
Attribute(ty) == IF registry[ty] # 0 THEN registry[ty] ELSE cached[ty]

\* gi.repository.X is made, its typelib loaded, and its overrides begin to run.
Load(t, s) ==
  /\ Enter(t, [what |-> "load", of |-> s, left |-> Overrides[s], bases |-> << >>, checked |-> FALSE])
  /\ module' = [module EXCEPT ![s] = "loading"] /\ typelibs' = typelibs \cup {s} \cup Depends[s]
  /\ UNCHANGED <<classes, pytype, cached, registry, worn>>

Entered(what, ty) ==
  [what |-> what, of |-> ty, left |-> Parents[ty], checked |-> FALSE,
   bases |-> IF what = "introspected" /\ ty = Root THEN <<Static>> ELSE << >>]
NotTwice(t, ty) ==
  Twice \/ \A u \in Loaders \ {t} : \A i \in DOMAIN making[u] :
             making[u][i].what \in {"introspected", "demand"} => making[u][i].of # ty
MakeClass(t, what, ty) ==
  /\ NotTwice(t, ty) /\ Enter(t, Entered(what, ty))
  /\ UNCHANGED <<classes, pytype, cached, registry, typelibs, module, worn>>

\* The class asked for is there.
Take(t, class) ==
  /\ LET f == Current(t)
     IN Becomes(t, [f EXCEPT !.bases = Append(@, class), !.left = Tail(@)])
  /\ UNCHANGED <<classes, pytype, cached, registry, typelibs, module, worn>>

\* The thread that loads a module is the one that uses it.
Loads(t, s) == \E i \in DOMAIN making[t] : making[t][i].what = "load" /\ making[t][i].of = s
NotLoading(t, s) == Premature \/ module[s] # "loading" \/ Loads(t, s)

\* The parent is taken from the IntrospectionModule, overridden or not.
GetIntrospected(t, ty) ==
  \/ module[Space[ty]] = "absent" /\ Load(t, Space[ty])
  \/ /\ module[Space[ty]] # "absent" /\ NotLoading(t, Space[ty])
     /\ \/ cached[ty] # 0 /\ Take(t, cached[ty])
        \/ cached[ty] = 0 /\ MakeClass(t, "introspected", ty)

\* __import__('gi.repository.X') and getattr(module, name).
GetAttribute(t, ty) ==
  \/ module[Space[ty]] = "absent" /\ Load(t, Space[ty])
  \/ /\ module[Space[ty]] # "absent" /\ NotLoading(t, Space[ty])
     /\ \/ Attribute(ty) # 0 /\ Take(t, Attribute(ty))
        \/ Attribute(ty) = 0 /\ MakeClass(t, "introspected", ty)

\* pygobject_lookup_class.
LookupClass(t, ty) ==
  \/ pytype[ty] # 0 /\ (Described(ty) => NotLoading(t, Space[ty])) /\ Take(t, pytype[ty])
  \/ /\ pytype[ty] = 0
     /\ IF Described(ty) /\ Space[ty] \in typelibs THEN GetAttribute(t, ty) ELSE MakeClass(t, "demand", ty)

(***************************************************************************)
(* IntrospectionModule.__getattr__: first the bases, then the check for a  *)
(* class made in some other way, then the class.                           *)
(***************************************************************************)
IntrospectBase(t) ==
  /\ Active(t) /\ Current(t).what = "introspected" /\ Current(t).left # << >>
  /\ GetAttribute(t, Current(t).left[1])

\* There is a class already, and it is none of the bases.
IntrospectExisting(t) ==
  /\ Active(t)
  /\ LET f == Current(t) IN
     /\ f.what = "introspected" /\ f.left = << >> /\ ~f.checked
     /\ IF pytype[f.of] # 0 /\ \A i \in DOMAIN f.bases : f.bases[i] # pytype[f.of]
        THEN Leave(t) /\ cached' = [cached EXCEPT ![f.of] = pytype[f.of]]
        ELSE Becomes(t, [f EXCEPT !.checked = TRUE]) /\ UNCHANGED cached
  /\ UNCHANGED <<classes, pytype, registry, typelibs, module, worn>>

IntrospectClass(t) ==
  /\ Active(t)
  /\ LET f == Current(t) IN
     /\ f.what = "introspected" /\ f.checked
     /\ NewClass(f.of, f.bases) /\ Leave(t)
     /\ pytype' = [pytype EXCEPT ![f.of] = New] /\ cached' = [cached EXCEPT ![f.of] = New]
  /\ UNCHANGED <<registry, typelibs, module, worn>>

(***************************************************************************)
(* The overrides module runs: class X(Mod.X), and override(X), which gives *)
(* the class to the GType of the info it finds.                            *)
(***************************************************************************)
OverrideBase(t) ==
  /\ Active(t) /\ Current(t).what = "load" /\ Current(t).left # << >>
  /\ cached[Current(t).left[1]] = 0 /\ MakeClass(t, "introspected", Current(t).left[1])

Override(t) ==
  /\ Active(t)
  /\ LET f == Current(t)  ty == f.left[1]  base == cached[ty] IN
     /\ f.what = "load" /\ f.left # << >> /\ base # 0 /\ classes[base].info # NoType
     /\ NewClass(NoType, <<base>>)
     /\ pytype' = [pytype EXCEPT ![classes[base].info] = New]
     /\ registry' = [registry EXCEPT ![ty] = New]
     /\ Becomes(t, [f EXCEPT !.left = Tail(@)])
  /\ UNCHANGED <<cached, typelibs, module, worn>>

Loaded(t) ==
  /\ Active(t) /\ Current(t).what = "load" /\ Current(t).left = << >> /\ Leave(t)
  /\ module' = [module EXCEPT ![Current(t).of] = "loaded"]
  /\ UNCHANGED <<classes, pytype, cached, registry, typelibs, worn>>

(***************************************************************************)
(* pygobject_new_with_interfaces, for a GType that no typelib describes.   *)
(***************************************************************************)
DemandBase(t) ==
  /\ Active(t) /\ Current(t).what = "demand" /\ Current(t).left # << >>
  /\ LookupClass(t, Current(t).left[1])
DemandClass(t) ==
  /\ Active(t)
  /\ LET f == Current(t) IN
     /\ f.what = "demand" /\ f.left = << >>
     /\ NewClass(NoType, f.bases) /\ Leave(t) /\ pytype' = [pytype EXCEPT ![f.of] = New]
  /\ UNCHANGED <<cached, registry, typelibs, module, worn>>

(***************************************************************************)
(* What programs do.                                                       *)
(***************************************************************************)
Import(t, s) == ~Active(t) /\ module[s] = "absent" /\ Load(t, s)
Use(t, ty) ==
  /\ ~Active(t) /\ Described(ty) /\ module[Space[ty]] # "absent" /\ NotLoading(t, Space[ty])
  /\ Attribute(ty) = 0 /\ MakeClass(t, "introspected", ty)

\* A class written in Python: its metaclass calls pyg_type_register.
Subclass(t, ty) ==
  /\ ~Active(t) /\ ty \in Written /\ pytype[ty] = 0
  /\ \A i \in DOMAIN Parents[ty] : LET p == Parents[ty][i] IN NotLoading(t, Space[p]) /\ Attribute(p) # 0
  /\ NewClass(NoType, [i \in DOMAIN Parents[ty] |-> Attribute(Parents[ty][i])])
  /\ pytype' = [pytype EXCEPT ![ty] = New]
  /\ UNCHANGED <<cached, registry, typelibs, module, making, worn>>

\* Native code hands an instance to Python.
WrapInstance(t, ty) ==
  /\ ~Active(t) /\ worn[ty] = {} /\ Root \in Kin[ty] /\ (ty \in Written => pytype[ty] # 0)
  /\ Premature \/ /\ module[Space[Root]] = "loaded"
                  /\ \A p \in Kin[ty] : Described(p) => Space[p] \in typelibs
  /\ Enter(t, [what |-> "wrap", of |-> ty, left |-> <<ty>>, bases |-> << >>, checked |-> FALSE])
  /\ UNCHANGED <<classes, pytype, cached, registry, typelibs, module, worn>>
WrapClass(t) == /\ Active(t) /\ Current(t).what = "wrap" /\ Current(t).left # << >>
                /\ LookupClass(t, Current(t).of)
InstanceWrapped(t) ==
  /\ Active(t)
  /\ LET f == Current(t) IN
     f.what = "wrap" /\ f.left = << >> /\ Leave(t) /\ worn' = [worn EXCEPT ![f.of] = @ \cup {f.bases[1]}]
  /\ UNCHANGED <<classes, pytype, cached, registry, typelibs, module>>

RegNext == \E t \in Loaders :
  \/ IntrospectBase(t) \/ IntrospectExisting(t) \/ IntrospectClass(t)
  \/ OverrideBase(t) \/ Override(t) \/ Loaded(t)
  \/ DemandBase(t) \/ DemandClass(t)
  \/ WrapClass(t) \/ InstanceWrapped(t)
  \/ \E s \in Spaces : Import(t, s)
  \/ \E ty \in GTypes : Use(t, ty) \/ Subclass(t, ty) \/ WrapInstance(t, ty)

RegSpec == RegInit /\ [][RegNext]_regvars

\* An instance belongs to the class that a program gets from the module for its GType and for
\* each of its ancestors and interfaces, whenever and by whatever way these classes came to be.
\* The test test_gobject.py:29 expects it of one class.
InstancesBelong ==
  \A ty \in GTypes : \A c \in worn[ty] : \A p \in Kin[ty] :
    Described(p) /\ module[Space[p]] = "loaded" /\ Attribute(p) # 0 => Attribute(p) \in classes[c].mro
=============================================================================
