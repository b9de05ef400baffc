---------------------------- MODULE Construction ----------------------------
(***************************************************************************)
(* How a GObject and its Python wrapper come together: constructed from    *)
(* Python (pygobject_constructv), from native code (the orphan wrapper of  *)
(* pygobject__g_instance_init), or wrapped later (pygobject_new_full).     *)
(*                                                                         *)
(* A Python constructor leaves its wrapper in a thread-local slot, where   *)
(* the instance initialisers of the classes written in Python look for it. *)
(* Constructors nest: __init__, property setters and the finalizers that   *)
(* an allocation may run construct other objects.  Wrapper has the         *)
(* outcomes of all this as single steps; here are the steps.               *)
(***************************************************************************)
EXTENDS Naturals, Sequences, FiniteSets

CONSTANTS
  Makers,     \* threads
  Objects, Wrappers,
  Classes,
  Levels,     \* how many classes of a class's ancestry, itself included, are written in Python
  Unowned,    \* the classes derived from GInitiallyUnowned
  MaxDepth,   \* how deep constructors and allocations nest on a thread
  Reentrant,  \* whether an object may get to Python before it has its wrapper
  NoObject, NoWrapper, NoClass

ASSUME LevelsAssumption == Levels \in [Classes -> Nat]
ASSUME AbsentAssumption == NoObject \notin Objects /\ NoWrapper \notin Wrappers /\ NoClass \notin Classes
ASSUME DepthAssumption == MaxDepth \in Nat
\* The other owners of an object are told apart from its wrappers.
ASSUME OwnersAssumption == Wrappers \cap {"maker", "native"} = {}

VARIABLES
  slot,      \* pygobject_construction_wrapper of each thread
  stack,     \* the constructors, orphans' __init__ and allocations a thread is in
  class,     \* the class of each object; NoClass: there is no object
  floating,  \* the objects with a floating reference
  owners,    \* who has a reference: "maker" (g_object_new in progress), "native", wrappers
  qwrap,     \* qdata pygobject_wrapper_key
  inits,     \* how many __init__ have been run for the object
  bound,     \* PyGObject.obj
  kept,      \* what refers to a wrapper: "variable", "frame", "float" (IS_FLOATING_REF)
  dict       \* the wrappers with an instance dictionary
birthvars == <<slot, stack, class, floating, owners, qwrap, inits, bound, kept, dict>>

Frames == [kind : {"construct", "init", "wrap"}, w : Wrappers \cup {NoWrapper}, obj : Objects,
           left : Nat, stage : {"parents", "rest"}]
BirthTypeOK ==
  /\ slot \in [Makers -> Wrappers \cup {NoWrapper}]
  /\ stack \in [Makers -> Seq(Frames)] /\ \A t \in Makers : Len(stack[t]) <= MaxDepth
  /\ class \in [Objects -> Classes \cup {NoClass}]
  /\ floating \subseteq Objects
  /\ owners \in [Objects -> SUBSET ({"maker", "native"} \cup Wrappers)]
  /\ qwrap \in [Objects -> Wrappers \cup {NoWrapper}]
  /\ inits \in [Objects -> Nat]
  /\ bound \in [Wrappers -> Objects \cup {NoObject}]
  /\ kept \in [Wrappers -> SUBSET {"variable", "frame", "float"}]
  /\ dict \subseteq Wrappers

BirthInit ==
  /\ slot = [t \in Makers |-> NoWrapper] /\ stack = [t \in Makers |-> << >>]
  /\ class = [o \in Objects |-> NoClass] /\ floating = {}
  /\ owners = [o \in Objects |-> {}] /\ qwrap = [o \in Objects |-> NoWrapper]
  /\ inits = [o \in Objects |-> 0]
  /\ bound = [w \in Wrappers |-> NoObject] /\ kept = [w \in Wrappers |-> {}] /\ dict = {}

(***************************************************************************)
(* Scheduling.  A constructor holds the GIL, or is native, until the       *)
(* instance initialisers are through ("parents"); after that, and in       *)
(* __init__ and in finalizers, Python code may run and lose the GIL.       *)
(***************************************************************************)
Top(t) == stack[t][Len(stack[t])]
Busy(t) == stack[t] # << >> /\ Top(t).stage = "parents"
InFrame(o) == \E t \in Makers : \E i \in DOMAIN stack[t] : stack[t][i].obj = o
\* A constructor of the thread whose wrapper has no object yet.
Unbound(t) == \E i \in DOMAIN stack[t] : stack[t][i].w # NoWrapper /\ bound[stack[t][i].w] = NoObject
\* tp_dealloc is due: nothing refers to the wrapper, nor does a toggle reference.
Dead(w) == /\ bound[w] # NoObject /\ kept[w] = {}
           /\ w \in dict => owners[bound[w]] \subseteq {w}
Turn(t) == (\A w \in Wrappers : ~Dead(w)) /\ (\A u \in Makers \ {t} : ~Busy(u))
Runs(t) == Turn(t) /\ (Reentrant \/ ~Busy(t))
Unused(w) == bound[w] = NoObject /\ kept[w] = {}
Push(t, frame) == stack' = [stack EXCEPT ![t] = Append(@, frame)]
Pop(t) == stack' = [stack EXCEPT ![t] = SubSeq(@, 1, Len(@) - 1)]

\* g_object_newv allocates the object; references are released one by one.
Create(t, w, o, c) ==
  /\ class[o] = NoClass /\ ~InFrame(o) /\ Len(stack[t]) < MaxDepth
  /\ class' = [class EXCEPT ![o] = c] /\ owners' = [owners EXCEPT ![o] = {"maker"}]
  /\ floating' = IF c \in Unowned THEN floating \cup {o} ELSE floating
  /\ inits' = [inits EXCEPT ![o] = 0]
  /\ Push(t, [kind |-> "construct", w |-> w, obj |-> o, left |-> Levels[c], stage |-> "parents"])
  /\ UNCHANGED <<qwrap, bound>>
Unowns(o, who) ==
  /\ owners' = [owners EXCEPT ![o] = @ \ {who}]
  /\ class' = IF owners[o] = {who} THEN [class EXCEPT ![o] = NoClass] ELSE class

\* pygobject_init and pygobject_constructv up to g_object_newv, from Python; the class's own
\* __init__ may have given the wrapper attributes before.
PyConstruct(t, w, o, c, attributes) ==
  /\ Runs(t) /\ Unused(w) /\ Create(t, w, o, c)
  /\ slot' = [slot EXCEPT ![t] = w] /\ kept' = [kept EXCEPT ![w] = {"frame"}]
  /\ dict' = IF attributes THEN dict \cup {w} ELSE dict

\* g_object_new by native code.
NativeConstruct(t, o, c) ==
  /\ Runs(t) /\ Create(t, NoWrapper, o, c)
  /\ Reentrant \/ Levels[c] = 0 \/ ~Unbound(t)
  /\ UNCHANGED <<slot, kept, dict>>

(***************************************************************************)
(* pygobject__g_instance_init runs once for each Python class of the       *)
(* ancestry.  The first takes the wrapper from the slot, or makes an       *)
(* orphan, whose only reference floats, and runs __init__ on it.           *)
(***************************************************************************)
\* Mutant: one slot for all threads.
ForSlotShared(t) ==
  IF \E u \in Makers : slot[u] # NoWrapper THEN slot[CHOOSE u \in Makers : slot[u] # NoWrapper] ELSE NoWrapper
ForSlot(t) == slot[t]
Initialising(t) ==
  stack[t] # << >> /\ Turn(t) /\ Top(t).kind = "construct" /\ Top(t).stage = "parents" /\ Top(t).left > 0
NextLevel(t) == [stack EXCEPT ![t][Len(stack[t])].left = @ - 1]
\* Mutant: the slot is not reset.
EmptiedNot(t) == slot
Emptied(t) == [slot EXCEPT ![t] = NoWrapper]
Bind(w, o) == bound' = [bound EXCEPT ![w] = o] /\ qwrap' = [qwrap EXCEPT ![o] = w]

TakeSlot(t) ==
  /\ Initialising(t)
  /\ LET o == Top(t).obj
         w == ForSlot(t)
     IN  /\ qwrap[o] = NoWrapper /\ w # NoWrapper
         /\ IF bound[w] = NoObject THEN Bind(w, o) /\ inits' = [inits EXCEPT ![o] = @ + 1]
            ELSE UNCHANGED <<bound, qwrap, inits>>
  /\ stack' = NextLevel(t) /\ slot' = Emptied(t)
  /\ UNCHANGED <<class, floating, owners, kept, dict>>

HasWrapper(t) ==
  /\ Initialising(t) /\ qwrap[Top(t).obj] # NoWrapper
  /\ stack' = NextLevel(t) /\ slot' = Emptied(t)
  /\ UNCHANGED <<class, floating, owners, qwrap, inits, bound, kept, dict>>

\* What pygobject_new_full does with the references of an object it makes a wrapper for.
Sunk(w, o) == /\ owners' = [owners EXCEPT ![o] = (IF o \in floating THEN @ \ {"maker"} ELSE @) \cup {w}]
              /\ floating' = floating \ {o}
\* Mutant: pygobject_ref_float is not called.
OrphanedNotFloated == {"frame"}
Orphaned == {"frame", "float"}
Orphan(t, w) ==
  /\ Initialising(t) /\ Unused(w) /\ Len(stack[t]) < MaxDepth
  /\ LET o == Top(t).obj IN
     /\ qwrap[o] = NoWrapper /\ ForSlot(t) = NoWrapper
     /\ Bind(w, o) /\ Sunk(w, o) /\ inits' = [inits EXCEPT ![o] = @ + 1]
     /\ stack' = [NextLevel(t) EXCEPT ![t] =
                    Append(@, [kind |-> "init", w |-> w, obj |-> o, left |-> 0, stage |-> "rest"])]
  /\ slot' = Emptied(t) /\ kept' = [kept EXCEPT ![w] = Orphaned]
  /\ UNCHANGED <<class, dict>>

\* tp_init returns, or fails and its error is printed.
InitReturns(t) ==
  /\ stack[t] # << >> /\ Turn(t) /\ Top(t).kind = "init" /\ Pop(t)
  /\ kept' = [kept EXCEPT ![Top(t).w] = @ \ {"frame"}]
  /\ UNCHANGED <<slot, class, floating, owners, qwrap, inits, bound, dict>>

Initialised(t) ==
  /\ Busy(t) /\ Turn(t) /\ Top(t).left = 0
  /\ stack' = [stack EXCEPT ![t][Len(stack[t])].stage = "rest"]
  /\ UNCHANGED <<slot, class, floating, owners, qwrap, inits, bound, kept, dict>>

\* A constructor that keeps the object for native code (a window, say).
ConstructorSinks(t) ==
  /\ stack[t] # << >> /\ Turn(t) /\ Top(t).kind = "construct" /\ Top(t).stage = "rest"
  /\ LET o == Top(t).obj IN
     /\ o \in floating /\ floating' = floating \ {o}
     /\ owners' = [owners EXCEPT ![o] = (@ \ {"maker"}) \cup {"native"}]
  /\ UNCHANGED <<slot, stack, class, qwrap, inits, bound, kept, dict>>

(***************************************************************************)
(* The object is there.  The wrapper that constructed it takes over the    *)
(* reference of g_object_newv, or one of its own (pygobject_sink), and is  *)
(* registered unless an instance initialiser has done so; native code      *)
(* takes its reference, or sinks the object.                               *)
(***************************************************************************)
Constructed(t) == stack[t] # << >> /\ Turn(t) /\ Top(t).kind = "construct" /\ Top(t).stage = "rest" /\ Pop(t)
PyConstructed(t) ==
  /\ Constructed(t) /\ Top(t).w # NoWrapper
  /\ LET o == Top(t).obj
         w == Top(t).w
     IN  /\ owners' = [owners EXCEPT ![o] = (@ \ {"maker"}) \cup {w}] /\ floating' = floating \ {o}
         /\ kept' = [kept EXCEPT ![w] = (@ \ {"frame"}) \cup {"variable"}]
         /\ IF bound[w] = NoObject THEN Bind(w, o) /\ inits' = [inits EXCEPT ![o] = @ + 1]
            ELSE UNCHANGED <<bound, qwrap, inits>>
  /\ slot' = Emptied(t)
  /\ UNCHANGED <<class, dict>>
NativeConstructed(t) ==
  /\ Constructed(t) /\ Top(t).w = NoWrapper
  /\ owners' = [owners EXCEPT ![Top(t).obj] = (@ \ {"maker"}) \cup {"native"}]
  /\ floating' = floating \ {Top(t).obj}
  /\ UNCHANGED <<slot, class, qwrap, inits, bound, kept, dict>>

(***************************************************************************)
(* pygobject_new_full: native code hands an object to Python.  Allocating  *)
(* a wrapper may run the collector, and with it any Python code.           *)
(***************************************************************************)
Fetch(t, o) ==
  /\ Runs(t) /\ qwrap[o] # NoWrapper /\ (Reentrant \/ ~InFrame(o))
  /\ kept' = [kept EXCEPT ![qwrap[o]] = (@ \ {"float"}) \cup {"variable"}]
  /\ UNCHANGED <<slot, stack, class, floating, owners, qwrap, inits, bound, dict>>
BeginWrap(t, o) ==
  /\ Runs(t) /\ class[o] # NoClass /\ qwrap[o] = NoWrapper /\ (Reentrant \/ ~InFrame(o))
  /\ Len(stack[t]) < MaxDepth
  /\ Push(t, [kind |-> "wrap", w |-> NoWrapper, obj |-> o, left |-> 0, stage |-> "rest"])
  /\ UNCHANGED <<slot, class, floating, owners, qwrap, inits, bound, kept, dict>>
EndWrap(t, w) ==
  /\ stack[t] # << >> /\ Turn(t) /\ Top(t).kind = "wrap" /\ Unused(w) /\ Pop(t)
  /\ Bind(w, Top(t).obj) /\ Sunk(w, Top(t).obj) /\ kept' = [kept EXCEPT ![w] = {"variable"}]
  /\ UNCHANGED <<slot, class, inits, dict>>

\* What a program does with a wrapper that it can name, and native code with an object.
Names(w) == kept[w] \cap {"variable", "frame"} # {}
SetAttr(t, w) ==
  /\ Runs(t) /\ Names(w) /\ w \notin dict /\ dict' = dict \cup {w}
  /\ UNCHANGED <<slot, stack, class, floating, owners, qwrap, inits, bound, kept>>
Keep(t, w) ==
  /\ Runs(t) /\ kept[w] \cap {"variable", "frame"} = {"frame"} /\ bound[w] # NoObject
  /\ kept' = [kept EXCEPT ![w] = @ \cup {"variable"}]
  /\ UNCHANGED <<slot, stack, class, floating, owners, qwrap, inits, bound, dict>>
Drop(t, w) ==
  /\ Runs(t) /\ "variable" \in kept[w] /\ kept' = [kept EXCEPT ![w] = @ \ {"variable"}]
  /\ UNCHANGED <<slot, stack, class, floating, owners, qwrap, inits, bound, dict>>
NativeRef(t, w) ==
  /\ Runs(t) /\ Names(w) /\ bound[w] # NoObject /\ ~InFrame(bound[w])
  /\ "native" \notin owners[bound[w]] /\ owners' = [owners EXCEPT ![bound[w]] = @ \cup {"native"}]
  /\ UNCHANGED <<slot, stack, class, floating, qwrap, inits, bound, kept, dict>>
NativeUnref(o) ==
  /\ "native" \in owners[o] /\ ~InFrame(o) /\ Unowns(o, "native")
  /\ UNCHANGED <<slot, stack, floating, qwrap, inits, bound, kept, dict>>
Dealloc(w) ==
  /\ Dead(w) /\ Unowns(bound[w], w)
  /\ qwrap' = [qwrap EXCEPT ![bound[w]] = NoWrapper] /\ bound' = [bound EXCEPT ![w] = NoObject]
  /\ dict' = dict \ {w}
  /\ UNCHANGED <<slot, stack, floating, inits, kept>>

BirthNext ==
  \/ \E t \in Makers :
       \/ TakeSlot(t) \/ HasWrapper(t) \/ InitReturns(t) \/ Initialised(t) \/ ConstructorSinks(t)
       \/ PyConstructed(t) \/ NativeConstructed(t)
       \/ \E o \in Objects : Fetch(t, o) \/ BeginWrap(t, o) \/ \E c \in Classes : NativeConstruct(t, o, c)
       \/ \E w \in Wrappers :
            \/ Orphan(t, w) \/ EndWrap(t, w) \/ SetAttr(t, w) \/ Keep(t, w) \/ Drop(t, w) \/ NativeRef(t, w)
            \/ \E o \in Objects, c \in Classes, attributes \in BOOLEAN : PyConstruct(t, w, o, c, attributes)
  \/ \E o \in Objects : NativeUnref(o)
  \/ \E w \in Wrappers : Dealloc(w)
BirthSpec == BirthInit /\ [][BirthNext]_birthvars

(***************************************************************************)
(* A wrapper is bound to the object it constructed, whatever else was      *)
(* constructed meanwhile on the same thread or on another, and no object   *)
(* has two wrappers.                                                       *)
(***************************************************************************)
OwnObject ==
  /\ \A w \in Wrappers : bound[w] # NoObject => qwrap[bound[w]] = w
  /\ \A t \in Makers : \A i \in DOMAIN stack[t] :
       LET f == stack[t][i] IN
       f.kind = "construct" /\ f.w # NoWrapper =>
         bound[f.w] = IF Levels[class[f.obj]] > f.left THEN f.obj ELSE NoObject

(***************************************************************************)
(* For every object of a class written in Python, whoever constructed it,  *)
(* __init__ has been run exactly once when its constructor returns.        *)
(***************************************************************************)
InitialisedOnce ==
  \A o \in Objects :
    class[o] # NoClass /\ Levels[class[o]] > 0
    /\ ~(\E t \in Makers : \E i \in DOMAIN stack[t] : stack[t][i].kind = "construct" /\ stack[t][i].obj = o)
    => inits[o] = 1

(***************************************************************************)
(* The constructor of an object, and the code that wraps one, still have   *)
(* an object when Python code has run inside them, even if the wrapper of  *)
(* an orphan has taken over the only reference on it.                      *)
(***************************************************************************)
StillThere ==
  \A t \in Makers : \A i \in DOMAIN stack[t] :
    LET o == stack[t][i].obj IN class[o] # NoClass /\ owners[o] # {}
=============================================================================
