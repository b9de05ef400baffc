------------------------------- MODULE Wrapper -------------------------------
(***************************************************************************)
(* The life of a PyGObject: how gi/_gobject/pygobject.c ties a Python      *)
(* wrapper to a GObject, and how the two reference counts keep each other  *)
(* alive.                                                                  *)
(*                                                                         *)
(* A wrapper without an instance dictionary owns one plain reference on    *)
(* its GObject, may die at will and is recreated on demand.  Once it has a *)
(* dictionary it owns a toggle reference, and GLib calls                   *)
(* pyg_toggle_notify when that reference becomes, or stops being, the last *)
(* one: the GObject then holds a Python reference on the wrapper exactly   *)
(* while somebody else owns the GObject.  The notification is sent by the  *)
(* native thread that moved the count and has to wait for the GIL, so the  *)
(* two counts disagree for a while; pygobject_clear also lets other        *)
(* threads run between the removal of the wrapper from the GObject's qdata *)
(* and the release of its reference.                                       *)
(*                                                                         *)
(* Python code runs under the GIL: its handlers are atomic with respect to *)
(* each other, and a DECREF that reaches zero is followed by tp_dealloc    *)
(* before any other holder of the GIL runs (GilIdle).  Native threads      *)
(* interleave with everything.                                             *)
(***************************************************************************)
EXTENDS Integers, FiniteSets

CONSTANTS
  Objs,         \* addresses of GObjects (reused after finalization)
  Wraps,        \* addresses of PyGObject structs (reused after dealloc)
  Classes,      \* Python classes an instance may have
  BaseClass,    \* what pygobject_lookup_class answers for the GType
  NoObj, NoWrap, NoClass,
  RewrapTrash,  \* whether native code may hand Python an object whose wrapper
                \* the collector is about to clear
  MaxNative,    \* bound: references owned by native code, per object
  MaxHeld,      \* bound: references owned by the Python program, per wrapper
  MaxCalls,     \* bound: native calls in progress with the wrapper as argument
  MaxPend       \* bound: down notifications waiting for the GIL, per wrapper

ASSUME SentinelAssumption ==
  /\ NoObj \notin Objs
  /\ NoWrap \notin Wraps
  /\ BaseClass \in Classes /\ NoClass \notin Classes
ASSUME FiniteAssumption == IsFiniteSet(Wraps)
ASSUME BoundAssumption ==
  RewrapTrash \in BOOLEAN /\
  MaxNative \in Nat /\ MaxHeld \in Nat /\ MaxCalls \in Nat /\ MaxPend \in Nat

VARIABLES
  gref,       \* GObject.ref_count; 0 when the address holds no object
  native,     \* how many of those references native code owns
  floating,   \* whether one of them is the floating reference
  qwrap,      \* qdata pygobject_wrapper_key
  togg,       \* the wrapper whose toggle reference is on the object
  iclass,     \* PyGObjectData.type, NoClass without instance data
  wst,        \* "free", "live", "clearing" (tp_clear) or "dealloc" (tp_dealloc)
  wobj,       \* PyGObject.obj
  dict,       \* whether PyGObject.inst_dict exists
  refs,       \* the wrappers that the attributes in it refer to
  wclass,     \* Py_TYPE(wrapper)
  wfloat,     \* PYGOBJECT_IS_FLOATING_REF
  wsunk,      \* PYGOBJECT_GOBJECT_WAS_FLOATING
  pyref,      \* ob_refcnt
  held,       \* how many of those the Python program owns
  inCall,     \* how many are arguments of native calls running without the GIL
  pendUp,     \* toggle notifications is_last_ref = FALSE waiting for the GIL
  pendDown,   \* toggle notifications is_last_ref = TRUE waiting for the GIL
  trash       \* garbage the running collection has found and not yet cleared

gvars == <<gref, native, floating, qwrap, togg, iclass>>
wvars == <<wst, wobj, dict, refs, wclass, wfloat, wsunk, pyref, held, inCall,
           pendUp, pendDown>>
vars == <<gref, native, floating, qwrap, togg, iclass,
          wst, wobj, dict, refs, wclass, wfloat, wsunk, pyref, held, inCall,
          pendUp, pendDown, trash>>

-----------------------------------------------------------------------------
(* Helpers *)

Owners(o) == {w \in Wraps : wobj[w] = o}
Referrers(w) == {v \in Wraps : w \in refs[v]}
Live(w) == wst[w] = "live"
B(b) == IF b THEN 1 ELSE 0

\* No DECREF to zero still waits for its tp_dealloc.
NoneDue == \A w \in Wraps : Live(w) => pyref[w] > 0

\* The GIL is free for another thread.  A collection keeps it, except while a
\* wrapper is being cleared or deallocated: pygobject_clear releases it around
\* g_object_unref, or runs the dispose of the object, which may be Python code.
GilIdle ==
  NoneDue /\ (trash # {} => \E w \in Wraps : wst[w] \in {"clearing", "dealloc"})

\* g_object_ref by a native thread inside a call that borrows the wrapper has
\* moved the count but not returned: the new reference is still its own.
Pinned(o) == IF togg[o] = NoWrap THEN 0 ELSE pendUp[togg[o]]

\* Who can use the GObject through its wrapper without owning a reference: the
\* native calls the wrapper was passed to, and the creator of an orphan.
Borrowers(w) == inCall[w] + B(wfloat[w])

\* Native code has a pointer to o it may use: it owns a reference, borrows one,
\* or is running the dispose of the last reference, which a wrapper drops.
Reachable(o) ==
  \/ native[o] > Pinned(o) \/ floating[o]
  \/ \E w \in Owners(o) : \/ Live(w) /\ Borrowers(w) > pendUp[w]
                          \/ ~Live(w) /\ gref[o] = 1

\* g_object_unref by a thread that does not hold the GIL.
DropRef(o) ==
  /\ gref' = [gref EXCEPT ![o] = @ - 1]
  /\ pendDown' = IF gref[o] = 2 /\ togg[o] # NoWrap
                 THEN [pendDown EXCEPT ![togg[o]] = @ + 1] ELSE pendDown
  /\ iclass' = IF gref[o] = 1 THEN [iclass EXCEPT ![o] = NoClass] ELSE iclass

\* Mutant: the class is recorded only if something recorded it before.
RecordedTooLate(w) == iclass[wobj[w]]

\* The class recorded by pygobject_get_inst_data when there is no data yet.
Recorded(w) == IF iclass[wobj[w]] = NoClass THEN wclass[w] ELSE iclass[wobj[w]]

\* Mutant: a dictionary is freed and what it refers to is not released.
DropRefsLeaks(w) == pyref

\* DECREF of what the dictionary of w refers to.
DropRefs(w) == [v \in Wraps |-> pyref[v] - B(v \in refs[w])]

\* Mutants: g_object_unref is called before g_object_add_toggle_ref is counted,
\* and the INCREF is forgotten.
ToggleKeepsLate(g) == B(g > 2)
ToggleKeepsNone(g) == 0

\* The Python references pygobject_switch_to_toggle_ref leaves on a wrapper whose
\* object ends up with g references: INCREF, and at once the DECREF of
\* pyg_toggle_notify if the toggle reference is the last one.
ToggleKeeps(g) == B(g > 1)

\* pygobject_register_wrapper: qdata, and the toggle reference of a wrapper
\* that already has its dictionary.
Register(w, o, hasDict) ==
  /\ qwrap' = [qwrap EXCEPT ![o] = w]
  /\ togg' = IF hasDict THEN [togg EXCEPT ![o] = w] ELSE togg

\* Mutants: the wrapper stays in the qdata, or its toggle reference is dropped
\* like a plain one.
UnregisterKeepsQdata(w) ==
  /\ UNCHANGED qwrap
  /\ togg' = IF dict[w] THEN [togg EXCEPT ![wobj[w]] = NoWrap] ELSE togg
UnregisterKeepsToggle(w) ==
  qwrap' = [qwrap EXCEPT ![wobj[w]] = NoWrap] /\ UNCHANGED togg

\* The first half of pygobject_clear: the qdata goes, and a wrapper with a
\* dictionary takes its toggle reference off.  It still owns one reference.
Unregister(w) ==
  /\ qwrap' = [qwrap EXCEPT ![wobj[w]] = NoWrap]
  /\ togg' = IF dict[w] THEN [togg EXCEPT ![wobj[w]] = NoWrap] ELSE togg

\* Mutant: a floating object gets a reference on top of the floating one.
AddsRefToFloating(o, steal) == ~steal

\* Whether pygobject_new_full adds a reference: it sinks a floating object.
AddsRef(o, steal) == ~steal /\ ~floating[o]

Init ==
  /\ gref = [o \in Objs |-> 0] /\ native = [o \in Objs |-> 0]
  /\ floating = [o \in Objs |-> FALSE]
  /\ qwrap = [o \in Objs |-> NoWrap] /\ togg = [o \in Objs |-> NoWrap]
  /\ iclass = [o \in Objs |-> NoClass]
  /\ wst = [w \in Wraps |-> "free"] /\ wobj = [w \in Wraps |-> NoObj]
  /\ dict = [w \in Wraps |-> FALSE] /\ refs = [w \in Wraps |-> {}]
  /\ wclass = [w \in Wraps |-> BaseClass]
  /\ wfloat = [w \in Wraps |-> FALSE] /\ wsunk = [w \in Wraps |-> FALSE]
  /\ pyref = [w \in Wraps |-> 0] /\ held = [w \in Wraps |-> 0]
  /\ inCall = [w \in Wraps |-> 0]
  /\ pendUp = [w \in Wraps |-> 0] /\ pendDown = [w \in Wraps |-> 0]
  /\ trash = {}

-----------------------------------------------------------------------------
(* Native code *)

\* g_object_new of a type implemented in C; a GInitiallyUnowned starts floating.
NativeNew(o, fl) ==
  /\ gref[o] = 0
  /\ gref' = [gref EXCEPT ![o] = 1]
  /\ native' = [native EXCEPT ![o] = 1 - B(fl)]
  /\ floating' = [floating EXCEPT ![o] = fl]
  /\ UNCHANGED <<qwrap, togg, iclass, wvars, trash>>

\* g_object_ref.  A toggle reference that was the last one is told.
NativeRef(o) ==
  /\ Reachable(o) /\ native[o] < MaxNative
  /\ gref' = [gref EXCEPT ![o] = @ + 1]
  /\ native' = [native EXCEPT ![o] = @ + 1]
  /\ pendUp' = IF gref[o] = 1 /\ togg[o] # NoWrap
               THEN [pendUp EXCEPT ![togg[o]] = @ + 1] ELSE pendUp
  /\ UNCHANGED <<floating, qwrap, togg, iclass, wst, wobj, dict, refs,
                 wclass, wfloat, wsunk, pyref, held, inCall, pendDown, trash>>

\* g_object_ref_sink of a floating object: the reference gets an owner.
NativeSink(o) ==
  /\ floating[o] /\ native[o] < MaxNative
  /\ floating' = [floating EXCEPT ![o] = FALSE]
  /\ native' = [native EXCEPT ![o] = @ + 1]
  /\ UNCHANGED <<gref, qwrap, togg, iclass, wvars, trash>>

\* g_object_unref, finalization included.
NativeUnref(o) ==
  /\ native[o] > Pinned(o)
  /\ togg[o] # NoWrap => pendDown[togg[o]] < MaxPend
  /\ native' = [native EXCEPT ![o] = @ - 1]
  /\ DropRef(o)
  /\ UNCHANGED <<floating, qwrap, togg, wst, wobj, dict, refs, wclass, wfloat, wsunk,
                 pyref, held, inCall, pendUp, trash>>

\* pyg_toggle_notify, once it has the GIL.
NotifyUp(w) ==
  /\ GilIdle /\ pendUp[w] > 0
  /\ pendUp' = [pendUp EXCEPT ![w] = @ - 1]
  /\ pyref' = [pyref EXCEPT ![w] = @ + 1]
  /\ UNCHANGED <<gvars, wst, wobj, dict, refs, wclass, wfloat, wsunk, held, inCall,
                 pendDown, trash>>

NotifyDown(w) ==
  /\ GilIdle /\ pendDown[w] > 0
  /\ pendDown' = [pendDown EXCEPT ![w] = @ - 1]
  /\ pyref' = [pyref EXCEPT ![w] = @ - 1]
  /\ UNCHANGED <<gvars, wst, wobj, dict, refs, wclass, wfloat, wsunk, held, inCall,
                 pendUp, trash>>

-----------------------------------------------------------------------------
(* The Python program *)

\* cls.__new__: the struct exists, __init__ has not run.
Alloc(w, c) ==
  /\ GilIdle /\ wst[w] = "free" /\ MaxHeld > 0
  /\ wst' = [wst EXCEPT ![w] = "live"]
  /\ wclass' = [wclass EXCEPT ![w] = c]
  /\ pyref' = [pyref EXCEPT ![w] = 1] /\ held' = [held EXCEPT ![w] = 1]
  /\ UNCHANGED <<gvars, wobj, dict, refs, wfloat, wsunk, inCall, pendUp, pendDown, trash>>

\* pygobject_init, pygobject_constructv: the native constructor leaves one
\* reference for the wrapper.  A GInitiallyUnowned is sunk: its floating
\* reference becomes the wrapper's, or, when the constructor gave the object
\* to native code already, the wrapper adds one.
Construct(w, o, how) ==
  /\ GilIdle /\ Live(w) /\ held[w] > 0 /\ wobj[w] = NoObj /\ gref[o] = 0
  /\ how = "owned" => MaxNative > 0
  /\ gref' = [gref EXCEPT ![o] = 1 + B(how = "owned")]
  /\ native' = [native EXCEPT ![o] = B(how = "owned")]
  /\ wobj' = [wobj EXCEPT ![w] = o]
  /\ wsunk' = [wsunk EXCEPT ![w] = (how = "sunk")]
  /\ Register(w, o, dict[w])
  /\ pyref' = [pyref EXCEPT ![w] =
                 @ + IF dict[w] THEN ToggleKeeps(1 + B(how = "owned")) ELSE 0]
  /\ UNCHANGED <<floating, iclass, wst, dict, refs, wclass, wfloat, held, inCall,
                 pendUp, pendDown, trash>>

\* g_object_new of a class implemented in Python, from native code:
\* pygobject__g_instance_init makes the wrapper, floats the reference on it and
\* runs __init__, which may set attributes (d) and keeps no reference.
GNew(o, w, d, fl) ==
  /\ GilIdle /\ gref[o] = 0 /\ wst[w] = "free"
  /\ ~fl => MaxNative > 0
  /\ gref' = [gref EXCEPT ![o] = 2 - B(fl)]
  /\ native' = [native EXCEPT ![o] = 1 - B(fl)]
  /\ wst' = [wst EXCEPT ![w] = "live"]
  /\ wobj' = [wobj EXCEPT ![w] = o]
  /\ wclass' = [wclass EXCEPT ![w] = BaseClass]
  /\ wfloat' = [wfloat EXCEPT ![w] = TRUE]
  /\ wsunk' = [wsunk EXCEPT ![w] = fl]
  /\ dict' = [dict EXCEPT ![w] = d]
  /\ pyref' = [pyref EXCEPT ![w] =
                 1 + IF d THEN ToggleKeeps(2 - B(fl)) ELSE 0]
  /\ Register(w, o, d)
  /\ UNCHANGED <<floating, iclass, refs, held, inCall, pendUp, pendDown, trash>>

\* pygobject_new_full on an object that has a wrapper: a floated reference on
\* the wrapper is taken over, otherwise one is added; a stolen reference on the
\* GObject is given back, and its notification, if any, comes at once.
WrapAgain(o, steal) ==
  LET w == qwrap[o] IN
  /\ GilIdle /\ Reachable(o) /\ w # NoWrap
  /\ steal => native[o] > Pinned(o) /\ (floating[o] => native[o] = 0)
  /\ held[w] < MaxHeld /\ (RewrapTrash \/ w \notin trash)
  /\ wfloat[w] => Borrowers(w) > pendUp[w]
  /\ held' = [held EXCEPT ![w] = @ + 1]
  /\ wfloat' = [wfloat EXCEPT ![w] = FALSE]
  /\ pyref' = [pyref EXCEPT ![w] =
                 @ + B(~wfloat[w]) - B(steal /\ togg[o] # NoWrap /\ gref[o] = 2)]
  /\ gref' = [gref EXCEPT ![o] = @ - B(steal)]
  /\ native' = [native EXCEPT ![o] = @ - B(steal)]
  /\ UNCHANGED <<floating, qwrap, togg, iclass, wst, wobj, dict, refs,
                 wclass, wsunk, inCall, pendUp, pendDown, trash>>

\* pygobject_new_full on an object without one.  The class comes from the
\* instance data; the wrapper sinks a floating object, adds a reference, or
\* keeps the stolen one.
WrapNew(o, w, steal) ==
  LET c == IF iclass[o] # NoClass THEN iclass[o] ELSE BaseClass IN
  /\ GilIdle /\ Reachable(o) /\ qwrap[o] = NoWrap /\ wst[w] = "free" /\ MaxHeld > 0
  /\ steal => IF floating[o] THEN native[o] = 0 ELSE native[o] > Pinned(o)
  /\ floating' = [floating EXCEPT ![o] = FALSE]
  /\ gref' = [gref EXCEPT ![o] = @ + B(AddsRef(o, steal))]
  /\ native' = [native EXCEPT ![o] = @ - B(steal /\ ~floating[o])]
  /\ wst' = [wst EXCEPT ![w] = "live"]
  /\ wobj' = [wobj EXCEPT ![w] = o]
  /\ wclass' = [wclass EXCEPT ![w] = c]
  /\ wsunk' = [wsunk EXCEPT ![w] = floating[o]]
  /\ pyref' = [pyref EXCEPT ![w] = 1] /\ held' = [held EXCEPT ![w] = 1]
  /\ Register(w, o, FALSE)
  /\ UNCHANGED <<iclass, dict, refs, wfloat, inCall, pendUp, pendDown, trash>>

\* pygobject_setattro and pygobject_get_dict: the first attribute makes the
\* dictionary, and pygobject_switch_to_toggle_ref trades the plain reference
\* for a toggle reference; only if another reference is left does the wrapper
\* keep the Python reference that goes with it.  new is what the attributes
\* refer to afterwards.
SetAttr(w, new) ==
  LET switch == ~dict[w] /\ wobj[w] # NoObj IN
  /\ GilIdle /\ Live(w) /\ held[w] > 0
  /\ \A v \in new \ refs[w] : held[v] > 0
  /\ dict' = [dict EXCEPT ![w] = TRUE]
  /\ refs' = [refs EXCEPT ![w] = new]
  /\ togg' = IF switch THEN [togg EXCEPT ![wobj[w]] = w] ELSE togg
  /\ pyref' = [v \in Wraps |-> pyref[v] + B(v \in new) - B(v \in refs[w])
                 + IF v = w /\ switch THEN ToggleKeeps(gref[wobj[w]]) ELSE 0]
  /\ UNCHANGED <<gref, native, floating, qwrap, iclass, wst, wobj, wclass,
                 wfloat, wsunk, held, inCall, pendUp, pendDown, trash>>

\* Another variable refers to w, or to what an attribute of w refers to.
Incref(w) ==
  /\ GilIdle /\ held[w] < MaxHeld
  /\ \/ held[w] > 0
     \/ \E v \in Referrers(w) : Live(v) /\ held[v] > 0
  /\ held' = [held EXCEPT ![w] = @ + 1]
  /\ pyref' = [pyref EXCEPT ![w] = @ + 1]
  /\ UNCHANGED <<gvars, wst, wobj, dict, refs, wclass, wfloat, wsunk, inCall, pendUp,
                 pendDown, trash>>

Decref(w) ==
  /\ GilIdle /\ held[w] > 0
  /\ held' = [held EXCEPT ![w] = @ - 1]
  /\ pyref' = [pyref EXCEPT ![w] = @ - 1]
  /\ UNCHANGED <<gvars, wst, wobj, dict, refs, wclass, wfloat, wsunk, inCall, pendUp,
                 pendDown, trash>>

\* A native function is called with the wrapper's GObject; the argument tuple
\* holds the wrapper while the GIL is released.
BeginCall(w) ==
  /\ GilIdle /\ held[w] > 0 /\ wobj[w] # NoObj /\ inCall[w] < MaxCalls
  /\ inCall' = [inCall EXCEPT ![w] = @ + 1]
  /\ pyref' = [pyref EXCEPT ![w] = @ + 1]
  /\ UNCHANGED <<gvars, wst, wobj, dict, refs, wclass, wfloat, wsunk, held, pendUp,
                 pendDown, trash>>

EndCall(w) ==
  /\ GilIdle /\ inCall[w] > 0 /\ Borrowers(w) > pendUp[w]
  /\ inCall' = [inCall EXCEPT ![w] = @ - 1]
  /\ pyref' = [pyref EXCEPT ![w] = @ - 1]
  /\ UNCHANGED <<gvars, wst, wobj, dict, refs, wclass, wfloat, wsunk, held, pendUp,
                 pendDown, trash>>

\* pygi_marshal_from_py_gobject with both counts at one: the reference the
\* callee needs is added, as a floating one when the wrapper had sunk it.
PassBorrowed(w) ==
  LET o == wobj[w] IN
  /\ GilIdle /\ Live(w) /\ held[w] > 0 /\ pyref[w] = 1
  /\ o # NoObj /\ gref[o] = 1 /\ MaxNative > 0
  /\ gref' = [gref EXCEPT ![o] = 2]
  /\ native' = [native EXCEPT ![o] = @ + B(~wsunk[w])]
  /\ floating' = [floating EXCEPT ![o] = wsunk[w]]
  /\ pyref' = [pyref EXCEPT ![w] = @ + B(togg[o] = w)]
  /\ UNCHANGED <<qwrap, togg, iclass, wst, wobj, dict, refs, wclass,
                 wfloat, wsunk, held, inCall, pendUp, pendDown, trash>>
-----------------------------------------------------------------------------
(* Death *)

\* pygobject_dealloc up to the release of the reference: the instance data
\* records the class before pygobject_clear.
BeginDealloc(w) ==
  /\ Live(w) /\ pyref[w] = 0 /\ wobj[w] # NoObj
  /\ wst' = [wst EXCEPT ![w] = "dealloc"]
  /\ iclass' = [iclass EXCEPT ![wobj[w]] = Recorded(w)]
  /\ Unregister(w)
  /\ trash' = trash \ {w}
  /\ UNCHANGED <<gref, native, floating, wobj, dict, refs, wclass, wfloat,
                 wsunk, pyref, held, inCall, pendUp, pendDown>>

\* The same for a wrapper without a GObject: there is nothing to release.
DeallocUnbound(w) ==
  /\ Live(w) /\ pyref[w] = 0 /\ wobj[w] = NoObj
  /\ wst' = [wst EXCEPT ![w] = "free"]
  /\ dict' = [dict EXCEPT ![w] = FALSE]
  /\ refs' = [refs EXCEPT ![w] = {}]
  /\ pyref' = DropRefs(w)
  /\ trash' = trash \ {w}
  /\ UNCHANGED <<gvars, wobj, wclass, wfloat, wsunk, held, inCall, pendUp,
                 pendDown>>

\* Mutant: pygobject_traverse does not visit the dictionary.
GarbageUnvisited(S) == \A w \in S : Live(w) /\ pyref[w] = 0

\* What the collector finds unreachable: live wrappers all of whose references
\* come from each other's dictionaries.
Garbage(S) ==
  \A w \in S : Live(w) /\ pyref[w] = Cardinality(Referrers(w) \cap S)

\* pygobject_traverse calls pygobject_get_inst_data on every tracked wrapper.
Traversed ==
  [o \in Objs |->
    LET L == {w \in Owners(o) : Live(w)} IN
    IF iclass[o] = NoClass /\ L # {} THEN wclass[CHOOSE w \in L : TRUE]
                                     ELSE iclass[o]]

\* A collection starts: it traverses all wrappers and makes the list of what it
\* will clear, which may be empty.  It does not run inside another one.
GcStart(S) ==
  /\ GilIdle /\ trash = {} /\ \A w \in Wraps : wst[w] # "clearing"
  /\ Garbage(S)
  /\ trash' = S
  /\ iclass' = Traversed
  /\ UNCHANGED <<gref, native, floating, qwrap, togg, wvars>>

\* The collector calls tp_clear (pygobject_clear) on the next one of the list.
GcClear(w) ==
  /\ NoneDue /\ w \in trash /\ wobj[w] # NoObj
  /\ \A v \in Wraps : wst[v] # "clearing"
  /\ trash' = trash \ {w}
  /\ wst' = [wst EXCEPT ![w] = "clearing"]
  /\ Unregister(w)
  /\ UNCHANGED <<gref, native, floating, iclass, wobj, dict, refs, wclass,
                 wfloat, wsunk, pyref, held, inCall, pendUp, pendDown>>

GcClearUnbound(w) ==
  /\ NoneDue /\ w \in trash /\ wobj[w] = NoObj
  /\ \A v \in Wraps : wst[v] # "clearing"
  /\ trash' = trash \ {w}
  /\ dict' = [dict EXCEPT ![w] = FALSE]
  /\ refs' = [refs EXCEPT ![w] = {}]
  /\ pyref' = DropRefs(w)
  /\ UNCHANGED <<gvars, wst, wobj, wclass, wfloat, wsunk, held, inCall, pendUp,
                 pendDown>>

\* The end of pygobject_clear, and of pygobject_dealloc: the reference on the
\* GObject is dropped, with the GIL released when there is no dictionary, then
\* obj is reset and the dictionary released.
Finish(w) ==
  LET o == wobj[w] IN
  /\ wst[w] \in {"clearing", "dealloc"}
  /\ dict[w] => GilIdle
  /\ togg[o] # NoWrap => pendDown[togg[o]] < MaxPend
  /\ DropRef(o)
  /\ wobj' = [wobj EXCEPT ![w] = NoObj]
  /\ dict' = [dict EXCEPT ![w] = FALSE]
  /\ refs' = [refs EXCEPT ![w] = {}]
  /\ pyref' = DropRefs(w)
  /\ wst' = [wst EXCEPT ![w] = IF @ = "clearing" THEN "live" ELSE "free"]
  /\ UNCHANGED <<native, floating, qwrap, togg, wclass, wfloat, wsunk, held,
                 inCall, pendUp, trash>>

-----------------------------------------------------------------------------
(* Specification *)

ObjStep(o) ==
  \/ \E fl \in BOOLEAN : NativeNew(o, fl)
  \/ NativeRef(o) \/ NativeSink(o) \/ NativeUnref(o)
  \/ \E steal \in BOOLEAN : WrapAgain(o, steal)
  \/ \E w \in Wraps, steal \in BOOLEAN : WrapNew(o, w, steal)
  \/ \E w \in Wraps, how \in {"plain", "sunk", "owned"} : Construct(w, o, how)
  \/ \E w \in Wraps, d \in BOOLEAN, fl \in BOOLEAN : GNew(o, w, d, fl)

WrapStep(w) ==
  \/ \E c \in Classes : Alloc(w, c)
  \/ \E v \in Wraps : SetAttr(w, refs[w] \cup {v}) \/ SetAttr(w, refs[w] \ {v})
  \/ Incref(w) \/ Decref(w) \/ BeginCall(w) \/ EndCall(w) \/ PassBorrowed(w)
  \/ NotifyUp(w) \/ NotifyDown(w)
  \/ BeginDealloc(w) \/ DeallocUnbound(w) \/ Finish(w)
  \/ GcClear(w) \/ GcClearUnbound(w)

Next ==
  \/ \E o \in Objs : ObjStep(o)
  \/ \E w \in Wraps : WrapStep(w)
  \/ \E S \in SUBSET Wraps : GcStart(S)

Spec == Init /\ [][Next]_vars

-----------------------------------------------------------------------------
(* Properties *)

\* Every variable holds values of its kind; in particular no count is negative.
TypeOK ==
  /\ gref \in [Objs -> Nat] /\ native \in [Objs -> Nat]
  /\ floating \in [Objs -> BOOLEAN]
  /\ qwrap \in [Objs -> Wraps \cup {NoWrap}]
  /\ togg \in [Objs -> Wraps \cup {NoWrap}]
  /\ iclass \in [Objs -> Classes \cup {NoClass}]
  /\ wst \in [Wraps -> {"free", "live", "clearing", "dealloc"}]
  /\ wobj \in [Wraps -> Objs \cup {NoObj}]
  /\ dict \in [Wraps -> BOOLEAN] /\ refs \in [Wraps -> SUBSET Wraps]
  /\ wclass \in [Wraps -> Classes]
  /\ wfloat \in [Wraps -> BOOLEAN] /\ wsunk \in [Wraps -> BOOLEAN]
  /\ pyref \in [Wraps -> Nat] /\ held \in [Wraps -> Nat]
  /\ inCall \in [Wraps -> Nat]
  /\ pendUp \in [Wraps -> Nat] /\ pendDown \in [Wraps -> Nat]
  /\ trash \subseteq Wraps

\* Every reference on a GObject has exactly one owner: native code, the floating
\* flag, or a wrapper, which owns one from the moment it is bound until
\* pygobject_clear drops it, whichever kind of reference it is.
RefsOwned ==
  \A o \in Objs :
    gref[o] = native[o] + B(floating[o]) + Cardinality(Owners(o))

\* The references the GObject of w holds on it: one while the GObject has another
\* owner than the toggle reference of w.
Share(w) == B(wobj[w] # NoObj /\ togg[wobj[w]] = w /\ gref[wobj[w]] > 1)

\* Every reference on a wrapper has an owner: a variable, a call, a dictionary,
\* the creator of an orphan, or the GObject, up to the toggle notifications that
\* still wait for the GIL.
PyRefsOwned ==
  \A w \in Wraps :
    pyref[w] = held[w] + inCall[w] + Cardinality(Referrers(w)) + B(wfloat[w])
                 + Share(w) + pendDown[w] - pendUp[w]

\* A notification in flight has a wrapper to arrive at: pyg_toggle_notify never
\* counts on a struct that is freed or being freed.
NotifiedLive ==
  \A w \in Wraps : pendUp[w] + pendDown[w] > 0 =>
    Live(w) /\ wobj[w] # NoObj /\ togg[wobj[w]] = w /\ pyref[w] > 0

\* A GObject has at most one wrapper Python can see, the one in its qdata; the
\* others are dying, whatever happens while they die.
OneWrapper ==
  /\ \A w \in Wraps : Live(w) /\ wobj[w] # NoObj => qwrap[wobj[w]] = w
  /\ \A o \in Objs : qwrap[o] # NoWrap => wobj[qwrap[o]] = o /\ Live(qwrap[o])

\* The class Python sees, or will see, an object of: that of its wrapper, and of
\* the last one when it has none.
ClassOf(o) == IF qwrap[o] # NoWrap THEN wclass[qwrap[o]] ELSE iclass[o]

\* An object never changes class while it exists, even one whose class is not
\* the one registered for its GType: the instance data outlives the wrappers.
ClassKept ==
  [][\A o \in Objs : (gref[o] > 0 /\ gref'[o] > 0 /\ ClassOf(o) # NoClass)
                       => ClassOf(o)' = ClassOf(o)]_vars

\* A wrapper with attributes starts to die only when nobody else owns its
\* GObject, neither native code nor a second wrapper.
AttributesKept ==
  [][\A w \in Wraps :
       (Live(w) /\ wst'[w] # "live" /\ wobj[w] # NoObj /\ dict[w])
         => (gref[wobj[w]] = 1 /\ native[wobj[w]] = 0 /\ ~floating[wobj[w]])]_vars

-----------------------------------------------------------------------------
(* What the two counts achieve: ObjectPromise *)

\* Wrappers Python or native code holds: a variable, a call or an orphan's
\* creator refers to them, or native code owns their GObject.
Roots ==
  {w \in Wraps : /\ Live(w)
                 /\ \/ held[w] + inCall[w] > 0 \/ wfloat[w]
                    \/ wobj[w] # NoObj /\ (native[wobj[w]] > 0 \/ floating[wobj[w]])}

\* The wrappers that can be reached from there through dictionaries.
Reached ==
  {w \in Wraps : \A S \in SUBSET Wraps :
     (Roots \subseteq S /\ \A v \in S : refs[v] \subseteq S)
       => w \in S}

Used(o) == native[o] > 0 \/ floating[o] \/ qwrap[o] \in Reached

Promise(o) == INSTANCE ObjectPromise
  WITH alive <- gref[o] > 0,
       class <- ClassOf(o),
       attrs <- qwrap[o] # NoWrap /\ dict[qwrap[o]],
       used <- Used(o)

\* Counting references the way this code does keeps the promise a Python
\* programmer relies on, for every object: see ObjectPromise.
\* This is \A o \in Objs : Promise(o)!Spec, with the quantifier moved inside.
KeepsPromise ==
  /\ \A o \in Objs : Promise(o)!Init
  /\ [][\A o \in Objs : Promise(o)!Next \/ UNCHANGED Promise(o)!pvars]_vars

\* A tp_dealloc that is due happens before anything else under the GIL, and the
\* collector goes through its list.  A thread that waits for the GIL, to deliver
\* a notification or to finish with a wrapper, gets it in the end.  The collector
\* runs again and again, sooner or later at a moment that suits it, and does not
\* overlook any garbage for ever.
Fairness ==
  \A w \in Wraps : /\ WF_vars(BeginDealloc(w) \/ DeallocUnbound(w))
                   /\ SF_vars(Finish(w))
                   /\ SF_vars(NotifyUp(w)) /\ SF_vars(NotifyDown(w))
                   /\ SF_vars(GcClear(w) \/ GcClearUnbound(w))
                   /\ SF_vars(\E S \in SUBSET Wraps : w \in S /\ GcStart(S))

FairSpec == Spec /\ Fairness

\* No object leaks: one that nobody can use any more is finalized, reference
\* cycles through attributes and toggle references included, unless running its
\* dispose makes it used again.
Finalized == \A o \in Objs : (gref[o] > 0 /\ ~Used(o)) ~> (gref[o] = 0 \/ Used(o))
=============================================================================
