------------------------------- MODULE Closures -------------------------------
(***************************************************************************)
(* Python signal handlers: the closures pygobject_connect and its          *)
(* variants make, the list of them that an object's instance data keeps    *)
(* (pygobject_watch_closure), and what the garbage collector sees through  *)
(* that list.                                                              *)
(*                                                                         *)
(* A closure owns its callback, extra arguments and swap data.  They often *)
(* refer to the wrapper of the very object the handler is connected to,    *)
(* and the reference is held by GLib, where no collector looks; therefore  *)
(* pygobject_traverse reports what the closures on the list own.           *)
(*                                                                         *)
(* Handlers run in whichever thread emits the signal.  The marshaller      *)
(* holds the GIL, but GLib drops its reference on the closure after the    *)
(* marshaller has released it: the last reference of a handler that was    *)
(* disconnected meanwhile goes away in a thread that does not hold the     *)
(* GIL, and takes the closure off the list there.                          *)
(*                                                                         *)
(* One wrapper per object is enough here: Wrapper is about several.        *)
(***************************************************************************)
EXTENDS Integers, FiniteSets, SequencesExt

CONSTANTS
  Objs,          \* addresses of GObjects
  Closures,      \* addresses of PyGClosures (reused once freed)
  Funcs,         \* Python callables
  Threads,       \* threads that emit signals without holding the GIL
  NoObj, NoClosure, NoFunc,
  Overlap        \* whether the end of an emission may overlap with other uses of
                 \* the list of closures

ASSUME SentinelAssumption ==
  NoObj \notin Objs /\ NoClosure \notin Closures /\ NoFunc \notin Funcs
ASSUME OverlapAssumption == Overlap \in BOOLEAN
ASSUME FiniteAssumption == IsFiniteSet(Closures)

VARIABLES
  native,    \* whether native code owns a reference on the object
  wrap,      \* whether a wrapper is bound to it
  held,      \* whether a Python variable refers to that wrapper
  dict,      \* whether the wrapper has an instance dictionary
  wref,      \* references on the wrapper, but the GObject's own
  closures,  \* PyGObjectData.closures: what the instance data lists
  cobj,      \* the object a closure was connected on, NoObj if it is not in use
  callback,  \* PyGClosure.callback, NULL after the invalidation
  keeps,     \* the objects whose wrappers the closure owns a reference on
  unbound,   \* the closures that refer to a wrapper tp_clear has unbound
  conn,      \* the closures whose handler is connected
  tst,       \* emitting threads: "idle", "marshal" (waiting for the GIL), "call"
             \* (in the callback), "unwatch", "invalidate", "leave"
  tobj, tcl, \* the object and the closure they do that with
  seen,      \* the list of closures as a thread in "unwatch" has read it
  adding,    \* the closure pygobject_watch_closure is putting on the list
  addseen    \* the list as it has read it

ovars == <<native, wrap, held, dict>>
cvars == <<wref, closures, cobj, callback, keeps, unbound, conn>>
tvars == <<tst, tobj, tcl, seen>>
avars == <<adding, addseen>>
vars == <<native, wrap, held, dict, wref, closures, cobj, callback, keeps, unbound,
          conn, tst, tobj, tcl, seen, adding, addseen>>

-----------------------------------------------------------------------------
(* Helpers *)

B(b) == IF b THEN 1 ELSE 0
Valid(c) == cobj[c] # NoObj

\* An emission owns a reference on its handler's closure, and one on its object.
InUse(c) == \E t \in Threads : tcl[t] = c
Emitting(o) == \E t \in Threads : tobj[t] = o

\* Somebody else than the wrapper owns a reference on the object.
Shared(o) == native[o] \/ Emitting(o)
Exists(o) == wrap[o] \/ Shared(o)

\* The references on the wrapper of o; the last one is the GObject's own, which
\* module Wrapper is about.
RefCount(o) == wref[o] + B(wrap[o] /\ dict[o] /\ Shared(o))

\* No Python code runs in the middle of pygobject_watch_closure, nor, without
\* overlaps, next to a thread that takes a closure off a list.
GilFree == adding = NoClosure
Alone == Overlap \/ \A t \in Threads : tst[t] # "unwatch"

\* Mutant: pygobject_watch_closure is forgotten.
WatchedNot(c, list) == list

\* g_slist_prepend of pygobject_watch_closure.
Watched(c, list) == <<c>> \o list

\* g_slist_remove of pygobject_unwatch_closure.
Unwatched(c, list) == RemoveFirst(list, c)

\* A list when the members of S have been taken off it.
Without(list, S) ==
  LET rest[i \in 0 .. Len(list)] ==
        IF i = 0 THEN <<>> ELSE IF list[i] \in S THEN rest[i - 1] ELSE Append(rest[i - 1], list[i])
  IN  rest[Len(list)]

\* Mutant: the swap data is not released.
ReleasedNot(S, o) == 0

\* Mutant: they are released by the watcher as well.
ReleasedTwice(S, o) == 2 * Cardinality({c \in S : o \in keeps[c]})

\* How many references on the wrapper of o pyg_closure_invalidate releases for
\* the closures in S: those of callback, extra_args and swap_data.
Released(S, o) == Cardinality({c \in S : o \in keeps[c]})

\* What becomes of the closures in S when their last reference goes.
Freed(S) ==
  /\ cobj' = [c \in Closures |-> IF c \in S THEN NoObj ELSE cobj[c]]
  /\ callback' = [c \in Closures |-> IF c \in S THEN NoFunc ELSE callback[c]]
  /\ wref' = [o \in Objs |-> wref[o] - Released(S, o)]

\* g_closure_invalidate of the closures in S: pygobject_unwatch_closure, and then
\* pyg_closure_invalidate or pygi_signal_closure_invalidate.
Invalidate(S) ==
  /\ closures' = [o \in Objs |-> Without(closures[o], S)]
  /\ Freed(S)
  /\ keeps' = [c \in Closures |-> IF c \in S THEN {} ELSE keeps[c]]
  /\ unbound' = unbound \ S
  /\ conn' = conn \ S

\* Mutant: the closures are invalidated instead of being disconnected.
InvalidateAll(S) == Invalidate(S)

\* The handlers of the closures in S are disconnected.  A closure that is in use
\* by an emission lives on until that is over.
DisconnectAll(S) ==
  LET gone == {c \in S : ~InUse(c)} IN
  /\ closures' = [o \in Objs |-> Without(closures[o], gone)]
  /\ Freed(gone)
  /\ keeps' = [c \in Closures |-> IF c \in gone THEN {} ELSE keeps[c]]
  /\ unbound' = unbound \ gone
  /\ conn' = conn \ S

\* The closures that go with o: GLib destroys the handlers, and
\* pygobject_data_free invalidates what is still on the list.
ClosuresOf(o) == {c \in Closures : cobj[c] = o} \cup ToSet(closures[o])

\* A reference on o goes: was it the last one?
Unref(o, last) == IF last THEN Invalidate(ClosuresOf(o)) ELSE UNCHANGED cvars

\* gclosure_from_pyfunc: the most recent closure with that callback.
FromPyfunc(o, f) ==
  LET M == {i \in 1..Len(closures[o]) : callback[closures[o][i]] = f} IN
  IF M = {} THEN NoClosure
            ELSE closures[o][CHOOSE i \in M : \A j \in M : i <= j]

\* Mutant: pygobject_traverse does not visit the closures.
VisitedNot(S, o) == {}

\* The references on the wrapper of o that pygobject_traverse reports for the
\* wrappers of S: what the closures on their objects' lists own.
Visited(S, o) ==
  {c \in UNION {ToSet(closures[p]) : p \in S} : o \in keeps[c]}

Init ==
  /\ native = [o \in Objs |-> FALSE] /\ wrap = [o \in Objs |-> FALSE]
  /\ held = [o \in Objs |-> FALSE] /\ dict = [o \in Objs |-> FALSE]
  /\ wref = [o \in Objs |-> 0] /\ closures = [o \in Objs |-> <<>>]
  /\ cobj = [c \in Closures |-> NoObj] /\ callback = [c \in Closures |-> NoFunc]
  /\ keeps = [c \in Closures |-> {}] /\ unbound = {} /\ conn = {}
  /\ tst = [t \in Threads |-> "idle"] /\ tobj = [t \in Threads |-> NoObj]
  /\ tcl = [t \in Threads |-> NoClosure] /\ seen = [t \in Threads |-> <<>>]
  /\ adding = NoClosure /\ addseen = <<>>

-----------------------------------------------------------------------------
(* Objects and wrappers *)

\* g_object_new, by native code or by Python.
New(o, py) ==
  /\ GilFree /\ ~Exists(o)
  /\ native' = [native EXCEPT ![o] = ~py] /\ wrap' = [wrap EXCEPT ![o] = py]
  /\ held' = [held EXCEPT ![o] = py] /\ wref' = [wref EXCEPT ![o] = B(py)]
  /\ UNCHANGED <<dict, closures, cobj, callback, keeps, unbound, conn, tvars, avars>>

\* Python code is given the object: pygobject_new_full.
GetWrapper(o) ==
  /\ GilFree /\ Shared(o) /\ ~held[o]
  /\ wrap' = [wrap EXCEPT ![o] = TRUE] /\ held' = [held EXCEPT ![o] = TRUE]
  /\ wref' = [wref EXCEPT ![o] = @ + 1]
  /\ UNCHANGED <<native, dict, closures, cobj, callback, keeps, unbound, conn, tvars, avars>>

SetAttr(o) ==
  /\ GilFree /\ held[o] /\ ~dict[o]
  /\ dict' = [dict EXCEPT ![o] = TRUE]
  /\ UNCHANGED <<native, wrap, held, cvars, tvars, avars>>

Drop(o) ==
  /\ GilFree /\ held[o]
  /\ held' = [held EXCEPT ![o] = FALSE]
  /\ wref' = [wref EXCEPT ![o] = @ - 1]
  /\ UNCHANGED <<native, wrap, dict, closures, cobj, callback, keeps, unbound, conn,
                 tvars, avars>>

\* pygobject_dealloc of a wrapper nobody refers to.
Dealloc(o) ==
  /\ GilFree /\ Alone /\ wrap[o] /\ RefCount(o) = 0
  /\ wrap' = [wrap EXCEPT ![o] = FALSE] /\ dict' = [dict EXCEPT ![o] = FALSE]
  /\ Unref(o, ~Shared(o))
  /\ UNCHANGED <<native, held, tvars, avars>>

\* Python passes the object to native code, which keeps it, and drops it later.
NativeRef(o) ==
  /\ ~native[o] /\ (held[o] \/ Emitting(o))
  /\ native' = [native EXCEPT ![o] = TRUE]
  /\ UNCHANGED <<wrap, held, dict, cvars, tvars, avars>>

NativeUnref(o) ==
  /\ GilFree /\ native[o]
  /\ native' = [native EXCEPT ![o] = FALSE]
  /\ Unref(o, ~wrap[o] /\ ~Emitting(o))
  /\ UNCHANGED <<wrap, held, dict, tvars, avars>>

-----------------------------------------------------------------------------
(* Handlers *)

\* pygobject_connect, _connect_after, _connect_object and _connect_object_after,
\* up to the moment pygobject_watch_closure has read the list: the new closure
\* owns references on the wrappers of K, as its callback, extra arguments or swap
\* data.
BeginConnect(o, c, f, K) ==
  /\ GilFree /\ Alone /\ held[o] /\ ~Valid(c) /\ \A p \in K : held[p]
  /\ cobj' = [cobj EXCEPT ![c] = o]
  /\ callback' = [callback EXCEPT ![c] = f]
  /\ keeps' = [keeps EXCEPT ![c] = K]
  /\ wref' = [p \in Objs |-> wref[p] + B(p \in K)]
  /\ adding' = c /\ addseen' = closures[o]
  /\ UNCHANGED <<ovars, closures, unbound, conn, tvars>>

\* The rest of it: the closure is put on the list, and connected.
EndConnect ==
  LET o == cobj[adding] IN
  /\ adding # NoClosure
  /\ closures' = [closures EXCEPT ![o] = Watched(adding, addseen)]
  /\ conn' = conn \cup {adding}
  /\ adding' = NoClosure /\ addseen' = <<>>
  /\ UNCHANGED <<ovars, wref, cobj, callback, keeps, unbound, tvars>>

\* g_signal_handler_disconnect, by Python code or by native code.
Disconnect(c) ==
  /\ GilFree /\ Alone /\ c \in conn
  /\ DisconnectAll({c})
  /\ UNCHANGED <<ovars, tvars, avars>>

\* pygobject_disconnect_by_func.  It may find a closure whose handler is
\* disconnected already, and then does nothing.
DisconnectByFunc(o, f) ==
  /\ GilFree /\ Alone /\ held[o] /\ FromPyfunc(o, f) \in conn
  /\ DisconnectAll({FromPyfunc(o, f)})
  /\ UNCHANGED <<ovars, tvars, avars>>

\* g_object_run_dispose: all handlers are disconnected, the object lives on.
Dispose(o) ==
  /\ GilFree /\ Alone /\ Exists(o)
  /\ DisconnectAll({c \in conn : cobj[c] = o})
  /\ UNCHANGED <<ovars, tvars, avars>>

-----------------------------------------------------------------------------
(* Emissions *)

\* g_signal_emit reaches a handler; its marshaller waits for the GIL.
Emit(t, o, c) ==
  /\ tst[t] = "idle" /\ (native[o] \/ held[o]) /\ c \in conn /\ cobj[c] = o
  /\ tst' = [tst EXCEPT ![t] = "marshal"]
  /\ tobj' = [tobj EXCEPT ![t] = o] /\ tcl' = [tcl EXCEPT ![t] = c]
  /\ UNCHANGED <<ovars, cvars, seen, avars>>

\* pyg_closure_marshal and pygi_signal_closure_marshal call the callback.
Marshal(t) ==
  /\ GilFree /\ tst[t] = "marshal"
  /\ tst' = [tst EXCEPT ![t] = "call"]
  /\ UNCHANGED <<ovars, cvars, tobj, tcl, seen, avars>>

\* The callback returns, the marshaller releases the GIL, and g_closure_invoke
\* drops its reference on the closure.  If that was the last one, the thread
\* begins to take the closure off the list.
Return(t) ==
  LET c == tcl[t]
      last == c \notin conn /\ \A u \in Threads \ {t} : tcl[u] # c
  IN
  /\ tst[t] = "call"
  /\ last => Overlap \/ (GilFree /\ Alone)
  /\ tst' = [tst EXCEPT ![t] = IF last THEN "unwatch" ELSE "leave"]
  /\ tcl' = [tcl EXCEPT ![t] = IF last THEN c ELSE NoClosure]
  /\ seen' = [seen EXCEPT ![t] = IF last THEN closures[tobj[t]] ELSE <<>>]
  /\ UNCHANGED <<ovars, cvars, tobj, avars>>

\* pygobject_unwatch_closure in a thread that does not hold the GIL.
Unwatch(t) ==
  /\ tst[t] = "unwatch"
  /\ closures' = [closures EXCEPT ![tobj[t]] = Unwatched(tcl[t], seen[t])]
  /\ tst' = [tst EXCEPT ![t] = "invalidate"]
  /\ seen' = [seen EXCEPT ![t] = <<>>]
  /\ UNCHANGED <<ovars, wref, cobj, callback, keeps, unbound, conn, tobj, tcl, avars>>

\* pyg_closure_invalidate, which waits for the GIL.
Invalidated(t) ==
  LET c == tcl[t] IN
  /\ GilFree /\ tst[t] = "invalidate"
  /\ Freed({c})
  /\ keeps' = [keeps EXCEPT ![c] = {}]
  /\ unbound' = unbound \ {c}
  /\ tst' = [tst EXCEPT ![t] = "leave"] /\ tcl' = [tcl EXCEPT ![t] = NoClosure]
  /\ UNCHANGED <<ovars, closures, conn, tobj, seen, avars>>

\* The emission is over: its reference on the object goes.
Leave(t) ==
  LET o == tobj[t] IN
  /\ GilFree /\ tst[t] = "leave"
  /\ tst' = [tst EXCEPT ![t] = "idle"] /\ tobj' = [tobj EXCEPT ![t] = NoObj]
  /\ Unref(o, ~wrap[o] /\ ~native[o] /\ \A u \in Threads \ {t} : tobj[u] # o)
  /\ UNCHANGED <<ovars, tcl, seen, avars>>

-----------------------------------------------------------------------------
(* Garbage collection *)

\* Wrappers all of whose references come from each other's closures.  Whether
\* somebody else owns their objects the collector does not ask.
Garbage(S) ==
  S # {} /\ \A o \in S : wrap[o] /\ RefCount(o) = Cardinality(Visited(S, o))

\* The collector calls tp_clear on them: pygobject_clear drops the reference on
\* the object and leaves the closures alone.  Those of an object that is gone are
\* invalidated; those of an object somebody else owns keep what is left of the
\* wrapper.
GcClear(S) ==
  LET gone == UNION {ClosuresOf(o) : o \in {p \in S : ~Shared(p)}}
      left == {c \in Closures \ gone : keeps[c] \cap S # {}}
  IN
  /\ GilFree /\ Alone /\ Garbage(S)
  /\ wrap' = [o \in Objs |-> wrap[o] /\ o \notin S]
  /\ dict' = [o \in Objs |-> dict[o] /\ o \notin S]
  /\ closures' = [o \in Objs |-> Without(closures[o], gone)]
  /\ cobj' = [c \in Closures |-> IF c \in gone THEN NoObj ELSE cobj[c]]
  /\ callback' = [c \in Closures |-> IF c \in gone THEN NoFunc ELSE callback[c]]
  /\ keeps' = [c \in Closures |-> IF c \in gone THEN {} ELSE keeps[c] \ S]
  /\ wref' = [o \in Objs |-> IF o \in S THEN 0 ELSE wref[o] - Released(gone, o)]
  /\ unbound' = (unbound \ gone) \cup left
  /\ conn' = conn \ gone
  /\ UNCHANGED <<native, held, tvars, avars>>

-----------------------------------------------------------------------------
(* Specification *)

ObjStep(o) ==
  \/ \E py \in BOOLEAN : New(o, py)
  \/ GetWrapper(o) \/ SetAttr(o) \/ Drop(o) \/ Dealloc(o)
  \/ NativeRef(o) \/ NativeUnref(o) \/ Dispose(o)
  \/ \E c \in Closures, f \in Funcs, K \in SUBSET Objs : BeginConnect(o, c, f, K)
  \/ \E f \in Funcs : DisconnectByFunc(o, f)

ThreadStep(t) ==
  \/ \E o \in Objs, c \in Closures : Emit(t, o, c)
  \/ Marshal(t) \/ Return(t) \/ Unwatch(t) \/ Invalidated(t) \/ Leave(t)

Next ==
  \/ \E o \in Objs : ObjStep(o)
  \/ \E t \in Threads : ThreadStep(t)
  \/ \E c \in Closures : Disconnect(c)
  \/ EndConnect
  \/ \E S \in SUBSET Objs : GcClear(S)

Spec == Init /\ [][Next]_vars

-----------------------------------------------------------------------------
(* Properties *)

\* Every variable holds values of its kind: no reference on a wrapper is released
\* that was not taken.
TypeOK ==
  /\ native \in [Objs -> BOOLEAN] /\ wrap \in [Objs -> BOOLEAN]
  /\ held \in [Objs -> BOOLEAN] /\ dict \in [Objs -> BOOLEAN]
  /\ wref \in [Objs -> Nat] /\ closures \in [Objs -> Seq(Closures)]
  /\ cobj \in [Closures -> Objs \cup {NoObj}]
  /\ callback \in [Closures -> Funcs \cup {NoFunc}]
  /\ keeps \in [Closures -> SUBSET Objs]
  /\ unbound \subseteq Closures /\ conn \subseteq Closures
  /\ tst \in [Threads -> {"idle", "marshal", "call", "unwatch", "invalidate", "leave"}]
  /\ tobj \in [Threads -> Objs \cup {NoObj}]
  /\ tcl \in [Threads -> Closures \cup {NoClosure}]
  /\ seen \in [Threads -> Seq(Closures)]
  /\ adding \in Closures \cup {NoClosure} /\ addseen \in Seq(Closures)

\* The list of an object's instance data has each closure that was connected on
\* it, once, and no closure that is freed: what pygobject_traverse walks, what
\* gclosure_from_pyfunc searches and what pygobject_data_free invalidates.
ListExact ==
  \A o \in Objs :
    /\ IsInjective(closures[o])
    /\ ToSet(closures[o]) =
         {c \in Closures : cobj[c] = o /\ c # adding
                             /\ \A t \in Threads : tcl[t] = c => tst[t] # "invalidate"}

\* Every reference on a wrapper is that of a variable or of a closure in use:
\* pyg_closure_invalidate releases what pyg_closure_new took, once.
RefsOwned ==
  \A o \in Objs :
    /\ wref[o] = B(held[o]) + Cardinality({c \in Closures : Valid(c) /\ o \in keeps[c]})
    /\ wref[o] > 0 => wrap[o]

\* A marshaller that gets the GIL finds its callback and its swap data: nothing
\* invalidates a closure, frees it or unbinds its object during the emission.
CallbackThere ==
  \A t \in Threads : tst[t] \in {"marshal", "call"} =>
    callback[tcl[t]] # NoFunc /\ cobj[tcl[t]] = tobj[t] /\ Exists(tobj[t])

\* A wrapper the collector clears has its closures invalidated: no handler is
\* left that refers to a wrapper without object.
ClearInvalidates == unbound = {}

\* Objects that can still be used: native code, a variable or an emission has
\* them, or a handler on such an object refers to their wrapper.
Used ==
  {o \in Objs : \A S \in SUBSET Objs :
     ( /\ \A p \in Objs : held[p] \/ Shared(p) => p \in S
       /\ \A c \in Closures : cobj[c] \in S => keeps[c] \subseteq S )
     => o \in S}

\* Threads go on with an emission, a wrapper nobody refers to is deallocated, and
\* the collector does not overlook any garbage for ever.
Fairness ==
  /\ \A t \in Threads : /\ WF_vars(Marshal(t)) /\ SF_vars(Return(t))
                        /\ WF_vars(Unwatch(t)) /\ SF_vars(Invalidated(t) \/ Leave(t))
  /\ WF_vars(EndConnect)
  /\ \A o \in Objs : /\ SF_vars(Dealloc(o))
                     /\ SF_vars(\E S \in SUBSET Objs : o \in S /\ GcClear(S))

FairSpec == Spec /\ Fairness

\* An object whose handlers refer back to it does not leak: when only they do, it
\* is finalized, and its handlers are freed with it.
CyclesFreed == \A o \in Objs : (Exists(o) /\ o \notin Used) ~> (~Exists(o) \/ o \in Used)
=============================================================================
