------------------------------ MODULE WeakRef ------------------------------
(***************************************************************************)
(* Weak references on GObjects (GObject.weak_ref) and on the GBindings of  *)
(* bind_property.  GLib notifies them one by one when the object is        *)
(* disposed of, by whoever dropped its last reference and without the GIL: *)
(* pygobject_weak_ref_notify forgets the object at once, and then waits    *)
(* for the GIL to run the callback.  Python code, the callbacks included,  *)
(* goes on using the weak references, and the object, all the time.        *)
(***************************************************************************)
EXTENDS Naturals, Sequences, FiniteSets

CONSTANTS
  Targets,   \* GObjects
  Bindings,  \* those of them that are GBindings
  Refs,      \* weak references
  Garbage,   \* the values have_floating_ref may have when nobody has set it
  Careless,  \* whether a weak reference may be given up while its object is disposed of,
             \* and a binding be unbound again that something else owns
  NoTarget

ASSUME BindingsAssumption == Bindings \subseteq Targets
ASSUME GarbageAssumption == Garbage \subseteq BOOLEAN
ASSUME NoTargetAssumption == NoTarget \notin Targets

VARIABLES
  life,      \* "unborn", "alive", "disposing", "finalized"
  holders,   \* who owns a GObject: "native", "python" (its wrapper)
  weak,      \* the weak references GLib is to notify
  todo,      \* those that the dispose in progress has taken from there and not notified yet
  waiting,   \* the notifications that wait for the GIL
  target,    \* PyGObjectWeakRef.obj
  callback,  \* the weak references with a callback
  floats,    \* have_floating_ref
  pyrefs,    \* ob_refcnt of each weak reference; 0: there is none
  named,     \* those in a variable of the program
  fate       \* of a callback: "due", "called", "unreffed", or "none"
deathvars == <<life, holders, weak, todo, waiting, target, callback, floats, pyrefs, named, fate>>

DeathTypeOK ==
  /\ life \in [Targets -> {"unborn", "alive", "disposing", "finalized"}]
  /\ holders \in [Targets -> SUBSET {"native", "python"}]
  /\ weak \in [Targets -> SUBSET Refs] /\ todo \in [Targets -> SUBSET Refs]
  /\ waiting \subseteq Refs /\ callback \subseteq Refs /\ named \subseteq Refs
  /\ target \in [Refs -> Targets \cup {NoTarget}]
  /\ floats \in [Refs -> BOOLEAN]
  /\ pyrefs \in [Refs -> 0 .. 2]
  /\ fate \in [Refs -> {"none", "due", "called", "unreffed"}]

DeathInit ==
  /\ life = [o \in Targets |-> "unborn"] /\ holders = [o \in Targets |-> {}]
  /\ weak = [o \in Targets |-> {}] /\ todo = [o \in Targets |-> {}] /\ waiting = {}
  /\ target = [r \in Refs |-> NoTarget] /\ callback = {}
  /\ floats = [r \in Refs |-> FALSE] /\ pyrefs = [r \in Refs |-> 0]
  /\ named = {} /\ fate = [r \in Refs |-> "none"]

Exists(r) == pyrefs[r] > 0
\* GLib has it on its list, and is not about to notify it.
Linked(r) == r \in weak[target[r]] \cup waiting \/ Careless
Fresh(r) == ~Exists(r) /\ \A o \in Targets : r \notin weak[o] \cup todo[o]

\* An object that Python knows; a binding is owned by its source and its target.
Born(o) ==
  /\ life[o] = "unborn" /\ life' = [life EXCEPT ![o] = "alive"]
  /\ holders' = [holders EXCEPT ![o] = IF o \in Bindings THEN {"native"} ELSE {"native", "python"}]
  /\ UNCHANGED <<weak, todo, waiting, target, callback, floats, pyrefs, named, fate>>

(***************************************************************************)
(* pygobject_weak_ref_new and pygbinding_weak_ref_new.  Only a callback    *)
(* makes the weak reference keep itself; without one, have_floating_ref is *)
(* what the memory happens to hold.                                        *)
(***************************************************************************)
NewWeakRef(r, o, calls, garbage) ==
  /\ Fresh(r)
  /\ IF o \in Bindings THEN life[o] = "alive" /\ weak[o] = {} /\ ~calls ELSE "python" \in holders[o]
  /\ target' = [target EXCEPT ![r] = o] /\ weak' = [weak EXCEPT ![o] = @ \cup {r}]
  /\ callback' = IF calls THEN callback \cup {r} ELSE callback
  /\ floats' = [floats EXCEPT ![r] = calls \/ garbage]
  /\ pyrefs' = [pyrefs EXCEPT ![r] = IF calls THEN 2 ELSE 1]
  /\ named' = named \cup {r} /\ fate' = [fate EXCEPT ![r] = IF calls THEN "due" ELSE "none"]
  /\ UNCHANGED <<life, holders, todo, waiting>>

\* pygobject_weak_ref_call: the object, in a wrapper, or None.
Answer(r) ==
  /\ r \in named /\ target[r] # NoTarget
  /\ holders' = [holders EXCEPT ![target[r]] = @ \cup {"python"}]
  /\ UNCHANGED <<life, weak, todo, waiting, target, callback, floats, pyrefs, named, fate>>

\* Mutant: g_object_weak_unref is forgotten.
UnregisterNot(r) == target' = [target EXCEPT ![r] = NoTarget] /\ UNCHANGED weak
\* g_object_weak_unref, which only warns of a weak reference that is being notified.
Unregister(r) == weak' = [weak EXCEPT ![target[r]] = @ \ {r}] /\ target' = [target EXCEPT ![r] = NoTarget]
\* A reference on the weak reference itself goes, and Python may deallocate it.
PyDecref(r) ==
  /\ pyrefs' = [pyrefs EXCEPT ![r] = @ - 1]
  /\ callback' = IF pyrefs[r] = 1 THEN callback \ {r} ELSE callback

\* Mutant: unref() does not drop the weak reference's own reference.
UnrefKept(r) ==
  /\ r \in named /\ target[r] # NoTarget /\ Linked(r) /\ Unregister(r)
  /\ fate' = [fate EXCEPT ![r] = IF @ = "due" THEN "unreffed" ELSE @]
  /\ UNCHANGED <<life, holders, todo, waiting, callback, floats, pyrefs, named>>
\* pygobject_weak_ref_unref; without an object it raises.
Unref(r) ==
  /\ r \in named /\ target[r] # NoTarget /\ Linked(r) /\ Unregister(r)
  /\ floats' = [floats EXCEPT ![r] = FALSE]
  /\ IF floats[r] THEN PyDecref(r) ELSE UNCHANGED <<pyrefs, callback>>
  /\ fate' = [fate EXCEPT ![r] = IF @ = "due" THEN "unreffed" ELSE @]
  /\ UNCHANGED <<life, holders, todo, waiting, named>>

\* The program forgets a weak reference: the last time, pygobject_weak_ref_dealloc.
Forget(r) ==
  /\ r \in named /\ named' = named \ {r} /\ PyDecref(r)
  /\ IF pyrefs[r] = 1 /\ target[r] # NoTarget THEN Linked(r) /\ Unregister(r) ELSE UNCHANGED <<weak, target>>
  /\ UNCHANGED <<life, holders, todo, waiting, floats, fate>>

(***************************************************************************)
(* The last reference goes: g_object_unref disposes of the object, and     *)
(* finalizes it unless it has found a new owner meanwhile.                 *)
(***************************************************************************)
Loses(o, who) ==
  IF holders[o] # {who} \/ life[o] = "disposing"
  THEN holders' = [holders EXCEPT ![o] = @ \ {who}] /\ UNCHANGED <<life, weak, todo>>
  ELSE /\ holders' = [holders EXCEPT ![o] = {}] /\ life' = [life EXCEPT ![o] = "disposing"]
       /\ todo' = [todo EXCEPT ![o] = weak[o]] /\ weak' = [weak EXCEPT ![o] = {}]
Release(o, who) ==
  /\ who \in holders[o] /\ Loses(o, who)
  /\ UNCHANGED <<waiting, target, callback, floats, pyrefs, named, fate>>

\* pygbinding_weak_ref_unbind leaves obj to the notification.
Unbind(r) ==
  /\ r \in named /\ target[r] \in Bindings /\ life[target[r]] = "alive"
  /\ "native" \in holders[target[r]] \/ Careless
  /\ Loses(target[r], IF "native" \in holders[target[r]] THEN "native" ELSE "python")
  /\ UNCHANGED <<waiting, target, callback, floats, pyrefs, named, fate>>

\* Mutant: the notification forgets the object when it has the GIL.
NotifyLate(o, r) ==
  /\ life[o] = "disposing" /\ todo[o] \cap waiting = {} /\ r \in todo[o]
  /\ IF r \in callback THEN waiting' = waiting \cup {r} /\ UNCHANGED <<todo, target>>
     ELSE /\ todo' = [todo EXCEPT ![o] = @ \ {r}] /\ target' = [target EXCEPT ![r] = NoTarget]
          /\ UNCHANGED waiting
  /\ UNCHANGED <<life, holders, weak, callback, floats, pyrefs, named, fate>>
\* pygobject_weak_ref_notify, before it has the GIL ...
Notify(o, r) ==
  /\ life[o] = "disposing" /\ todo[o] \cap waiting = {} /\ r \in todo[o]
  /\ target' = [target EXCEPT ![r] = NoTarget]
  /\ IF r \in callback THEN waiting' = waiting \cup {r} /\ UNCHANGED todo
     ELSE todo' = [todo EXCEPT ![o] = @ \ {r}] /\ UNCHANGED waiting
  /\ UNCHANGED <<life, holders, weak, callback, floats, pyrefs, named, fate>>
\* ... when it has it, and when the callback has returned.
RunCallback(r) ==
  /\ r \in waiting /\ fate[r] # "called" /\ fate' = [fate EXCEPT ![r] = "called"]
  /\ UNCHANGED <<life, holders, weak, todo, waiting, target, callback, floats, pyrefs, named>>
Called(o, r) ==
  /\ r \in waiting \cap todo[o] /\ fate[r] = "called"
  /\ waiting' = waiting \ {r} /\ todo' = [todo EXCEPT ![o] = @ \ {r}]
  /\ callback' = callback \ {r} /\ floats' = [floats EXCEPT ![r] = FALSE]
  /\ pyrefs' = [pyrefs EXCEPT ![r] = IF floats[r] THEN @ - 1 ELSE @]
  /\ UNCHANGED <<life, holders, weak, target, named, fate>>

\* The end of g_object_unref: an object with a new owner stays; one without is finalized, after
\* those who asked for a notification since.
Disposed(o) ==
  /\ life[o] = "disposing" /\ todo[o] = {}
  /\ life' = [life EXCEPT ![o] = IF holders[o] # {} THEN "alive" ELSE IF weak[o] # {} THEN @ ELSE "finalized"]
  /\ IF holders[o] = {} THEN todo' = [todo EXCEPT ![o] = weak[o]] /\ weak' = [weak EXCEPT ![o] = {}]
     ELSE UNCHANGED <<todo, weak>>
  /\ UNCHANGED <<holders, waiting, target, callback, floats, pyrefs, named, fate>>

DeathNext ==
  \/ \E o \in Targets :
       \/ Born(o) \/ Disposed(o)
       \/ \E who \in {"native", "python"} : Release(o, who)
       \/ \E r \in Refs : \/ Notify(o, r) \/ Called(o, r)
                          \/ \E calls \in BOOLEAN, garbage \in Garbage : NewWeakRef(r, o, calls, garbage)
  \/ \E r \in Refs : Answer(r) \/ Unref(r) \/ Forget(r) \/ Unbind(r) \/ RunCallback(r)
DeathSpec == DeathInit /\ [][DeathNext]_deathvars

(***************************************************************************)
(* GLib notifies the weak references that exist and know the object, and   *)
(* no other: one that Python has deallocated is off the list, and one that *)
(* still answers with the object is on it, so that the object is not gone. *)
(***************************************************************************)
Registered ==
  /\ \A o \in Targets, r \in Refs :
       r \in weak[o] \cup (todo[o] \ waiting) <=> Exists(r) /\ target[r] = o
  /\ \A r \in waiting : Exists(r)
  /\ \A r \in Refs : target[r] # NoTarget => life[target[r]] \in {"alive", "disposing"}

(***************************************************************************)
(* A weak reference lives as long as the program can name it or its        *)
(* callback is still to be run or running, and no longer.                  *)
(***************************************************************************)
KeepsItself ==
  \A r \in Refs :
    pyrefs[r] = Cardinality({r} \cap named) + Cardinality({r} \cap {s \in callback : fate[s] # "unreffed"})

(***************************************************************************)
(* A callback that is due will be run: GLib has it on its list, or a       *)
(* notification of it waits for the GIL.  One that unref() has called off  *)
(* will not, even if the object is disposed of at that moment.             *)
(***************************************************************************)
CalledUnlessUnreffed ==
  \A r \in Refs :
    /\ fate[r] = "due" <=> \E o \in Targets : r \in callback \cap (weak[o] \cup todo[o]) /\ fate[r] # "called"
    /\ fate[r] = "unreffed" => r \notin waiting
=============================================================================
