---------------------------- MODULE NativeClosure ----------------------------
(***************************************************************************)
(* Python functions called by native code (pygi-closure.c).  A closure is  *)
(* made when a function is invoked with a callback (module Invoke), and    *)
(* its scope says how long native code may call it: during the call that   *)
(* it was passed to ("call"), once, at any time ("async"), or until a      *)
(* destroy notification ("notified").  Nobody tells when the one call of   *)
(* an async closure is over, so it lets go of its Python data at its end   *)
(* and is put on async_free_list, for the next closure that is made to     *)
(* free.  Python code that runs in between, in a callback or in a          *)
(* finalizer, makes closures too.                                          *)
(*                                                                         *)
(* Each action is a stretch of code that keeps the GIL, or one that does   *)
(* not need it; where Python code runs, other threads may.                 *)
(***************************************************************************)
EXTENDS Argument

CONSTANTS PyThreads, NativeThreads, Programs

ASSUME ProgramsAssumption ==
  \A p \in Programs : p.scopes \in Seq({"call", "async", "notified"}) /\ p.calls \in Nat

VARIABLES
  program,   \* [args, ret, inputs, results, scopes, depth, calls]
  closure,   \* each PyGICClosure: [state, function, refs, callable, calls]
  async_free_list,
  stack      \* what each thread is in, the innermost last
vars == <<program, closure, async_free_list, stack>>

Threads == PyThreads \cup NativeThreads
Closure == DOMAIN program.scopes
Scope(c) == program.scopes[c]
Arguments == program.args
NArgs == Len(Arguments)

(***************************************************************************)
(* A frame: "invoke" is the call of a native function with closure c,      *)
(* "handle" a call of c, "free" its destruction.  "pc" says whether native *)
(* code, Python code or a finalizer runs there; a finalizer runs when the  *)
(* Python function goes away, before the frame can finish.  A call has the *)
(* arguments for Python, the return value (place 0) and the arguments as   *)
(* native code sees them, and what Python returned.                        *)
(***************************************************************************)
Nothing == [ok |-> TRUE, values |-> << >>, user_data_arg |-> 0, destroy_notify_arg |-> 0]
Raised == Val("raised")
Passed == [i \in 0 .. NArgs |-> IF i = 0 THEN None ELSE program.inputs[i]]
Frame(k, c, pc) == [k |-> k, c |-> c, pc |-> pc, got |-> Nothing, memory |-> Passed, result |-> Raised]
Top(t) == Last(stack[t])
Busy(t) == stack[t] # << >>
At(t, k, pc) == Busy(t) /\ Top(t).k = k /\ Top(t).pc = pc
Python(t) == IF Busy(t) THEN Top(t).pc \in {"python", "final"} ELSE t \in PyThreads
Native(t) == IF Busy(t) THEN Top(t).pc = "native" ELSE t \in NativeThreads
Push(t, f) == stack' = [stack EXCEPT ![t] = Append(@, f)]
Becomes(t, f) == stack' = [stack EXCEPT ![t] = Append(Front(@), f)]
Goto(t, pc) == Becomes(t, [Top(t) EXCEPT !.pc = pc])
Pop(t) == stack' = [stack EXCEPT ![t] = Front(@)]
Frames(c) == {f \in UNION {Range(stack[t]) : t \in Threads} : f.c = c}

-----------------------------------------------------------------------------
(***************************************************************************)
(* _pygi_closure_convert_ffi_arguments reads the arguments: three types    *)
(* are not handled and arrive as zero.                                     *)
(***************************************************************************)
Unhandled == {"filename", "gtype", "unichar"}
Zero(tag) == CASE tag = "filename" -> None [] tag = "gtype" -> Val("invalid") [] OTHER -> Text(0)
FfiArgument(a, c) == IF a.dir = "in" /\ a.e.tag \in Unhandled THEN Zero(a.e.tag) ELSE c
IsUserData(a) == a.dir = "in" /\ a.e.tag = "void"
IsCallback(a) == a.dir = "in" /\ a.e.tag = "callback"
UserData == Val("userdata")
Wrapper(c) == IF c = None THEN None ELSE Val("ccallback")

(***************************************************************************)
(* _pygi_closure_convert_arguments: the tuple for Python.  A pointer       *)
(* argument is the user data of the closure; a callback among the          *)
(* arguments becomes a callable that has its own user data and destroy     *)
(* notification, which are skipped from there on; (out) arguments wait.    *)
(* The places to skip are those of the last callback seen.                 *)
(***************************************************************************)
PyArgument(a, c) ==
  CASE IsUserData(a) -> Shows(UserData, {})
    [] IsCallback(a) -> Shows(Wrapper(c), {})
    [] OTHER -> ToObject(a.e, FfiArgument(a, c))
\* Mutant: the user data and the destroy notification of a callback are arguments too.
SkipsNone(s, i) == FALSE
Skips(s, i) == i \in {s.user_data_arg, s.destroy_notify_arg}
ConvertArgument(s, i) ==
  LET a == Arguments[i]
      r == PyArgument(a, program.inputs[i])
  IN  IF ~s.ok \/ Skips(s, i) \/ a.dir = "out" THEN s
      ELSE [ok |-> r.ok, values |-> Append(s.values, r.py),
            user_data_arg |-> IF IsCallback(a) THEN a.closure ELSE s.user_data_arg,
            destroy_notify_arg |-> IF IsCallback(a) THEN a.destroy ELSE s.destroy_notify_arg]
Numbers(n) == [i \in 1 .. n |-> i]
ConvertArguments == FoldLeft(ConvertArgument, Nothing, Numbers(NArgs))

(***************************************************************************)
(* _pygi_closure_set_out_arguments: the return value is the first item of  *)
(* a tuple, or what is not one; the (out) and (inout) arguments follow in  *)
(* order, but an error takes no item and stays as it is.  Native code may  *)
(* have no place for an (out) argument.  What does not convert is zero,    *)
(* and None leaves a structure alone.                                      *)
(***************************************************************************)
OutArguments == SelectSeq(Numbers(NArgs), LAMBDA i : Arguments[i].dir # "in")
\* PyTuple_GET_ITEM does not look at the size of the tuple.
ItemOf(r, k) ==
  CASE r.py # "tuple" -> r
    [] r.py = "tuple" /\ k <= Len(r.items) -> r.items[k]
    [] OTHER -> Val("beyond")
Nowhere == Val("nowhere")
Assigned(e, v) == LET r == FromObject(e, v) IN IF r.ok THEN r.says ELSE Val("zero")
AssignedOut(e, v, old) ==
  IF old = Nowhere \/ (e.tag = "struct" /\ v = None) THEN old ELSE Assigned(e, v)
HasReturn == program.ret.tag # "void"
IsError(i) == Arguments[i].e.tag = "error"
\* Mutant: an error takes an item of the result as well.
CountsErrors(s, i) == s.item + 1
NextItem(s, i) == IF IsError(i) THEN s.item ELSE s.item + 1
SetOutArgument(r, s, i) ==
  [item |-> NextItem(s, i),
   memory |-> IF IsError(i) THEN s.memory
              ELSE [s.memory EXCEPT ![i] = AssignedOut(Arguments[i].e, ItemOf(r, s.item), @)]]
SetOutArguments(r, memory) ==
  LET start == IF HasReturn
               THEN [item |-> 2, memory |-> [memory EXCEPT ![0] = Assigned(program.ret, ItemOf(r, 1))]]
               ELSE [item |-> 1, memory |-> memory]
  IN  FoldLeft(LAMBDA s, i : SetOutArgument(r, s, i), start, OutArguments).memory

-----------------------------------------------------------------------------
(***************************************************************************)
(* _pygi_invoke_closure_clear_py_data drops what the closure owns of its   *)
(* function, "refs", and then forgets the function; a finalizer may run in *)
(* between.  _pygi_invoke_closure_free calls it as well.                   *)
(***************************************************************************)
Drops(x) == IF x.function THEN [x EXCEPT !.refs = @ - 1] ELSE x
\* Mutant: the function is not forgotten.
StillKnown(x) == x
Forgets(x) == [x EXCEPT !.function = FALSE]
Release(x) == [x EXCEPT !.state = IF @ = "live" THEN "freed" ELSE "freed twice"]
Free(x) == Release(Forgets(Drops(x)))
Finalizer(t, c, pc) == IF closure[c].function /\ Len(stack[t]) <= program.depth THEN {"final", pc} ELSE {pc}

(***************************************************************************)
(* _pygi_make_native_closure, called while a function is invoked: what is  *)
(* on async_free_list goes first.                                          *)
(***************************************************************************)
\* Mutant: the list is not emptied.
KeepsList == async_free_list
EmptyList == << >>
NextClosure(c) == closure[c].state = "unused" /\ \A d \in Closure : d < c => closure[d].state # "unused"
MakeNativeClosure(c) ==
  /\ closure' = [d \in Closure |->
                   CASE d = c -> [state |-> "live", function |-> TRUE, refs |-> 1, callable |-> TRUE, calls |-> 0]
                     [] d \in Range(async_free_list) -> Free(closure[d])
                     [] OTHER -> closure[d]]
  /\ async_free_list' = EmptyList
Invoke(t, c) ==
  /\ Python(t) /\ NextClosure(c) /\ Len(stack[t]) < program.depth
  /\ MakeNativeClosure(c)
  /\ Push(t, Frame("invoke", c, "native"))
  /\ UNCHANGED <<program>>

(***************************************************************************)
(* The native function returns.  It does not call a closure of scope       *)
(* "call" any more, which is freed by the cleanup of the invocation.       *)
(***************************************************************************)
InvokeReturns(t) ==
  LET c == Top(t).c IN
  /\ At(t, "invoke", "native")
  /\ IF Scope(c) = "call"
     THEN /\ Frames(c) = {Top(t)}
          /\ closure' = [closure EXCEPT ![c] = Drops([@ EXCEPT !.callable = FALSE])]
          /\ \E pc \in Finalizer(t, c, "free") : Goto(t, pc)
     ELSE Pop(t) /\ UNCHANGED closure
  /\ UNCHANGED <<program, async_free_list>>

(***************************************************************************)
(* Native code calls the closure: an async one only once.  Then            *)
(* _pygi_closure_handle takes the GIL and calls the function; Python is    *)
(* not called if an argument does not convert.                             *)
(***************************************************************************)
Calls(t, c) ==
  /\ Native(t) /\ closure[c].callable /\ closure[c].calls < program.calls
  /\ Len(stack[t]) < program.depth
  /\ closure' = [closure EXCEPT ![c].calls = @ + 1, ![c].callable = Scope(c) # "async"]
  /\ Push(t, Frame("handle", c, "enter"))
  /\ UNCHANGED <<program, async_free_list>>
Enter(t) ==
  /\ At(t, "handle", "enter")
  /\ LET got == ConvertArguments
     IN  Becomes(t, [Top(t) EXCEPT !.pc = IF got.ok THEN "python" ELSE "end", !.got = got])
  /\ UNCHANGED <<program, closure, async_free_list>>
Returns(t, r) ==
  /\ At(t, "handle", "python")
  /\ Becomes(t, [Top(t) EXCEPT !.pc = "end", !.result = r,
                               !.memory = IF r = Raised THEN @ ELSE SetOutArguments(r, @)])
  /\ UNCHANGED <<program, closure, async_free_list>>

(***************************************************************************)
(* The end of _pygi_closure_handle: an async closure drops its Python data *)
(* first, so that a finalizer that makes a closure does not free it, and   *)
(* is put on the list then.                                                *)
(***************************************************************************)
\* Mutant: the Python data is dropped when the closure is freed.
KeepsData(x) == x
DropsData(x) == Drops(x)
\* Mutant: on the list before the finalizer runs.
ListsFirst(c) == <<c>> \o async_free_list
ListsLater(c) == async_free_list
HandleEnds(t) ==
  LET c == Top(t).c IN
  /\ At(t, "handle", "end")
  /\ IF Scope(c) = "async"
     THEN /\ closure' = [closure EXCEPT ![c] = DropsData(@)]
          /\ \E pc \in Finalizer(t, c, "list") : Goto(t, pc)
          /\ async_free_list' = ListsLater(c)
     ELSE Pop(t) /\ UNCHANGED <<closure, async_free_list>>
  /\ UNCHANGED <<program>>
HandleLists(t) ==
  LET c == Top(t).c IN
  /\ At(t, "handle", "list")
  /\ closure' = [closure EXCEPT ![c] = Forgets(@)]
  /\ async_free_list' = IF c \in Range(async_free_list) THEN async_free_list ELSE <<c>> \o async_free_list
  /\ Pop(t)
  /\ UNCHANGED program

\* Native code is done with a notified closure, and in no call of it.
Destroy(t, c) ==
  /\ Native(t) /\ Scope(c) = "notified" /\ closure[c].callable
  /\ \A f \in Frames(c) : f.k = "invoke"
  /\ closure' = [closure EXCEPT ![c] = Drops([@ EXCEPT !.callable = FALSE])]
  /\ \E pc \in Finalizer(t, c, "free") : Push(t, Frame("free", c, pc))
  /\ UNCHANGED <<program, async_free_list>>
FinalizerEnds(t) ==
  /\ Busy(t) /\ Top(t).pc = "final"
  /\ Goto(t, IF Top(t).k = "handle" THEN "list" ELSE "free")
  /\ UNCHANGED <<program, closure, async_free_list>>
Frees(t) ==
  /\ Busy(t) /\ Top(t).pc = "free"
  /\ closure' = [closure EXCEPT ![Top(t).c] = Release(Forgets(@))]
  /\ Pop(t)
  /\ UNCHANGED <<program, async_free_list>>

Fresh == [state |-> "unused", function |-> FALSE, refs |-> 0, callable |-> FALSE, calls |-> 0]
Init ==
  /\ program \in Programs
  /\ closure = [c \in Closure |-> Fresh]
  /\ async_free_list = << >>
  /\ stack = [t \in Threads |-> << >>]
Step(t) ==
  \/ \E c \in Closure : Invoke(t, c) \/ Calls(t, c) \/ Destroy(t, c)
  \/ \E r \in program.results : Returns(t, r)
  \/ InvokeReturns(t) \/ Enter(t) \/ HandleEnds(t) \/ HandleLists(t) \/ FinalizerEnds(t) \/ Frees(t)
Next == \E t \in Threads : Step(t)
Spec == Init /\ [][Next]_vars

-----------------------------------------------------------------------------
(***************************************************************************)
(* A closure owns its function once or not at all, and is freed once.      *)
(***************************************************************************)
TypeOK ==
  /\ \A c \in Closure :
       /\ closure[c].state \in {"unused", "live", "freed"}
       /\ closure[c].refs \in 0 .. 1 /\ closure[c].calls \in 0 .. program.calls
       /\ {closure[c].function, closure[c].callable} \subseteq BOOLEAN
  /\ Range(async_free_list) \subseteq {c \in Closure : Scope(c) = "async"}
  /\ \A t \in Threads : \A f \in Range(stack[t]) :
       /\ f.k \in {"invoke", "handle", "free"} /\ f.c \in Closure
       /\ f.pc \in {"native", "enter", "python", "end", "final", "list", "free"}

(***************************************************************************)
(* A closure is not freed while native code may call it or anybody is in   *)
(* it: a finalizer run by its end, the function it calls and other threads *)
(* may all make closures, which frees those on the list.  An invocation    *)
(* comes back to its closure only if that is of scope "call".              *)
(***************************************************************************)
ComesBack(f) == f.k # "invoke" \/ Scope(f.c) = "call"
InUse(c) == closure[c].callable \/ \E f \in Frames(c) : ComesBack(f)
NeverFreedInUse == \A c \in Closure : InUse(c) => closure[c].state = "live"

(***************************************************************************)
(* The Python function lives exactly as long as native code may call it or *)
(* a call that may need it goes on: never shorter, which would call what   *)
(* is gone, and never longer, whenever the closure itself is freed.        *)
(***************************************************************************)
Needs(f) == f.k = "handle" /\ f.pc \in {"enter", "python", "end"}
FunctionHeld ==
  \A c \in Closure :
    closure[c].refs = IF closure[c].callable \/ (\E f \in Frames(c) : Needs(f)) THEN 1 ELSE 0

(***************************************************************************)
(* What the next closure that is made frees is what nobody will free       *)
(* otherwise: the list has each closure that is over but not freed, once.  *)
(***************************************************************************)
EndedAreListed ==
  /\ IsInjective(async_free_list)
  /\ Range(async_free_list) = {c \in Closure : closure[c].state = "live" /\ ~InUse(c)}

(***************************************************************************)
(* Python gets what native code passed, in order, without the (out)        *)
(* arguments and what belongs to a callback among the arguments, and is    *)
(* only not called if something has no Python form.  Of three types        *)
(* nothing is said: the code reads zero for them.                          *)
(***************************************************************************)
BelongsToCallback(i) ==
  \E j \in 1 .. i - 1 : IsCallback(Arguments[j]) /\ i \in {Arguments[j].closure, Arguments[j].destroy}
Shown == SelectSeq(Numbers(NArgs), LAMBDA i : Arguments[i].dir # "out" /\ ~BelongsToCallback(i))
Formless(v) == v.py = "badstr" \/ \E k \in DOMAIN v.items : v.items[k].py = "badstr"
Arrives(a, c, py) ==
  CASE IsUserData(a) -> py = UserData
    [] IsCallback(a) -> (py = None) <=> (c = None)
    [] a.e.tag \in Unhandled -> TRUE
    [] OTHER -> py = c \/ (c = None /\ py = List(<< >>))
Calling(t) == Busy(t) /\ Top(t).k = "handle"
ArgumentsArrive ==
  \A t \in Threads : Calling(t) /\ Top(t).pc \in {"python", "end"} =>
    LET got == Top(t).got
    IN  IF got.ok
        THEN /\ Len(got.values) = Len(Shown)
             /\ \A k \in DOMAIN Shown : Arrives(Arguments[Shown[k]], program.inputs[Shown[k]], got.values[k])
        ELSE \E i \in Range(Shown) : Formless(program.inputs[i])

(***************************************************************************)
(* Native code gets what Python returned, each item in the place it is     *)
(* meant for if it is of its type; and nothing is stored anywhere else,    *)
(* nor after an exception.                                                 *)
(***************************************************************************)
Takes(p) == IF p = 0 THEN HasReturn ELSE Arguments[p].dir # "in" /\ ~IsError(p)
Place(p) == IF p = 0 THEN program.ret ELSE Arguments[p].e
NumberOf(p) == Cardinality({q \in 0 .. p : Takes(q)})
Arrived(e, v, c) ==
  \/ c = v \/ ~CheckObject(e, v)
  \/ e.tag = "boolean" /\ c = Truth(v)
  \/ v = None \/ (v = List(<< >>) /\ c = None)
ResultsArrive ==
  \A t \in Threads : Calling(t) /\ Top(t).pc = "end" =>
    LET f == Top(t)
    IN  \A p \in 0 .. NArgs :
          IF f.result = Raised \/ ~Takes(p) \/ Passed[p] = Nowhere THEN f.memory[p] = Passed[p]
          ELSE Arrived(Place(p), ItemOf(f.result, NumberOf(p)), f.memory[p])
=============================================================================
