------------------------------ MODULE Accessors ------------------------------
(***************************************************************************)
(* The ways Python reads and writes what belongs to a native object:       *)
(* fields and constants (pygi-info.c), and properties through              *)
(* set_property, set_properties, the constructor, object.props and the     *)
(* Property descriptor.  They go through three converters.  A property     *)
(* that introspection knows is converted by pygi-property.c when it is     *)
(* set, by either converter when it is read, and the GIL is held all the   *)
(* while; other properties are converted by pygtype.c, and the GIL is      *)
(* released around g_object_set_property and g_object_get_property, which  *)
(* may come back to Python, to the methods of a Property.                  *)
(*                                                                         *)
(* A world has one object with a few accessors, and gives each thread a    *)
(* list of calls to choose from, one after the other.                      *)
(***************************************************************************)
EXTENDS GValues

CONSTANTS Threads, Nobody, Worlds

ASSUME ThreadsAssumption == IsFiniteSet(Threads)

VARIABLES
  world,    \* [accessors, initial, plan, lock]
  stored,   \* the contents of each accessor, in C or, for a Property, in Python
  given,    \* the Python value these contents were made from
  gil,      \* the thread that holds the GIL inside C code, or Nobody
  lock,     \* a lock of the native class: "free", "held" by another native thread, "done"
  frozen,   \* how often the notifications of the object are frozen
  exc,      \* Property._exc of each accessor: "none", "read-only" or "write-only"
  th,       \* what each thread is doing
  saw,      \* what each thread read last, and the value it was to read
  lost      \* what was made for an access and never given back
vars == <<world, stored, given, gil, lock, frozen, exc, th, saw, lost>>

(***************************************************************************)
(* An accessor: "kind" is "field", "constant", "introspected", "object" (a *)
(* property only GObject knows) or "python" (a Property); e and g are its  *)
(* types for the two converters, "rw" what a Property was given: "both", a *)
(* getter alone ("read-only") or a setter alone ("write-only").            *)
(***************************************************************************)
Accessor == DOMAIN world.accessors
Of(p) == world.accessors[p]
GValueType(p) == Of(p).g
Setting(way) == way \in {"set_value", "set_property", "set_properties", "props=", "__set__",
                         "__init__"}
Descriptor(way) == way \in {"__set__", "__get__"}

\* Calls name accessors there are, a descriptor has one; only a Property lacks its getter or
\* its setter.
ASSUME WorldsAssumption ==
  \A w \in Worlds :
    /\ \A p \in DOMAIN w.accessors : w.accessors[p].kind = "python" \/ w.accessors[p].rw = "both"
    /\ \A t \in Threads : \A k \in DOMAIN w.plan[t] : \A op \in w.plan[t][k] :
         /\ Len(op.items) > 0 /\ \A i \in 1 .. Len(op.items) : op.items[i].p \in DOMAIN w.accessors
         /\ Descriptor(op.way) => Len(op.items) = 1

\* A thread: where it is, the call of its plan it is at, the way and the rest of the items of
\* the call, the accessor it is on, whether introspection converts, the contents on their way
\* and the Python value they were made from, the exception, and whether another thread used
\* _exc while this one was in a descriptor of the same Property.
Idle(at) == [pc |-> "idle", at |-> at, way |-> "none", todo |-> << >>, on |-> 0, gi |-> FALSE,
             value |-> None, from |-> None, error |-> "none", crossed |-> FALSE]
Item(t) == Head(th[t].todo)
Nothing == [p |-> 0, gi |-> FALSE, ok |-> TRUE, py |-> None, from |-> None]

-----------------------------------------------------------------------------
(***************************************************************************)
(* Fields.  Setting checks the value first.  A structure inside another is *)
(* copied if it owns nothing, pointers to strings and untyped ones are     *)
(* stored, everything else is converted as if it were given away and left  *)
(* to g_field_info_set_field, which knows no other pointers and no         *)
(* containers; what it refuses is released.                                *)
(***************************************************************************)
InPlace(a) == ~a.pointer /\ a.e.tag \in IntTags \cup {"float", "double", "boolean", "gtype",
                                                       "unichar", "enum", "flags"}
Inline(a) == ~a.pointer /\ a.e.tag \in {"struct", "union", "boxed"}
\* pygi_g_struct_info_is_simple: a structure of numbers, and of such structures.
IsSimple(a) == a.simple
Kept(a) == a.pointer /\ a.e.tag \in {"void", "utf8"}

FieldRefuses == [ok |-> FALSE, says |-> None, lost |-> {}]
\* The copy a character is read from is nobody's.
FieldStores(a, r) == [ok |-> r.ok, says |-> r.says,
                      lost |-> r.left \cup IF a.e.tag = "unichar" THEN r.took ELSE {}]
InlineSet(a, v) == IF a.writable /\ a.e.tag # "union" /\ IsSimple(a)
                   THEN FieldStores(a, FromObject(a.e, v)) ELSE FieldRefuses
Owned(e) == [e EXCEPT !.transfer = "everything"]
Stored(a, r) == IF r.ok /\ ~(InPlace(a) /\ a.writable)
                THEN [FieldRefuses EXCEPT !.lost = NotReleased(Owned(a.e), r.took)] ELSE FieldStores(a, r)
StoreSet(a, v) == Stored(a, FromObject(Owned(a.e), v))
\* For a value that was checked.  Mutant: the value is not checked.
SetUnchecked(a, v) == IF Inline(a) THEN InlineSet(a, v)
                      ELSE IF Kept(a) THEN FieldStores(a, FromObject(a.e, v)) ELSE StoreSet(a, v)
FieldSet(a, v) == IF CheckObject(a.e, v) THEN SetUnchecked(a, v) ELSE FieldRefuses
FieldGet(a, c) ==
  IF ~a.readable \/ (Inline(a) /\ a.e.tag = "union") THEN Hides({})
  ELSE ToObject(a.e, IF a.e.tag = "array" THEN KnownPart(a.e, c) ELSE c)
ConstantGet(a, c) == ToObject(a.e, c)

(***************************************************************************)
(* pygi_set_property_value: "set" leaves contents for a GValue, "raise" an *)
(* exception, "other" has the caller try the other converter.  What the    *)
(* conversion took is lost with types nobody stores, and, once the GValue  *)
(* has its own copy, with strings, tables and lists.                       *)
(***************************************************************************)
GiSays(to, says, dropped) == [to |-> to, says |-> says, lost |-> dropped]
Settable(a) == a.e.tag \in IntTags \cup {"float", "double", "boolean", "gtype", "utf8", "filename",
                                          "ghash", "glist", "array", "enum", "object"}
Copied(a) == a.e.tag \in {"utf8", "filename", "ghash"} \/ (a.e.tag = "glist" /\ a.g # "pointer")
ThroughOther(a, v) == a.e.tag \in {"boxed", "variant"} \/ (a.e.tag = "array" /\ v.py = "none")
Introspects(a, v, r) ==
  LET copy == IF a.e.tag = "boxed" THEN {Data} ELSE {}   \* the GValue is not unset
  IN  CASE a.kind # "introspected" \/ ~a.writable -> GiSays("other", None, {})
        [] a.kind = "introspected" /\ a.writable /\ ~r.ok -> GiSays("raise", None, r.left)
        [] a.kind = "introspected" /\ a.writable /\ r.ok /\ ThroughOther(a, v) ->
             GiSays("other", None, copy)
        [] a.kind = "introspected" /\ a.writable /\ r.ok /\ Settable(a) /\ ~ThroughOther(a, v) ->
             GiSays("set", r.says, IF Copied(a) THEN r.took ELSE {})
        [] OTHER -> GiSays("raise", None, r.took)
IntrospectedSet(a, v) == Introspects(a, v, FromObject(a.e, v))

\* pygi_get_property_value: strings and boxed values are duplicated, and so is the vector of
\* the strings of an array; with a transfer of nothing nobody frees them.
Gettable(a) == a.e.tag \in IntTags \cup {"float", "double", "boolean", "gtype", "utf8", "filename",
                                          "enum", "object", "boxed", "variant", "ghash", "glist",
                                          "gslist", "array"}
Introspected(a) == a.kind = "introspected" /\ Gettable(a)
Duplicated(a) == a.e.tag \in {"utf8", "filename", "boxed", "array"}
IntrospectedGet(a, c) == ToObject(a.e, c)
LostByGet(a, c, r) == IF Duplicated(a) /\ c # None THEN {Data} \ r.steals ELSE {}

\* set_property_from_pspec.
PlainSet(a, v) == IF a.constructOnly \/ ~a.writable THEN Refuses({}) ELSE FromPyObject(a.g, v)

-----------------------------------------------------------------------------
TakesGil(t) == gil \in {Nobody, t} /\ gil' = t
Lose(p, failed, parts) == lost' = lost \cup {[p |-> p, failed |-> failed, part |-> k] : k \in parts}
Then(t) == IF Len(th[t].todo) > 1 THEN "item" ELSE "return"
Raises(t) == th' = [th EXCEPT ![t].pc = "return", ![t].error = "raised"]
Passes(t) == th' = [th EXCEPT ![t].pc = Then(t), ![t].todo = Tail(@)]
Store(p, c, v) == /\ stored' = [stored EXCEPT ![p] = c]
                  /\ given' = [given EXCEPT ![p] = v]
See(t, p, gi, r, from) ==
  saw' = [saw EXCEPT ![t] = [p |-> p, gi |-> gi, ok |-> r.ok, py |-> r.py, from |-> from]]
Touch(t, p, self) ==
  th' = [u \in Threads |->
           IF u = t THEN self
           ELSE IF th[u].pc # "idle" /\ th[u].on = p THEN [th[u] EXCEPT !.crossed = TRUE] ELSE th[u]]

\* Mutant: an exception left by a call that is not a descriptor's stays.
ClearsNot(p) == exc[p]
Clears(p) == "none"

(***************************************************************************)
(* A call begins: Property.__get__ and __set__ clear the exception and go  *)
(* on in Python, where another thread may run; set_properties freezes the  *)
(* notifications, once for all.                                            *)
(***************************************************************************)
Begin(t, op) ==
  LET p == op.items[1].p IN
  /\ th[t].pc = "idle" /\ th[t].at \in DOMAIN world.plan[t] /\ op \in world.plan[t][th[t].at]
  /\ gil = Nobody
  /\ LET self == [Idle(th[t].at) EXCEPT !.way = op.way, !.todo = op.items, !.on = p]
     IN  IF Descriptor(op.way)
         THEN /\ Touch(t, p, [self EXCEPT !.pc = "call"])
              /\ exc' = [exc EXCEPT ![p] = Clears(p)]
              /\ gil' = Nobody
         ELSE /\ th' = [th EXCEPT ![t] = [self EXCEPT !.pc = "item"]]
              /\ gil' = t
              /\ UNCHANGED exc
  /\ frozen' = IF op.way = "set_properties" THEN frozen + 1 ELSE frozen
  /\ UNCHANGED <<world, stored, given, lock, saw, lost>>
Call(t) ==
  /\ th[t].pc = "call" /\ gil = Nobody
  /\ gil' = t /\ th' = [th EXCEPT ![t].pc = "item"]
  /\ UNCHANGED <<world, stored, given, lock, frozen, exc, saw, lost>>

\* Fields and constants: no other thread runs.
ReadsC(a, c) == IF a.kind = "constant" THEN ConstantGet(a, c) ELSE FieldGet(a, c)
FieldItem(t) ==
  LET p == Item(t).p IN
  /\ th[t].pc = "item" /\ Of(p).kind \in {"field", "constant"}
  /\ \/ /\ th[t].way = "set_value"
        /\ \E r \in {FieldSet(Of(p), Item(t).v)} :
             /\ IF r.ok THEN Store(p, r.says, Item(t).v) /\ Passes(t)
                ELSE Raises(t) /\ UNCHANGED <<stored, given>>
             /\ Lose(p, ~r.ok, r.lost)
        /\ UNCHANGED saw
     \/ /\ th[t].way = "get_value"
        /\ \E r \in {ReadsC(Of(p), stored[p])} :
             /\ See(t, p, TRUE, r, given[p])
             /\ IF r.ok THEN Passes(t) ELSE Raises(t)
        /\ UNCHANGED <<stored, given, lost>>
  /\ UNCHANGED <<world, gil, lock, frozen, exc>>

\* Mutant: a property that introspection does not know is set with the GIL held.
KeepsGil(t) == t
ReleasesGil(t) == Nobody
SetItem(t) ==
  LET p == Item(t).p
      a == Of(p)
  IN  /\ th[t].pc = "item" /\ Setting(th[t].way) /\ a.kind \notin {"field", "constant"}
      /\ th[t].way # "__init__"
      /\ \E i \in {IntrospectedSet(a, Item(t).v)}, r \in {PlainSet(a, Item(t).v)} :
           \/ /\ i.to = "set"
              /\ th' = [th EXCEPT ![t].pc = "native", ![t].gi = TRUE, ![t].value = i.says]
              /\ Lose(p, FALSE, i.lost)
              /\ UNCHANGED gil
           \/ /\ i.to = "other" /\ r.ok
              /\ th' = [th EXCEPT ![t].pc = "native", ![t].gi = FALSE, ![t].value = r.says]
              /\ gil' = ReleasesGil(t) /\ Lose(p, FALSE, i.lost)
           \/ /\ i.to = "raise" \/ (i.to = "other" /\ ~r.ok)
              /\ Raises(t)
              /\ Lose(p, TRUE, i.lost \cup (IF i.to = "other" THEN r.left ELSE {}))
              /\ UNCHANGED gil
      /\ UNCHANGED <<world, stored, given, lock, frozen, exc, saw>>

(***************************************************************************)
(* GObject.__init__ converts all its properties before it makes the object *)
(* of any, with the GIL, and asks nothing of their flags.                  *)
(***************************************************************************)
InitItems(t) ==
  \E r \in {[k \in DOMAIN th[t].todo |-> FromPyObject(Of(th[t].todo[k].p).g, th[t].todo[k].v)]} :
  LET todo == th[t].todo
      At(p) == CHOOSE k \in DOMAIN todo : todo[k].p = p
      set == {todo[k].p : k \in DOMAIN todo}
  IN  /\ th[t].pc = "item" /\ th[t].way = "__init__"
      /\ \/ /\ FirstBad(r) = 0
            /\ stored' = [p \in Accessor |-> IF p \in set THEN r[At(p)].says ELSE stored[p]]
            /\ given' = [p \in Accessor |-> IF p \in set THEN todo[At(p)].v ELSE given[p]]
            /\ th' = [th EXCEPT ![t].pc = "return", ![t].todo = << >>]
            /\ UNCHANGED lost
         \/ /\ FirstBad(r) # 0
            /\ Lose(todo[FirstBad(r)].p, TRUE, r[FirstBad(r)].left)
            /\ Raises(t) /\ UNCHANGED <<stored, given>>
      /\ UNCHANGED <<world, gil, lock, frozen, exc, saw>>

\* A type that introspection cannot get is read the other way, with its exception pending.
Pending(t) == th[t].way = "props" /\ Of(Item(t).p).kind = "introspected" /\ ~Gettable(Of(Item(t).p))
GetItem(t) ==
  LET a == Of(Item(t).p)
      gi == th[t].way = "props" /\ Introspected(a)
  IN  /\ th[t].pc = "item" /\ ~Setting(th[t].way) /\ a.kind \notin {"field", "constant"}
      /\ IF a.readable
         THEN /\ th' = [th EXCEPT ![t].pc = "native", ![t].gi = gi, ![t].error = IF Pending(t) THEN "pending" ELSE @]
              /\ gil' = IF gi THEN t ELSE ReleasesGil(t)
         ELSE Raises(t) /\ UNCHANGED gil
      /\ UNCHANGED <<world, stored, given, lock, frozen, exc, saw, lost>>

(***************************************************************************)
(* g_object_set_property and g_object_get_property.  The class may need a  *)
(* lock; a Python-implemented class calls Python, and notifications are    *)
(* frozen until it is back.                                                *)
(***************************************************************************)
Native(t) ==
  LET p == Item(t).p IN
  /\ th[t].pc = "native" /\ lock # "held"
  /\ \/ /\ Of(p).kind = "python"
        /\ th' = [th EXCEPT ![t].pc = "vfunc"]
        /\ frozen' = IF Setting(th[t].way) THEN frozen + 1 ELSE frozen
        /\ UNCHANGED <<stored, given>>
     \/ /\ Of(p).kind # "python" /\ Setting(th[t].way)
        \* GObject itself ignores the setting of a construct-only property
        /\ IF Of(p).constructOnly THEN UNCHANGED <<stored, given>> ELSE Store(p, th[t].value, Item(t).v)
        /\ th' = [th EXCEPT ![t].pc = "back"]
        /\ UNCHANGED frozen
     \/ /\ Of(p).kind # "python" /\ ~Setting(th[t].way)
        /\ th' = [th EXCEPT ![t].pc = "back", ![t].value = stored[p], ![t].from = given[p]]
        /\ UNCHANGED <<stored, given, frozen>>
  /\ UNCHANGED <<world, gil, lock, exc, saw, lost>>

(***************************************************************************)
(* pyg_object_set_property and pyg_object_get_property, with the methods   *)
(* propertyhelper.py installs.  An exception is printed and forgotten; the *)
(* setter of a read-only Property and the getter of a write-only one leave *)
(* theirs in _exc instead, and the getter returns None.                    *)
(***************************************************************************)
Zero(g) == CASE g \in {"int", "uint", "boolean", "double"} -> Number(Rank("0")) [] OTHER -> None
SaysOrZero(g, r) == IF r.ok THEN r.says ELSE Zero(g)
Refusal(way) == IF Setting(way) THEN "read-only" ELSE "write-only"
Vfunc(t) ==
  LET p == Item(t).p
      way == th[t].way
      refuses == Of(p).rw = Refusal(way)
      py == AsPyObject(GValueType(p), th[t].value).py
      value == SaysOrZero(GValueType(p), FromPyObject(GValueType(p), IF refuses THEN None ELSE stored[p]))
  IN  /\ th[t].pc = "vfunc" /\ gil \in {Nobody, t}
      /\ LET self == IF Setting(way) THEN [th[t] EXCEPT !.pc = "back"]
                     ELSE [th[t] EXCEPT !.pc = "back", !.value = value, !.from = given[p]]
         IN  IF refuses THEN Touch(t, p, self) /\ exc' = [exc EXCEPT ![p] = Refusal(way)]
             ELSE th' = [th EXCEPT ![t] = self] /\ UNCHANGED exc
      /\ IF Setting(way) /\ ~refuses THEN Store(p, py, Item(t).v) ELSE UNCHANGED <<stored, given>>
      /\ frozen' = IF Setting(way) THEN frozen - 1 ELSE frozen
      /\ UNCHANGED <<world, gil, lock, saw, lost>>

Reads(a, gi, c) == IF gi THEN IntrospectedGet(a, c) ELSE AsPyObject(a.g, c)
Back(t) ==
  LET p == Item(t).p
      a == Of(p)
  IN  /\ th[t].pc = "back" /\ TakesGil(t)
      /\ \/ Setting(th[t].way) /\ Passes(t) /\ UNCHANGED <<saw, lost>>
         \/ /\ ~Setting(th[t].way)
            /\ \E r \in {Reads(a, th[t].gi, th[t].value)} :
                 /\ See(t, p, th[t].gi, r, th[t].from)
                 /\ Lose(p, FALSE, IF th[t].gi THEN LostByGet(a, th[t].value, r) ELSE {})
                 /\ IF r.ok THEN Passes(t) ELSE Raises(t)
      /\ UNCHANGED <<world, stored, given, lock, frozen, exc>>

\* Mutant: set_properties returns at the first property that fails.
ThawsUnlessRaised(t) == IF th[t].way = "set_properties" /\ th[t].error = "none" THEN frozen - 1 ELSE frozen
\* Mutant: whatever the call, it thaws.
ThawsAlways(t) == frozen - 1
Thaws(t) == IF th[t].way = "set_properties" THEN frozen - 1 ELSE frozen

(***************************************************************************)
(* The C function returns.  A descriptor looks at _exc, in Python again,   *)
(* unless an exception is on its way already.                              *)
(***************************************************************************)
Return(t) ==
  /\ th[t].pc = "return" /\ gil = t /\ gil' = Nobody
  /\ frozen' = Thaws(t)
  /\ th' = IF Descriptor(th[t].way) /\ th[t].error = "none"
           THEN [th EXCEPT ![t].pc = "check"]
           ELSE [th EXCEPT ![t].pc = "idle", ![t].at = IF th[t].way = "__init__" /\ th[t].error # "none"
                                                      THEN 1 + Len(world.plan[t]) ELSE @ + 1]
  /\ UNCHANGED <<world, stored, given, lock, exc, saw, lost>>
Check(t) ==
  LET p == th[t].on
      self == [th[t] EXCEPT !.pc = "idle", !.at = @ + 1, !.error = exc[p]]
  IN  /\ th[t].pc = "check" /\ gil = Nobody
      /\ IF exc[p] = "none" THEN th' = [th EXCEPT ![t] = self] ELSE Touch(t, p, self)
      /\ exc' = [exc EXCEPT ![p] = "none"]
      /\ UNCHANGED <<world, stored, given, gil, lock, frozen, saw, lost>>

\* A native thread that takes the lock of the class and calls Python with it.
NativeLocks ==
  /\ lock = "free" /\ world.lock /\ lock' = "held"
  /\ UNCHANGED <<world, stored, given, gil, frozen, exc, th, saw, lost>>
NativeCalls ==
  /\ lock = "held" /\ gil = Nobody /\ lock' = "done"
  /\ UNCHANGED <<world, stored, given, gil, frozen, exc, th, saw, lost>>

Init ==
  /\ world \in Worlds
  /\ stored = [p \in Accessor |-> world.initial[p].c]
  /\ given = [p \in Accessor |-> world.initial[p].v]
  /\ gil = Nobody /\ lock = "free" /\ frozen = 0
  /\ exc = [p \in Accessor |-> "none"]
  /\ th = [t \in Threads |-> Idle(1)]
  /\ saw = [t \in Threads |-> Nothing]
  /\ lost = {}
Step(t) ==
  \/ \E k \in DOMAIN world.plan[t] : \E op \in world.plan[t][k] : Begin(t, op)
  \/ Call(t) \/ FieldItem(t) \/ SetItem(t) \/ InitItems(t) \/ GetItem(t)
  \/ Native(t) \/ Vfunc(t) \/ Back(t) \/ Return(t) \/ Check(t)
Next == (\E t \in Threads : Step(t)) \/ NativeLocks \/ NativeCalls
Spec == Init /\ [][Next]_vars /\ (\A t \in Threads : WF_vars(Step(t))) /\ WF_vars(NativeCalls)

-----------------------------------------------------------------------------
(***************************************************************************)
(* Every number in C has a value of its type, and the notifications are    *)
(* never thawed more often than frozen.                                    *)
(***************************************************************************)
InC(p) == Of(p).kind # "python" /\ stored[p].py = "int"
NumberType(p) == IF Of(p).kind \in {"field", "constant"} THEN Of(p).e.tag ELSE Bits(Of(p).g)
TypeOK ==
  /\ gil \in Threads \cup {Nobody} /\ lock \in {"free", "held", "done"}
  /\ frozen \in 0 .. 2 * Cardinality(Threads)
  /\ \A p \in Accessor : /\ exc[p] \in {"none", "read-only", "write-only"}
                         /\ InC(p) /\ NumberType(p) \in IntTags => InRange(stored[p].n, NumberType(p))
  /\ \A t \in Threads :
       /\ th[t].pc \in {"idle", "call", "item", "native", "vfunc", "back", "return", "check"}
       /\ th[t].error \in {"none", "raised", "pending", "read-only", "write-only"}
       /\ saw[t].p \in Accessor \cup {0}

(***************************************************************************)
(* What is read, in whatever way, means what was given, in whatever way.   *)
(* The converters differ in what they make of it: a truth value for any    *)
(* object, None and an empty list for each other, a character for a number, str() of what *)
(* is no string, an opaque pointer for a container that only introspection *)
(* knows; and numbers out of range lose their upper bits, except in        *)
(* fields.  Characters beyond ASCII cannot be read, and a write-only        *)
(* Property shows nothing.                                                 *)
(***************************************************************************)
Narrows(a, v) ==
  /\ a.kind \notin {"field", "constant"} /\ v.py = "int"
  /\ \/ Bits(a.g) \in IntTags /\ ~InRange(v.n, Bits(a.g))
     \/ a.g = "float" /\ v.n >= Rank("huge")
Empty(v) == v \in {None, List(<< >>)}
IsChar(a) == a.kind \notin {"field", "constant"} /\ a.g \in {"char", "uchar"}
Means(a, v, py) ==
  \/ py = v \/ Narrows(a, v)
  \/ a.e.tag = "boolean" /\ py = Truth(v)
  \/ a.e.tag \in Lists \cup {"array"} /\ Empty(v) /\ Empty(py)
  \/ a.e.tag = "unichar" /\ v = None /\ py = Text(0)
  \/ IsChar(a) /\ (py.items = <<v.n>> \/ (v.py = "str" /\ py = Text(1)))
  \/ a.e.tag = "utf8" /\ v.py \notin {"none", "str"} /\ py = Text(1)
  \/ py.py = "pointer" /\ a.e.tag \in Lists \cup {"ghash"}
ReadsBack ==
  \A t \in Threads : saw[t].p # 0 /\ Of(saw[t].p).rw # "write-only" =>
    LET a == Of(saw[t].p)
        v == saw[t].from
    IN  IF saw[t].ok THEN Means(a, v, saw[t].py)
        ELSE (a.g = "char" /\ v.py = "int") \/ ~a.readable \/ a.e.tag = "union"

(***************************************************************************)
(* What is made for an access is given back, whether it succeeds or fails. *)
(* The exceptions: references and copies made for fields that are not      *)
(* supported, values in values, and what pygi-property.c duplicates.       *)
(***************************************************************************)
LeftByFailure(a) ==
  \/ a.e.tag \in {"object", "boxed", "unichar"} \/ a.e.item = "object"
  \/ a.g \in {"gvalue", "garray"} \/ (a.kind = "introspected" /\ ~Settable(a))
LeftBySuccess(a) == a.e.tag = "unichar" \/ (a.kind = "introspected" /\ (Copied(a) \/ Duplicated(a)))
GivesBack == \A l \in lost : IF l.failed THEN LeftByFailure(Of(l.p)) ELSE LeftBySuccess(Of(l.p))

(***************************************************************************)
(* The setter of a read-only Property and the getter of a write-only one   *)
(* raise, and no other access raises their exception, unless another       *)
(* thread was in a descriptor of the same Property: they share _exc.       *)
(***************************************************************************)
OwnErrors ==
  \A t \in Threads :
    th[t].pc = "idle" /\ Descriptor(th[t].way) /\ ~th[t].crossed /\ th[t].error # "raised" =>
      th[t].error = IF Of(th[t].on).rw = Refusal(th[t].way) THEN Refusal(th[t].way) ELSE "none"

(***************************************************************************)
(* Notifications are frozen while somebody is in set_properties or in a    *)
(* Python setter, once for each, and not after.                            *)
(***************************************************************************)
FreezeBalanced ==
  frozen = Cardinality({t \in Threads : th[t].way = "set_properties" /\ th[t].pc # "idle"})
           + Cardinality({t \in Threads : Setting(th[t].way) /\ th[t].pc = "vfunc"})

\* A call returns, even if native code takes a lock of the class to Python and back.
CallsReturn == \A t \in Threads : (th[t].pc # "idle") ~> (th[t].pc = "idle")
=============================================================================
