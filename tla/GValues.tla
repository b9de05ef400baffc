------------------------------ MODULE GValues ------------------------------
(***************************************************************************)
(* Python values and GValues (pygtype.c): the converter of properties and  *)
(* signals that introspection knows nothing about.  A GValue has a type    *)
(* from the start and is converted by that type's fundamental; it copies   *)
(* the string, boxed value or reference it holds, and g_value_unset gives  *)
(* them back.  Contents are written as in module Argument.                 *)
(***************************************************************************)
EXTENDS Argument

Bits(g) == CASE g = "int" -> "int32" [] g = "uint" -> "uint32" [] g = "char" -> "int8"
             [] g = "uchar" -> "uint8" [] g = "ulong" -> "uint64" [] g = "long" -> "int64"
             [] OTHER -> g

Truncates(g, v) == Says(Number(Wrapped(v.n, Bits(g))), {})

(***************************************************************************)
(* Numbers.  A char takes its range or the first byte of a string; an int  *)
(* goes through a C long and loses its upper half; an unsigned int must    *)
(* not be negative and loses it too, since the test against the largest    *)
(* unsigned int is made after the assignment; the 64-bit types have the    *)
(* range check of the Python API.                                          *)
(***************************************************************************)
\* Mutant: the bounds of a char are not checked.
CharUnchecked(g, v) == SaysIf(v.py = "str" \/ v.py = "int", IF v.py = "str" THEN Says(Text(1), {}) ELSE Truncates(g, v))
CharFrom(g, v) ==
  CASE v.py = "int" -> SaysIf(InRange(v.n, Bits(g)), Says(v, {}))
    [] v.py = "str" -> Says(Text(1), {})
    [] OTHER -> Refuses({})
IntFrom(v) == SaysIf(v.py = "int" /\ InRange(v.n, "int64"), Truncates("int", v))
UIntFrom(v) == SaysIf(/\ v.py = "int" /\ InRange(v.n, "int64") /\ v.n >= Rank("0"),
                      Truncates("uint", v))
Int64From(g, v) == SaysIf(v.py = "int" /\ InRange(v.n, Bits(g)), Says(v, {}))
FloatFrom(g, v) == FloatFromObject(g, v)
BooleanFrom(v) == Says(Truth(v), {})
EnumFrom(v) == SaysIf(v.py = "enum" \/ (v.py = "int" /\ InRange(v.n, "int64")), Says(v, {}))
FlagsFrom(v) == SaysIf(v.py = "flags" \/ (v.py = "int" /\ InRange(v.n, "int64")), Says(v, {}))

\* Whatever it is, a string property takes its str().
StringFrom(v) == CASE v.py = "none" -> Says(None, {})
                   [] v.py = "str" -> Says(v, {Data})
                   [] OTHER -> Says(Text(1), {Data})
PointerFrom(g, v) == SaysIf(v.py = "none" \/ v.py = g, Says(v, {}))
InstanceFrom(g, v) == IF v.py = "none" THEN Says(None, {}) ELSE SaysIf(v.py = g, Says(v, {Data}))
ParamFrom(v) == SaysIf(v.py = "param", Says(v, {Data}))
UnicharFrom(v) == SaysIf(v = Text(1), Says(v, {}))
StrvFrom(v) == IF v.py = "none" THEN Says(None, {})
               ELSE SaysIf(v.py = "seq" /\ \A k \in DOMAIN v.items : v.items[k].py = "str",
                           Says(v, {Data}))

ScalarFrom(g, v) ==
  CASE g \in {"char", "uchar"} -> CharFrom(g, v)
    [] g = "int" -> IntFrom(v)
    [] g = "uint" -> UIntFrom(v)
    [] g \in {"long", "ulong", "int64", "uint64"} -> Int64From(g, v)
    [] g \in {"float", "double"} -> FloatFrom(g, v)
    [] g = "boolean" -> BooleanFrom(v)
    [] g = "enum" -> EnumFrom(v)
    [] g = "flags" -> FlagsFrom(v)
    [] g = "string" -> StringFrom(v)
    [] g \in {"pointer", "gtype"} -> PointerFrom(g, v)
    [] g = "pyobject" -> Says(v, {Data})
    [] g = "param" -> ParamFrom(v)
    [] g = "unichar" -> UnicharFrom(v)
    [] g = "strv" -> StrvFrom(v)
    [] g = "gstring" -> InstanceFrom("str", v)
    [] OTHER -> InstanceFrom(g, v)  \* objects, interfaces, boxed values, variants

(***************************************************************************)
(* A GValue in a GValue, and arrays of them, give every value the type its *)
(* class has ("novalue" has none).  An array of GValues frees those it has *)
(* made when one fails; a GArray of them frees itself and forgets them,    *)
(* and the value made for a value that fails is forgotten too.             *)
(***************************************************************************)
TypeOf(v) == CASE v.py = "none" -> "pointer" [] v.py = "str" -> "string" [] OTHER -> v.py
ValueFrom(v) == IF v.py = "novalue" THEN Refuses({})
                ELSE LET r == ScalarFrom(TypeOf(v), v)
                     IN  IF r.ok THEN Says(r.says, {Data}) ELSE Refuses({Data})
ElementsFrom(v) ==
  [k \in DOMAIN v.items |-> IF v.items[k].py = "novalue" THEN Refuses({})
                            ELSE ScalarFrom(TypeOf(v.items[k]), v.items[k])]
ElementsLeft(r) == TakenBefore(r, FirstBad(r))
ValueArrayFrom(v) ==
  LET r == ElementsFrom(v)
  IN  IF v.py # "seq" THEN Refuses({}) ELSE SaysIf(FirstBad(r) = 0, Says(v, {Data}))
ArrayOfValuesFrom(v) ==
  LET r == ElementsFrom(v)
  IN  CASE v.py # "seq" -> Refuses({})
        [] v.py = "seq" /\ FirstBad(r) = 0 -> Says(v, {Data})
        [] OTHER -> Refuses({Data} \cup ElementsLeft(r))

FromPyObject(g, v) ==
  CASE g = "gvalue" -> ValueFrom(v)
    [] g = "valuearray" -> ValueArrayFrom(v)
    [] g = "garray" -> ArrayOfValuesFrom(v)
    [] OTHER -> ScalarFrom(g, v)

-----------------------------------------------------------------------------
(***************************************************************************)
(* pyg_value_as_pyobject.  A char becomes a string of one character, which *)
(* only ASCII characters are, an unsigned one a byte.                      *)
(***************************************************************************)
Byte(n) == [py |-> "bytes", n |-> RankOf(1), items |-> <<n>>]
CharTo(g, c) ==
  CASE c.py = "str" -> Shows(c, {})
    [] c.py # "str" /\ g = "uchar" -> Shows(Byte(c.n), {})
    [] OTHER -> ShowsIf(c.n >= Rank("0"), Shows([Text(1) EXCEPT !.items = <<c.n>>], {}))
\* Enumerations, flags, strings, boxed copies and references: the wrapper has its own.
AsPyObject(g, c) ==
  CASE g \in {"char", "uchar"} -> CharTo(g, c)
    [] g = "string" -> StringToObject(c)
    [] g \in {"pointer", "boxed"} /\ c.py \in {"seq", "map"} -> Shows(Val("pointer"), {})
    [] OTHER -> Shows(c, {})
=============================================================================
