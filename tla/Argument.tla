------------------------------ MODULE Argument ------------------------------
(***************************************************************************)
(* The converter that serves everything but calls (pygi-argument.c):       *)
(* fields, properties, constants, and the arguments and results of         *)
(* callbacks.  It does not know about the argument list a value belongs    *)
(* to, it reports failure by a pending exception alone, and it checks the  *)
(* range of numbers only where its caller asks _pygi_g_type_info_check_    *)
(* object first.                                                           *)
(*                                                                         *)
(* What a C value says is written as the Python value that has the same    *)
(* contents: None is NULL, a list the items of a container.                *)
(***************************************************************************)
EXTENDS FromPy

Val(py) == [py |-> py, n |-> 0, items |-> << >>]
None == Val("none")
Text(length) == [py |-> "str", n |-> RankOf(length), items |-> << >>]
List(items) == [py |-> "seq", n |-> 0, items |-> items]
Number(n) == [py |-> "int", n |-> n, items |-> << >>]
Truth(v) == Number(TruthFromPy(v).c.n)

Lists == {"glist", "gslist"}
Structs == {"gvalue", "foreign", "boxed", "variant", "struct"}

-----------------------------------------------------------------------------
(***************************************************************************)
(* _pygi_g_type_info_check_object: is the Python value of the type?  None  *)
(* is, wherever this is asked.                                             *)
(***************************************************************************)
BoundsHold(tag, n) ==
  IF tag \in IntTags THEN InRange(n, tag)
  ELSE n < Rank(IF tag = "float" THEN "huge" ELSE "endless")
NumberChecks(tag, v) ==
  \/ tag \in {"int8", "uint8"} /\ v.py = "bytes" /\ v.n = RankOf(1)
  \/ v.py = "nan" /\ tag \in {"float", "double"}  \* no comparison with it holds
  \/ v.py = "int" /\ BoundsHold(tag, v.n)
InstanceChecks(e, v) == e.tag = "foreign" \/ v.py = e.tag
EnumChecks(v) == (v.py = "int" /\ v.n \in EnumValues) \/ v.py = "enum"
FlagsCheck(v) == (v.py = "int" /\ v.n = Rank("0")) \/ v.py = "flags"
InterfaceChecks(e, v) ==
  CASE e.tag = "enum" -> EnumChecks(v)
    [] e.tag = "flags" -> FlagsCheck(v)
    [] e.tag = "gvalue" -> TRUE
    [] e.tag = "union" -> v.py \in {"union", "member"}
    [] OTHER -> InstanceChecks(e, v)
ScalarChecks(e, v) ==
  CASE v.py = "none" \/ e.tag \in {"void", "boolean", "error"} -> TRUE
    [] v.py # "none" /\ e.tag \in IntTags \cup {"float", "double"} -> NumberChecks(e.tag, v)
    [] v.py # "none" /\ e.tag = "gtype" -> v.py = "gtype"
    [] v.py # "none" /\ e.tag = "unichar" -> v = Text(1)
    [] v.py # "none" /\ e.tag \in {"utf8", "filename"} -> v.py \in {"str", "badstr"}
    [] OTHER -> InterfaceChecks(e, v)
ItemsCheck(e, v) == \A k \in DOMAIN v.items : ScalarChecks(ItemCache(e), v.items[k])
ArrayChecks(e, v) == v.py = "seq" /\ FixedSizeOk(e, v) /\ ItemsCheck(e, v)
ListChecks(e, v) == v.py = "seq" /\ ItemsCheck(e, v)
HashChecks(e, v) == v.py = "map" /\ ItemsCheck(e, v)
CheckObject(e, v) ==
  CASE v.py = "none" -> TRUE
    [] v.py # "none" /\ e.tag = "array" -> ArrayChecks(e, v)
    [] v.py # "none" /\ e.tag \in Lists -> ListChecks(e, v)
    [] v.py # "none" /\ e.tag = "ghash" -> HashChecks(e, v)
    [] OTHER -> ScalarChecks(e, v)

-----------------------------------------------------------------------------
(***************************************************************************)
(* _pygi_argument_from_object: what the C value says, the parts taken for  *)
(* it, and those left behind by a failure.                                 *)
(***************************************************************************)
Says(says, took) == [ok |-> TRUE, says |-> says, took |-> took, left |-> {}]
Refuses(left) == [ok |-> FALSE, says |-> None, took |-> {}, left |-> left]
SaysIf(ok, r) == IF ok THEN r ELSE Refuses({})

(***************************************************************************)
(* A C assignment keeps the low bits of a number that does not fit.  Of    *)
(* the numbers out of range here, those next to a bound wrap around to the *)
(* other; the others have their low bits all set, or none.                 *)
(***************************************************************************)
LowBitsSet ==
  {Rank(name) : name \in {"-2^31-1", "-2^15-1", "255", "2^15-1", "2^16-1", "2^31-1", "2^32-1",
                          "2^63-1", "2^64-1"}}
Wrapped(n, tag) ==
  CASE InRange(n, tag) -> n
    [] n = Lowest[tag] - 1 -> Highest[tag]
    [] n = Highest[tag] + 1 -> Lowest[tag]
    [] OTHER -> IF n \notin LowBitsSet THEN Rank("0")
                ELSE IF Lowest[tag] < Rank("0") THEN Rank("-1") ELSE Highest[tag]

\* The only test is that of the C API: a long, or an unsigned long long for the others.
Carrier(tag) == IF Lowest[tag] < Rank("0") THEN "int64" ELSE "uint64"
IntFromObject(tag, v) ==
  SaysIf(v.py = "int" /\ InRange(v.n, Carrier(tag)), Says(Number(Wrapped(v.n, tag)), {}))
FloatFromObject(tag, v) ==
  SaysIf(v.py \in {"inf", "nan"} \/ (v.py = "int" /\ v.n < Rank("endless")),
         Says(IF tag = "float" /\ v.py = "int" /\ v.n >= Rank("huge") THEN Val("inf") ELSE v, {}))
VoidFromObject(v) == SaysIf(v.py = "none" \/ (v.py = "int" /\ InRange(v.n, "uint64")), Says(v, {}))
GTypeFromObject(v) == SaysIf(v.py = "gtype", Says(v, {}))
\* The copy the first character is read from is never freed.
UnicharFromObject(v) ==
  IF v.py = "none" THEN Says(Text(0), {}) ELSE SaysIf(v.py = "str", Says(IF v.n = RankOf(0) THEN v ELSE Text(1), {Data}))
StringFromObject(tag, v) ==
  IF v.py = "none" /\ tag = "utf8" THEN Says(None, {}) ELSE SaysIf(v.py = "str", Says(v, {Data}))
EnumFromObject(v) == SaysIf(v.py \in {"enum", "flags"} \/ (v.py = "int" /\ InRange(v.n, "int64")),
                            Says(v, {}))
StructFromObject(e, v) ==
  CASE v.py = "none" -> Says(None, {})
    [] v.py # "none" /\ e.tag = "gvalue" -> SaysIf(v.py # "novalue", Says(v, {Data}))
    [] v.py # "none" /\ e.tag = "boxed" ->
         SaysIf(v.py = "boxed", Says(v, IF e.transfer = "everything" THEN {Data} ELSE {}))
    [] OTHER -> SaysIf(v.py = e.tag, Says(v, {}))
ObjectFromObject(e, v) ==
  LET r == ObjectFromPy(e, v) IN IF r.ok THEN Says(v, r.took) ELSE Refuses(r.left)

ScalarFromObject(e, v) ==
  CASE e.tag \in IntTags -> IntFromObject(e.tag, v)
    [] e.tag \in {"float", "double"} -> FloatFromObject(e.tag, v)
    [] e.tag = "void" -> VoidFromObject(v)
    [] e.tag = "boolean" -> Says(Truth(v), {})
    [] e.tag = "gtype" -> GTypeFromObject(v)
    [] e.tag = "unichar" -> UnicharFromObject(v)
    [] e.tag \in {"utf8", "filename"} -> StringFromObject(e.tag, v)
    [] e.tag \in {"enum", "flags"} -> EnumFromObject(v)
    [] e.tag \in Structs -> StructFromObject(e, v)
    [] e.tag = "object" -> ObjectFromObject(e, v)
    [] OTHER -> Refuses({})  \* errors and unions are not supported

-----------------------------------------------------------------------------
(***************************************************************************)
(* _pygi_argument_release with transfer nothing, for a value that came     *)
(* from Python, as its callers here use it: which parts it gives back.     *)
(***************************************************************************)
ScalarReleased(e) == e.tag \in {"utf8", "filename", "gvalue"}
Released(e, part) ==
  IF e.tag \in Lists \cup {"array", "ghash"} THEN part = Data \/ ScalarReleased(ItemCache(e))
  ELSE ScalarReleased(e)
\* Mutant: the items stay when one of them fails.
NoneReleased(e, parts) == parts
NotReleased(e, parts) == {part \in parts : ~Released(e, part)}

(***************************************************************************)
(* Containers convert item after item, a list from its end, and release    *)
(* those converted before the item that fails.                             *)
(***************************************************************************)
ItemsFromObject(e, v) == [k \in DOMAIN v.items |-> ScalarFromObject(ItemCache(e), v.items[k])]
ContainerFrom(e, v, r, reached) ==
  LET taken == {k \in DOMAIN r : r[k].took # {}}
      fine == \A k \in DOMAIN r : r[k].ok
  IN  IF fine THEN Says([v EXCEPT !.items = [k \in DOMAIN r |-> r[k].says]], {Data} \cup taken)
      ELSE Refuses(NotReleased(e, taken \cap reached))

ForwardsFrom(e, v, r) == ContainerFrom(e, v, r, 1 .. FirstBad(r) - 1)
BackwardsFrom(e, v, r) ==
  ContainerFrom(e, v, r, {k \in DOMAIN r : \A j \in DOMAIN r : r[j].ok \/ k > j})
ArrayFromObject(e, v) ==
  CASE v.py = "none" -> Says(None, {})
    [] v.py = "bytes" /\ e.item = "uint8" -> Says(v, {Data})
    [] v.py = "seq" -> ForwardsFrom(e, v, ItemsFromObject(e, v))
    [] OTHER -> Refuses({})
\* An empty list is NULL.
ListFromObject(e, v) ==
  CASE v.py = "none" \/ (v.py = "seq" /\ v.items = << >>) -> Says(None, {})
    [] v.py = "seq" /\ v.items # << >> -> BackwardsFrom(e, v, ItemsFromObject(e, v))
    [] OTHER -> Refuses({})
HashFromObject(e, v) ==
  CASE v.py = "none" -> Says(None, {})
    [] v.py = "map" -> ForwardsFrom(e, v, ItemsFromObject(e, v))
    [] OTHER -> Refuses({})

FromObject(e, v) ==
  CASE e.tag = "array" -> ArrayFromObject(e, v)
    [] e.tag \in Lists -> ListFromObject(e, v)
    [] e.tag = "ghash" -> HashFromObject(e, v)
    [] OTHER -> ScalarFromObject(e, v)

-----------------------------------------------------------------------------
(***************************************************************************)
(* _pygi_argument_to_object: the Python value, and the parts it takes over *)
(* from whoever owned them.  NULL is an empty array and an empty list, but *)
(* None for everything else; a value without a Python form fails.          *)
(***************************************************************************)
Shows(py, steals) == [ok |-> TRUE, py |-> py, steals |-> steals]
Hides(steals) == [ok |-> FALSE, py |-> None, steals |-> steals]
ShowsIf(ok, r) == IF ok THEN r ELSE Hides({})

Given(e) == IF e.transfer = "everything" THEN {Data} ELSE {}
NumberToObject(c) == Shows(c, {})
UnicharToObject(c) == Shows(c, {})
StringToObject(c) == ShowsIf(c.py # "badstr", Shows(c, {}))
StructToObject(e, c) ==
  CASE c.py = "none" -> Shows(None, {})
    [] c.py # "none" /\ e.tag \in {"gvalue", "foreign"} -> Shows(c, {})
    [] OTHER -> Shows(c, Given(e))
\* An enumeration makes a value of its class, even of a number outside it.
EnumToObject(c) == Shows(c, {})
ObjectRefToObject(e, c) == Shows(c, IF c.py = "none" THEN {} ELSE Given(e))
ScalarToObject(e, c) ==
  CASE e.tag \in {"utf8", "filename"} -> StringToObject(c)
    [] e.tag = "unichar" -> UnicharToObject(c)
    [] e.tag \in Structs -> StructToObject(e, c)
    [] e.tag \in {"enum", "flags"} -> EnumToObject(c)
    [] e.tag = "object" -> ObjectRefToObject(e, c)
    [] OTHER -> NumberToObject(c)

ItemsToObject(e, c) == [k \in DOMAIN c.items |-> ScalarToObject(ItemCache(e), c.items[k])]
Stolen(r, last) == {k \in 1 .. last : r[k].steals # {}}
ItemsShown(c, r) ==
  IF FirstBad(r) = 0 THEN Shows([c EXCEPT !.items = [k \in DOMAIN r |-> r[k].py]], Stolen(r, Len(r)))
  ELSE Hides(Stolen(r, FirstBad(r) - 1))
\* A table ends before the entry that has no Python form, with the exception pending.
EntriesShown(c, r) ==
  IF FirstBad(r) = 0 THEN ItemsShown(c, r)
  ELSE Shows([c EXCEPT !.items = SubSeq(c.items, 1, 2 * ((FirstBad(r) - 1) \div 2))], Stolen(r, FirstBad(r) - 1))
SequenceToObject(e, c) ==
  IF c.py = "none" THEN Shows(List(<< >>), {}) ELSE ItemsShown(c, ItemsToObject(e, c))
ArrayToObject(e, c) == SequenceToObject(e, c)
ListToObject(e, c) == SequenceToObject(e, c)
HashToObject(e, c) == IF c.py = "none" THEN Shows(None, {}) ELSE EntriesShown(c, ItemsToObject(e, c))
ToObject(e, c) ==
  CASE e.tag = "array" -> ArrayToObject(e, c)
    [] e.tag \in Lists -> ListToObject(e, c)
    [] e.tag = "ghash" -> HashToObject(e, c)
    [] OTHER -> ScalarToObject(e, c)

(***************************************************************************)
(* _pygi_argument_to_array: what is known of a C array outside the list of *)
(* arguments that holds its length: a fixed number of items, or those      *)
(* before the NULL that ends it.  Other arrays know their length.          *)
(***************************************************************************)
KnownPart(e, c) ==
  IF c.py = "none" \/ e.atype # "C" \/ e.zero \/ e.fixed >= 0 THEN c ELSE List(<< >>)
=============================================================================
