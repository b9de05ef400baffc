------------------------------- MODULE FromPy -------------------------------
(***************************************************************************)
(* Marshalling a Python value into a C argument (pygi-marshal-from-py.c).  *)
(* A marshaller yields a C value and takes what somebody will have to give *)
(* back: the copy of a string, a container, a reference.  One that fails   *)
(* half way, because the third item of a list will not convert, has to     *)
(* give back what it took before it returns.                               *)
(*                                                                         *)
(* A Python value is [py, n, items]: its kind, a number or a flag, and the *)
(* items of a container.  Integers are known by their rank among the       *)
(* bounds of the C types, which is all that a range check tells apart.     *)
(***************************************************************************)
EXTENDS ArgTypes

\* "-big" is below every C type, "huge" above every float, "endless" above every double.
Points ==
  << "-big", "-2^63", "-2^31-1", "-2^31", "-2^15-1", "-2^15", "-129", "-128", "-1", "0",
     "1", "2", "127", "128", "255", "256", "2^15-1", "2^15", "2^16-1", "2^16", "2^31-1",
     "2^31", "2^32-1", "2^32", "2^63-1", "2^63", "2^64-1", "2^64", "huge", "endless" >>
Ranks == [name \in Range(Points) |-> CHOOSE n \in DOMAIN Points : Points[n] = name]
Rank(name) == Ranks[name]
RankOf(length) == Rank("0") + length  \* for 0, 1 and 2

Lowest ==
  [int8 |-> Rank("-128"), uint8 |-> Rank("0"), int16 |-> Rank("-2^15"), uint16 |-> Rank("0"),
   int32 |-> Rank("-2^31"), uint32 |-> Rank("0"), int64 |-> Rank("-2^63"),
   uint64 |-> Rank("0")]
Highest ==
  [int8 |-> Rank("127"), uint8 |-> Rank("255"), int16 |-> Rank("2^15-1"),
   uint16 |-> Rank("2^16-1"), int32 |-> Rank("2^31-1"), uint32 |-> Rank("2^32-1"),
   int64 |-> Rank("2^63-1"), uint64 |-> Rank("2^64-1")]
InRange(n, tag) == Lowest[tag] <= n /\ n <= Highest[tag]

\* C values: a number, NULL, what the marshaller took, or what Python goes on owning.
Num(n) == [k |-> "num", n |-> n]
Null == [k |-> "null", n |-> 0]
Own == [k |-> "own", n |-> 0]
Borrowed == [k |-> "borrowed", n |-> 0]

(***************************************************************************)
(* What a marshaller did: the C value, the parts it took (Data and the     *)
(* numbers of items), those it left behind when it failed, the length it   *)
(* found for a child argument (-1 for none), and whether it recorded what  *)
(* it made in args_data.                                                   *)
(***************************************************************************)
Done(c, took) ==
  [ok |-> TRUE, c |-> c, took |-> took, left |-> {}, length |-> -1, data |-> FALSE]
Fails(left) ==
  [ok |-> FALSE, c |-> Null, took |-> {}, left |-> left, length |-> -1, data |-> FALSE]
FailsUnless(ok, r) == IF ok THEN r ELSE Fails({})

-----------------------------------------------------------------------------
(***************************************************************************)
(* Integers: through a C long (a long long for the widest, unsigned for    *)
(* uint64), which does its own overflow check, and then the range of the   *)
(* type.  A one-byte string is a number of 8 bits, signed as a char is.    *)
(***************************************************************************)
Through(tag) == IF tag = "uint64" THEN "uint64" ELSE "int64"
Signed(byte) == CASE byte = Rank("128") -> Rank("-128")
                  [] byte = Rank("255") -> Rank("-1")
                  [] OTHER -> byte

SmallIntFromPy(tag, v) ==   \* int8 and uint8
  IF v.py = "bytes"
  THEN FailsUnless(v.n = RankOf(1),
                   Done(Num(IF tag = "int8" THEN Signed(v.items[1]) ELSE v.items[1]), {}))
  ELSE FailsUnless(v.py = "int" /\ InRange(v.n, "int64") /\ InRange(v.n, tag),
                   Done(Num(v.n), {}))
IntFromPy(tag, v) ==        \* int16 to uint32
  FailsUnless(v.py = "int" /\ InRange(v.n, "int64") /\ InRange(v.n, tag), Done(Num(v.n), {}))
WideIntFromPy(tag, v) ==    \* int64 and uint64
  FailsUnless(v.py = "int" /\ InRange(v.n, Through(tag)), Done(Num(v.n), {}))

\* A float is valid if it is finite and in range, infinite, or not a number; a number
\* no double can hold has already failed to become a Python float.
FloatFromPy(tag, v) ==
  FailsUnless(\/ v.py \in {"inf", "nan"}
              \/ v.py = "int" /\ v.n < Rank(IF tag = "float" THEN "huge" ELSE "endless"),
              Done(Num(v.n), {}))

TruthFromPy(v) ==
  Done(Num(IF v.py = "none" \/ (v.py = "int" /\ v.n = Rank("0")) THEN Rank("0")
           ELSE Rank("1")), {})
\* A string of one character; the copy made to look at it is freed either way.
UnicharFromPy(v) == FailsUnless(v.py = "str" /\ v.n = RankOf(1), Done(Num(v.n), {}))
GTypeFromPy(v) == FailsUnless(v.py = "gtype", Done(Num(v.n), {}))

\* A copy of the string; "badstr" has no UTF-8 form, or none in the encoding of files.
Utf8FromPy(v) ==
  IF v.py = "none" THEN Done(Null, {}) ELSE FailsUnless(v.py = "str", Done(Own, {Data}))
FilenameFromPy(v) == FailsUnless(v.py = "str", Done(Own, {Data}))

(***************************************************************************)
(* An enumeration takes an instance of the Python type or a number that is *)
(* one of its values ("int" 0 and 1 here), flags an instance or 0.         *)
(***************************************************************************)
EnumValues == {Rank("0"), Rank("1")}
EnumFromPy(v) ==
  FailsUnless(v.py = "enum" \/ (v.py = "int" /\ v.n \in EnumValues), Done(Num(v.n), {}))
FlagsFromPy(v) ==
  FailsUnless(v.py = "flags" \/ (v.py = "int" /\ v.n = Rank("0")), Done(Num(v.n), {}))

\* A GValue is made anew from whatever is passed, if there is a type for it.
GValueFromPy(v) == FailsUnless(v.py # "novalue", Done(Own, {Data}))

(***************************************************************************)
(* Structures: a boxed one is copied if the callee is to own it, others    *)
(* are passed by reference; a foreign one is converted by its own module.  *)
(***************************************************************************)
StructFromPy(e, v) ==
  CASE v.py = "none" -> Done(Null, {})
    [] v.py # "none" /\ e.tag = "gvalue" -> GValueFromPy(v)
    [] v.py # "none" /\ e.tag = "boxed" ->
         FailsUnless(v.py = "boxed", IF e.transfer = "everything" THEN Done(Own, {Data})
                                     ELSE Done(Borrowed, {}))
    [] OTHER -> FailsUnless(v.py = e.tag, Done(Borrowed, {}))

(***************************************************************************)
(* Objects: a reference for a callee that is to own it.  For an object     *)
(* that only the tuple of arguments keeps alive one is added for the       *)
(* callee to have, with a warning that may have been made an error         *)
(* ("lone" with n = 1): then it is not taken back.                         *)
(***************************************************************************)
GObjectFromPy(v, transfer) ==
  CASE transfer = "everything" /\ v.py \in {"object", "lone"} -> Done(Own, {Data})
    [] transfer # "everything" /\ v.py = "lone" /\ v.n = 1 -> Fails({Data})
    [] OTHER -> FailsUnless(v.py \in {"object", "lone"}, Done(Borrowed, {}))
ObjectFromPy(e, v) == IF v.py = "none" THEN Done(Null, {}) ELSE GObjectFromPy(v, e.transfer)
\* The instance a method is called on must have the type, or the type of a field if the
\* method is a union's.
IsUnionMember(v) == v.py = "member"
InstanceFromPy(v) == FailsUnless(v.py = "object" \/ IsUnionMember(v), Done(Borrowed, {}))

\* A pointer is passed as it is; an error cannot be passed, nor what has no marshaller.
VoidFromPy == Done(Borrowed, {})
ErrorFromPy == Fails({})

\* Everything that is not a container or a callback.
ScalarFromPy(e, v) ==
  CASE e.tag \in {"int8", "uint8"} -> SmallIntFromPy(e.tag, v)
    [] e.tag \in {"int16", "uint16", "int32", "uint32"} -> IntFromPy(e.tag, v)
    [] e.tag \in {"int64", "uint64"} -> WideIntFromPy(e.tag, v)
    [] e.tag \in {"float", "double"} -> FloatFromPy(e.tag, v)
    [] e.tag = "boolean" -> TruthFromPy(v)
    [] e.tag = "unichar" -> UnicharFromPy(v)
    [] e.tag = "gtype" -> GTypeFromPy(v)
    [] e.tag = "utf8" -> Utf8FromPy(v)
    [] e.tag = "filename" -> FilenameFromPy(v)
    [] e.tag = "enum" -> EnumFromPy(v)
    [] e.tag = "flags" -> FlagsFromPy(v)
    [] e.tag \in {"gvalue", "boxed", "struct", "foreign"} -> StructFromPy(e, v)
    [] e.tag = "object" -> ObjectFromPy(e, v)
    [] e.tag = "self" -> InstanceFromPy(v)
    [] e.tag = "void" -> VoidFromPy
    [] OTHER -> ErrorFromPy

-----------------------------------------------------------------------------
(***************************************************************************)
(* Containers marshal item after item.                                     *)
(***************************************************************************)
ItemResults(e, v) == [k \in DOMAIN v.items |-> ScalarFromPy(ItemCache(e), v.items[k])]
FirstBad(r) == IF \E k \in DOMAIN r : ~r[k].ok THEN Min({k \in DOMAIN r : ~r[k].ok}) ELSE 0
TakenBefore(r, f) == {k \in DOMAIN r : k < f /\ r[k].took # {}}
LeftAt(r, f) == IF r[f].left # {} THEN {f} ELSE {}

LengthOf(v) == IF v.py = "bytes" THEN v.n ELSE RankOf(Len(v.items))
\* The length goes into an argument that must have an integer type it fits.
LengthFits(length, tag) == tag \in IntTags /\ InRange(length, tag)
FixedSizeOk(e, v) == e.fixed < 0 \/ LengthOf(v) = RankOf(e.fixed)

(***************************************************************************)
(* An array cleans the items it has marshalled up when one fails: that     *)
(* gives strings back, but not references on objects, whose cleanup waits  *)
(* for an invocation that has failed.  So does a length that does not fit  *)
(* the argument it goes into ("lengthTag").                                *)
(***************************************************************************)
CleanedOnError(e) == HasFromCleanup(e.item) /\ e.item # "object"
ArrayFromPy(e, v, lengthTag) ==
  LET r == ItemResults(e, v)
      f == FirstBad(r)
      all == TakenBefore(r, Len(r) + 1)
      Drop(parts) == IF CleanedOnError(e) THEN {} ELSE parts
      bytes == v.py = "bytes" /\ e.item = "uint8"
      ready == v.py \in {"seq", "bytes"} /\ FixedSizeOk(e, v)
      fits == e.len >= 0 => LengthFits(LengthOf(v), lengthTag)
      whole(took) == [Done(Own, took) EXCEPT
                        !.length = IF e.len >= 0 THEN LengthOf(v) ELSE -1,
                        !.data = e.atype = "C" /\ e.transfer = "nothing"]
  IN  CASE v.py = "none" -> Done(Null, {})
        [] v.py # "none" /\ ~ready -> Fails({})
        [] ready /\ bytes -> FailsUnless(fits, whole({Data}))
        [] ready /\ ~bytes /\ f # 0 -> Fails(Drop(TakenBefore(r, f)) \cup LeftAt(r, f))
        [] ready /\ ~bytes /\ f = 0 /\ ~fits -> Fails(Drop(all))
        [] OTHER -> whole({Data} \cup all)

\* A list frees its nodes when an item fails, and forgets the items.
ListFromPy(e, v) ==
  LET r == ItemResults(e, v)
      f == FirstBad(r)
  IN  CASE v.py = "none" -> Done(Null, {})
        [] v.py # "none" /\ (v.py # "seq" \/ ~FixedSizeOk(e, v)) -> Fails({})
        [] v.py = "seq" /\ FixedSizeOk(e, v) /\ f # 0 -> Fails(TakenBefore(r, f) \cup LeftAt(r, f))
        \* an empty list is NULL
        [] OTHER -> IF v.items = << >> THEN Done(Null, {})
                    ELSE Done(Own, {Data} \cup TakenBefore(r, Len(r) + 1))

\* A hash table: the items are keys and values in turn.  It forgets them too.
HashFromPy(e, v) ==
  LET r == ItemResults(e, v)
      f == FirstBad(r)
  IN  CASE v.py = "none" -> Done(Null, {})
        [] v.py = "map" /\ f # 0 -> Fails(TakenBefore(r, f) \cup LeftAt(r, f))
        [] v.py = "map" /\ f = 0 -> Done(Own, {Data} \cup TakenBefore(r, Len(r) + 1))
        [] OTHER -> Fails({})

(***************************************************************************)
(* A callback becomes a native closure.  None is passed as NULL, but not   *)
(* together with user data.  Without a user data argument there is nothing *)
(* a destroy notification could free: it gets a dummy, with a warning, and *)
(* if that is an error the closure is freed at once.                       *)
(***************************************************************************)
NeedsDummy(e) == e.destroy > 0 /\ e.ud <= 0
NoValue == [py |-> "absent", n |-> 0, items |-> << >>]
CallbackFromPy(e, v, userData) ==
  CASE v.py = "none" -> FailsUnless(userData.py \in {"none", "absent"}, Done(Null, {}))
    [] v.py = "callable" ->
         FailsUnless(~(NeedsDummy(e) /\ v.n = 1),
                     [Done(Own, {Data}) EXCEPT !.data = TRUE])
    [] OTHER -> Fails({})

FromPyMarshal(e, v, lengthTag, userData) ==
  CASE e.tag = "array" -> ArrayFromPy(e, v, lengthTag)
    [] e.tag \in {"glist", "gslist"} -> ListFromPy(e, v)
    [] e.tag = "ghash" -> HashFromPy(e, v)
    [] e.tag = "callback" -> CallbackFromPy(e, v, userData)
    [] OTHER -> ScalarFromPy(e, v)
=============================================================================
