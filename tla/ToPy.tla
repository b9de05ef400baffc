-------------------------------- MODULE ToPy --------------------------------
(***************************************************************************)
(* Marshalling what a C function gave back into a Python value             *)
(* (pygi-marshal-to-py.c).  Strings and containers are copied and have to  *)
(* be freed afterwards; objects and structures are wrapped, and a wrapper  *)
(* takes over what the callee gave away.                                   *)
(*                                                                         *)
(* A C value is [k, n, items]: k is "num", "null" or "ptr", n tells which  *)
(* item, or Data for the value itself, has no Python form (-1 for none),   *)
(* and items is how many a container has.                                  *)
(***************************************************************************)
EXTENDS ArgTypes

(***************************************************************************)
(* What a marshaller did: the parts whose ownership the Python value has   *)
(* taken, and those the marshaller has freed itself, once and again.       *)
(***************************************************************************)
Made(steals) == [ok |-> TRUE, steals |-> steals, frees |-> {}, again |-> {}]
Failed == [ok |-> FALSE, steals |-> {}, frees |-> {}, again |-> {}]

FailedIf(bad, r) == IF bad THEN Failed ELSE r

\* Nothing has to be kept of a number, and each has a Python form; a character needs a
\* valid code point, a string to be UTF-8 (a filename, to have such a form), an enumeration
\* or flags a value its class can be called with.  NULL becomes None.
NumberToPy == Made({})
UnicharToPy(cv) == FailedIf(cv.n = Data, Made({}))
StringToPy(cv) == FailedIf(cv.k # "null" /\ cv.n = Data, Made({}))
EnumToPy(cv) == FailedIf(cv.n = Data, Made({}))

\* Wrapping an object takes its reference over, or adds one of the wrapper's own.
ObjectToPy(e, cv) == Made(IF cv.k = "ptr" /\ e.transfer = "everything" THEN {Data} ELSE {})

\* A boxed value is owned by its wrapper if it was given away or allocated for the call;
\* a plain structure only if it was given away; a GValue is converted.
StructToPy(e, cv) ==
  FailedIf(cv.k = "ptr" /\ cv.n = Data,
    Made(IF /\ cv.k = "ptr"
            /\ \/ e.tag = "boxed" /\ (e.transfer = "everything" \/ e.caller)
               \/ e.tag = "struct" /\ e.transfer = "everything"
         THEN {Data} ELSE {}))

\* The error becomes an exception object, and is freed if it was given away.
ErrorToPy(e, cv) ==
  [Made({}) EXCEPT !.frees = IF cv.k = "ptr" /\ e.transfer = "everything" THEN {Data} ELSE {}]

\* A callback cannot come back from C.
CallbackToPy == Failed

ScalarToPy(e, cv) ==
  CASE e.tag = "callback" -> CallbackToPy
    [] e.tag = "unichar" -> UnicharToPy(cv)
    [] e.tag \in {"utf8", "filename"} -> StringToPy(cv)
    [] e.tag \in {"enum", "flags"} -> EnumToPy(cv)
    [] e.tag = "object" -> ObjectToPy(e, cv)
    [] e.tag \in {"boxed", "struct", "gvalue", "foreign"} -> StructToPy(e, cv)
    [] e.tag = "error" -> ErrorToPy(e, cv)
    [] OTHER -> NumberToPy

-----------------------------------------------------------------------------
\* The items before the first that has no Python form are in the list already.
Converted(cv) == {k \in 1 .. cv.items : cv.n < 0 \/ k < cv.n}
Stolen(e, cv) ==
  {k \in Converted(cv) : Data \in ScalarToPy(ItemCache(e), [cv EXCEPT !.n = -1]).steals}

\* A C array has a fixed length, ends with NULL, or its length is an argument of an
\* integer type; the signed ones are not checked.
HasLength(e, lengthTag) ==
  e.atype # "C" \/ e.fixed >= 0 \/ e.zero \/ lengthTag \in IntTags

(***************************************************************************)
(* An array.  A C array is wrapped in a GArray to walk over it; when an    *)
(* item fails, that GArray is unreferenced, which frees the memory it      *)
(* points to, and then freed.  Other arrays clean up the items that were   *)
(* not reached and are freed if they were given away.                      *)
(***************************************************************************)
ArrayToPy(e, cv, lengthTag) ==
  LET unreached == {k \in 1 .. cv.items : k >= cv.n}
      given == e.transfer = "everything"
      empty == cv.k = "null" \/ e.item = "uint8"
  IN  CASE ~HasLength(e, lengthTag) -> Failed
        [] HasLength(e, lengthTag) /\ empty -> Made({})
        [] HasLength(e, lengthTag) /\ ~empty /\ cv.n < 0 -> Made(Stolen(e, cv))
        [] HasLength(e, lengthTag) /\ ~empty /\ cv.n >= 0 /\ e.atype = "C" ->
             [Failed EXCEPT !.steals = Stolen(e, cv), !.frees = {Data},
                            !.again = IF given THEN {Data} ELSE {}]
        [] OTHER ->
             [Failed EXCEPT !.steals = Stolen(e, cv),
                !.frees = (IF given /\ ItemCache(e).toClean THEN unreached ELSE {})
                          \cup (IF given THEN {Data} ELSE {})]

\* Lists and hash tables drop the Python list or dictionary and leave the rest as it is.
ListToPy(e, cv) ==
  IF cv.k = "null" \/ cv.n < 0 THEN Made(Stolen(e, cv))
  ELSE [Failed EXCEPT !.steals = Stolen(e, cv)]
HashToPy(e, cv) ==
  IF cv.k = "null" \/ cv.n < 0 THEN Made(Stolen(e, cv))
  ELSE [Failed EXCEPT !.steals = Stolen(e, cv)]

ToPyMarshal(e, cv, lengthTag) ==
  CASE e.tag = "array" -> ArrayToPy(e, cv, lengthTag)
    [] e.tag \in {"glist", "gslist"} -> ListToPy(e, cv)
    [] e.tag = "ghash" -> HashToPy(e, cv)
    [] OTHER -> ScalarToPy(e, cv)
=============================================================================
