----------------------------- MODULE MCInvoke -----------------------------
(* Callables of every kind of argument, for model checking Invoke. *)
EXTENDS Ownership

A(tag, dir, transfer) ==
  [tag |-> tag, dir |-> dir, transfer |-> transfer, caller |-> FALSE, none |-> FALSE,
   len |-> -1, closure |-> -1, destroy |-> -1, scope |-> "call", item |-> "void",
   atype |-> "C", fixed |-> -1, zero |-> FALSE]
In(tag) == A(tag, "in", "nothing")
Optional(a) == [a EXCEPT !.none = TRUE]
Give(a) == [a EXCEPT !.transfer = "everything"]
Of(a, item) == [a EXCEPT !.item = item]
Length(a, len) == [a EXCEPT !.len = len]
Array(item, dir, len) == Length(Of(A("array", dir, "nothing"), item), len)
Kind(a, atype) == [a EXCEPT !.atype = atype]
Callback(scope, ud, destroy) ==
  [In("callback") EXCEPT !.scope = scope, !.closure = ud, !.destroy = destroy, !.none = TRUE]
Alloc(tag) == [A(tag, "out", "nothing") EXCEPT !.caller = TRUE]
Nothing == A("void", "out", "nothing")

F(ftype, as, ret, skip) == [ftype |-> ftype, args |-> as, ret |-> ret, skip |-> skip]
Fn(as) == F("function", as, Nothing, FALSE)
Method(as) == F("method", as, Nothing, FALSE)
Gets(as, ret) == F("function", as, ret, FALSE)

\* One argument of each type: what converts, exactly, and what does not.
ScalarTags == IntTags \cup {"float", "double", "boolean", "unichar", "gtype", "utf8", "filename",
                            "enum", "flags", "boxed", "struct", "gvalue", "object", "callback"}
Scalars == {Fn(<<Optional(In(tag))>>) : tag \in ScalarTags} \cup {Fn(<<In("foreign")>>)}
           \cup {Fn(<<Give(In(tag))>>) : tag \in {"boxed", "object", "unknown"}}
           \cup {F(ftype, <<In("utf8"), In("int32")>>, Nothing, FALSE) :
                   ftype \in {"method", "vfunc"}}

\* Several arguments that take something, to fail at each of them.
Mixed == {Method(<<In("utf8"), Give(In("object")), In("gvalue"), In("int32")>>),
          Fn(<<Of(In("glist"), "utf8"), Give(Of(In("gslist"), "object")), In("filename"), In("int32")>>),
          Fn(<<Of(In("ghash"), "utf8"), Kind(Array("utf8", "in", -1), "ptr"), In("utf8"), In("int32")>>),
          Fn(<<Alloc("boxed"), In("utf8"), Alloc("gvalue"), In("int32")>>)}

\* Arrays, their lengths before and behind them.
InArrays == {Fn(<<In("int32"), Array("utf8", "in", 2), In("uint8"), In("utf8")>>),
             Fn(<<In("uint8"), Array("utf8", "in", 0), In("utf8")>>),
             Fn(<<In("boolean"), Array("utf8", "in", 0)>>),
             Method(<<In("utf8"), In("int8"), In("utf8"), Array("uint8", "in", 1), In("int32")>>),
             Fn(<<In("uint8"), In("uint8"), Array("utf8", "in", 1), Array("int32", "in", 0)>>),
             Fn(<<Array("utf8", "in", 2), Array("object", "in", 3), In("int8"), In("uint8")>>),
             Fn(<<Give(Kind(Array("object", "in", -1), "garray")), In("int32")>>),
             Fn(<<[Array("utf8", "in", -1) EXCEPT !.zero = TRUE], In("int32")>>),
             Fn(<<[Array("utf8", "in", -1) EXCEPT !.fixed = 1], In("utf8"), In("int32")>>)}

\* Callbacks with user data and destroy notifications in either order.
CallbackSigs == {Fn(<<Callback(scope, 1, 2), In("void"), In("void"), In("utf8")>>) :
                    scope \in {"call", "notified"}}
                \cup {Method(<<In("utf8"), Callback("async", 3, 2), In("void"), In("void"), In("int32")>>),
                      Fn(<<Callback("notified", -1, 1), In("void"), In("int32")>>),
                      F("ccallback", <<In("utf8"), [In("void") EXCEPT !.closure = 1], In("int32")>>,
                        A("int32", "out", "nothing"), FALSE)}

\* Values that come back.
OutSigs == {Gets(<<In("utf8"), Give(A("utf8", "out", "nothing")), A("int32", "out", "nothing")>>,
                 Give(A("object", "out", "nothing"))),
            F("function", <<Give(A("object", "out", "nothing"))>>, A("boolean", "out", "nothing"), TRUE),
            F("function", <<In("int32")>>, A("boolean", "out", "nothing"), TRUE),
            F("constructor", <<In("utf8")>>, Give(A("object", "out", "nothing")), FALSE),
            Gets(<<A("uint8", "out", "nothing"), A("int32", "out", "nothing")>>,
                 Give(Array("utf8", "out", 0))),
            Gets(<<A("int32", "out", "nothing"), Give(Array("object", "out", 2)),
                   A("uint8", "out", "nothing"), A("utf8", "out", "nothing")>>, A("int32", "out", "nothing")),
            Fn(<<A("uint8", "out", "nothing"), In("int32"), Array("utf8", "out", 0),
                 Give(Of(A("glist", "out", "nothing"), "utf8"))>>),
            Fn(<<Alloc("boxed"), Alloc("gvalue"), In("int32")>>),
            Method(<<A("int32", "inout", "nothing"), In("utf8"), A("utf8", "inout", "everything")>>),
            Method(<<A("uint8", "inout", "nothing"), In("int32"), Array("int32", "inout", 0)>>),
            Fn(<<Array("int32", "inout", 1), A("uint8", "inout", "nothing"), In("int32")>>),
            Gets(<< >>, Give(Of(A("ghash", "out", "nothing"), "utf8"))),
            Gets(<< >>, Give(Kind(Array("utf8", "out", -1), "ptr"))),
            Gets(<<A("boolean", "out", "nothing")>>, Array("utf8", "out", 0)),
            Gets(<<A("unichar", "out", "nothing"), A("enum", "out", "nothing")>>, A("flags", "out", "nothing")),
            Gets(<< >>, A("callback", "out", "nothing"))}

\* Every function of up to three plain arguments, every method of up to two.
Plain == {In("utf8"), Give(In("object")), In("int32"), A("int32", "out", "nothing"),
          Give(A("utf8", "out", "nothing")), A("int32", "inout", "nothing")}
PlainSigs == {Fn(as) : as \in BoundedSeq(Plain, 3)} \cup {Method(as) : as \in BoundedSeq(Plain, 2)}

\* An array, its length and other arguments in every order.  A length that goes in must not
\* come before its array and behind an (out) argument: that is a known fault of the cache.
Permuted(as, array, len) ==
  {[k \in DOMAIN as |-> IF p[k] = array THEN Length(as[array], (CHOOSE j \in DOMAIN p : p[j] = len) - 1) ELSE as[p[k]]] :
     p \in {q \in [DOMAIN as -> DOMAIN as] : IsInjective(q)}}
Awkward(as) == \E i, j, k \in DOMAIN as : /\ as[i].tag = "array" /\ as[i].len + 1 = j /\ j < i
                                         /\ k < j /\ as[k].dir = "out" /\ as[i].dir # "out"
Orders ==
  UNION {Permuted(<<Array("utf8", "in", 0), In("uint8"), In("utf8"), A("int32", "out", "nothing")>>, 1, 2),
         Permuted(<<Array("utf8", "in", 0), In("uint8"), A("int32", "inout", "nothing"), In("utf8")>>, 1, 2),
         Permuted(<<Array("utf8", "out", 0), A("uint8", "out", "nothing"), In("utf8"),
                    A("int32", "out", "nothing")>>, 1, 2),
         Permuted(<<Array("int32", "inout", 0), A("uint8", "inout", "nothing"), In("int32"),
                    A("int32", "out", "nothing")>>, 1, 2)}
OrderSigs == {F(ftype, as, Nothing, FALSE) : ftype \in {"function", "method"},
                                            as \in {o \in Orders : ~Awkward(o)}}

AllSigs == PlainSigs \cup OrderSigs \cup Scalars \cup Mixed \cup InArrays \cup CallbackSigs \cup OutSigs
NoName == -2

PyVal(py, n, items) == [py |-> py, n |-> n, items |-> items]
Py(py) == PyVal(py, 0, << >>)
PyInt(name) == PyVal("int", Rank(name), << >>)
Str == PyVal("str", RankOf(1), << >>)
Seqs(S) == {PyVal("seq", 0, << >>)} \cup {PyVal("seq", 0, <<v>>) : v \in S}
           \cup {PyVal("seq", 0, <<v, w>>) : v, w \in S}
Bytes(n, first) == PyVal("bytes", n, <<first>>)
Number(tag) ==
  CASE tag = "int32" -> {PyInt("-2^31-1"), PyInt("1"), PyInt("2^31")}
    [] OTHER -> {PyInt(Points[k]) : k \in DOMAIN Points}
                  \cup {Bytes(RankOf(1), Rank("1")), Bytes(RankOf(1), Rank("255")), Bytes(RankOf(2), Rank("1"))}
Items(tag) ==
  CASE tag = "utf8" -> {Str, Py("badstr")}
    [] tag = "object" -> {Py("object"), Py("other")}
    [] OTHER -> {PyInt("1"), PyInt("256")}
Values(e) ==
  CASE e.tag \in IntTags -> Number(e.tag) \cup {Py("none"), Py("other")}
    [] e.tag \in {"float", "double"} -> {PyInt("0"), PyInt("2^64"), PyInt("huge"), PyInt("endless"),
                                         Py("inf"), Py("nan"), Py("other")}
    [] e.tag = "boolean" -> {PyInt("0"), PyInt("2"), Py("none"), Py("other")}
    [] e.tag = "unichar" -> {Str, PyVal("str", RankOf(2), << >>), Py("other")}
    [] e.tag \in {"utf8", "filename"} -> {Str, Py("badstr"), Py("none")}
    [] e.tag = "enum" -> {Py("enum"), PyInt("1"), PyInt("2")}
    [] e.tag = "flags" -> {Py("flags"), PyInt("0"), PyInt("1")}
    [] e.tag = "self" -> {Py("object"), Py("member"), Py("other")}
    [] e.tag = "object" -> {Py("object"), Py("lone"), PyVal("lone", 1, << >>), Py("none"), Py("other")}
    [] e.tag = "gvalue" -> {Py("novalue"), PyInt("1"), Py("none")}
    [] e.tag = "callback" -> {Py("callable"), PyVal("callable", 1, << >>), Py("none"), Py("other")}
    [] e.tag = "void" -> {Py("none"), Py("other")}
    [] e.tag = "array" -> Seqs(Items(e.item)) \cup {Py("none"), Py("other")}
                          \cup IF e.item = "uint8" THEN {Bytes(RankOf(2), Rank("1")), Bytes(Rank("255"), Rank("1"))} ELSE {}
    [] e.tag \in {"glist", "gslist"} -> Seqs(Items(e.item)) \cup {Py("none"), Py("other")}
    [] e.tag = "ghash" -> {PyVal("map", 0, <<v, w>>) : v, w \in Items(e.item)} \cup {Py("other")}
    [] OTHER -> {Py(e.tag), Py("other"), Py("none")}

CV(k, n, items) == [k |-> k, n |-> n, items |-> items, of |-> 0]
CValues(a) ==
  CASE a.tag \in {"utf8", "filename"} -> {CV("ptr", -1, 0), CV("ptr", Data, 0), CV("null", -1, 0)}
    [] a.tag \in {"unichar", "enum", "flags"} -> {CV("num", -1, 0), CV("num", Data, 0)}
    [] a.tag \in {"object", "boxed"} -> {CV("ptr", -1, 0), CV("null", -1, 0)}
    [] a.tag = "array" -> {CV("ptr", -1, 2), CV("null", -1, 0)}
                            \cup IF a.item = "utf8" /\ a.atype # "C" THEN {CV("ptr", 2, 2)} ELSE {}
    [] a.tag \in {"glist", "gslist", "ghash"} -> {CV("ptr", -1, 2), CV("ptr", 2, 2)}
    [] OTHER -> {CV("num", -1, 0)}

\* What the theorems about Invoke suppose is true of these callables and values.
ASSUME CallablesAssumption ==
  /\ AllCareful /\ AllRecoverable /\ AllTidy /\ ItemsConvert /\ OutputsOK
  /\ \A s \in Sigs : \A i \in ArgsOf(s) : PlainFor(ArgOf(s, i))
===========================================================================
