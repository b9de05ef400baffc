---------------------------- MODULE MCAccessors ----------------------------
(* Objects with accessors of every type, for model checking Accessors. *)
EXTENDS Accessors

CONSTANTS t1, t2

E(tag) == [Blank EXCEPT !.tag = tag]
Holds(tag, item) == [E(tag) EXCEPT !.item = item]
A(kind, e, g) ==
  [kind |-> kind, e |-> e, g |-> g, rw |-> "both", simple |-> TRUE,
   pointer |-> e.tag \in {"utf8", "filename", "array", "glist", "gslist", "ghash", "object", "void"},
   readable |-> TRUE, writable |-> TRUE, constructOnly |-> FALSE]

NumberOf(name) == Number(Rank(name))
Seqs(S) == {List(<< >>)} \cup {List(<<v>>) : v \in S} \cup {List(<<v, w>>) : v, w \in S}
Numbers == {NumberOf(Points[k]) : k \in DOMAIN Points}
Strings == {Text(0), Text(1), Text(2), None}
Bad == {Val("other")}
Values(a) ==
  LET tag == a.e.tag IN
  CASE tag \in IntTags -> Numbers \cup Bad
    [] tag \in {"float", "double"} -> {NumberOf("0"), NumberOf("2^64"), NumberOf("huge"), NumberOf("endless"), Val("inf"), Val("nan")} \cup Bad
    [] tag = "boolean" -> {NumberOf("0"), NumberOf("2"), None} \cup Bad
    [] tag = "gtype" -> {Val("gtype")} \cup Bad
    [] tag \in {"utf8", "filename", "unichar"} -> Strings \cup Bad
    [] tag = "enum" -> {NumberOf("0"), NumberOf("2"), Val("enum")} \cup Bad
    [] tag = "flags" -> {NumberOf("0"), NumberOf("2"), Val("flags")} \cup Bad
    [] tag \in {"object", "boxed", "variant"} -> {Val(tag), None} \cup Bad
    [] tag \in {"struct", "union"} -> {Val(tag)} \cup Bad
    [] tag \in {"array", "glist", "gslist"} ->
         Seqs({IF a.e.item = "object" THEN Val("object") ELSE Text(1), Val("other")}) \cup Bad
           \cup {None}
    [] tag = "ghash" -> {[List(<<v, w>>) EXCEPT !.py = "map"] : v, w \in {Text(1), Val("other")}} \cup Bad
    [] tag = "void" -> {None} \cup Bad
    [] tag = "values" -> Seqs({Text(1), Val("boxed"), Val("novalue")}) \cup Bad
    [] OTHER -> {Text(1), Val("novalue"), Val("boxed")}

\* What an accessor holds at first.
First(a) ==
  CASE a.e.tag \in IntTags \cup {"float", "double", "boolean", "enum", "flags"} -> NumberOf("0")
    [] a.e.tag \in {"gtype", "struct", "union"} -> Val(a.e.tag)
    [] a.e.tag = "unichar" -> Text(0)
    [] a.e.tag = "values" -> List(<< >>)
    [] a.e.tag = "gvalue" -> Text(1)
    [] a.kind \in {"field", "constant"} /\ a.e.tag = "array" -> List(<<Text(1), Text(1)>>)
    [] OTHER -> None

Bound(p, v) == [p |-> p, v |-> v]
Op(way, items) == [way |-> way, items |-> items]
Sets(a, ways, values) == {Op(way, <<Bound(1, v)>>) : way \in ways, v \in values}
Gets(ways) == {Op(way, <<Bound(1, None)>>) : way \in ways}
World(as, plan1, plan2, locks) ==
  [accessors |-> as, initial |-> [p \in DOMAIN as |-> [c |-> First(as[p]), v |-> First(as[p])]],
   plan |-> [t \in Threads |-> IF t = t1 THEN plan1 ELSE plan2], lock |-> locks]
Alone(a, plan) == World(<<a>>, plan, << >>, FALSE)

Field(e) == A("field", e, "none")
Fields ==
  {Field(E(tag)) : tag \in IntTags \cup {"float", "double", "boolean", "gtype", "unichar", "enum", "flags",
                                         "struct", "union", "utf8", "void", "object"}}
  \cup {[Field(E("boxed")) EXCEPT !.pointer = TRUE], [Field(E("struct")) EXCEPT !.simple = FALSE],
        [Field(E("uint8")) EXCEPT !.writable = FALSE], [Field(E("uint8")) EXCEPT !.readable = FALSE],
        Field([Holds("array", "utf8") EXCEPT !.zero = TRUE]),
        Field([Holds("array", "object") EXCEPT !.fixed = 2]),
        Field(Holds("glist", "utf8")), Field(Holds("ghash", "utf8"))}
Constants == {A("constant", E(tag), "none") : tag \in {"int32", "uint64", "double", "boolean", "utf8"}}

\* Types for introspection and the GValues they come with.
Both == {<<E("int8"), "char">>, <<E("uint8"), "uchar">>, <<E("int32"), "int">>, <<E("uint32"), "uint">>,
         <<E("int64"), "long">>, <<E("int64"), "int64">>, <<E("uint64"), "ulong">>, <<E("float"), "float">>,
         <<E("double"), "double">>, <<E("boolean"), "boolean">>, <<E("utf8"), "string">>,
         <<E("enum"), "enum">>, <<E("flags"), "flags">>, <<E("object"), "object">>,
         <<E("boxed"), "boxed">>, <<E("variant"), "variant">>, <<E("unichar"), "unichar">>,
         <<Holds("array", "utf8"), "strv">>, <<Holds("glist", "utf8"), "pointer">>,
         <<Holds("glist", "utf8"), "boxed">>, <<Holds("gslist", "utf8"), "boxed">>,
         <<Holds("ghash", "utf8"), "boxed">>}
Opaque == {"pointer", "boxed", "strv"}
Properties == {A("introspected", b[1], b[2]) : b \in Both}
              \cup {A("object", b[1], b[2]) : b \in {b \in Both : b[2] \notin {"pointer"} /\ b[1].item = "void"}}
              \cup {A("object", E("gvalue"), "gvalue"), A("object", E("values"), "valuearray"),
                    A("object", E("values"), "garray")}
Python == {A("python", b[1], b[2]) : b \in {b \in Both : b[2] \in {"int", "uint", "double", "boolean", "string",
                                                                 "object", "enum"}}}

Rich ==
  {Alone(a, <<Sets(a, {"set_value"}, Values(a)), Gets({"get_value"})>>) : a \in Fields}
  \cup {Alone(a, <<Gets({"get_value"})>>) : a \in Constants}
  \cup {Alone(a, <<Sets(a, {"set_property", "__init__"}, Values(a)), Gets({"get_property", "props"})>>) :
          a \in Properties}
  \cup {Alone(a, <<Sets(a, {"set_property"}, Values(a)), Gets({"get_property"})>>) : a \in Python}
  \cup {Alone([a EXCEPT !.writable = w, !.readable = ~w, !.constructOnly = o],
              <<Sets(a, {"props=", "__init__"}, {NumberOf("1")}), Gets({"props"})>>) :
          a \in {A(kind, E("int32"), "int") : kind \in {"object", "introspected"}}, w, o \in BOOLEAN}

\* Two threads in descriptors of the same Property, or of two.
Descriptors(n) == {Op("__set__", <<Bound(p, NumberOf("1"))>>) : p \in 1 .. n}
                  \cup {Op("__get__", <<Bound(p, None)>>) : p \in 1 .. n}
                  \cup {Op("set_property", <<Bound(p, NumberOf("2"))>>) : p \in 1 .. n}
ReadOnly == [A("python", E("int32"), "int") EXCEPT !.rw = "read-only"]
WriteOnly == [A("python", E("int32"), "int") EXCEPT !.rw = "write-only"]
Shared == {World(<<a>>, <<Descriptors(1), Descriptors(1)>>, <<Descriptors(1)>>, FALSE) : a \in {ReadOnly, WriteOnly}}
          \cup {World(<<ReadOnly, WriteOnly>>, <<Descriptors(2), Descriptors(2)>>, << >>, FALSE)}

\* set_properties that fail at any of three, against another thread, and native code with a lock.
Several(way) == {Op(way, <<Bound(1, v), Bound(2, w), Bound(3, x)>>) : v, w, x \in {NumberOf("1"), Val("other")}}
AllThree == {Op("get_properties", <<Bound(1, None), Bound(2, None), Bound(3, None)>>)}
One == {Op("props=", <<Bound(2, NumberOf("2"))>>), Op("props", <<Bound(1, None)>>),
        Op("set_properties", <<Bound(3, NumberOf("2")), Bound(1, Val("other"))>>)}
Three(kinds) == [p \in 1 .. 3 |-> A(kinds[p], E("int32"), "int")]
Mixed == {World(Three(kinds), <<Several("set_properties"), AllThree>>, <<One, One>>, FALSE) :
            kinds \in {<<"object", "python", "object">>, <<"introspected", "object", "python">>}}
         \cup {World(Three([p \in 1 .. 3 |-> "object"]), <<Several("set_properties"), AllThree>>,
                     <<One>>, TRUE)}

AllWorlds == Rich \cup Shared \cup Mixed
===========================================================================
