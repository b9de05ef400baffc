-------------------------- MODULE MCNativeClosure --------------------------
(* Signatures and scopes for model checking NativeClosure. *)
EXTENDS NativeClosure

CONSTANTS t1, t2, n1

E(tag) == [Blank EXCEPT !.tag = tag]
Holds(tag, item) == [E(tag) EXCEPT !.item = item]
In(e) == [e |-> e, dir |-> "in", closure |-> 0, destroy |-> 0]
Out(e) == [In(e) EXCEPT !.dir = "out"]
InOut(e) == [In(e) EXCEPT !.dir = "inout"]
CallbackArg(data, notify) == [In(E("callback")) EXCEPT !.closure = data, !.destroy = notify]
Int32 == Number(Rank("1"))
Tuple(items) == [py |-> "tuple", n |-> 0, items |-> items]

\* What a place of a type may say to Python, and be told by it.
Seqs(S) == {List(<< >>)} \cup {List(<<v>>) : v \in S} \cup {List(<<v, w>>) : v, w \in S}
Contents(e) ==
  CASE e.tag \in {"int32", "uint8"} -> {Int32}
    [] e.tag = "boolean" -> {Number(Rank("1"))}
    [] e.tag \in {"utf8", "filename"} -> {Text(1), None, Val("badstr")}
    [] e.tag \in {"glist", "array"} -> {None} \cup (Seqs({Text(1), Val("badstr")}) \ {List(<< >>)})
    [] e.tag \in {"object", "callback", "void", "error"} -> {None, Val(e.tag)}
    [] OTHER -> {Val(e.tag)}
Answers(e) ==
  CASE e.tag \in {"int32", "uint8"} -> {Int32, Number(Rank("2^15-1")), Val("other")}
    [] e.tag = "boolean" -> {Number(Rank("0")), Text(1)}
    [] e.tag = "utf8" -> {Text(1), None, Val("other")}
    [] e.tag \in {"glist", "array"} -> {List(<< >>), List(<<Text(1), Text(1)>>), List(<<Text(1), Val("other")>>)}
    [] e.tag = "struct" -> {Val("struct"), None}
    [] OTHER -> {Val(e.tag), None, Val("other")}

Signature(args, ret) == [args |-> args, ret |-> ret]
Void == E("void")
Signatures ==
  {Signature(<<In(E(tag))>>, Void) : tag \in {"boolean", "utf8", "filename", "gtype", "unichar", "object", "enum"}}
  \cup {Signature(<<In(Holds(tag, "utf8")), In(E("void"))>>, E("boolean")) : tag \in {"glist", "array"}}
  \cup {Signature(<<CallbackArg(2, 3), In(E("void")), In(E("callback")), In(E("int32"))>>, Void),
        Signature(<<In(E("int32")), CallbackArg(4, 0), Out(E("int32")), In(E("void"))>>, Void),
        Signature(<<Out(E("utf8")), InOut(E("int32")), Out(E("error"))>>, E("int32")),
        Signature(<<Out(E("error")), Out(E("struct"))>>, E("object")),
        Signature(<<InOut(E("error")), Out(E("int32")), In(E("utf8")), Out(Holds("glist", "utf8"))>>, Void),
        Signature(<<Out(E("uint8"))>>, Void), Signature(<< >>, E("utf8"))}

\* Every choice of one value from each of a sequence of sets.
OneOfEach(sets) == {f \in [DOMAIN sets -> UNION Range(sets)] : \A k \in DOMAIN sets : f[k] \in sets[k]}
Inputs(s) == OneOfEach([i \in DOMAIN s.args |->
               IF s.args[i].dir = "out" THEN {Val("place"), Nowhere} ELSE Contents(s.args[i].e)])
Places(s) == (IF s.ret = Void THEN << >> ELSE <<s.ret>>)
             \o [k \in 1 .. Len(SelectSeq(s.args, LAMBDA a : a.dir # "in" /\ a.e.tag # "error")) |->
                   SelectSeq(s.args, LAMBDA a : a.dir # "in" /\ a.e.tag # "error")[k].e]
Results(s) ==
  LET places == Places(s)
      items == OneOfEach([k \in DOMAIN places |-> Answers(places[k])])
  IN  {Raised} \cup CASE places = << >> -> {None}
                      [] Len(places) = 1 -> {r[1] : r \in items}
                      [] OTHER -> {Tuple(r) : r \in items}
Program(s, inputs, scopes, depth, calls) ==
  [args |-> s.args, ret |-> s.ret, inputs |-> inputs, results |-> Results(s),
   scopes |-> scopes, depth |-> depth, calls |-> calls]

Conversions == UNION {{Program(s, inputs, <<"call">>, 2, 1) : inputs \in Inputs(s)} : s \in Signatures}
Scopes == {"call", "async", "notified"}
Lifetimes(n, depth, calls) ==
  {Program(Signature(<< >>, Void), << >>, scopes, depth, calls) : scopes \in [1 .. n -> Scopes]}
AllPrograms == Conversions \cup Lifetimes(2, 4, 2) \cup Lifetimes(3, 3, 1)
Alike == Permutations(PyThreads)
=============================================================================
