------------------------------- MODULE Invoke -------------------------------
(***************************************************************************)
(* Calling a C function from Python (pygi-invoke.c): the arguments of the  *)
(* call are combined, marshalled one after the other into the slots the    *)
(* cache assigns them, the function is called, and what it gave back is    *)
(* marshalled into the result.  Each step may fail, and what the arguments *)
(* before it have taken is cleaned up then.                                *)
(*                                                                         *)
(* The model keeps a ledger of everything an argument may hold: a string,  *)
(* a container, each of its items, a reference, a native closure, memory   *)
(* allocated for the callee.  Somebody has to give each of them back once. *)
(***************************************************************************)
EXTENDS CallableCache, FromPy, ToPy, Cleanup

CONSTANTS Unknown,       \* the name of a keyword argument the callable has not
          Inputs(_),     \* the Python values that are passed for an entry of the cache
          Outputs(_)     \* the C values the callee may give back for one

VARIABLES
  call,      \* the call: [n: positional arguments, kw: keywords]
  bound,     \* py_in_args: where each Python argument comes from, "pos" or "kw"
  value,     \* the Python value that was marshalled into a C argument
  source,    \* and which one of the call's arguments that was
  inArgs,    \* in_args, what the callee is given for each (in) argument
  outVals,   \* out_values, where it puts (out) values
  outArgs,   \* out_args: for each (out) argument the place it is told to use
  args,      \* args: the place of each C argument
  argsData,  \* the arguments that have args_data
  ledger,    \* block -> "ours", "theirs" (the callee's), "python" (a wrapper's),
             \* "freed", "misfreed" (freed while it was nobody's to free)
  failedAt,  \* the argument that could not be marshalled, -1 if none
  outcome,   \* how the call ended: "none" while it has not
  result     \* the values of the result: [of: C argument or -1, len: its length's, or -1]

callvars == <<call, bound>>
invars == <<value, source, inArgs, argsData>>
outvars == <<outVals, outArgs>>
endvars == <<failedAt, outcome, result>>
vars == <<sig, cache, pc, pos, callvars, invars, outvars, args, ledger, endvars>>

None == << >>
Place == -1  \* where a return value is, as a part
NoCall == [n |-> 0, kw |-> {}]
Empty == [k \in {} |-> 0]

\* A block: whose it is ("in" or "out" value), of which C argument (-1 for the return
\* value), and which part of it.
Block(side, i, part) == <<side, i, part>>
Blocks(side, i, parts, owner) == [b \in {Block(side, i, p) : p \in parts} |-> owner]
Free(owner) == IF owner = "ours" THEN "freed" ELSE "misfreed"

Init == /\ InitCache
        /\ call = NoCall /\ bound = None /\ value = Empty /\ source = Empty
        /\ inArgs = Empty /\ outVals = Empty /\ outArgs = Empty /\ args = Empty
        /\ argsData = {} /\ ledger = Empty /\ failedAt = -1
        /\ outcome = "none" /\ result = None

-----------------------------------------------------------------------------
(***************************************************************************)
(* _py_args_combine_and_check_length.  The class a constructor is called   *)
(* on and the implementor of a virtual function are not among the          *)
(* arguments it sees; without them the call fails ("first" is FALSE).      *)
(***************************************************************************)
NameHash == {i \in Range(cache.names) : cache.args[i].named}
Combine(c) ==
  LET expected == Len(cache.names)
      kwItem(k) == cache.names[k] \in c.kw \cap NameHash
      posItem(k) == k <= c.n
  IN  IF c.kw = {} /\ c.n = expected THEN [k \in 1 .. expected |-> <<"pos", k>>]
      ELSE IF expected < c.n \/ (c.kw # {} /\ ~(c.kw \subseteq NameHash)) THEN None
      ELSE IF \E k \in 1 .. expected : kwItem(k) <=> posItem(k) THEN None
      ELSE [k \in 1 .. expected |-> IF posItem(k) THEN <<"pos", k>>
                                    ELSE <<"kw", cache.names[k]>>]

NeedsFirst == sig.ftype \in {"constructor", "vfunc"}
Call(c, first) ==
  LET b == Combine(c)
      ok == /\ NeedsFirst => first
            /\ b # None \/ (cache.names = << >> /\ c = NoCall)
            /\ Len(b) <= cache.nPy
  IN  /\ pc = "cached"
      /\ IF ok THEN /\ pc' = "in" /\ call' = c /\ bound' = b
                    /\ inArgs' = [k \in 0 .. cache.nFrom - 1 |-> Null]
                    /\ outVals' = [k \in 0 .. cache.nTo - 1 |-> Null]
                    /\ outArgs' = [k \in 0 .. cache.nTo - 1 |-> Null]
                    /\ UNCHANGED outcome
         ELSE /\ pc' = "done" /\ outcome' = "not called"
              /\ UNCHANGED <<call, bound, inArgs, outVals, outArgs>>
      /\ pos' = 0
      /\ UNCHANGED <<sig, cache, value, source, argsData, args, ledger, failedAt, result>>

-----------------------------------------------------------------------------
(***************************************************************************)
(* _invoke_marshal_in_args: in_count and out_count are the numbers of      *)
(* entries so far that go in and out.                                      *)
(***************************************************************************)
Before(i, P(_)) == Cardinality({j \in 0 .. i - 1 : P(cache.args[j].dir)})
InCount(i) == Before(i, FromPython)
OutCount(i) == Before(i, ToPython)
Slot(area, k) == [area |-> area, k |-> k]

\* The place a value is stored in, and what is stored there.
Store(slot, c) ==
  /\ inArgs' = IF slot.area = "in" THEN [inArgs EXCEPT ![slot.k] = c] ELSE inArgs
  /\ outVals' = IF slot.area = "value" THEN [outVals EXCEPT ![slot.k] = c] ELSE outVals
At(slot) == CASE slot.area = "in" -> inArgs[slot.k]
              [] slot.area = "value" -> outVals[slot.k]
              [] OTHER -> outArgs[slot.k]

\* What an argument takes or borrows is known by the argument.
Owned(c) == IF c \in {Own, Borrowed} THEN [c EXCEPT !.n = pos] ELSE c

(***************************************************************************)
(* Marshalling fails at argument i: the arguments up to i - 1 are cleaned  *)
(* up, and of those the last one as not processed.                         *)
(***************************************************************************)
Target(j) == IF args[j].area = "alloc" THEN outArgs[args[j].k] ELSE At(args[j])
ParameterFail(led, i) ==
  LET last == i - 1
      cleaned(b) ==
        LET j == b[2]
            e == cache.args[j]
        IN  /\ j \in 0 .. last /\ Target(j) # Null
            /\ IF e.fromClean /\ e.dir = "from"
               THEN b[1] = "in" /\ FromPyFrees(e, b[3], j < last, TRUE, value[j])
               ELSE e.caller /\ CallerFrees(e, FALSE)
  IN  [b \in DOMAIN led |-> IF cleaned(b) THEN Free(led[b]) ELSE led[b]]

FailAt(left) ==
  /\ pc' = "done"
  /\ failedAt' = pos
  /\ outcome' = "bad argument"
  /\ ledger' = ParameterFail(Blocks("in", pos, left, "ours") ++ ledger, pos)
  /\ UNCHANGED <<pos, invars, outvars, args, result>>

Step == pos' = pos + 1 /\ pc' = IF pos + 1 = cache.n THEN "call" ELSE "in"

\* The user data of a C callback, and arguments another one fills in.
MarshalNothing ==
  LET e == cache.args[pos]
      slot == Slot("in", InCount(pos))
  IN  /\ pc = "in" /\ pos < cache.n
      /\ e.dir = "from" /\ e.meta # "parent"
      /\ args' = Only(pos, slot) ++ args
      /\ inArgs' = IF e.meta = "closure"
                   THEN [inArgs EXCEPT ![slot.k] = [k |-> "user data", n |-> 0]] ELSE inArgs
      /\ Step
      /\ UNCHANGED <<sig, cache, callvars, value, source, argsData, outvars, ledger, endvars>>

LengthTag(e) == IF e.len >= 0 THEN cache.args[e.len].tag ELSE "int32"
\* What the marshaller of argument i writes into the slots of its children.
ChildWrites(e, i, r) ==
  LET length == IF r.length >= 0 THEN Only(cache.args[e.len].c, Num(r.length)) ELSE Empty
      userData == IF e.tag = "callback" /\ r.c = Own /\ e.ud > 0
                  THEN Only(cache.args[e.ud].c, [k |-> "closure", n |-> i]) ELSE Empty
      destroy == IF e.tag = "callback" /\ r.c = Own /\ e.destroy > 0
                 THEN Only(cache.args[e.destroy].c,
                           [k |-> IF NeedsDummy(e) THEN "dummy" ELSE "notify", n |-> i])
                 ELSE Empty
  IN  length ++ userData ++ destroy
UserData(e, vs) ==
  IF e.tag # "callback" \/ e.ud <= 0 THEN NoValue
  ELSE IF cache.args[e.ud].py >= Len(bound) THEN NoValue
  ELSE vs

PossibleUserData(e) ==
  IF e.tag = "callback" /\ e.ud > 0 THEN Inputs(cache.args[e.ud]) ELSE {NoValue}

Marshalled(e, v, ud) ==
  IF v.py = "none" /\ ~e.none THEN Fails({}) ELSE FromPyMarshal(e, v, LengthTag(e), ud)
TookBlocks(i, r) == Blocks("in", i, r.took, "ours") ++ ledger

\* An (in) argument.  "ud" is what is passed as the user data of a callback.
MarshalIn(v, ud) ==
  LET e == cache.args[pos]
      slot == Slot("in", InCount(pos))
      r == IF e.py < Len(bound) THEN Marshalled(e, v, UserData(e, ud)) ELSE Fails({})
  IN  /\ pc = "in" /\ pos < cache.n
      /\ e.dir = "from" /\ e.meta = "parent"
      /\ v \in Inputs(e)
      /\ ud \in PossibleUserData(e)
      /\ IF ~r.ok THEN FailAt(r.left)
         ELSE /\ args' = Only(pos, slot) ++ args
              /\ inArgs' = Only(slot.k, Owned(r.c))
                             ++ ChildWrites(e, pos, r) ++ inArgs
              /\ value' = Only(pos, v) ++ value
              /\ source' = Only(pos, bound[e.py + 1]) ++ source
              /\ argsData' = IF r.data THEN argsData \cup {pos} ELSE argsData
              /\ ledger' = TookBlocks(pos, r)
              /\ Step
              /\ UNCHANGED <<outvars, endvars>>
      /\ UNCHANGED <<sig, cache, callvars>>

(***************************************************************************)
(* An (inout) argument: its value is stored where the callee will also put *)
(* the new one, and the callee is given the address of that place.  A      *)
(* length whose array came before it finds the value in its slot already;  *)
(* an array finds the length's slot set up if the length came first.       *)
(***************************************************************************)
Ref(k) == [k |-> "ref", n |-> k]
MarshalBoth(v) ==
  LET e == cache.args[pos]
      k == InCount(pos)
      o == OutCount(pos)
      child == IsChild(e)
      r == IF child THEN Done(Null, {})
           ELSE IF e.py < Len(bound) THEN Marshalled(e, v, NoValue) ELSE Fails({})
      early == r.length >= 0 /\ inArgs[cache.args[e.len].c].k = "ref"
      mine == Only(o, IF child THEN inArgs[k] ELSE Owned(r.c))
      lengths == IF early THEN Only(inArgs[cache.args[e.len].c].n, Num(r.length)) ELSE Empty
  IN  /\ pc = "in" /\ pos < cache.n
      /\ e.dir = "both"
      /\ v \in IF child THEN {NoValue} ELSE Inputs(e)
      /\ IF ~r.ok THEN FailAt(r.left)
         ELSE /\ args' = Only(pos, Slot("value", o)) ++ args
              /\ inArgs' = Only(k, Ref(o))
                           ++ (IF early THEN Empty ELSE ChildWrites(e, pos, r)) ++ inArgs
              /\ outVals' = mine ++ lengths ++ outVals
              /\ outArgs' = [outArgs EXCEPT ![o] = Ref(o)]
              /\ value' = IF child THEN value ELSE Only(pos, v) ++ value
              /\ source' = IF child THEN source ELSE Only(pos, bound[e.py + 1]) ++ source
              /\ argsData' = IF r.data THEN argsData \cup {pos} ELSE argsData
              /\ ledger' = TookBlocks(pos, r)
              /\ Step
              /\ UNCHANGED endvars
      /\ UNCHANGED <<sig, cache, callvars>>

\* An (out) argument: a place for its value, or what the caller has to allocate, which may
\* not be possible.
MarshalOut(possible) ==
  LET e == cache.args[pos]
      o == OutCount(pos)
  IN  /\ pc = "in" /\ pos < cache.n
      /\ e.dir = "to"
      /\ ~possible => e.caller
      /\ IF ~possible THEN FailAt({})
         ELSE /\ args' = Only(pos, Slot(IF e.caller THEN "alloc" ELSE "value", o)) ++ args
              /\ outArgs' = [outArgs EXCEPT ![o] = IF e.caller THEN [k |-> "own", n |-> pos]
                                                   ELSE Ref(o)]
              /\ ledger' = IF e.caller THEN Blocks("out", pos, {Data}, "ours") ++ ledger
                           ELSE ledger
              /\ Step
              /\ UNCHANGED <<invars, outVals, endvars>>
      /\ UNCHANGED <<sig, cache, callvars>>

NoArgs == /\ pc = "in" /\ cache.n = 0
          /\ pc' = "call"
          /\ UNCHANGED <<sig, cache, pos, callvars, invars, outvars, args, ledger, endvars>>

-----------------------------------------------------------------------------
(***************************************************************************)
(* The call.  The callee finds its arguments by the introspection data's   *)
(* numbering alone.  It takes over what is transferred to it, puts values  *)
(* where it was told to, and gives those away or not.  What Python gave it *)
(* is cleaned up then, also if it reports an error, for nobody knows       *)
(* whether it had run ("not run") or not.                                  *)
(***************************************************************************)
SigArg(i) == sig.args[i - Offset(sig.ftype) + 1]
SigArgs == Offset(sig.ftype) .. cache.n - 1
Position(i, dirs) ==
  Cardinality({j \in SigArgs : j < i /\ SigArg(j).dir \in dirs})
CalleeIn(i) == inArgs[Position(i, {"in", "inout"}) + Offset(sig.ftype)]
CalleeOut(i) == outArgs[Position(i, {"out", "inout"})]
Outs == {i \in SigArgs : SigArg(i).dir # "in"}

\* The parts of a value the callee gives back that somebody owns.
OwnedTag(tag) == HasToCleanup(tag) \/ tag = "boxed"
Parts(a, cv) ==
  IF cv.k # "ptr" THEN {}
  ELSE (IF OwnedTag(a.tag) THEN {Data} ELSE {})
       \cup (IF OwnedTag(a.item) THEN 1 .. cv.items ELSE {})
Gives(a, part) ==
  IF a.transfer = "everything" \/ (a.transfer = "container" /\ part = Data) THEN "ours"
  ELSE "theirs"
Given(a, i, cv) ==
  [b \in {Block("out", i, p) : p \in Parts(a, cv)} |-> Gives(a, b[3])]

\* What the callee takes of the arguments.
Takes(e, part) ==
  \/ e.transfer = "everything"
  \/ e.transfer = "container" /\ part = Data
  \/ e.tag = "callback" /\ e.scope # "call"
HandOver(led) ==
  [b \in DOMAIN led |-> IF b[1] = "in" /\ Takes(cache.args[b[2]], b[3]) THEN "theirs"
                        ELSE led[b]]
MarshalSuccess(led) ==
  LET cleaned(b) ==
        LET e == cache.args[b[2]]
        IN  /\ b[1] = "in" /\ e.fromClean
            /\ IF e.dir = "both" THEN b[2] \in argsData ELSE At(args[b[2]]) # Null
            /\ FromPyFrees(e, b[3], TRUE, FALSE, value[b[2]])
  IN  [b \in DOMAIN led |-> IF cleaned(b) THEN Free(led[b]) ELSE led[b]]

Returns(ret, outs) ==
  LET where(i) == IF SigArg(i).dir = "out" THEN CalleeOut(i) ELSE CalleeIn(i)
      written == {i \in Outs : where(i).k = "ref"}
      place(i) == where(i).n
      new(i) == Given(SigArg(i), i, outs[i])
      all == UNION {DOMAIN new(i) : i \in written}
      given == [b \in all |-> new(b[2])[b]] ++ Given(sig.ret, -1, ret)
  IN  /\ ledger' = given ++ MarshalSuccess(HandOver(ledger))
      /\ outVals' = Only(-1, [ret EXCEPT !.of = -1])
                    ++ [o \in {place(i) : i \in written} |->
                          LET i == CHOOSE i \in written : place(i) = o
                          IN  [outs[i] EXCEPT !.of = i]]
                    ++ outVals
      /\ pc' = "out return"
      /\ UNCHANGED outcome
CallFails(ran) ==
  /\ ledger' = MarshalSuccess(IF ran THEN HandOver(ledger) ELSE ledger)
  /\ pc' = "done"
  /\ outcome' = "call failed"
  /\ UNCHANGED outVals

CallC(did, ret, outs) ==
  /\ pc = "call"
  /\ ret \in Outputs(sig.ret)
  /\ \A i \in Outs : outs[i] \in Outputs(SigArg(i))
  /\ CASE did = "returns" -> Returns(ret, outs)
       [] did = "throws" -> CallFails(TRUE)
       [] did = "not run" -> CallFails(FALSE)
  /\ pos' = 0
  /\ UNCHANGED <<sig, cache, callvars, invars, outArgs, args, failedAt, result>>

-----------------------------------------------------------------------------
(***************************************************************************)
(* _invoke_marshal_out_args: the return value, then the (out) values, into *)
(* a value, None or a tuple.  What is left of them when one fails is not   *)
(* cleaned up.                                                             *)
(***************************************************************************)
LengthOfValue(e) ==
  IF e.tag = "array" /\ e.len >= 0 /\ args[e.len].area = "value"
  THEN outVals[args[e.len].k].of ELSE -1
ValueAt(i) == IF args[i].area = "alloc" THEN [k |-> "ptr", n |-> -1, items |-> 0, of |-> i]
              ELSE At(args[i])

Marshal(i, r) ==
  ledger' = [b \in DOMAIN ledger |->
               IF b[1] # "out" \/ b[2] # i THEN ledger[b]
               ELSE IF b[3] \in r.again THEN "misfreed"
               ELSE IF b[3] \in r.frees THEN Free(ledger[b])
               ELSE IF b[3] \in r.steals THEN "python" ELSE ledger[b]]
BadResult == pc' = "done" /\ outcome' = "bad result"

OutReturn ==
  LET e == cache.ret
      cv == outVals[-1]
      r == ToPyMarshal(e, cv, LengthTag(e))
  IN  /\ pc = "out return"
      /\ CASE sig.skip ->
             \* what is cleaned up is not the value but the place it is in
             /\ ledger' = IF e.transfer = "everything" /\ e.toClean
                          THEN Only(Block("out", -1, Place), "misfreed") ++ ledger ELSE ledger
             /\ pc' = "out args"
             /\ UNCHANGED <<outcome, result>>
          [] ~sig.skip /\ sig.ftype = "constructor" /\ cv.k = "null" ->
             BadResult /\ UNCHANGED <<ledger, result>>
          [] OTHER ->
             /\ Marshal(-1, r)
             /\ IF ~r.ok THEN BadResult /\ UNCHANGED result
                ELSE /\ pc' = "out args"
                     /\ result' = IF e.tag = "void" THEN None
                                  ELSE <<[of |-> cv.of, len |-> LengthOfValue(e)]>>
                     /\ UNCHANGED outcome
      /\ UNCHANGED <<sig, cache, pos, callvars, invars, outvars, args, failedAt>>

NOut == cache.nTo - cache.nToChild
OutArg ==
  LET i == cache.args[cache.toPy[pos + 1]].c
      e == cache.args[i]
      cv == ValueAt(i)
      r == ToPyMarshal(e, cv, LengthTag(e))
  IN  /\ pc = "out args" /\ pos < NOut /\ pos < Len(cache.toPy)
      /\ Marshal(i, r)
      /\ IF ~r.ok THEN BadResult /\ UNCHANGED <<pos, result>>
         ELSE /\ result' = Append(result, [of |-> cv.of, len |-> LengthOfValue(e)])
              /\ pos' = pos + 1
              /\ UNCHANGED <<pc, outcome>>
      /\ UNCHANGED <<sig, cache, callvars, invars, outvars, args, failedAt>>

\* pygi_marshal_cleanup_args_to_py_marshal_success
ToSuccess(led) ==
  LET cleaned(b) ==
        LET e == IF b[2] = -1 THEN cache.ret ELSE cache.args[b[2]]
        IN  /\ b[1] = "out" /\ b[3] # Place
            /\ b[2] = -1 \/ b[2] \in Range(cache.toPy)
            /\ IF e.toClean THEN ToPyFrees(e, b[3], TRUE) ELSE e.caller /\ CallerFrees(e, TRUE)
  IN  [b \in DOMAIN led |-> IF cleaned(b) THEN Free(led[b]) ELSE led[b]]
Finish ==
  /\ pc = "out args" /\ pos = NOut
  /\ ledger' = ToSuccess(ledger)
  /\ pc' = "done"
  /\ outcome' = "returned"
  /\ UNCHANGED <<sig, cache, pos, callvars, invars, outvars, args, failedAt, result>>

\* The callable is called again: everything about the call before is gone but its cache.
Again ==
  /\ pc = "done"
  /\ pc' = "cached" /\ pos' = 0
  /\ call' = NoCall /\ bound' = None /\ value' = Empty /\ source' = Empty
  /\ inArgs' = Empty /\ outVals' = Empty /\ outArgs' = Empty /\ args' = Empty
  /\ argsData' = {} /\ ledger' = Empty /\ failedAt' = -1
  /\ outcome' = "none" /\ result' = None
  /\ UNCHANGED <<sig, cache>>

Next ==
  \/ CacheNext /\ UNCHANGED <<callvars, invars, outvars, args, ledger, endvars>>
  \/ \E n \in 0 .. Len(cache.names) + 1, kw \in SUBSET (NameHash \cup {Unknown}),
        first \in BOOLEAN : Call([n |-> n, kw |-> kw], first)
  \/ MarshalNothing
  \/ /\ pc = "in" /\ pos < cache.n
     /\ \/ \E v \in Inputs(cache.args[pos]), ud \in PossibleUserData(cache.args[pos]) :
             MarshalIn(v, ud)
        \/ \E v \in Inputs(cache.args[pos]) \cup {NoValue} : MarshalBoth(v)
        \/ \E possible \in BOOLEAN : MarshalOut(possible)
  \/ NoArgs
  \/ /\ pc = "call"
     /\ \E did \in {"returns", "throws", "not run"}, ret \in Outputs(sig.ret),
          outs \in [Outs -> UNION {Outputs(SigArg(i)) : i \in Outs}] : CallC(did, ret, outs)
  \/ OutReturn
  \/ OutArg
  \/ Finish
  \/ Again

Spec == Init /\ [][Next]_vars

-----------------------------------------------------------------------------
(***************************************************************************)
(* Properties.  What they compare the cache's indexes with is worked out   *)
(* from the introspection data: which arguments the Python caller passes   *)
(* and gets back, in which order, and where the callee looks for them.     *)
(***************************************************************************)
Off == Offset(sig.ftype)
Arrays(dirs) == {i \in SigArgs : SigArg(i).tag = "array" /\ SigArg(i).dir \in dirs
                                                    /\ SigArg(i).len >= 0}
LengthArg(i) == SigArg(i).len + Off
InLengths == {LengthArg(i) : i \in Arrays({"in", "inout"})}
OutLengths == {LengthArg(i) : i \in Arrays({"out", "inout"})}
              \cup (IF sig.ret.tag = "array" /\ sig.ret.len >= 0 THEN {sig.ret.len + Off} ELSE {})
Callbacks == {i \in SigArgs : SigArg(i).tag = "callback"}
UserDatas == {SigArg(i).closure + Off : i \in {j \in Callbacks : SigArg(j).closure >= 0}}
Destroys == {SigArg(i).destroy + Off : i \in {j \in Callbacks : SigArg(j).destroy >= 0}}
\* The arguments the caller passes, and the values it gets.
Passed == {i \in SigArgs \ (InLengths \cup Destroys) :
             SigArg(i).dir # "out" /\ SigArg(i).closure + Off # i}
Wanted == {i \in SigArgs \ OutLengths : SigArg(i).dir # "in"}
Order(i, S) == Cardinality({j \in S : j < i}) + 1
PassedAt(i) == Order(i, Passed) + Off

TypeOK ==
  /\ sig \in Sigs
  /\ pc \in {"no cache", "return", "args", "cached", "in", "call", "out return", "out args", "done"}
  /\ pos \in 0 .. cache.n
  /\ DOMAIN cache.args \subseteq 0 .. cache.n - 1
  /\ DOMAIN inArgs \subseteq 0 .. cache.nFrom - 1
  /\ DOMAIN outArgs \subseteq 0 .. cache.nTo - 1
  /\ DOMAIN args \subseteq 0 .. cache.n - 1
  /\ Range(ledger) \subseteq {"ours", "theirs", "python", "freed", "misfreed"}
  /\ outcome \in {"none", "not called", "bad argument", "call failed", "bad result", "returned"}

(***************************************************************************)
(* Every argument of the Python call arrives where the callee looks for    *)
(* it: the one at its position or under its name, a number unchanged and   *)
(* in the range of its C type, nothing made NULL but None and the empty    *)
(* list.  (_args_cache_generate, _invoke_marshal_in_args)                  *)
(***************************************************************************)
Arrived(i) ==
  LET a == SigArg(i)
      v == value[i]
      c == IF a.dir = "inout" THEN outVals[CalleeIn(i).n] ELSE CalleeIn(i)
  IN  /\ source[i] = IF PassedAt(i) <= call.n THEN <<"pos", PassedAt(i)>> ELSE <<"kw", i>>
      /\ a.dir = "inout" => CalleeIn(i) = CalleeOut(i)
      /\ a.tag \in IntTags /\ v.py = "int" => c = Num(v.n) /\ InRange(v.n, a.tag)
      /\ c = Null => v.py = "none" \/ (v.items = << >> /\ a.tag \in {"glist", "gslist"})
      /\ c.k \in {"own", "borrowed"} => c.n = i
ArgumentsArrive == pc = "call" => \A i \in Passed \ (Destroys \cup UserDatas) : Arrived(i)

(***************************************************************************)
(* What no Python argument corresponds to is filled in for the argument it *)
(* belongs to: the length of an array, the closure of a callback and its   *)
(* destroy notification, the user data of a C callback, the place of each  *)
(* (out) value.  (the child arguments of pygi-cache.c)                     *)
(***************************************************************************)
LengthArrived(i) ==
  LET l == CalleeIn(LengthArg(i))
  IN  value[i].py # "none" =>
        (IF SigArg(i).dir = "inout" THEN outVals[l.n] ELSE l) = Num(LengthOf(value[i]))
CallbackArrived(i) ==
  LET a == SigArg(i)
  IN  CalleeIn(i).k = "own" =>
        /\ a.closure >= 0 => CalleeIn(a.closure + Off) = [k |-> "closure", n |-> i]
        /\ a.destroy >= 0 => CalleeIn(a.destroy + Off)
                                = [k |-> IF a.closure >= 0 THEN "notify" ELSE "dummy", n |-> i]
ChildrenArrive ==
  pc = "call" =>
    /\ \A i \in Arrays({"in", "inout"}) : LengthArrived(i)
    /\ \A i \in Callbacks : CallbackArrived(i)
    /\ \A i \in SigArgs : SigArg(i).closure + Off = i => CalleeIn(i).k = "user data"
    /\ \A i \in Outs : CalleeOut(i) \in {Ref(Position(i, {"out", "inout"})),
                                         [k |-> "own", n |-> i]}

(***************************************************************************)
(* The result is the return value and the (out) values, all of them, once, *)
(* in the callee's order, and each array with its own length.              *)
(* (_invoke_marshal_out_args)                                              *)
(***************************************************************************)
ResultComplete ==
  outcome = "returned" =>
    LET returned == sig.ret.tag # "void" /\ ~sig.skip
        first == IF returned THEN 1 ELSE 0
        OwnLength(a) == IF a.tag = "array" /\ a.len >= 0 THEN a.len + Off ELSE -1
    IN  /\ Len(result) = first + Cardinality(Wanted)
        /\ returned => result[1] = [of |-> -1, len |-> OwnLength(sig.ret)]
        /\ \A i \in Wanted :
             result[first + Order(i, Wanted)] = [of |-> i, len |-> OwnLength(SigArg(i))]

(***************************************************************************)
(* Nothing is given back twice, or by one who does not own it: not what    *)
(* the callee took over, nor what a wrapper owns.  (pygi-marshal-cleanup.c)*)
(***************************************************************************)
NeverMisfreed == "misfreed" \notin Range(ledger)

(***************************************************************************)
(* A call that succeeds leaves nothing behind: every block is the callee's,*)
(* a wrapper's, or has been given back.                                    *)
(***************************************************************************)
ReleasedOnSuccess == outcome = "returned" => "ours" \notin Range(ledger)

(***************************************************************************)
(* When an argument cannot be marshalled the callee has got nothing, and   *)
(* what the arguments before the last one took is given back: strings,     *)
(* references, lists, hash tables, GValues, closures for the call, arrays  *)
(* that stay Python's, and all that was allocated for the callee.          *)
(* (pygi_marshal_cleanup_args_from_py_parameter_fail)                      *)
(***************************************************************************)
Cleanable(e) ==
  \/ e.tag \in {"utf8", "filename", "object", "gvalue", "glist", "gslist", "ghash"}
  \/ e.tag = "array" /\ (e.transfer = "nothing" \/ e.atype # "C")
  \/ e.tag = "callback" /\ e.scope = "call"
FailureReleases ==
  outcome = "bad argument" =>
    \A b \in DOMAIN ledger :
      /\ ledger[b] # "theirs"
      /\ b[1] = "out" => ledger[b] = "freed"
      /\ b[1] = "in" /\ b[2] < failedAt - 1 /\ SigArg(b[2]).dir = "in"
           /\ Cleanable(cache.args[b[2]]) => ledger[b] = "freed"

(***************************************************************************)
(* The same of the strings of all arguments that were marshalled, as a     *)
(* comment in pygi-marshal-cleanup.c has it: "We strdup strings so always  *)
(* free if we have processed this parameter for input".                    *)
(***************************************************************************)
ProcessedStringsFreed ==
  outcome = "bad argument" =>
    \A b \in DOMAIN ledger :
      b[1] = "in" /\ b[2] < failedAt /\ SigArg(b[2]).tag = "utf8" /\ SigArg(b[2]).dir = "in"
        => ledger[b] = "freed"

=============================================================================
