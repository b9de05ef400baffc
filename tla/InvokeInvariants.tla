-------------------------- MODULE InvokeInvariants --------------------------
(***************************************************************************)
(* What the proofs about CallableCache and Invoke show of every state: the *)
(* indexes of the cache, the slots of a call, what has been marshalled     *)
(* into them, what comes back, and who owns it.  Each invariant is a       *)
(* conjunction of named parts, inductive as a whole.                       *)
(***************************************************************************)
EXTENDS Ownership

-----------------------------------------------------------------------------
(* The cache, step by step *)

\* How many numbers of a set are below i.
Below(S, i) == Cardinality({j \in 0 .. i - 1 : j \in S})

Numbers(s) == 0 .. Count(s) - 1
Ins(s) == {j \in Numbers(s) : FromPython(WayOf(s, j))}
ToOnes(s) == {j \in Numbers(s) : ToPython(WayOf(s, j))}

\* What the owners before argument p have said of argument j.
Lengthed(s, p, j) == \E i \in ArgsOf(s) \cup {-1} : i < p /\ HasLengthArg(s, i) /\ j = LengthAt(s, i)
Fed(s, p, j) == \E i \in ArgsOf(s) : i < p /\ HasUserData(s, i) /\ j = UserDataAt(s, i)
Ended(s, p, j) == \E i \in ArgsOf(s) : i < p /\ HasDestroy(s, i) /\ j = DestroyAt(s, i)
Meta(s, p, j) ==
  IF IsClosure(s, j) THEN "closure"
  ELSE IF Fed(s, p, j) THEN "childPy"
  ELSE IF Lengthed(s, p, j) \/ Ended(s, p, j) THEN "child" ELSE "parent"

\* The arguments before p that a Python argument is passed for, and the lengths that are no result.
Shows(s, p) == {j \in Ins(s) : j < p /\ Meta(s, p, j) \notin {"child", "closure"}}
Lengths(s, p) == {j \in ToOnes(s) : Lengthed(s, p, j)}

\* The entry of an argument that has had its turn.
Described(s, j, e) ==
  LET a == ArgOf(s, j)
      off == Offset(s.ftype)
  IN  /\ e.tag = a.tag /\ e.named /\ e.none = a.none /\ e.transfer = a.transfer
      /\ e.len = (IF a.len >= 0 THEN a.len + off ELSE -1)
      /\ e.ud = (IF a.closure >= 0 THEN a.closure + off ELSE -1)
      /\ e.destroy = (IF a.destroy >= 0 THEN a.destroy + off ELSE -1)
      /\ e.scope = a.scope /\ e.item = a.item /\ e.atype = a.atype /\ e.fixed = a.fixed /\ e.zero = a.zero
\* Which cleanup functions there are for it.
Swept(s, j, e) == /\ e.fromClean <=> FromPython(WayOf(s, j)) /\ HasFromCleanup(ArgOf(s, j).tag)
                  /\ e.toClean <=> ToPython(WayOf(s, j)) /\ HasToCleanup(ArgOf(s, j).tag)
Placed(s, p, j, e) ==
  /\ e.c = IF e.meta \in {"child", "childPy"} /\ j \in Ins(s) THEN Below(Ins(s), j)
           ELSE IF e.meta = "parent" THEN j ELSE e.c
  /\ j \in Shows(s, p) => e.py = Below(Shows(s, p), j)
  /\ j \in ArgsOf(s) /\ e.meta # "closure" => e.tag = ArgOf(s, j).tag
  /\ j \in ArgsOf(s) /\ e.meta = "parent" => Described(s, j, e)
  /\ j \in ArgsOf(s) /\ e.meta = "parent" => Swept(s, j, e)
  /\ j \notin ArgsOf(s) => e.tag = "self"
EntryOK(s, p, j, e) ==
  /\ DOMAIN e = DOMAIN Blank
  /\ e.meta = Meta(s, p, j) /\ e.dir = WayOf(s, j)
  /\ j < p => Placed(s, p, j, e)

CacheFields == {"ftype", "n", "args", "nFrom", "nTo", "nToChild", "nPy", "toPy", "ret", "names"}
CacheOK(s, cc, p) ==
  /\ DOMAIN cc = CacheFields /\ cc.ftype = s.ftype /\ cc.n = Count(s)
  /\ p \in Offset(s.ftype) .. Count(s)
  /\ cc.nFrom = Below(Ins(s), p) /\ cc.nTo = Below(ToOnes(s), p)
  /\ cc.nPy = Below(Shows(s, p), p) /\ cc.nToChild = Below(Lengths(s, p), p)
  /\ DOMAIN cc.args = {j \in Numbers(s) : j < p \/ Lengthed(s, p, j) \/ Fed(s, p, j) \/ Ended(s, p, j)}
  /\ \A j \in DOMAIN cc.args : EntryOK(s, p, j, cc.args[j])

-----------------------------------------------------------------------------
(* Two caches, and an entry, in the proofs *)

\* Two caches that differ in some fields only.
Rest(cc, dd, fields) ==
  /\ DOMAIN cc = CacheFields /\ DOMAIN dd = CacheFields
  /\ \A k \in CacheFields \ fields : dd[k] = cc[k]

\* What the set-up of an argument of this type comes to.
Child0(cc, l) == IF l \in DOMAIN cc.args THEN cc.args[l] ELSE Blank
LengthEntry(cc, l, dir, meta) ==
  [Child0(cc, l) EXCEPT !.meta = meta, !.dir = dir, !.from = FALSE, !.to = FALSE]
LengthFirst(dir, l, c) == FromPython(dir) /\ l < c

ArraySetUp(cc, l, dir, c) ==
  LET cc1 == IF FromPython(dir) THEN SetupArrayFromPy(cc, l, dir, c) ELSE cc
  IN  IF ToPython(dir) THEN SetupArrayToPy(cc1, l, dir, c) ELSE cc1

Moves(s, p) == HasLengthArg(s, p) /\ LengthAt(s, p) < p

\* What one more argument, p, makes of the cache cc.
Grown(s, p, cc, new) ==
  /\ DOMAIN new = CacheFields /\ new.ftype = cc.ftype /\ new.n = cc.n
  /\ new.nFrom = IF FromPython(WayOf(s, p)) THEN cc.nFrom + 1 ELSE cc.nFrom
  /\ new.nTo = IF ToPython(WayOf(s, p)) THEN cc.nTo + 1 ELSE cc.nTo
  /\ new.nPy = Below(Shows(s, p + 1), p + 1) /\ new.nToChild = Below(Lengths(s, p + 1), p + 1)
  /\ \A j : j \in DOMAIN new.args <=> j \in DOMAIN cc.args \/ j = p \/ Owns(s, p, j)
  /\ \A j \in DOMAIN new.args : EntryOK(s, p + 1, j, new.args[j])

AfterChild(cc, p, f, e, dir) ==
  [Put(cc, p, f) EXCEPT !.nPy = IF e.meta = "childPy" THEN @ + 1 ELSE @,
                        !.nFrom = IF FromPython(dir) THEN @ + 1 ELSE @,
                        !.nTo = IF ToPython(dir) THEN @ + 1 ELSE @,
                        !.nToChild = IF ToPython(dir) THEN @ + 1 ELSE @]

\* What the set-up of argument p leaves of the cache.
SetUpOK(s, p, cc, dd) ==
  /\ Rest(cc, dd, {"args", "nPy", "nToChild", "toPy"})
  /\ dd.nPy = IF Moves(s, p) /\ FromPython(WayOf(s, p)) THEN cc.nPy - 1 ELSE cc.nPy
  /\ dd.nToChild = IF Moves(s, p) /\ ToPython(WayOf(s, p)) THEN cc.nToChild + 1 ELSE cc.nToChild
  /\ \A j : j \in DOMAIN dd.args <=> j \in DOMAIN cc.args \/ Owns(s, p, j)
  /\ \A j \in DOMAIN dd.args : EntryOK(s, p + 1, j, dd.args[j])

\* The entries when p is dealt with.
ArgsOK(s, p, as) ==
  /\ \A j : j \in DOMAIN as <=> j \in Numbers(s) /\ (j < p \/ Lengthed(s, p, j) \/ Fed(s, p, j) \/ Ended(s, p, j))
  /\ \A j \in DOMAIN as : EntryOK(s, p, j, as[j])

\* The entry of p once its array's length has moved up, and with what CacheArg adds.
Shifted(s, p, e, py) == IF Moves(s, p) /\ FromPython(WayOf(s, p)) THEN [e EXCEPT !.py = py - 1] ELSE e
Named(e, none, caller) == [e EXCEPT !.named = TRUE, !.none = none, !.caller = caller]

\* The caches of CacheArg: before the set-up of the argument, and after it.
Counted(cc, dir) == IF FromPython(dir) THEN [cc EXCEPT !.nFrom = @ + 1, !.nPy = @ + 1] ELSE cc
Listed(cc, dir, p) == IF ToPython(dir) THEN [cc EXCEPT !.nTo = @ + 1, !.toPy = Append(@, p)] ELSE cc

-----------------------------------------------------------------------------
(* The states *)

Building == {"no cache", "return", "args"}
Calling == {"in", "call", "out return", "out args", "done"}

(***************************************************************************)
(* While the arguments are dealt with, the cache is right about those      *)
(* before pos and about what they have said of others; then it is right    *)
(* about all of them.                                                      *)
(***************************************************************************)
Indexed ==
  /\ sig \in Sigs
  /\ pc \in Building \cup {"cached"} \cup Calling
  /\ cache.n = Count(sig) /\ DOMAIN cache.args \subseteq Numbers(sig)
  /\ pos \in 0 .. Count(sig)
  /\ pc = "return" => cache = NewCallable(sig)
  /\ pc = "args" => CacheOK(sig, cache, pos)
  /\ pc \in {"cached"} \cup Calling => CacheOK(sig, cache, Count(sig))

OwnerNames == {"ours", "theirs", "python", "freed", "misfreed"}
LedgerOK(led) == \A b \in DOMAIN led : led[b] \in OwnerNames

Outcomes == {"none", "not called", "bad argument", "call failed", "bad result", "returned"}
Slots ==
  /\ pc \in Building \cup {"cached"} => inArgs = Empty /\ outArgs = Empty /\ args = Empty
  /\ pc \in Calling => /\ DOMAIN inArgs \subseteq 0 .. cache.nFrom - 1
                       /\ DOMAIN outArgs \subseteq 0 .. cache.nTo - 1
                       /\ DOMAIN args \subseteq 0 .. cache.n - 1
  /\ LedgerOK(ledger)
  /\ outcome \in Outcomes

TypeInv == Indexed /\ Slots

-----------------------------------------------------------------------------
(* What has been marshalled is in its slot *)

InSlot(i) == Below(Ins(sig), i)
OutSlot(i) == Below(ToOnes(sig), i)

\* What a C argument has to do with the Python value it was made of.
Fits(e, v, c, i) ==
  /\ e.tag \in IntTags /\ v.py = "int" => c = Num(v.n) /\ InRange(v.n, e.tag)
  /\ c = Null => v.py = "none" \/ (v.items = << >> /\ e.tag \in {"glist", "gslist"})
  /\ c.k \in {"own", "borrowed"} => c.n = i
Carries(i, c) ==
  /\ i \in DOMAIN value /\ i \in DOMAIN source
  /\ cache.args[i].py < Len(bound) /\ source[i] = bound[cache.args[i].py + 1]
  /\ Fits(cache.args[i], value[i], c, i)

\* An argument that has had its turn.
Filled(i) ==
  LET e == cache.args[i]
  IN  /\ e.dir = "from" /\ e.meta = "parent" => Carries(i, inArgs[InSlot(i)])
      /\ e.meta = "closure" => inArgs[InSlot(i)].k = "user data"
      /\ e.dir = "both" => /\ inArgs[InSlot(i)] = Ref(OutSlot(i))
                           /\ e.meta = "parent" => Carries(i, outVals[OutSlot(i)])
      /\ ToPython(e.dir) => outArgs[OutSlot(i)] \in {Ref(OutSlot(i)), [k |-> "own", n |-> i]}
      /\ e.dir = "both" => outArgs[OutSlot(i)] = Ref(OutSlot(i))

\* Its length, which is in the place of an (inout) argument once that has had its turn too.
LengthPut(i) ==
  LET e == cache.args[i]
  IN  e.meta = "parent" /\ FromPython(e.dir) /\ e.tag = "array" /\ e.len >= 0 /\ value[i].py # "none" =>
        (IF e.dir = "both" /\ e.len < pos THEN outVals[OutSlot(e.len)] ELSE inArgs[InSlot(e.len)])
          = Num(LengthOf(value[i]))
ClosureOf(i) == [k |-> "closure", n |-> i]
NoticeOf(e, i) == [k |-> IF NeedsDummy(e) THEN "dummy" ELSE "notify", n |-> i]
CallbackPut(i) ==
  LET e == cache.args[i]
  IN  e.meta = "parent" /\ e.dir = "from" /\ e.tag = "callback" /\ inArgs[InSlot(i)].k = "own" =>
        /\ e.ud > 0 => inArgs[InSlot(e.ud)] = ClosureOf(i)
        /\ e.destroy > 0 => inArgs[InSlot(e.destroy)] = NoticeOf(e, i)

Arriving ==
  pc \in {"in", "call"} =>
    /\ DOMAIN inArgs = 0 .. cache.nFrom - 1 /\ DOMAIN outArgs = 0 .. cache.nTo - 1 /\ DOMAIN outVals = 0 .. cache.nTo - 1
    /\ \A i \in Numbers(sig) : i < pos => Filled(i) /\ LengthPut(i) /\ CallbackPut(i)
    /\ \A j \in Ins(sig) : j >= pos => inArgs[InSlot(j)].k # "ref"
    /\ pc = "call" => pos = cache.n

\* The names the arguments are passed under, and where the values of a call come from.
NamesOK == pc \in {"cached"} \cup Calling =>
  /\ Len(cache.names) = Below(Shows(sig, Count(sig)), Count(sig))
  /\ \A i \in Shows(sig, Count(sig)) : cache.names[Below(Shows(sig, Count(sig)), i) + 1] = i
BoundOK == pc \in {"in", "call"} =>
  /\ Len(bound) <= Len(cache.names)
  /\ \A k \in 1 .. Len(bound) : bound[k] = IF k <= call.n THEN <<"pos", k>> ELSE <<"kw", cache.names[k]>>
\* A callback goes in: no cache is made for another.
CallbacksIn == pc \in {"args", "cached"} \cup Calling =>
  \A i \in ArgsOf(sig) : (pc = "args" => i < pos) /\ ArgOf(sig, i).tag = "callback" => WayOf(sig, i) = "from"

ArriveInv == TypeInv /\ NamesOK /\ CallbacksIn /\ BoundOK /\ Arriving

-----------------------------------------------------------------------------
(* What a marshaller makes of a value *)

\* The Python values are numbers, flags and sequences of items.
ValuesOK == \A e : \A v \in Inputs(e) : v.n \in Int /\ v.items \in Seq(Range(v.items))

\* A C value that says nothing of an integer.
Kept(e, v, r) ==
  /\ r.ok /\ e.tag \in IntTags /\ v.py = "int" => r.c = Num(v.n) /\ InRange(v.n, e.tag)
  /\ r.ok /\ r.c = Null => v.py = "none" \/ (v.items = << >> /\ e.tag \in {"glist", "gslist"})
  /\ r.ok /\ r.c.k \in {"own", "borrowed"} => r.c \in {Own, Borrowed}

Mine(i, l) == i \in ArgsOf(sig) /\ Owns(sig, i, l)

-----------------------------------------------------------------------------
(* What a step leaves alone *)

\* What the step that marshals argument p leaves alone.
Frame(p) ==
  /\ pos' = p + 1 /\ sig' = sig /\ cache' = cache /\ bound' = bound
  /\ DOMAIN inArgs' = DOMAIN inArgs /\ DOMAIN outArgs' = DOMAIN outArgs /\ DOMAIN outVals' = DOMAIN outVals
  /\ \A j \in Ins(sig) : /\ j # p /\ ~Mine(p, j) => inArgs'[InSlot(j)] = inArgs[InSlot(j)]
                         /\ Mine(p, j) /\ j < p /\ cache.args[j].dir = "both" =>
                              inArgs'[InSlot(j)] = inArgs[InSlot(j)]
                         /\ j > p /\ Mine(p, j) =>
                              inArgs'[InSlot(j)] = inArgs[InSlot(j)] \/ inArgs'[InSlot(j)].k # "ref"
  /\ \A j \in ToOnes(sig) : /\ j # p => outArgs'[OutSlot(j)] = outArgs[OutSlot(j)]
                            /\ j # p /\ ~Mine(p, j) => outVals'[OutSlot(j)] = outVals[OutSlot(j)]
  /\ \A i \in DOMAIN value : i # p => i \in DOMAIN value' /\ value'[i] = value[i]
  /\ \A i \in DOMAIN source : i # p => i \in DOMAIN source' /\ source'[i] = source[i]
  /\ cache.args[p].meta \in {"child", "childPy"} =>
       /\ cache.args[p].dir = "from" => inArgs'[InSlot(p)] = inArgs[InSlot(p)]
       /\ cache.args[p].dir = "both" => outVals'[OutSlot(p)] = inArgs[InSlot(p)]

\* What the steps of a call leave alone.
CallOn ==
  /\ pc \in {"cached"} \cup Calling /\ sig' = sig /\ cache' = cache
  /\ pc = "cached" => pc' \in {"in", "done"}
  /\ pc # "cached" /\ pc' \in {"in", "call"} => pc \in {"in", "call"} /\ call' = call /\ bound' = bound
  /\ pc' \in {"cached"} \cup Calling

-----------------------------------------------------------------------------
(* What comes back *)

(***************************************************************************)
(* What comes back: the cache lists, in their order, the arguments whose   *)
(* values are results of their own, as far as it knows the lengths.        *)
(***************************************************************************)
Results(s, p) == {j \in ToOnes(s) : j < p /\ ~Lengthed(s, p, j)}
Listing(q, S) ==
  /\ q \in Seq(Int)
  /\ \A k \in 1 .. Len(q), l \in 1 .. Len(q) : k < l => q[k] < q[l]
  /\ \A k \in 1 .. Len(q) : q[k] \in S
  /\ \A j \in S : \E k \in 1 .. Len(q) : q[k] = j
Structured(s, j) == j \in ArgsOf(s) /\ ArgOf(s, j).tag \in Interfaces \cup {"array"} /\ ArgOf(s, j).caller
Returning(s, e) ==
  /\ e.tag = s.ret.tag /\ e.transfer = s.ret.transfer /\ e.item = s.ret.item /\ e.atype = s.ret.atype
  /\ e.len = IF s.ret.len >= 0 THEN s.ret.len + Offset(s.ftype) ELSE -1
  /\ e.toClean <=> HasToCleanup(s.ret.tag)
  /\ ~e.caller
EndsOK(s, cc, p) ==
  /\ Listing(cc.toPy, Results(s, p))
  /\ \A j \in DOMAIN cc.args : cc.args[j].caller => Structured(s, j)
  /\ Returning(s, cc.ret)
Ends ==
  /\ pc = "args" => EndsOK(sig, cache, pos)
  /\ pc \in {"cached"} \cup Calling => EndsOK(sig, cache, Count(sig))

\* Where the place of an argument is, and that what is put there is known by the argument.
Allocated(i) == cache.args[i].caller /\ cache.args[i].dir = "to"
Seated(i) ==
  ToPython(cache.args[i].dir) =>
    /\ i \in DOMAIN args
    /\ args[i] = Slot(IF Allocated(i) THEN "alloc" ELSE "value", OutSlot(i))
    /\ pc \in {"in", "call"} =>
         outArgs[OutSlot(i)] = IF Allocated(i) THEN [k |-> "own", n |-> i] ELSE Ref(OutSlot(i))
    /\ pc \in {"out return", "out args"} /\ ~Allocated(i) => outVals[OutSlot(i)].of = i
Seats == pc \in {"in", "call", "out return", "out args"} =>
  \A i \in Numbers(sig) : (pc = "in" => i < pos) => Seated(i)

Returned == sig.ret.tag # "void" /\ ~sig.skip
First == IF Returned THEN 1 ELSE 0
OwnLen(a) == IF a.tag = "array" /\ a.len >= 0 THEN a.len + Off ELSE -1
Gained(k) ==
  /\ Len(result) = First + k /\ result \in Seq([of : Int, len : Int])
  /\ Returned => result[1] = [of |-> -1, len |-> OwnLen(sig.ret)]
  /\ \A l \in 1 .. k :
       result[First + l] = [of |-> cache.toPy[l], len |-> OwnLen(SigArg(cache.toPy[l]))]
Gathered ==
  /\ pc \notin {"out args", "done"} => result = None
  /\ pc = "out return" => pos = 0 /\ outVals[-1].of = -1
  /\ pc = "out args" => pos <= NOut /\ Gained(pos)
  /\ outcome = "returned" => pc = "done" /\ Gained(NOut)
ResultInv == ArriveInv /\ Ends /\ Seats /\ Gathered

SoundEntry(s, j, e) == DOMAIN e = DOMAIN Blank /\ (e.caller => Structured(s, j))
Sound(s, cc) == DOMAIN cc = CacheFields /\ \A j \in DOMAIN cc.args : SoundEntry(s, j, cc.args[j])
Same(cc, dd) == dd.toPy = cc.toPy /\ dd.ret = cc.ret

Where(i) == IF SigArg(i).dir = "out" THEN CalleeOut(i) ELSE CalleeIn(i)

\* What a call may do: the function returns, sets its GError or is not run.
Courses == {"returns", "throws", "not run"}

Gathering == {"out return", "out args"}

-----------------------------------------------------------------------------
(* The ledger *)

(***************************************************************************)
(* What an argument holds, until the callee has it.                        *)
(***************************************************************************)
HoldsSelf(tag, transfer) == tag \in Copies \/ (tag \in {"object", "boxed"} /\ transfer = "everything")
HoldsItem(e, v, part) == e.tag \in Containers /\ part \in DOMAIN v.items /\ HoldsSelf(e.item, ItemTransfer(e.transfer))
Holds(e, v, part) ==
  /\ v.py # "none"
  /\ \/ part = Data /\ (e.tag \in Containers \cup {"callback"} \/ HoldsSelf(e.tag, e.transfer))
     \/ HoldsItem(e, v, part)
  /\ e.tag \in {"glist", "gslist"} => v.items # << >>
  /\ e.tag = "array" => FixedSizeOk(e, v)
Held(i, part) ==
  LET e == cache.args[i]
  IN  /\ i \in ArgsOf(sig) /\ i < pos /\ e.meta = "parent" /\ FromPython(e.dir)
      /\ i \in DOMAIN value /\ value[i] \in Inputs(e) /\ Holds(e, value[i], part)
      /\ e.dir = "from" => i \in DOMAIN args /\ args[i] = Slot("in", InSlot(i))
Taken ==
  /\ pc \in Building \cup {"cached"} => DOMAIN ledger = {} /\ argsData = {}
  /\ pc \in {"in", "call"} =>
       /\ \A b \in DOMAIN ledger :
            /\ ledger[b] = "ours"
            /\ \/ b[1] = "in" /\ Held(b[2], b[3])
               \/ b[1] = "out" /\ b[3] = Data /\ b[2] \in ArgsOf(sig) /\ b[2] < pos /\ Allocated(b[2])
       /\ \A i \in argsData : cache.args[i].dir = "both" => StaysOurs(cache.args[i])
       /\ \A b \in DOMAIN ledger : b[1] = "in" /\ StaysOurs(cache.args[b[2]]) => b[2] \in argsData

(***************************************************************************)
(* What the callee has given back, until it is marshalled.                 *)
(***************************************************************************)
Out(i) == IF i = -1 THEN outVals[-1] ELSE outVals[OutSlot(i)]
Offered(i, part) ==
  IF i # -1 /\ Allocated(i) THEN part = Data ELSE part \in Parts(ArgOf(sig, i), Out(i))
Share(i, part) == IF i # -1 /\ Allocated(i) THEN "ours" ELSE Gives(ArgOf(sig, i), part)
Unread(i) == pc = "out return" \/ \E l \in 1 .. Len(cache.toPy) : l > pos /\ cache.toPy[l] = i
Formed(a, cv) == {"k", "n"} \subseteq DOMAIN cv /\ cv.n \in Int /\ cv.items \in Nat /\ Convertible(a, cv)
Yielded ==
  pc \in Gathering =>
    /\ \A b \in DOMAIN ledger :
         b[1] = "out" /\ b[3] # Place =>
           /\ b[2] \in ArgsOf(sig) \cup {-1} /\ ToPython(WayOf(sig, b[2]))
           /\ Offered(b[2], b[3])
           /\ Unread(b[2]) => ledger[b] = Share(b[2], b[3])
    /\ \A i \in ArgsOf(sig) \cup {-1} :
         ToPython(WayOf(sig, i)) /\ ~(i # -1 /\ Allocated(i)) => Formed(ArgOf(sig, i), Out(i))

Reclaimed(i, part) ==
  LET e == IF i = -1 THEN cache.ret ELSE cache.args[i]
  IN  IF e.toClean THEN ToPyFrees(e, part, TRUE) ELSE e.caller /\ CallerFrees(e, TRUE)
NoMisfree ==
  /\ \A b \in DOMAIN ledger : ledger[b] # "misfreed"
  /\ pc \in Gathering =>
       \A b \in DOMAIN ledger :
         b[1] = "out" /\ b[3] # Place /\ b[2] \in Range(cache.toPy) \cup {-1} /\ Reclaimed(b[2], b[3]) =>
           ledger[b] = "ours"

-----------------------------------------------------------------------------
(* What the marshallers take, free and leave *)

\* What is no container and no callback takes itself or nothing.
Single(e, v, r) ==
  /\ r.took \subseteq {Data} /\ ~r.data
  /\ r.took # {} => r.ok /\ v.py # "none" /\ HoldsSelf(e.tag, e.transfer)

\* What a container takes, it takes with the items that hold something; it is recorded if it stays ours.
Whole(e, v, r) ==
  /\ r.took # {} => r.ok
  /\ \A part \in r.took : Holds(e, v, part)
  /\ r.data => e.tag = "callback" \/ StaysOurs(e)
  /\ r.took # {} /\ StaysOurs(e) => r.data

\* What a marshaller does with a value: it frees what was given away, once, and neither that
\* nor what a wrapper takes over is freed after it.
Clean(e, r) ==
  /\ r.again = {} /\ Place \notin r.frees
  /\ r.frees # {} => e.transfer = "everything"
  /\ r.ok => \A part \in r.steals \cup r.frees : ~ToPyFrees(e, part, TRUE) /\ e.tag # "gvalue"

LedgerInv == ResultInv /\ Taken /\ Yielded /\ NoMisfree

\* What is ours after the call has a value to come, or is cleaned up at the end.
Release ==
  /\ pc \in Gathering =>
       \A b \in DOMAIN ledger :
         ledger[b] = "ours" =>
           /\ b[1] = "out" /\ b[3] # Place
           /\ Unread(b[2]) \/ (b[2] \in Range(cache.toPy) \cup {-1} /\ Reclaimed(b[2], b[3]))
  /\ outcome = "returned" => pc = "done" /\ \A b \in DOMAIN ledger : ledger[b] # "ours"
ReleaseInv == LedgerInv /\ Release

\* What a failed argument leaves behind.
Recovery == outcome = "bad argument" => pc = "done" /\ FailureReleases
FailureInv == ResultInv /\ Taken /\ Recovery
=============================================================================
