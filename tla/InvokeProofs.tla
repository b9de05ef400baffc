---------------------------- MODULE InvokeProofs ----------------------------
(***************************************************************************)
(* Machine-checked facts about Invoke, for callables with any number of    *)
(* arguments, any values and any sequence of calls: no array of slots is   *)
(* exceeded, every argument is where the callee looks for it, what nobody  *)
(* passes is filled in for the right argument, what comes back is          *)
(* complete, nothing is freed that is not the caller's, and nothing of the *)
(* caller's is left.  The hypothesis is that the callables are Regular.    *)
(***************************************************************************)
EXTENDS CallableCacheProofs

-----------------------------------------------------------------------------
(* Marshalling *)

LEMMA ResultIs ==
  /\ \A c, took : Done(c, took).length = -1 /\ Done(c, took).ok
  /\ \A left : Fails(left).length = -1 /\ ~Fails(left).ok
  /\ \A ok, r : FailsUnless(ok, r) = r \/ \E left : FailsUnless(ok, r) = Fails(left)
BY DEF Done, Fails, FailsUnless

\* Only an array finds a length, and only if there is an argument for it.
LEMMA ScalarLength ==
  ASSUME NEW e, NEW v
  PROVE  ScalarFromPy(e, v).length = -1
<1>1. \A ok, c, took : FailsUnless(ok, Done(c, took)).length = -1
  BY DEF Done, Fails, FailsUnless
<1>2. \A tag : SmallIntFromPy(tag, v).length = -1 /\ IntFromPy(tag, v).length = -1 /\ WideIntFromPy(tag, v).length = -1
  <2>1. ASSUME NEW tag PROVE SmallIntFromPy(tag, v).length = -1
    <3>1. CASE v.py = "bytes"
      BY <3>1 DEF SmallIntFromPy, FailsUnless, Done, Fails
    <3>2. CASE v.py # "bytes"
      BY <1>1, <3>2, Zenon DEF SmallIntFromPy
    <3> QED BY <3>1, <3>2
  <2>2. ASSUME NEW tag PROVE IntFromPy(tag, v).length = -1
    BY <1>1, Zenon DEF IntFromPy
  <2>3. ASSUME NEW tag PROVE WideIntFromPy(tag, v).length = -1
    BY <1>1, Zenon DEF WideIntFromPy
  <2> QED BY <2>1, <2>2, <2>3
<1>3. \A tag : FloatFromPy(tag, v).length = -1
  BY <1>1, Zenon DEF FloatFromPy
<1>4. TruthFromPy(v).length = -1 /\ VoidFromPy.length = -1 /\ ErrorFromPy.length = -1
  BY DEF TruthFromPy, VoidFromPy, ErrorFromPy, Done, Fails
<1>5. /\ UnicharFromPy(v).length = -1 /\ GTypeFromPy(v).length = -1 /\ FilenameFromPy(v).length = -1
      /\ EnumFromPy(v).length = -1 /\ FlagsFromPy(v).length = -1 /\ GValueFromPy(v).length = -1
      /\ InstanceFromPy(v).length = -1
  <2>1. UnicharFromPy(v).length = -1
    BY <1>1, Zenon DEF UnicharFromPy
  <2>2. GTypeFromPy(v).length = -1
    BY DEF GTypeFromPy, FailsUnless, Done, Fails
  <2>3. FilenameFromPy(v).length = -1
    BY DEF FilenameFromPy, FailsUnless, Done, Fails
  <2>4. EnumFromPy(v).length = -1
    BY <1>1, Zenon DEF EnumFromPy
  <2>5. FlagsFromPy(v).length = -1
    BY <1>1, Zenon DEF FlagsFromPy
  <2>6. GValueFromPy(v).length = -1
    BY <1>1, Zenon DEF GValueFromPy
  <2>7. InstanceFromPy(v).length = -1
    BY <1>1, Zenon DEF InstanceFromPy
  <2> QED BY <2>1, <2>2, <2>3, <2>4, <2>5, <2>6, <2>7
<1>6. Utf8FromPy(v).length = -1
  BY <1>1, ResultIs DEF Utf8FromPy
<1>7. \A t : GObjectFromPy(v, t).length = -1
  BY <1>1, ResultIs DEF GObjectFromPy
<1>8. ObjectFromPy(e, v).length = -1
  BY <1>7, ResultIs DEF ObjectFromPy
<1>9. StructFromPy(e, v).length = -1
  <2>1. FailsUnless(v.py = "boxed", IF e.transfer = "everything" THEN Done(Own, {Data}) ELSE Done(Borrowed, {})).length = -1
    BY <1>1
  <2> QED BY <1>1, <1>5, <2>1, ResultIs DEF StructFromPy
<1> HIDE DEF SmallIntFromPy
<1> QED BY <1>2, <1>3, <1>4, <1>5, <1>6, <1>8, <1>9 DEF ScalarFromPy

LEMMA LengthFound ==
  ASSUME NEW e, NEW v, NEW lengthTag, NEW userData
  PROVE  \/ FromPyMarshal(e, v, lengthTag, userData).length = -1
         \/ e.tag = "array" /\ e.len >= 0
<1>1. CASE e.tag = "array" /\ ~(e.len >= 0)
  <2> DEFINE whole(took) == [Done(Own, took) EXCEPT !.length = IF e.len >= 0 THEN LengthOf(v) ELSE -1,
                                                    !.data = e.atype = "C" /\ e.transfer = "nothing"]
  <2>1. \A took : whole(took).length = -1
    BY <1>1 DEF Done
  <2>2. \A ok, took : FailsUnless(ok, whole(took)).length = -1
    BY <2>1, ResultIs DEF FailsUnless
  <2>3. ArrayFromPy(e, v, lengthTag).length = -1
    <3> HIDE DEF whole
    <3> QED BY <2>1, <2>2, ResultIs DEF ArrayFromPy, whole
  <2> QED BY <1>1, <2>3 DEF FromPyMarshal
<1>2. CASE e.tag \in {"glist", "gslist"}
  BY <1>2, ResultIs DEF FromPyMarshal, ListFromPy
<1>3. CASE e.tag = "ghash"
  BY <1>3, ResultIs DEF FromPyMarshal, HashFromPy
<1>4. CASE e.tag = "callback"
  <2>1. [Done(Own, {Data}) EXCEPT !.data = TRUE].length = -1
    BY DEF Done
  <2> QED BY <1>4, <2>1, ResultIs DEF FromPyMarshal, CallbackFromPy, FailsUnless
<1>5. CASE e.tag \notin {"array", "glist", "gslist", "ghash", "callback"}
  BY <1>5, ScalarLength DEF FromPyMarshal
<1> QED BY <1>1, <1>2, <1>3, <1>4, <1>5

-----------------------------------------------------------------------------
(* The ledger *)

LEMMA LedgerRange ==
  ASSUME NEW led
  PROVE  LedgerOK(led) <=> Range(led) \subseteq OwnerNames
BY DEF LedgerOK, Range

LEMMA LedgerOver ==
  ASSUME NEW f, NEW g, LedgerOK(f), LedgerOK(g)
  PROVE  LedgerOK(f ++ g)
BY DEF LedgerOK, ++

LEMMA LedgerBlocks ==
  ASSUME NEW side, NEW i, NEW parts
  PROVE  LedgerOK(Blocks(side, i, parts, "ours"))
BY DEF LedgerOK, Blocks, OwnerNames

LEMMA FreeIs ==
  ASSUME NEW owner
  PROVE  Free(owner) \in OwnerNames
BY DEF Free, OwnerNames

LEMMA LedgerFail ==
  ASSUME NEW led, LedgerOK(led), NEW i
  PROVE  LedgerOK(ParameterFail(led, i))
BY FreeIs DEF LedgerOK, ParameterFail

LEMMA LedgerSuccess ==
  ASSUME NEW led, LedgerOK(led)
  PROVE  LedgerOK(MarshalSuccess(led)) /\ LedgerOK(ToSuccess(led))
<1>1. LedgerOK(MarshalSuccess(led))
  BY FreeIs DEF LedgerOK, MarshalSuccess
<1>2. LedgerOK(ToSuccess(led))
  BY FreeIs DEF LedgerOK, ToSuccess
<1> QED BY <1>1, <1>2

LEMMA LedgerHandOver ==
  ASSUME NEW led, LedgerOK(led)
  PROVE  LedgerOK(HandOver(led))
BY DEF LedgerOK, HandOver, OwnerNames

LEMMA LedgerMarshal ==
  ASSUME NEW i, NEW r, Marshal(i, r), LedgerOK(ledger)
  PROVE  LedgerOK(ledger')
<1>1. \A b \in DOMAIN ledger : ledger[b] \in OwnerNames
  BY DEF LedgerOK
<1>2. DOMAIN ledger' = DOMAIN ledger
  BY DEF Marshal
<1>3. ASSUME NEW b \in DOMAIN ledger
      PROVE  ledger'[b] \in OwnerNames
  BY <1>1, FreeIs DEF Marshal, OwnerNames
<1> QED BY <1>2, <1>3 DEF LedgerOK

LEMMA LedgerGiven ==
  ASSUME NEW a, NEW i, NEW cv
  PROVE  LedgerOK(Given(a, i, cv)) /\ \A b \in DOMAIN Given(a, i, cv) : b[2] = i
<1>1. \A part : Gives(a, part) \in OwnerNames
  BY DEF Gives, OwnerNames
<1> QED BY <1>1 DEF LedgerOK, Given, Block

-----------------------------------------------------------------------------
(* No slot beyond those that the cache has counted *)

LEMMA Slotted ==
  ASSUME TypeInv
  PROVE  TypeOK
<1>1. Regular(sig) /\ cache.n = Count(sig) /\ DOMAIN cache.args \subseteq 0 .. cache.n - 1
  BY SigsAssumption DEF TypeInv, Indexed, Numbers
<1>2. /\ DOMAIN inArgs \subseteq 0 .. cache.nFrom - 1 /\ DOMAIN outArgs \subseteq 0 .. cache.nTo - 1
      /\ DOMAIN args \subseteq 0 .. cache.n - 1
  BY DEF TypeInv, Slots, Indexed, Empty
<1>3. Range(ledger) \subseteq OwnerNames
  BY LedgerRange DEF TypeInv, Slots
<1> QED BY <1>1, <1>2, <1>3 DEF TypeOK, TypeInv, Indexed, Slots, Building, Calling, Outcomes, OwnerNames

LEMMA InitTypes ==
  ASSUME Init
  PROVE  TypeInv
<1>1. sig \in Sigs /\ cache = NewCallable(sig) /\ pc = "no cache" /\ pos = 0
  BY DEF Init, InitCache
<1>2. Indexed
  BY <1>1, NewIndexed DEF Indexed, Building, Calling
<1>3. Slots
  BY <1>1 DEF Init, Slots, Building, Calling, LedgerOK, Empty, Outcomes
<1> QED BY <1>2, <1>3 DEF TypeInv

LEMMA CacheTypes ==
  ASSUME TypeInv, CacheNext, UNCHANGED <<callvars, invars, outvars, args, ledger, endvars>>
  PROVE  TypeInv'
<1>1. Indexed'
  BY CacheNextIndexed DEF TypeInv
<1>2. pc \in Building /\ pc' \in Building \cup {"cached"}
  BY DEF CacheNext, CacheNew, CacheReturn, CacheClosure, CacheChild, CacheArg, CacheDone, Building
<1>3. inArgs' = inArgs /\ outArgs' = outArgs /\ args' = args /\ ledger' = ledger /\ outcome' = outcome
  BY DEF invars, outvars, endvars
<1>4. Slots'
  BY <1>2, <1>3 DEF TypeInv, Slots, Building, Calling, LedgerOK
<1> QED BY <1>1, <1>4 DEF TypeInv

\* What Slots asks of a step of a call.
LEMMA StepTypes ==
  ASSUME TypeInv, pc \in {"cached"} \cup Calling, pc' \in Calling, UNCHANGED <<sig, cache>>, pos' \in 0 .. cache.n,
         DOMAIN inArgs' \subseteq 0 .. cache.nFrom - 1, DOMAIN outArgs' \subseteq 0 .. cache.nTo - 1,
         DOMAIN args' \subseteq 0 .. cache.n - 1, LedgerOK(ledger'), outcome' \in Outcomes
  PROVE  TypeInv'
<1>1. Indexed'
  BY CallIndexed DEF TypeInv, Indexed
<1>2. Slots'
  BY DEF Slots, Building, Calling, LedgerOK
<1> QED BY <1>1, <1>2 DEF TypeInv

\* What holds while a call goes on.
LEMMA During ==
  ASSUME TypeInv, pc \in {"cached"} \cup Calling
  PROVE  /\ Regular(sig) /\ CacheOK(sig, cache, Count(sig)) /\ cache.n = Count(sig) /\ cache.n \in Nat
         /\ pos \in 0 .. cache.n /\ cache.nFrom \in Nat /\ cache.nTo \in Nat
         /\ DOMAIN inArgs \subseteq 0 .. cache.nFrom - 1 /\ DOMAIN outArgs \subseteq 0 .. cache.nTo - 1
         /\ DOMAIN args \subseteq 0 .. cache.n - 1
         /\ LedgerOK(ledger) /\ outcome \in Outcomes
<1>1. Regular(sig) /\ CacheOK(sig, cache, Count(sig)) /\ cache.n = Count(sig) /\ pos \in 0 .. Count(sig)
  BY SigsAssumption DEF TypeInv, Indexed
<1>2. cache.n \in Nat /\ cache.nFrom \in Nat /\ cache.nTo \in Nat
  BY <1>1, Ready
<1>3. /\ DOMAIN inArgs \subseteq 0 .. cache.nFrom - 1 /\ DOMAIN outArgs \subseteq 0 .. cache.nTo - 1
      /\ DOMAIN args \subseteq 0 .. cache.n - 1
  BY DEF TypeInv, Slots, Empty
<1> QED BY <1>1, <1>2, <1>3 DEF TypeInv, Slots

LEMMA CallTypes ==
  ASSUME TypeInv, NEW c, NEW first, Call(c, first)
  PROVE  TypeInv'
<1>1. pc = "cached" /\ pos' = 0 /\ UNCHANGED <<sig, cache>> /\ args' = args /\ ledger' = ledger
  BY DEF Call
<1>2. \/ /\ pc' = "in" /\ outcome' = outcome
         /\ inArgs' = [k \in 0 .. cache.nFrom - 1 |-> Null] /\ outArgs' = [k \in 0 .. cache.nTo - 1 |-> Null]
      \/ pc' = "done" /\ outcome' = "not called" /\ inArgs' = inArgs /\ outArgs' = outArgs
  BY DEF Call
<1>3. /\ pc' \in Calling /\ outcome' \in Outcomes
      /\ DOMAIN inArgs' \subseteq 0 .. cache.nFrom - 1 /\ DOMAIN outArgs' \subseteq 0 .. cache.nTo - 1
  BY <1>1, <1>2, During DEF Calling, Outcomes
<1>4. pos' \in 0 .. cache.n
  BY <1>1, During
<1> QED BY <1>1, <1>3, <1>4, During, StepTypes

\* The slots of argument i, in the code's counts and in those of the introspection data.
LEMMA SlotOf ==
  ASSUME Regular(sig), CacheOK(sig, cache, Count(sig)), NEW i \in 0 .. cache.n - 1
  PROVE  /\ i \in Numbers(sig) /\ i + 1 \in 0 .. cache.n /\ cache.args[i].dir = WayOf(sig, i)
         /\ InCount(i) = Below(Ins(sig), i) /\ OutCount(i) = Below(ToOnes(sig), i)
         /\ FromPython(cache.args[i].dir) <=> i \in Ins(sig)
         /\ ToPython(cache.args[i].dir) <=> i \in ToOnes(sig)
         /\ FromPython(cache.args[i].dir) => InCount(i) \in 0 .. cache.nFrom - 1
         /\ ToPython(cache.args[i].dir) => OutCount(i) \in 0 .. cache.nTo - 1
<1>1. /\ cache.n = Count(sig) /\ Count(sig) \in Nat /\ Numbers(sig) = 0 .. cache.n - 1
      /\ \A j \in Numbers(sig) : cache.args[j].dir = WayOf(sig, j)
  BY Ready
<1>2. i \in Numbers(sig) /\ i + 1 \in 0 .. cache.n /\ 0 .. i - 1 \subseteq Numbers(sig)
  BY <1>1
<1>3. \A j \in Numbers(sig) : /\ FromPython(cache.args[j].dir) <=> j \in Ins(sig)
                              /\ ToPython(cache.args[j].dir) <=> j \in ToOnes(sig)
  BY <1>1 DEF Ins, ToOnes
<1>4. InCount(i) = Below(Ins(sig), i)
  <2>1. {j \in 0 .. i - 1 : FromPython(cache.args[j].dir)} = {j \in 0 .. i - 1 : j \in Ins(sig)}
    BY <1>2, <1>3
  <2> QED BY <2>1 DEF InCount, Before, Below
<1>5. OutCount(i) = Below(ToOnes(sig), i)
  <2>1. {j \in 0 .. i - 1 : ToPython(cache.args[j].dir)} = {j \in 0 .. i - 1 : j \in ToOnes(sig)}
    BY <1>2, <1>3
  <2> QED BY <2>1 DEF OutCount, Before, Below
<1>6. /\ i \in Ins(sig) => Below(Ins(sig), i) \in 0 .. cache.nFrom - 1
      /\ i \in ToOnes(sig) => Below(ToOnes(sig), i) \in 0 .. cache.nTo - 1
  BY <1>2, SlotBounds
<1> QED BY <1>1, <1>2, <1>3, <1>4, <1>5, <1>6

LEMMA StepIs ==
  ASSUME pc = "in", Step
  PROVE  pc' \in {"in", "call"} /\ pc' \in Calling /\ pos' = pos + 1 /\ (pc' = "call" <=> pos + 1 = cache.n)
BY DEF Step, Calling

\* A marshaller writes into the slots of its own children only.
LEMMA ChildWritesIn ==
  ASSUME Regular(sig), CacheOK(sig, cache, Count(sig)), NEW i \in Numbers(sig), NEW e, e = cache.args[i],
         e.meta = "parent", FromPython(e.dir), NEW r, r.length = -1 \/ (e.tag = "array" /\ e.len >= 0)
  PROVE  \A k \in DOMAIN ChildWrites(e, i, r) :
           \E l \in Ins(sig) : Owns(sig, i, l) /\ l # i /\ k = Below(Ins(sig), l) /\ k \in 0 .. cache.nFrom - 1
<1> DEFINE Good(k) == \E l \in Ins(sig) : /\ Owns(sig, i, l) /\ l # i /\ k = Below(Ins(sig), l)
                                          /\ k \in 0 .. cache.nFrom - 1
<1>1. e.tag \in {"array", "callback"} => i \in ArgsOf(sig)
  BY Parents
<1>2. ASSUME i \in ArgsOf(sig), NEW l, Owns(sig, i, l)
      PROVE  Good(cache.args[l].c)
  <2>1. l \in Numbers(sig) /\ l # i /\ (l \in Ins(sig) => cache.args[l].c = Below(Ins(sig), l))
    BY <1>2, ChildSlot
  <2>2. l \in Ins(sig)
    <3>1. WayOf(sig, l) = WayOf(sig, i) \/ WayOf(sig, l) = "from"
      BY <1>2, Owners DEF Owns, LengthRegular, BehindRegular
    <3>2. FromPython(WayOf(sig, i))
      BY Ready
    <3> QED BY <2>1, <3>1, <3>2 DEF Ins, FromPython
  <2> QED BY <1>2, <2>1, <2>2, SlotBounds
<1>3. r.length >= 0 => Good(cache.args[e.len].c)
  BY <1>1, <1>2, Parents
<1>4. e.tag = "callback" /\ e.ud > 0 => Good(cache.args[e.ud].c)
  <2>1. e.tag = "callback" /\ e.ud > 0 => e.ud >= 0
    <3>1. e.tag = "callback" => e.ud \in Int
      BY <1>1, Parents, Owners, Ways DEF Described
    <3> QED BY <3>1
  <2> QED BY <1>1, <1>2, <2>1, Parents
<1>5. e.tag = "callback" /\ e.destroy > 0 => Good(cache.args[e.destroy].c)
  <2>1. e.tag = "callback" /\ e.destroy > 0 => e.destroy >= 0
    <3>1. e.tag = "callback" => e.destroy \in Int
      BY <1>1, Parents, Owners, Ways DEF Described
    <3> QED BY <3>1
  <2> QED BY <1>1, <1>2, <2>1, Parents
<1> HIDE DEF Good
<1>8. ASSUME NEW k \in DOMAIN ChildWrites(e, i, r)
      PROVE  Good(k)
  <2>1. \/ r.length >= 0 /\ k = cache.args[e.len].c
        \/ e.tag = "callback" /\ e.ud > 0 /\ k = cache.args[e.ud].c
        \/ e.tag = "callback" /\ e.destroy > 0 /\ k = cache.args[e.destroy].c
    <3> DEFINE length == IF r.length >= 0 THEN Only(cache.args[e.len].c, Num(r.length)) ELSE Empty
               userData == IF e.tag = "callback" /\ r.c = Own /\ e.ud > 0
                           THEN Only(cache.args[e.ud].c, [k |-> "closure", n |-> i]) ELSE Empty
               destroy == IF e.tag = "callback" /\ r.c = Own /\ e.destroy > 0
                          THEN Only(cache.args[e.destroy].c,
                                    [k |-> IF NeedsDummy(e) THEN "dummy" ELSE "notify", n |-> i])
                          ELSE Empty
    <3>1. ChildWrites(e, i, r) = length ++ userData ++ destroy
      BY DEF ChildWrites
    <3>2. k \in DOMAIN length => r.length >= 0 /\ k = cache.args[e.len].c
      <4>1. CASE r.length >= 0
        BY <4>1 DEF Only
      <4>2. CASE ~(r.length >= 0)
        BY <4>2 DEF Empty
      <4> QED BY <4>1, <4>2
    <3>3. k \in DOMAIN userData => e.tag = "callback" /\ e.ud > 0 /\ k = cache.args[e.ud].c
      <4>1. CASE e.tag = "callback" /\ r.c = Own /\ e.ud > 0
        BY <4>1 DEF Only
      <4>2. CASE ~(e.tag = "callback" /\ r.c = Own /\ e.ud > 0)
        BY <4>2 DEF Empty
      <4> QED BY <4>1, <4>2
    <3>4. k \in DOMAIN destroy => e.tag = "callback" /\ e.destroy > 0 /\ k = cache.args[e.destroy].c
      <4>1. CASE e.tag = "callback" /\ r.c = Own /\ e.destroy > 0
        BY <4>1 DEF Only
      <4>2. CASE ~(e.tag = "callback" /\ r.c = Own /\ e.destroy > 0)
        BY <4>2 DEF Empty
      <4> QED BY <4>1, <4>2
    <3> HIDE DEF length, userData, destroy
    <3>5. k \in DOMAIN length \/ k \in DOMAIN userData \/ k \in DOMAIN destroy
      <4>1. DOMAIN (length ++ userData ++ destroy) = DOMAIN (length ++ userData) \cup DOMAIN destroy
        BY Over
      <4>2. DOMAIN (length ++ userData) = DOMAIN length \cup DOMAIN userData
        BY Over
      <4> QED BY <1>8, <3>1, <4>1, <4>2
    <3> QED BY <3>2, <3>3, <3>4, <3>5
  <2> QED BY <1>3, <1>4, <1>5, <2>1
<1> QED BY <1>8 DEF Good

LEMMA FailTypes ==
  ASSUME TypeInv, pc = "in", NEW left, FailAt(left), UNCHANGED <<sig, cache>>
  PROVE  TypeInv'
<1>1. /\ pc' = "done" /\ outcome' = "bad argument" /\ pos' = pos
      /\ ledger' = ParameterFail(Blocks("in", pos, left, "ours") ++ ledger, pos)
      /\ inArgs' = inArgs /\ outArgs' = outArgs /\ args' = args
  BY DEF FailAt, invars, outvars
<1>2. pc \in {"cached"} \cup Calling /\ pc' \in Calling /\ outcome' \in Outcomes
  BY <1>1 DEF Calling, Outcomes
<1>3. LedgerOK(ledger')
  <2>1. LedgerOK(Blocks("in", pos, left, "ours") ++ ledger)
    BY <1>2, During, LedgerBlocks, LedgerOver
  <2> QED BY <1>1, <2>1, LedgerFail
<1>4. pos' \in 0 .. cache.n
  BY <1>1, <1>2, During
<1>5. /\ DOMAIN inArgs' \subseteq 0 .. cache.nFrom - 1 /\ DOMAIN outArgs' \subseteq 0 .. cache.nTo - 1
      /\ DOMAIN args' \subseteq 0 .. cache.n - 1
  BY <1>1, <1>2, During
<1> QED BY <1>2, <1>3, <1>4, <1>5, StepTypes

\* An argument that could be marshalled: the next one, or the call.
LEMMA StepOn ==
  ASSUME TypeInv, pc = "in", pos < cache.n, Step, UNCHANGED <<sig, cache>>, outcome' = outcome,
         NEW slot, args' = Only(pos, slot) ++ args,
         DOMAIN inArgs' \subseteq 0 .. cache.nFrom - 1, DOMAIN outArgs' \subseteq 0 .. cache.nTo - 1, LedgerOK(ledger')
  PROVE  TypeInv'
<1>1. pc \in {"cached"} \cup Calling
  BY DEF Calling
<1>2. pc' \in Calling /\ pos' = pos + 1
  BY StepIs
<1>3. pos \in 0 .. cache.n - 1 /\ pos' \in 0 .. cache.n /\ DOMAIN args \subseteq 0 .. cache.n - 1 /\ outcome' \in Outcomes
  BY <1>1, <1>2, During
<1>4. DOMAIN args' \subseteq 0 .. cache.n - 1
  <2>1. DOMAIN args' = {pos} \cup DOMAIN args
    BY DEF Only, ++
  <2> QED BY <1>3, <2>1
<1> QED BY <1>1, <1>2, <1>3, <1>4, StepTypes

LEMMA NothingTypes ==
  ASSUME TypeInv, MarshalNothing
  PROVE  TypeInv'
<1> DEFINE slot == Slot("in", InCount(pos))
<1>1. /\ pc = "in" /\ pos < cache.n /\ Step /\ args' = Only(pos, slot) ++ args
      /\ UNCHANGED <<sig, cache>> /\ outcome' = outcome /\ outArgs' = outArgs /\ ledger' = ledger
      /\ inArgs' = IF cache.args[pos].meta = "closure"
                   THEN [inArgs EXCEPT ![slot.k] = [k |-> "user data", n |-> 0]] ELSE inArgs
  BY DEF MarshalNothing, outvars, endvars
<1> HIDE DEF slot
<1>2. pc \in {"cached"} \cup Calling
  BY <1>1 DEF Calling
<1>3. DOMAIN inArgs' = DOMAIN inArgs
  <2>1. CASE cache.args[pos].meta = "closure"
    BY <1>1, <2>1
  <2>2. CASE cache.args[pos].meta # "closure"
    BY <1>1, <2>2
  <2> QED BY <2>1, <2>2
<1>4. DOMAIN inArgs' \subseteq 0 .. cache.nFrom - 1 /\ DOMAIN outArgs' \subseteq 0 .. cache.nTo - 1 /\ LedgerOK(ledger')
  BY <1>1, <1>2, <1>3, During
<1> QED BY <1>1, <1>4, StepOn

LEMMA MarshalledLength ==
  ASSUME NEW e, NEW v, NEW ud
  PROVE  Marshalled(e, v, ud).length = -1 \/ (e.tag = "array" /\ e.len >= 0)
<1>1. CASE v.py = "none" /\ ~e.none
  BY <1>1, ResultIs DEF Marshalled
<1>2. CASE ~(v.py = "none" /\ ~e.none)
  BY <1>2, LengthFound DEF Marshalled
<1> QED BY <1>1, <1>2

LEMMA InTypes ==
  ASSUME TypeInv, NEW v, NEW ud, MarshalIn(v, ud)
  PROVE  TypeInv'
<1> DEFINE e == cache.args[pos]
           slot == Slot("in", InCount(pos))
           r == IF e.py < Len(bound) THEN Marshalled(e, v, UserData(e, ud)) ELSE Fails({})
<1>1. pc = "in" /\ pos < cache.n /\ e.dir = "from" /\ e.meta = "parent" /\ UNCHANGED <<sig, cache>>
  BY DEF MarshalIn
<1>2. ~r.ok => FailAt(r.left)
  BY DEF MarshalIn
<1>3. r.ok => /\ args' = Only(pos, slot) ++ args
              /\ inArgs' = Only(slot.k, Owned(r.c)) ++ ChildWrites(e, pos, r) ++ inArgs
              /\ ledger' = TookBlocks(pos, r) /\ Step /\ outArgs' = outArgs /\ outcome' = outcome
  BY DEF MarshalIn, outvars, endvars
<1>4. r.length = -1 \/ (e.tag = "array" /\ e.len >= 0)
  <2>1. CASE e.py < Len(bound)
    BY <2>1, MarshalledLength
  <2>2. CASE ~(e.py < Len(bound))
    BY <2>2, ResultIs
  <2> QED BY <2>1, <2>2
<1> HIDE DEF r
<1>5. CASE ~r.ok
  BY <1>1, <1>2, <1>5, FailTypes
<1>6. CASE r.ok
  <2>1. pc \in {"cached"} \cup Calling
    BY <1>1 DEF Calling
  <2>2. /\ Regular(sig) /\ CacheOK(sig, cache, Count(sig)) /\ pos \in 0 .. cache.n - 1
        /\ DOMAIN inArgs \subseteq 0 .. cache.nFrom - 1 /\ DOMAIN outArgs \subseteq 0 .. cache.nTo - 1 /\ LedgerOK(ledger)
    BY <1>1, <2>1, During
  <2>3. FromPython(e.dir)
    BY <1>1 DEF FromPython
  <2>4. slot.k \in 0 .. cache.nFrom - 1
    <3>1. InCount(pos) \in 0 .. cache.nFrom - 1
      BY <2>2, <2>3, SlotOf
    <3> QED BY <3>1 DEF Slot
  <2>5. DOMAIN ChildWrites(e, pos, r) \subseteq 0 .. cache.nFrom - 1
    <3>1. pos \in Numbers(sig)
      BY <2>2, SlotOf
    <3> QED BY <1>1, <1>4, <2>2, <2>3, <3>1, ChildWritesIn
  <2>6. DOMAIN inArgs' \subseteq 0 .. cache.nFrom - 1
    <3>1. DOMAIN inArgs' = {slot.k} \cup DOMAIN ChildWrites(e, pos, r) \cup DOMAIN inArgs
      <4> DEFINE mine == Only(slot.k, Owned(r.c))
                 writes == ChildWrites(e, pos, r)
      <4>1. inArgs' = (mine ++ writes) ++ inArgs /\ DOMAIN mine = {slot.k}
        BY <1>3, <1>6 DEF Only
      <4> HIDE DEF mine
      <4>2. DOMAIN ((mine ++ writes) ++ inArgs) = DOMAIN (mine ++ writes) \cup DOMAIN inArgs
        BY Over
      <4>3. DOMAIN (mine ++ writes) = DOMAIN mine \cup DOMAIN writes
        BY Over
      <4> QED BY <4>1, <4>2, <4>3
    <3> QED BY <2>2, <2>4, <2>5, <3>1
  <2>7. LedgerOK(ledger')
    BY <1>3, <1>6, <2>2, LedgerBlocks, LedgerOver DEF TookBlocks
  <2> HIDE DEF slot, e
  <2> QED BY <1>1, <1>3, <1>6, <2>2, <2>6, <2>7, StepOn
<1> QED BY <1>5, <1>6

\* An (inout) argument that is not a length is a parent.
LEMMA BothMeta ==
  ASSUME Regular(sig), CacheOK(sig, cache, Count(sig)), NEW i \in Numbers(sig), cache.args[i].dir = "both"
  PROVE  IsChild(cache.args[i]) \/ cache.args[i].meta = "parent"
<1>1. cache.args[i].meta = Meta(sig, Count(sig), i) /\ WayOf(sig, i) = "both"
  BY Ready
<1>2. ~IsClosure(sig, i)
  BY <1>1 DEF Regular, IsClosure
<1>3. ~Fed(sig, Count(sig), i)
  BY <1>1, Owners DEF Fed, BehindRegular
<1> QED BY <1>1, <1>2, <1>3 DEF Meta, IsChild

LEMMA BothTypes ==
  ASSUME TypeInv, NEW v, MarshalBoth(v)
  PROVE  TypeInv'
<1> DEFINE e == cache.args[pos]
           k == InCount(pos)
           o == OutCount(pos)
           child == IsChild(e)
           r == IF child THEN Done(Null, {})
                ELSE IF e.py < Len(bound) THEN Marshalled(e, v, NoValue) ELSE Fails({})
           early == r.length >= 0 /\ inArgs[cache.args[e.len].c].k = "ref"
           writes == IF early THEN Empty ELSE ChildWrites(e, pos, r)
<1>1. pc = "in" /\ pos < cache.n /\ e.dir = "both" /\ UNCHANGED <<sig, cache>>
  BY DEF MarshalBoth
<1>2. ~r.ok => FailAt(r.left)
  BY DEF MarshalBoth
<1>3. r.ok => /\ args' = Only(pos, Slot("value", o)) ++ args
              /\ inArgs' = (Only(k, Ref(o)) ++ writes) ++ inArgs
              /\ outArgs' = [outArgs EXCEPT ![o] = Ref(o)]
              /\ ledger' = TookBlocks(pos, r) /\ Step /\ outcome' = outcome
  BY DEF MarshalBoth, endvars
<1>4. r.length = -1 \/ (e.tag = "array" /\ e.len >= 0)
  <2>1. CASE child
    BY <2>1, ResultIs
  <2>2. CASE ~child /\ e.py < Len(bound)
    BY <2>2, MarshalledLength
  <2>3. CASE ~child /\ ~(e.py < Len(bound))
    BY <2>3, ResultIs
  <2> QED BY <2>1, <2>2, <2>3
<1>5. child => r = Done(Null, {})
  OBVIOUS
<1>6. ~child => e.meta = "parent"
  <2>1. pc \in {"cached"} \cup Calling
    BY <1>1 DEF Calling
  <2>2. Regular(sig) /\ CacheOK(sig, cache, Count(sig)) /\ pos \in 0 .. cache.n - 1
    BY <1>1, <2>1, During
  <2>3. pos \in Numbers(sig)
    BY <2>2, SlotOf
  <2> QED BY <1>1, <2>2, <2>3, BothMeta
<1> HIDE DEF r
<1>7. CASE ~r.ok
  BY <1>1, <1>2, <1>7, FailTypes
<1>8. CASE r.ok
  <2>1. pc \in {"cached"} \cup Calling
    BY <1>1 DEF Calling
  <2>2. /\ Regular(sig) /\ CacheOK(sig, cache, Count(sig)) /\ pos \in 0 .. cache.n - 1
        /\ DOMAIN inArgs \subseteq 0 .. cache.nFrom - 1 /\ DOMAIN outArgs \subseteq 0 .. cache.nTo - 1 /\ LedgerOK(ledger)
    BY <1>1, <2>1, During
  <2>3. FromPython(e.dir)
    BY <1>1 DEF FromPython
  <2>4. k \in 0 .. cache.nFrom - 1
    BY <2>2, <2>3, SlotOf
  <2>5. DOMAIN writes \subseteq 0 .. cache.nFrom - 1
    <3>1. CASE early
      BY <3>1 DEF Empty
    <3>2. CASE ~early /\ child
      <4>1. ~(r.length >= 0) /\ r.c # Own
        BY <1>5, <3>2 DEF Done, Null, Own
      <4>2. writes = (Empty ++ Empty) ++ Empty
        BY <3>2, <4>1 DEF ChildWrites
      <4> QED BY <4>2 DEF Empty, ++
    <3>3. CASE ~early /\ ~child
      <4>1. pos \in Numbers(sig)
        BY <2>2, SlotOf
      <4>2. DOMAIN ChildWrites(e, pos, r) \subseteq 0 .. cache.nFrom - 1
        BY <1>4, <1>6, <2>2, <2>3, <3>3, <4>1, ChildWritesIn
      <4> QED BY <3>3, <4>2
    <3> QED BY <3>1, <3>2, <3>3
  <2>6. DOMAIN inArgs' \subseteq 0 .. cache.nFrom - 1
    <3> DEFINE mine == Only(k, Ref(o))
    <3>1. inArgs' = (mine ++ writes) ++ inArgs /\ DOMAIN mine = {k}
      BY <1>3, <1>8 DEF Only
    <3> HIDE DEF mine, writes, k
    <3>2. DOMAIN ((mine ++ writes) ++ inArgs) = DOMAIN (mine ++ writes) \cup DOMAIN inArgs
      BY Over
    <3>3. DOMAIN (mine ++ writes) = DOMAIN mine \cup DOMAIN writes
      BY Over
    <3> QED BY <2>2, <2>4, <2>5, <3>1, <3>2, <3>3
  <2>7. LedgerOK(ledger')
    BY <1>3, <1>8, <2>2, LedgerBlocks, LedgerOver DEF TookBlocks
  <2>8. DOMAIN outArgs' \subseteq 0 .. cache.nTo - 1
    BY <1>3, <1>8, <2>2
  <2> HIDE DEF e, k, o, writes
  <2> QED BY <1>1, <1>3, <1>8, <2>2, <2>6, <2>7, <2>8, StepOn
<1> QED BY <1>7, <1>8

LEMMA OutTypes ==
  ASSUME TypeInv, NEW possible \in BOOLEAN, MarshalOut(possible)
  PROVE  TypeInv'
<1> DEFINE e == cache.args[pos]
           o == OutCount(pos)
           slot == Slot(IF e.caller THEN "alloc" ELSE "value", o)
           place == IF e.caller THEN [k |-> "own", n |-> pos] ELSE Ref(o)
<1>1. pc = "in" /\ pos < cache.n /\ UNCHANGED <<sig, cache>> /\ (~possible => FailAt({}))
  BY DEF MarshalOut
<1>2. possible => /\ args' = Only(pos, slot) ++ args /\ outArgs' = [outArgs EXCEPT ![o] = place]
                  /\ ledger' = IF e.caller THEN Blocks("out", pos, {Data}, "ours") ++ ledger ELSE ledger
                  /\ Step /\ inArgs' = inArgs /\ outcome' = outcome
  BY DEF MarshalOut, invars, endvars
<1> HIDE DEF e, o, slot, place
<1>3. CASE ~possible
  BY <1>1, <1>3, FailTypes
<1>4. CASE possible
  <2>1. pc \in {"cached"} \cup Calling
    BY <1>1 DEF Calling
  <2>2. DOMAIN inArgs \subseteq 0 .. cache.nFrom - 1 /\ DOMAIN outArgs \subseteq 0 .. cache.nTo - 1 /\ LedgerOK(ledger)
    BY <2>1, During
  <2>3. LedgerOK(ledger')
    <3>1. LedgerOK(Blocks("out", pos, {Data}, "ours") ++ ledger)
      BY <2>2, LedgerBlocks, LedgerOver
    <3> QED BY <1>2, <1>4, <2>2, <3>1
  <2>4. DOMAIN inArgs' \subseteq 0 .. cache.nFrom - 1 /\ DOMAIN outArgs' \subseteq 0 .. cache.nTo - 1
    BY <1>2, <1>4, <2>2
  <2> QED BY <1>1, <1>2, <1>4, <2>3, <2>4, StepOn
<1> QED BY <1>3, <1>4

\* A step of a call that moves no argument.
LEMMA StayTypes ==
  ASSUME TypeInv, pc \in Calling, pc' \in Calling, UNCHANGED <<sig, cache, invars, args>>, outArgs' = outArgs,
         pos' \in 0 .. cache.n, LedgerOK(ledger'), outcome' \in Outcomes
  PROVE  TypeInv'
<1>1. inArgs' = inArgs /\ outArgs' = outArgs /\ args' = args /\ UNCHANGED <<sig, cache>>
  BY DEF invars
<1>2. /\ DOMAIN inArgs' \subseteq 0 .. cache.nFrom - 1 /\ DOMAIN outArgs' \subseteq 0 .. cache.nTo - 1
      /\ DOMAIN args' \subseteq 0 .. cache.n - 1
  BY <1>1, During
<1> QED BY <1>1, <1>2, StepTypes

LEMMA NoArgsTypes ==
  ASSUME TypeInv, NoArgs
  PROVE  TypeInv'
<1>1. /\ pc = "in" /\ pc' = "call" /\ UNCHANGED <<sig, cache, invars, args>> /\ outArgs' = outArgs /\ pos' = pos
      /\ ledger' = ledger /\ outcome' = outcome
  BY DEF NoArgs, outvars, endvars
<1>2. pc \in Calling /\ pc' \in Calling
  BY <1>1 DEF Calling
<1>3. pos' \in 0 .. cache.n /\ outcome' \in Outcomes /\ LedgerOK(ledger')
  BY <1>1, <1>2, During
<1> QED BY <1>1, <1>2, <1>3, StayTypes

\* What the callee gives back goes on the ledger under the argument it came through.
LEMMA ReturnLedger ==
  ASSUME NEW ret, NEW outs, Returns(ret, outs), LedgerOK(ledger)
  PROVE  LedgerOK(ledger')
<1> DEFINE where(i) == IF SigArg(i).dir = "out" THEN CalleeOut(i) ELSE CalleeIn(i)
           written == {i \in Outs : where(i).k = "ref"}
           new(i) == Given(SigArg(i), i, outs[i])
           all == UNION {DOMAIN new(i) : i \in written}
           values == [b \in all |-> new(b[2])[b]]
           kept == MarshalSuccess(HandOver(ledger))
<1>1. ledger' = (values ++ Given(sig.ret, -1, ret)) ++ kept
  BY DEF Returns
<1>2. ASSUME NEW b \in all
      PROVE  new(b[2])[b] \in OwnerNames
  <2>1. PICK i \in written : b \in DOMAIN new(i)
    OBVIOUS
  <2>2. b[2] = i /\ LedgerOK(new(i))
    BY <2>1, LedgerGiven
  <2> HIDE DEF new
  <2> QED BY <2>1, <2>2 DEF LedgerOK
<1> HIDE DEF new, all
<1>3. LedgerOK(values)
  BY <1>2 DEF LedgerOK
<1>4. LedgerOK(Given(sig.ret, -1, ret))
  BY LedgerGiven
<1>5. LedgerOK(kept)
  <2>1. LedgerOK(HandOver(ledger))
    BY LedgerHandOver
  <2> QED BY <2>1, LedgerSuccess
<1> HIDE DEF values, kept
<1>6. LedgerOK(values ++ Given(sig.ret, -1, ret))
  BY <1>3, <1>4, LedgerOver
<1>7. LedgerOK((values ++ Given(sig.ret, -1, ret)) ++ kept)
  BY <1>5, <1>6, LedgerOver
<1> QED BY <1>1, <1>7

LEMMA FirstIs ==
  ASSUME NEW n \in Nat
  PROVE  0 \in 0 .. n
OBVIOUS

LEMMA CallCTypes ==
  ASSUME TypeInv, NEW did \in {"returns", "throws", "not run"}, NEW ret, NEW outs, CallC(did, ret, outs)
  PROVE  TypeInv'
<1>1. /\ pc = "call" /\ pos' = 0 /\ UNCHANGED <<sig, cache, invars, args>> /\ outArgs' = outArgs
      /\ \/ Returns(ret, outs)
         \/ CallFails(TRUE)
         \/ CallFails(FALSE)
  BY DEF CallC
<1>2. pc \in Calling
  BY <1>1 DEF Calling
<1>3. pos' \in 0 .. cache.n /\ outcome \in Outcomes /\ LedgerOK(ledger)
  <2>1. cache.n \in Nat /\ outcome \in Outcomes /\ LedgerOK(ledger)
    BY <1>2, During
  <2>2. 0 \in 0 .. cache.n
    BY <2>1, FirstIs, Zenon
  <2>3. pos' \in 0 .. cache.n
    BY <1>1, <2>2
  <2> QED BY <2>1, <2>3
<1>4. ASSUME NEW ran, CallFails(ran)
      PROVE  pc' \in Calling /\ outcome' \in Outcomes /\ LedgerOK(ledger')
  <2>1. LedgerOK(IF ran THEN HandOver(ledger) ELSE ledger)
    BY <1>3, LedgerHandOver
  <2>2. ledger' = MarshalSuccess(IF ran THEN HandOver(ledger) ELSE ledger)
    BY <1>4 DEF CallFails
  <2>3. LedgerOK(ledger')
    BY <2>1, <2>2, LedgerSuccess
  <2> QED BY <1>4, <2>3 DEF CallFails, Calling, Outcomes
<1>5. ASSUME Returns(ret, outs)
      PROVE  pc' \in Calling /\ outcome' \in Outcomes /\ LedgerOK(ledger')
  <2>1. LedgerOK(ledger')
    BY <1>3, <1>5, ReturnLedger
  <2>2. pc' = "out return" /\ outcome' = outcome
    BY <1>5 DEF Returns
  <2> QED BY <1>3, <2>1, <2>2 DEF Calling
<1>6. pc' \in Calling /\ outcome' \in Outcomes /\ LedgerOK(ledger')
  BY <1>1, <1>4, <1>5
<1> QED BY <1>1, <1>2, <1>3, <1>6, StayTypes

LEMMA BadTypes ==
  ASSUME BadResult
  PROVE  pc' \in Calling /\ outcome' \in Outcomes
BY DEF BadResult, Calling, Outcomes

LEMMA OutReturnTypes ==
  ASSUME TypeInv, OutReturn
  PROVE  TypeInv'
<1> DEFINE e == cache.ret
           r == ToPyMarshal(e, outVals[-1], LengthTag(e))
           place == Only(Block("out", -1, Place), "misfreed")
<1>1. /\ pc = "out return" /\ UNCHANGED <<sig, cache, invars, args>> /\ outArgs' = outArgs /\ pos' = pos
  BY DEF OutReturn, outvars
<1>2. \/ /\ ledger' = IF e.transfer = "everything" /\ e.toClean THEN place ++ ledger ELSE ledger
         /\ pc' = "out args" /\ outcome' = outcome
      \/ BadResult /\ ledger' = ledger
      \/ Marshal(-1, r) /\ BadResult
      \/ Marshal(-1, r) /\ pc' = "out args" /\ outcome' = outcome
  BY DEF OutReturn
<1> HIDE DEF e, r
<1>3. pc \in Calling
  BY <1>1 DEF Calling
<1>4. pos' \in 0 .. cache.n /\ outcome \in Outcomes /\ LedgerOK(ledger)
  BY <1>1, <1>3, During
<1>5. LedgerOK(place ++ ledger)
  <2>1. LedgerOK(place)
    BY DEF LedgerOK, Only, OwnerNames
  <2> QED BY <1>4, <2>1, LedgerOver
<1> HIDE DEF place
<1>6. LedgerOK(ledger')
  <2>1. Marshal(-1, r) => LedgerOK(ledger')
    BY <1>4, LedgerMarshal
  <2> QED BY <1>2, <1>4, <1>5, <2>1
<1>7. pc' \in Calling /\ outcome' \in Outcomes
  <2>1. "out args" \in Calling
    BY DEF Calling
  <2> QED BY <1>2, <1>4, <2>1, BadTypes
<1> QED BY <1>1, <1>3, <1>4, <1>6, <1>7, StayTypes

LEMMA OutArgTypes ==
  ASSUME TypeInv, OutArg
  PROVE  TypeInv'
<1> DEFINE i == cache.args[cache.toPy[pos + 1]].c
           e == cache.args[i]
           r == ToPyMarshal(e, ValueAt(i), LengthTag(e))
<1>1. /\ pc = "out args" /\ pos < NOut /\ UNCHANGED <<sig, cache, invars, args>> /\ outArgs' = outArgs
      /\ Marshal(i, r)
      /\ \/ BadResult /\ pos' = pos
         \/ pos' = pos + 1 /\ pc' = pc /\ outcome' = outcome
  BY DEF OutArg, outvars
<1> HIDE DEF i, r
<1>2. pc \in Calling
  BY <1>1 DEF Calling
<1>3. /\ pos \in 0 .. cache.n /\ outcome \in Outcomes /\ LedgerOK(ledger) /\ cache.n \in Nat
      /\ Regular(sig) /\ CacheOK(sig, cache, Count(sig))
  BY <1>2, During
<1>4. pos' \in 0 .. cache.n
  <2>1. NOut <= cache.n /\ NOut \in Int
    BY <1>3, Outcome DEF NOut
  <2>2. pos < NOut /\ (pos' = pos \/ pos' = pos + 1)
    BY <1>1
  <2> QED BY <1>3, <2>1, <2>2
<1>5. LedgerOK(ledger')
  BY <1>1, <1>3, LedgerMarshal
<1>6. pc' \in Calling /\ outcome' \in Outcomes
  BY <1>1, <1>2, <1>3, BadTypes
<1> QED BY <1>1, <1>2, <1>4, <1>5, <1>6, StayTypes

LEMMA FinishTypes ==
  ASSUME TypeInv, Finish
  PROVE  TypeInv'
<1>1. /\ pc = "out args" /\ pc' = "done" /\ UNCHANGED <<sig, cache, invars, args>> /\ outArgs' = outArgs /\ pos' = pos
      /\ ledger' = ToSuccess(ledger) /\ outcome' = "returned"
  BY DEF Finish, outvars
<1>2. pc \in Calling /\ pc' \in Calling /\ outcome' \in Outcomes
  BY <1>1 DEF Calling, Outcomes
<1>3. pos' \in 0 .. cache.n /\ LedgerOK(ledger)
  BY <1>1, <1>2, During
<1>4. LedgerOK(ledger')
  BY <1>1, <1>3, LedgerSuccess
<1> QED BY <1>1, <1>2, <1>3, <1>4, StayTypes

LEMMA AgainTypes ==
  ASSUME TypeInv, Again
  PROVE  TypeInv'
<1>1. /\ pc = "done" /\ pc' = "cached" /\ pos' = 0 /\ UNCHANGED <<sig, cache>>
      /\ inArgs' = Empty /\ outArgs' = Empty /\ args' = Empty /\ ledger' = Empty /\ outcome' = "none"
  BY DEF Again
<1>2. pc \in {"cached"} \cup Calling
  BY <1>1 DEF Calling
<1>3. 0 \in 0 .. Count(sig)
  BY <1>2, During
<1>4. Indexed'
  BY <1>1, <1>2, <1>3, CallIndexed DEF TypeInv
<1>5. Slots'
  BY <1>1 DEF Slots, Building, Calling, LedgerOK, Empty, Outcomes
<1> QED BY <1>4, <1>5 DEF TypeInv

LEMMA NextTypes ==
  ASSUME TypeInv, [Next]_vars
  PROVE  TypeInv'
<1>1. CASE CacheNext /\ UNCHANGED <<callvars, invars, outvars, args, ledger, endvars>>
  BY <1>1, CacheTypes
<1>2. CASE \E n \in 0 .. Len(cache.names) + 1, kw \in SUBSET (NameHash \cup {Unknown}), first \in BOOLEAN :
             Call([n |-> n, kw |-> kw], first)
  BY <1>2, CallTypes
<1>3. CASE MarshalNothing
  BY <1>3, NothingTypes
<1>4. CASE \E v, ud : MarshalIn(v, ud)
  BY <1>4, InTypes
<1>5. CASE \E v : MarshalBoth(v)
  BY <1>5, BothTypes
<1>6. CASE \E possible \in BOOLEAN : MarshalOut(possible)
  BY <1>6, OutTypes
<1>7. CASE NoArgs
  BY <1>7, NoArgsTypes
<1>8. CASE \E did \in {"returns", "throws", "not run"} : \E ret, outs : CallC(did, ret, outs)
  BY <1>8, CallCTypes
<1>9. CASE OutReturn
  BY <1>9, OutReturnTypes
<1>10. CASE OutArg
  BY <1>10, OutArgTypes
<1>11. CASE Finish
  BY <1>11, FinishTypes
<1>12. CASE Again
  BY <1>12, AgainTypes
<1>13. CASE UNCHANGED vars
  <2>1. /\ sig' = sig /\ cache' = cache /\ pc' = pc /\ pos' = pos /\ args' = args /\ ledger' = ledger
        /\ inArgs' = inArgs /\ outArgs' = outArgs /\ outcome' = outcome
    BY <1>13 DEF vars, invars, outvars, endvars
  <2> QED BY <2>1 DEF TypeInv, Indexed, Slots, LedgerOK
<1> QED BY <1>1, <1>2, <1>3, <1>4, <1>5, <1>6, <1>7, <1>8, <1>9, <1>10, <1>11, <1>12, <1>13 DEF Next

(***************************************************************************)
(* The indexes that the cache of a callable keeps are those its            *)
(* introspection data say, for any number of arguments and any of the      *)
(* signatures that are Regular.  (pygi-cache.c)                            *)
(***************************************************************************)
THEOREM CacheCorrect == Spec => []Indexed
<1>1. Init => TypeInv
  BY InitTypes
<1>2. TypeInv /\ [Next]_vars => TypeInv'
  BY NextTypes
<1>3. TypeInv => Indexed
  BY DEF TypeInv
<1> QED BY <1>1, <1>2, <1>3, PTL DEF Spec

(***************************************************************************)
(* A call writes no slot that the cache has not counted: neither a         *)
(* marshaller into those of its children nor the call into those of (out)  *)
(* values; and it looks at no argument behind the last one.                *)
(* (_invoke_state_init_from_callable_cache allocates the counted slots)    *)
(***************************************************************************)
THEOREM TypeCorrect == Spec => []TypeOK
<1>1. Init => TypeInv
  BY InitTypes
<1>2. TypeInv /\ [Next]_vars => TypeInv'
  BY NextTypes
<1>3. TypeInv => TypeOK
  BY Slotted
<1> QED BY <1>1, <1>2, <1>3, PTL DEF Spec

-----------------------------------------------------------------------------
(* Slots, and places among the names *)

LEMMA PlacesApart ==
  ASSUME NEW S, S \subseteq Nat, NEW i \in S, NEW j \in S, Below(S, i) = Below(S, j)
  PROVE  i = j
<1>1. i \in Nat /\ j \in Nat /\ i \in Int /\ j \in Int
  OBVIOUS
<1>2. Below(S, i) \in Nat /\ Below(S, j) \in Nat
  BY <1>1, BelowFinite
<1>3. ~(i < j)
  <2>1. i < j => Below(S, i) + 1 <= Below(S, j)
    BY <1>1, BelowLess
  <2> QED BY <1>2, <2>1
<1>4. ~(j < i)
  <2>1. j < i => Below(S, j) + 1 <= Below(S, i)
    BY <1>1, BelowLess
  <2> QED BY <1>2, <2>1
<1> QED BY <1>1, <1>3, <1>4

LEMMA SlotsApart ==
  ASSUME Regular(sig)
  PROVE  /\ \A i \in Ins(sig), j \in Ins(sig) : InSlot(i) = InSlot(j) => i = j
         /\ \A i \in ToOnes(sig), j \in ToOnes(sig) : OutSlot(i) = OutSlot(j) => i = j
<1>1. Ins(sig) \subseteq Nat /\ ToOnes(sig) \subseteq Nat
  BY Ways DEF Ins, ToOnes
<1> QED BY <1>1, PlacesApart DEF InSlot, OutSlot

LEMMA Ordered ==
  ASSUME NEW n \in Nat, NEW S, S \subseteq 0 .. n - 1
  PROVE  /\ Len(InOrder(S)) = Below(S, n)
         /\ \A i \in S : InOrder(S)[Below(S, i) + 1] = i
<1>0. \A j \in S : j \in Int /\ 0 <= j /\ j < n
  OBVIOUS
<1>1. ASSUME NEW i \in Int
      PROVE  Below(S, i) = Cardinality({j \in S : j < i})
  <2>0. \A j \in S : j \in 0 .. i - 1 <=> j < i
    BY <1>0
  <2>1. {j \in 0 .. i - 1 : j \in S} = {j \in S : j < i}
    BY <2>0
  <2> QED BY <2>1 DEF Below
<1>2. Below(S, n) = Cardinality(S) /\ Below(S, n) \in Nat
  <2>1. n \in Int
    OBVIOUS
  <2>2. {j \in S : j < n} = S
    BY <1>0
  <2> QED BY <1>1, <2>1, <2>2, BelowFinite
<1>3. Len(InOrder(S)) = Below(S, n)
  BY <1>2 DEF InOrder
<1>4. ASSUME NEW i \in S
      PROVE  InOrder(S)[Below(S, i) + 1] = i
  <2>1. i \in Nat /\ i \in Int /\ n \in Int /\ i < n
    OBVIOUS
  <2>2. Below(S, i) \in Nat /\ Below(S, i) + 1 <= Below(S, n)
    BY <2>1, BelowFinite, BelowLess
  <2> DEFINE p == Below(S, i) + 1
  <2>3. p \in 1 .. Cardinality(S) /\ p - 1 = Below(S, i)
    BY <1>2, <2>2
  <2>4. InOrder(S)[p] = CHOOSE k \in S : Cardinality({j \in S : j < k}) = p - 1
    BY <2>3 DEF InOrder
  <2>5. \A k \in S : Cardinality({j \in S : j < k}) = p - 1 <=> k = i
    <3>1. ASSUME NEW k \in S, Cardinality({j \in S : j < k}) = p - 1
          PROVE  k = i
      <4>1. k \in Int
        OBVIOUS
      <4>2. Below(S, k) = Below(S, i)
        BY <1>1, <2>3, <3>1, <4>1
      <4>3. S \subseteq Nat
        OBVIOUS
      <4> QED BY <4>2, <4>3, PlacesApart
    <3>2. Cardinality({j \in S : j < i}) = p - 1
      BY <1>1, <2>1, <2>3
    <3> QED BY <3>1, <3>2
  <2> HIDE DEF p
  <2>6. InOrder(S)[p] = i
    BY <2>4, <2>5
  <2> QED BY <2>6 DEF p
<1> QED BY <1>3, <1>4

\* The names are those of the arguments that are shown, in their order.
LEMMA NamesAre ==
  ASSUME NEW s, Regular(s), NEW cc, CacheOK(s, cc, Count(s))
  PROVE  /\ Len(NameList(cc)) = Below(Shows(s, Count(s)), Count(s))
         /\ \A i \in Shows(s, Count(s)) : NameList(cc)[Below(Shows(s, Count(s)), i) + 1] = i
<1> DEFINE S == {k \in 0 .. cc.n - 1 : cc.args[k].meta \notin {"child", "closure"} /\ FromPython(cc.args[k].dir)}
<1>1. /\ Numbers(s) = 0 .. cc.n - 1 /\ cc.n = Count(s) /\ Count(s) \in Nat
      /\ \A k \in Numbers(s) : cc.args[k].meta = Meta(s, Count(s), k) /\ cc.args[k].dir = WayOf(s, k)
  BY Ready
<1>2. S = Shows(s, Count(s))
  <2>1. ASSUME NEW k
        PROVE  k \in S <=> k \in Shows(s, Count(s))
    BY <1>1 DEF Shows, Ins
  <2> HIDE DEF S
  <2> QED BY <2>1
<1>3. NameList(cc) = InOrder(S)
  BY DEF NameList
<1>4. S \subseteq 0 .. Count(s) - 1
  BY <1>1
<1> HIDE DEF S
<1> QED BY <1>1, <1>2, <1>3, <1>4, Ordered

-----------------------------------------------------------------------------
(* What a marshaller makes of a value *)

LEMMA Kinds ==
  /\ Null.k = "null" /\ Own.k = "own" /\ Borrowed.k = "borrowed" /\ \A n : Num(n).k = "num" /\ Num(n).n = n
  /\ Null # Own /\ Null # Borrowed /\ \A n : Num(n) # Null /\ Num(n) # Own /\ Num(n) # Borrowed
  /\ \A c, took : Done(c, took).ok /\ Done(c, took).c = c
  /\ \A left : ~Fails(left).ok /\ Fails(left).c = Null
BY DEF Null, Own, Borrowed, Num, Done, Fails

LEMMA KeptPlain ==
  ASSUME NEW e, NEW v, e.tag \notin IntTags
  PROVE  /\ \A left : Kept(e, v, Fails(left))
         /\ \A took, n : Kept(e, v, Done(Num(n), took))
         /\ \A took : Kept(e, v, Done(Own, took)) /\ Kept(e, v, Done(Borrowed, took))
         /\ \A took : v.py = "none" => Kept(e, v, Done(Null, took))
         /\ \A ok, r : Kept(e, v, r) => Kept(e, v, FailsUnless(ok, r))
<1>1. \A left : Kept(e, v, Fails(left))
  BY Kinds DEF Kept
<1>2. \A took, n : Kept(e, v, Done(Num(n), took))
  BY Kinds DEF Kept
<1>3. \A took : Kept(e, v, Done(Own, took)) /\ Kept(e, v, Done(Borrowed, took))
  BY Kinds DEF Kept
<1>4. \A took : v.py = "none" => Kept(e, v, Done(Null, took))
  BY Kinds DEF Kept
<1>5. \A ok, r : Kept(e, v, r) => Kept(e, v, FailsUnless(ok, r))
  <2>1. ASSUME NEW ok, NEW r, Kept(e, v, r)
        PROVE  Kept(e, v, FailsUnless(ok, r))
    <3>1. CASE ok
      BY <2>1, <3>1 DEF FailsUnless
    <3>2. CASE ~ok
      BY <1>1, <3>2 DEF FailsUnless
    <3> QED BY <3>1, <3>2
  <2> QED BY <2>1
<1> QED BY <1>1, <1>2, <1>3, <1>4, <1>5

LEMMA KeptInteger ==
  ASSUME NEW e, NEW v, e.tag \in IntTags
  PROVE  Kept(e, v, ScalarFromPy(e, v))
<1>1. \A ok : Kept(e, v, FailsUnless(ok, Done(Num(v.n), {}))) \/ (ok /\ ~InRange(v.n, e.tag))
  BY Kinds DEF Kept, FailsUnless
<1>2. CASE e.tag \in {"int8", "uint8"}
  <2>1. ScalarFromPy(e, v) = SmallIntFromPy(e.tag, v)
    BY <1>2 DEF ScalarFromPy
  <2>2. CASE v.py = "bytes"
    <3> DEFINE n == IF e.tag = "int8" THEN Signed(v.items[1]) ELSE v.items[1]
    <3>1. SmallIntFromPy(e.tag, v) = FailsUnless(v.n = RankOf(1), Done(Num(n), {}))
      BY <2>2, Zenon DEF SmallIntFromPy
    <3> HIDE DEF n
    <3> QED BY <2>1, <2>2, <3>1, Kinds DEF Kept, FailsUnless
  <2>3. CASE v.py # "bytes"
    <3>1. SmallIntFromPy(e.tag, v)
            = FailsUnless(v.py = "int" /\ InRange(v.n, "int64") /\ InRange(v.n, e.tag), Done(Num(v.n), {}))
      BY <2>3, Zenon DEF SmallIntFromPy
    <3> QED BY <1>1, <2>1, <3>1
  <2> QED BY <2>2, <2>3
<1>3. CASE e.tag \in {"int16", "uint16", "int32", "uint32"}
  <2>1. ScalarFromPy(e, v) = IntFromPy(e.tag, v)
    BY <1>3 DEF ScalarFromPy
  <2> QED BY <1>1, <2>1 DEF IntFromPy
<1>4. CASE e.tag \in {"int64", "uint64"}
  <2>1. ScalarFromPy(e, v) = WideIntFromPy(e.tag, v)
    BY <1>4 DEF ScalarFromPy
  <2>2. Through(e.tag) = e.tag
    BY <1>4 DEF Through
  <2> QED BY <1>1, <2>1, <2>2 DEF WideIntFromPy
<1> QED BY <1>2, <1>3, <1>4 DEF IntTags

LEMMA KeptScalar ==
  ASSUME NEW e, NEW v, e.tag \notin IntTags
  PROVE  Kept(e, v, ScalarFromPy(e, v))
<1> DEFINE Good(r) == Kept(e, v, r)
<1>1. /\ \A left : Good(Fails(left))
      /\ \A took, n : Good(Done(Num(n), took))
      /\ \A took : Good(Done(Own, took)) /\ Good(Done(Borrowed, took))
      /\ \A took : v.py = "none" => Good(Done(Null, took))
      /\ \A ok, r : Good(r) => Good(FailsUnless(ok, r))
  BY KeptPlain
<1> HIDE DEF Good
<1>2. Good(FloatFromPy(e.tag, v)) /\ Good(TruthFromPy(v)) /\ Good(UnicharFromPy(v)) /\ Good(GTypeFromPy(v))
  BY <1>1 DEF FloatFromPy, TruthFromPy, UnicharFromPy, GTypeFromPy
<1>3. Good(Utf8FromPy(v)) /\ Good(FilenameFromPy(v)) /\ Good(EnumFromPy(v)) /\ Good(FlagsFromPy(v))
  BY <1>1 DEF Utf8FromPy, FilenameFromPy, EnumFromPy, FlagsFromPy
<1>4. Good(GValueFromPy(v)) /\ Good(InstanceFromPy(v)) /\ Good(VoidFromPy) /\ Good(ErrorFromPy)
  BY <1>1 DEF GValueFromPy, InstanceFromPy, VoidFromPy, ErrorFromPy
<1>5. Good(StructFromPy(e, v))
  BY <1>1, <1>4 DEF StructFromPy
<1>6. Good(ObjectFromPy(e, v))
  <2>1. Good(GObjectFromPy(v, e.transfer))
    BY <1>1 DEF GObjectFromPy
  <2> QED BY <1>1, <2>1 DEF ObjectFromPy
<1>7. Good(ScalarFromPy(e, v))
  BY <1>2, <1>3, <1>4, <1>5, <1>6 DEF ScalarFromPy, IntTags
<1> QED BY <1>7 DEF Good

LEMMA RanksAre ==
  /\ \A name \in Range(Points) : Rank(name) \in Nat
  /\ \A tag \in IntTags : Lowest[tag] \in Nat
  /\ Rank("0") \in Nat
<1>1. DOMAIN Points = 1 .. 30
  BY DEF Points
<1>2. ASSUME NEW name \in Range(Points)
      PROVE  Rank(name) \in Nat
  <2>1. \E n \in DOMAIN Points : Points[n] = name
    BY DEF Range
  <2>2. Rank(name) = CHOOSE n \in DOMAIN Points : Points[n] = name
    BY DEF Rank, Ranks
  <2>3. Rank(name) \in DOMAIN Points
    BY <2>1, <2>2
  <2> QED BY <1>1, <2>3
<1>3. /\ Points[8] = "-128" /\ Points[10] = "0" /\ Points[6] = "-2^15" /\ Points[4] = "-2^31" /\ Points[2] = "-2^63"
  BY DEF Points
<1>4. {"-128", "0", "-2^15", "-2^31", "-2^63"} \subseteq Range(Points)
  BY <1>1, <1>3 DEF Range
<1>5. ASSUME NEW tag \in IntTags
      PROVE  Lowest[tag] \in Nat
  <2>1. Lowest[tag] \in {Rank("-128"), Rank("0"), Rank("-2^15"), Rank("-2^31"), Rank("-2^63")}
    BY DEF Lowest, IntTags
  <2> HIDE DEF IntTags
  <2> QED BY <1>2, <1>4, <2>1
<1> QED BY <1>2, <1>4, <1>5

LEMMA KeptArray ==
  ASSUME NEW e, NEW v, NEW lengthTag, e.tag = "array"
  PROVE  LET r == ArrayFromPy(e, v, lengthTag)
         IN  /\ Kept(e, v, r)
             /\ r.ok /\ e.len >= 0 /\ v.py # "none" =>
                  r.length = LengthOf(v) /\ LengthFits(LengthOf(v), lengthTag)
<1> DEFINE whole(took) == [Done(Own, took) EXCEPT !.length = IF e.len >= 0 THEN LengthOf(v) ELSE -1,
                                                  !.data = e.atype = "C" /\ e.transfer = "nothing"]
           fits == e.len >= 0 => LengthFits(LengthOf(v), lengthTag)
           Good(r) == /\ Kept(e, v, r)
                      /\ r.ok /\ e.len >= 0 /\ v.py # "none" =>
                           r.length = LengthOf(v) /\ LengthFits(LengthOf(v), lengthTag)
<1>0. e.tag \notin IntTags
  BY DEF IntTags
<1>1. \A left : Good(Fails(left))
  BY <1>0, KeptPlain, Kinds
<1>2. v.py = "none" => Good(Done(Null, {}))
  BY <1>0, KeptPlain
<1>3. \A took : fits => Good(whole(took))
  <2>1. ASSUME NEW took
        PROVE  /\ whole(took).ok /\ whole(took).c = Own
               /\ e.len >= 0 => whole(took).length = LengthOf(v)
    BY DEF Done
  <2>2. ASSUME NEW took
        PROVE  Kept(e, v, whole(took))
    <3> HIDE DEF whole
    <3> QED BY <1>0, <2>1, Kinds DEF Kept
  <2> HIDE DEF whole
  <2> QED BY <2>1, <2>2
<1>4. \A took : Good(FailsUnless(fits, whole(took)))
  <2> HIDE DEF Good, whole, fits
  <2> QED BY <1>1, <1>3 DEF FailsUnless
<1> DEFINE rs == ItemResults(e, v)
           f == FirstBad(rs)
           all == TakenBefore(rs, Len(rs) + 1)
           Drop(parts) == IF CleanedOnError(e) THEN {} ELSE parts
           bytes == v.py = "bytes" /\ e.item = "uint8"
           ready == v.py \in {"seq", "bytes"} /\ FixedSizeOk(e, v)
           r == ArrayFromPy(e, v, lengthTag)
<1>5. Good(r)
  <2>0. r = CASE v.py = "none" -> Done(Null, {})
              [] v.py # "none" /\ ~ready -> Fails({})
              [] ready /\ bytes -> FailsUnless(fits, whole({Data}))
              [] ready /\ ~bytes /\ f # 0 -> Fails(Drop(TakenBefore(rs, f)) \cup LeftAt(rs, f))
              [] ready /\ ~bytes /\ f = 0 /\ ~fits -> Fails(Drop(all))
              [] OTHER -> whole({Data} \cup all)
    BY DEF ArrayFromPy
  <2> HIDE DEF rs, f, all, Drop, bytes, fits, whole, r, Good
  <2>1. CASE v.py = "none"
    <3>1. r = Done(Null, {})
      <4>1. ~ready
        BY <2>1
      <4> QED BY <2>0, <2>1, <4>1
    <3> QED BY <1>2, <2>1, <3>1
  <2>2. CASE v.py # "none" /\ ~ready
    <3>1. r = Fails({})
      BY <2>0, <2>2
    <3> QED BY <1>1, <3>1
  <2>3. CASE ready /\ v.py # "none"
    <3> HIDE DEF ready
    <3>1. \/ r = FailsUnless(fits, whole({Data}))
          \/ \E left : r = Fails(left)
          \/ fits /\ r = whole({Data} \cup all)
      BY <2>0, <2>3
    <3> QED BY <1>1, <1>3, <1>4, <3>1
  <2> QED BY <2>1, <2>2, <2>3
<1> QED BY <1>5

LEMMA KeptList ==
  ASSUME NEW e, NEW v, e.tag \in {"glist", "gslist"}
  PROVE  Kept(e, v, ListFromPy(e, v))
<1>0. e.tag \notin IntTags
  BY DEF IntTags
<1>1. v.items = << >> => Kept(e, v, Done(Null, {}))
  BY <1>0, Kinds DEF Kept
<1>2. /\ \A left : Kept(e, v, Fails(left)) /\ \A took : Kept(e, v, Done(Own, took))
      /\ v.py = "none" => Kept(e, v, Done(Null, {}))
  BY <1>0, KeptPlain
<1> QED BY <1>1, <1>2 DEF ListFromPy

LEMMA KeptHash ==
  ASSUME NEW e, NEW v, e.tag = "ghash"
  PROVE  Kept(e, v, HashFromPy(e, v))
<1>0. e.tag \notin IntTags
  BY DEF IntTags
<1>2. /\ \A left : Kept(e, v, Fails(left)) /\ \A took : Kept(e, v, Done(Own, took))
      /\ v.py = "none" => Kept(e, v, Done(Null, {}))
  BY <1>0, KeptPlain
<1> QED BY <1>2 DEF HashFromPy

LEMMA KeptCallback ==
  ASSUME NEW e, NEW v, NEW userData, e.tag = "callback"
  PROVE  Kept(e, v, CallbackFromPy(e, v, userData))
<1>0. e.tag \notin IntTags
  BY DEF IntTags
<1>1. Kept(e, v, [Done(Own, {Data}) EXCEPT !.data = TRUE])
  <2>1. [Done(Own, {Data}) EXCEPT !.data = TRUE].c = Own
    BY DEF Done
  <2> QED BY <1>0, <2>1, Kinds DEF Kept
<1>2. /\ \A left : Kept(e, v, Fails(left))
      /\ v.py = "none" => Kept(e, v, Done(Null, {}))
      /\ \A ok, r : Kept(e, v, r) => Kept(e, v, FailsUnless(ok, r))
  BY <1>0, KeptPlain
<1> QED BY <1>1, <1>2 DEF CallbackFromPy

LEMMA MarshalKept ==
  ASSUME NEW e, NEW v, NEW lengthTag, NEW userData
  PROVE  LET r == FromPyMarshal(e, v, lengthTag, userData)
         IN  /\ Kept(e, v, r)
             /\ r.ok /\ e.tag = "array" /\ e.len >= 0 /\ v.py # "none" =>
                  r.length = LengthOf(v) /\ LengthFits(LengthOf(v), lengthTag)
<1>1. CASE e.tag = "array"
  BY <1>1, KeptArray DEF FromPyMarshal
<1>2. CASE e.tag \in {"glist", "gslist"}
  BY <1>2, KeptList DEF FromPyMarshal
<1>3. CASE e.tag = "ghash"
  BY <1>3, KeptHash DEF FromPyMarshal
<1>4. CASE e.tag = "callback"
  BY <1>4, KeptCallback DEF FromPyMarshal
<1>5. CASE e.tag \notin {"array", "glist", "gslist", "ghash", "callback"}
  <2>1. FromPyMarshal(e, v, lengthTag, userData) = ScalarFromPy(e, v)
    BY <1>5 DEF FromPyMarshal
  <2>2. Kept(e, v, ScalarFromPy(e, v))
    BY KeptInteger, KeptScalar
  <2> QED BY <1>5, <2>1, <2>2
<1> QED BY <1>1, <1>2, <1>3, <1>4, <1>5

LEMMA LengthIsInt ==
  ASSUME NEW v, v.n \in Int, v.items \in Seq(Range(v.items))
  PROVE  /\ LengthOf(v) \in Int
         /\ \A tag : LengthFits(LengthOf(v), tag) => LengthOf(v) >= 0
<1>1. LengthOf(v) \in Int
  <2>1. Len(v.items) \in Nat
    OBVIOUS
  <2>2. RankOf(Len(v.items)) \in Int
    BY <2>1, RanksAre DEF RankOf
  <2> QED BY <2>2 DEF LengthOf
<1>2. ASSUME NEW tag, LengthFits(LengthOf(v), tag)
      PROVE  LengthOf(v) >= 0
  <2>1. tag \in IntTags /\ Lowest[tag] <= LengthOf(v)
    BY <1>2 DEF LengthFits, InRange
  <2>2. Lowest[tag] \in Nat
    BY <2>1, RanksAre
  <2> QED BY <1>1, <2>1, <2>2
<1> QED BY <1>1, <1>2

LEMMA OwnedIs ==
  ASSUME NEW e, NEW v, NEW r, r.ok, Kept(e, v, r)
  PROVE  Fits(e, v, Owned(r.c), pos) /\ (Owned(r.c).k = "own" => r.c = Own)
<1>1. CASE r.c \in {Own, Borrowed}
  <2>1. Owned(r.c) = [r.c EXCEPT !.n = pos]
    BY <1>1 DEF Owned
  <2>2. Owned(r.c).k = r.c.k /\ Owned(r.c).n = pos
    BY <1>1, <2>1 DEF Own, Borrowed
  <2>3. ~(e.tag \in IntTags /\ v.py = "int")
    BY <1>1, Kinds DEF Kept
  <2>4. Owned(r.c) # Null
    BY <1>1, <2>2, Kinds
  <2> QED BY <1>1, <2>2, <2>3, <2>4, Kinds DEF Fits
<1>2. CASE r.c \notin {Own, Borrowed}
  <2>1. Owned(r.c) = r.c
    BY <1>2 DEF Owned
  <2>2. r.c.k \notin {"own", "borrowed"}
    BY <1>2 DEF Kept
  <2> QED BY <2>1, <2>2 DEF Kept, Fits
<1> QED BY <1>1, <1>2

LEMMA MarshalledKept ==
  ASSUME NEW e, NEW v, v.n \in Int, v.items \in Seq(Range(v.items)), NEW ud, Marshalled(e, v, ud).ok
  PROVE  LET r == Marshalled(e, v, ud)
         IN  /\ Fits(e, v, Owned(r.c), pos) /\ (Owned(r.c).k = "own" => r.c = Own)
             /\ e.tag = "array" /\ e.len >= 0 /\ v.py # "none" => r.length = LengthOf(v) /\ r.length >= 0
<1> DEFINE r == Marshalled(e, v, ud)
<1>1. r = FromPyMarshal(e, v, LengthTag(e), ud)
  BY Kinds DEF Marshalled
<1> HIDE DEF r
<1>2. /\ Kept(e, v, r) /\ r.ok
      /\ e.tag = "array" /\ e.len >= 0 /\ v.py # "none" =>
           r.length = LengthOf(v) /\ LengthFits(LengthOf(v), LengthTag(e))
  BY <1>1, MarshalKept DEF r
<1>3. Fits(e, v, Owned(r.c), pos) /\ (Owned(r.c).k = "own" => r.c = Own)
  BY <1>2, OwnedIs
<1>4. e.tag = "array" /\ e.len >= 0 /\ v.py # "none" => r.length = LengthOf(v) /\ r.length >= 0
  BY <1>2, LengthIsInt
<1> QED BY <1>3, <1>4 DEF r

\* What a marshaller writes for its children, in their slots.
LEMMA ChildWritesAre ==
  ASSUME Regular(sig), CacheOK(sig, cache, Count(sig)), NEW i \in Numbers(sig), NEW e, e = cache.args[i],
         e.meta = "parent", FromPython(e.dir), NEW r, r.length = -1 \/ (e.tag = "array" /\ e.len >= 0),
         NEW W, W = ChildWrites(e, i, r)
  PROVE  /\ \A k \in DOMAIN W : W[k].k # "ref"
         /\ r.length >= 0 => /\ InSlot(e.len) \in DOMAIN W
                             /\ W[InSlot(e.len)] = Num(r.length)
         /\ e.tag = "callback" /\ r.c = Own /\ e.ud > 0 =>
              /\ InSlot(e.ud) \in DOMAIN W
              /\ W[InSlot(e.ud)] = ClosureOf(i)
         /\ e.tag = "callback" /\ r.c = Own /\ e.destroy > 0 =>
              /\ InSlot(e.destroy) \in DOMAIN W
              /\ W[InSlot(e.destroy)] = NoticeOf(e, i)
<1> DEFINE length == IF r.length >= 0 THEN Only(cache.args[e.len].c, Num(r.length)) ELSE Empty
           userData == IF e.tag = "callback" /\ r.c = Own /\ e.ud > 0
                       THEN Only(cache.args[e.ud].c, [k |-> "closure", n |-> i]) ELSE Empty
           notice == [k |-> IF NeedsDummy(e) THEN "dummy" ELSE "notify", n |-> i]
           destroy == IF e.tag = "callback" /\ r.c = Own /\ e.destroy > 0
                      THEN Only(cache.args[e.destroy].c, notice) ELSE Empty
<1>1. W = (length ++ userData) ++ destroy
  BY DEF ChildWrites
<1>2. r.length >= 0 => length = Only(cache.args[e.len].c, Num(r.length))
  OBVIOUS
<1>3. ~(r.length >= 0) => length = Empty
  OBVIOUS
<1>4. e.tag = "callback" /\ r.c = Own /\ e.ud > 0 => userData = Only(cache.args[e.ud].c, [k |-> "closure", n |-> i])
  OBVIOUS
<1>5. ~(e.tag = "callback" /\ r.c = Own /\ e.ud > 0) => userData = Empty
  OBVIOUS
<1>6. e.tag = "callback" /\ r.c = Own /\ e.destroy > 0 => destroy = Only(cache.args[e.destroy].c, notice)
  OBVIOUS
<1>7. ~(e.tag = "callback" /\ r.c = Own /\ e.destroy > 0) => destroy = Empty
  OBVIOUS
<1>8. notice.k # "ref"
  OBVIOUS
<1>9. notice = [k |-> IF NeedsDummy(e) THEN "dummy" ELSE "notify", n |-> i]
  OBVIOUS
<1> HIDE DEF length, userData, destroy, notice
<1>10. /\ \A k \in DOMAIN length : length[k].k # "ref"
       /\ \A k \in DOMAIN userData : userData[k].k # "ref"
       /\ \A k \in DOMAIN destroy : destroy[k].k # "ref"
  <2>1. \A k \in DOMAIN length : length[k].k # "ref"
    BY <1>2, <1>3, Kinds DEF Only, Empty
  <2>2. \A k \in DOMAIN userData : userData[k].k # "ref"
    BY <1>4, <1>5 DEF Only, Empty
  <2>3. \A k \in DOMAIN destroy : destroy[k].k # "ref"
    BY <1>6, <1>7, <1>8 DEF Only, Empty
  <2> QED BY <2>1, <2>2, <2>3
<1>11. /\ DOMAIN W = DOMAIN length \cup DOMAIN userData \cup DOMAIN destroy
       /\ \A k \in DOMAIN length : W[k] = length[k]
       /\ \A k \in DOMAIN userData : k \notin DOMAIN length => W[k] = userData[k]
       /\ \A k \in DOMAIN destroy : k \notin DOMAIN length /\ k \notin DOMAIN userData => W[k] = destroy[k]
  BY <1>1 DEF ++
<1>12. \A k \in DOMAIN W : W[k].k # "ref"
  BY <1>10, <1>11
<1>13. e.tag \in {"array", "callback"} => i \in ArgsOf(sig)
  BY Parents
<1>14. ASSUME i \in ArgsOf(sig), NEW l, Owns(sig, i, l)
       PROVE  l \in Ins(sig) /\ cache.args[l].c = InSlot(l)
  <2>1. l \in Numbers(sig) /\ l # i /\ (l \in Ins(sig) => cache.args[l].c = Below(Ins(sig), l))
    BY <1>14, ChildSlot
  <2>2. l \in Ins(sig)
    <3>1. WayOf(sig, l) = WayOf(sig, i) \/ WayOf(sig, l) = "from"
      BY <1>14, Owners DEF Owns, LengthRegular, BehindRegular
    <3>2. FromPython(WayOf(sig, i))
      BY Ready
    <3> QED BY <2>1, <3>1, <3>2 DEF Ins, FromPython
  <2> QED BY <2>1, <2>2 DEF InSlot
<1>15. r.length >= 0 => InSlot(e.len) \in DOMAIN W /\ W[InSlot(e.len)] = Num(r.length)
  <2> SUFFICES ASSUME r.length >= 0 PROVE InSlot(e.len) \in DOMAIN W /\ W[InSlot(e.len)] = Num(r.length)
    OBVIOUS
  <2>1. cache.args[e.len].c = InSlot(e.len)
    BY <1>13, <1>14, Parents
  <2>2. length = Only(InSlot(e.len), Num(r.length))
    BY <1>2, <2>1
  <2> QED BY <1>11, <2>2 DEF Only
<1>16. ASSUME e.tag = "callback", r.c = Own, e.ud > 0
       PROVE  InSlot(e.ud) \in DOMAIN W /\ W[InSlot(e.ud)] = [k |-> "closure", n |-> i]
  <2>1. length = Empty
    BY <1>3, <1>16
  <2>2. e.ud >= 0
    <3>1. e.ud \in Int
      BY <1>13, <1>16, Parents, Owners, Ways DEF Described
    <3> QED BY <1>16, <3>1
  <2>3. cache.args[e.ud].c = InSlot(e.ud)
    BY <1>13, <1>14, <1>16, <2>2, Parents
  <2>4. userData = Only(InSlot(e.ud), [k |-> "closure", n |-> i])
    BY <1>4, <1>16, <2>3
  <2> QED BY <1>11, <2>1, <2>4 DEF Only, Empty
<1>17. ASSUME e.tag = "callback", r.c = Own, e.destroy > 0
       PROVE  InSlot(e.destroy) \in DOMAIN W /\ W[InSlot(e.destroy)] = notice
  <2>1. length = Empty
    BY <1>3, <1>17
  <2>2. e.destroy >= 0 /\ (e.ud > 0 => e.ud >= 0)
    <3>1. e.destroy \in Int /\ e.ud \in Int
      BY <1>13, <1>17, Parents, Owners, Ways DEF Described
    <3> QED BY <1>17, <3>1
  <2>3. e.destroy \in Ins(sig) /\ cache.args[e.destroy].c = InSlot(e.destroy)
    BY <1>13, <1>14, <1>17, <2>2, Parents
  <2>4. destroy = Only(InSlot(e.destroy), notice)
    BY <1>6, <1>17, <2>3
  <2>5. InSlot(e.destroy) \notin DOMAIN userData
    <3>1. CASE e.ud > 0
      <4>1. /\ HasUserData(sig, i) /\ e.ud = UserDataAt(sig, i) /\ Owns(sig, i, e.ud)
            /\ HasDestroy(sig, i) /\ e.destroy = DestroyAt(sig, i)
        BY <1>17, <2>2, <3>1, Parents
      <4>2. e.ud # e.destroy
        BY <1>13, <1>17, <4>1, Owners
      <4>3. e.ud \in Ins(sig) /\ cache.args[e.ud].c = InSlot(e.ud)
        BY <1>13, <1>14, <1>17, <4>1
      <4>4. InSlot(e.ud) # InSlot(e.destroy)
        BY <2>3, <4>2, <4>3, SlotsApart
      <4>5. userData = Only(InSlot(e.ud), [k |-> "closure", n |-> i])
        BY <1>4, <1>17, <3>1, <4>3
      <4> QED BY <4>4, <4>5 DEF Only
    <3>2. CASE ~(e.ud > 0)
      BY <1>5, <3>2 DEF Empty
    <3> QED BY <3>1, <3>2
  <2> QED BY <1>11, <2>1, <2>4, <2>5 DEF Only, Empty
<1> QED BY <1>9, <1>12, <1>15, <1>16, <1>17 DEF ClosureOf, NoticeOf

-----------------------------------------------------------------------------
(* Children *)

LEMMA MineIs ==
  ASSUME Regular(sig), CacheOK(sig, cache, Count(sig)), NEW i, NEW l, Mine(i, l)
  PROVE  /\ i \in Numbers(sig) /\ l \in Numbers(sig) /\ l # i /\ cache.args[l].meta \in {"child", "childPy"}
         /\ \A j : Mine(j, l) => j = i
         /\ FromPython(cache.args[i].dir) => l \in Ins(sig)
<1>1. i \in Numbers(sig) /\ cache.args[i].dir = WayOf(sig, i)
  BY Ready, Ways DEF Mine
<1>2. l \in Numbers(sig) /\ l # i /\ cache.args[l].meta \in {"child", "childPy"}
  BY ChildSlot DEF Mine
<1>3. \A j : Mine(j, l) => j = i
  BY Owners DEF Mine
<1>4. WayOf(sig, l) = WayOf(sig, i) \/ WayOf(sig, l) = "from"
  BY Owners DEF Mine, Owns, LengthRegular, BehindRegular
<1> QED BY <1>1, <1>2, <1>3, <1>4 DEF Ins, FromPython

LEMMA ParentsMine ==
  ASSUME Regular(sig), CacheOK(sig, cache, Count(sig)), NEW i \in Numbers(sig), NEW e, e = cache.args[i], e.meta = "parent"
  PROVE  /\ e.tag = "array" /\ e.len >= 0 => Mine(i, e.len) /\ cache.args[e.len].dir = e.dir
         /\ e.tag = "callback" /\ e.ud > 0 => Mine(i, e.ud) /\ cache.args[e.ud].dir = "from"
         /\ e.tag = "callback" /\ e.destroy > 0 => Mine(i, e.destroy) /\ cache.args[e.destroy].dir = "from"
<1>1. e.tag \in {"array", "callback"} => i \in ArgsOf(sig)
  BY Parents
<1>2. ASSUME NEW l, Mine(i, l)
      PROVE  l \in Numbers(sig) /\ cache.args[l].dir = WayOf(sig, l) /\ e.dir = WayOf(sig, i)
  BY <1>2, MineIs, Ready
<1>3. ASSUME e.tag = "array", e.len >= 0
      PROVE  Mine(i, e.len) /\ cache.args[e.len].dir = e.dir
  <2>1. Mine(i, e.len) /\ HasLengthArg(sig, i) /\ e.len = LengthAt(sig, i)
    BY <1>1, <1>3, Parents DEF Mine
  <2>2. WayOf(sig, e.len) = WayOf(sig, i)
    BY <2>1, Owners DEF Mine, LengthRegular
  <2> QED BY <1>2, <2>1, <2>2
<1>4. ASSUME e.tag = "callback", e.ud > 0
      PROVE  Mine(i, e.ud) /\ cache.args[e.ud].dir = "from"
  <2>1. e.ud >= 0
    <3>1. e.ud \in Int
      BY <1>1, <1>4, Parents, Owners, Ways DEF Described
    <3> QED BY <1>4, <3>1
  <2>2. Mine(i, e.ud) /\ HasUserData(sig, i) /\ e.ud = UserDataAt(sig, i)
    BY <1>1, <1>4, <2>1, Parents DEF Mine
  <2>3. WayOf(sig, e.ud) = "from"
    BY <2>2, Owners DEF Mine, BehindRegular
  <2> QED BY <1>2, <2>2, <2>3
<1>5. ASSUME e.tag = "callback", e.destroy > 0
      PROVE  Mine(i, e.destroy) /\ cache.args[e.destroy].dir = "from"
  <2>1. e.destroy >= 0
    <3>1. e.destroy \in Int
      BY <1>1, <1>5, Parents, Owners, Ways DEF Described
    <3> QED BY <1>5, <3>1
  <2>2. Mine(i, e.destroy) /\ HasDestroy(sig, i) /\ e.destroy = DestroyAt(sig, i)
    BY <1>1, <1>5, <2>1, Parents DEF Mine
  <2>3. WayOf(sig, e.destroy) = "from"
    BY <2>2, Owners DEF Mine, BehindRegular
  <2> QED BY <1>2, <2>2, <2>3
<1> QED BY <1>3, <1>4, <1>5

-----------------------------------------------------------------------------
(* A step keeps what the arguments before it have been given *)

LEMMA FilledKept ==
  ASSUME Regular(sig), CacheOK(sig, cache, Count(sig)), NEW p \in Numbers(sig), Frame(p),
         NEW i \in Numbers(sig), i < p, Filled(i)
  PROVE  Filled(i)'
<1> DEFINE e == cache.args[i]
<1>1. /\ i # p /\ (Mine(p, i) => e.meta \in {"child", "childPy"})
      /\ FromPython(e.dir) => i \in Ins(sig)
      /\ ToPython(e.dir) => i \in ToOnes(sig)
  <2>1. e.dir = WayOf(sig, i)
    BY Ready
  <2>2. i # p
    BY Ways DEF Numbers
  <2> QED BY <2>1, <2>2, MineIs DEF Ins, ToOnes
<1>2. InSlot(i)' = InSlot(i) /\ OutSlot(i)' = OutSlot(i)
  BY DEF Frame, InSlot, OutSlot
<1>3. ASSUME NEW c, Carries(i, c)
      PROVE  Carries(i, c)'
  BY <1>1, <1>3 DEF Carries, Frame
<1>4. ASSUME e.dir = "from", e.meta = "parent"
      PROVE  Carries(i, inArgs[InSlot(i)])'
  <2>1. i \in Ins(sig) /\ ~Mine(p, i) /\ Carries(i, inArgs[InSlot(i)])
    BY <1>1, <1>4 DEF FromPython, Filled
  <2>2. inArgs'[InSlot(i)] = inArgs[InSlot(i)]
    BY <1>1, <2>1 DEF Frame
  <2>3. PICK c : c = inArgs[InSlot(i)]
    OBVIOUS
  <2>4. Carries(i, c)'
    BY <1>3, <2>1, <2>3
  <2> QED BY <1>2, <2>2, <2>3, <2>4 DEF Carries
<1>5. ASSUME e.meta = "closure"
      PROVE  inArgs'[InSlot(i)].k = "user data"
  <2>1. e.meta = Meta(sig, Count(sig), i) /\ e.dir = WayOf(sig, i)
    BY Ready
  <2>2. IsClosure(sig, i)
    BY <1>5, <2>1 DEF Meta
  <2>3. e.dir = "from"
    BY <2>1, <2>2 DEF Regular, IsClosure
  <2>4. i \in Ins(sig) /\ ~Mine(p, i)
    BY <1>1, <1>5, <2>3 DEF FromPython
  <2> QED BY <1>1, <1>5, <2>4 DEF Frame, Filled
<1>6. ASSUME e.dir = "both"
      PROVE  inArgs'[InSlot(i)] = Ref(OutSlot(i)) /\ (e.meta = "parent" => Carries(i, outVals[OutSlot(i)])')
  <2>1. i \in Ins(sig) /\ i \in ToOnes(sig)
    BY <1>1, <1>6 DEF FromPython, ToPython
  <2>2. inArgs'[InSlot(i)] = inArgs[InSlot(i)]
    BY <1>1, <1>6, <2>1 DEF Frame
  <2>3. ASSUME e.meta = "parent" PROVE Carries(i, outVals[OutSlot(i)])'
    <3>1. ~Mine(p, i) /\ Carries(i, outVals[OutSlot(i)])
      BY <1>1, <1>6, <2>3 DEF Filled
    <3>2. outVals'[OutSlot(i)] = outVals[OutSlot(i)]
      BY <1>1, <2>1, <3>1 DEF Frame
    <3>3. PICK c : c = outVals[OutSlot(i)]
      OBVIOUS
    <3>4. Carries(i, c)'
      BY <1>3, <3>1, <3>3
    <3> QED BY <1>2, <3>2, <3>3, <3>4 DEF Carries
  <2> QED BY <1>6, <2>2, <2>3 DEF Filled
<1>7. ASSUME ToPython(e.dir)
      PROVE  outArgs'[OutSlot(i)] = outArgs[OutSlot(i)]
  BY <1>1, <1>7 DEF Frame
<1>8. cache' = cache
  BY DEF Frame
<1>9. e.dir = "both" => ToPython(e.dir)
  BY DEF ToPython
<1> HIDE DEF Frame, Carries
<1> QED BY <1>2, <1>4, <1>5, <1>6, <1>7, <1>8, <1>9 DEF Filled, Ref

LEMMA ParentHere ==
  ASSUME Regular(sig), CacheOK(sig, cache, Count(sig)), NEW p \in Numbers(sig), Frame(p), pos = p,
         NEW i \in Numbers(sig), i < p, NEW l, Mine(i, l)
  PROVE  /\ l \in Int /\ i # p /\ ~Mine(p, l) /\ (FromPython(cache.args[i].dir) => l \in Ins(sig))
         /\ cache.args[l].dir \in {"from", "both"} => l \in Ins(sig)
         /\ cache.args[l].dir = "both" => l \in ToOnes(sig)
         /\ l # p /\ l \in Ins(sig) => inArgs'[InSlot(l)] = inArgs[InSlot(l)]
         /\ l # p /\ l \in ToOnes(sig) => outVals'[OutSlot(l)] = outVals[OutSlot(l)]
         /\ l = p => /\ cache.args[l].dir = "from" => inArgs'[InSlot(l)] = inArgs[InSlot(l)]
                     /\ cache.args[l].dir = "both" => outVals'[OutSlot(l)] = inArgs[InSlot(l)]
<1>1. i \in Int /\ p \in Int /\ i # p
  BY Ways
<1>2. l \in Numbers(sig) /\ cache.args[l].meta \in {"child", "childPy"} /\ (\A j : Mine(j, l) => j = i)
  BY MineIs
<1>3. l \in Int /\ cache.args[l].dir = WayOf(sig, l)
  BY <1>2, Ways, Ready
<1>4. ~Mine(p, l)
  BY <1>1, <1>2
<1>5. FromPython(cache.args[i].dir) => l \in Ins(sig)
  BY MineIs
<1>6. /\ cache.args[l].dir \in {"from", "both"} => l \in Ins(sig)
      /\ cache.args[l].dir = "both" => l \in ToOnes(sig)
  BY <1>2, <1>3 DEF Ins, ToOnes, FromPython, ToPython
<1> QED BY <1>1, <1>2, <1>3, <1>4, <1>5, <1>6 DEF Frame

LEMMA LengthPutKept ==
  ASSUME Regular(sig), CacheOK(sig, cache, Count(sig)), NEW p \in Numbers(sig), Frame(p), pos = p,
         NEW i \in Numbers(sig), i < p, Filled(i), LengthPut(i)
  PROVE  LengthPut(i)'
<1> DEFINE e == cache.args[i]
           l == e.len
<1>1. cache' = cache /\ pos' = p + 1 /\ sig' = sig
  BY DEF Frame
<1>2. \A j : InSlot(j)' = InSlot(j) /\ OutSlot(j)' = OutSlot(j)
  BY <1>1 DEF InSlot, OutSlot
<1>3. SUFFICES ASSUME e.meta = "parent", FromPython(e.dir), e.tag = "array", e.len >= 0, value'[i].py # "none"
               PROVE  (IF e.dir = "both" /\ l < pos' THEN outVals'[OutSlot(l)] ELSE inArgs'[InSlot(l)])
                        = Num(LengthOf(value'[i]))
  <2> HIDE DEF e, l
  <2> QED BY <1>1, <1>2 DEF LengthPut, e, l
<1>4. Mine(i, l) /\ cache.args[l].dir = e.dir
  BY <1>3, ParentsMine
<1>5. i \in DOMAIN value /\ i # p
  <2>1. i \in DOMAIN value
    BY <1>3 DEF Filled, Carries, FromPython
  <2> QED BY <2>1, Ways
<1>6. value'[i] = value[i]
  BY <1>5 DEF Frame
<1>7. (IF e.dir = "both" /\ l < pos THEN outVals[OutSlot(l)] ELSE inArgs[InSlot(l)]) = Num(LengthOf(value[i]))
  BY <1>3, <1>6 DEF LengthPut
<1>8. /\ l \in Int /\ l \in Ins(sig) /\ (e.dir = "both" => l \in ToOnes(sig))
      /\ l # p => inArgs'[InSlot(l)] = inArgs[InSlot(l)]
      /\ l # p /\ l \in ToOnes(sig) => outVals'[OutSlot(l)] = outVals[OutSlot(l)]
      /\ l = p /\ e.dir = "from" => inArgs'[InSlot(l)] = inArgs[InSlot(l)]
      /\ l = p /\ e.dir = "both" => outVals'[OutSlot(l)] = inArgs[InSlot(l)]
  <2> HIDE DEF e, l
  <2> QED BY <1>3, <1>4, ParentHere DEF e
<1>9. p \in Int
  BY Ways
<1>10. e.dir \in {"from", "both"}
  BY <1>3 DEF FromPython
<1> HIDE DEF e, l
<1>11. CASE l = p
  BY <1>1, <1>6, <1>7, <1>8, <1>9, <1>10, <1>11
<1>12. CASE l # p
  <2>1. l < pos <=> l < pos'
    BY <1>1, <1>8, <1>9, <1>12
  <2> QED BY <1>6, <1>7, <1>8, <1>10, <1>12, <2>1
<1> QED BY <1>11, <1>12

LEMMA CallbackPutKept ==
  ASSUME Regular(sig), CacheOK(sig, cache, Count(sig)), NEW p \in Numbers(sig), Frame(p), pos = p,
         NEW i \in Numbers(sig), i < p, CallbackPut(i)
  PROVE  CallbackPut(i)'
<1> DEFINE e == cache.args[i]
<1>1. cache' = cache /\ sig' = sig
  BY DEF Frame
<1>2. \A j : InSlot(j)' = InSlot(j)
  BY <1>1 DEF InSlot
<1>3. SUFFICES ASSUME e.meta = "parent", e.dir = "from", e.tag = "callback", inArgs'[InSlot(i)].k = "own"
               PROVE  /\ e.ud > 0 => inArgs'[InSlot(e.ud)] = ClosureOf(i)
                      /\ e.destroy > 0 => inArgs'[InSlot(e.destroy)] = NoticeOf(e, i)
  <2> HIDE DEF e
  <2> QED BY <1>1, <1>2 DEF CallbackPut, e, ClosureOf, NoticeOf, NeedsDummy
<1>4. i \in Ins(sig) /\ i # p /\ ~Mine(p, i)
  <2>1. e.dir = WayOf(sig, i)
    BY Ready
  <2> QED BY <1>3, <2>1, Ways, MineIs DEF Ins, FromPython
<1>5. inArgs'[InSlot(i)] = inArgs[InSlot(i)]
  BY <1>4 DEF Frame
<1>6. ASSUME NEW l, Mine(i, l), cache.args[l].dir = "from"
      PROVE  inArgs'[InSlot(l)] = inArgs[InSlot(l)]
  BY <1>6, ParentHere
<1>7. e.ud > 0 => inArgs'[InSlot(e.ud)] = inArgs[InSlot(e.ud)]
  BY <1>3, <1>6, ParentsMine
<1>8. e.destroy > 0 => inArgs'[InSlot(e.destroy)] = inArgs[InSlot(e.destroy)]
  BY <1>3, <1>6, ParentsMine
<1> QED BY <1>3, <1>5, <1>7, <1>8 DEF CallbackPut

LEMMA ArriveStep ==
  ASSUME TypeInv, Arriving, pc = "in", pos < cache.n, Step, NEW p, p = pos, Frame(p),
         Filled(p)', LengthPut(p)', CallbackPut(p)'
  PROVE  Arriving'
<1>1. pc \in {"cached"} \cup Calling
  BY DEF Calling
<1>2. /\ Regular(sig) /\ CacheOK(sig, cache, Count(sig)) /\ p \in 0 .. cache.n - 1 /\ p \in Int
      /\ Numbers(sig) = 0 .. cache.n - 1
  BY <1>1, During, Ready
<1>3. /\ pos' = p + 1 /\ sig' = sig /\ cache' = cache
      /\ DOMAIN inArgs' = DOMAIN inArgs /\ DOMAIN outArgs' = DOMAIN outArgs /\ DOMAIN outVals' = DOMAIN outVals
  BY DEF Frame
<1>4. pc' = "call" => pos' = cache.n
  BY <1>3, StepIs
<1>5. /\ DOMAIN inArgs = 0 .. cache.nFrom - 1 /\ DOMAIN outArgs = 0 .. cache.nTo - 1 /\ DOMAIN outVals = 0 .. cache.nTo - 1
      /\ \A i \in Numbers(sig) : i < p => Filled(i) /\ LengthPut(i) /\ CallbackPut(i)
      /\ \A j \in Ins(sig) : j >= p => inArgs[InSlot(j)].k # "ref"
  BY DEF Arriving
<1>6. ASSUME NEW i \in Numbers(sig), i < p + 1
      PROVE  Filled(i)' /\ LengthPut(i)' /\ CallbackPut(i)'
  <2>1. CASE i = p
    BY <2>1
  <2>2. CASE i < p
    BY <1>2, <1>5, <2>2, FilledKept, LengthPutKept, CallbackPutKept
  <2> QED BY <1>2, <1>6, <2>1, <2>2
<1>7. ASSUME NEW j \in Ins(sig), j >= p + 1
      PROVE  inArgs'[InSlot(j)].k # "ref"
  <2>1. j \in Int /\ j > p /\ j >= p /\ j # p
    BY <1>2, <1>7 DEF Ins
  <2>2. inArgs[InSlot(j)].k # "ref"
    BY <1>5, <2>1
  <2>3. inArgs'[InSlot(j)] = inArgs[InSlot(j)] \/ inArgs'[InSlot(j)].k # "ref"
    BY <2>1 DEF Frame
  <2> QED BY <2>2, <2>3
<1>8. \A j : InSlot(j)' = InSlot(j)
  BY <1>3 DEF InSlot
<1> HIDE DEF Frame
<1> QED BY <1>3, <1>4, <1>5, <1>6, <1>7, <1>8 DEF Arriving

\* What holds at the turn of an argument.
LEMMA AtTurn ==
  ASSUME TypeInv, Arriving, pc = "in", pos < cache.n, NEW p, p = pos
  PROVE  /\ Regular(sig) /\ CacheOK(sig, cache, Count(sig)) /\ p \in Numbers(sig) /\ p \in Int
         /\ p \in 0 .. cache.n - 1 /\ cache.args[p].dir = WayOf(sig, p)
         /\ InCount(p) = InSlot(p) /\ OutCount(p) = OutSlot(p)
         /\ FromPython(cache.args[p].dir) <=> p \in Ins(sig)
         /\ ToPython(cache.args[p].dir) <=> p \in ToOnes(sig)
         /\ DOMAIN inArgs = 0 .. cache.nFrom - 1 /\ DOMAIN outArgs = 0 .. cache.nTo - 1 /\ DOMAIN outVals = 0 .. cache.nTo - 1
         /\ \A j \in Ins(sig) : InSlot(j) \in DOMAIN inArgs
         /\ \A j \in ToOnes(sig) : OutSlot(j) \in DOMAIN outArgs /\ OutSlot(j) \in DOMAIN outVals
         /\ \A i \in Ins(sig), j \in Ins(sig) : InSlot(i) = InSlot(j) => i = j
         /\ \A i \in ToOnes(sig), j \in ToOnes(sig) : OutSlot(i) = OutSlot(j) => i = j
<1>1. pc \in {"cached"} \cup Calling
  BY DEF Calling
<1>2. Regular(sig) /\ CacheOK(sig, cache, Count(sig)) /\ p \in 0 .. cache.n - 1 /\ p \in Int
  BY <1>1, During
<1>3. /\ p \in Numbers(sig) /\ cache.args[p].dir = WayOf(sig, p)
      /\ InCount(p) = InSlot(p) /\ OutCount(p) = OutSlot(p)
      /\ FromPython(cache.args[p].dir) <=> p \in Ins(sig)
      /\ ToPython(cache.args[p].dir) <=> p \in ToOnes(sig)
  BY <1>2, SlotOf DEF InSlot, OutSlot
<1>4. DOMAIN inArgs = 0 .. cache.nFrom - 1 /\ DOMAIN outArgs = 0 .. cache.nTo - 1 /\ DOMAIN outVals = 0 .. cache.nTo - 1
  BY DEF Arriving
<1>5. /\ \A j \in Ins(sig) : InSlot(j) \in 0 .. cache.nFrom - 1
      /\ \A j \in ToOnes(sig) : OutSlot(j) \in 0 .. cache.nTo - 1
  BY <1>2, SlotBounds DEF Ins, ToOnes, InSlot, OutSlot
<1>6. /\ \A i \in Ins(sig), j \in Ins(sig) : InSlot(i) = InSlot(j) => i = j
      /\ \A i \in ToOnes(sig), j \in ToOnes(sig) : OutSlot(i) = OutSlot(j) => i = j
  BY <1>2, SlotsApart
<1> QED BY <1>2, <1>3, <1>4, <1>5, <1>6

LEMMA NothingArrives ==
  ASSUME TypeInv, Arriving, MarshalNothing
  PROVE  Arriving'
<1> DEFINE p == pos
           e == cache.args[p]
           data == [k |-> "user data", n |-> 0]
<1>1. /\ pc = "in" /\ pos < cache.n /\ Step /\ e.dir = "from" /\ e.meta # "parent"
      /\ sig' = sig /\ cache' = cache /\ bound' = bound /\ value' = value /\ source' = source
      /\ outArgs' = outArgs /\ outVals' = outVals
      /\ inArgs' = IF e.meta = "closure" THEN [inArgs EXCEPT ![InCount(p)] = data] ELSE inArgs
  BY DEF MarshalNothing, outvars, callvars, Slot
<1>2. pos' = pos + 1
  BY <1>1, StepIs
<1>3. PICK q : q = pos
  OBVIOUS
<1>4. /\ Regular(sig) /\ CacheOK(sig, cache, Count(sig)) /\ q \in Numbers(sig)
      /\ InCount(q) = InSlot(q) /\ q \in Ins(sig) /\ \A j \in Ins(sig) : InSlot(j) \in DOMAIN inArgs
      /\ \A i \in Ins(sig), j \in Ins(sig) : InSlot(i) = InSlot(j) => i = j
  <2>1. FromPython(cache.args[q].dir)
    BY <1>1, <1>3 DEF FromPython
  <2> HIDE DEF p, e
  <2> QED BY <1>1, <1>3, <2>1, AtTurn
<1>5. /\ cache.args[q].meta = "closure" => inArgs' = [inArgs EXCEPT ![InSlot(q)] = data]
      /\ cache.args[q].meta # "closure" => inArgs' = inArgs
  BY <1>1, <1>3, <1>4
<1>6. /\ DOMAIN inArgs' = DOMAIN inArgs
      /\ \A j \in Ins(sig) : j # q => inArgs'[InSlot(j)] = inArgs[InSlot(j)]
      /\ cache.args[q].meta = "closure" => inArgs'[InSlot(q)].k = "user data"
  <2>1. CASE cache.args[q].meta = "closure"
    <3> HIDE DEF data
    <3>1. inArgs' = [inArgs EXCEPT ![InSlot(q)] = data]
      BY <1>5, <2>1
    <3>2. DOMAIN inArgs' = DOMAIN inArgs /\ inArgs'[InSlot(q)] = data
      BY <1>4, <3>1
    <3>3. ASSUME NEW k, k # InSlot(q), k \in DOMAIN inArgs
          PROVE  inArgs'[k] = inArgs[k]
      BY <3>1, <3>3
    <3>4. ASSUME NEW j \in Ins(sig), j # q
          PROVE  InSlot(j) # InSlot(q) /\ InSlot(j) \in DOMAIN inArgs
      BY <1>4, <3>4
    <3>5. \A j \in Ins(sig) : j # q => inArgs'[InSlot(j)] = inArgs[InSlot(j)]
      BY <3>3, <3>4
    <3>6. data.k = "user data"
      BY DEF data
    <3> QED BY <3>2, <3>5, <3>6
  <2>2. CASE cache.args[q].meta # "closure"
    BY <1>5, <2>2
  <2> QED BY <2>1, <2>2
<1>7. cache.args[q].dir = "from" /\ cache.args[q].meta # "parent"
  BY <1>1, <1>3
<1>8. Frame(q)
  <2>1. ~Mine(q, q)
    BY <1>4, MineIs
  <2> HIDE DEF p, e
  <2> QED BY <1>1, <1>2, <1>3, <1>5, <1>6, <1>7, <2>1 DEF Frame
<1>9. Filled(q)'
  <2>1. ~ToPython(cache.args[q].dir)
    BY <1>7 DEF ToPython
  <2>2. InSlot(q)' = InSlot(q)
    BY <1>1 DEF InSlot
  <2> QED BY <1>1, <1>6, <1>7, <2>1, <2>2 DEF Filled
<1>10. LengthPut(q)' /\ CallbackPut(q)'
  BY <1>1, <1>7 DEF LengthPut, CallbackPut
<1> QED BY <1>1, <1>3, <1>8, <1>9, <1>10, ArriveStep

LEMMA WritesMine ==
  ASSUME Regular(sig), CacheOK(sig, cache, Count(sig)), NEW i \in Numbers(sig), NEW e, e = cache.args[i],
         e.meta = "parent", FromPython(e.dir), NEW r, r.length = -1 \/ (e.tag = "array" /\ e.len >= 0),
         NEW W, W = ChildWrites(e, i, r)
  PROVE  /\ \A k \in DOMAIN W : \E l \in Ins(sig) : Mine(i, l) /\ l # i /\ k = InSlot(l)
         /\ \A k \in DOMAIN W : W[k].k # "ref"
         /\ e.tag # "callback" /\ ~(r.length >= 0) => DOMAIN W = {}
<1>1. e.tag # "callback" /\ ~(r.length >= 0) => DOMAIN W = {}
  <2> SUFFICES ASSUME e.tag # "callback", ~(r.length >= 0) PROVE DOMAIN W = {}
    OBVIOUS
  <2>1. W = (Empty ++ Empty) ++ Empty
    BY DEF ChildWrites
  <2> QED BY <2>1 DEF Empty, ++
<1>2. i \notin ArgsOf(sig) => e.tag = "self"
  BY Ready DEF Placed
<1>3. i \notin ArgsOf(sig) => DOMAIN W = {}
  BY <1>1, <1>2
<1>4. \A k \in DOMAIN W : \E l \in Ins(sig) : Owns(sig, i, l) /\ l # i /\ k = Below(Ins(sig), l) /\ k \in 0 .. cache.nFrom - 1
  BY ChildWritesIn
<1>5. \A k \in DOMAIN W : W[k].k # "ref"
  BY ChildWritesAre
<1> QED BY <1>1, <1>3, <1>4, <1>5 DEF Mine, InSlot

\* The (in) slots after a marshaller has written its own value and those of its children.
LEMMA WritesIn ==
  ASSUME Regular(sig), NEW p \in Ins(sig), NEW c, NEW W, NEW f, f = (Only(InSlot(p), c) ++ W) ++ inArgs,
         \A j \in Ins(sig) : InSlot(j) \in DOMAIN inArgs,
         \A k \in DOMAIN W : \E l \in Ins(sig) : Mine(p, l) /\ l # p /\ k = InSlot(l),
         \A k \in DOMAIN W : W[k].k # "ref"
  PROVE  /\ DOMAIN f = DOMAIN inArgs /\ f[InSlot(p)] = c
         /\ \A k \in DOMAIN W : f[k] = W[k]
         /\ \A j \in Ins(sig) : /\ j # p /\ InSlot(j) \notin DOMAIN W => f[InSlot(j)] = inArgs[InSlot(j)]
                                /\ j # p /\ ~Mine(p, j) => f[InSlot(j)] = inArgs[InSlot(j)]
                                /\ j # p => f[InSlot(j)] = inArgs[InSlot(j)] \/ f[InSlot(j)].k # "ref"
<1> DEFINE mine == Only(InSlot(p), c)
           both == mine ++ W
<1>1. DOMAIN mine = {InSlot(p)} /\ mine[InSlot(p)] = c
  BY DEF Only
<1>2. f = both ++ inArgs
  OBVIOUS
<1>3. /\ DOMAIN both = {InSlot(p)} \cup DOMAIN W /\ both[InSlot(p)] = c
      /\ \A k \in DOMAIN W : k # InSlot(p) => both[k] = W[k]
  <2>1. both = Only(InSlot(p), c) ++ W
    OBVIOUS
  <2> HIDE DEF both
  <2>2. DOMAIN both = {InSlot(p)} \cup DOMAIN W
    BY <2>1, OnlyDomain
  <2>3. both[InSlot(p)] = c
    BY <2>1, OnlyOver
  <2>4. \A k \in DOMAIN W : k # InSlot(p) => both[k] = W[k]
    BY <2>1, OnlyOver
  <2> QED BY <2>2, <2>3, <2>4
<1> HIDE DEF mine, both
<1>4. /\ DOMAIN f = DOMAIN both \cup DOMAIN inArgs
      /\ \A k \in DOMAIN both : f[k] = both[k]
      /\ \A k \in DOMAIN inArgs : k \notin DOMAIN both => f[k] = inArgs[k]
  BY <1>2 DEF ++
<1>5. \A i \in Ins(sig), j \in Ins(sig) : InSlot(i) = InSlot(j) => i = j
  BY SlotsApart
<1>6. \A k \in DOMAIN W : k \in DOMAIN inArgs /\ k # InSlot(p)
  BY <1>5
<1>7. DOMAIN f = DOMAIN inArgs
  <2>1. \A k : k \in DOMAIN f <=> k \in DOMAIN inArgs
    BY <1>3, <1>4, <1>6
  <2>2. DOMAIN f = DOMAIN both \cup DOMAIN inArgs
    BY <1>4
  <2>3. DOMAIN both \subseteq DOMAIN inArgs
    BY <1>3, <1>6
  <2> QED BY <2>2, <2>3
<1>8. f[InSlot(p)] = c
  BY <1>3, <1>4
<1>9. \A k \in DOMAIN W : f[k] = W[k]
  BY <1>3, <1>4, <1>6
<1>10. ASSUME NEW j \in Ins(sig), j # p, InSlot(j) \notin DOMAIN W
       PROVE  f[InSlot(j)] = inArgs[InSlot(j)]
  BY <1>3, <1>4, <1>5, <1>10
<1>11. ASSUME NEW j \in Ins(sig), ~Mine(p, j)
       PROVE  InSlot(j) \notin DOMAIN W
  BY <1>5, <1>11
<1>12. ASSUME NEW j \in Ins(sig), InSlot(j) \in DOMAIN W
       PROVE  f[InSlot(j)].k # "ref"
  BY <1>9, <1>12
<1> QED BY <1>7, <1>8, <1>9, <1>10, <1>11, <1>12

\* The results that (in) and (inout) arguments have in common.
LEMMA TurnTaken ==
  ASSUME TypeInv, Arriving, ValuesOK, pc = "in", pos < cache.n, NEW p, p = pos, NEW e, e = cache.args[p],
         NEW v \in Inputs(e), NEW ud, NEW r,
         r = IF e.py < Len(bound) THEN Marshalled(e, v, ud) ELSE Fails({}), r.ok
  PROVE  /\ e.py < Len(bound) /\ Fits(e, v, Owned(r.c), p) /\ (Owned(r.c).k = "own" => r.c = Own)
         /\ r.length = -1 \/ (e.tag = "array" /\ e.len >= 0)
         /\ e.tag = "array" /\ e.len >= 0 /\ v.py # "none" => r.length = LengthOf(v) /\ r.length >= 0
<1>1. e.py < Len(bound)
  BY Kinds
<1>2. r = Marshalled(e, v, ud)
  BY <1>1
<1>3. v.n \in Int /\ v.items \in Seq(Range(v.items))
  BY DEF ValuesOK
<1>4. /\ Fits(e, v, Owned(r.c), pos) /\ (Owned(r.c).k = "own" => r.c = Own)
      /\ e.tag = "array" /\ e.len >= 0 /\ v.py # "none" => r.length = LengthOf(v) /\ r.length >= 0
  BY <1>2, <1>3, MarshalledKept
<1>5. r.length = -1 \/ (e.tag = "array" /\ e.len >= 0)
  BY <1>2, MarshalledLength
<1> QED BY <1>1, <1>4, <1>5

LEMMA InArrives ==
  ASSUME TypeInv, Arriving, ValuesOK, NEW v, NEW ud, MarshalIn(v, ud), pc' # "done"
  PROVE  Arriving'
<1>1. PICK p : p = pos
  OBVIOUS
<1>2. PICK e : e = cache.args[p]
  OBVIOUS
<1>3. PICK r : r = IF e.py < Len(bound) THEN Marshalled(e, v, UserData(e, ud)) ELSE Fails({})
  OBVIOUS
<1>4. PICK W : W = ChildWrites(e, p, r)
  OBVIOUS
<1>5. /\ pc = "in" /\ pos < cache.n /\ e.dir = "from" /\ e.meta = "parent" /\ v \in Inputs(e)
      /\ sig' = sig /\ cache' = cache /\ bound' = bound
  BY <1>1, <1>2 DEF MarshalIn, callvars
<1>6. r.ok
  BY <1>1, <1>2, <1>3 DEF MarshalIn, FailAt
<1>7. /\ inArgs' = (Only(InCount(p), Owned(r.c)) ++ W) ++ inArgs
      /\ value' = Only(p, v) ++ value /\ source' = Only(p, bound[e.py + 1]) ++ source
      /\ Step /\ outArgs' = outArgs /\ outVals' = outVals
  BY <1>1, <1>2, <1>3, <1>4, <1>6 DEF MarshalIn, Slot, outvars
<1>8. pos' = p + 1
  BY <1>1, <1>5, <1>7, StepIs
<1>9. /\ e.py < Len(bound) /\ Fits(e, v, Owned(r.c), p) /\ (Owned(r.c).k = "own" => r.c = Own)
      /\ r.length = -1 \/ (e.tag = "array" /\ e.len >= 0)
      /\ e.tag = "array" /\ e.len >= 0 /\ v.py # "none" => r.length = LengthOf(v) /\ r.length >= 0
  BY <1>1, <1>2, <1>3, <1>5, <1>6, TurnTaken
<1>10. PICK c : c = Owned(r.c)
  OBVIOUS
<1>11. /\ Regular(sig) /\ CacheOK(sig, cache, Count(sig)) /\ p \in Numbers(sig) /\ p \in Int
       /\ p \in Ins(sig) /\ InCount(p) = InSlot(p)
       /\ \A j \in Ins(sig) : InSlot(j) \in DOMAIN inArgs
  <2>1. FromPython(e.dir)
    BY <1>5 DEF FromPython
  <2> QED BY <1>1, <1>2, <1>5, <2>1, AtTurn
<1>12. FromPython(e.dir)
  BY <1>5 DEF FromPython
<1>13. /\ \A k \in DOMAIN W : \E l \in Ins(sig) : Mine(p, l) /\ l # p /\ k = InSlot(l)
       /\ \A k \in DOMAIN W : W[k].k # "ref"
  <2>1. Regular(sig) /\ CacheOK(sig, cache, Count(sig)) /\ p \in Numbers(sig)
    BY <1>11
  <2>2. e.meta = "parent"
    BY <1>5
  <2>3. r.length = -1 \/ (e.tag = "array" /\ e.len >= 0)
    BY <1>9
  <2> QED BY <1>2, <1>4, <1>12, <2>1, <2>2, <2>3, WritesMine
<1>14. /\ DOMAIN inArgs' = DOMAIN inArgs /\ inArgs'[InSlot(p)] = c
       /\ \A k \in DOMAIN W : inArgs'[k] = W[k]
       /\ \A j \in Ins(sig) : /\ j # p /\ ~Mine(p, j) => inArgs'[InSlot(j)] = inArgs[InSlot(j)]
                              /\ j # p => inArgs'[InSlot(j)] = inArgs[InSlot(j)] \/ inArgs'[InSlot(j)].k # "ref"
  <2>1. PICK f : f = inArgs'
    OBVIOUS
  <2>2. f = (Only(InSlot(p), c) ++ W) ++ inArgs
    BY <1>7, <1>10, <1>11, <2>1
  <2> QED BY <1>11, <1>13, <2>1, <2>2, WritesIn
<1>15. ASSUME NEW j, Mine(p, j), j < p
       PROVE  cache.args[j].dir # "both"
  <2>1. j \in Numbers(sig) /\ cache.args[j].dir = WayOf(sig, j) /\ WayOf(sig, p) = "from" /\ j \in Int
    BY <1>2, <1>5, <1>11, <1>15, MineIs, Ready, Ways
  <2>2. WayOf(sig, j) = WayOf(sig, p) \/ WayOf(sig, j) = "from"
    BY <1>11, <1>15, Owners DEF Mine, Owns, LengthRegular, BehindRegular
  <2> QED BY <2>1, <2>2
<1>16. /\ p \in DOMAIN value' /\ value'[p] = v /\ p \in DOMAIN source' /\ source'[p] = bound[e.py + 1]
       /\ \A i \in DOMAIN value : i # p => i \in DOMAIN value' /\ value'[i] = value[i]
       /\ \A i \in DOMAIN source : i # p => i \in DOMAIN source' /\ source'[i] = source[i]
  BY <1>7 DEF ++, Only
<1>17. Frame(p)
  <2>1. cache.args[p].meta \notin {"child", "childPy"}
    BY <1>2, <1>5
  <2>2. \A j \in Ins(sig) : /\ j # p /\ ~Mine(p, j) => inArgs'[InSlot(j)] = inArgs[InSlot(j)]
                            /\ Mine(p, j) /\ j < p /\ cache.args[j].dir = "both" =>
                                 inArgs'[InSlot(j)] = inArgs[InSlot(j)]
                            /\ j > p /\ Mine(p, j) =>
                                 inArgs'[InSlot(j)] = inArgs[InSlot(j)] \/ inArgs'[InSlot(j)].k # "ref"
    BY <1>11, <1>14, <1>15
  <2>3. DOMAIN inArgs' = DOMAIN inArgs
    BY <1>14
  <2> QED BY <1>5, <1>7, <1>8, <1>16, <2>1, <2>2, <2>3 DEF Frame
<1>18. \A j : InSlot(j)' = InSlot(j)
  BY <1>5 DEF InSlot
<1>19. e.meta # "closure" /\ e.dir # "both" /\ ~ToPython(e.dir)
  BY <1>5 DEF ToPython
<1>20. Filled(p)'
  <2>1. Carries(p, c)'
    BY <1>2, <1>5, <1>9, <1>10, <1>16 DEF Carries
  <2>2. Carries(p, inArgs[InSlot(p)])'
    BY <1>14, <1>18, <2>1 DEF Carries
  <2> QED BY <1>2, <1>5, <1>19, <2>2 DEF Filled
<1>21. LengthPut(p)'
  <2> SUFFICES ASSUME e.tag = "array", e.len >= 0, v.py # "none"
               PROVE  inArgs'[InSlot(e.len)] = Num(LengthOf(v))
    BY <1>2, <1>5, <1>16, <1>18 DEF LengthPut
  <2>1. InSlot(e.len) \in DOMAIN W /\ W[InSlot(e.len)] = Num(r.length)
    BY <1>2, <1>4, <1>5, <1>9, <1>11, <1>12, ChildWritesAre
  <2> QED BY <1>9, <1>14, <2>1
<1>22. CallbackPut(p)'
  <2> SUFFICES ASSUME e.tag = "callback", c.k = "own"
               PROVE  /\ e.ud > 0 => inArgs'[InSlot(e.ud)] = ClosureOf(p)
                      /\ e.destroy > 0 => inArgs'[InSlot(e.destroy)] = NoticeOf(e, p)
    BY <1>2, <1>5, <1>14, <1>18 DEF CallbackPut, NoticeOf, NeedsDummy, ClosureOf
  <2>1. /\ e.ud > 0 => InSlot(e.ud) \in DOMAIN W /\ W[InSlot(e.ud)] = ClosureOf(p)
        /\ e.destroy > 0 => InSlot(e.destroy) \in DOMAIN W /\ W[InSlot(e.destroy)] = NoticeOf(e, p)
    BY <1>2, <1>4, <1>5, <1>9, <1>10, <1>11, <1>12, ChildWritesAre
  <2> QED BY <1>14, <2>1
<1> QED BY <1>1, <1>5, <1>7, <1>17, <1>20, <1>21, <1>22, ArriveStep

\* The places of (out) values after an (inout) argument has put its value there, and a length.
LEMMA WritesOut ==
  ASSUME Regular(sig), NEW p \in ToOnes(sig), NEW c, NEW L, NEW f, f = (Only(OutSlot(p), c) ++ L) ++ outVals,
         \A j \in ToOnes(sig) : OutSlot(j) \in DOMAIN outVals,
         \A k \in DOMAIN L : \E l \in ToOnes(sig) : Mine(p, l) /\ l # p /\ k = OutSlot(l)
  PROVE  /\ DOMAIN f = DOMAIN outVals /\ f[OutSlot(p)] = c
         /\ \A k \in DOMAIN L : f[k] = L[k]
         /\ \A j \in ToOnes(sig) : j # p /\ ~Mine(p, j) => f[OutSlot(j)] = outVals[OutSlot(j)]
<1> DEFINE mine == Only(OutSlot(p), c)
           both == mine ++ L
<1>1. DOMAIN mine = {OutSlot(p)} /\ mine[OutSlot(p)] = c
  BY DEF Only
<1>2. f = both ++ outVals
  OBVIOUS
<1>3. /\ DOMAIN both = {OutSlot(p)} \cup DOMAIN L /\ both[OutSlot(p)] = c
      /\ \A k \in DOMAIN L : k # OutSlot(p) => both[k] = L[k]
  <2>1. both = Only(OutSlot(p), c) ++ L
    OBVIOUS
  <2> HIDE DEF both
  <2>2. DOMAIN both = {OutSlot(p)} \cup DOMAIN L
    BY <2>1, OnlyDomain
  <2>3. both[OutSlot(p)] = c
    BY <2>1, OnlyOver
  <2>4. \A k \in DOMAIN L : k # OutSlot(p) => both[k] = L[k]
    BY <2>1, OnlyOver
  <2> QED BY <2>2, <2>3, <2>4
<1> HIDE DEF mine, both
<1>4. /\ DOMAIN f = DOMAIN both \cup DOMAIN outVals
      /\ \A k \in DOMAIN both : f[k] = both[k]
      /\ \A k \in DOMAIN outVals : k \notin DOMAIN both => f[k] = outVals[k]
  BY <1>2 DEF ++
<1>5. \A i \in ToOnes(sig), j \in ToOnes(sig) : OutSlot(i) = OutSlot(j) => i = j
  BY SlotsApart
<1>6. \A k \in DOMAIN L : k \in DOMAIN outVals /\ k # OutSlot(p)
  BY <1>5
<1>7. DOMAIN f = DOMAIN outVals
  <2>1. DOMAIN f = DOMAIN both \cup DOMAIN outVals
    BY <1>4
  <2>2. DOMAIN both \subseteq DOMAIN outVals
    BY <1>3, <1>6
  <2> QED BY <2>1, <2>2
<1>8. f[OutSlot(p)] = c
  BY <1>3, <1>4
<1>9. \A k \in DOMAIN L : f[k] = L[k]
  BY <1>3, <1>4, <1>6
<1>10. ASSUME NEW j \in ToOnes(sig), j # p, ~Mine(p, j)
       PROVE  f[OutSlot(j)] = outVals[OutSlot(j)]
  BY <1>3, <1>4, <1>5, <1>10
<1> QED BY <1>7, <1>8, <1>9, <1>10

LEMMA PlaceOut ==
  ASSUME Regular(sig), NEW p \in ToOnes(sig), NEW c, NEW f, f = [outArgs EXCEPT ![OutSlot(p)] = c],
         \A j \in ToOnes(sig) : OutSlot(j) \in DOMAIN outArgs
  PROVE  /\ DOMAIN f = DOMAIN outArgs /\ f[OutSlot(p)] = c
         /\ \A j \in ToOnes(sig) : j # p => f[OutSlot(j)] = outArgs[OutSlot(j)]
<1>1. \A i \in ToOnes(sig), j \in ToOnes(sig) : OutSlot(i) = OutSlot(j) => i = j
  BY SlotsApart
<1>2. DOMAIN f = DOMAIN outArgs /\ f[OutSlot(p)] = c
  OBVIOUS
<1>3. \A k \in DOMAIN outArgs : k # OutSlot(p) => f[k] = outArgs[k]
  OBVIOUS
<1> QED BY <1>1, <1>2, <1>3

\* An (inout) length: its array came before it.
LEMMA LengthArrives ==
  ASSUME TypeInv, Arriving, NEW v, MarshalBoth(v), IsChild(cache.args[pos])
  PROVE  Arriving'
<1>1. PICK p : p = pos
  OBVIOUS
<1>2. PICK e : e = cache.args[p]
  OBVIOUS
<1>3. PICK r : r = Done(Null, {})
  OBVIOUS
<1>4. PICK W : W = ChildWrites(e, p, r)
  OBVIOUS
<1>5. IsChild(e)
  BY <1>1, <1>2
<1>6. /\ pc = "in" /\ pos < cache.n /\ e.dir = "both" /\ e.meta # "parent" /\ e.meta # "closure"
      /\ sig' = sig /\ cache' = cache /\ bound' = bound
  BY <1>1, <1>2, <1>5 DEF MarshalBoth, callvars, IsChild
<1>7. r.ok /\ r.length = -1 /\ r.c = Null /\ ~(r.length >= 0)
  BY <1>3, ResultIs, Kinds
<1>8. /\ inArgs' = (Only(InCount(p), Ref(OutCount(p))) ++ W) ++ inArgs
      /\ outVals' = (Only(OutCount(p), inArgs[InCount(p)]) ++ Empty) ++ outVals
      /\ outArgs' = [outArgs EXCEPT ![OutCount(p)] = Ref(OutCount(p))]
      /\ value' = value /\ source' = source /\ Step
  BY <1>1, <1>2, <1>3, <1>4, <1>5, <1>7 DEF MarshalBoth
<1>9. pos' = p + 1
  BY <1>1, <1>6, <1>8, StepIs
<1>10. /\ Regular(sig) /\ CacheOK(sig, cache, Count(sig)) /\ p \in Numbers(sig) /\ p \in Int
       /\ p \in Ins(sig) /\ InCount(p) = InSlot(p) /\ p \in ToOnes(sig) /\ OutCount(p) = OutSlot(p)
       /\ \A j \in Ins(sig) : InSlot(j) \in DOMAIN inArgs
       /\ \A j \in ToOnes(sig) : OutSlot(j) \in DOMAIN outArgs /\ OutSlot(j) \in DOMAIN outVals
  <2>1. FromPython(e.dir) /\ ToPython(e.dir)
    BY <1>6 DEF FromPython, ToPython
  <2> QED BY <1>1, <1>2, <1>6, <2>1, AtTurn
<1>11. DOMAIN W = {}
  <2>1. W = (Empty ++ Empty) ++ Empty
    BY <1>4, <1>7, Kinds DEF ChildWrites
  <2> QED BY <2>1 DEF Empty, ++
<1>12. PICK c : c = Ref(OutSlot(p))
  OBVIOUS
<1>13. /\ DOMAIN inArgs' = DOMAIN inArgs /\ inArgs'[InSlot(p)] = c
       /\ \A j \in Ins(sig) : j # p => inArgs'[InSlot(j)] = inArgs[InSlot(j)]
  <2>1. PICK f : f = inArgs'
    OBVIOUS
  <2>2. f = (Only(InSlot(p), c) ++ W) ++ inArgs
    BY <1>8, <1>10, <1>12, <2>1
  <2> QED BY <1>10, <1>11, <2>1, <2>2, WritesIn
<1>14. /\ DOMAIN outVals' = DOMAIN outVals /\ outVals'[OutSlot(p)] = inArgs[InSlot(p)]
       /\ \A j \in ToOnes(sig) : j # p /\ ~Mine(p, j) => outVals'[OutSlot(j)] = outVals[OutSlot(j)]
  <2>1. PICK f : f = outVals'
    OBVIOUS
  <2>2. PICK d : d = inArgs[InSlot(p)]
    OBVIOUS
  <2>3. PICK L : L = Empty
    OBVIOUS
  <2>4. f = (Only(OutSlot(p), d) ++ L) ++ outVals
    BY <1>8, <1>10, <2>1, <2>2, <2>3
  <2>5. DOMAIN L = {}
    BY <2>3 DEF Empty
  <2> QED BY <1>10, <2>1, <2>2, <2>4, <2>5, WritesOut
<1>15. /\ DOMAIN outArgs' = DOMAIN outArgs /\ outArgs'[OutSlot(p)] = c
       /\ \A j \in ToOnes(sig) : j # p => outArgs'[OutSlot(j)] = outArgs[OutSlot(j)]
  <2>1. PICK f : f = outArgs'
    OBVIOUS
  <2>2. f = [outArgs EXCEPT ![OutSlot(p)] = c]
    BY <1>8, <1>10, <1>12, <2>1
  <2> QED BY <1>10, <2>1, <2>2, PlaceOut
<1>16. Frame(p)
  <2>1. cache.args[p].dir # "from"
    BY <1>2, <1>6
  <2>2. \A j \in Ins(sig) : /\ j # p /\ ~Mine(p, j) => inArgs'[InSlot(j)] = inArgs[InSlot(j)]
                            /\ Mine(p, j) /\ j < p /\ cache.args[j].dir = "both" =>
                                 inArgs'[InSlot(j)] = inArgs[InSlot(j)]
                            /\ j > p /\ Mine(p, j) =>
                                 inArgs'[InSlot(j)] = inArgs[InSlot(j)] \/ inArgs'[InSlot(j)].k # "ref"
    <3>1. \A j \in Ins(sig) : Mine(p, j) => j # p
      BY <1>10, MineIs
    <3> QED BY <1>13, <3>1
  <2>3. DOMAIN inArgs' = DOMAIN inArgs
    BY <1>13
  <2> QED BY <1>6, <1>8, <1>9, <1>14, <1>15, <2>1, <2>2, <2>3 DEF Frame
<1>17. \A j : InSlot(j)' = InSlot(j) /\ OutSlot(j)' = OutSlot(j)
  BY <1>6 DEF InSlot, OutSlot
<1>18. Filled(p)'
  BY <1>2, <1>6, <1>12, <1>13, <1>15, <1>17 DEF Filled, Ref
<1>19. LengthPut(p)' /\ CallbackPut(p)'
  BY <1>2, <1>6 DEF LengthPut, CallbackPut
<1> QED BY <1>1, <1>6, <1>8, <1>16, <1>18, <1>19, ArriveStep

\* An (inout) argument of the caller's; an array's length has its slot already, or will have.
LEMMA BothArrives ==
  ASSUME TypeInv, Arriving, ValuesOK, NEW v, MarshalBoth(v), ~IsChild(cache.args[pos]), pc' # "done"
  PROVE  Arriving'
<1>1. PICK p : p = pos
  OBVIOUS
<1>2. PICK e : e = cache.args[p]
  OBVIOUS
<1>3. PICK r : r = IF e.py < Len(bound) THEN Marshalled(e, v, NoValue) ELSE Fails({})
  OBVIOUS
<1>4. PICK early \in BOOLEAN : early <=> r.length >= 0 /\ inArgs[cache.args[e.len].c].k = "ref"
  OBVIOUS
<1>5. PICK W : W = IF early THEN Empty ELSE ChildWrites(e, p, r)
  OBVIOUS
<1>6. PICK L : L = IF early THEN Only(inArgs[cache.args[e.len].c].n, Num(r.length)) ELSE Empty
  OBVIOUS
<1>7. ~IsChild(e)
  BY <1>1, <1>2
<1>8. /\ pc = "in" /\ pos < cache.n /\ e.dir = "both" /\ v \in Inputs(e)
      /\ sig' = sig /\ cache' = cache /\ bound' = bound
  BY <1>1, <1>2, <1>7 DEF MarshalBoth, callvars
<1>9. r.ok
  BY <1>1, <1>2, <1>3, <1>7 DEF MarshalBoth, FailAt
<1>10. /\ inArgs' = (Only(InCount(p), Ref(OutCount(p))) ++ W) ++ inArgs
       /\ outVals' = (Only(OutCount(p), Owned(r.c)) ++ L) ++ outVals
       /\ outArgs' = [outArgs EXCEPT ![OutCount(p)] = Ref(OutCount(p))]
       /\ value' = Only(p, v) ++ value /\ source' = Only(p, bound[e.py + 1]) ++ source /\ Step
  BY <1>1, <1>2, <1>3, <1>4, <1>5, <1>6, <1>7, <1>9 DEF MarshalBoth
<1>11. pos' = p + 1
  BY <1>1, <1>8, <1>10, StepIs
<1>12. /\ e.py < Len(bound) /\ Fits(e, v, Owned(r.c), p)
       /\ r.length = -1 \/ (e.tag = "array" /\ e.len >= 0)
       /\ e.tag = "array" /\ e.len >= 0 /\ v.py # "none" => r.length = LengthOf(v) /\ r.length >= 0
  BY <1>1, <1>2, <1>3, <1>8, <1>9, TurnTaken
<1>13. PICK c : c = Owned(r.c)
  OBVIOUS
<1>14. FromPython(e.dir) /\ ToPython(e.dir)
  BY <1>8 DEF FromPython, ToPython
<1>15. /\ Regular(sig) /\ CacheOK(sig, cache, Count(sig)) /\ p \in Numbers(sig) /\ p \in Int
       /\ p \in Ins(sig) /\ InCount(p) = InSlot(p) /\ p \in ToOnes(sig) /\ OutCount(p) = OutSlot(p)
       /\ \A j \in Ins(sig) : InSlot(j) \in DOMAIN inArgs
       /\ \A j \in ToOnes(sig) : OutSlot(j) \in DOMAIN outArgs /\ OutSlot(j) \in DOMAIN outVals
  BY <1>1, <1>2, <1>8, <1>14, AtTurn
<1>16. e.meta = "parent"
  BY <1>2, <1>7, <1>8, <1>15, BothMeta
<1>17. r.length >= 0 => /\ Mine(p, e.len) /\ cache.args[e.len].dir = "both" /\ e.len # p
                        /\ e.len \in Ins(sig) /\ e.len \in ToOnes(sig) /\ e.len \in Numbers(sig) /\ e.len \in Int
                        /\ cache.args[e.len].c = InSlot(e.len) /\ e.tag = "array" /\ e.len >= 0
  <2> SUFFICES ASSUME r.length >= 0
               PROVE  /\ Mine(p, e.len) /\ cache.args[e.len].dir = "both" /\ e.len # p
                      /\ e.len \in Ins(sig) /\ e.len \in ToOnes(sig) /\ e.len \in Numbers(sig) /\ e.len \in Int
                      /\ cache.args[e.len].c = InSlot(e.len) /\ e.tag = "array" /\ e.len >= 0
    OBVIOUS
  <2>1. e.tag = "array" /\ e.len >= 0
    BY <1>12
  <2>2. Mine(p, e.len) /\ cache.args[e.len].dir = "both"
    BY <1>2, <1>8, <1>15, <1>16, <2>1, ParentsMine
  <2>3. e.len \in Numbers(sig) /\ e.len # p /\ e.len \in Ins(sig)
    BY <1>2, <1>14, <1>15, <2>2, MineIs
  <2>4. e.len \in ToOnes(sig) /\ e.len \in Int
    <3>1. WayOf(sig, e.len) = "both" /\ e.len \in Int
      BY <1>15, <2>2, <2>3, Ready, Ways
    <3> QED BY <2>3, <3>1 DEF ToOnes, ToPython
  <2>5. cache.args[e.len].c = InSlot(e.len)
    BY <1>15, <2>2, <2>3, ChildSlot DEF Mine, InSlot
  <2> QED BY <2>1, <2>2, <2>3, <2>4, <2>5
<1>18. ASSUME r.length >= 0, e.len < p
       PROVE  early /\ inArgs[cache.args[e.len].c].n = OutSlot(e.len)
  <2>1. Filled(e.len)
    BY <1>1, <1>8, <1>17, <1>18 DEF Arriving
  <2>2. inArgs[InSlot(e.len)] = Ref(OutSlot(e.len))
    BY <1>17, <1>18, <2>1 DEF Filled
  <2> QED BY <1>4, <1>17, <1>18, <2>2 DEF Ref
<1>19. ASSUME r.length >= 0, ~(e.len < p)
       PROVE  ~early
  <2>1. inArgs[InSlot(e.len)].k # "ref"
    BY <1>1, <1>8, <1>15, <1>17, <1>19 DEF Arriving
  <2> QED BY <1>4, <1>17, <2>1
<1>20. early => r.length >= 0 /\ e.len < p
  BY <1>4, <1>19
<1>21. /\ \A k \in DOMAIN W : \E l \in Ins(sig) : Mine(p, l) /\ l # p /\ k = InSlot(l) /\ ~(l < p)
       /\ \A k \in DOMAIN W : W[k].k # "ref"
       /\ r.length >= 0 /\ ~early => InSlot(e.len) \in DOMAIN W /\ W[InSlot(e.len)] = Num(r.length)
  <2>1. CASE early
    BY <1>5, <2>1 DEF Empty
  <2>2. CASE ~early
    <3>1. W = ChildWrites(e, p, r)
      BY <1>5, <2>2
    <3>2. /\ \A k \in DOMAIN W : \E l \in Ins(sig) : Mine(p, l) /\ l # p /\ k = InSlot(l)
          /\ \A k \in DOMAIN W : W[k].k # "ref"
          /\ e.tag # "callback" /\ ~(r.length >= 0) => DOMAIN W = {}
      <4>1. Regular(sig) /\ CacheOK(sig, cache, Count(sig)) /\ p \in Numbers(sig) /\ FromPython(e.dir)
        BY <1>14, <1>15
      <4>2. r.length = -1 \/ (e.tag = "array" /\ e.len >= 0)
        BY <1>12
      <4> QED BY <1>2, <1>16, <3>1, <4>1, <4>2, WritesMine
    <3>3. r.length >= 0 => InSlot(e.len) \in DOMAIN W /\ W[InSlot(e.len)] = Num(r.length)
      BY <1>2, <1>12, <1>14, <1>15, <1>16, <3>1, ChildWritesAre
    <3>4. ASSUME NEW l, Mine(p, l), l < p
          PROVE  r.length >= 0 \/ DOMAIN W = {}
      <4>1. e.tag # "callback"
        <5>1. HasLengthArg(sig, p)
          BY <1>15, <3>4, Owners, Ways DEF Mine, Owns, BehindRegular
        <5>2. e.tag = ArgOf(sig, p).tag
          BY <1>2, <1>15, <1>16, <3>4, Parents DEF Mine, Described
        <5> QED BY <5>1, <5>2 DEF HasLengthArg
      <4> QED BY <3>2, <4>1
    <3>5. ASSUME NEW l, Mine(p, l), l < p, r.length >= 0
          PROVE  FALSE
      <4>1. HasLengthArg(sig, p) /\ l = LengthAt(sig, p)
        BY <1>15, <3>5, Owners, Ways DEF Mine, Owns, BehindRegular
      <4>2. e.len = LengthAt(sig, p)
        BY <1>2, <1>15, <1>16, <1>17, <3>5, Parents
      <4> QED BY <1>18, <2>2, <3>5, <4>1, <4>2
    <3> QED BY <3>2, <3>3, <3>4, <3>5
  <2> QED BY <2>1, <2>2
<1>22. /\ \A k \in DOMAIN L : \E l \in ToOnes(sig) : Mine(p, l) /\ l # p /\ k = OutSlot(l)
       /\ early => OutSlot(e.len) \in DOMAIN L /\ L[OutSlot(e.len)] = Num(r.length)
  <2>1. CASE early
    <3>1. L = Only(OutSlot(e.len), Num(r.length))
      BY <1>6, <1>18, <1>20, <2>1
    <3> QED BY <1>17, <1>20, <2>1, <3>1 DEF Only
  <2>2. CASE ~early
    BY <1>6, <2>2 DEF Empty
  <2> QED BY <2>1, <2>2
<1>23. PICK d : d = Ref(OutSlot(p))
  OBVIOUS
<1>24. /\ DOMAIN inArgs' = DOMAIN inArgs /\ inArgs'[InSlot(p)] = d
       /\ \A k \in DOMAIN W : inArgs'[k] = W[k]
       /\ \A j \in Ins(sig) : /\ j # p /\ InSlot(j) \notin DOMAIN W => inArgs'[InSlot(j)] = inArgs[InSlot(j)]
                              /\ j # p /\ ~Mine(p, j) => inArgs'[InSlot(j)] = inArgs[InSlot(j)]
                              /\ j # p => inArgs'[InSlot(j)] = inArgs[InSlot(j)] \/ inArgs'[InSlot(j)].k # "ref"
  <2>1. PICK f : f = inArgs'
    OBVIOUS
  <2>2. f = (Only(InSlot(p), d) ++ W) ++ inArgs
    BY <1>10, <1>15, <1>23, <2>1
  <2>3. \A k \in DOMAIN W : \E l \in Ins(sig) : Mine(p, l) /\ l # p /\ k = InSlot(l)
    BY <1>21
  <2> QED BY <1>15, <1>21, <2>1, <2>2, <2>3, WritesIn
<1>25. /\ DOMAIN outVals' = DOMAIN outVals /\ outVals'[OutSlot(p)] = c
       /\ \A k \in DOMAIN L : outVals'[k] = L[k]
       /\ \A j \in ToOnes(sig) : j # p /\ ~Mine(p, j) => outVals'[OutSlot(j)] = outVals[OutSlot(j)]
  <2>1. PICK f : f = outVals'
    OBVIOUS
  <2>2. f = (Only(OutSlot(p), c) ++ L) ++ outVals
    BY <1>10, <1>13, <1>15, <2>1
  <2>3. \A k \in DOMAIN L : \E l \in ToOnes(sig) : Mine(p, l) /\ l # p /\ k = OutSlot(l)
    BY <1>22
  <2>4. Regular(sig) /\ p \in ToOnes(sig) /\ \A j \in ToOnes(sig) : OutSlot(j) \in DOMAIN outVals
    BY <1>15
  <2> QED BY <2>1, <2>2, <2>3, <2>4, WritesOut
<1>26. /\ DOMAIN outArgs' = DOMAIN outArgs /\ outArgs'[OutSlot(p)] = d
       /\ \A j \in ToOnes(sig) : j # p => outArgs'[OutSlot(j)] = outArgs[OutSlot(j)]
  <2>1. PICK f : f = outArgs'
    OBVIOUS
  <2>2. f = [outArgs EXCEPT ![OutSlot(p)] = d]
    BY <1>10, <1>15, <1>23, <2>1
  <2> QED BY <1>15, <2>1, <2>2, PlaceOut
<1>27. /\ p \in DOMAIN value' /\ value'[p] = v /\ p \in DOMAIN source' /\ source'[p] = bound[e.py + 1]
       /\ \A i \in DOMAIN value : i # p => i \in DOMAIN value' /\ value'[i] = value[i]
       /\ \A i \in DOMAIN source : i # p => i \in DOMAIN source' /\ source'[i] = source[i]
  BY <1>10 DEF ++, Only
<1>28. ASSUME NEW j \in Ins(sig), Mine(p, j), j < p
       PROVE  inArgs'[InSlot(j)] = inArgs[InSlot(j)]
  <2>1. InSlot(j) \notin DOMAIN W
    <3> SUFFICES ASSUME InSlot(j) \in DOMAIN W PROVE FALSE
      OBVIOUS
    <3>1. PICK l \in Ins(sig) : InSlot(j) = InSlot(l) /\ ~(l < p)
      BY <1>21
    <3>2. l = j
      BY <1>15, <3>1, SlotsApart
    <3> QED BY <1>28, <3>1, <3>2
  <2>2. j # p
    BY <1>15, <1>28, MineIs
  <2> QED BY <1>24, <2>1, <2>2
<1>29. Frame(p)
  <2>1. cache.args[p].meta \notin {"child", "childPy"}
    BY <1>2, <1>16
  <2>2. \A j \in Ins(sig) : /\ j # p /\ ~Mine(p, j) => inArgs'[InSlot(j)] = inArgs[InSlot(j)]
                            /\ Mine(p, j) /\ j < p /\ cache.args[j].dir = "both" =>
                                 inArgs'[InSlot(j)] = inArgs[InSlot(j)]
                            /\ j > p /\ Mine(p, j) =>
                                 inArgs'[InSlot(j)] = inArgs[InSlot(j)] \/ inArgs'[InSlot(j)].k # "ref"
    BY <1>15, <1>24, <1>28
  <2>3. DOMAIN inArgs' = DOMAIN inArgs
    BY <1>24
  <2> QED BY <1>8, <1>11, <1>25, <1>26, <1>27, <2>1, <2>2, <2>3 DEF Frame
<1>30. \A j : InSlot(j)' = InSlot(j) /\ OutSlot(j)' = OutSlot(j)
  BY <1>8 DEF InSlot, OutSlot
<1>31. Filled(p)'
  <2>1. Carries(p, c)'
    BY <1>2, <1>8, <1>12, <1>13, <1>27 DEF Carries
  <2>2. Carries(p, outVals[OutSlot(p)])'
    BY <1>25, <1>30, <2>1 DEF Carries
  <2>3. e.meta # "closure" /\ e.dir # "from"
    BY <1>8, <1>16
  <2> QED BY <1>2, <1>8, <1>23, <1>24, <1>26, <1>30, <2>2, <2>3 DEF Filled, Ref
<1>32. LengthPut(p)'
  <2> SUFFICES ASSUME e.tag = "array", e.len >= 0, v.py # "none"
               PROVE  (IF e.len < p + 1 THEN outVals'[OutSlot(e.len)] ELSE inArgs'[InSlot(e.len)]) = Num(LengthOf(v))
    BY <1>2, <1>8, <1>11, <1>27, <1>30 DEF LengthPut
  <2>1. r.length = LengthOf(v) /\ r.length >= 0
    BY <1>12
  <2>2. CASE e.len < p
    <3>1. early /\ e.len < p + 1
      BY <1>15, <1>17, <1>18, <2>1, <2>2
    <3> QED BY <1>22, <1>25, <2>1, <3>1
  <2>3. CASE ~(e.len < p)
    <3>1. ~early
      BY <1>19, <2>1, <2>3
    <3>2. ~(e.len < p + 1)
      BY <1>15, <1>17, <2>1, <2>3
    <3> QED BY <1>21, <1>24, <2>1, <3>1, <3>2
  <2> QED BY <2>2, <2>3
<1>33. CallbackPut(p)'
  BY <1>2, <1>8 DEF CallbackPut
<1> QED BY <1>1, <1>8, <1>10, <1>29, <1>31, <1>32, <1>33, ArriveStep

LEMMA OutArrives ==
  ASSUME TypeInv, Arriving, NEW possible \in BOOLEAN, MarshalOut(possible), pc' # "done"
  PROVE  Arriving'
<1>1. PICK p : p = pos
  OBVIOUS
<1>2. PICK e : e = cache.args[p]
  OBVIOUS
<1>3. PICK c : c = IF e.caller THEN [k |-> "own", n |-> p] ELSE Ref(OutCount(p))
  OBVIOUS
<1>4. /\ pc = "in" /\ pos < cache.n /\ e.dir = "to" /\ Step
      /\ sig' = sig /\ cache' = cache /\ bound' = bound /\ value' = value /\ source' = source
      /\ inArgs' = inArgs /\ outVals' = outVals /\ outArgs' = [outArgs EXCEPT ![OutCount(p)] = c]
  BY <1>1, <1>2, <1>3 DEF MarshalOut, FailAt, callvars, invars
<1>5. pos' = p + 1
  BY <1>1, <1>4, StepIs
<1>6. ~FromPython(e.dir) /\ ToPython(e.dir)
  BY <1>4 DEF FromPython, ToPython
<1>7. /\ Regular(sig) /\ CacheOK(sig, cache, Count(sig)) /\ p \in Numbers(sig) /\ p \in ToOnes(sig) /\ OutCount(p) = OutSlot(p)
      /\ \A j \in ToOnes(sig) : OutSlot(j) \in DOMAIN outArgs
  BY <1>1, <1>2, <1>4, <1>6, AtTurn
<1>8. /\ DOMAIN outArgs' = DOMAIN outArgs /\ outArgs'[OutSlot(p)] = c
      /\ \A j \in ToOnes(sig) : j # p => outArgs'[OutSlot(j)] = outArgs[OutSlot(j)]
  <2>1. PICK f : f = outArgs'
    OBVIOUS
  <2>2. f = [outArgs EXCEPT ![OutSlot(p)] = c]
    BY <1>4, <1>7, <2>1
  <2> QED BY <1>7, <2>1, <2>2, PlaceOut
<1>9. cache.args[p].dir # "from" /\ cache.args[p].dir # "both"
  BY <1>2, <1>4
<1>10. Frame(p)
  BY <1>4, <1>5, <1>8, <1>9 DEF Frame
<1>11. e.meta # "closure"
  BY <1>2, <1>7, <1>9, Ready DEF Regular, IsClosure, Meta
<1>12. Filled(p)'
  <2>1. OutSlot(p)' = OutSlot(p)
    BY <1>4 DEF OutSlot
  <2>2. c \in {Ref(OutSlot(p)), [k |-> "own", n |-> p]}
    BY <1>3, <1>7
  <2> QED BY <1>2, <1>4, <1>8, <1>9, <1>11, <2>1, <2>2 DEF Filled, Ref
<1>13. LengthPut(p)' /\ CallbackPut(p)'
  <2>1. LengthPut(p)'
    BY <1>2, <1>4, <1>6 DEF LengthPut
  <2>2. CallbackPut(p)'
    BY <1>2, <1>4, <1>9 DEF CallbackPut
  <2> QED BY <2>1, <2>2
<1> QED BY <1>1, <1>4, <1>10, <1>12, <1>13, ArriveStep

LEMMA CallArrives ==
  ASSUME TypeInv, NEW c, NEW first, Call(c, first)
  PROVE  Arriving'
<1> SUFFICES ASSUME pc' \in {"in", "call"} PROVE Arriving'
  BY DEF Arriving
<1>1. /\ pc = "cached" /\ pc' = "in" /\ pos' = 0 /\ sig' = sig /\ cache' = cache
      /\ inArgs' = [k \in 0 .. cache.nFrom - 1 |-> Null] /\ outVals' = [k \in 0 .. cache.nTo - 1 |-> Null]
      /\ outArgs' = [k \in 0 .. cache.nTo - 1 |-> Null]
  BY DEF Call
<1>2. Regular(sig) /\ CacheOK(sig, cache, Count(sig))
  BY <1>1, During
<1>3. \A i \in Numbers(sig) : ~(i < 0)
  BY <1>2, Ways
<1>4. ASSUME NEW j \in Ins(sig)
      PROVE  inArgs'[InSlot(j)].k # "ref"
  <2>1. InSlot(j) \in 0 .. cache.nFrom - 1
    BY <1>2, SlotBounds DEF Ins, InSlot
  <2> QED BY <1>1, <2>1, Kinds
<1>5. \A j : InSlot(j)' = InSlot(j)
  BY <1>1 DEF InSlot
<1> QED BY <1>1, <1>3, <1>4, <1>5 DEF Arriving

LEMMA NoArgsArrives ==
  ASSUME TypeInv, Arriving, NoArgs
  PROVE  Arriving'
<1>1. /\ pc = "in" /\ pc' = "call" /\ pos' = pos /\ sig' = sig /\ cache' = cache /\ bound' = bound /\ cache.n = 0
      /\ value' = value /\ source' = source /\ inArgs' = inArgs /\ outArgs' = outArgs /\ outVals' = outVals
  BY DEF NoArgs, callvars, invars, outvars
<1>2. pos = cache.n
  BY <1>1, During DEF Calling
<1>3. \A i : InSlot(i)' = InSlot(i) /\ OutSlot(i)' = OutSlot(i)
  BY <1>1 DEF InSlot, OutSlot
<1>4. Numbers(sig) = {}
  BY <1>1, During, Ready DEF Calling
<1> QED BY <1>1, <1>2, <1>3, <1>4 DEF Arriving

-----------------------------------------------------------------------------
(* Names, callbacks, and where values come from *)

LEMMA CallOnNames ==
  ASSUME CallOn, NamesOK, CallbacksIn
  PROVE  NamesOK' /\ CallbacksIn'
BY DEF CallOn, NamesOK, CallbacksIn, Calling

LEMMA CallOnBound ==
  ASSUME CallOn, pc # "cached", BoundOK
  PROVE  BoundOK'
BY DEF CallOn, BoundOK

LEMMA CallBound ==
  ASSUME TypeInv, NamesOK, NEW c, c.n \in Nat, NEW first, Call(c, first)
  PROVE  BoundOK'
<1> SUFFICES ASSUME pc' \in {"in", "call"} PROVE BoundOK'
  BY DEF BoundOK
<1> DEFINE expected == Len(cache.names)
           b == Combine(c)
<1>1. pc = "cached" /\ bound' = b /\ call' = c /\ cache' = cache
  BY DEF Call
<1>2. expected \in Nat
  <2>1. expected = Below(Shows(sig, Count(sig)), Count(sig))
    BY <1>1 DEF NamesOK
  <2>2. Count(sig) \in Int
    BY <1>1, During
  <2> QED BY <2>1, <2>2, BelowFinite
<1> DEFINE f == [k \in 1 .. expected |-> <<"pos", k>>]
           g == [k \in 1 .. expected |-> IF k <= c.n THEN <<"pos", k>> ELSE <<"kw", cache.names[k]>>]
<1>3. \/ b = f /\ c.n = expected
      \/ b = << >>
      \/ b = g
  BY DEF Combine, None
<1> HIDE DEF b
<1>4. CASE b = << >>
  BY <1>1, <1>2, <1>4 DEF BoundOK
<1>5. CASE b = g
  <2>1. Len(b) = expected /\ \A k \in 1 .. expected : b[k] = IF k <= c.n THEN <<"pos", k>> ELSE <<"kw", cache.names[k]>>
    BY <1>2, <1>5
  <2> HIDE DEF g
  <2> QED BY <1>1, <1>2, <2>1 DEF BoundOK
<1>6. CASE b = f /\ c.n = expected
  <2>1. Len(b) = expected /\ \A k \in 1 .. expected : b[k] = <<"pos", k>> /\ k <= c.n
    BY <1>2, <1>6
  <2> HIDE DEF f
  <2> QED BY <1>1, <1>2, <2>1 DEF BoundOK
<1> QED BY <1>3, <1>4, <1>5, <1>6

LEMMA CacheNames ==
  ASSUME TypeInv, NamesOK, CallbacksIn, CacheNext
  PROVE  NamesOK' /\ CallbacksIn'
<1>0. Indexed
  BY DEF TypeInv
<1>1. CASE CacheNew
  BY <1>1 DEF CacheNew, NamesOK, CallbacksIn, Calling
<1>2. CASE CacheReturn
  <2>1. \/ pc' = "no cache"
        \/ pc' = "args" /\ pos' = Offset(sig.ftype)
    BY <1>2 DEF CacheReturn
  <2>2. sig' = sig /\ Regular(sig)
    BY <1>0, <1>2, SigsAssumption DEF CacheReturn, Indexed
  <2>3. \A i \in ArgsOf(sig) : ~(i < Offset(sig.ftype))
    BY <2>2, Ways DEF ArgsOf
  <2> QED BY <2>1, <2>2, <2>3 DEF NamesOK, CallbacksIn, Calling
<1>3. ASSUME pc = "args", pos < cache.n, sig' = sig, pos' = pos + 1, pc' = "args",
             ArgOf(sig, pos).tag = "callback" => WayOf(sig, pos) = "from"
      PROVE  NamesOK' /\ CallbacksIn'
  <2>1. \A i \in ArgsOf(sig) : i < pos + 1 => i < pos \/ i = pos
    BY <1>0, <1>3, InfoIs DEF ArgsOf
  <2> QED BY <1>3, <2>1 DEF NamesOK, CallbacksIn, Calling
<1>4. CASE CacheClosure
  <2>1. pc = "args" /\ pos < cache.n /\ sig' = sig /\ pos' = pos + 1 /\ pc' = "args" /\ IsClosure(sig, pos)
    BY <1>0, <1>4, InfoIs DEF CacheClosure
  <2>2. WayOf(sig, pos) = "from"
    BY <1>0, <2>1, InfoIs DEF Regular
  <2> QED BY <1>3, <2>1, <2>2
<1>5. CASE CacheChild
  <2>1. pc = "args" /\ pos < cache.n /\ sig' = sig /\ pos' = pos + 1 /\ pc' = "args" /\ pos \in DOMAIN cache.args
    BY <1>5 DEF CacheChild
  <2>2. Regular(sig) /\ CacheOK(sig, cache, pos) /\ pos \in ArgsOf(sig) /\ pos \in Int
    BY <1>0, <2>1, InfoIs, Ways
  <2>3. Lengthed(sig, pos, pos) \/ Fed(sig, pos, pos) \/ Ended(sig, pos, pos)
    BY <2>1, <2>2 DEF CacheOK
  <2>4. ASSUME Lengthed(sig, pos, pos) PROVE ArgOf(sig, pos).tag # "callback"
    <3>1. PICK i \in ArgsOf(sig) \cup {-1} : HasLengthArg(sig, i) /\ pos = LengthAt(sig, i)
      BY <2>4 DEF Lengthed
    <3>2. LengthRegular(sig, i, pos)
      BY <2>2, <3>1, Owners
    <3> QED BY <3>2 DEF LengthRegular, Interfaces
  <2>5. Fed(sig, pos, pos) \/ Ended(sig, pos, pos) => WayOf(sig, pos) = "from"
    BY <2>2, Children
  <2> QED BY <1>3, <2>1, <2>3, <2>4, <2>5
<1>6. CASE CacheArg
  <2> DEFINE dir == Direction(Info)
             cc == IF FromPython(dir) THEN [cache EXCEPT !.nFrom = @ + 1, !.nPy = @ + 1] ELSE cache
             r == ArgCacheNew(cc, Info, dir, pos, IF FromPython(dir) THEN cache.nPy ELSE -1)
  <2>1. /\ pc = "args" /\ pos < cache.n /\ sig' = sig
        /\ r.ok => pos' = pos + 1 /\ pc' = "args"
        /\ ~r.ok => pc' = "no cache"
    BY <1>6 DEF CacheArg
  <2>2. dir = WayOf(sig, pos) /\ Info = ArgOf(sig, pos) /\ dir \in {"from", "to", "both"}
    BY <1>0, <2>1, InfoIs, Ways
  <2> HIDE DEF dir, cc
  <2>3. Info.tag = "callback" /\ ToPython(dir) => ~r.ok
    <3>1. PICK a, py : a = Info /\ py = IF FromPython(dir) THEN cache.nPy ELSE -1
      OBVIOUS
    <3>2. PICK e : e = Entry(a, dir, pos, py, Offset(cc.ftype))
      OBVIOUS
    <3>3. PICK dd : dd = ArraySetUp(cc, e.len, dir, pos)
      OBVIOUS
    <3>4. r = ArgCacheNew(cc, a, dir, pos, py)
      BY <3>1
    <3> HIDE DEF r
    <3>5. a.tag = "callback" => r = IF ToPython(dir) THEN [ok |-> FALSE, cc |-> cc, e |-> e]
                                    ELSE [ok |-> TRUE, cc |-> SetupCallback(cc, e.ud, e.destroy), e |-> e]
      BY <3>2, <3>3, <3>4, ArgNew
    <3> QED BY <3>1, <3>5
  <2> HIDE DEF r
  <2>4. CASE ~r.ok
    BY <2>1, <2>4 DEF NamesOK, CallbacksIn, Calling
  <2>5. CASE r.ok
    <3>1. ArgOf(sig, pos).tag = "callback" => WayOf(sig, pos) = "from"
      BY <2>2, <2>3, <2>5 DEF ToPython
    <3> QED BY <1>3, <2>1, <2>5, <3>1
  <2> QED BY <2>4, <2>5
<1>7. CASE CacheDone
  <2>1. pc = "args" /\ pc' = "cached" /\ sig' = sig /\ pos = cache.n /\ cache' = [cache EXCEPT !.names = NameList(cache)]
    BY <1>7 DEF CacheDone
  <2>2. Regular(sig) /\ CacheOK(sig, cache, Count(sig)) /\ pos = Count(sig)
    BY <1>0, <2>1, SigsAssumption DEF Indexed
  <2>3. cache'.names = NameList(cache)
    BY <2>1, <2>2 DEF CacheOK, CacheFields
  <2>4. NamesOK'
    <3>1. PICK names : names = cache'.names
      OBVIOUS
    <3>2. /\ Len(names) = Below(Shows(sig, Count(sig)), Count(sig))
          /\ \A i \in Shows(sig, Count(sig)) : names[Below(Shows(sig, Count(sig)), i) + 1] = i
      BY <2>2, <2>3, <3>1, NamesAre
    <3> QED BY <2>1, <3>1, <3>2 DEF NamesOK
  <2>5. \A i \in ArgsOf(sig) : i < pos
    BY <2>2, Ways DEF ArgsOf
  <2> QED BY <2>1, <2>4, <2>5 DEF CallbacksIn, Calling
<1> QED BY <1>1, <1>2, <1>4, <1>5, <1>6, <1>7 DEF CacheNext

-----------------------------------------------------------------------------
(* What the callee finds *)

LEMMA SigArgIs ==
  ASSUME Regular(sig), cache.n = Count(sig)
  PROVE  /\ SigArgs = ArgsOf(sig) /\ SigArgs \subseteq Numbers(sig) /\ SigArgs \subseteq Nat
         /\ Off = Offset(sig.ftype) /\ Off \in {0, 1}
         /\ \A i \in SigArgs : /\ SigArg(i) = ArgOf(sig, i) /\ i # -1 /\ i < cache.n
                               /\ SigArg(i).dir \in {"in", "out", "inout"} /\ WayOf(sig, i) = Direction(SigArg(i))
                               /\ SigArg(i).dir \in {"in", "inout"} <=> i \in Ins(sig)
                               /\ SigArg(i).dir \in {"out", "inout"} <=> i \in ToOnes(sig)
                               /\ SigArg(i).dir = "inout" <=> WayOf(sig, i) = "both"
                               /\ SigArg(i).dir = "in" <=> WayOf(sig, i) = "from"
<1>1. /\ SigArgs = ArgsOf(sig) /\ SigArgs \subseteq Numbers(sig) /\ SigArgs \subseteq Nat
      /\ Off = Offset(sig.ftype) /\ Off \in {0, 1}
  BY Ways DEF SigArgs, ArgsOf, Off
<1>2. ASSUME NEW i \in SigArgs
      PROVE  /\ SigArg(i) = ArgOf(sig, i) /\ i # -1 /\ i < cache.n
             /\ SigArg(i).dir \in {"in", "out", "inout"} /\ WayOf(sig, i) = Direction(SigArg(i))
  <2>1. i # -1 /\ i \in Nat /\ i < cache.n
    BY <1>1, Ways DEF ArgsOf
  <2>2. SigArg(i) = ArgOf(sig, i)
    BY <2>1 DEF SigArg, ArgOf
  <2>3. WayOf(sig, i) = Direction(ArgOf(sig, i))
    BY <1>1, <2>1 DEF WayOf
  <2>4. ArgOf(sig, i).dir \in {"in", "out", "inout"}
    BY <1>1 DEF Regular
  <2> QED BY <2>1, <2>2, <2>3, <2>4
<1>3. ASSUME NEW i \in SigArgs
      PROVE  /\ SigArg(i).dir \in {"in", "inout"} <=> i \in Ins(sig)
             /\ SigArg(i).dir \in {"out", "inout"} <=> i \in ToOnes(sig)
             /\ SigArg(i).dir = "inout" <=> WayOf(sig, i) = "both"
             /\ SigArg(i).dir = "in" <=> WayOf(sig, i) = "from"
  <2>1. /\ SigArg(i).dir = "in" => Direction(SigArg(i)) = "from"
        /\ SigArg(i).dir = "out" => Direction(SigArg(i)) = "to"
        /\ SigArg(i).dir = "inout" => Direction(SigArg(i)) = "both"
    BY DEF Direction
  <2> QED BY <1>1, <1>2, <2>1 DEF Ins, ToOnes, FromPython, ToPython
<1> QED BY <1>1, <1>2, <1>3

\* The callee counts the arguments before its own as the cache does.
LEMMA CalleeSlots ==
  ASSUME Regular(sig), cache.n = Count(sig), NEW i \in SigArgs
  PROVE  /\ CalleeIn(i) = inArgs[InSlot(i)] /\ CalleeOut(i) = outArgs[OutSlot(i)]
         /\ Position(i, {"out", "inout"}) = OutSlot(i)
<1>1. /\ SigArgs = ArgsOf(sig) /\ i \in Nat /\ i \in Int /\ Off \in {0, 1} /\ Off = Offset(sig.ftype)
      /\ SigArgs = Off .. cache.n - 1 /\ cache.n \in Nat
  BY SigArgIs, Ways DEF SigArgs, Off
<1>2. Off = 1 => 0 \in Ins(sig) /\ 0 \notin ToOnes(sig)
  <2> SUFFICES ASSUME Off = 1 PROVE 0 \in Ins(sig) /\ 0 \notin ToOnes(sig)
    OBVIOUS
  <2>1. 0 \in Numbers(sig) /\ 0 \notin ArgsOf(sig)
    BY <1>1 DEF Numbers
  <2>2. WayOf(sig, 0) = "from"
    BY <2>1, Ways
  <2> QED BY <2>1, <2>2 DEF Ins, ToOnes, FromPython, ToPython
<1> DEFINE P == {j \in SigArgs : j < i /\ SigArg(j).dir \in {"in", "inout"}}
           B == {j \in 0 .. i - 1 : j \in Ins(sig)}
           Q == {j \in SigArgs : j < i /\ SigArg(j).dir \in {"out", "inout"}}
           C == {j \in 0 .. i - 1 : j \in ToOnes(sig)}
<1>3. ASSUME NEW j
      PROVE  /\ j \in P <=> j \in SigArgs /\ j < i /\ j \in Ins(sig)
             /\ j \in Q <=> j \in SigArgs /\ j < i /\ j \in ToOnes(sig)
  BY SigArgIs
<1>4. ASSUME NEW j
      PROVE  /\ j \in SigArgs /\ j < i <=> j \in 0 .. i - 1 /\ ~(Off = 1 /\ j = 0)
             /\ Off = 1 => 0 \in 0 .. i - 1
  BY <1>1
<1>5. /\ IsFiniteSet(B) /\ Cardinality(B) = InSlot(i) /\ Cardinality(C) = OutSlot(i)
      /\ Cardinality(P) = Position(i, {"in", "inout"}) /\ Cardinality(Q) = Position(i, {"out", "inout"})
  BY <1>1, BelowFinite DEF InSlot, OutSlot, Below, Position
<1>6. C = Q
  <2>1. ASSUME NEW j PROVE j \in C <=> j \in Q
    BY <1>2, <1>3, <1>4
  <2> HIDE DEF C, Q
  <2> QED BY <2>1
<1>7. CASE Off = 0
  <2>1. ASSUME NEW j PROVE j \in B <=> j \in P
    BY <1>3, <1>4, <1>7
  <2>2. B = P
    <3> HIDE DEF B, P
    <3> QED BY <2>1
  <2>3. Position(i, {"in", "inout"}) + Offset(sig.ftype) = InSlot(i)
    <3>1. Cardinality(B) \in Nat
      BY <1>5, FS_CardinalityType
    <3> HIDE DEF B, P
    <3> QED BY <1>1, <1>5, <1>7, <2>2, <3>1
  <2> QED BY <1>5, <1>6, <2>3 DEF CalleeIn, CalleeOut
<1>8. CASE Off = 1
  <2>1. ASSUME NEW j PROVE j \in B <=> j \in P \cup {0}
    BY <1>2, <1>3, <1>4, <1>8
  <2>2. B = P \cup {0} /\ 0 \notin P
    <3>1. 0 \notin P
      BY <1>3, <1>4, <1>8
    <3> HIDE DEF B, P
    <3> QED BY <2>1, <3>1
  <2>3. Position(i, {"in", "inout"}) + Offset(sig.ftype) = InSlot(i)
    <3> HIDE DEF B, P
    <3>1. P \subseteq B
      BY <2>2
    <3>2. IsFiniteSet(P)
      BY <1>5, <3>1, FS_Subset
    <3>3. Cardinality(P \cup {0}) = Cardinality(P) + 1
      BY <2>2, <3>2, FS_AddElement
    <3> QED BY <1>1, <1>5, <1>8, <2>2, <3>3
  <2> QED BY <1>5, <1>6, <2>3 DEF CalleeIn, CalleeOut
<1> QED BY <1>1, <1>7, <1>8

\* The arguments a caller passes are those the cache shows.
LEMMA PassedShown ==
  ASSUME Regular(sig), cache.n = Count(sig), NEW j \in SigArgs
  PROVE  /\ j \in Passed <=> j \in Shows(sig, Count(sig))
         /\ Fed(sig, Count(sig), j) <=> j \in UserDatas
<1> DEFINE n == Count(sig)
<1>1. /\ j \in ArgsOf(sig) /\ Off = Offset(sig.ftype) /\ j < n /\ SigArgs = ArgsOf(sig)
      /\ SigArg(j).dir # "out" <=> j \in Ins(sig)
      /\ \A k \in ArgsOf(sig) : k < n /\ k \in SigArgs /\ SigArg(k) = ArgOf(sig, k) /\ k # -1
  BY SigArgIs
<1>2. SigArg(j).closure + Off = j <=> IsClosure(sig, j)
  BY <1>1 DEF IsClosure
<1>3. j \in UserDatas <=> Fed(sig, n, j)
  BY <1>1 DEF UserDatas, Callbacks, Fed, HasUserData, UserDataAt
<1>4. j \in Destroys <=> Ended(sig, n, j)
  BY <1>1 DEF Destroys, Callbacks, Ended, HasDestroy, DestroyAt
<1>5. j \in InLengths => Lengthed(sig, n, j)
  BY <1>1 DEF InLengths, Arrays, LengthArg, Lengthed, HasLengthArg, LengthAt
<1>6. Lengthed(sig, n, j) /\ j \in Ins(sig) => j \in InLengths
  <2> SUFFICES ASSUME Lengthed(sig, n, j), j \in Ins(sig) PROVE j \in InLengths
    OBVIOUS
  <2>1. PICK k \in ArgsOf(sig) \cup {-1} : HasLengthArg(sig, k) /\ j = LengthAt(sig, k)
    BY DEF Lengthed
  <2>2. WayOf(sig, j) = WayOf(sig, k)
    BY <2>1, Owners DEF LengthRegular
  <2>3. k # -1
    <3>1. WayOf(sig, -1) = "to" /\ FromPython(WayOf(sig, j)) /\ ~FromPython("to")
      BY DEF WayOf, Ins, FromPython
    <3> QED BY <2>2, <3>1
  <2>4. k \in ArgsOf(sig) /\ k \in SigArgs /\ SigArg(k).dir \in {"in", "inout"}
    <3>1. k \in Ins(sig)
      <4>1. k \in Numbers(sig)
        BY <2>1, <2>3, Ways
      <4> QED BY <2>2, <4>1 DEF Ins
    <3> QED BY <1>1, <2>1, <2>3, <3>1, SigArgIs
  <2> QED BY <1>1, <2>1, <2>4 DEF InLengths, Arrays, LengthArg, HasLengthArg, LengthAt
<1>7. /\ Lengthed(sig, n, j) => ~Fed(sig, n, j) /\ ~IsClosure(sig, j)
      /\ Ended(sig, n, j) => ~Fed(sig, n, j) /\ ~IsClosure(sig, j)
  <2>1. n \in Int
    BY Ways
  <2> QED BY <2>1, Children
<1> HIDE DEF n
<1>8. j \in Passed <=> j \in Ins(sig) /\ j \notin InLengths /\ j \notin Destroys /\ ~IsClosure(sig, j)
  BY <1>1, <1>2 DEF Passed
<1>9. j \in Shows(sig, n) <=> j \in Ins(sig) /\ ~IsClosure(sig, j)
                               /\ (Fed(sig, n, j) \/ (~Lengthed(sig, n, j) /\ ~Ended(sig, n, j)))
  BY <1>1 DEF Shows, Meta
<1> QED BY <1>3, <1>4, <1>5, <1>6, <1>7, <1>8, <1>9 DEF n

LEMMA PassedPlace ==
  ASSUME Regular(sig), cache.n = Count(sig), NEW i \in Passed
  PROVE  PassedAt(i) = Below(Shows(sig, Count(sig)), i) + 1
<1> DEFINE S == Shows(sig, Count(sig))
           P == {j \in Passed : j < i}
           B == {j \in 0 .. i - 1 : j \in S}
<1>1. /\ i \in SigArgs /\ SigArgs = Off .. cache.n - 1 /\ i \in Int /\ Off \in {0, 1} /\ cache.n \in Nat
      /\ Passed \subseteq SigArgs
  BY SigArgIs, Ways DEF Passed, SigArgs, Off
<1>2. Off = 1 => 0 \in S
  <2> SUFFICES ASSUME Off = 1 PROVE 0 \in S
    OBVIOUS
  <2>1. 0 \in Numbers(sig) /\ 0 \notin ArgsOf(sig) /\ 0 < Count(sig)
    BY <1>1, SigArgIs DEF Numbers
  <2>2. WayOf(sig, 0) = "from"
    BY <2>1, Ways
  <2>3. Meta(sig, Count(sig), 0) = "parent"
    <3>1. Count(sig) \in Int
      BY Ways
    <3>2. ~Lengthed(sig, Count(sig), 0) /\ ~Fed(sig, Count(sig), 0) /\ ~Ended(sig, Count(sig), 0) /\ ~IsClosure(sig, 0)
      BY <2>1, <3>1, Children DEF IsClosure
    <3> QED BY <3>2 DEF Meta
  <2> QED BY <2>1, <2>2, <2>3 DEF Shows, Ins, FromPython
<1>3. ASSUME NEW j
      PROVE  j \in P <=> j \in SigArgs /\ j < i /\ j \in S
  BY <1>1, PassedShown
<1>4. ASSUME NEW j
      PROVE  /\ j \in SigArgs /\ j < i <=> j \in 0 .. i - 1 /\ ~(Off = 1 /\ j = 0)
             /\ Off = 1 => 0 \in 0 .. i - 1
  BY <1>1
<1>5. IsFiniteSet(B) /\ Cardinality(B) = Below(S, i) /\ Cardinality(B) \in Nat
  BY <1>1, BelowFinite, FS_CardinalityType DEF Below
<1>6. PassedAt(i) = Cardinality(P) + 1 + Off
  BY DEF PassedAt, Order
<1>7. CASE Off = 0
  <2>1. ASSUME NEW j PROVE j \in B <=> j \in P
    BY <1>3, <1>4, <1>7
  <2> HIDE DEF B, P, S
  <2>2. B = P
    BY <2>1
  <2> QED BY <1>5, <1>6, <1>7, <2>2 DEF S
<1>8. CASE Off = 1
  <2>1. ASSUME NEW j PROVE j \in B <=> j \in P \cup {0}
    BY <1>2, <1>3, <1>4, <1>8
  <2>2. 0 \notin P
    BY <1>3, <1>4, <1>8
  <2> HIDE DEF B, P, S
  <2>3. B = P \cup {0}
    BY <2>1
  <2>4. IsFiniteSet(P)
    <3>1. P \subseteq B
      BY <2>3
    <3> QED BY <1>5, <3>1, FS_Subset
  <2>5. Cardinality(P \cup {0}) = Cardinality(P) + 1 /\ Cardinality(P) \in Nat
    BY <2>2, <2>4, FS_AddElement, FS_CardinalityType
  <2> QED BY <1>5, <1>6, <1>8, <2>3, <2>5 DEF S
<1> QED BY <1>1, <1>7, <1>8

\* An argument that has children of its own is nobody's child.
LEMMA OwnerParent ==
  ASSUME Regular(sig), CacheOK(sig, cache, Count(sig)), NEW i \in ArgsOf(sig), ~Childless(sig, i)
  PROVE  cache.args[i].meta = "parent" /\ Described(sig, i, cache.args[i])
<1>1. i \in Numbers(sig) /\ Count(sig) \in Int
  BY Ways
<1>2. cache.args[i].meta = Meta(sig, Count(sig), i) /\ Placed(sig, Count(sig), i, cache.args[i])
  BY <1>1, Ready
<1>3. ~Lengthed(sig, Count(sig), i) /\ ~Fed(sig, Count(sig), i) /\ ~Ended(sig, Count(sig), i)
  BY <1>1, Children
<1>4. ~IsClosure(sig, i)
  BY DEF Regular, Childless, HasLengthArg, HasUserData, HasDestroy
<1> QED BY <1>2, <1>3, <1>4 DEF Meta, Placed

\* What the invariant says when the callee is called.
LEMMA AtCall ==
  ASSUME ArriveInv, pc = "call"
  PROVE  /\ Regular(sig) /\ CacheOK(sig, cache, Count(sig)) /\ cache.n = Count(sig) /\ pos = cache.n
         /\ \A i \in Numbers(sig) : Filled(i) /\ LengthPut(i) /\ CallbackPut(i)
         /\ \A i \in Shows(sig, Count(sig)) : cache.names[Below(Shows(sig, Count(sig)), i) + 1] = i
         /\ \A k \in 1 .. Len(bound) : bound[k] = IF k <= call.n THEN <<"pos", k>> ELSE <<"kw", cache.names[k]>>
         /\ \A i \in ArgsOf(sig) : HasUserData(sig, i) \/ HasDestroy(sig, i) => WayOf(sig, i) = "from"
         /\ Len(bound) <= Len(cache.names) /\ Len(cache.names) \in Nat
<1>1. pc \in {"cached"} \cup Calling
  BY DEF Calling
<1>2. Regular(sig) /\ CacheOK(sig, cache, Count(sig)) /\ cache.n = Count(sig)
  BY <1>1, During DEF ArriveInv
<1>3. pos = cache.n
  BY DEF ArriveInv, Arriving
<1>4. \A i \in Numbers(sig) : i < pos
  BY <1>2, <1>3, Ways DEF Numbers
<1>5. \A i \in Numbers(sig) : Filled(i) /\ LengthPut(i) /\ CallbackPut(i)
  BY <1>4 DEF ArriveInv, Arriving
<1>6. /\ \A i \in Shows(sig, Count(sig)) : cache.names[Below(Shows(sig, Count(sig)), i) + 1] = i
      /\ Len(cache.names) = Below(Shows(sig, Count(sig)), Count(sig))
  BY <1>1 DEF ArriveInv, NamesOK
<1>7. /\ \A k \in 1 .. Len(bound) : bound[k] = IF k <= call.n THEN <<"pos", k>> ELSE <<"kw", cache.names[k]>>
      /\ Len(bound) <= Len(cache.names)
  BY DEF ArriveInv, BoundOK
<1>8. \A i \in ArgsOf(sig) : HasUserData(sig, i) \/ HasDestroy(sig, i) => WayOf(sig, i) = "from"
  BY <1>1 DEF ArriveInv, CallbacksIn, HasUserData, HasDestroy
<1>9. Len(cache.names) \in Nat
  <2>1. Count(sig) \in Int
    BY <1>2, Ways
  <2> QED BY <1>6, <2>1, BelowFinite
<1> QED BY <1>2, <1>3, <1>5, <1>6, <1>7, <1>8, <1>9

LEMMA AllArrived ==
  ASSUME ArriveInv
  PROVE  ArgumentsArrive
<1> SUFFICES ASSUME pc = "call", NEW i \in Passed \ (Destroys \cup UserDatas) PROVE Arrived(i)
  BY DEF ArgumentsArrive
<1> DEFINE e == cache.args[i]
           a == SigArg(i)
           S == Shows(sig, Count(sig))
<1>1. Regular(sig) /\ CacheOK(sig, cache, Count(sig)) /\ cache.n = Count(sig)
  BY AtCall
<1>2. /\ i \in SigArgs /\ i \in Passed /\ i \in Numbers(sig) /\ i \in ArgsOf(sig) /\ a.dir # "out"
      /\ a.dir \in {"in", "out", "inout"} /\ WayOf(sig, i) = Direction(a) /\ a = ArgOf(sig, i)
  BY <1>1, SigArgIs DEF Passed
<1>3. i \in S /\ ~Fed(sig, Count(sig), i) /\ i \in Ins(sig)
  BY <1>1, <1>2, PassedShown DEF Shows
<1>4. e.meta = Meta(sig, Count(sig), i) /\ e.dir = WayOf(sig, i) /\ Placed(sig, Count(sig), i, e)
  BY <1>1, <1>2, Ready
<1>5. e.meta = "parent"
  BY <1>3, <1>4 DEF Shows, Meta
<1>6. e.tag = a.tag /\ e.py = Below(S, i)
  BY <1>2, <1>3, <1>4, <1>5 DEF Placed, Described
<1>7. e.dir = IF a.dir = "inout" THEN "both" ELSE "from"
  BY <1>2, <1>4 DEF Direction
<1>8. CalleeIn(i) = inArgs[InSlot(i)] /\ CalleeOut(i) = outArgs[OutSlot(i)]
  BY <1>1, <1>2, CalleeSlots
<1>9. Filled(i)
  BY <1>2, AtCall
<1>10. a.dir = "inout" => CalleeIn(i) = Ref(OutSlot(i)) /\ CalleeOut(i) = Ref(OutSlot(i))
  BY <1>7, <1>8, <1>9 DEF Filled, ToPython
<1>11. PICK c : c = IF a.dir = "inout" THEN outVals[CalleeIn(i).n] ELSE CalleeIn(i)
  OBVIOUS
<1>12. Carries(i, c)
  <2>1. CASE a.dir = "inout"
    <3>1. c = outVals[OutSlot(i)]
      BY <1>10, <1>11, <2>1 DEF Ref
    <3> QED BY <1>5, <1>7, <1>9, <2>1, <3>1 DEF Filled
  <2>2. CASE a.dir # "inout"
    BY <1>5, <1>7, <1>8, <1>9, <1>11, <2>2 DEF Filled
  <2> QED BY <2>1, <2>2
<1>13. source[i] = IF PassedAt(i) <= call.n THEN <<"pos", PassedAt(i)>> ELSE <<"kw", i>>
  <2>1. PassedAt(i) = Below(S, i) + 1
    BY <1>1, <1>2, PassedPlace
  <2>2. PICK k : k = PassedAt(i)
    OBVIOUS
  <2>3. i \in Int
    BY <1>1, <1>2, Ways
  <2>4. Below(S, i) \in Nat
    BY <2>3, BelowFinite
  <2>5. e.py < Len(bound) /\ source[i] = bound[e.py + 1]
    BY <1>12 DEF Carries
  <2>6. cache.names[Below(S, i) + 1] = i
    BY <1>3, AtCall
  <2> HIDE DEF S, e
  <2>7. k = e.py + 1 /\ k \in Int /\ 1 <= k /\ cache.names[k] = i
    BY <1>6, <2>1, <2>2, <2>4, <2>6
  <2>8. Len(bound) \in Int => k \in 1 .. Len(bound)
    BY <1>6, <2>4, <2>5, <2>7
  <2>9. bound[k] = IF k <= call.n THEN <<"pos", k>> ELSE <<"kw", cache.names[k]>>
    BY <2>8, AtCall
  <2> QED BY <2>2, <2>5, <2>7, <2>9
<1>14. /\ a.tag \in IntTags /\ value[i].py = "int" => c = Num(value[i].n) /\ InRange(value[i].n, a.tag)
       /\ c = Null => value[i].py = "none" \/ (value[i].items = << >> /\ a.tag \in {"glist", "gslist"})
       /\ c.k \in {"own", "borrowed"} => c.n = i
  BY <1>6, <1>12 DEF Carries, Fits
<1> HIDE DEF e, S
<1> QED BY <1>10, <1>11, <1>13, <1>14 DEF Arrived, a

(***************************************************************************)
(* The length of an array that goes in, and what belongs to a callback.    *)
(***************************************************************************)
LEMMA LengthThere ==
  ASSUME ArriveInv, pc = "call", NEW i \in Arrays({"in", "inout"})
  PROVE  LengthArrived(i)
<1>1. Regular(sig) /\ CacheOK(sig, cache, Count(sig)) /\ cache.n = Count(sig) /\ pos = cache.n
  BY AtCall
<1>2. PICK e : e = cache.args[i]
  OBVIOUS
<1>3. PICK l : l = LengthArg(i)
  OBVIOUS
<1>4. i \in SigArgs /\ SigArg(i).tag = "array" /\ SigArg(i).dir \in {"in", "inout"} /\ SigArg(i).len >= 0
  BY DEF Arrays
<1>5. /\ i \in ArgsOf(sig) /\ i \in Numbers(sig) /\ SigArg(i) = ArgOf(sig, i) /\ i # -1
      /\ Off = Offset(sig.ftype) /\ Off \in {0, 1}
      /\ SigArg(i).dir = "inout" <=> WayOf(sig, i) = "both"
      /\ SigArg(i).dir = "in" <=> WayOf(sig, i) = "from"
  BY <1>1, <1>4, SigArgIs
<1>6. HasLengthArg(sig, i) /\ l = LengthAt(sig, i)
  BY <1>3, <1>4, <1>5 DEF HasLengthArg, LengthArg, LengthAt
<1>7. LengthRegular(sig, i, l) /\ ArgOf(sig, i).len \in Int
  BY <1>1, <1>5, <1>6, Owners
<1>8. e.meta = "parent" /\ Described(sig, i, e)
  BY <1>1, <1>2, <1>5, <1>6, OwnerParent DEF Childless
<1>9. e.dir = WayOf(sig, i)
  BY <1>1, <1>2, <1>5, Ready
<1>10. e.tag = "array" /\ e.len = l /\ l >= 0
  BY <1>4, <1>5, <1>6, <1>7, <1>8 DEF Described, LengthAt
<1>11. cache.args[l].dir = e.dir
  BY <1>1, <1>2, <1>5, <1>8, <1>10, ParentsMine
<1>12. l \in SigArgs /\ l \in Numbers(sig) /\ l < cache.n
  BY <1>1, <1>7, SigArgIs DEF LengthRegular
<1>13. CalleeIn(l) = inArgs[InSlot(l)]
  BY <1>1, <1>12, CalleeSlots
<1>14. Filled(l) /\ LengthPut(i)
  BY <1>5, <1>12, AtCall
<1>15. SUFFICES ASSUME value[i].py # "none"
                PROVE  (IF SigArg(i).dir = "inout" THEN outVals[CalleeIn(l).n] ELSE CalleeIn(l)) = Num(LengthOf(value[i]))
  BY <1>3 DEF LengthArrived
<1>16. FromPython(e.dir)
  BY <1>4, <1>5, <1>9 DEF FromPython
<1>17. (IF e.dir = "both" /\ l < pos THEN outVals[OutSlot(l)] ELSE inArgs[InSlot(l)]) = Num(LengthOf(value[i]))
  BY <1>2, <1>8, <1>10, <1>14, <1>15, <1>16 DEF LengthPut
<1>18. CASE SigArg(i).dir = "inout"
  <2>1. e.dir = "both"
    BY <1>5, <1>9, <1>18
  <2>2. CalleeIn(l) = Ref(OutSlot(l))
    BY <1>11, <1>13, <1>14, <2>1 DEF Filled
  <2>3. outVals[OutSlot(l)] = Num(LengthOf(value[i]))
    BY <1>1, <1>12, <1>17, <2>1
  <2> QED BY <1>18, <2>2, <2>3 DEF Ref
<1>19. CASE SigArg(i).dir # "inout"
  <2>1. e.dir # "both"
    BY <1>5, <1>9, <1>19
  <2> QED BY <1>13, <1>17, <1>19, <2>1
<1> QED BY <1>18, <1>19

LEMMA CallbackThere ==
  ASSUME ArriveInv, pc = "call", NEW i \in Callbacks
  PROVE  CallbackArrived(i)
<1>1. Regular(sig) /\ CacheOK(sig, cache, Count(sig)) /\ cache.n = Count(sig)
  BY AtCall
<1>2. PICK e : e = cache.args[i]
  OBVIOUS
<1>3. PICK a : a = SigArg(i)
  OBVIOUS
<1>4. i \in SigArgs /\ a.tag = "callback"
  BY <1>3 DEF Callbacks
<1>5. /\ i \in ArgsOf(sig) /\ i \in Numbers(sig) /\ i \in Nat /\ a = ArgOf(sig, i) /\ i # -1
      /\ Off = Offset(sig.ftype) /\ Off \in {0, 1}
  BY <1>1, <1>3, <1>4, SigArgIs
<1>6. /\ HasUserData(sig, i) <=> a.closure >= 0
      /\ HasDestroy(sig, i) <=> a.destroy >= 0
      /\ UserDataAt(sig, i) = a.closure + Off /\ DestroyAt(sig, i) = a.destroy + Off
  BY <1>4, <1>5 DEF HasUserData, HasDestroy, UserDataAt, DestroyAt
<1>7. SUFFICES ASSUME CalleeIn(i).k = "own", a.closure >= 0 \/ a.destroy >= 0
               PROVE  /\ a.closure >= 0 => CalleeIn(a.closure + Off) = [k |-> "closure", n |-> i]
                      /\ a.destroy >= 0 => CalleeIn(a.destroy + Off)
                                             = [k |-> IF a.closure >= 0 THEN "notify" ELSE "dummy", n |-> i]
  BY <1>3 DEF CallbackArrived
<1>8. e.meta = "parent" /\ Described(sig, i, e)
  BY <1>1, <1>2, <1>5, <1>6, <1>7, OwnerParent DEF Childless
<1>9. e.dir = "from"
  <2>1. WayOf(sig, i) = "from"
    BY <1>5, <1>6, <1>7, AtCall
  <2> QED BY <1>1, <1>2, <1>5, <2>1, Ready
<1>10. /\ e.tag = "callback"
       /\ e.ud = (IF a.closure >= 0 THEN a.closure + Off ELSE -1)
       /\ e.destroy = (IF a.destroy >= 0 THEN a.destroy + Off ELSE -1)
  BY <1>4, <1>5, <1>8 DEF Described
<1>11. CallbackPut(i)
  BY <1>5, AtCall
<1>12. inArgs[InSlot(i)].k = "own"
  BY <1>1, <1>4, <1>7, CalleeSlots
<1>13. /\ e.ud > 0 => inArgs[InSlot(e.ud)] = ClosureOf(i)
       /\ e.destroy > 0 => inArgs[InSlot(e.destroy)] = NoticeOf(e, i)
  BY <1>2, <1>8, <1>9, <1>10, <1>11, <1>12 DEF CallbackPut
<1>14. ASSUME NEW j, BehindRegular(sig, i, j)
       PROVE  j > 0 /\ CalleeIn(j) = inArgs[InSlot(j)]
  <2>1. j \in SigArgs /\ j \in Nat /\ i < j
    BY <1>1, <1>14, SigArgIs DEF BehindRegular
  <2>2. CalleeIn(j) = inArgs[InSlot(j)]
    BY <1>1, <2>1, CalleeSlots
  <2> QED BY <1>5, <2>1, <2>2
<1>15. a.closure >= 0 => BehindRegular(sig, i, a.closure + Off)
  BY <1>1, <1>5, <1>6, Owners
<1>16. a.destroy >= 0 => BehindRegular(sig, i, a.destroy + Off)
  BY <1>1, <1>5, <1>6, Owners
<1>17. ASSUME a.closure >= 0
       PROVE  CalleeIn(a.closure + Off) = [k |-> "closure", n |-> i] /\ e.ud > 0
  <2>1. e.ud = a.closure + Off /\ BehindRegular(sig, i, e.ud)
    BY <1>10, <1>15, <1>17
  <2> QED BY <1>13, <1>14, <2>1 DEF ClosureOf
<1>18. ASSUME a.destroy >= 0
       PROVE  CalleeIn(a.destroy + Off) = [k |-> IF a.closure >= 0 THEN "notify" ELSE "dummy", n |-> i]
  <2>1. e.destroy = a.destroy + Off /\ BehindRegular(sig, i, e.destroy)
    BY <1>10, <1>16, <1>18
  <2>2. e.destroy > 0 /\ CalleeIn(e.destroy) = NoticeOf(e, i)
    BY <1>13, <1>14, <2>1
  <2>3. CASE a.closure >= 0
    <3>1. ~NeedsDummy(e)
      <4>1. e.ud > 0 /\ e.ud = a.closure + Off
        BY <1>10, <1>17, <2>3
      <4>2. a.closure \in Int /\ Off \in Int
        BY <1>1, <1>5, Owners
      <4> QED BY <4>1, <4>2 DEF NeedsDummy
    <3> QED BY <2>1, <2>2, <2>3, <3>1 DEF NoticeOf
  <2>4. CASE ~(a.closure >= 0)
    <3>1. e.ud = -1
      BY <1>10, <2>4
    <3>2. NeedsDummy(e)
      BY <2>2, <3>1 DEF NeedsDummy
    <3> QED BY <2>1, <2>2, <2>4, <3>2 DEF NoticeOf
  <2> QED BY <2>3, <2>4
<1> QED BY <1>17, <1>18

LEMMA AllChildren ==
  ASSUME ArriveInv
  PROVE  ChildrenArrive
<1> SUFFICES ASSUME pc = "call" PROVE ChildrenArrive
  BY DEF ChildrenArrive
<1>1. Regular(sig) /\ CacheOK(sig, cache, Count(sig)) /\ cache.n = Count(sig)
  BY AtCall
<1>2. \A i \in Arrays({"in", "inout"}) : LengthArrived(i)
  BY LengthThere
<1>3. \A i \in Callbacks : CallbackArrived(i)
  BY CallbackThere
<1>4. ASSUME NEW i \in SigArgs, SigArg(i).closure + Off = i
      PROVE  CalleeIn(i).k = "user data"
  <2>1. i \in ArgsOf(sig) /\ i \in Numbers(sig) /\ SigArg(i) = ArgOf(sig, i) /\ Off = Offset(sig.ftype)
    BY <1>1, SigArgIs
  <2>2. IsClosure(sig, i)
    BY <1>4, <2>1 DEF IsClosure
  <2>3. cache.args[i].meta = "closure"
    BY <1>1, <2>1, <2>2, Ready DEF Meta
  <2>4. Filled(i)
    BY <2>1, AtCall
  <2> QED BY <1>1, <2>3, <2>4, CalleeSlots DEF Filled
<1>5. ASSUME NEW i \in Outs
      PROVE  CalleeOut(i) \in {Ref(Position(i, {"out", "inout"})), [k |-> "own", n |-> i]}
  <2>1. i \in SigArgs /\ SigArg(i).dir # "in"
    BY DEF Outs
  <2>2. i \in Numbers(sig) /\ WayOf(sig, i) # "from" /\ WayOf(sig, i) = Direction(SigArg(i))
    BY <1>1, <2>1, SigArgIs
  <2>3. ToPython(cache.args[i].dir)
    BY <1>1, <2>2, Ready DEF Direction, ToPython
  <2>4. Filled(i)
    BY <2>2, AtCall
  <2>5. outArgs[OutSlot(i)] \in {Ref(OutSlot(i)), [k |-> "own", n |-> i]}
    BY <2>3, <2>4 DEF Filled
  <2> QED BY <1>1, <2>1, <2>5, CalleeSlots
<1> HIDE DEF Arrays
<1> QED BY <1>2, <1>3, <1>4, <1>5 DEF ChildrenArrive

-----------------------------------------------------------------------------
(* Every step *)

LEMMA InitArrives ==
  ASSUME Init
  PROVE  ArriveInv
<1>1. TypeInv
  BY InitTypes
<1>2. pc = "no cache"
  BY DEF Init, InitCache
<1> QED BY <1>1, <1>2 DEF ArriveInv, NamesOK, CallbacksIn, BoundOK, Arriving, Calling

LEMMA CallOnArrives ==
  ASSUME ArriveInv, TypeInv', CallOn, pc # "cached", Arriving'
  PROVE  ArriveInv'
BY CallOnNames, CallOnBound DEF ArriveInv

\* A step that does not pass arguments on.
LEMMA Elsewhere ==
  ASSUME ArriveInv, TypeInv', pc \in Calling, pc' \in {"cached", "out return", "out args", "done"}, sig' = sig, cache' = cache
  PROVE  ArriveInv'
<1>1. CallOn /\ pc # "cached"
  BY DEF CallOn, Calling
<1>2. Arriving'
  BY DEF Arriving
<1> QED BY <1>1, <1>2, CallOnArrives

LEMMA TurnArrives ==
  ASSUME ArriveInv, TypeInv', pc = "in", sig' = sig, cache' = cache, call' = call, bound' = bound,
         \/ pc' = "done"
         \/ pc' \in {"in", "call"} /\ Arriving'
  PROVE  ArriveInv'
<1>1. pc \in Calling /\ pc' \in Calling /\ pc # "cached"
  BY DEF Calling
<1>2. CallOn
  BY <1>1 DEF CallOn
<1>3. Arriving'
  BY DEF Arriving
<1> QED BY <1>1, <1>2, <1>3, CallOnArrives

LEMMA NextArrives ==
  ASSUME ArriveInv, ValuesOK, [Next]_vars
  PROVE  ArriveInv'
<1>0. TypeInv /\ TypeInv' /\ Arriving /\ NamesOK /\ CallbacksIn
  BY NextTypes DEF ArriveInv
<1>1. CASE CacheNext /\ UNCHANGED <<callvars, invars, outvars, args, ledger, endvars>>
  <2>1. NamesOK' /\ CallbacksIn'
    BY <1>0, <1>1, CacheNames
  <2>2. pc' \in Building \cup {"cached"}
    BY <1>0, <1>1 DEF CacheNext, CacheNew, CacheReturn, CacheClosure, CacheChild, CacheArg, CacheDone, Building
  <2> QED BY <1>0, <2>1, <2>2 DEF ArriveInv, BoundOK, Arriving, Building
<1>2. ASSUME NEW n \in 0 .. Len(cache.names) + 1, NEW kw, NEW first, Call([n |-> n, kw |-> kw], first)
      PROVE  ArriveInv'
  <2>1. PICK c : c = [n |-> n, kw |-> kw]
    OBVIOUS
  <2>2. c.n \in Nat /\ Call(c, first)
    BY <1>2, <2>1
  <2>3. CallOn
    BY <2>2 DEF Call, CallOn, Calling
  <2>4. NamesOK' /\ CallbacksIn'
    BY <1>0, <2>3, CallOnNames
  <2>5. BoundOK'
    BY <1>0, <2>2, CallBound
  <2>6. Arriving'
    BY <1>0, <2>2, CallArrives
  <2> QED BY <1>0, <2>4, <2>5, <2>6 DEF ArriveInv
<1>3. CASE MarshalNothing
  <2>1. Arriving'
    BY <1>0, <1>3, NothingArrives
  <2>2. pc = "in" /\ Step /\ sig' = sig /\ cache' = cache /\ call' = call /\ bound' = bound
    BY <1>3 DEF MarshalNothing, callvars
  <2> QED BY <1>0, <2>1, <2>2, StepIs, TurnArrives
<1>4. ASSUME NEW v, NEW ud, MarshalIn(v, ud)
      PROVE  ArriveInv'
  <2>1. pc = "in" /\ sig' = sig /\ cache' = cache /\ call' = call /\ bound' = bound /\ (pc' = "done" \/ Step)
    BY <1>4 DEF MarshalIn, FailAt, callvars
  <2>2. pc' # "done" => Arriving'
    BY <1>0, <1>4, InArrives
  <2> QED BY <1>0, <2>1, <2>2, StepIs, TurnArrives
<1>5. ASSUME NEW v, MarshalBoth(v)
      PROVE  ArriveInv'
  <2>1. pc = "in" /\ sig' = sig /\ cache' = cache /\ call' = call /\ bound' = bound /\ (pc' = "done" \/ Step)
    BY <1>5 DEF MarshalBoth, FailAt, callvars
  <2>2. pc' # "done" => Arriving'
    BY <1>0, <1>5, LengthArrives, BothArrives
  <2> QED BY <1>0, <2>1, <2>2, StepIs, TurnArrives
<1>6. ASSUME NEW possible \in BOOLEAN, MarshalOut(possible)
      PROVE  ArriveInv'
  <2>1. pc = "in" /\ sig' = sig /\ cache' = cache /\ call' = call /\ bound' = bound /\ (pc' = "done" \/ Step)
    BY <1>6 DEF MarshalOut, FailAt, callvars
  <2>2. pc' # "done" => Arriving'
    BY <1>0, <1>6, OutArrives
  <2> QED BY <1>0, <2>1, <2>2, StepIs, TurnArrives
<1>7. CASE NoArgs
  <2>1. pc = "in" /\ pc' = "call" /\ sig' = sig /\ cache' = cache /\ call' = call /\ bound' = bound
    BY <1>7 DEF NoArgs, callvars
  <2>2. Arriving'
    BY <1>0, <1>7, NoArgsArrives
  <2> QED BY <1>0, <2>1, <2>2, TurnArrives
<1>8. ASSUME NEW did \in {"returns", "throws", "not run"}, NEW ret, NEW outs, CallC(did, ret, outs)
      PROVE  ArriveInv'
  <2>1. pc = "call" /\ pc' \in {"out return", "done"} /\ sig' = sig /\ cache' = cache
    BY <1>8 DEF CallC, Returns, CallFails
  <2> QED BY <1>0, <2>1, Elsewhere DEF Calling
<1>9. CASE OutReturn
  <2>1. pc = "out return" /\ pc' \in {"out args", "done"} /\ sig' = sig /\ cache' = cache
    BY <1>9 DEF OutReturn, BadResult
  <2> QED BY <1>0, <2>1, Elsewhere DEF Calling
<1>10. CASE OutArg
  <2>1. pc = "out args" /\ pc' \in {"out args", "done"} /\ sig' = sig /\ cache' = cache
    BY <1>10 DEF OutArg, BadResult
  <2> QED BY <1>0, <2>1, Elsewhere DEF Calling
<1>11. CASE Finish
  <2>1. pc = "out args" /\ pc' = "done" /\ sig' = sig /\ cache' = cache
    BY <1>11 DEF Finish
  <2> QED BY <1>0, <2>1, Elsewhere DEF Calling
<1>12. CASE Again
  <2>1. pc = "done" /\ pc' = "cached" /\ sig' = sig /\ cache' = cache
    BY <1>12 DEF Again
  <2> QED BY <1>0, <2>1, Elsewhere DEF Calling
<1>13. CASE UNCHANGED vars
  <2>1. /\ sig' = sig /\ cache' = cache /\ pc' = pc /\ pos' = pos /\ call' = call /\ bound' = bound
        /\ value' = value /\ source' = source /\ inArgs' = inArgs /\ outArgs' = outArgs /\ outVals' = outVals
    BY <1>13 DEF vars, callvars, invars, outvars
  <2>2. NamesOK' /\ CallbacksIn'
    BY <1>0, <2>1 DEF NamesOK, CallbacksIn
  <2>3. BoundOK'
    BY <2>1 DEF ArriveInv, BoundOK
  <2>4. \A i : /\ InSlot(i)' = InSlot(i) /\ OutSlot(i)' = OutSlot(i)
               /\ Filled(i)' = Filled(i) /\ LengthPut(i)' = LengthPut(i) /\ CallbackPut(i)' = CallbackPut(i)
    BY <2>1 DEF InSlot, OutSlot, Filled, LengthPut, CallbackPut, Carries
  <2>5. Arriving'
    BY <1>0, <2>1, <2>4 DEF Arriving
  <2> QED BY <1>0, <2>2, <2>3, <2>5 DEF ArriveInv
<1>14. CASE Next
  <2>1. CASE \E n \in 0 .. Len(cache.names) + 1, kw \in SUBSET (NameHash \cup {Unknown}), first \in BOOLEAN :
               Call([n |-> n, kw |-> kw], first)
    BY <1>2, <2>1
  <2>2. CASE \E v, ud : MarshalIn(v, ud)
    BY <1>4, <2>2
  <2>3. CASE \E v : MarshalBoth(v)
    BY <1>5, <2>3
  <2>4. CASE \E possible \in BOOLEAN : MarshalOut(possible)
    BY <1>6, <2>4
  <2>5. CASE \E did \in {"returns", "throws", "not run"} : \E ret, outs : CallC(did, ret, outs)
    BY <1>8, <2>5
  <2> QED BY <1>1, <1>3, <1>7, <1>9, <1>10, <1>11, <1>12, <1>14, <2>1, <2>2, <2>3, <2>4, <2>5 DEF Next
<1> QED BY <1>13, <1>14

(***************************************************************************)
(* Every argument of the Python call arrives at the callee, unchanged and  *)
(* where it looks for it, for any callable of the signatures that are      *)
(* Regular, any number of arguments passed by position and by name, and    *)
(* any values that are sequences of values and have an integer for their   *)
(* number.  (_args_cache_generate, _invoke_marshal_in_args)                *)
(***************************************************************************)
THEOREM ArgumentsArriveAlways ==
  ASSUME ValuesOK
  PROVE  Spec => []ArgumentsArrive
<1>1. Init => ArriveInv
  BY InitArrives
<1>2. ArriveInv /\ [Next]_vars => ArriveInv'
  BY NextArrives
<1>3. ArriveInv => ArgumentsArrive
  BY AllArrived
<1> QED BY <1>1, <1>2, <1>3, PTL DEF Spec

(***************************************************************************)
(* And what no Python argument corresponds to is filled in for the right   *)
(* one: each length is that of its own array, each closure and destroy     *)
(* notification that of its own callback, each (out) value has its place.  *)
(* (the child arguments of pygi-cache.c)                                   *)
(***************************************************************************)
THEOREM ChildrenArriveAlways ==
  ASSUME ValuesOK
  PROVE  Spec => []ChildrenArrive
<1>1. Init => ArriveInv
  BY InitArrives
<1>2. ArriveInv /\ [Next]_vars => ArriveInv'
  BY NextArrives
<1>3. ArriveInv => ChildrenArrive
  BY AllChildren
<1> QED BY <1>1, <1>2, <1>3, PTL DEF Spec

-----------------------------------------------------------------------------
(* How many values come back, and which *)

LEMMA ResultsAre ==
  ASSUME Regular(sig), CacheOK(sig, cache, Count(sig)), EndsOK(sig, cache, Count(sig))
  PROVE  /\ Listing(cache.toPy, Wanted) /\ Wanted = Results(sig, Count(sig))
         /\ NOut = Len(cache.toPy) /\ NOut = Cardinality(Wanted) /\ NOut \in Nat
<1> DEFINE n == Count(sig)
<1>1. /\ cache.n = n /\ n \in Nat /\ Numbers(sig) = 0 .. n - 1
      /\ cache.nTo = Below(ToOnes(sig), n)
  BY Ready
<1>2. cache.nToChild = Below(Lengths(sig, n), n)
  BY DEF CacheOK
<1>3. {j \in 0 .. n - 1 : j \in ToOnes(sig)} = ToOnes(sig)
  BY <1>1 DEF ToOnes
<1>4. {j \in 0 .. n - 1 : j \in Lengths(sig, n)} = Lengths(sig, n)
  BY <1>1 DEF ToOnes, Lengths
<1>5. IsFiniteSet(ToOnes(sig)) /\ cache.nTo = Cardinality(ToOnes(sig)) /\ cache.nToChild = Cardinality(Lengths(sig, n))
  <2>1. IsFiniteSet(0 .. n - 1)
    BY <1>1, FS_Interval
  <2>2. IsFiniteSet(ToOnes(sig))
    BY <1>3, <2>1, FS_Subset
  <2> QED BY <1>1, <1>2, <1>3, <1>4, <2>2 DEF Below
<1>6. \A j \in ToOnes(sig) : j < n
  BY <1>1 DEF ToOnes
<1>7. Results(sig, n) = ToOnes(sig) \ Lengths(sig, n) /\ ToOnes(sig) \cap Lengths(sig, n) = Lengths(sig, n)
  BY <1>6 DEF Results, Lengths
<1>8. Cardinality(Results(sig, n)) = Cardinality(ToOnes(sig)) - Cardinality(Lengths(sig, n))
  BY <1>5, <1>7, FS_Difference
<1>9. NOut = Cardinality(Results(sig, n))
  BY <1>5, <1>8 DEF NOut
<1>10. Listing(cache.toPy, Results(sig, n))
  BY DEF EndsOK
<1>11. Wanted = Results(sig, n)
  <2>1. /\ SigArgs = ArgsOf(sig) /\ Off = Offset(sig.ftype)
        /\ \A i \in SigArgs : /\ SigArg(i) = ArgOf(sig, i) /\ i # -1 /\ i < cache.n
                              /\ SigArg(i).dir \in {"in", "out", "inout"}
                              /\ SigArg(i).dir \in {"out", "inout"} <=> i \in ToOnes(sig)
    BY <1>1, SigArgIs
  <2>2. \A j \in ToOnes(sig) : j \in SigArgs
    BY <2>1, Ways DEF ToOnes, ToPython
  <2>3. ASSUME NEW j
        PROVE  j \in OutLengths <=> \/ \E i \in SigArgs : i \in ToOnes(sig) /\ HasLengthArg(sig, i) /\ j = LengthAt(sig, i)
                                    \/ HasLengthArg(sig, -1) /\ j = LengthAt(sig, -1)
    <3>1. \A i \in SigArgs : i \in Arrays({"out", "inout"}) <=> i \in ToOnes(sig) /\ HasLengthArg(sig, i)
      BY <2>1 DEF Arrays, HasLengthArg
    <3>2. \A i \in SigArgs : LengthArg(i) = LengthAt(sig, i)
      BY <2>1 DEF LengthArg, LengthAt
    <3>3. /\ HasLengthArg(sig, -1) <=> sig.ret.tag = "array" /\ sig.ret.len >= 0
          /\ LengthAt(sig, -1) = sig.ret.len + Off
      BY <2>1 DEF HasLengthArg, LengthAt, ArgOf
    <3>4. Arrays({"out", "inout"}) \subseteq SigArgs
      BY DEF Arrays
    <3> QED BY <3>1, <3>2, <3>3, <3>4 DEF OutLengths
  <2>4. ASSUME NEW j \in ToOnes(sig)
        PROVE  j \in OutLengths <=> Lengthed(sig, n, j)
    <3>1. \A i \in ArgsOf(sig) \cup {-1} : i < n
      BY <1>1, <2>1
    <3>2. \A i \in ArgsOf(sig) : HasLengthArg(sig, i) /\ j = LengthAt(sig, i) => i \in ToOnes(sig)
      <4> SUFFICES ASSUME NEW i \in ArgsOf(sig), HasLengthArg(sig, i), j = LengthAt(sig, i) PROVE i \in ToOnes(sig)
        OBVIOUS
      <4>1. WayOf(sig, j) = WayOf(sig, i)
        BY Owners DEF LengthRegular
      <4>2. i \in Numbers(sig)
        BY Ways
      <4> QED BY <4>1, <4>2 DEF ToOnes
    <3> QED BY <2>1, <2>3, <3>1, <3>2 DEF Lengthed
  <2>5. \A j \in SigArgs : SigArg(j).dir # "in" <=> j \in ToOnes(sig)
    BY <2>1
  <2>6. \A j : j \in Wanted <=> j \in ToOnes(sig) /\ j \notin OutLengths
    BY <2>2, <2>5 DEF Wanted
  <2>7. \A j : j \in Results(sig, n) <=> j \in ToOnes(sig) /\ ~Lengthed(sig, n, j)
    BY <1>6 DEF Results
  <2> QED BY <2>4, <2>6, <2>7
<1>12. Len(cache.toPy) \in Nat /\ Len(cache.toPy) = Cardinality(Results(sig, n))
  BY <1>10, ListedAll
<1> QED BY <1>9, <1>10, <1>11, <1>12

\* The state of a call.
LEMMA Now ==
  ASSUME TypeInv, Ends, pc \in {"cached"} \cup Calling
  PROVE  /\ Regular(sig) /\ CacheOK(sig, cache, Count(sig)) /\ EndsOK(sig, cache, Count(sig))
         /\ cache.n = Count(sig) /\ Numbers(sig) = 0 .. cache.n - 1
<1>1. Regular(sig) /\ CacheOK(sig, cache, Count(sig))
  BY During
<1> QED BY <1>1, Ready DEF Ends

\* The entry of a result names the argument itself.
LEMMA ResultEntry ==
  ASSUME Regular(sig), CacheOK(sig, cache, Count(sig)), NEW j \in Results(sig, Count(sig))
  PROVE  /\ j \in Numbers(sig) /\ j \in ArgsOf(sig) /\ j \in Int /\ ToPython(cache.args[j].dir) /\ j \in ToOnes(sig)
         /\ ToPython(WayOf(sig, j)) /\ cache.args[j].c = j /\ Described(sig, j, cache.args[j])
         /\ Swept(sig, j, cache.args[j])
<1>1. j \in ToOnes(sig) /\ j \in Numbers(sig) /\ ~Lengthed(sig, Count(sig), j) /\ ToPython(WayOf(sig, j))
  BY DEF Results, ToOnes
<1>2. j \in ArgsOf(sig) /\ j \in Int
  BY <1>1, Ways DEF ToPython
<1>3. WayOf(sig, j) # "from"
  BY <1>1 DEF ToPython
<1>4. ~IsClosure(sig, j)
  BY <1>2, <1>3 DEF Regular
<1>5. ~Fed(sig, Count(sig), j) /\ ~Ended(sig, Count(sig), j)
  BY <1>3, Owners DEF Fed, Ended, BehindRegular
<1>6. /\ cache.args[j].meta = Meta(sig, Count(sig), j) /\ cache.args[j].dir = WayOf(sig, j)
      /\ Placed(sig, Count(sig), j, cache.args[j])
  BY <1>1, Ready
<1>7. cache.args[j].meta = "parent"
  BY <1>1, <1>4, <1>5, <1>6 DEF Meta
<1> QED BY <1>1, <1>2, <1>6, <1>7 DEF Placed

\* A length is no structure: it is found in a value.
LEMMA LengthSeated ==
  ASSUME TypeInv, Ends, Seats, pc \in {"out return", "out args"}, NEW i \in ArgsOf(sig) \cup {-1},
         HasLengthArg(sig, i), ToPython(WayOf(sig, i)), NEW l, l = LengthAt(sig, i)
  PROVE  args[l].area = "value" /\ outVals[args[l].k].of = l
<1>1. pc \in {"cached"} \cup Calling
  BY DEF Calling
<1>2. Regular(sig) /\ CacheOK(sig, cache, Count(sig)) /\ EndsOK(sig, cache, Count(sig))
  BY <1>1, Now
<1>3. /\ l \in ArgsOf(sig) /\ WayOf(sig, l) = WayOf(sig, i)
      /\ ArgOf(sig, l).tag \notin Interfaces \cup {"array"}
  BY <1>2, Owners DEF LengthRegular
<1>4. l \in Numbers(sig) /\ cache.args[l].dir = WayOf(sig, l) /\ l \in DOMAIN cache.args
  <2>1. l \in Numbers(sig)
    BY <1>2, <1>3, Ways
  <2> QED BY <1>2, <2>1, Ready
<1>5. ~Allocated(l)
  BY <1>2, <1>3, <1>4 DEF EndsOK, Structured, Allocated
<1>6. Seated(l)
  BY <1>4 DEF Seats
<1>7. args[l] = Slot("value", OutSlot(l)) /\ outVals[OutSlot(l)].of = l
  BY <1>3, <1>4, <1>5, <1>6 DEF Seated
<1>8. Slot("value", OutSlot(l)).area = "value" /\ Slot("value", OutSlot(l)).k = OutSlot(l)
  BY DEF Slot
<1> QED BY <1>7, <1>8

-----------------------------------------------------------------------------
(* The places of the values *)

LEMMA SeatStep ==
  ASSUME TypeInv, Seats, pc = "in", pos < cache.n, Step, NEW p, p = pos, sig' = sig, cache' = cache,
         NEW slot, args' = Only(p, slot) ++ args,
         \A j \in ToOnes(sig) : j # p => outArgs'[OutSlot(j)] = outArgs[OutSlot(j)],
         p \in ToOnes(sig) =>
           /\ slot = Slot(IF Allocated(p) THEN "alloc" ELSE "value", OutSlot(p))
           /\ outArgs'[OutSlot(p)] = IF Allocated(p) THEN [k |-> "own", n |-> p] ELSE Ref(OutSlot(p))
  PROVE  Seats'
<1>1. pc \in {"cached"} \cup Calling
  BY DEF Calling
<1>2. /\ Regular(sig) /\ CacheOK(sig, cache, Count(sig)) /\ p \in 0 .. cache.n - 1 /\ p \in Int
      /\ Numbers(sig) = 0 .. cache.n - 1
      /\ \A i \in Numbers(sig) : cache.args[i].dir = WayOf(sig, i)
  BY <1>1, During, Ready
<1>3. pc' \in {"in", "call"} /\ pos' = p + 1 /\ (pc' = "call" <=> p + 1 = cache.n)
  BY StepIs
<1>4. PICK as : as = args'
  OBVIOUS
<1>5. DOMAIN as = {p} \cup DOMAIN args
  BY <1>4, OnlyDomain
<1>6. as[p] = slot /\ \A j \in DOMAIN args : j # p => as[j] = args[j]
  BY <1>4, OnlyOver
<1>7. \A i : Allocated(i)' = Allocated(i) /\ OutSlot(i)' = OutSlot(i)
  BY DEF Allocated, OutSlot
<1>8. ASSUME NEW i \in Numbers(sig), i < p + 1
      PROVE  Seated(i)'
  <2> SUFFICES ASSUME ToPython(cache.args[i].dir)
               PROVE  /\ i \in DOMAIN as
                      /\ as[i] = Slot(IF Allocated(i) THEN "alloc" ELSE "value", OutSlot(i))
                      /\ outArgs'[OutSlot(i)] = IF Allocated(i) THEN [k |-> "own", n |-> i] ELSE Ref(OutSlot(i))
    BY <1>3, <1>4, <1>7 DEF Seated
  <2>1. i \in ToOnes(sig)
    BY <1>2 DEF ToOnes
  <2>2. CASE i = p
    BY <1>5, <1>6, <2>1, <2>2
  <2>3. CASE i # p
    <3>1. i < p
      BY <1>2, <1>8, <2>3
    <3>2. Seated(i)
      BY <3>1 DEF Seats
    <3> QED BY <1>5, <1>6, <2>1, <2>3, <3>2 DEF Seated
  <2> QED BY <2>2, <2>3
<1>9. \A i \in Numbers(sig) : (pc' = "in" => i < pos') => i < p + 1
  BY <1>2, <1>3
<1> QED BY <1>8, <1>9 DEF Seats

LEMMA NothingSeats ==
  ASSUME TypeInv, Arriving, Seats, MarshalNothing
  PROVE  Seats'
<1>1. PICK p : p = pos
  OBVIOUS
<1>2. /\ pc = "in" /\ pos < cache.n /\ Step /\ cache.args[p].dir = "from" /\ sig' = sig /\ cache' = cache
      /\ args' = Only(p, Slot("in", InCount(p))) ++ args /\ outArgs' = outArgs
  BY <1>1 DEF MarshalNothing, outvars
<1>3. p \notin ToOnes(sig)
  BY <1>1, <1>2, AtTurn DEF ToPython
<1> QED BY <1>1, <1>2, <1>3, SeatStep

LEMMA InSeats ==
  ASSUME TypeInv, Arriving, Seats, NEW v, NEW ud, MarshalIn(v, ud)
  PROVE  Seats'
<1>1. PICK p : p = pos
  OBVIOUS
<1>2. CASE pc' = "done"
  BY <1>2 DEF Seats
<1>3. CASE pc' # "done"
  <2>1. /\ pc = "in" /\ pos < cache.n /\ Step /\ cache.args[p].dir = "from" /\ sig' = sig /\ cache' = cache
        /\ args' = Only(p, Slot("in", InCount(p))) ++ args /\ outArgs' = outArgs
    BY <1>1, <1>3 DEF MarshalIn, FailAt, outvars
  <2>2. p \notin ToOnes(sig)
    BY <1>1, <2>1, AtTurn DEF ToPython
  <2> QED BY <1>1, <2>1, <2>2, SeatStep
<1> QED BY <1>2, <1>3

LEMMA BothSeats ==
  ASSUME TypeInv, Arriving, Seats, NEW v, MarshalBoth(v)
  PROVE  Seats'
<1>1. PICK p : p = pos
  OBVIOUS
<1>2. CASE pc' = "done"
  BY <1>2 DEF Seats
<1>3. CASE pc' # "done"
  <2>1. /\ pc = "in" /\ pos < cache.n /\ Step /\ cache.args[p].dir = "both" /\ sig' = sig /\ cache' = cache
        /\ args' = Only(p, Slot("value", OutCount(p))) ++ args
        /\ outArgs' = [outArgs EXCEPT ![OutCount(p)] = Ref(OutCount(p))]
    BY <1>1, <1>3 DEF MarshalBoth, FailAt
  <2>2. /\ Regular(sig) /\ p \in ToOnes(sig) /\ OutCount(p) = OutSlot(p)
        /\ \A j \in ToOnes(sig) : OutSlot(j) \in DOMAIN outArgs
    BY <1>1, <2>1, AtTurn DEF ToPython
  <2>3. PICK f : f = outArgs'
    OBVIOUS
  <2>4. f = [outArgs EXCEPT ![OutSlot(p)] = Ref(OutSlot(p))]
    BY <2>1, <2>2, <2>3
  <2>5. f[OutSlot(p)] = Ref(OutSlot(p)) /\ \A j \in ToOnes(sig) : j # p => f[OutSlot(j)] = outArgs[OutSlot(j)]
    BY <2>2, <2>4, PlaceOut
  <2>6. ~Allocated(p)
    BY <2>1 DEF Allocated
  <2> QED BY <1>1, <2>1, <2>2, <2>3, <2>5, <2>6, SeatStep
<1> QED BY <1>2, <1>3

LEMMA OutSeats ==
  ASSUME TypeInv, Arriving, Seats, NEW possible \in BOOLEAN, MarshalOut(possible)
  PROVE  Seats'
<1>1. PICK p : p = pos
  OBVIOUS
<1>2. CASE pc' = "done"
  BY <1>2 DEF Seats
<1>3. CASE pc' # "done"
  <2>1. PICK c : c = IF Allocated(p) THEN [k |-> "own", n |-> p] ELSE Ref(OutCount(p))
    OBVIOUS
  <2>2. /\ pc = "in" /\ pos < cache.n /\ Step /\ cache.args[p].dir = "to" /\ sig' = sig /\ cache' = cache
    BY <1>1, <1>3 DEF MarshalOut, FailAt
  <2>3. Allocated(p) <=> cache.args[p].caller
    BY <2>2 DEF Allocated
  <2>4. /\ args' = Only(p, Slot(IF Allocated(p) THEN "alloc" ELSE "value", OutCount(p))) ++ args
        /\ outArgs' = [outArgs EXCEPT ![OutCount(p)] = c]
    BY <1>1, <1>3, <2>1, <2>3 DEF MarshalOut, FailAt
  <2>5. /\ Regular(sig) /\ p \in ToOnes(sig) /\ OutCount(p) = OutSlot(p)
        /\ \A j \in ToOnes(sig) : OutSlot(j) \in DOMAIN outArgs
    BY <1>1, <2>2, AtTurn DEF ToPython
  <2>6. PICK f : f = outArgs'
    OBVIOUS
  <2>7. f = [outArgs EXCEPT ![OutSlot(p)] = c]
    BY <2>4, <2>5, <2>6
  <2>8. f[OutSlot(p)] = c /\ \A j \in ToOnes(sig) : j # p => f[OutSlot(j)] = outArgs[OutSlot(j)]
    BY <2>5, <2>7, PlaceOut
  <2> QED BY <1>1, <2>1, <2>2, <2>4, <2>5, <2>6, <2>8, SeatStep
<1> QED BY <1>2, <1>3

LEMMA NoArgsSeats ==
  ASSUME TypeInv, NoArgs
  PROVE  Seats'
<1>1. pc = "in" /\ pc' = "call" /\ sig' = sig /\ cache.n = 0
  BY DEF NoArgs
<1>2. Numbers(sig) = {}
  BY <1>1, During, Ready DEF Calling
<1> QED BY <1>1, <1>2 DEF Seats

LEMMA CallSeats ==
  ASSUME TypeInv, NEW c, NEW first, Call(c, first)
  PROVE  Seats'
<1>1. pc = "cached" /\ sig' = sig /\ pos' = 0 /\ pc' \in {"in", "done"}
  BY DEF Call
<1>2. \A i \in Numbers(sig) : ~(i < 0)
  BY <1>1, During, Ways
<1> QED BY <1>1, <1>2 DEF Seats

LEMMA WhereIs ==
  ASSUME ArriveInv, Ends, Seats, pc = "call", NEW i \in Outs
  PROVE  /\ i \in Numbers(sig) /\ i \in ToOnes(sig) /\ ToPython(cache.args[i].dir)
         /\ ~Allocated(i) => Where(i) = Ref(OutSlot(i))
         /\ Allocated(i) => Where(i).k = "own"
<1>1. pc \in {"cached"} \cup Calling /\ TypeInv
  BY DEF Calling, ArriveInv
<1>2. /\ Regular(sig) /\ CacheOK(sig, cache, Count(sig)) /\ cache.n = Count(sig) /\ Numbers(sig) = 0 .. cache.n - 1
  BY <1>1, Now
<1>3. /\ i \in SigArgs /\ i \in Numbers(sig) /\ i \in ToOnes(sig)
      /\ SigArg(i).dir \in {"out", "inout"}
      /\ SigArg(i).dir = "inout" <=> WayOf(sig, i) = "both"
  BY <1>2, SigArgIs DEF Outs
<1>4. cache.args[i].dir = WayOf(sig, i) /\ ToPython(cache.args[i].dir)
  <2>1. cache.args[i].dir = WayOf(sig, i)
    BY <1>2, <1>3, Ready
  <2> QED BY <1>3, <2>1 DEF ToOnes
<1>5. CalleeIn(i) = inArgs[InSlot(i)] /\ CalleeOut(i) = outArgs[OutSlot(i)]
  BY <1>2, <1>3, CalleeSlots
<1>6. outArgs[OutSlot(i)] = IF Allocated(i) THEN [k |-> "own", n |-> i] ELSE Ref(OutSlot(i))
  <2>1. Seated(i)
    BY <1>3 DEF Seats
  <2> QED BY <1>4, <2>1 DEF Seated
<1>7. cache.args[i].dir = "both" => inArgs[InSlot(i)] = Ref(OutSlot(i))
  <2>1. i < pos
    <3>1. pos = cache.n
      BY DEF ArriveInv, Arriving
    <3>2. cache.n \in Nat
      BY <1>2, Ready
    <3> QED BY <1>2, <1>3, <3>1, <3>2
  <2>2. Filled(i)
    BY <1>3, <2>1 DEF ArriveInv, Arriving
  <2> QED BY <2>2 DEF Filled
<1>8. CASE SigArg(i).dir = "out"
  <2>1. Where(i) = outArgs[OutSlot(i)]
    BY <1>5, <1>8 DEF Where
  <2> QED BY <1>3, <1>4, <1>6, <2>1
<1>9. CASE SigArg(i).dir = "inout"
  <2>1. Where(i) = inArgs[InSlot(i)] /\ cache.args[i].dir = "both"
    BY <1>3, <1>4, <1>5, <1>9 DEF Where
  <2>2. ~Allocated(i)
    BY <2>1 DEF Allocated
  <2> QED BY <1>3, <1>4, <1>7, <2>1, <2>2
<1> QED BY <1>3, <1>4, <1>8, <1>9

LEMMA MinusOne ==
  ASSUME NEW n \in Nat, NEW k \in 0 .. n - 1
  PROVE  k # -1
OBVIOUS

\* An (out) argument is one of the callee's, and each value has a place apart.
LEMMA ReturnPlaces ==
  ASSUME ArriveInv, Ends, Seats, pc = "call", NEW ret, NEW outs, Returns(ret, outs)
  PROVE  /\ outVals'[-1] = [ret EXCEPT !.of = -1]
         /\ \A i \in Outs : /\ i \in Numbers(sig) /\ i \in ToOnes(sig) /\ (Where(i).k = "ref" <=> ~Allocated(i))
                            /\ ~Allocated(i) => outVals'[OutSlot(i)] = [outs[i] EXCEPT !.of = i]
<1> DEFINE W == {i \in Outs : Where(i).k = "ref"}
           owner(o) == CHOOSE i \in W : Where(i).n = o
           puts == [o \in {Where(i).n : i \in W} |-> [outs[owner(o)] EXCEPT !.of = owner(o)]]
           back == [ret EXCEPT !.of = -1]
<1>1. outVals' = (Only(-1, back) ++ puts) ++ outVals
  BY Zenon DEF Returns, Where
<1>2. \A k : Ref(k).k = "ref" /\ Ref(k).n = k
  BY DEF Ref
<1>3. ASSUME NEW i \in Outs
      PROVE  /\ i \in Numbers(sig) /\ i \in ToOnes(sig)
             /\ i \in W <=> ~Allocated(i)
             /\ ~Allocated(i) => Where(i).n = OutSlot(i)
  BY <1>2, WhereIs
<1>4. Regular(sig) /\ CacheOK(sig, cache, Count(sig))
  <2>1. pc \in {"cached"} \cup Calling /\ TypeInv
    BY DEF Calling, ArriveInv
  <2> QED BY <2>1, Now
<1>5. \A i \in Outs, j \in Outs : OutSlot(i) = OutSlot(j) => i = j
  BY <1>3, <1>4, SlotsApart
<1>6. ASSUME NEW i \in W PROVE owner(OutSlot(i)) = i
  <2>1. i \in Outs /\ Where(i).n = OutSlot(i)
    BY <1>3
  <2>2. \A k \in W : Where(k).n = OutSlot(i) => k = i
    BY <1>3, <1>5, <2>1
  <2>3. \E k \in W : Where(k).n = OutSlot(i)
    BY <2>1
  <2> QED BY <2>2, <2>3
<1> HIDE DEF owner
<1>7. ASSUME NEW i \in W PROVE OutSlot(i) \in DOMAIN puts /\ puts[OutSlot(i)] = [outs[i] EXCEPT !.of = i]
  <2>1. i \in Outs /\ Where(i).n = OutSlot(i)
    BY <1>3
  <2> QED BY <1>6, <2>1
<1>8. \A i \in W : i \in Outs
  OBVIOUS
<1>9. \A i \in Outs : Where(i).k = "ref" <=> ~Allocated(i)
  BY <1>3
<1> HIDE DEF puts, back, W
<1>10. PICK vs : vs = outVals'
  OBVIOUS
<1>11. vs[-1] = back /\ \A z \in DOMAIN puts : z # -1 => vs[z] = puts[z]
  <2>1. PICK low, top, mine, own : low = -1 /\ own = puts /\ mine = back /\ top = Only(low, mine) ++ own
    OBVIOUS
  <2>2. DOMAIN top = {low} \cup DOMAIN own
    BY <2>1, OnlyDomain
  <2>3. top[low] = mine /\ \A z \in DOMAIN own : z # low => top[z] = own[z]
    BY <2>1, OnlyOver
  <2>4. vs = top ++ outVals
    BY <1>1, <1>10, <2>1
  <2>5. \A z \in DOMAIN top : (top ++ outVals)[z] = top[z]
    BY Over
  <2> QED BY <2>1, <2>2, <2>3, <2>4, <2>5
<1>12. ASSUME NEW i \in Outs, ~Allocated(i) PROVE vs[OutSlot(i)] = [outs[i] EXCEPT !.of = i]
  <2>1. i \in W
    BY <1>3, <1>12
  <2>2. OutSlot(i) # -1
    <3>1. OutSlot(i) \in 0 .. cache.nTo - 1
      BY <1>3, <1>4, SlotBounds DEF OutSlot
    <3>2. cache.nTo \in Nat
      BY <1>4, Ready
    <3> QED BY <3>1, <3>2, MinusOne
  <2>3. OutSlot(i) \in DOMAIN puts /\ puts[OutSlot(i)] = [outs[i] EXCEPT !.of = i]
    BY <1>7, <2>1
  <2> QED BY <1>11, <2>2, <2>3
<1>13. vs[-1] = [ret EXCEPT !.of = -1]
  BY <1>11 DEF back
<1> QED BY <1>3, <1>9, <1>10, <1>12, <1>13

LEMMA OutputIs ==
  ASSUME OutputsOK, sig \in Sigs, NEW i \in ArgsOf(sig) \cup {-1}, NEW cv \in Outputs(ArgOf(sig, i))
  PROVE  {"k", "n", "items", "of"} \subseteq DOMAIN cv /\ cv.n \in Int /\ cv.items \in Nat
BY DEF OutputsOK

LEMMA OutputsAre ==
  ASSUME TypeInv, Ends, pc = "call", OutputsOK, NEW ret \in Outputs(sig.ret), NEW outs,
         \A i \in Outs : outs[i] \in Outputs(SigArg(i))
  PROVE  /\ sig \in Sigs /\ ret \in Outputs(ArgOf(sig, -1))
         /\ \A i \in Outs : i \in ArgsOf(sig) /\ i # -1 /\ outs[i] \in Outputs(ArgOf(sig, i)) /\ SigArg(i) = ArgOf(sig, i)
         /\ {"k", "n", "items", "of"} \subseteq DOMAIN ret /\ ret.n \in Int /\ ret.items \in Nat
         /\ \A i \in Outs : /\ {"k", "n", "items", "of"} \subseteq DOMAIN outs[i]
                            /\ outs[i].n \in Int /\ outs[i].items \in Nat
<1>1. sig \in Sigs
  BY DEF TypeInv, Indexed
<1>2. Regular(sig) /\ cache.n = Count(sig)
  BY Now DEF Calling
<1>3. \A i \in Outs : i \in ArgsOf(sig) /\ i # -1 /\ SigArg(i) = ArgOf(sig, i)
  BY <1>2, SigArgIs DEF Outs
<1>4. ret \in Outputs(ArgOf(sig, -1))
  BY DEF ArgOf
<1>5. {"k", "n", "items", "of"} \subseteq DOMAIN ret /\ ret.n \in Int /\ ret.items \in Nat
  BY <1>1, <1>4, OutputIs
<1>6. ASSUME NEW i \in Outs
      PROVE  {"k", "n", "items", "of"} \subseteq DOMAIN outs[i] /\ outs[i].n \in Int /\ outs[i].items \in Nat
  <2>1. outs[i] \in Outputs(ArgOf(sig, i))
    BY <1>3, <1>6
  <2> QED BY <1>1, <1>3, <1>6, <2>1, OutputIs
<1> QED BY <1>1, <1>3, <1>4, <1>5, <1>6

LEMMA ReturnSeats ==
  ASSUME ArriveInv, Ends, Seats, OutputsOK, NEW did \in Courses, NEW ret, NEW outs,
         CallC(did, ret, outs)
  PROVE  /\ Seats' /\ pc' \in {"out return", "done"}
         /\ pc' = "out return" => pos' = 0 /\ outVals'[-1].of = -1
<1>1. /\ pc = "call" /\ pos' = 0 /\ sig' = sig /\ cache' = cache /\ args' = args
      /\ ret \in Outputs(sig.ret) /\ \A i \in Outs : outs[i] \in Outputs(SigArg(i))
      /\ Returns(ret, outs) \/ pc' = "done"
  BY DEF CallC, CallFails, Courses
<1>2. CASE pc' = "done"
  BY <1>2 DEF Seats
<1>3. CASE pc' # "done"
  <2>1. Returns(ret, outs) /\ pc' = "out return"
    BY <1>1, <1>3 DEF Returns
  <2>2. PICK vs : vs = outVals'
    OBVIOUS
  <2>3. /\ vs[-1] = [ret EXCEPT !.of = -1]
        /\ \A i \in Outs : ~Allocated(i) => vs[OutSlot(i)] = [outs[i] EXCEPT !.of = i]
    <3>1. pc = "call" /\ Returns(ret, outs)
      BY <1>1, <2>1
    <3>2. /\ outVals'[-1] = [ret EXCEPT !.of = -1]
          /\ \A i \in Outs : ~Allocated(i) => outVals'[OutSlot(i)] = [outs[i] EXCEPT !.of = i]
      BY ONLY ArriveInv, Ends, Seats, <3>1, ReturnPlaces
    <3> QED BY ONLY <2>2, <3>2
  <2>4. Regular(sig) /\ CacheOK(sig, cache, Count(sig)) /\ cache.n = Count(sig)
        /\ \A i \in Numbers(sig) : cache.args[i].dir = WayOf(sig, i)
    <3>1. pc \in {"cached"} \cup Calling /\ TypeInv
      BY <1>1 DEF Calling, ArriveInv
    <3> QED BY <3>1, Now, Ready
  <2>5. vs[-1].of = -1
    <3>1. "of" \in DOMAIN ret
      BY <1>1, OutputsAre DEF ArriveInv
    <3> QED BY <2>3, <3>1
  <2>6. ASSUME NEW i \in Outs, ~Allocated(i) PROVE vs[OutSlot(i)].of = i
    <3>1. "of" \in DOMAIN outs[i]
      BY <1>1, <2>6, OutputsAre DEF ArriveInv
    <3>2. PICK cv : cv = outs[i]
      OBVIOUS
    <3> QED BY <2>3, <2>6, <3>1, <3>2
  <2>7. ASSUME NEW i \in Numbers(sig), ToPython(cache.args[i].dir)
        PROVE  Seated(i)'
    <3>1. Seated(i)
      BY <1>1 DEF Seats
    <3>2. i \in Outs
      <4>1. i \in ArgsOf(sig) /\ i \in ToOnes(sig)
        BY <2>4, <2>7, Ways DEF ToPython, ToOnes
      <4> QED BY <2>4, <4>1, SigArgIs DEF Outs
    <3>3. ~Allocated(i) => vs[OutSlot(i)].of = i
      BY <2>6, <3>2
    <3>4. Allocated(i)' = Allocated(i) /\ OutSlot(i)' = OutSlot(i)
      BY <1>1 DEF Allocated, OutSlot
    <3>5. pc' \notin {"in", "call"}
      BY <2>1
    <3> QED BY <1>1, <2>2, <2>7, <3>1, <3>3, <3>4, <3>5 DEF Seated
  <2>8. \A i \in Numbers(sig) : Seated(i)'
    <3> SUFFICES ASSUME NEW i \in Numbers(sig) PROVE Seated(i)'
      OBVIOUS
    <3>1. ~ToPython(cache.args[i].dir) => Seated(i)'
      BY <1>1 DEF Seated
    <3> QED BY <2>7, <3>1
  <2>9. Seats'
    BY <1>1, <2>1, <2>8 DEF Seats
  <2> QED BY <1>1, <2>1, <2>2, <2>5, <2>9
<1> QED BY <1>2, <1>3

-----------------------------------------------------------------------------
(* What has been gathered *)

\* The length that goes with a value is that of the array it belongs to.
LEMMA LengthOwn ==
  ASSUME TypeInv, Ends, Seats, pc \in Gathering, NEW i \in ArgsOf(sig) \cup {-1},
         ToPython(WayOf(sig, i)), NEW e, e.tag = ArgOf(sig, i).tag,
         e.len = IF ArgOf(sig, i).len >= 0 THEN ArgOf(sig, i).len + Offset(sig.ftype) ELSE -1
  PROVE  LengthOfValue(e) = OwnLen(ArgOf(sig, i)) /\ LengthOfValue(e) \in Int
<1>1. pc \in {"cached"} \cup Calling
  BY DEF Calling, Gathering
<1>2. Regular(sig)
  BY <1>1, Now
<1>3. ArgOf(sig, i).len \in Int /\ Offset(sig.ftype) \in {0, 1}
  BY <1>2, Owners, Ways
<1>4. CASE HasLengthArg(sig, i)
  <2>1. PICK l : l = LengthAt(sig, i)
    OBVIOUS
  <2>2. e.tag = "array" /\ e.len >= 0 /\ e.len = l /\ l \in Int
    BY <1>3, <1>4, <2>1 DEF HasLengthArg, LengthAt
  <2>3. args[l].area = "value" /\ outVals[args[l].k].of = l
    BY <1>4, <2>1, LengthSeated DEF Gathering
  <2>4. LengthOfValue(e) = l
    BY <2>2, <2>3 DEF LengthOfValue
  <2>5. OwnLen(ArgOf(sig, i)) = l
    BY <1>4, <2>1 DEF OwnLen, HasLengthArg, LengthAt, Off
  <2> QED BY <2>2, <2>4, <2>5
<1>5. CASE ~HasLengthArg(sig, i)
  <2>1. ~(e.tag = "array" /\ e.len >= 0)
    BY <1>3, <1>5 DEF HasLengthArg
  <2>2. LengthOfValue(e) = -1
    BY <2>1 DEF LengthOfValue
  <2>3. OwnLen(ArgOf(sig, i)) = -1
    BY <1>5 DEF OwnLen, HasLengthArg
  <2> QED BY <2>2, <2>3
<1> QED BY <1>4, <1>5

\* What is read for an argument is what was put there for it.
LEMMA ValueOf ==
  ASSUME Seats, pc = "out args", NEW i \in Numbers(sig), ToPython(cache.args[i].dir)
  PROVE  ValueAt(i).of = i
<1>1. Seated(i)
  BY DEF Seats
<1>2. CASE Allocated(i)
  <2>1. args[i] = Slot("alloc", OutSlot(i))
    BY <1>1, <1>2 DEF Seated
  <2>2. args[i].area = "alloc"
    <3>1. \A k : Slot("alloc", k).area = "alloc"
      BY DEF Slot
    <3> QED BY <2>1, <3>1
  <2> QED BY <2>2 DEF ValueAt
<1>3. CASE ~Allocated(i)
  <2>1. args[i] = Slot("value", OutSlot(i)) /\ outVals[OutSlot(i)].of = i
    BY <1>1, <1>3 DEF Seated
  <2>2. args[i].area = "value" /\ args[i].k = OutSlot(i)
    <3>1. \A k : Slot("value", k).area = "value" /\ Slot("value", k).k = k
      BY DEF Slot
    <3> QED BY <2>1, <3>1
  <2>3. ValueAt(i) = outVals[OutSlot(i)]
    BY <2>2 DEF ValueAt, At
  <2> QED BY <2>1, <2>3
<1> QED BY <1>2, <1>3

LEMMA Quiet ==
  ASSUME Gathered, pc \notin {"out args", "done"}, result' = result, pc' \notin {"out return", "out args"},
         outcome' = outcome \/ outcome' # "returned"
  PROVE  Gathered'
<1>1. result' = None /\ outcome' # "returned"
  BY DEF Gathered
<1> QED BY <1>1 DEF Gathered

\* Where values are does not change while they are marshalled.
LEMMA SeatsStay ==
  ASSUME Seats, pc \in {"out return", "out args"}, pc' \in {"out args", "done"},
         sig' = sig, cache' = cache, args' = args, outVals' = outVals
  PROVE  Seats'
<1>1. ASSUME NEW i \in Numbers(sig), pc' = "out args"
      PROVE  Seated(i)'
  <2>1. Seated(i)
    BY DEF Seats
  <2>2. Allocated(i)' = Allocated(i) /\ OutSlot(i)' = OutSlot(i)
    BY DEF Allocated, OutSlot
  <2> QED BY <1>1, <2>1, <2>2 DEF Seated
<1> QED BY <1>1 DEF Seats

LEMMA ReturnGains ==
  ASSUME ArriveInv, Ends, Seats, Gathered, OutReturn
  PROVE  Gathered' /\ Seats' /\ pc = "out return" /\ pc' \in {"out args", "done"} /\ sig' = sig /\ cache' = cache
<1>1. /\ pc = "out return" /\ pc' \in {"out args", "done"} /\ sig' = sig /\ cache' = cache
      /\ args' = args /\ outVals' = outVals /\ pos' = pos
      /\ pc' = "done" => outcome' = "bad result"
  BY DEF OutReturn, BadResult, outvars
<1>2. Seats'
  BY <1>1, SeatsStay
<1>3. CASE pc' = "done"
  BY <1>1, <1>2, <1>3 DEF Gathered
<1>4. CASE pc' = "out args"
  <2>1. pos = 0 /\ outVals[-1].of = -1 /\ outcome # "returned" /\ result = None
    BY <1>1 DEF Gathered
  <2>2. outcome' = outcome
    BY <1>1, <1>4 DEF OutReturn, BadResult
  <2>3. TypeInv /\ pc \in {"cached"} \cup Calling
    BY <1>1 DEF ArriveInv, Calling
  <2>4. Regular(sig) /\ CacheOK(sig, cache, Count(sig)) /\ EndsOK(sig, cache, Count(sig))
    BY <2>3, Now
  <2>5. NOut \in Nat
    BY <2>4, ResultsAre
  <2>6. PICK e : e = cache.ret
    OBVIOUS
  <2>7. /\ e.tag = sig.ret.tag
        /\ e.len = IF sig.ret.len >= 0 THEN sig.ret.len + Offset(sig.ftype) ELSE -1
    BY <2>4, <2>6 DEF EndsOK, Returning
  <2>8. ArgOf(sig, -1) = sig.ret /\ ToPython(WayOf(sig, -1))
    BY DEF ArgOf, WayOf, ToPython
  <2>9. LengthOfValue(e) = OwnLen(sig.ret) /\ LengthOfValue(e) \in Int
    BY <1>1, <2>3, <2>7, <2>8, LengthOwn DEF Gathering
  <2>10. PICK r : r = result'
    OBVIOUS
  <2>11. \/ r = None /\ ~Returned
         \/ r = <<[of |-> -1, len |-> OwnLen(sig.ret)]>> /\ Returned
    <3>1. CASE sig.skip
      BY <1>1, <1>4, <2>1, <2>10, <3>1 DEF OutReturn, Returned
    <3>2. CASE ~sig.skip
      <4>1. result' = IF e.tag = "void" THEN None ELSE <<[of |-> outVals[-1].of, len |-> LengthOfValue(e)]>>
        BY <1>1, <1>4, <2>6, <3>2 DEF OutReturn, BadResult
      <4> QED BY <2>1, <2>7, <2>9, <2>10, <3>2, <4>1 DEF Returned
    <3> QED BY <3>1, <3>2
  <2>12. /\ Len(r) = First /\ r \in Seq([of : Int, len : Int])
         /\ Returned => r[1] = [of |-> -1, len |-> OwnLen(sig.ret)]
    <3>1. OwnLen(sig.ret) \in Int
      BY <2>9
    <3>2. PICK first : first = [of |-> -1, len |-> OwnLen(sig.ret)]
      OBVIOUS
    <3>3. first \in [of : Int, len : Int]
      BY <3>1, <3>2
    <3>4. CASE r = None /\ ~Returned
      BY <3>4 DEF First, None
    <3>5. CASE r = <<first>> /\ Returned
      <4>1. Len(<<first>>) = 1 /\ <<first>> \in Seq([of : Int, len : Int]) /\ <<first>>[1] = first
        BY <3>3
      <4> QED BY <3>2, <3>5, <4>1 DEF First
    <3> QED BY <2>11, <3>2, <3>4, <3>5
  <2>13. (Returned <=> Returned') /\ First' = First /\ OwnLen(sig.ret)' = OwnLen(sig.ret) /\ NOut' = NOut
    BY <1>1 DEF Returned, First, OwnLen, Off, NOut
  <2>14. Gained(0)'
    <3>1. Len(r) = First + 0
      BY <2>12 DEF First
    <3>2. 1 .. 0 = {}
      OBVIOUS
    <3> QED BY <1>1, <2>10, <2>12, <2>13, <3>1, <3>2 DEF Gained
  <2>15. pos' = 0 /\ outcome' # "returned"
    BY <1>1, <2>1, <2>2
  <2>16. pos' <= NOut'
    <3>1. 0 <= NOut
      BY <2>5
    <3> QED BY <2>13, <2>15, <3>1
  <2>17. Gained(pos)'
    BY <2>14, <2>15 DEF Gained
  <2>18. Gathered'
    BY <1>4, <2>15, <2>16, <2>17 DEF Gathered
  <2> QED BY <1>1, <1>2, <1>4, <2>18
<1> QED BY <1>1, <1>2, <1>3, <1>4

LEMMA Appended ==
  ASSUME NEW T, NEW q \in Seq(T), NEW x \in T, NEW n \in Nat, Len(q) = n
  PROVE  /\ Append(q, x) \in Seq(T) /\ Len(Append(q, x)) = n + 1 /\ Append(q, x)[n + 1] = x
         /\ \A l \in 1 .. n : Append(q, x)[l] = q[l]
OBVIOUS

\* The value at a place of the list is appended with the length that goes with it.
LEMMA ArgGains ==
  ASSUME ArriveInv, Ends, Seats, Gathered, OutArg
  PROVE  Gathered' /\ Seats' /\ pc = "out args" /\ pc' \in {"out args", "done"} /\ sig' = sig /\ cache' = cache
<1>1. /\ pc = "out args" /\ pc' \in {"out args", "done"} /\ sig' = sig /\ cache' = cache
      /\ args' = args /\ outVals' = outVals
      /\ pc' = "done" => outcome' = "bad result"
      /\ pos < NOut /\ pos < Len(cache.toPy)
  BY DEF OutArg, BadResult, outvars
<1>2. Seats'
  BY <1>1, SeatsStay
<1>3. CASE pc' = "done"
  BY <1>1, <1>2, <1>3 DEF Gathered
<1>4. CASE pc' = "out args"
  <2>1. Gained(pos) /\ outcome # "returned"
    BY <1>1 DEF Gathered
  <2>2. TypeInv /\ pc \in {"cached"} \cup Calling
    BY <1>1 DEF ArriveInv, Calling
  <2>3. /\ Regular(sig) /\ CacheOK(sig, cache, Count(sig)) /\ EndsOK(sig, cache, Count(sig))
        /\ cache.n = Count(sig)
    BY <2>2, Now
  <2>4. PICK p : p = pos
    OBVIOUS
  <2>5. p \in Nat /\ p < NOut /\ p < Len(cache.toPy) /\ NOut \in Nat /\ NOut = Len(cache.toPy)
    <3>1. pos \in 0 .. cache.n /\ cache.n \in Nat
      BY <2>2, During
    <3>2. NOut \in Nat /\ NOut = Len(cache.toPy)
      BY <2>3, ResultsAre
    <3>3. p < NOut /\ p < Len(cache.toPy)
      BY <1>1, <2>4
    <3>4. p \in Nat
      BY <2>4, <3>1
    <3> QED BY <3>2, <3>3, <3>4
  <2>6. PICK j : j = cache.toPy[p + 1]
    OBVIOUS
  <2>7. j \in Results(sig, Count(sig))
    <3>1. Listing(cache.toPy, Results(sig, Count(sig)))
      BY <2>3 DEF EndsOK
    <3>2. p + 1 \in 1 .. Len(cache.toPy)
      BY <2>5
    <3> QED BY <2>6, <3>1, <3>2 DEF Listing
  <2>8. /\ j \in Numbers(sig) /\ j \in ArgsOf(sig) /\ j \in Int /\ ToPython(cache.args[j].dir)
        /\ ToPython(WayOf(sig, j)) /\ cache.args[j].c = j /\ Described(sig, j, cache.args[j])
    BY <2>3, <2>7, ResultEntry
  <2>9. PICK e : e = cache.args[j]
    OBVIOUS
  <2>10. /\ e.tag = ArgOf(sig, j).tag
         /\ e.len = IF ArgOf(sig, j).len >= 0 THEN ArgOf(sig, j).len + Offset(sig.ftype) ELSE -1
    BY <2>8, <2>9 DEF Described
  <2>11. LengthOfValue(e) = OwnLen(ArgOf(sig, j)) /\ LengthOfValue(e) \in Int
    BY <1>1, <2>2, <2>8, <2>10, LengthOwn DEF Gathering
  <2>12. ArgOf(sig, j) = SigArg(j)
    BY <2>3, <2>8, SigArgIs
  <2>13. ValueAt(j).of = j
    BY <1>1, <2>8, ValueOf
  <2>14. PICK x : x = [of |-> j, len |-> OwnLen(SigArg(j))]
    OBVIOUS
  <2>15. x \in [of : Int, len : Int]
    BY <2>8, <2>11, <2>12, <2>14
  <2>16. pos' = p + 1 /\ outcome' = outcome /\ result' = Append(result, x)
    <3>1. cache.args[cache.toPy[pos + 1]].c = j /\ cache.args[j] = e
      BY <2>4, <2>6, <2>8, <2>9
    <3>2. /\ pos' = pos + 1 /\ outcome' = outcome
          /\ result' = Append(result, [of |-> ValueAt(j).of, len |-> LengthOfValue(e)])
      BY <1>1, <1>4, <3>1 DEF OutArg, BadResult
    <3> QED BY <2>4, <2>11, <2>12, <2>13, <2>14, <3>2
  <2>17. PICK f : f = First
    OBVIOUS
  <2>18. f \in {0, 1} /\ (Returned => f = 1)
    BY <2>17 DEF First
  <2>19. PICK q, r : q = result /\ r = result'
    OBVIOUS
  <2>20. /\ q \in Seq([of : Int, len : Int]) /\ Len(q) = f + p
         /\ Returned => q[1] = [of |-> -1, len |-> OwnLen(sig.ret)]
         /\ \A l \in 1 .. p : q[f + l] = [of |-> cache.toPy[l], len |-> OwnLen(SigArg(cache.toPy[l]))]
    BY <2>1, <2>4, <2>17, <2>19 DEF Gained
  <2>21. f + p \in Nat
    BY <2>5, <2>18
  <2>22. /\ r \in Seq([of : Int, len : Int]) /\ Len(r) = f + p + 1 /\ r[f + p + 1] = x
         /\ \A l \in 1 .. f + p : r[l] = q[l]
    <3>1. r = Append(q, x)
      BY <2>16, <2>19
    <3> QED BY <2>15, <2>20, <2>21, <3>1, Appended
  <2>23. Len(r) = f + (p + 1)
    BY <2>5, <2>18, <2>22
  <2>24. Returned => r[1] = [of |-> -1, len |-> OwnLen(sig.ret)]
    <3>1. Returned => 1 \in 1 .. f + p
      BY <2>5, <2>18
    <3> QED BY <2>20, <2>22, <3>1
  <2>25. ASSUME NEW l \in 1 .. p + 1
         PROVE  r[f + l] = [of |-> cache.toPy[l], len |-> OwnLen(SigArg(cache.toPy[l]))]
    <3>1. CASE l = p + 1
      <4>1. f + l = f + p + 1
        BY <2>5, <2>18, <3>1
      <4> QED BY <2>6, <2>14, <2>22, <3>1, <4>1
    <3>2. CASE l # p + 1
      <4>1. l \in 1 .. p /\ f + l \in 1 .. f + p
        BY <2>5, <2>18, <3>2
      <4> QED BY <2>20, <2>22, <4>1
    <3> QED BY <3>1, <3>2
  <2>26. /\ (Returned <=> Returned')
         /\ First' = f /\ OwnLen(sig.ret)' = OwnLen(sig.ret) /\ NOut' = NOut
         /\ \A l : OwnLen(SigArg(cache.toPy[l]))' = OwnLen(SigArg(cache.toPy[l]))
    BY <1>1, <2>17 DEF Returned, First, OwnLen, Off, NOut, SigArg
  <2>27. Gained(pos)'
    BY <1>1, <2>16, <2>19, <2>22, <2>23, <2>24, <2>25, <2>26 DEF Gained
  <2>28. pos' <= NOut'
    BY <2>5, <2>16, <2>26
  <2>29. Gathered'
    BY <1>4, <2>1, <2>16, <2>27, <2>28 DEF Gathered
  <2> QED BY <1>1, <1>2, <1>4, <2>29
<1> QED BY <1>1, <1>2, <1>3, <1>4

LEMMA FinishGains ==
  ASSUME Seats, Gathered, Finish
  PROVE  Gathered' /\ Seats' /\ pc = "out args" /\ pc' = "done" /\ sig' = sig /\ cache' = cache
<1>1. /\ pc = "out args" /\ pc' = "done" /\ sig' = sig /\ cache' = cache /\ result' = result /\ pos = NOut
      /\ args' = args /\ outVals' = outVals
  BY DEF Finish, outvars
<1>2. Gained(NOut)
  BY <1>1 DEF Gathered
<1>3. /\ (Returned <=> Returned')
      /\ First' = First /\ OwnLen(sig.ret)' = OwnLen(sig.ret) /\ NOut' = NOut
      /\ \A l : OwnLen(SigArg(cache.toPy[l]))' = OwnLen(SigArg(cache.toPy[l]))
  BY <1>1 DEF Returned, First, OwnLen, Off, NOut, SigArg
<1>4. Gained(NOut)'
  BY <1>1, <1>2, <1>3 DEF Gained
<1> QED BY <1>1, <1>4, SeatsStay DEF Gathered

LEMMA AgainGains ==
  ASSUME Again
  PROVE  Gathered' /\ Seats' /\ pc = "done" /\ pc' = "cached" /\ sig' = sig /\ cache' = cache
BY DEF Again, Gathered, Seats

LEMMA StayGains ==
  ASSUME Gathered, Seats, UNCHANGED vars
  PROVE  Gathered' /\ Seats'
<1>1. /\ sig' = sig /\ cache' = cache /\ pc' = pc /\ pos' = pos /\ result' = result /\ outcome' = outcome
      /\ args' = args /\ outVals' = outVals /\ outArgs' = outArgs
  BY DEF vars, outvars, endvars
<1>2. \A i : Allocated(i)' = Allocated(i) /\ OutSlot(i)' = OutSlot(i)
  BY <1>1 DEF Allocated, OutSlot
<1>3. \A i : Seated(i)' = Seated(i)
  BY <1>1, <1>2 DEF Seated
<1>4. Seats'
  BY <1>1, <1>3 DEF Seats
<1>5. /\ (Returned <=> Returned')
      /\ First' = First /\ OwnLen(sig.ret)' = OwnLen(sig.ret) /\ NOut' = NOut
      /\ \A l : OwnLen(SigArg(cache.toPy[l]))' = OwnLen(SigArg(cache.toPy[l]))
  BY <1>1 DEF Returned, First, OwnLen, Off, NOut, SigArg
<1>6. \A k : Gained(k) => Gained(k)'
  BY <1>1, <1>5 DEF Gained
<1>7. Gathered'
  BY <1>1, <1>5, <1>6 DEF Gathered
<1> QED BY <1>4, <1>7

\* Calls, and the arguments on their way in, gather nothing.
LEMMA NextResults ==
  ASSUME ResultInv, ValuesOK, OutputsOK, [Next]_vars
  PROVE  ResultInv'
<1>0. /\ ArriveInv /\ Ends /\ Seats /\ Gathered /\ ArriveInv' /\ TypeInv /\ Indexed /\ Arriving
  BY NextArrives DEF ResultInv, ArriveInv, TypeInv
<1> SUFFICES Ends' /\ Seats' /\ Gathered'
  BY <1>0 DEF ResultInv
<1>1. CASE CacheNext /\ UNCHANGED <<callvars, invars, outvars, args, ledger, endvars>>
  <2>1. Ends'
    BY <1>0, <1>1, CacheEnds
  <2>2. pc \in Building /\ pc' \in Building \cup {"cached"}
    BY <1>0, <1>1 DEF CacheNext, CacheNew, CacheReturn, CacheClosure, CacheChild, CacheArg, CacheDone, Building
  <2>3. Seats'
    BY <2>2 DEF Seats, Building
  <2>4. Gathered'
    <3>1. pc \notin {"out args", "done"} /\ pc' \notin {"out return", "out args"}
      BY <2>2 DEF Building
    <3>2. result' = result /\ outcome' = outcome
      BY <1>1 DEF endvars
    <3> QED BY <1>0, <3>1, <3>2, Quiet
  <2> QED BY <2>1, <2>3, <2>4
<1>2. ASSUME NEW c, NEW first, Call(c, first)
      PROVE  Ends' /\ Seats' /\ Gathered'
  <2>1. /\ pc = "cached" /\ pc' \in {"in", "done"} /\ sig' = sig /\ cache' = cache /\ result' = result
        /\ outcome' = outcome \/ outcome' # "returned"
    BY <1>2 DEF Call
  <2>2. Ends'
    BY <1>0, <2>1, CallEnds DEF Calling
  <2>3. Seats'
    BY <1>0, <1>2, CallSeats
  <2> QED BY <1>0, <2>1, <2>2, <2>3, Quiet
<1>3. CASE MarshalNothing
  <2>1. /\ pc = "in" /\ Step /\ sig' = sig /\ cache' = cache /\ result' = result /\ outcome' = outcome
    BY <1>3 DEF MarshalNothing, endvars
  <2>2. Seats'
    BY <1>0, <1>3, NothingSeats
  <2> QED BY <1>0, <2>1, <2>2, StepIs, CallEnds, Quiet DEF Calling
<1>4. ASSUME NEW v, NEW ud, MarshalIn(v, ud)
      PROVE  Ends' /\ Seats' /\ Gathered'
  <2>1. /\ pc = "in" /\ sig' = sig /\ cache' = cache /\ (pc' = "done" \/ Step) /\ result' = result
        /\ outcome' = outcome \/ outcome' # "returned"
    BY <1>4 DEF MarshalIn, FailAt, endvars
  <2>2. Seats'
    BY <1>0, <1>4, InSeats
  <2> QED BY <1>0, <2>1, <2>2, StepIs, CallEnds, Quiet DEF Calling
<1>5. ASSUME NEW v, MarshalBoth(v)
      PROVE  Ends' /\ Seats' /\ Gathered'
  <2>1. /\ pc = "in" /\ sig' = sig /\ cache' = cache /\ (pc' = "done" \/ Step) /\ result' = result
        /\ outcome' = outcome \/ outcome' # "returned"
    BY <1>5 DEF MarshalBoth, FailAt, endvars
  <2>2. Seats'
    BY <1>0, <1>5, BothSeats
  <2> QED BY <1>0, <2>1, <2>2, StepIs, CallEnds, Quiet DEF Calling
<1>6. ASSUME NEW possible \in BOOLEAN, MarshalOut(possible)
      PROVE  Ends' /\ Seats' /\ Gathered'
  <2>1. /\ pc = "in" /\ sig' = sig /\ cache' = cache /\ (pc' = "done" \/ Step) /\ result' = result
        /\ outcome' = outcome \/ outcome' # "returned"
    BY <1>6 DEF MarshalOut, FailAt, endvars
  <2>2. Seats'
    BY <1>0, <1>6, OutSeats
  <2> QED BY <1>0, <2>1, <2>2, StepIs, CallEnds, Quiet DEF Calling
<1>7. CASE NoArgs
  <2>1. /\ pc = "in" /\ pc' = "call" /\ sig' = sig /\ cache' = cache /\ result' = result /\ outcome' = outcome
    BY <1>7 DEF NoArgs, endvars
  <2>2. Seats'
    BY <1>0, <1>7, NoArgsSeats
  <2> QED BY <1>0, <2>1, <2>2, CallEnds, Quiet DEF Calling
<1>8. ASSUME NEW did \in Courses, NEW ret, NEW outs, CallC(did, ret, outs)
      PROVE  Ends' /\ Seats' /\ Gathered'
  <2>1. /\ pc = "call" /\ pc' \in {"out return", "done"} /\ sig' = sig /\ cache' = cache /\ result' = result
        /\ outcome' = outcome \/ outcome' # "returned"
    BY <1>8 DEF CallC, Returns, CallFails, Courses
  <2>2. Seats' /\ (pc' = "out return" => pos' = 0 /\ outVals'[-1].of = -1)
    BY <1>0, <1>8, ReturnSeats
  <2>3. Ends'
    BY <1>0, <2>1, CallEnds DEF Calling
  <2>4. CASE pc' = "done"
    BY <1>0, <2>1, <2>2, <2>3, <2>4, Quiet
  <2>5. CASE pc' = "out return"
    <3>1. result = None /\ outcome # "returned"
      BY <1>0, <2>1 DEF Gathered
    <3>2. Gathered'
      BY <2>1, <2>2, <2>5, <3>1 DEF Gathered
    <3> QED BY <2>2, <2>3, <3>2
  <2> QED BY <2>1, <2>4, <2>5
<1>9. CASE OutReturn
  <2>1. Gathered' /\ Seats' /\ pc = "out return" /\ pc' \in {"out args", "done"} /\ sig' = sig /\ cache' = cache
    BY <1>0, <1>9, ReturnGains
  <2> QED BY <1>0, <2>1, CallEnds DEF Calling
<1>10. CASE OutArg
  <2>1. Gathered' /\ Seats' /\ pc = "out args" /\ pc' \in {"out args", "done"} /\ sig' = sig /\ cache' = cache
    BY <1>0, <1>10, ArgGains
  <2> QED BY <1>0, <2>1, CallEnds DEF Calling
<1>11. CASE Finish
  <2>1. Gathered' /\ Seats' /\ pc = "out args" /\ pc' = "done" /\ sig' = sig /\ cache' = cache
    BY <1>0, <1>11, FinishGains
  <2> QED BY <1>0, <2>1, CallEnds DEF Calling
<1>12. CASE Again
  <2>1. Gathered' /\ Seats' /\ pc = "done" /\ pc' = "cached" /\ sig' = sig /\ cache' = cache
    BY <1>0, <1>12, AgainGains
  <2> QED BY <1>0, <2>1, CallEnds DEF Calling
<1>13. CASE UNCHANGED vars
  <2>1. Gathered' /\ Seats'
    BY <1>0, <1>13, StayGains
  <2>2. sig' = sig /\ cache' = cache /\ pc' = pc /\ pos' = pos
    BY <1>13 DEF vars
  <2>3. Ends'
    BY <1>0, <2>2 DEF Ends
  <2> QED BY <2>1, <2>3
<1>14. CASE Next
  <2>1. CASE \E c, first : Call(c, first)
    BY <1>2, <2>1
  <2>2. CASE \E v, ud : MarshalIn(v, ud)
    BY <1>4, <2>2
  <2>3. CASE \E v : MarshalBoth(v)
    BY <1>5, <2>3
  <2>4. CASE \E possible \in BOOLEAN : MarshalOut(possible)
    BY <1>6, <2>4
  <2>5. CASE \E did \in {"returns", "throws", "not run"} : \E ret, outs : CallC(did, ret, outs)
    BY <1>8, <2>5 DEF Courses
  <2> QED BY <1>1, <1>3, <1>7, <1>9, <1>10, <1>11, <1>12, <1>14, <2>1, <2>2, <2>3, <2>4, <2>5 DEF Next
<1> QED BY <1>13, <1>14

LEMMA InitResults ==
  ASSUME Init
  PROVE  ResultInv
<1>1. ArriveInv
  BY InitArrives
<1>2. pc = "no cache" /\ result = None /\ outcome # "returned"
  BY DEF Init, InitCache
<1> QED BY <1>1, <1>2 DEF ResultInv, Ends, Seats, Gathered, Calling

\* The place of an argument's value is the one that those before it leave.
LEMMA AllGained ==
  ASSUME ResultInv
  PROVE  ResultComplete
<1> SUFFICES ASSUME outcome = "returned" PROVE ResultComplete
  BY DEF ResultComplete
<1>1. pc = "done" /\ Gained(NOut)
  BY DEF ResultInv, Gathered
<1>2. TypeInv /\ Ends /\ pc \in {"cached"} \cup Calling
  BY <1>1 DEF ResultInv, ArriveInv, Calling
<1>3. Regular(sig) /\ CacheOK(sig, cache, Count(sig)) /\ EndsOK(sig, cache, Count(sig))
  BY <1>2, Now
<1>4. /\ Listing(cache.toPy, Wanted) /\ NOut = Len(cache.toPy) /\ NOut = Cardinality(Wanted)
  BY <1>3, ResultsAre
<1>5. ASSUME NEW i \in Wanted
      PROVE  result[First + Order(i, Wanted)] = [of |-> i, len |-> OwnLen(SigArg(i))]
  <2>1. Order(i, Wanted) \in 1 .. NOut /\ cache.toPy[Order(i, Wanted)] = i
    BY <1>4, ListedAll DEF Order
  <2> QED BY <1>1, <2>1 DEF Gained
<1>6. Len(result) = First + Cardinality(Wanted) /\ (Returned => result[1] = [of |-> -1, len |-> OwnLen(sig.ret)])
  BY <1>1, <1>4 DEF Gained
<1> QED BY <1>5, <1>6 DEF ResultComplete, Returned, First, OwnLen

(***************************************************************************)
(* What Python gets back is complete: the return value and then every      *)
(* (out) value, once, in the callee's order, each array with the length    *)
(* that is its own, for any callable of the signatures that are Regular    *)
(* and any values the callee gives back, however often it is called.       *)
(* (_invoke_marshal_out_args, the to_py_args list of pygi-cache.c)         *)
(***************************************************************************)
THEOREM ResultCompleteAlways ==
  ASSUME ValuesOK, OutputsOK
  PROVE  Spec => []ResultComplete
<1>1. Init => ResultInv
  BY InitResults
<1>2. ResultInv /\ [Next]_vars => ResultInv'
  BY NextResults
<1>3. ResultInv => ResultComplete
  BY AllGained
<1> QED BY <1>1, <1>2, <1>3, PTL DEF Spec

-----------------------------------------------------------------------------
(* What a marshaller takes *)

LEMMA SinglePlain ==
  ASSUME NEW e, NEW v
  PROVE  /\ \A left : Single(e, v, Fails(left))
         /\ \A c : Single(e, v, Done(c, {}))
         /\ v.py # "none" /\ HoldsSelf(e.tag, e.transfer) => \A c : Single(e, v, Done(c, {Data}))
         /\ \A ok, r : Single(e, v, r) \/ ~ok => Single(e, v, FailsUnless(ok, r))
<1>1. \A left : Single(e, v, Fails(left))
  BY DEF Single, Fails
<1>2. \A c : Single(e, v, Done(c, {}))
  BY DEF Single, Done
<1>3. v.py # "none" /\ HoldsSelf(e.tag, e.transfer) => \A c : Single(e, v, Done(c, {Data}))
  BY DEF Single, Done
<1>4. ASSUME NEW ok, NEW r, Single(e, v, r) \/ ~ok
      PROVE  Single(e, v, FailsUnless(ok, r))
  <2>1. CASE ok
    BY <1>4, <2>1 DEF FailsUnless
  <2>2. CASE ~ok
    BY <1>1, <2>2 DEF FailsUnless
  <2> QED BY <2>1, <2>2
<1> QED BY <1>1, <1>2, <1>3, <1>4

LEMMA TookScalar ==
  ASSUME NEW e, NEW v
  PROVE  Single(e, v, ScalarFromPy(e, v))
<1> DEFINE Good(r) == Single(e, v, r)
           mine == HoldsSelf(e.tag, e.transfer)
<1>1. /\ \A left : Good(Fails(left))
      /\ \A c : Good(Done(c, {}))
      /\ v.py # "none" /\ mine => \A c : Good(Done(c, {Data}))
      /\ \A ok, r : Good(r) \/ ~ok => Good(FailsUnless(ok, r))
  BY SinglePlain
<1>2. /\ e.tag \in Copies => mine
      /\ e.tag \in {"object", "boxed"} /\ e.transfer = "everything" => mine
  BY DEF HoldsSelf
<1> HIDE DEF Good, mine
<1>3. Good(SmallIntFromPy(e.tag, v)) /\ Good(IntFromPy(e.tag, v)) /\ Good(WideIntFromPy(e.tag, v))
  BY <1>1 DEF SmallIntFromPy, IntFromPy, WideIntFromPy
<1>4. Good(FloatFromPy(e.tag, v)) /\ Good(TruthFromPy(v)) /\ Good(UnicharFromPy(v)) /\ Good(GTypeFromPy(v))
  BY <1>1 DEF FloatFromPy, TruthFromPy, UnicharFromPy, GTypeFromPy
<1>5. Good(EnumFromPy(v)) /\ Good(FlagsFromPy(v)) /\ Good(InstanceFromPy(v)) /\ Good(VoidFromPy) /\ Good(ErrorFromPy)
  BY <1>1 DEF EnumFromPy, FlagsFromPy, InstanceFromPy, VoidFromPy, ErrorFromPy
<1>6. e.tag \in Copies => Good(Utf8FromPy(v)) /\ Good(FilenameFromPy(v))
  BY <1>1, <1>2 DEF Utf8FromPy, FilenameFromPy
<1>7. e.tag = "gvalue" /\ v.py # "none" => Good(GValueFromPy(v))
  BY <1>1, <1>2 DEF GValueFromPy, Copies
<1>8. Good(StructFromPy(e, v))
  <2>1. CASE v.py = "none"
    BY <1>1, <2>1 DEF StructFromPy
  <2>2. CASE v.py # "none" /\ e.tag = "gvalue"
    BY <1>7, <2>2 DEF StructFromPy
  <2>3. CASE v.py # "none" /\ e.tag = "boxed"
    <3>1. StructFromPy(e, v) = FailsUnless(v.py = "boxed", IF e.transfer = "everything" THEN Done(Own, {Data})
                                                           ELSE Done(Borrowed, {}))
      BY <2>3 DEF StructFromPy
    <3>2. Good(IF e.transfer = "everything" THEN Done(Own, {Data}) ELSE Done(Borrowed, {}))
      BY <1>1, <1>2, <2>3
    <3> QED BY <1>1, <3>1, <3>2
  <2>4. CASE v.py # "none" /\ e.tag \notin {"gvalue", "boxed"}
    BY <1>1, <2>4 DEF StructFromPy
  <2> QED BY <2>1, <2>2, <2>3, <2>4
<1>9. e.tag = "object" => Good(ObjectFromPy(e, v))
  <2>1. CASE v.py = "none"
    BY <1>1, <2>1 DEF ObjectFromPy
  <2>2. ASSUME v.py # "none", e.tag = "object"
        PROVE  Good(GObjectFromPy(v, e.transfer))
    <3>1. CASE e.transfer = "everything"
      <4>1. Good(Done(Own, {Data}))
        BY <1>1, <1>2, <2>2, <3>1
      <4> QED BY <1>1, <3>1, <4>1 DEF GObjectFromPy
    <3>2. CASE e.transfer # "everything"
      BY <1>1, <3>2 DEF GObjectFromPy
    <3> QED BY <3>1, <3>2
  <2> QED BY <2>1, <2>2 DEF ObjectFromPy
<1>10. Good(ScalarFromPy(e, v))
  BY <1>3, <1>4, <1>5, <1>6, <1>8, <1>9 DEF ScalarFromPy, Copies
<1> QED BY <1>10 DEF Good

LEMMA WholePlain ==
  ASSUME NEW e, NEW v
  PROVE  /\ \A left : Whole(e, v, Fails(left))
         /\ \A c : Whole(e, v, Done(c, {}))
         /\ \A ok, r : Whole(e, v, r) => Whole(e, v, FailsUnless(ok, r))
<1>1. \A left : Whole(e, v, Fails(left))
  BY DEF Whole, Fails
<1>2. \A c : Whole(e, v, Done(c, {}))
  BY DEF Whole, Done
<1>3. ASSUME NEW ok, NEW r, Whole(e, v, r)
      PROVE  Whole(e, v, FailsUnless(ok, r))
  <2>1. CASE ok
    BY <1>3, <2>1 DEF FailsUnless
  <2>2. CASE ~ok
    BY <1>1, <2>2 DEF FailsUnless
  <2> QED BY <2>1, <2>2
<1> QED BY <1>1, <1>2, <1>3

LEMMA TookItems ==
  ASSUME NEW e, NEW v, e.tag \in Containers, NEW n
  PROVE  \A k \in TakenBefore(ItemResults(e, v), n) : HoldsItem(e, v, k)
<1> SUFFICES ASSUME NEW k \in TakenBefore(ItemResults(e, v), n) PROVE HoldsItem(e, v, k)
  OBVIOUS
<1>1. k \in DOMAIN v.items /\ ScalarFromPy(ItemCache(e), v.items[k]).took # {}
  BY DEF TakenBefore, ItemResults
<1>2. Single(ItemCache(e), v.items[k], ScalarFromPy(ItemCache(e), v.items[k]))
  BY TookScalar
<1>3. ItemCache(e).tag = e.item /\ ItemCache(e).transfer = ItemTransfer(e.transfer)
  BY DEF ItemCache, Blank
<1> QED BY <1>1, <1>2, <1>3 DEF Single, HoldsItem

LEMMA TookArray ==
  ASSUME NEW e, NEW v, NEW lengthTag, e.tag = "array"
  PROVE  Whole(e, v, ArrayFromPy(e, v, lengthTag))
<1> DEFINE whole(took) == [Done(Own, took) EXCEPT !.length = IF e.len >= 0 THEN LengthOf(v) ELSE -1,
                                                  !.data = e.atype = "C" /\ e.transfer = "nothing"]
           fits == e.len >= 0 => LengthFits(LengthOf(v), lengthTag)
           Good(r) == Whole(e, v, r)
           rs == ItemResults(e, v)
           f == FirstBad(rs)
           all == TakenBefore(rs, Len(rs) + 1)
           Drop(parts) == IF CleanedOnError(e) THEN {} ELSE parts
           bytes == v.py = "bytes" /\ e.item = "uint8"
           ready == v.py \in {"seq", "bytes"} /\ FixedSizeOk(e, v)
           r == ArrayFromPy(e, v, lengthTag)
<1>1. /\ \A left : Good(Fails(left))
      /\ \A c : Good(Done(c, {}))
      /\ \A ok, q : Good(q) => Good(FailsUnless(ok, q))
  BY WholePlain
<1>2. ASSUME v.py # "none", FixedSizeOk(e, v), NEW took, \A k \in took : k = Data \/ HoldsItem(e, v, k)
      PROVE  Good(whole(took))
  <2>1. whole(took).ok /\ whole(took).took = took /\ (whole(took).data <=> StaysOurs(e))
    BY DEF Done, StaysOurs
  <2>2. \A k \in took : Holds(e, v, k)
    BY <1>2 DEF Holds, Containers
  <2> HIDE DEF whole
  <2> QED BY <2>1, <2>2 DEF Whole
<1>3. \A k \in {Data} \cup all : k = Data \/ HoldsItem(e, v, k)
  <2>1. \A k \in all : HoldsItem(e, v, k)
    BY TookItems DEF Containers
  <2> HIDE DEF all
  <2> QED BY <2>1
<1>4. r = CASE v.py = "none" -> Done(Null, {})
            [] v.py # "none" /\ ~ready -> Fails({})
            [] ready /\ bytes -> FailsUnless(fits, whole({Data}))
            [] ready /\ ~bytes /\ f # 0 -> Fails(Drop(TakenBefore(rs, f)) \cup LeftAt(rs, f))
            [] ready /\ ~bytes /\ f = 0 /\ ~fits -> Fails(Drop(all))
            [] OTHER -> whole({Data} \cup all)
  BY DEF ArrayFromPy
<1>5. Good(r)
  <2> HIDE DEF rs, f, all, Drop, bytes, fits, whole, r, Good
  <2>1. CASE v.py = "none"
    <3>1. ~ready
      BY <2>1
    <3>2. r = Done(Null, {})
      BY <1>4, <2>1, <3>1
    <3> QED BY <1>1, <3>2
  <2>2. CASE v.py # "none" /\ ~ready
    <3>1. r = Fails({})
      BY <1>4, <2>2
    <3> QED BY <1>1, <3>1
  <2>3. CASE ready /\ v.py # "none"
    <3>1. Good(whole({Data})) /\ Good(whole({Data} \cup all))
      BY <1>2, <1>3, <2>3
    <3> HIDE DEF ready
    <3>2. \/ r = FailsUnless(fits, whole({Data}))
          \/ \E left : r = Fails(left)
          \/ r = whole({Data} \cup all)
      BY <1>4, <2>3
    <3> QED BY <1>1, <3>1, <3>2
  <2> QED BY <2>1, <2>2, <2>3
<1> QED BY <1>5

LEMMA TookList ==
  ASSUME NEW e, NEW v, e.tag \in Lists
  PROVE  Whole(e, v, IF e.tag = "ghash" THEN HashFromPy(e, v) ELSE ListFromPy(e, v))
<1> DEFINE Good(r) == Whole(e, v, r)
           rs == ItemResults(e, v)
           all == {Data} \cup TakenBefore(rs, Len(rs) + 1)
<1>1. /\ \A left : Good(Fails(left))
      /\ \A c : Good(Done(c, {}))
  BY WholePlain
<1>2. ASSUME v.py # "none", v.items # << >> \/ e.tag = "ghash"
      PROVE  Good(Done(Own, all))
  <2>1. \A k \in TakenBefore(rs, Len(rs) + 1) : HoldsItem(e, v, k)
    BY TookItems DEF Containers, Lists
  <2>2. \A k \in all : Holds(e, v, k)
    <3> HIDE DEF rs
    <3> QED BY <1>2, <2>1 DEF Holds, Containers, Lists
  <2>3. Done(Own, all).ok /\ Done(Own, all).took = all /\ ~Done(Own, all).data /\ ~StaysOurs(e)
    BY DEF Done, StaysOurs, Lists
  <2> HIDE DEF all
  <2> QED BY <2>2, <2>3 DEF Whole
<1>3. CASE e.tag = "ghash"
  <2>1. \/ HashFromPy(e, v) = Done(Null, {}) \/ \E left : HashFromPy(e, v) = Fails(left)
        \/ v.py # "none" /\ HashFromPy(e, v) = Done(Own, all)
    BY DEF HashFromPy
  <2> HIDE DEF Good, all
  <2>2. Good(HashFromPy(e, v))
    BY <1>1, <1>2, <1>3, <2>1
  <2> QED BY <1>3, <2>2 DEF Good
<1>4. CASE e.tag # "ghash"
  <2>1. \/ ListFromPy(e, v) = Done(Null, {}) \/ \E left : ListFromPy(e, v) = Fails(left)
        \/ v.py # "none" /\ v.items # << >> /\ ListFromPy(e, v) = Done(Own, all)
    BY DEF ListFromPy
  <2> HIDE DEF Good, all
  <2>2. Good(ListFromPy(e, v))
    BY <1>1, <1>2, <2>1
  <2> QED BY <1>4, <2>2 DEF Good
<1> QED BY <1>3, <1>4

LEMMA MarshalTook ==
  ASSUME NEW e, NEW v, NEW lengthTag, NEW userData
  PROVE  Whole(e, v, FromPyMarshal(e, v, lengthTag, userData))
<1>1. CASE e.tag = "array"
  BY <1>1, TookArray DEF FromPyMarshal
<1>2. CASE e.tag \in Lists
  <2>1. FromPyMarshal(e, v, lengthTag, userData) = IF e.tag = "ghash" THEN HashFromPy(e, v) ELSE ListFromPy(e, v)
    BY <1>2 DEF FromPyMarshal, Lists
  <2> QED BY <1>2, <2>1, TookList
<1>3. CASE e.tag = "callback"
  <2>1. \A left : Whole(e, v, Fails(left))
    BY WholePlain
  <2>2. Whole(e, v, Done(Null, {}))
    BY WholePlain
  <2>3. \A ok, r : Whole(e, v, r) => Whole(e, v, FailsUnless(ok, r))
    BY WholePlain
  <2>4. v.py = "callable" => Whole(e, v, [Done(Own, {Data}) EXCEPT !.data = TRUE])
    BY <1>3 DEF Done, Whole, Holds, StaysOurs, Containers
  <2>5. FromPyMarshal(e, v, lengthTag, userData) = CallbackFromPy(e, v, userData)
    BY <1>3 DEF FromPyMarshal
  <2> QED BY <2>1, <2>2, <2>3, <2>4, <2>5 DEF CallbackFromPy
<1>4. CASE e.tag \notin Containers \cup {"callback"}
  <2>1. FromPyMarshal(e, v, lengthTag, userData) = ScalarFromPy(e, v)
    BY <1>4 DEF FromPyMarshal, Containers
  <2>2. PICK r : r = ScalarFromPy(e, v)
    OBVIOUS
  <2>3. Single(e, v, r)
    BY <2>2, TookScalar
  <2>4. ~StaysOurs(e) /\ e.tag \notin {"glist", "gslist"} /\ e.tag # "array"
    BY <1>4 DEF StaysOurs, Containers
  <2> QED BY <2>1, <2>2, <2>3, <2>4 DEF Single, Whole, Holds
<1> QED BY <1>1, <1>2, <1>3, <1>4 DEF Containers, Lists

LEMMA TurnTook ==
  ASSUME NEW e, NEW v, NEW ud, NEW r,
         r = IF e.py < Len(bound) THEN Marshalled(e, v, ud) ELSE Fails({})
  PROVE  Whole(e, v, r)
<1>1. Whole(e, v, Fails({}))
  BY WholePlain
<1>2. Whole(e, v, FromPyMarshal(e, v, LengthTag(e), ud))
  BY MarshalTook
<1> QED BY <1>1, <1>2 DEF Marshalled

-----------------------------------------------------------------------------
(* What the arguments hold before the call *)

LEMMA BlocksAre ==
  ASSUME NEW side, NEW i, NEW parts, NEW led
  PROVE  /\ \A b \in DOMAIN (Blocks(side, i, parts, "ours") ++ led) :
              \/ b \in DOMAIN led /\ (Blocks(side, i, parts, "ours") ++ led)[b] \in {"ours", led[b]}
              \/ b \notin DOMAIN led /\ (Blocks(side, i, parts, "ours") ++ led)[b] = "ours"
                   /\ b[1] = side /\ b[2] = i /\ b[3] \in parts
<1>1. PICK f : f = Blocks(side, i, parts, "ours")
  OBVIOUS
<1>2. DOMAIN f = {Block(side, i, p) : p \in parts} /\ \A b \in DOMAIN f : f[b] = "ours"
  BY <1>1 DEF Blocks
<1>3. \A b \in DOMAIN f : b[1] = side /\ b[2] = i /\ b[3] \in parts
  BY <1>2 DEF Block
<1>4. /\ DOMAIN (f ++ led) = DOMAIN f \cup DOMAIN led
      /\ \A b \in DOMAIN f : (f ++ led)[b] = f[b]
      /\ \A b \in DOMAIN led : b \notin DOMAIN f => (f ++ led)[b] = led[b]
  BY Over
<1> QED BY <1>1, <1>2, <1>3, <1>4

LEMMA HeldOn ==
  ASSUME Regular(sig), sig' = sig, cache' = cache, NEW p \in Int, p = pos, pos' = p + 1,
         NEW slot, args' = Only(p, slot) ++ args,
         \A i \in DOMAIN value : i # p => i \in DOMAIN value' /\ value'[i] = value[i],
         NEW i, NEW part, Held(i, part)
  PROVE  Held(i, part)'
<1>1. i \in Int /\ i # p /\ i < p + 1 /\ i \in ArgsOf(sig)
  <2>1. i \in ArgsOf(sig) /\ i < p
    BY DEF Held
  <2>2. i \in Int
    BY <2>1, Ways
  <2> QED BY <2>1, <2>2
<1>2. i \in DOMAIN args => i \in DOMAIN args' /\ args'[i] = args[i]
  <2>1. DOMAIN (Only(p, slot) ++ args) = {p} \cup DOMAIN args
    BY OnlyDomain
  <2>2. \A z \in DOMAIN args : z # p => (Only(p, slot) ++ args)[z] = args[z]
    BY OnlyOver
  <2> QED BY <1>1, <2>1, <2>2
<1>3. i \in DOMAIN value => i \in DOMAIN value' /\ value'[i] = value[i]
  BY <1>1
<1>4. InSlot(i)' = InSlot(i)
  BY DEF InSlot
<1> QED BY <1>1, <1>2, <1>3, <1>4 DEF Held

LEMMA TakenStep ==
  ASSUME Regular(sig), Taken, pc = "in", pc' \in {"in", "call"}, sig' = sig, cache' = cache,
         NEW p \in Int, p = pos, pos' = p + 1, NEW slot, args' = Only(p, slot) ++ args,
         \A i \in DOMAIN value : i # p => i \in DOMAIN value' /\ value'[i] = value[i],
         \A b \in DOMAIN ledger' :
           \/ b \in DOMAIN ledger /\ ledger'[b] \in {"ours", ledger[b]}
           \/ /\ ledger'[b] = "ours" /\ b[2] = p
              /\ \/ b[1] = "in" /\ Held(p, b[3])' /\ (StaysOurs(cache.args[p]) => p \in argsData')
                 \/ b[1] = "out" /\ b[3] = Data /\ p \in ArgsOf(sig) /\ Allocated(p),
         argsData \subseteq argsData',
         \A i \in argsData' : i \in argsData \/ (i = p /\ (cache.args[p].dir = "both" => StaysOurs(cache.args[p])))
  PROVE  Taken'
<1>1. /\ \A b \in DOMAIN ledger :
           /\ ledger[b] = "ours"
           /\ \/ b[1] = "in" /\ Held(b[2], b[3])
              \/ b[1] = "out" /\ b[3] = Data /\ b[2] \in ArgsOf(sig) /\ b[2] < p /\ Allocated(b[2])
      /\ \A i \in argsData : cache.args[i].dir = "both" => StaysOurs(cache.args[i])
      /\ \A b \in DOMAIN ledger : b[1] = "in" /\ StaysOurs(cache.args[b[2]]) => b[2] \in argsData
  BY DEF Taken
<1>2. \A i : Allocated(i)' = Allocated(i)
  BY DEF Allocated
<1>3. \A i, part : Held(i, part) => Held(i, part)'
  BY HeldOn
<1>4. \A i \in ArgsOf(sig) : i < p => i < p + 1
  BY Ways
<1>5. ASSUME NEW b \in DOMAIN ledger'
      PROVE  /\ ledger'[b] = "ours"
             /\ \/ b[1] = "in" /\ Held(b[2], b[3])'
                \/ b[1] = "out" /\ b[3] = Data /\ b[2] \in ArgsOf(sig) /\ b[2] < p + 1 /\ Allocated(b[2])
             /\ b[1] = "in" /\ StaysOurs(cache.args[b[2]]) => b[2] \in argsData'
  <2>1. CASE b \in DOMAIN ledger /\ ledger'[b] \in {"ours", ledger[b]}
    BY <1>1, <1>3, <1>4, <2>1
  <2>2. CASE /\ ledger'[b] = "ours" /\ b[2] = p
             /\ \/ b[1] = "in" /\ Held(p, b[3])' /\ (StaysOurs(cache.args[p]) => p \in argsData')
                \/ b[1] = "out" /\ b[3] = Data /\ p \in ArgsOf(sig) /\ Allocated(p)
    <3>1. p < p + 1
      OBVIOUS
    <3> QED BY <2>2, <3>1
  <2> QED BY <2>1, <2>2
<1>6. \A i \in argsData' : cache.args[i].dir = "both" => StaysOurs(cache.args[i])
  BY <1>1
<1>7. pc' \notin Building \cup {"cached"}
  BY DEF Building
<1>8. \A i : StaysOurs(cache.args[i])' = StaysOurs(cache.args[i])
  BY DEF StaysOurs
<1> QED BY <1>2, <1>5, <1>6, <1>7, <1>8 DEF Taken

LEMMA NothingTaken ==
  ASSUME TypeInv, Arriving, Taken, MarshalNothing
  PROVE  Taken'
<1>1. PICK p : p = pos
  OBVIOUS
<1>2. /\ pc = "in" /\ pos < cache.n /\ Step /\ sig' = sig /\ cache' = cache
      /\ args' = Only(p, Slot("in", InCount(p))) ++ args
      /\ value' = value /\ ledger' = ledger /\ argsData' = argsData
  BY <1>1 DEF MarshalNothing
<1>3. Regular(sig) /\ p \in Int
  BY <1>1, <1>2, AtTurn
<1>4. pc' \in {"in", "call"} /\ pos' = p + 1
  BY <1>1, <1>2, StepIs
<1> QED BY <1>1, <1>2, <1>3, <1>4, TakenStep

\* The argument whose turn it is holds what its marshaller took.
LEMMA TurnHolds ==
  ASSUME TypeInv, Arriving, pc = "in", pos < cache.n, sig' = sig, cache' = cache, NEW p, p = pos, pos' = p + 1,
         NEW e, e = cache.args[p], e.meta = "parent", FromPython(e.dir), NEW v \in Inputs(e), NEW r, Whole(e, v, r),
         NEW slot, args' = Only(p, slot) ++ args, e.dir = "from" => slot = Slot("in", InCount(p)),
         value' = Only(p, v) ++ value
  PROVE  \A part \in r.took : Held(p, part)'
<1>1. /\ Regular(sig) /\ CacheOK(sig, cache, Count(sig)) /\ p \in Numbers(sig) /\ p \in Int
      /\ InCount(p) = InSlot(p)
  BY AtTurn
<1> SUFFICES ASSUME NEW part \in r.took PROVE Held(p, part)'
  OBVIOUS
<1>2. Holds(e, v, part)
  BY DEF Whole
<1>3. p \in ArgsOf(sig)
  <2>1. Placed(sig, Count(sig), p, e)
    BY <1>1, Ready
  <2>2. e.tag # "self"
    BY <1>2 DEF Holds, HoldsSelf, HoldsItem, Containers, Copies
  <2> QED BY <2>1, <2>2 DEF Placed
<1>4. p \in DOMAIN value' /\ value'[p] = v
  <2>1. DOMAIN (Only(p, v) ++ value) = {p} \cup DOMAIN value
    BY OnlyDomain
  <2>2. (Only(p, v) ++ value)[p] = v
    BY OnlyOver
  <2> QED BY <2>1, <2>2
<1>5. p \in DOMAIN args' /\ args'[p] = slot
  <2>1. DOMAIN (Only(p, slot) ++ args) = {p} \cup DOMAIN args
    BY OnlyDomain
  <2>2. (Only(p, slot) ++ args)[p] = slot
    BY OnlyOver
  <2> QED BY <2>1, <2>2
<1>6. InSlot(p)' = InSlot(p)
  BY DEF InSlot
<1>7. p < p + 1
  BY <1>1
<1> QED BY <1>1, <1>2, <1>3, <1>4, <1>5, <1>6, <1>7 DEF Held

\* The same for the turn as a whole: what is taken is ours, and recorded if it is to stay so.
LEMMA TurnTakes ==
  ASSUME TypeInv, Arriving, CallbacksIn, Taken, pc = "in", pos < cache.n, sig' = sig, cache' = cache, Step,
         NEW p, p = pos, NEW e, e = cache.args[p], NEW v \in Inputs(e), NEW r, Whole(e, v, r),
         e.meta = "parent" \/ r.took = {}, FromPython(e.dir),
         NEW slot, args' = Only(p, slot) ++ args, e.dir = "from" => slot = Slot("in", InCount(p)),
         value' = Only(p, v) ++ value,
         ledger' = TookBlocks(p, r), argsData' = IF r.data THEN argsData \cup {p} ELSE argsData
  PROVE  Taken'
<1>1. /\ Regular(sig) /\ CacheOK(sig, cache, Count(sig)) /\ p \in Numbers(sig) /\ p \in Int
      /\ e.dir = WayOf(sig, p)
  BY AtTurn
<1>2. pc' \in {"in", "call"} /\ pos' = p + 1
  BY StepIs
<1>3. \A part \in r.took : Held(p, part)'
  <2>1. CASE e.meta = "parent"
    BY <1>2, <2>1, TurnHolds
  <2>2. CASE r.took = {}
    BY <2>2
  <2> QED BY <2>1, <2>2
<1>4. \A b \in DOMAIN ledger' :
        \/ b \in DOMAIN ledger /\ ledger'[b] \in {"ours", ledger[b]}
        \/ ledger'[b] = "ours" /\ b[2] = p /\ b[1] = "in" /\ b[3] \in r.took
  BY BlocksAre DEF TookBlocks
<1>5. argsData \subseteq argsData' /\ (r.data => p \in argsData')
  OBVIOUS
<1>6. r.took # {} /\ StaysOurs(cache.args[p]) => p \in argsData'
  BY <1>5 DEF Whole
<1>7. e.dir = "both" /\ r.data => StaysOurs(e)
  <2>1. SUFFICES ASSUME e.dir = "both", r.data, e.tag = "callback" PROVE FALSE
    BY DEF Whole
  <2>2. p \in ArgsOf(sig)
    BY <1>1, <2>1, Ways
  <2>3. ~ IsClosure(sig, p)
    BY <1>1, <2>1, <2>2 DEF Regular
  <2>4. Placed(sig, Count(sig), p, e) /\ e.meta = Meta(sig, Count(sig), p)
    BY <1>1, Ready
  <2>5. e.meta # "closure"
    BY <2>3, <2>4 DEF Meta
  <2>6. e.tag = ArgOf(sig, p).tag
    BY <2>2, <2>4, <2>5 DEF Placed
  <2> QED BY <1>1, <2>1, <2>2, <2>6 DEF CallbacksIn, Calling
<1>8. \A i \in argsData' : i \in argsData \/ (i = p /\ (cache.args[p].dir = "both" => StaysOurs(cache.args[p])))
  BY <1>7
<1>9. \A i \in DOMAIN value : i # p => i \in DOMAIN value' /\ value'[i] = value[i]
  <2>1. DOMAIN (Only(p, v) ++ value) = {p} \cup DOMAIN value
    BY OnlyDomain
  <2>2. \A z \in DOMAIN value : z # p => (Only(p, v) ++ value)[z] = value[z]
    BY OnlyOver
  <2> QED BY <2>1, <2>2
<1>10. \A b \in DOMAIN ledger' :
         \/ b \in DOMAIN ledger /\ ledger'[b] \in {"ours", ledger[b]}
         \/ /\ ledger'[b] = "ours" /\ b[2] = p
            /\ \/ b[1] = "in" /\ Held(p, b[3])' /\ (StaysOurs(cache.args[p]) => p \in argsData')
               \/ b[1] = "out" /\ b[3] = Data /\ p \in ArgsOf(sig) /\ Allocated(p)
  BY <1>3, <1>4, <1>6
<1> QED BY <1>1, <1>2, <1>5, <1>8, <1>9, <1>10, TakenStep

LEMMA InTaken ==
  ASSUME TypeInv, Arriving, CallbacksIn, Taken, NEW v, NEW ud, MarshalIn(v, ud)
  PROVE  Taken'
<1>1. CASE pc' = "done"
  BY <1>1 DEF Taken, Building
<1>2. CASE pc' # "done"
  <2>1. PICK p, e : p = pos /\ e = cache.args[p]
    OBVIOUS
  <2>2. PICK r : r = IF e.py < Len(bound) THEN Marshalled(e, v, UserData(e, ud)) ELSE Fails({})
    OBVIOUS
  <2>3. /\ pc = "in" /\ pos < cache.n /\ sig' = sig /\ cache' = cache /\ Step
        /\ e.dir = "from" /\ e.meta = "parent" /\ v \in Inputs(e)
        /\ args' = Only(p, Slot("in", InCount(p))) ++ args /\ value' = Only(p, v) ++ value
        /\ ledger' = TookBlocks(p, r) /\ argsData' = IF r.data THEN argsData \cup {p} ELSE argsData
    BY <1>2, <2>1, <2>2 DEF MarshalIn, FailAt
  <2>4. Whole(e, v, r)
    BY <2>2, TurnTook
  <2>5. FromPython(e.dir)
    BY <2>3 DEF FromPython
  <2> QED BY <2>1, <2>3, <2>4, <2>5, TurnTakes
<1> QED BY <1>1, <1>2

LEMMA BothTaken ==
  ASSUME TypeInv, Arriving, CallbacksIn, Taken, NEW v, MarshalBoth(v)
  PROVE  Taken'
<1>1. CASE pc' = "done"
  BY <1>1 DEF Taken, Building
<1>2. CASE pc' # "done"
  <2>1. PICK p, e : p = pos /\ e = cache.args[p]
    OBVIOUS
  <2>2. PICK r : r = IF IsChild(e) THEN Done(Null, {})
                     ELSE IF e.py < Len(bound) THEN Marshalled(e, v, NoValue) ELSE Fails({})
    OBVIOUS
  <2>3. /\ pc = "in" /\ pos < cache.n /\ sig' = sig /\ cache' = cache /\ Step
        /\ e.dir = "both" /\ (~IsChild(e) => v \in Inputs(e))
        /\ args' = Only(p, Slot("value", OutCount(p))) ++ args
        /\ value' = IF IsChild(e) THEN value ELSE Only(p, v) ++ value
        /\ ledger' = TookBlocks(p, r) /\ argsData' = IF r.data THEN argsData \cup {p} ELSE argsData
    BY <1>2, <2>1, <2>2 DEF MarshalBoth, FailAt
  <2>4. FromPython(e.dir)
    BY <2>3 DEF FromPython
  <2>5. CASE ~IsChild(e)
    <3>1. Whole(e, v, r)
      BY <2>2, <2>5, TurnTook
    <3>2. e.meta = "parent"
      BY <2>1, <2>3, <2>5, AtTurn, BothMeta
    <3> QED BY <2>1, <2>3, <2>4, <2>5, <3>1, <3>2, TurnTakes
  <2>6. CASE IsChild(e)
    <3>1. r = Done(Null, {})
      BY <2>2, <2>6
    <3>2. r.took = {} /\ ~r.data
      BY <3>1 DEF Done
    <3>3. value' = value /\ argsData' = argsData
      BY <2>3, <2>6, <3>2
    <3>4. \A b \in DOMAIN ledger' : b \in DOMAIN ledger /\ ledger'[b] \in {"ours", ledger[b]}
      BY <2>3, <3>2, BlocksAre DEF TookBlocks
    <3>5. Regular(sig) /\ p \in Int
      BY <2>1, <2>3, AtTurn
    <3>6. pc' \in {"in", "call"} /\ pos' = p + 1
      BY <2>1, <2>3, StepIs
    <3> QED BY <2>1, <2>3, <3>3, <3>4, <3>5, <3>6, TakenStep
  <2> QED BY <2>5, <2>6
<1> QED BY <1>1, <1>2

LEMMA OutTaken ==
  ASSUME TypeInv, Arriving, Taken, NEW possible, MarshalOut(possible)
  PROVE  Taken'
<1>1. CASE pc' = "done"
  BY <1>1 DEF Taken, Building
<1>2. CASE pc' # "done"
  <2>1. PICK p, e : p = pos /\ e = cache.args[p]
    OBVIOUS
  <2>2. PICK slot : slot = Slot(IF e.caller THEN "alloc" ELSE "value", OutCount(p))
    OBVIOUS
  <2>3. /\ pc = "in" /\ pos < cache.n /\ sig' = sig /\ cache' = cache /\ Step /\ e.dir = "to"
        /\ args' = Only(p, slot) ++ args /\ value' = value /\ argsData' = argsData
        /\ ledger' = IF e.caller THEN Blocks("out", p, {Data}, "ours") ++ ledger ELSE ledger
    BY <1>2, <2>1, <2>2 DEF MarshalOut, FailAt, invars
  <2>4. Regular(sig) /\ p \in Int /\ p \in Numbers(sig) /\ WayOf(sig, p) = "to"
    BY <2>1, <2>3, AtTurn
  <2>5. p \in ArgsOf(sig)
    BY <2>4, Ways
  <2>6. pc' \in {"in", "call"} /\ pos' = p + 1
    BY <2>1, <2>3, StepIs
  <2>7. \A b \in DOMAIN ledger' :
          \/ b \in DOMAIN ledger /\ ledger'[b] \in {"ours", ledger[b]}
          \/ ledger'[b] = "ours" /\ b[2] = p /\ b[1] = "out" /\ b[3] = Data /\ p \in ArgsOf(sig) /\ Allocated(p)
    <3>1. CASE e.caller
      <4>1. Allocated(p)
        BY <2>1, <2>3, <3>1 DEF Allocated
      <4> QED BY <2>3, <2>5, <3>1, <4>1, BlocksAre
    <3>2. CASE ~e.caller
      BY <2>3, <3>2
    <3> QED BY <3>1, <3>2
  <2> QED BY <2>1, <2>3, <2>4, <2>6, <2>7, TakenStep
<1> QED BY <1>1, <1>2

\* An argument that cannot be marshalled: what has been taken is still ours.
LEMMA FailFrees ==
  ASSUME Taken, pc = "in", NEW left, FailAt(left)
  PROVE  \A b \in DOMAIN ledger' : ledger'[b] \in {"ours", "freed"}
<1>1. \A b \in DOMAIN ledger : ledger[b] = "ours"
  BY DEF Taken
<1>2. PICK led : led = Blocks("in", pos, left, "ours") ++ ledger
  OBVIOUS
<1>3. \A b \in DOMAIN led : led[b] = "ours"
  BY <1>1, <1>2, BlocksAre
<1>4. ledger' = ParameterFail(led, pos)
  BY <1>2 DEF FailAt
<1>5. /\ DOMAIN ParameterFail(led, pos) = DOMAIN led
      /\ \A b \in DOMAIN led : ParameterFail(led, pos)[b] \in {Free(led[b]), led[b]}
  BY DEF ParameterFail
<1>6. Free("ours") = "freed"
  BY DEF Free
<1> QED BY <1>3, <1>4, <1>5, <1>6

-----------------------------------------------------------------------------
(* What is cleaned up after the call *)

LEMMA NotBoth ==
  ASSUME NEW e, NEW v, NEW part, Holds(e, v, part), KeptOrGiven(e), Takes(e, part)
  PROVE  ~FromPyFrees(e, part, TRUE, FALSE, v)
<1>1. CASE part # Data
  <2>1. HoldsItem(e, v, part)
    BY <1>1 DEF Holds
  <2>2. e.tag \in Containers /\ HoldsSelf(e.item, ItemTransfer(e.transfer))
    BY <2>1 DEF HoldsItem
  <2>3. e.transfer = "everything"
    BY <1>1, <2>2 DEF Takes, Containers
  <2>4. e.item \in {"object", "boxed"}
    BY <2>2, <2>3 DEF KeptOrGiven, HoldsSelf
  <2>5. ItemCache(e).tag = e.item
    BY DEF ItemCache, Blank
  <2>6. ~ScalarFromFrees(ItemCache(e), TRUE, FALSE, v.items[part])
    BY <2>4, <2>5 DEF ScalarFromFrees
  <2> QED BY <1>1, <2>6 DEF FromPyFrees, FromItemFreed
<1>2. CASE part = Data /\ e.tag \in Containers
  <2>1. e.transfer \in {"everything", "container"}
    BY <1>2 DEF Takes, Containers
  <2>2. CASE e.tag = "array"
    BY <1>2, <2>1, <2>2 DEF FromPyFrees, FromArrayFreed
  <2>3. CASE e.tag \in Lists
    <3>1. e.transfer = "everything"
      BY <2>1, <2>3 DEF KeptOrGiven
    <3> QED BY <1>2, <2>3, <3>1 DEF FromPyFrees, FromListFreed, FromHashFreed, Lists
  <2> QED BY <1>2, <2>2, <2>3 DEF Containers, Lists
<1>3. CASE part = Data /\ e.tag \notin Containers
  <2>1. FromPyFrees(e, part, TRUE, FALSE, v) = ScalarFromFrees(e, TRUE, FALSE, v)
    BY <1>3 DEF FromPyFrees, Containers
  <2>2. CASE e.tag \in Copies \cup {"callback"}
    <3>1. e.transfer = "nothing"
      BY <2>2 DEF KeptOrGiven
    <3>2. e.tag = "callback" /\ e.scope # "call"
      BY <3>1 DEF Takes
    <3> QED BY <2>1, <3>2 DEF ScalarFromFrees
  <2>3. CASE e.tag \notin Copies \cup {"callback"}
    BY <2>1, <2>3 DEF ScalarFromFrees, Copies
  <2> QED BY <2>2, <2>3
<1> QED BY <1>1, <1>2, <1>3

\* A parent's entry is that of its argument.
LEMMA HeldEntry ==
  ASSUME Regular(sig), CacheOK(sig, cache, Count(sig)), NEW i, NEW part, Held(i, part)
  PROVE  /\ i \in Numbers(sig) /\ i \in ArgsOf(sig) /\ Described(sig, i, cache.args[i])
         /\ cache.args[i].dir = WayOf(sig, i) /\ cache.args[i].dir \in {"from", "both"}
         /\ Holds(cache.args[i], value[i], part)
<1>1. i \in Numbers(sig) /\ i \in ArgsOf(sig)
  BY Ways DEF Held
<1>2. Placed(sig, Count(sig), i, cache.args[i]) /\ cache.args[i].dir = WayOf(sig, i)
  BY <1>1, Ready
<1> QED BY <1>1, <1>2 DEF Held, Placed, FromPython

LEMMA Settled ==
  ASSUME Regular(sig), CacheOK(sig, cache, Count(sig)), Taken, Careful(sig), pc = "call",
         NEW led, led \in {ledger, HandOver(ledger)}
  PROVE  /\ DOMAIN MarshalSuccess(led) = DOMAIN ledger
         /\ \A b \in DOMAIN ledger : MarshalSuccess(led)[b] # "misfreed"
         /\ \A b \in DOMAIN ledger : b[1] = "out" => MarshalSuccess(led)[b] = "ours"
<1> DEFINE cleaned(b) == LET e == cache.args[b[2]]
                         IN  /\ b[1] = "in" /\ e.fromClean
                             /\ IF e.dir = "both" THEN b[2] \in argsData ELSE At(args[b[2]]) # Null
                             /\ FromPyFrees(e, b[3], TRUE, FALSE, value[b[2]])
<1>1. DOMAIN led = DOMAIN ledger
  BY DEF HandOver
<1>2. MarshalSuccess(led) = [b \in DOMAIN led |-> IF cleaned(b) THEN Free(led[b]) ELSE led[b]]
  BY Zenon DEF MarshalSuccess
<1>3. ASSUME NEW b \in DOMAIN ledger
      PROVE  /\ led[b] \in {"ours", "theirs"}
             /\ led[b] = "theirs" => b[1] = "in" /\ Takes(cache.args[b[2]], b[3])
             /\ b[1] # "in" => led[b] = "ours"
  <2>1. ledger[b] = "ours"
    BY DEF Taken
  <2>2. CASE led = ledger
    BY <2>1, <2>2
  <2>3. CASE led = HandOver(ledger)
    BY <2>1, <2>3 DEF HandOver
  <2> QED BY <2>2, <2>3
<1>4. ASSUME NEW b \in DOMAIN ledger, b[1] = "in", Takes(cache.args[b[2]], b[3])
      PROVE  ~cleaned(b)
  <2> SUFFICES ASSUME cleaned(b) PROVE FALSE
    OBVIOUS
  <2>1. PICK i, part, e : i = b[2] /\ part = b[3] /\ e = cache.args[i]
    OBVIOUS
  <2>2. Held(i, part)
    BY <1>4, <2>1 DEF Taken
  <2>3. /\ Described(sig, i, e) /\ e.dir = WayOf(sig, i) /\ e.dir \in {"from", "both"} /\ i \in ArgsOf(sig)
        /\ Holds(e, value[i], part)
    BY <2>1, <2>2, HeldEntry
  <2>4. /\ e.dir = "both" => i \in argsData
        /\ FromPyFrees(e, part, TRUE, FALSE, value[i])
    BY <2>1
  <2> HIDE DEF cleaned
  <2>5. KeptOrGiven(e)
    <3>1. CASE e.dir = "from"
      <4>1. KeptOrGiven(ArgOf(sig, i))
        BY <2>3, <3>1 DEF Careful
      <4>2. e.tag = ArgOf(sig, i).tag /\ e.transfer = ArgOf(sig, i).transfer /\ e.item = ArgOf(sig, i).item
        BY <2>3 DEF Described
      <4> QED BY <4>1, <4>2 DEF KeptOrGiven
    <3>2. CASE e.dir = "both"
      <4>1. StaysOurs(e)
        BY <2>1, <2>4, <3>2 DEF Taken
      <4> QED BY <4>1 DEF StaysOurs, KeptOrGiven, Copies, Lists
    <3> QED BY <2>3, <3>1, <3>2
  <2> QED BY <1>4, <2>1, <2>3, <2>4, <2>5, NotBoth
<1>5. \A b \in DOMAIN ledger : b[1] # "in" => ~cleaned(b)
  OBVIOUS
<1> HIDE DEF cleaned
<1>6. Free("ours") = "freed"
  BY DEF Free
<1>7. DOMAIN MarshalSuccess(led) = DOMAIN ledger
  BY <1>1, <1>2
<1>8. ASSUME NEW b \in DOMAIN ledger
      PROVE  MarshalSuccess(led)[b] # "misfreed" /\ (b[1] = "out" => MarshalSuccess(led)[b] = "ours")
  <2>1. MarshalSuccess(led)[b] = IF cleaned(b) THEN Free(led[b]) ELSE led[b]
    BY <1>1, <1>2
  <2> QED BY <1>3, <1>4, <1>5, <1>6, <2>1
<1> QED BY <1>7, <1>8

-----------------------------------------------------------------------------
(* What the callee gives back *)

LEMMA PartsOf ==
  ASSUME NEW a, NEW cv, {"k", "n", "items", "of"} \subseteq DOMAIN cv, NEW i
  PROVE  /\ Parts(a, [cv EXCEPT !.of = i]) = Parts(a, cv)
         /\ Formed(a, [cv EXCEPT !.of = i]) <=> Formed(a, cv)
<1>1. PICK d : d = [cv EXCEPT !.of = i]
  OBVIOUS
<1>2. d.k = cv.k /\ d.n = cv.n /\ d.items = cv.items /\ DOMAIN d = DOMAIN cv
  BY <1>1
<1>3. Parts(a, d) = Parts(a, cv)
  BY <1>2 DEF Parts
<1>4. Convertible(a, d) <=> Convertible(a, cv)
  BY ONLY <1>2 DEF Convertible
<1>5. Formed(a, d) <=> Formed(a, cv)
  BY ONLY <1>2, <1>4 DEF Formed
<1> QED BY <1>1, <1>3, <1>5

LEMMA GivenIs ==
  ASSUME NEW a, NEW i, NEW cv, NEW b \in DOMAIN Given(a, i, cv)
  PROVE  /\ b = <<"out", i, b[3]>> /\ b[1] = "out" /\ b[2] = i
         /\ b[3] \in Parts(a, cv) /\ Given(a, i, cv)[b] = Gives(a, b[3])
BY DEF Given, Block

\* A block after the return is one that was there or one that is given back, for an argument or the result.
LEMMA ReturnBlocks ==
  ASSUME ArriveInv, Ends, Seats, pc = "call", NEW ret, NEW outs, Returns(ret, outs),
         DOMAIN MarshalSuccess(HandOver(ledger)) = DOMAIN ledger, NEW b \in DOMAIN ledger'
  PROVE  \/ b \in DOMAIN ledger /\ ledger'[b] = MarshalSuccess(HandOver(ledger))[b]
         \/ /\ b[1] = "out" /\ b[2] = -1 /\ b[3] \in Parts(sig.ret, ret)
            /\ ledger'[b] = Gives(sig.ret, b[3])
         \/ /\ b[1] = "out" /\ b[2] \in Outs /\ ~Allocated(b[2]) /\ b[3] \in Parts(SigArg(b[2]), outs[b[2]])
            /\ ledger'[b] = Gives(SigArg(b[2]), b[3])
<1> DEFINE W == {i \in Outs : Where(i).k = "ref"}
           new(i) == Given(SigArg(i), i, outs[i])
           all == UNION {DOMAIN new(i) : i \in W}
           values == [c \in all |-> new(c[2])[c]]
           own == Given(sig.ret, -1, ret)
           old == MarshalSuccess(HandOver(ledger))
<1>1. ledger' = (values ++ own) ++ old
  BY Zenon DEF Returns, Where
<1>2. \A i \in W : i \in Outs /\ ~Allocated(i)
  BY ReturnPlaces
<1>3. ASSUME NEW c \in all
      PROVE  /\ c[1] = "out" /\ c[2] \in Outs /\ ~Allocated(c[2]) /\ c[3] \in Parts(SigArg(c[2]), outs[c[2]])
             /\ values[c] = Gives(SigArg(c[2]), c[3])
  <2>1. PICK i \in W : c \in DOMAIN new(i)
    OBVIOUS
  <2>2. c[2] = i /\ c[1] = "out" /\ c[3] \in Parts(SigArg(i), outs[i]) /\ new(i)[c] = Gives(SigArg(i), c[3])
    BY <2>1, GivenIs
  <2>3. values[c] = new(i)[c]
    BY <2>2
  <2> QED BY <1>2, <2>2, <2>3
<1>4. DOMAIN values = all
  OBVIOUS
<1>5. \A c \in DOMAIN own : c[1] = "out" /\ c[2] = -1 /\ c[3] \in Parts(sig.ret, ret) /\ own[c] = Gives(sig.ret, c[3])
  BY GivenIs
<1> HIDE DEF values, own, old, all
<1>6. PICK top : top = values ++ own
  OBVIOUS
<1>7. /\ DOMAIN top = DOMAIN values \cup DOMAIN own
      /\ \A c \in DOMAIN values : top[c] = values[c]
      /\ \A c \in DOMAIN own : c \notin DOMAIN values => top[c] = own[c]
  <2>1. DOMAIN (values ++ own) = DOMAIN values \cup DOMAIN own
    BY ONLY Over
  <2>2. \A c \in DOMAIN values : (values ++ own)[c] = values[c]
    BY ONLY Over
  <2>3. \A c \in DOMAIN own : c \notin DOMAIN values => (values ++ own)[c] = own[c]
    BY ONLY Over
  <2> QED BY ONLY <1>6, <2>1, <2>2, <2>3
<1>8. /\ DOMAIN (top ++ old) = DOMAIN top \cup DOMAIN old
      /\ \A c \in DOMAIN top : (top ++ old)[c] = top[c]
      /\ \A c \in DOMAIN old : c \notin DOMAIN top => (top ++ old)[c] = old[c]
  BY Over
<1>9. ledger' = top ++ old
  BY <1>1, <1>6
<1>10. CASE b \in DOMAIN values
  BY <1>3, <1>4, <1>7, <1>8, <1>9, <1>10
<1>11. CASE b \notin DOMAIN values /\ b \in DOMAIN own
  BY <1>5, <1>7, <1>8, <1>9, <1>11
<1>12. CASE b \notin DOMAIN top
  <2>1. b \in DOMAIN old /\ ledger'[b] = old[b]
    BY <1>8, <1>9, <1>12
  <2> QED BY <2>1 DEF old
<1> QED BY <1>7, <1>10, <1>11, <1>12

\* What Python gives back once it has the value was given to it.
LEMMA ReclaimedOurs ==
  ASSUME NEW a, NEW cv, NEW part \in Parts(a, cv), a.tag \notin Containers => ~OwnedTag(a.item),
         NEW e, e.tag = a.tag, e.transfer = a.transfer, e.item = a.item,
         IF e.toClean THEN ToPyFrees(e, part, TRUE) ELSE e.caller /\ CallerFrees(e, TRUE)
  PROVE  Gives(a, part) = "ours"
<1>1. CASE e.toClean
  <2>1. ToPyFrees(e, part, TRUE)
    BY <1>1
  <2>2. ScalarToFrees(ItemCache(e), TRUE) => e.transfer = "everything"
    <3>1. ItemCache(e).transfer = ItemTransfer(e.transfer)
      BY DEF ItemCache, Blank
    <3> QED BY <3>1 DEF ScalarToFrees, ItemTransfer
  <2>3. ScalarToFrees(e, TRUE) => e.transfer = "everything"
    BY DEF ScalarToFrees
  <2>4. e.transfer = "everything" \/ (e.transfer = "container" /\ part = Data)
    <3>1. CASE e.tag = "array"
      BY <2>1, <2>2, <3>1 DEF ToPyFrees, ToArrayFreed, Transferred
    <3>2. CASE e.tag \in {"glist", "gslist"}
      BY <2>1, <2>2, <3>2 DEF ToPyFrees, ToListFreed, Transferred
    <3>3. CASE e.tag = "ghash"
      BY <2>1, <3>3 DEF ToPyFrees, ToHashFreed
    <3>4. CASE e.tag \notin Containers
      BY <2>1, <2>3, <3>4 DEF ToPyFrees, Containers
    <3> QED BY <3>1, <3>2, <3>3, <3>4 DEF Containers
  <2> QED BY <2>4 DEF Gives
<1>2. CASE ~e.toClean
  <2>1. a.tag = "gvalue"
    BY <1>2 DEF CallerFrees
  <2>2. Parts(a, cv) = {}
    BY <2>1 DEF Parts, OwnedTag, HasToCleanup, Containers
  <2> QED BY <2>2
<1> QED BY <1>1, <1>2

-----------------------------------------------------------------------------
(* What becomes of it *)

LEMMA StealsScalar ==
  ASSUME NEW e, NEW cv, NEW r, r = ScalarToPy(e, cv)
  PROVE  /\ r.again = {} /\ r.steals \subseteq {Data} /\ r.frees \subseteq {Data}
         /\ r.frees # {} => e.transfer = "everything" /\ e.tag = "error"
         /\ r.steals # {} => e.tag \in Wrapped /\ (e.transfer = "everything" \/ e.caller)
<1> DEFINE Good(q) == /\ q.again = {} /\ q.steals \subseteq {Data} /\ q.frees \subseteq {Data}
                      /\ q.frees # {} => e.transfer = "everything" /\ e.tag = "error"
                      /\ q.steals # {} => e.tag \in Wrapped /\ (e.transfer = "everything" \/ e.caller)
<1>1. Good(Failed) /\ Good(Made({}))
  BY DEF Failed, Made
<1>2. e.tag \in Wrapped /\ (e.transfer = "everything" \/ e.caller) => Good(Made({Data}))
  BY DEF Made
<1>3. e.tag = "error" /\ e.transfer = "everything" => Good([Made({}) EXCEPT !.frees = {Data}])
  BY DEF Made
<1>4. Good([Made({}) EXCEPT !.frees = {}])
  BY DEF Made
<1> HIDE DEF Good
<1>5. Good(UnicharToPy(cv)) /\ Good(StringToPy(cv)) /\ Good(EnumToPy(cv)) /\ Good(CallbackToPy) /\ Good(NumberToPy)
  BY <1>1 DEF UnicharToPy, StringToPy, EnumToPy, CallbackToPy, NumberToPy, FailedIf
<1>6. e.tag = "object" => Good(ObjectToPy(e, cv))
  BY <1>1, <1>2 DEF ObjectToPy, Wrapped
<1>7. e.tag \in {"boxed", "struct", "gvalue", "foreign"} => Good(StructToPy(e, cv))
  <2>1. PICK own : own = IF /\ cv.k = "ptr"
                             /\ \/ e.tag = "boxed" /\ (e.transfer = "everything" \/ e.caller)
                                \/ e.tag = "struct" /\ e.transfer = "everything"
                          THEN {Data} ELSE {}
    OBVIOUS
  <2>2. Good(Made(own))
    BY <1>1, <1>2, <2>1 DEF Wrapped
  <2>3. StructToPy(e, cv) = FailedIf(cv.k = "ptr" /\ cv.n = Data, Made(own))
    BY <2>1 DEF StructToPy
  <2> QED BY <1>1, <2>2, <2>3 DEF FailedIf
<1>8. e.tag = "error" => Good(ErrorToPy(e, cv))
  <2>1. CASE cv.k = "ptr" /\ e.transfer = "everything"
    BY <1>3, <2>1 DEF ErrorToPy
  <2>2. CASE ~(cv.k = "ptr" /\ e.transfer = "everything")
    BY <1>4, <2>2 DEF ErrorToPy
  <2> QED BY <2>1, <2>2
<1>9. Good(r)
  BY <1>5, <1>6, <1>7, <1>8 DEF ScalarToPy
<1> QED BY <1>9 DEF Good

\* The items a container gives to wrappers were given away, and are wrapped.
LEMMA StolenItems ==
  ASSUME NEW e, NEW cv, cv.items \in Nat
  PROVE  \A k \in Stolen(e, cv) : /\ k \in Int /\ k # Data /\ e.transfer = "everything" /\ e.item \in Wrapped
                                  /\ ~ScalarToFrees(ItemCache(e), TRUE)
<1> SUFFICES ASSUME NEW k \in Stolen(e, cv)
             PROVE  /\ k \in Int /\ k # Data /\ e.transfer = "everything" /\ e.item \in Wrapped
                    /\ ~ScalarToFrees(ItemCache(e), TRUE)
  OBVIOUS
<1>1. k \in 1 .. cv.items /\ Data \in ScalarToPy(ItemCache(e), [cv EXCEPT !.n = -1]).steals
  BY DEF Stolen, Converted
<1>2. k \in Int /\ k # Data
  BY <1>1 DEF Data
<1>3. PICK it : it = ItemCache(e)
  OBVIOUS
<1>4. it.tag = e.item /\ it.transfer = ItemTransfer(e.transfer) /\ ~it.caller
  BY <1>3 DEF ItemCache, Blank
<1>5. it.tag \in Wrapped /\ it.transfer = "everything"
  BY <1>1, <1>3, <1>4, StealsScalar
<1>6. e.transfer = "everything"
  BY <1>4, <1>5 DEF ItemTransfer
<1>7. ~ScalarToFrees(it, TRUE)
  BY <1>5 DEF ScalarToFrees, Wrapped
<1> QED BY <1>2, <1>3, <1>4, <1>5, <1>6, <1>7

LEMMA CleanPlain ==
  ASSUME NEW e, NEW cv
  PROVE  /\ Clean(e, Failed) /\ Clean(e, Made({}))
         /\ \A s : Clean(e, [Failed EXCEPT !.steals = s])
         /\ \A s : (\A part \in s : ~ToPyFrees(e, part, TRUE) /\ e.tag # "gvalue") => Clean(e, Made(s))
<1>1. Clean(e, Failed)
  BY DEF Clean, Failed
<1>2. \A s : Clean(e, [Failed EXCEPT !.steals = s])
  BY DEF Clean, Failed
<1>3. \A s : (\A part \in s : ~ToPyFrees(e, part, TRUE) /\ e.tag # "gvalue") => Clean(e, Made(s))
  BY DEF Clean, Made
<1>4. Clean(e, Made({}))
  BY <1>3
<1> QED BY <1>1, <1>2, <1>3, <1>4

LEMMA ToPyClean ==
  ASSUME NEW e, NEW cv, cv.items \in Nat, cv.n \in Int, Convertible(e, cv),
         e.tag = "ghash" /\ e.transfer = "everything" => e.item \notin Wrapped,
         NEW lengthTag
  PROVE  Clean(e, ToPyMarshal(e, cv, lengthTag))
<1> DEFINE stolen == Stolen(e, cv)
<1>1. \A k \in stolen : /\ k \in Int /\ k # Data /\ e.transfer = "everything" /\ e.item \in Wrapped
                        /\ ~ScalarToFrees(ItemCache(e), TRUE)
  BY StolenItems
<1>2. /\ Clean(e, Failed) /\ Clean(e, Made({}))
      /\ \A s : Clean(e, [Failed EXCEPT !.steals = s])
      /\ \A s : (\A part \in s : ~ToPyFrees(e, part, TRUE) /\ e.tag # "gvalue") => Clean(e, Made(s))
  BY CleanPlain
<1> HIDE DEF stolen
<1>3. CASE e.tag = "array"
  <2> DEFINE given == e.transfer = "everything"
             unreached == {k \in 1 .. cv.items : k >= cv.n}
             frees == (IF given /\ ItemCache(e).toClean THEN unreached ELSE {}) \cup (IF given THEN {Data} ELSE {})
             empty == cv.k = "null" \/ e.item = "uint8"
             rest == [Failed EXCEPT !.steals = stolen, !.frees = frees]
  <2>1. Clean(e, Made(stolen))
    <3>1. \A part \in stolen : ~ToPyFrees(e, part, TRUE)
      BY <1>1, <1>3 DEF ToPyFrees, ToArrayFreed
    <3> QED BY <1>2, <1>3, <3>1
  <2>2. Clean(e, rest)
    <3>1. Place \notin frees /\ (frees # {} => given)
      BY DEF Place, Data
    <3>2. ~rest.ok /\ rest.again = {} /\ rest.frees = frees
      BY DEF Failed
    <3> HIDE DEF rest, frees
    <3> QED BY <3>1, <3>2 DEF Clean
  <2>3. ~(~empty /\ cv.n >= 0 /\ e.atype = "C")
    BY <1>3 DEF Convertible
  <2>4. ArrayToPy(e, cv, lengthTag) \in {Failed, Made({}), Made(stolen), rest}
    <3>1. ArrayToPy(e, cv, lengthTag)
          = CASE ~HasLength(e, lengthTag) -> Failed
              [] HasLength(e, lengthTag) /\ empty -> Made({})
              [] HasLength(e, lengthTag) /\ ~empty /\ cv.n < 0 -> Made(stolen)
              [] HasLength(e, lengthTag) /\ ~empty /\ cv.n >= 0 /\ e.atype = "C" ->
                   [Failed EXCEPT !.steals = stolen, !.frees = {Data},
                                  !.again = IF given THEN {Data} ELSE {}]
              [] OTHER -> rest
      BY DEF ArrayToPy, stolen
    <3> HIDE DEF rest, empty
    <3> QED BY <2>3, <3>1
  <2>5. ToPyMarshal(e, cv, lengthTag) = ArrayToPy(e, cv, lengthTag)
    BY <1>3 DEF ToPyMarshal
  <2> HIDE DEF rest
  <2> QED BY <1>2, <2>1, <2>2, <2>4, <2>5
<1>4. CASE e.tag \in Lists
  <2>1. Clean(e, Made(stolen))
    <3>1. \A part \in stolen : ~ToPyFrees(e, part, TRUE)
      <4>1. CASE e.tag = "ghash"
        BY <1>1, <4>1
      <4>2. CASE e.tag \in {"glist", "gslist"}
        BY <1>1, <4>2 DEF ToPyFrees, ToListFreed
      <4> QED BY <1>4, <4>1, <4>2 DEF Lists
    <3>2. e.tag # "gvalue"
      BY <1>4 DEF Lists
    <3> QED BY <1>2, <3>1, <3>2
  <2>2. ToPyMarshal(e, cv, lengthTag) \in {Made(stolen), [Failed EXCEPT !.steals = stolen]}
    BY <1>4 DEF ToPyMarshal, ListToPy, HashToPy, Lists, stolen
  <2> QED BY <1>2, <2>1, <2>2
<1>5. CASE e.tag \notin Containers
  <2>1. ToPyMarshal(e, cv, lengthTag) = ScalarToPy(e, cv)
    BY <1>5 DEF ToPyMarshal, Containers
  <2>2. PICK r : r = ScalarToPy(e, cv)
    OBVIOUS
  <2>3. /\ r.again = {} /\ r.steals \subseteq {Data} /\ r.frees \subseteq {Data}
        /\ r.frees # {} => e.transfer = "everything" /\ e.tag = "error"
        /\ r.steals # {} => e.tag \in Wrapped /\ (e.transfer = "everything" \/ e.caller)
    BY <2>2, StealsScalar
  <2>4. e.tag \in Wrapped \cup {"error"} => ~ScalarToFrees(e, TRUE) /\ e.tag # "gvalue"
    BY DEF ScalarToFrees, Wrapped
  <2>5. \A part : ToPyFrees(e, part, TRUE) = ScalarToFrees(e, TRUE)
    BY <1>5 DEF ToPyFrees, Containers
  <2>6. Place \notin r.frees
    BY <2>3 DEF Place, Data
  <2>7. \A part \in r.steals \cup r.frees : e.tag \in Wrapped \cup {"error"}
    BY <2>3
  <2>8. \A part \in r.steals \cup r.frees : ~ToPyFrees(e, part, TRUE) /\ e.tag # "gvalue"
    BY <2>4, <2>5, <2>7
  <2> QED BY <2>1, <2>2, <2>3, <2>6, <2>8 DEF Clean
<1> QED BY <1>3, <1>4, <1>5 DEF Lists, Containers

\* The entries that Python reads a value by.
LEMMA ReadBy ==
  ASSUME Regular(sig), CacheOK(sig, cache, Count(sig)), EndsOK(sig, cache, Count(sig)),
         NEW i \in Range(cache.toPy) \cup {-1}, NEW e, e = IF i = -1 THEN cache.ret ELSE cache.args[i]
  PROVE  /\ e.tag = ArgOf(sig, i).tag /\ e.transfer = ArgOf(sig, i).transfer /\ e.item = ArgOf(sig, i).item
         /\ e.atype = ArgOf(sig, i).atype /\ i \in ArgsOf(sig) \cup {-1}
         /\ i # -1 => i \in Results(sig, Count(sig))
<1>1. CASE i = -1
  <2>1. ArgOf(sig, i) = sig.ret
    BY <1>1 DEF ArgOf
  <2> QED BY <1>1, <2>1 DEF EndsOK, Returning
<1>2. CASE i # -1
  <2>1. i \in Range(cache.toPy)
    BY <1>2
  <2>2. PICK q : q = cache.toPy
    OBVIOUS
  <2>3. Listing(q, Results(sig, Count(sig))) /\ i \in Range(q)
    BY <2>1, <2>2 DEF EndsOK
  <2>4. PICK k \in DOMAIN q : i = q[k]
    BY <2>3 DEF Range
  <2>5. k \in 1 .. Len(q)
    BY <2>3 DEF Listing
  <2>6. i \in Results(sig, Count(sig))
    BY <2>3, <2>4, <2>5 DEF Listing
  <2>7. Described(sig, i, cache.args[i]) /\ i \in ArgsOf(sig)
    BY <2>6, ResultEntry
  <2> QED BY <1>2, <2>6, <2>7 DEF Described
<1> QED BY <1>1, <1>2

LEMMA Rightful ==
  ASSUME Regular(sig), CacheOK(sig, cache, Count(sig)), EndsOK(sig, cache, Count(sig)), Careful(sig),
         NEW i \in Range(cache.toPy) \cup {-1}, NEW part, NEW cv,
         (i # -1 /\ Allocated(i)) \/ part \in Parts(ArgOf(sig, i), cv), Reclaimed(i, part)
  PROVE  Share(i, part) = "ours"
<1>1. PICK e : e = IF i = -1 THEN cache.ret ELSE cache.args[i]
  OBVIOUS
<1>2. /\ e.tag = ArgOf(sig, i).tag /\ e.transfer = ArgOf(sig, i).transfer /\ e.item = ArgOf(sig, i).item
      /\ i \in ArgsOf(sig) \cup {-1}
  BY <1>1, ReadBy
<1>3. IF e.toClean THEN ToPyFrees(e, part, TRUE) ELSE e.caller /\ CallerFrees(e, TRUE)
  BY <1>1 DEF Reclaimed
<1>4. PICK a : a = ArgOf(sig, i)
  OBVIOUS
<1>5. a.tag \notin Containers => ~OwnedTag(a.item)
  BY <1>2, <1>4 DEF Careful
<1>6. CASE i # -1 /\ Allocated(i)
  BY <1>6 DEF Share
<1>7. CASE ~(i # -1 /\ Allocated(i))
  <2>1. part \in Parts(a, cv)
    BY <1>4, <1>7
  <2>2. Gives(a, part) = "ours"
    BY <1>2, <1>3, <1>4, <1>5, <2>1, ReclaimedOurs
  <2> QED BY <1>4, <1>7, <2>2 DEF Share
<1> QED BY <1>6, <1>7

\* What the callee puts where it was told to is what is read there.
LEMMA ReturnPuts ==
  ASSUME ArriveInv, Ends, Seats, OutputsOK, ItemsConvert, NEW ret, NEW outs, CallC("returns", ret, outs)
  PROVE  /\ pc = "call" /\ pc' = "out return" /\ sig' = sig /\ cache' = cache /\ Returns(ret, outs)
         /\ Regular(sig) /\ CacheOK(sig, cache, Count(sig)) /\ EndsOK(sig, cache, Count(sig))
         /\ SigArgs = ArgsOf(sig) /\ Outs \subseteq ArgsOf(sig) /\ -1 \notin ArgsOf(sig)
         /\ \A i \in ArgsOf(sig) : SigArg(i) = ArgOf(sig, i) /\ (ToPython(WayOf(sig, i)) <=> i \in Outs)
         /\ Parts(sig.ret, Out(-1)') = Parts(sig.ret, ret) /\ Formed(sig.ret, Out(-1)')
         /\ \A i \in Outs : ~Allocated(i) => /\ Parts(SigArg(i), Out(i)') = Parts(SigArg(i), outs[i])
                                             /\ Formed(SigArg(i), Out(i)')
<1>1. /\ pc = "call" /\ sig' = sig /\ cache' = cache /\ Returns(ret, outs) /\ pc' = "out return"
      /\ ret \in Outputs(sig.ret) /\ \A i \in Outs : outs[i] \in Outputs(SigArg(i))
  BY DEF CallC, Returns
<1>2. Regular(sig) /\ CacheOK(sig, cache, Count(sig)) /\ EndsOK(sig, cache, Count(sig)) /\ cache.n = Count(sig)
  <2>1. pc \in {"cached"} \cup Calling /\ TypeInv
    BY <1>1 DEF Calling, ArriveInv
  <2> QED BY <2>1, Now
<1>3. SigArgs = ArgsOf(sig) /\ Outs \subseteq ArgsOf(sig) /\ -1 \notin ArgsOf(sig)
  BY <1>2, SigArgIs DEF Outs
<1>4. ASSUME NEW i \in ArgsOf(sig)
      PROVE  SigArg(i) = ArgOf(sig, i) /\ (ToPython(WayOf(sig, i)) <=> i \in Outs)
  <2>1. /\ SigArg(i) = ArgOf(sig, i) /\ SigArg(i).dir \in {"in", "out", "inout"}
        /\ WayOf(sig, i) = Direction(SigArg(i))
    BY <1>2, <1>3, SigArgIs
  <2> QED BY <1>3, <2>1 DEF Outs, Direction, ToPython
<1>5. PICK vs : vs = outVals'
  OBVIOUS
<1>6. /\ vs[-1] = [ret EXCEPT !.of = -1]
      /\ \A i \in Outs : ~Allocated(i) => vs[OutSlot(i)] = [outs[i] EXCEPT !.of = i]
  BY ONLY ArriveInv, Ends, Seats, <1>1, <1>5, ReturnPlaces
<1>7. Out(-1)' = [ret EXCEPT !.of = -1]
  BY <1>5, <1>6 DEF Out
<1>8. Parts(sig.ret, Out(-1)') = Parts(sig.ret, ret) /\ Formed(sig.ret, Out(-1)')
  <2>1. /\ sig \in Sigs /\ ret \in Outputs(ArgOf(sig, -1)) /\ ArgOf(sig, -1) = sig.ret
        /\ {"k", "n", "items", "of"} \subseteq DOMAIN ret /\ ret.n \in Int /\ ret.items \in Nat
    BY <1>1, OutputsAre DEF ArriveInv, ArgOf
  <2>2. Formed(sig.ret, ret)
    BY <2>1 DEF ItemsConvert, Formed
  <2> QED BY <1>7, <2>1, <2>2, PartsOf
<1>9. ASSUME NEW i \in Outs, ~Allocated(i)
      PROVE  Parts(SigArg(i), Out(i)') = Parts(SigArg(i), outs[i]) /\ Formed(SigArg(i), Out(i)')
  <2>1. /\ sig \in Sigs /\ outs[i] \in Outputs(ArgOf(sig, i)) /\ ArgOf(sig, i) = SigArg(i) /\ i \in ArgsOf(sig)
        /\ {"k", "n", "items", "of"} \subseteq DOMAIN outs[i] /\ outs[i].n \in Int /\ outs[i].items \in Nat
    BY <1>1, <1>9, OutputsAre DEF ArriveInv
  <2>4. Formed(SigArg(i), outs[i])
    BY <2>1 DEF ItemsConvert, Formed
  <2>2. i # -1
    BY <1>3
  <2>3. Out(i)' = [outs[i] EXCEPT !.of = i]
    BY <1>1, <1>5, <1>6, <1>9, <2>2 DEF Out, OutSlot
  <2> QED BY <2>1, <2>3, <2>4, PartsOf
<1> QED BY <1>1, <1>2, <1>3, <1>4, <1>8, <1>9

LEMMA ReturnYields ==
  ASSUME ArriveInv, Ends, Seats, Taken, Careful(sig), OutputsOK, ItemsConvert,
         NEW ret, NEW outs, CallC("returns", ret, outs)
  PROVE  Yielded' /\ NoMisfree'
<1>1. /\ pc = "call" /\ pc' = "out return" /\ sig' = sig /\ cache' = cache /\ Returns(ret, outs)
      /\ Regular(sig) /\ CacheOK(sig, cache, Count(sig)) /\ EndsOK(sig, cache, Count(sig))
      /\ Outs \subseteq ArgsOf(sig) /\ -1 \notin ArgsOf(sig)
      /\ \A i \in ArgsOf(sig) : SigArg(i) = ArgOf(sig, i) /\ (ToPython(WayOf(sig, i)) <=> i \in Outs)
      /\ Parts(sig.ret, Out(-1)') = Parts(sig.ret, ret) /\ Formed(sig.ret, Out(-1)')
      /\ \A i \in Outs : ~Allocated(i) => /\ Parts(SigArg(i), Out(i)') = Parts(SigArg(i), outs[i])
                                          /\ Formed(SigArg(i), Out(i)')
  BY ReturnPuts
<1>2. ArgOf(sig, -1) = sig.ret /\ ToPython(WayOf(sig, -1))
  BY DEF ArgOf, WayOf, ToPython
<1>3. PICK old : old = MarshalSuccess(HandOver(ledger))
  OBVIOUS
<1>4. /\ DOMAIN old = DOMAIN ledger
      /\ \A b \in DOMAIN ledger : old[b] # "misfreed" /\ (b[1] = "out" => old[b] = "ours")
  BY <1>1, <1>3, Settled
<1>5. /\ \A i : Allocated(i)' = Allocated(i)
      /\ \A i, part : Share(i, part)' = Share(i, part) /\ Reclaimed(i, part)' = Reclaimed(i, part)
  BY <1>1 DEF Allocated, Share, Reclaimed
<1>6. \A i \in ArgsOf(sig) : Allocated(i) => i \in Outs
  <2> SUFFICES ASSUME NEW i \in ArgsOf(sig), Allocated(i) PROVE ToPython(WayOf(sig, i))
    BY <1>1
  <2>1. Regular(sig) /\ CacheOK(sig, cache, Count(sig))
    BY <1>1
  <2>2. i \in Numbers(sig)
    BY <2>1, Ways
  <2>3. cache.args[i].dir = WayOf(sig, i)
    BY <2>1, <2>2, Ready
  <2> QED BY <2>3 DEF Allocated, ToPython
<1>7. \A i, part : Offered(i, part)' <=> IF i # -1 /\ Allocated(i) THEN part = Data ELSE part \in Parts(ArgOf(sig, i), Out(i)')
  BY <1>1, <1>5 DEF Offered
<1>8. ASSUME NEW b \in DOMAIN ledger'
      PROVE  /\ ledger'[b] # "misfreed"
             /\ b[1] = "out" =>
                  /\ b[2] \in ArgsOf(sig) \cup {-1} /\ ToPython(WayOf(sig, b[2]))
                  /\ Offered(b[2], b[3])' /\ ledger'[b] = Share(b[2], b[3])
  <2>1. CASE b \in DOMAIN ledger /\ ledger'[b] = old[b]
    <3>1. ledger'[b] # "misfreed"
      BY <1>4, <2>1
    <3>2. ASSUME b[1] = "out"
          PROVE  /\ b[2] \in ArgsOf(sig) /\ ToPython(WayOf(sig, b[2]))
                 /\ Offered(b[2], b[3])' /\ ledger'[b] = Share(b[2], b[3])
      <4>1. b[3] = Data /\ b[2] \in ArgsOf(sig) /\ Allocated(b[2])
        BY <1>1, <2>1, <3>2 DEF Taken
      <4>2. b[2] # -1 /\ ToPython(WayOf(sig, b[2]))
        BY <1>1, <1>6, <4>1
      <4>3. ledger'[b] = "ours" /\ Share(b[2], b[3]) = "ours"
        BY <1>4, <2>1, <3>2, <4>1, <4>2 DEF Share
      <4> QED BY <1>7, <4>1, <4>2, <4>3
    <3> QED BY <3>1, <3>2
  <2>2. CASE b[1] = "out" /\ b[2] = -1 /\ b[3] \in Parts(sig.ret, ret) /\ ledger'[b] = Gives(sig.ret, b[3])
    <3>1. ledger'[b] = Share(-1, b[3]) /\ ledger'[b] # "misfreed"
      BY <1>2, <2>2 DEF Share, Gives
    <3>2. Offered(-1, b[3])'
      BY <1>1, <1>2, <1>7, <2>2
    <3> QED BY <1>2, <2>2, <3>1, <3>2
  <2>3. CASE /\ b[1] = "out" /\ b[2] \in Outs /\ ~Allocated(b[2]) /\ b[3] \in Parts(SigArg(b[2]), outs[b[2]])
             /\ ledger'[b] = Gives(SigArg(b[2]), b[3])
    <3>1. PICK i, part : i = b[2] /\ part = b[3]
      OBVIOUS
    <3>2. i \in Outs /\ ~Allocated(i) /\ part \in Parts(SigArg(i), outs[i]) /\ ledger'[b] = Gives(SigArg(i), part)
      BY <2>3, <3>1
    <3>3. i \in ArgsOf(sig) /\ SigArg(i) = ArgOf(sig, i) /\ ToPython(WayOf(sig, i))
      BY <1>1, <3>2
    <3>4. ledger'[b] = Share(i, part) /\ ledger'[b] # "misfreed"
      BY <3>2, <3>3 DEF Share, Gives
    <3>5. Offered(i, part)'
      BY <1>1, <1>7, <3>2, <3>3
    <3> QED BY <3>1, <3>3, <3>4, <3>5
  <2> QED BY <1>1, <1>3, <1>4, <2>1, <2>2, <2>3, ReturnBlocks
<1>9. ASSUME NEW i \in ArgsOf(sig) \cup {-1}, ToPython(WayOf(sig, i)), ~(i # -1 /\ Allocated(i))
      PROVE  Formed(ArgOf(sig, i), Out(i)')
  <2>1. CASE i = -1
    BY <1>1, <1>2, <2>1
  <2>2. CASE i # -1
    BY <1>1, <1>9, <2>2
  <2> QED BY <2>1, <2>2
<1>10. Yielded'
  <2>1. \A i \in ArgsOf(sig) \cup {-1} :
          ToPython(WayOf(sig, i)) /\ ~(i # -1 /\ Allocated(i)') => Formed(ArgOf(sig, i), Out(i)')
    BY <1>5, <1>9
  <2>2. \A b \in DOMAIN ledger' :
          b[1] = "out" =>
            /\ b[2] \in ArgsOf(sig) \cup {-1} /\ ToPython(WayOf(sig, b[2]))
            /\ Offered(b[2], b[3])' /\ ledger'[b] = Share(b[2], b[3])'
    BY <1>5, <1>8
  <2> QED BY <1>1, <2>1, <2>2 DEF Yielded
<1>11. ASSUME NEW b \in DOMAIN ledger', b[1] = "out", b[2] \in Range(cache.toPy) \cup {-1}, Reclaimed(b[2], b[3])
       PROVE  ledger'[b] = "ours"
  <2>1. PICK i, part, cv : i = b[2] /\ part = b[3] /\ cv = Out(i)'
    OBVIOUS
  <2>2. (i # -1 /\ Allocated(i)) \/ part \in Parts(ArgOf(sig, i), cv)
    BY <1>7, <1>8, <1>11, <2>1
  <2>3. Share(i, part) = "ours"
    BY <1>1, <1>11, <2>1, <2>2, Rightful
  <2> QED BY <1>8, <1>11, <2>1, <2>3
<1>12. NoMisfree'
  BY <1>1, <1>5, <1>8, <1>11 DEF NoMisfree
<1> QED BY <1>10, <1>12

-----------------------------------------------------------------------------
(* What Python makes of it *)

LEMMA MarshalYields ==
  ASSUME Regular(sig), CacheOK(sig, cache, Count(sig)), EndsOK(sig, cache, Count(sig)), Yielded, NoMisfree,
         pc \in Gathering, pc' \in {"out args", "done"}, sig' = sig, cache' = cache, outVals' = outVals,
         NEW i \in Range(cache.toPy) \cup {-1}, NEW e, e = IF i = -1 THEN cache.ret ELSE cache.args[i],
         NEW r, Clean(e, r), Marshal(i, r), Unread(i),
         pc' = "out args" => r.ok /\ ~Unread(i)' /\ \A j : Unread(j)' => Unread(j)
  PROVE  Yielded' /\ NoMisfree'
<1>1. /\ e.transfer = ArgOf(sig, i).transfer /\ e.tag = ArgOf(sig, i).tag
      /\ i \in ArgsOf(sig) \cup {-1}
  BY ReadBy
<1>2. DOMAIN ledger' = DOMAIN ledger
  BY DEF Marshal
<1>3. ASSUME NEW b \in DOMAIN ledger
      PROVE  ledger'[b] = IF b[1] # "out" \/ b[2] # i THEN ledger[b]
                          ELSE IF b[3] \in r.frees THEN Free(ledger[b])
                          ELSE IF b[3] \in r.steals THEN "python" ELSE ledger[b]
  <2>1. r.again = {}
    BY DEF Clean
  <2> QED BY <2>1 DEF Marshal
<1>4. ASSUME NEW b \in DOMAIN ledger
      PROVE  ledger'[b] # "misfreed"
  <2>1. ledger[b] # "misfreed"
    BY DEF NoMisfree
  <2>2. CASE b[1] = "out" /\ b[2] = i /\ b[3] \in r.frees
    <3>1. b[3] # Place /\ e.transfer = "everything"
      BY <2>2 DEF Clean
    <3>2. ledger[b] = Share(i, b[3])
      BY <2>2, <3>1 DEF Yielded
    <3>3. Share(i, b[3]) = "ours"
      BY <1>1, <3>1 DEF Share, Gives
    <3>4. ledger'[b] = Free("ours")
      BY <1>3, <2>2, <3>2, <3>3
    <3> QED BY <3>4 DEF Free
  <2>3. CASE ~(b[1] = "out" /\ b[2] = i /\ b[3] \in r.frees)
    <3>1. ledger'[b] \in {ledger[b], "python"}
      BY <1>3, <2>3
    <3> QED BY <2>1, <3>1
  <2> QED BY <2>2, <2>3
<1>5. /\ \A j : Allocated(j)' = Allocated(j) /\ Out(j)' = Out(j)
      /\ \A j, part : Share(j, part)' = Share(j, part) /\ Reclaimed(j, part)' = Reclaimed(j, part)
  BY DEF Allocated, Share, Reclaimed, Out, OutSlot
<1>6. \A j, part : Offered(j, part)' = Offered(j, part)
  BY <1>5 DEF Offered
<1>7. ASSUME pc' = "out args"
      PROVE  Yielded'
  <2>1. ASSUME NEW b \in DOMAIN ledger, b[1] = "out", b[3] # Place
        PROVE  /\ b[2] \in ArgsOf(sig) \cup {-1} /\ ToPython(WayOf(sig, b[2]))
               /\ Offered(b[2], b[3])
               /\ Unread(b[2])' => ledger'[b] = Share(b[2], b[3])
    <3>1. /\ b[2] \in ArgsOf(sig) \cup {-1} /\ ToPython(WayOf(sig, b[2]))
          /\ Offered(b[2], b[3])
          /\ Unread(b[2]) => ledger[b] = Share(b[2], b[3])
      BY <2>1 DEF Yielded
    <3>2. ASSUME Unread(b[2])'
          PROVE  ledger'[b] = Share(b[2], b[3])
      <4>1. b[2] # i /\ Unread(b[2])
        BY <1>7, <3>2
      <4> QED BY <1>3, <3>1, <4>1
    <3> QED BY <3>1, <3>2
  <2>2. \A j \in ArgsOf(sig) \cup {-1} :
          ToPython(WayOf(sig, j)) /\ ~(j # -1 /\ Allocated(j)) => Formed(ArgOf(sig, j), Out(j))
    BY DEF Yielded
  <2> QED BY <1>2, <1>5, <1>6, <2>1, <2>2 DEF Yielded
<1>8. ASSUME pc' = "out args", NEW b \in DOMAIN ledger, b[1] = "out", b[3] # Place,
             b[2] \in Range(cache.toPy) \cup {-1}, Reclaimed(b[2], b[3])
      PROVE  ledger'[b] = "ours"
  <2>1. ledger[b] = "ours"
    BY <1>8 DEF NoMisfree
  <2>2. ASSUME b[2] = i
        PROVE  b[3] \notin r.steals \cup r.frees
    <3> SUFFICES ASSUME b[3] \in r.steals \cup r.frees PROVE FALSE
      OBVIOUS
    <3>1. ~ToPyFrees(e, b[3], TRUE) /\ e.tag # "gvalue"
      BY <1>8 DEF Clean
    <3>2. IF e.toClean THEN ToPyFrees(e, b[3], TRUE) ELSE e.caller /\ CallerFrees(e, TRUE)
      BY <1>8, <2>2 DEF Reclaimed
    <3> QED BY <3>1, <3>2 DEF CallerFrees
  <2> QED BY <1>3, <2>1, <2>2
<1>9. NoMisfree'
  BY <1>2, <1>4, <1>5, <1>8 DEF NoMisfree, Gathering
<1>10. Yielded'
  BY <1>7 DEF Yielded, Gathering
<1> QED BY <1>9, <1>10

LEMMA FormedClean ==
  ASSUME Regular(sig), CacheOK(sig, cache, Count(sig)), EndsOK(sig, cache, Count(sig)), Careful(sig),
         NEW i \in Range(cache.toPy) \cup {-1}, NEW e, e = IF i = -1 THEN cache.ret ELSE cache.args[i],
         NEW cv, Formed(ArgOf(sig, i), cv), NEW lengthTag
  PROVE  Clean(e, ToPyMarshal(e, cv, lengthTag))
<1>1. /\ e.transfer = ArgOf(sig, i).transfer /\ e.tag = ArgOf(sig, i).tag /\ e.item = ArgOf(sig, i).item
      /\ e.atype = ArgOf(sig, i).atype /\ i \in ArgsOf(sig) \cup {-1}
  BY ReadBy
<1>2. cv.n \in Int /\ cv.items \in Nat /\ Convertible(e, cv)
  BY <1>1 DEF Formed, Convertible
<1>3. e.tag = "ghash" /\ e.transfer = "everything" => e.item \notin Wrapped
  BY <1>1 DEF Careful
<1> QED BY <1>2, <1>3, ToPyClean

\* The return value is read first.
LEMMA ReturnRead ==
  ASSUME ArriveInv, Ends, Seats, Careful(sig), Yielded, NoMisfree, OutReturn
  PROVE  Yielded' /\ NoMisfree'
<1>1. /\ pc = "out return" /\ pc' \in {"out args", "done"} /\ sig' = sig /\ cache' = cache /\ outVals' = outVals
  BY DEF OutReturn, BadResult, outvars
<1>2. Regular(sig) /\ CacheOK(sig, cache, Count(sig)) /\ EndsOK(sig, cache, Count(sig))
  <2>1. pc \in {"cached"} \cup Calling /\ TypeInv
    BY <1>1 DEF Calling, ArriveInv
  <2> QED BY <2>1, Now
<1>3. /\ \A j : Allocated(j)' = Allocated(j) /\ Out(j)' = Out(j) /\ Unread(j)
      /\ \A j, part : Share(j, part)' = Share(j, part) /\ Reclaimed(j, part)' = Reclaimed(j, part)
  BY <1>1 DEF Allocated, Share, Reclaimed, Out, OutSlot, Unread
<1>4. ArgOf(sig, -1) = sig.ret /\ ToPython(WayOf(sig, -1))
  BY DEF ArgOf, WayOf, ToPython
<1>5. CASE ledger' = ledger
  <2>1. \A j, part : Offered(j, part)' = Offered(j, part)
    BY <1>1, <1>3 DEF Offered
  <2>2. Yielded'
    <3>1. /\ \A b \in DOMAIN ledger :
               b[1] = "out" /\ b[3] # Place =>
                 /\ b[2] \in ArgsOf(sig) \cup {-1} /\ ToPython(WayOf(sig, b[2]))
                 /\ Offered(b[2], b[3])
                 /\ ledger[b] = Share(b[2], b[3])
          /\ \A j \in ArgsOf(sig) \cup {-1} :
               ToPython(WayOf(sig, j)) /\ ~(j # -1 /\ Allocated(j)) => Formed(ArgOf(sig, j), Out(j))
      BY <1>1, <1>3 DEF Yielded, Gathering
    <3> QED BY <1>1, <1>3, <1>5, <2>1, <3>1 DEF Yielded
  <2>3. NoMisfree'
    <3>1. /\ \A b \in DOMAIN ledger : ledger[b] # "misfreed"
          /\ \A b \in DOMAIN ledger :
               b[1] = "out" /\ b[3] # Place /\ b[2] \in Range(cache.toPy) \cup {-1} /\ Reclaimed(b[2], b[3]) =>
                 ledger[b] = "ours"
      BY <1>1 DEF NoMisfree, Gathering
    <3> QED BY <1>1, <1>3, <1>5, <3>1 DEF NoMisfree
  <2> QED BY <2>2, <2>3
<1>6. CASE ledger' # ledger
  <2>1. PICK e, cv, r : e = cache.ret /\ cv = outVals[-1] /\ r = ToPyMarshal(e, cv, LengthTag(e))
    OBVIOUS
  <2>2. ~sig.skip
    <3> SUFFICES ASSUME sig.skip PROVE FALSE
      OBVIOUS
    <3>1. e.transfer = "everything" /\ e.toClean
      BY <1>6, <2>1 DEF OutReturn
    <3>2. e.transfer = sig.ret.transfer /\ (e.toClean => HasToCleanup(sig.ret.tag))
      BY <1>2, <2>1 DEF EndsOK, Returning
    <3> QED BY <3>1, <3>2 DEF Careful
  <2>3. Marshal(-1, r) /\ (pc' = "out args" => r.ok)
    BY <1>6, <2>1, <2>2 DEF OutReturn, BadResult
  <2>4. Formed(sig.ret, cv)
    <3>1. Formed(ArgOf(sig, -1), Out(-1))
      BY <1>1, <1>4 DEF Yielded, Gathering
    <3> QED BY <1>4, <2>1, <3>1 DEF Out
  <2>5. Clean(e, r)
    BY <1>2, <1>4, <2>1, <2>4, FormedClean
  <2>6. pc' = "out args" => ~Unread(-1)'
    <3> SUFFICES ASSUME NEW l \in 1 .. Len(cache.toPy), cache.toPy[l] = -1 PROVE FALSE
      BY <1>1 DEF Unread
    <3>1. -1 \in Results(sig, Count(sig))
      BY <1>2 DEF EndsOK, Listing
    <3> QED BY <1>2, <3>1, Ways DEF Results, ToOnes
  <2> QED BY <1>1, <1>2, <1>3, <2>1, <2>3, <2>5, <2>6, MarshalYields DEF Gathering
<1> QED BY <1>5, <1>6

\* Then the (out) values, each once.
LEMMA ArgTurn ==
  ASSUME ArriveInv, Ends, Seats, Gathered, Yielded, OutArg, NEW i, i = cache.toPy[pos + 1],
         NEW e, e = cache.args[i], NEW cv, cv = ValueAt(i), NEW r, r = ToPyMarshal(e, cv, LengthTag(e))
  PROVE  /\ pc = "out args" /\ pc' \in {"out args", "done"} /\ sig' = sig /\ cache' = cache /\ outVals' = outVals
         /\ Regular(sig) /\ CacheOK(sig, cache, Count(sig)) /\ EndsOK(sig, cache, Count(sig))
         /\ i # -1 /\ i \in Range(cache.toPy) /\ i \in Results(sig, Count(sig))
         /\ Formed(ArgOf(sig, i), cv) /\ Unread(i) /\ Marshal(i, r)
         /\ Allocated(i) => cv.k = "ptr" /\ cv.n = -1
         /\ ~Allocated(i) => cv = Out(i)
         /\ pc' = "out args" => r.ok /\ ~Unread(i)' /\ \A j : j # i => (Unread(j)' <=> Unread(j))
         /\ IF pc' = "out args" THEN outcome' = outcome ELSE outcome' = "bad result"
<1>1. /\ pc = "out args" /\ pc' \in {"out args", "done"} /\ sig' = sig /\ cache' = cache /\ outVals' = outVals
      /\ pos < NOut /\ pos < Len(cache.toPy)
  BY DEF OutArg, BadResult, outvars
<1>2. TypeInv /\ pc \in {"cached"} \cup Calling
  BY <1>1 DEF ArriveInv, Calling
<1>3. Regular(sig) /\ CacheOK(sig, cache, Count(sig)) /\ EndsOK(sig, cache, Count(sig))
  BY <1>2, Now
<1>4. PICK p, q : p = pos /\ q = cache.toPy
  OBVIOUS
<1>5. Listing(q, Results(sig, Count(sig)))
  BY <1>3, <1>4 DEF EndsOK
<1>6. p \in Nat /\ p + 1 \in 1 .. Len(q)
  <2>1. pos \in 0 .. cache.n /\ cache.n \in Nat
    BY <1>2, During
  <2>2. p \in Nat
    BY <1>4, <2>1
  <2>3. p < Len(q)
    BY <1>1, <1>4
  <2>4. Len(q) \in Nat
    BY <1>5 DEF Listing
  <2> QED BY <2>2, <2>3, <2>4
<1>7. i = q[p + 1]
  BY <1>4
<1>8. i \in Results(sig, Count(sig))
  BY <1>5, <1>6, <1>7 DEF Listing
<1>9. /\ i \in Numbers(sig) /\ i \in ArgsOf(sig) /\ i \in Int /\ ToPython(cache.args[i].dir)
      /\ ToPython(WayOf(sig, i)) /\ cache.args[i].c = i
  BY <1>3, <1>8, ResultEntry
<1>10. i # -1 /\ i \in Range(cache.toPy)
  <2>1. i # -1
    BY <1>3, <1>9, Ways
  <2>2. DOMAIN q = 1 .. Len(q)
    BY <1>5 DEF Listing
  <2>3. i \in Range(q)
    BY <1>6, <1>7, <2>2 DEF Range
  <2> QED BY <1>4, <2>1, <2>3
<1>11. /\ Marshal(i, r) /\ (pc' = "out args" => r.ok /\ pos' = p + 1)
       /\ IF pc' = "out args" THEN outcome' = outcome ELSE outcome' = "bad result"
  <2>1. cache.args[cache.toPy[pos + 1]].c = i /\ cache.args[i] = e
    BY <1>9
  <2> QED BY <1>1, <1>4, <2>1 DEF OutArg, BadResult
<1>12. /\ Formed(ArgOf(sig, i), cv) /\ (Allocated(i) => cv.k = "ptr" /\ cv.n = -1)
       /\ ~Allocated(i) => cv = Out(i)
  <2>1. Seated(i)
    BY <1>1, <1>9 DEF Seats
  <2>2. \A area, k : Slot(area, k).area = area /\ Slot(area, k).k = k
    BY DEF Slot
  <2>3. CASE Allocated(i)
    <3>1. args[i].area = "alloc"
      <4>1. args[i] = Slot("alloc", OutSlot(i))
        BY ONLY <1>9, <2>1, <2>3 DEF Seated
      <4> QED BY ONLY <2>2, <4>1
    <3>2. cv = [k |-> "ptr", n |-> -1, items |-> 0, of |-> i]
      BY <3>1 DEF ValueAt
    <3>3. cv.n = -1 /\ cv.items = 0 /\ cv.k = "ptr" /\ {"k", "n"} \subseteq DOMAIN cv
      BY <3>2
    <3> QED BY <2>3, <3>3 DEF Formed, Convertible
  <2>4. CASE ~Allocated(i)
    <3>1. args[i].area = "value" /\ args[i].k = OutSlot(i)
      <4>1. args[i] = Slot("value", OutSlot(i))
        BY ONLY <1>9, <2>1, <2>4 DEF Seated
      <4> QED BY ONLY <2>2, <4>1
    <3>2. cv = Out(i)
      BY <1>10, <3>1 DEF ValueAt, At, Out
    <3> QED BY <1>1, <1>9, <1>10, <2>4, <3>2 DEF Yielded, Gathering
  <2> QED BY <2>3, <2>4
<1>13. Unread(i)
  <2>1. p + 1 > p
    BY <1>6
  <2> QED BY <1>4, <1>6, <1>7, <2>1 DEF Unread
<1>14. ASSUME pc' = "out args"
       PROVE  ~Unread(i)' /\ \A j : j # i => (Unread(j)' <=> Unread(j))
  <2>1. pos' = p + 1
    BY <1>11, <1>14
  <2>2. \A j : Unread(j)' <=> \E l \in 1 .. Len(q) : l > p + 1 /\ q[l] = j
    BY <1>1, <1>4, <1>14, <2>1 DEF Unread
  <2>3. \A l \in 1 .. Len(q) : l > p + 1 => q[l] # i /\ l > p
    <3> SUFFICES ASSUME NEW l \in 1 .. Len(q), l > p + 1 PROVE q[l] # i /\ l > p
      OBVIOUS
    <3>1. p + 1 \in 1 .. Len(q) /\ p + 1 < l /\ l > p
      BY <1>6
    <3>2. q[p + 1] < q[l] /\ q[p + 1] \in Int /\ q[l] \in Int
      BY <1>5, <3>1 DEF Listing
    <3>3. q[l] # q[p + 1]
      BY ONLY <3>2
    <3> QED BY <1>7, <3>1, <3>3
  <2>4. ~Unread(i)'
    BY <2>2, <2>3
  <2>5. \A j : Unread(j) <=> \E l \in 1 .. Len(q) : l > p /\ q[l] = j
    BY <1>1, <1>4 DEF Unread
  <2>6. ASSUME NEW l \in 1 .. Len(q), l > p, q[l] # i
        PROVE  l > p + 1
    BY <1>5, <1>6, <1>7, <2>6 DEF Listing
  <2>7. \A j : j # i => (Unread(j)' <=> Unread(j))
    BY <2>2, <2>3, <2>5, <2>6
  <2> QED BY <2>4, <2>7
<1> QED BY <1>1, <1>3, <1>8, <1>10, <1>11, <1>12, <1>13, <1>14

LEMMA ArgRead ==
  ASSUME ArriveInv, Ends, Seats, Gathered, Careful(sig), Yielded, NoMisfree, OutArg
  PROVE  Yielded' /\ NoMisfree'
<1>1. PICK i : i = cache.toPy[pos + 1]
  OBVIOUS
<1>2. PICK e, cv, r : e = cache.args[i] /\ cv = ValueAt(i) /\ r = ToPyMarshal(e, cv, LengthTag(e))
  OBVIOUS
<1>3. /\ pc = "out args" /\ pc' \in {"out args", "done"} /\ sig' = sig /\ cache' = cache /\ outVals' = outVals
      /\ Regular(sig) /\ CacheOK(sig, cache, Count(sig)) /\ EndsOK(sig, cache, Count(sig))
      /\ i # -1 /\ i \in Range(cache.toPy) /\ Formed(ArgOf(sig, i), cv) /\ Unread(i) /\ Marshal(i, r)
      /\ pc' = "out args" => r.ok /\ ~Unread(i)' /\ \A j : j # i => (Unread(j)' <=> Unread(j))
  BY <1>1, <1>2, ArgTurn
<1>4. Clean(e, r)
  BY <1>2, <1>3, FormedClean
<1> QED BY <1>2, <1>3, <1>4, MarshalYields DEF Gathering

-----------------------------------------------------------------------------
(* Every step *)

LEMMA FinishFrees ==
  ASSUME NoMisfree, Finish
  PROVE  NoMisfree' /\ pc' = "done"
<1>1. pc = "out args" /\ pc' = "done" /\ ledger' = ToSuccess(ledger)
  BY DEF Finish
<1>2. ASSUME NEW b \in DOMAIN ledger
      PROVE  ToSuccess(ledger)[b] # "misfreed"
  <2> DEFINE cleaned == /\ b[1] = "out" /\ b[3] # Place
                        /\ b[2] = -1 \/ b[2] \in Range(cache.toPy)
                        /\ Reclaimed(b[2], b[3])
  <2>1. ToSuccess(ledger)[b] = IF cleaned THEN Free(ledger[b]) ELSE ledger[b]
    BY Zenon DEF ToSuccess, Reclaimed
  <2>2. cleaned => ledger[b] = "ours"
    BY <1>1 DEF NoMisfree, Gathering
  <2>3. ledger[b] # "misfreed"
    BY DEF NoMisfree
  <2>4. Free("ours") = "freed"
    BY DEF Free
  <2> HIDE DEF cleaned
  <2> QED BY <2>1, <2>2, <2>3, <2>4
<1>3. DOMAIN ToSuccess(ledger) = DOMAIN ledger
  BY DEF ToSuccess
<1> QED BY <1>1, <1>2, <1>3 DEF NoMisfree, Gathering

LEMMA CallFrees ==
  ASSUME ArriveInv, Ends, Taken, Careful(sig), pc = "call", NEW ran, CallFails(ran)
  PROVE  NoMisfree' /\ pc' = "done"
<1>1. Regular(sig) /\ CacheOK(sig, cache, Count(sig))
  <2>1. pc \in {"cached"} \cup Calling /\ TypeInv
    BY DEF Calling, ArriveInv
  <2> QED BY <2>1, Now
<1>2. PICK led : led = IF ran THEN HandOver(ledger) ELSE ledger
  OBVIOUS
<1>3. led \in {ledger, HandOver(ledger)}
  BY <1>2
<1>4. ledger' = MarshalSuccess(led) /\ pc' = "done"
  BY <1>2 DEF CallFails
<1>5. /\ DOMAIN MarshalSuccess(led) = DOMAIN ledger
      /\ \A b \in DOMAIN ledger : MarshalSuccess(led)[b] # "misfreed"
  BY <1>1, <1>3, Settled
<1> QED BY <1>4, <1>5 DEF NoMisfree, Gathering

\* What is taken stays so while nothing happens to it.
LEMMA TakenStays ==
  ASSUME Taken, sig' = sig, cache' = cache, pos' = pos, args' = args, value' = value, ledger' = ledger,
         argsData' = argsData, pc' = pc \/ (pc = "in" /\ pc' = "call")
  PROVE  Taken'
<1>1. /\ \A i : Allocated(i)' = Allocated(i) /\ InSlot(i)' = InSlot(i)
      /\ \A i : StaysOurs(cache.args[i])' = StaysOurs(cache.args[i])
  BY DEF Allocated, InSlot, StaysOurs
<1>2. \A i, part : Held(i, part)' = Held(i, part)
  BY <1>1 DEF Held
<1>3. pc \in Building \cup {"cached"} => pc' \in Building \cup {"cached"}
  BY DEF Building
<1>4. pc' \in Building \cup {"cached"} => pc \in Building \cup {"cached"}
  BY DEF Building
<1>5. pc' \in {"in", "call"} => pc \in {"in", "call"}
  OBVIOUS
<1>6. pc' \in Building \cup {"cached"} => DOMAIN ledger' = {} /\ argsData' = {}
  BY <1>4 DEF Taken
<1>7. pc' \in {"in", "call"} =>
        /\ \A b \in DOMAIN ledger' :
             /\ ledger'[b] = "ours"
             /\ \/ b[1] = "in" /\ Held(b[2], b[3])'
                \/ b[1] = "out" /\ b[3] = Data /\ b[2] \in ArgsOf(sig) /\ b[2] < pos /\ Allocated(b[2])
        /\ \A i \in argsData' : cache.args[i].dir = "both" => StaysOurs(cache.args[i])
        /\ \A b \in DOMAIN ledger' : b[1] = "in" /\ StaysOurs(cache.args[b[2]]) => b[2] \in argsData'
  BY <1>2, <1>5 DEF Taken
<1> QED BY <1>1, <1>6, <1>7 DEF Taken, Building

\* The rest of the ledger's invariant says nothing of a call on its way in.
LEMMA Inward ==
  ASSUME Taken', pc' \in {"in", "call"}
  PROVE  Yielded' /\ NoMisfree'
<1>1. \A b \in DOMAIN ledger' : ledger'[b] = "ours"
  BY DEF Taken
<1> QED BY <1>1 DEF Yielded, NoMisfree, Gathering

LEMMA Failing ==
  ASSUME Taken, pc = "in", NEW left, FailAt(left)
  PROVE  Taken' /\ Yielded' /\ NoMisfree'
<1>1. pc' = "done"
  BY DEF FailAt
<1>2. \A b \in DOMAIN ledger' : ledger'[b] # "misfreed"
  BY FailFrees
<1> QED BY <1>1, <1>2 DEF Taken, Yielded, NoMisfree, Gathering, Building

LEMMA NextTaken ==
  ASSUME ResultInv, Taken, ValuesOK, OutputsOK, [Next]_vars
  PROVE  Taken'
<1>0. TypeInv /\ Arriving /\ CallbacksIn
  BY DEF ResultInv, ArriveInv
<1>1. pc' \notin Building \cup {"cached", "in", "call"} => Taken'
  BY DEF Taken
<1>2. CASE CacheNext /\ UNCHANGED <<callvars, invars, outvars, args, ledger, endvars>>
  <2>1. pc \in Building /\ pc' \in Building \cup {"cached"}
    BY <1>0, <1>2 DEF CacheNext, CacheNew, CacheReturn, CacheClosure, CacheChild, CacheArg, CacheDone, Building
  <2>2. ledger' = ledger /\ argsData' = argsData
    BY <1>2 DEF invars
  <2>3. DOMAIN ledger = {} /\ argsData = {}
    BY <2>1 DEF Taken
  <2>4. pc' \notin {"in", "call"}
    BY <2>1 DEF Building
  <2> QED BY <2>2, <2>3, <2>4 DEF Taken
<1>3. ASSUME NEW c, NEW first, Call(c, first)
      PROVE  Taken'
  <2>1. ledger' = ledger /\ argsData' = argsData /\ pc = "cached"
    BY <1>3 DEF Call
  <2>2. DOMAIN ledger' = {} /\ argsData' = {}
    BY <2>1 DEF Taken
  <2> QED BY <2>2 DEF Taken
<1>4. ASSUME NEW left, FailAt(left)
      PROVE  Taken'
  BY <1>1, <1>4 DEF FailAt, Building
<1>5. ASSUME NEW v, NEW ud, MarshalIn(v, ud)
      PROVE  Taken'
  BY <1>0, <1>5, InTaken
<1>6. ASSUME NEW v, MarshalBoth(v)
      PROVE  Taken'
  BY <1>0, <1>6, BothTaken
<1>7. ASSUME NEW possible \in BOOLEAN, MarshalOut(possible)
      PROVE  Taken'
  BY <1>0, <1>7, OutTaken
<1>8. CASE NoArgs
  <2>1. /\ pc = "in" /\ pc' = "call" /\ sig' = sig /\ cache' = cache /\ pos' = pos /\ args' = args /\ value' = value
        /\ ledger' = ledger /\ argsData' = argsData
    BY <1>8 DEF NoArgs, invars
  <2> QED BY <2>1, TakenStays
<1>9. ASSUME NEW did \in Courses, NEW ret, NEW outs, CallC(did, ret, outs)
      PROVE  Taken'
  <2>1. pc' \in {"out return", "done"}
    BY <1>9 DEF CallC, Courses, Returns, CallFails
  <2> QED BY <1>1, <2>1 DEF Building
<1>10. CASE OutReturn \/ OutArg \/ Finish
  <2>1. pc' \in {"out args", "done"}
    BY <1>10 DEF OutReturn, OutArg, Finish, BadResult
  <2> QED BY <1>1, <2>1 DEF Building
<1>11. CASE Again
  BY <1>11 DEF Again, Empty, Taken
<1>12. CASE UNCHANGED vars
  <2>1. /\ pc' = pc /\ sig' = sig /\ cache' = cache /\ pos' = pos /\ args' = args /\ value' = value
        /\ ledger' = ledger /\ argsData' = argsData
    BY <1>12 DEF vars, invars
  <2> QED BY <2>1, TakenStays
<1>13. CASE Next
  <2>1. CASE \E did \in {"returns", "throws", "not run"} : \E ret, outs : CallC(did, ret, outs)
    BY <1>9, <2>1 DEF Courses
  <2> QED BY <1>0, <1>2, <1>3, <1>5, <1>6, <1>7, <1>8, <1>10, <1>11, <1>13, <2>1, NothingTaken DEF Next
<1> QED BY <1>12, <1>13

LEMMA NextLedger ==
  ASSUME LedgerInv, ValuesOK, OutputsOK, ItemsConvert, AllCareful, [Next]_vars
  PROVE  LedgerInv'
<1>0. /\ ResultInv /\ ResultInv' /\ ArriveInv /\ Ends /\ Seats /\ Gathered /\ TypeInv
      /\ Taken /\ Taken' /\ Yielded /\ NoMisfree
  BY NextResults, NextTaken DEF LedgerInv, ResultInv, ArriveInv
<1>1. Careful(sig)
  BY <1>0 DEF AllCareful, TypeInv, Indexed
<1> SUFFICES Yielded' /\ NoMisfree'
  BY <1>0 DEF LedgerInv
<1>2. CASE CacheNext /\ UNCHANGED <<callvars, invars, outvars, args, ledger, endvars>>
  <2>1. pc \in Building /\ pc' \in Building \cup {"cached"}
    BY <1>0, <1>2 DEF CacheNext, CacheNew, CacheReturn, CacheClosure, CacheChild, CacheArg, CacheDone, Building
  <2>2. ledger' = ledger /\ DOMAIN ledger = {}
    BY <1>0, <1>2, <2>1 DEF Taken
  <2>3. pc' \notin Gathering
    BY <2>1 DEF Building, Gathering
  <2> QED BY <2>2, <2>3 DEF Yielded, NoMisfree
<1>3. ASSUME NEW c, NEW first, Call(c, first)
      PROVE  Yielded' /\ NoMisfree'
  <2>1. ledger' = ledger /\ DOMAIN ledger = {} /\ pc' \notin Gathering
    BY <1>0, <1>3 DEF Call, Taken, Gathering
  <2> QED BY <2>1 DEF Yielded, NoMisfree
<1>4. ASSUME pc = "in", Step \/ \E left : FailAt(left)
      PROVE  Yielded' /\ NoMisfree'
  BY <1>0, <1>4, StepIs, Inward, Failing
<1>5. CASE MarshalNothing
  BY <1>4, <1>5 DEF MarshalNothing
<1>6. ASSUME NEW v, NEW ud, MarshalIn(v, ud)
      PROVE  Yielded' /\ NoMisfree'
  BY <1>4, <1>6 DEF MarshalIn
<1>7. ASSUME NEW v, MarshalBoth(v)
      PROVE  Yielded' /\ NoMisfree'
  BY <1>4, <1>7 DEF MarshalBoth
<1>8. ASSUME NEW possible \in BOOLEAN, MarshalOut(possible)
      PROVE  Yielded' /\ NoMisfree'
  BY <1>4, <1>8 DEF MarshalOut
<1>9. CASE NoArgs
  BY <1>0, <1>9, Inward DEF NoArgs
<1>10. ASSUME NEW did \in Courses, NEW ret, NEW outs, CallC(did, ret, outs)
       PROVE  Yielded' /\ NoMisfree'
  <2>1. CASE did = "returns"
    BY <1>0, <1>1, <1>10, <2>1, ReturnYields
  <2>2. CASE did # "returns"
    <3>1. pc = "call" /\ \E ran : CallFails(ran)
      BY <1>10, <2>2 DEF CallC, Courses
    <3>2. NoMisfree' /\ pc' = "done"
      BY <1>0, <1>1, <3>1, CallFrees
    <3> QED BY <3>2 DEF Yielded, Gathering
  <2> QED BY <2>1, <2>2
<1>11. CASE OutReturn
  BY <1>0, <1>1, <1>11, ReturnRead
<1>12. CASE OutArg
  BY <1>0, <1>1, <1>12, ArgRead
<1>13. CASE Finish
  BY <1>0, <1>13, FinishFrees DEF Yielded, Gathering
<1>14. CASE Again
  <2>1. pc' = "cached" /\ ledger' = Empty /\ DOMAIN Empty = {}
    BY <1>14 DEF Again, Empty
  <2> QED BY <2>1 DEF Yielded, NoMisfree, Gathering
<1>15. CASE UNCHANGED vars
  <2>1. /\ pc' = pc /\ sig' = sig /\ cache' = cache /\ pos' = pos /\ ledger' = ledger /\ outVals' = outVals
    BY <1>15 DEF vars, outvars
  <2>2. /\ \A i : Allocated(i)' = Allocated(i) /\ Out(i)' = Out(i) /\ Unread(i)' = Unread(i)
        /\ \A i, part : Share(i, part)' = Share(i, part) /\ Reclaimed(i, part)' = Reclaimed(i, part)
    BY <2>1 DEF Allocated, Share, Reclaimed, Out, OutSlot, Unread
  <2>3. \A i, part : Offered(i, part)' = Offered(i, part)
    BY <2>1, <2>2 DEF Offered
  <2>4. Yielded'
    BY <1>0, <2>1, <2>2, <2>3 DEF Yielded
  <2>5. NoMisfree'
    BY <1>0, <2>1, <2>2 DEF NoMisfree
  <2> QED BY <2>4, <2>5
<1>16. CASE Next
  <2>1. CASE \E did \in {"returns", "throws", "not run"} : \E ret, outs : CallC(did, ret, outs)
    BY <1>10, <2>1 DEF Courses
  <2> QED BY <1>2, <1>3, <1>5, <1>6, <1>7, <1>8, <1>9, <1>11, <1>12, <1>13, <1>14, <1>16, <2>1 DEF Next
<1> QED BY <1>15, <1>16

LEMMA InitLedger ==
  ASSUME Init
  PROVE  LedgerInv
<1>1. ResultInv
  BY InitResults
<1>2. pc = "no cache" /\ argsData = {} /\ ledger = Empty
  BY DEF Init, InitCache
<1>3. DOMAIN ledger = {}
  BY <1>2 DEF Empty
<1> QED BY <1>1, <1>2, <1>3 DEF LedgerInv, Taken, Yielded, NoMisfree, Gathering

(***************************************************************************)
(* Nothing is given back twice, or by one who does not own it, by the      *)
(* cleanup of any callable whose annotations are among those it gets right *)
(* (AllCareful), if the items of each C array have a Python form, however  *)
(* the call ends and however often it is made.  (pygi-marshal-cleanup.c)   *)
(***************************************************************************)
THEOREM NeverMisfreedAlways ==
  ASSUME ValuesOK, OutputsOK, ItemsConvert, AllCareful
  PROVE  Spec => []NeverMisfreed
<1>1. Init => LedgerInv
  BY InitLedger
<1>2. LedgerInv /\ [Next]_vars => LedgerInv'
  BY NextLedger
<1>3. LedgerInv => NeverMisfreed
  BY DEF LedgerInv, NoMisfree, NeverMisfreed, Range
<1> QED BY <1>1, <1>2, <1>3, PTL DEF Spec

LEMMA Zero == Rank("0") \in Int
<1>1. Points[10] = "0"
  BY DEF Points
<1>2. 10 \in DOMAIN Points /\ DOMAIN Points \subseteq Int
  BY DEF Points
<1>3. "0" \in Range(Points)
  BY <1>1, <1>2 DEF Range
<1> DEFINE P(n) == Points[n] = "0"
<1>4. Rank("0") = CHOOSE n \in DOMAIN Points : P(n)
  BY <1>3 DEF Rank, Ranks
<1>5. P(10)
  BY <1>1
<1> HIDE DEF P
<1>6. (CHOOSE n \in DOMAIN Points : P(n)) \in DOMAIN Points
  BY <1>2, <1>5
<1> QED BY <1>2, <1>4, <1>6

\* The items that have taken something are among those that the cleanup finds.
LEMMA ItemKnown ==
  ASSUME ValuesOK, PlainValues, NEW e, NEW v, v \in Inputs(e), Findable(e), e.len \in Int, NEW part, HoldsItem(e, v, part),
         Holds(e, v, part), e.tag = "array" /\ e.atype = "C" => e.transfer # "everything"
  PROVE  part <= KnownItems(e, v)
<1>1. v.items \in Seq(Range(v.items)) /\ part \in 1 .. Len(v.items)
  BY DEF ValuesOK, HoldsItem
<1>2. CASE ~(e.tag = "array" /\ e.atype = "C")
  BY <1>1, <1>2 DEF KnownItems
<1>3. CASE e.tag = "array" /\ e.atype = "C"
  <2>1. e.transfer # "everything"
    BY <1>3
  <2>2. e.item \in Copies
    BY <2>1 DEF HoldsItem, HoldsSelf, ItemTransfer
  <2>3. e.fixed \in Int /\ (e.fixed >= 0 \/ e.len >= 0 \/ e.zero)
    BY <1>3, <2>1, <2>2 DEF Findable
  <2>4. v.py # "bytes"
    BY <1>3, <2>2 DEF PlainValues, PlainFor, Copies
  <2>5. e.fixed >= 0 => e.fixed = Len(v.items)
    <3>1. Rank("0") + Len(v.items) = Rank("0") + e.fixed \/ e.fixed < 0
      BY <1>3, <2>4 DEF Holds, FixedSizeOk, LengthOf, RankOf
    <3> QED BY <1>1, <2>3, <3>1, Zero
  <2>6. e.zero => {k \in DOMAIN v.items : v.items[k].py = "none"} = {}
    BY <1>3 DEF PlainValues, PlainFor
  <2>7. WrapLength(e, v) = Len(v.items)
    <3>1. CASE e.fixed >= 0
      BY <2>3, <2>5, <3>1 DEF WrapLength
    <3>2. CASE ~(e.fixed >= 0)
      <4>1. e.fixed < 0 /\ (e.len >= 0 \/ e.zero) /\ (e.zero \/ e.len \notin Int \/ ~(e.len < 0))
        BY <2>3, <3>2
      <4>2. ~(e.zero /\ {k \in DOMAIN v.items : v.items[k].py = "none"} # {})
        BY <2>6
      <4> QED BY <3>2, <4>1, <4>2 DEF WrapLength
    <3> QED BY <3>1, <3>2
  <2> QED BY <1>1, <1>3, <2>7 DEF KnownItems
<1> QED BY <1>2, <1>3

\* What an argument holds, its cleanup gives back when another one cannot be marshalled.
LEMMA HeldFreed ==
  ASSUME ValuesOK, PlainValues, NEW e, NEW v, v \in Inputs(e), Findable(e), e.len \in Int, NEW part,
         Holds(e, v, part), Cleanable(e), e.tag \in Containers /\ e.transfer = "everything" => e.item # "boxed"
  PROVE  FromPyFrees(e, part, TRUE, TRUE, v)
<1>1. v.items \in Seq(Range(v.items))
  BY DEF ValuesOK
<1>2. CASE part = Data
  <2>1. ~HoldsItem(e, v, part)
    BY <1>1, <1>2 DEF HoldsItem, Data
  <2>2. e.tag \in Containers \cup {"callback"} \/ HoldsSelf(e.tag, e.transfer)
    BY <2>1 DEF Holds
  <2>3. CASE e.tag = "array"
    BY <1>2, <2>3 DEF Cleanable, FromPyFrees, FromArrayFreed
  <2>4. CASE e.tag \in Lists
    BY <1>2, <2>4 DEF Lists, FromPyFrees, FromListFreed, FromHashFreed
  <2>5. CASE e.tag \notin Containers
    <3>1. FromPyFrees(e, part, TRUE, TRUE, v) = ScalarFromFrees(e, TRUE, TRUE, v)
      BY <1>2, <2>5 DEF Containers, FromPyFrees
    <3>2. e.tag = "gvalue" => v.py # "gvalue"
      BY DEF PlainValues, PlainFor
    <3>3. ScalarFromFrees(e, TRUE, TRUE, v)
      <4>1. \/ e.tag \in {"utf8", "filename"}
            \/ e.tag = "gvalue"
            \/ e.tag = "object" /\ e.transfer = "everything"
            \/ e.tag = "callback" /\ e.scope = "call"
        BY <2>2, <2>5 DEF HoldsSelf, Copies, Cleanable, Containers
      <4> QED BY <3>2, <4>1 DEF ScalarFromFrees
    <3> QED BY <3>1, <3>3
  <2> QED BY <2>3, <2>4, <2>5 DEF Containers, Lists
<1>3. CASE part # Data
  <2>1. HoldsItem(e, v, part)
    BY <1>3 DEF Holds
  <2>2. part <= KnownItems(e, v)
    <3>1. e.tag = "array" /\ e.atype = "C" => e.transfer # "everything"
      BY DEF Cleanable
    <3> QED BY <2>1, <3>1, ItemKnown
  <2>3. PICK f : f = ItemCache(e)
    OBVIOUS
  <2>4. f.tag = e.item /\ f.transfer = ItemTransfer(e.transfer)
    BY <2>3 DEF ItemCache, Blank
  <2>5. e.item = "gvalue" => v.items[part].py # "gvalue"
    BY <2>1 DEF HoldsItem, PlainValues, PlainFor
  <2>6. \/ f.tag \in {"utf8", "filename"}
        \/ f.tag = "gvalue" /\ v.items[part].py # "gvalue"
        \/ f.tag = "object" /\ f.transfer = "everything"
    BY <2>1, <2>4, <2>5 DEF HoldsItem, HoldsSelf, Copies, ItemTransfer
  <2>7. ScalarFromFrees(f, TRUE, TRUE, v.items[part])
    BY <2>6 DEF ScalarFromFrees
  <2>8. FromPyFrees(e, part, TRUE, TRUE, v) <=> FromItemFreed(e, part, TRUE, TRUE, v)
    BY <1>3 DEF FromPyFrees
  <2> QED BY <2>2, <2>3, <2>7, <2>8 DEF FromItemFreed
<1> QED BY <1>2, <1>3

LEMMA FailReleases ==
  ASSUME ResultInv, Taken, ValuesOK, PlainValues, AllRecoverable, pc = "in", NEW left, FailAt(left),
         sig' = sig, cache' = cache
  PROVE  FailureReleases'
<1>0. /\ TypeInv /\ Arriving /\ Seats /\ sig \in Sigs /\ Regular(sig) /\ CacheOK(sig, cache, Count(sig))
      /\ pos \in Int
  BY SigsAssumption DEF ResultInv, ArriveInv, TypeInv, Indexed, Calling
<1>1. PICK led : led = Blocks("in", pos, left, "ours") ++ ledger
  OBVIOUS
<1>2. \A b \in DOMAIN led : /\ led[b] = "ours"
                            /\ b \in DOMAIN ledger \/ (b[1] = "in" /\ b[2] = pos)
  BY <1>1, BlocksAre DEF Taken
<1>3. ledger' = ParameterFail(led, pos) /\ failedAt' = pos
  BY <1>1 DEF FailAt
<1>4. DOMAIN ledger' = DOMAIN led /\ \A b \in DOMAIN led : ledger'[b] \in {"ours", "freed"}
  BY <1>2, <1>3 DEF ParameterFail, Free
<1>5. ASSUME NEW b \in DOMAIN led, b[1] = "out"
      PROVE  ledger'[b] = "freed"
  <2>1. b \in DOMAIN ledger /\ b[2] \in ArgsOf(sig) /\ b[2] < pos /\ Allocated(b[2])
    BY <1>2, <1>5 DEF Taken
  <2>2. PICK j : j = b[2]
    OBVIOUS
  <2>3. j \in Numbers(sig) /\ j \in Nat
    BY <1>0, <2>1, <2>2, Ways
  <2>4. args[j] = Slot("alloc", OutSlot(j)) /\ outArgs[OutSlot(j)] = [k |-> "own", n |-> j]
    BY <1>0, <2>1, <2>2, <2>3 DEF Seats, Seated, Allocated, ToPython
  <2>5. Target(j) # Null
    BY <2>4, Kinds DEF Target, Slot
  <2>6. /\ j \in 0 .. pos - 1 /\ cache.args[j].dir # "from" /\ cache.args[j].caller
        /\ CallerFrees(cache.args[j], FALSE)
    BY <1>0, <2>1, <2>2, <2>3 DEF Allocated, CallerFrees
  <2>7. ledger'[b] = Free(led[b])
    BY <1>3, <2>2, <2>5, <2>6 DEF ParameterFail
  <2> QED BY <1>2, <2>7 DEF Free
<1>6. ASSUME NEW b \in DOMAIN led, b[1] = "in", b[2] < pos - 1, SigArg(b[2]).dir = "in",
             Cleanable(cache.args[b[2]])
      PROVE  ledger'[b] = "freed"
  <2>1. PICK j, e : j = b[2] /\ e = cache.args[j]
    OBVIOUS
  <2>2. b \in DOMAIN ledger /\ Held(j, b[3])
    <3>1. b[2] # pos
      BY <1>0, <1>6
    <3> QED BY <1>2, <1>6, <2>1, <3>1 DEF Taken
  <2>3. /\ j \in ArgsOf(sig) /\ j \in Numbers(sig) /\ j \in Nat /\ e.meta = "parent"
        /\ value[j] \in Inputs(e) /\ Holds(e, value[j], b[3])
    BY <1>0, <2>1, <2>2, Ways DEF Held
  <2>4. WayOf(sig, j) = "from" /\ e.dir = "from"
    <3>1. WayOf(sig, j) = "from"
      BY <1>0, <1>6, <2>1, <2>3, SigArgIs, Ready
    <3> QED BY <1>0, <2>1, <2>3, <3>1, Ready
  <2>5. Described(sig, j, e) /\ Swept(sig, j, e)
    BY <1>0, <2>1, <2>3, Ready DEF Placed
  <2>6. /\ Findable(e) /\ e.len \in Int
        /\ e.tag \in Containers /\ e.transfer = "everything" => e.item # "boxed"
    <3>1. PICK a : a = ArgOf(sig, j)
      OBVIOUS
    <3>2. /\ Findable(a) /\ (a.tag \in Containers /\ a.transfer = "everything" => a.item # "boxed")
          /\ a.len \in Int /\ Offset(sig.ftype) \in {0, 1}
      BY <1>0, <2>3, <2>4, <3>1, Ways DEF AllRecoverable, Recoverable, Regular
    <3>3. /\ e.tag = a.tag /\ e.transfer = a.transfer /\ e.item = a.item /\ e.atype = a.atype
          /\ e.fixed = a.fixed /\ e.zero = a.zero /\ e.len = IF a.len >= 0 THEN a.len + Offset(sig.ftype) ELSE -1
      BY <2>5, <3>1 DEF Described
    <3>4. e.len \in Int /\ (a.len >= 0 => e.len >= 0)
      BY <3>2, <3>3
    <3> QED BY <3>2, <3>3, <3>4 DEF Findable
  <2>7. FromPyFrees(e, b[3], TRUE, TRUE, value[j])
    BY <1>6, <2>1, <2>3, <2>6, HeldFreed
  <2>8. e.fromClean
    BY <1>6, <2>1, <2>4, <2>5 DEF Swept, Described, HasFromCleanup, FromPython, Cleanable
  <2>9. Target(j) # Null
    <3>1. args[j] = Slot("in", InSlot(j))
      BY <2>1, <2>2, <2>4 DEF Held
    <3>2. Filled(j)
      BY <1>0, <1>6, <2>1, <2>3 DEF Arriving
    <3>3. Fits(e, value[j], inArgs[InSlot(j)], j)
      BY <2>1, <2>3, <2>4, <3>2 DEF Filled, Carries
    <3>4. inArgs[InSlot(j)] # Null
      BY <2>3, <3>3 DEF Fits, Holds
    <3> QED BY <3>1, <3>4 DEF Target, At, Slot
  <2>10. j \in 0 .. pos - 1 /\ (j < pos - 1) = TRUE
    BY <1>0, <1>6, <2>1, <2>3
  <2>11. ledger'[b] = Free(led[b])
    BY <1>3, <1>6, <2>1, <2>4, <2>7, <2>8, <2>9, <2>10 DEF ParameterFail
  <2> QED BY <1>2, <2>11 DEF Free
<1>7. \A j : SigArg(j)' = SigArg(j)
  BY DEF SigArg
<1> QED BY <1>3, <1>4, <1>5, <1>6, <1>7 DEF FailureReleases

LEMMA NextRecovers ==
  ASSUME FailureInv, ValuesOK, OutputsOK, PlainValues, AllRecoverable, [Next]_vars
  PROVE  FailureInv'
<1>0. ResultInv /\ Taken /\ Recovery /\ ResultInv' /\ Taken'
  BY NextResults, NextTaken DEF FailureInv
<1> SUFFICES Recovery'
  BY <1>0 DEF FailureInv
<1>1. pc # "done" /\ outcome' = outcome => Recovery'
  BY <1>0 DEF Recovery
<1>2. outcome' # "bad argument" => Recovery'
  BY DEF Recovery
<1>3. CASE CacheNext /\ UNCHANGED <<callvars, invars, outvars, args, ledger, endvars>>
  BY <1>1, <1>3 DEF CacheNext, CacheNew, CacheReturn, CacheClosure, CacheChild, CacheArg, CacheDone, endvars
<1>4. ASSUME NEW c, NEW first, Call(c, first)
      PROVE  Recovery'
  BY <1>1, <1>2, <1>4 DEF Call
<1>5. pc = "in" /\ Step /\ UNCHANGED endvars => Recovery'
  BY <1>1 DEF endvars
<1>6. ASSUME pc = "in", NEW left, FailAt(left), sig' = sig, cache' = cache
      PROVE  Recovery'
  <2>1. FailureReleases' /\ pc' = "done"
    BY <1>0, <1>6, FailReleases DEF FailAt
  <2> QED BY <2>1 DEF Recovery
<1>7. CASE MarshalNothing
  BY <1>5, <1>7 DEF MarshalNothing
<1>8. ASSUME NEW v, NEW ud, MarshalIn(v, ud)
      PROVE  Recovery'
  BY <1>5, <1>6, <1>8 DEF MarshalIn
<1>9. ASSUME NEW v, MarshalBoth(v)
      PROVE  Recovery'
  BY <1>5, <1>6, <1>9 DEF MarshalBoth
<1>10. ASSUME NEW possible \in BOOLEAN, MarshalOut(possible)
       PROVE  Recovery'
  BY <1>5, <1>6, <1>10 DEF MarshalOut
<1>11. CASE NoArgs
  BY <1>1, <1>11 DEF NoArgs, endvars
<1>12. ASSUME NEW did \in Courses, NEW ret, NEW outs, CallC(did, ret, outs)
       PROVE  Recovery'
  BY <1>1, <1>2, <1>12 DEF CallC, Courses, Returns, CallFails
<1>13. CASE OutReturn
  <2>1. pc = "out return" /\ outcome' \in {outcome, "bad result"}
    BY <1>13 DEF OutReturn, BadResult
  <2> QED BY <1>1, <1>2, <2>1
<1>14. CASE OutArg
  <2>1. pc = "out args" /\ outcome' \in {outcome, "bad result"}
    BY <1>14 DEF OutArg, BadResult
  <2> QED BY <1>1, <1>2, <2>1
<1>15. CASE Finish \/ Again
  BY <1>2, <1>15 DEF Finish, Again
<1>16. CASE UNCHANGED vars
  <2>1. pc' = pc /\ outcome' = outcome
    BY <1>16 DEF vars, endvars
  <2>2. FailureReleases' <=> FailureReleases
    BY <1>16 DEF vars, endvars, FailureReleases, SigArg, Offset
  <2> QED BY <1>0, <2>1, <2>2 DEF Recovery
<1>17. CASE Next
  <2>1. CASE \E did \in {"returns", "throws", "not run"} : \E ret, outs : CallC(did, ret, outs)
    BY <1>12, <2>1 DEF Courses
  <2> QED BY <1>3, <1>4, <1>7, <1>8, <1>9, <1>10, <1>11, <1>13, <1>14, <1>15, <1>17, <2>1 DEF Next
<1> QED BY <1>16, <1>17

(***************************************************************************)
(* When an argument cannot be marshalled, what those before it took is     *)
(* given back, and all that was allocated for the callee, for callables    *)
(* whose C arrays can be searched for their items (AllRecoverable) and     *)
(* values that are cleaned up like what they were made of (PlainValues).   *)
(* (pygi_marshal_cleanup_args_from_py_parameter_fail)                      *)
(***************************************************************************)
THEOREM FailureReleasesAlways ==
  ASSUME ValuesOK, OutputsOK, PlainValues, AllRecoverable
  PROVE  Spec => []FailureReleases
<1>1. Init => FailureInv
  <2> SUFFICES ASSUME Init PROVE FailureInv
    OBVIOUS
  <2>1. ResultInv
    BY InitResults
  <2>2. pc = "no cache" /\ argsData = {} /\ DOMAIN ledger = {} /\ outcome = "none"
    BY DEF Init, InitCache, Empty
  <2> QED BY <2>1, <2>2 DEF FailureInv, Taken, Recovery
<1>2. FailureInv /\ [Next]_vars => FailureInv'
  BY NextRecovers
<1>3. FailureInv => FailureReleases
  BY DEF FailureInv, Recovery, FailureReleases
<1> QED BY <1>1, <1>2, <1>3, PTL DEF Spec

-----------------------------------------------------------------------------
(* What is left of the caller's after a call that returns *)

\* What the callee has not taken over is given back after the call.
LEMMA HeldSettled ==
  ASSUME ValuesOK, PlainValues, NEW e, NEW v, v \in Inputs(e), Findable(e), e.len \in Int, NEW part,
         Holds(e, v, part), ~Takes(e, part), e.tag = "array" => e.transfer \in {"nothing", "container", "everything"}
  PROVE  HasFromCleanup(e.tag) /\ FromPyFrees(e, part, TRUE, FALSE, v)
<1>1. v.items \in Seq(Range(v.items))
  BY DEF ValuesOK
<1>2. e.transfer # "everything"
  BY DEF Takes
<1>3. e.tag \in Containers \cup Copies \cup {"callback"}
  BY <1>2 DEF Holds, HoldsItem, HoldsSelf
<1>4. HasFromCleanup(e.tag)
  BY <1>3 DEF HasFromCleanup, Containers, Copies
<1>5. CASE part = Data
  <2>1. e.transfer # "container"
    BY <1>5 DEF Takes
  <2>2. CASE e.tag = "array"
    BY <1>2, <1>4, <1>5, <2>1, <2>2 DEF FromPyFrees, FromArrayFreed
  <2>3. CASE e.tag \in Lists
    BY <1>2, <1>4, <1>5, <2>3 DEF Lists, FromPyFrees, FromListFreed, FromHashFreed
  <2>4. CASE e.tag \notin Containers
    <3>1. FromPyFrees(e, part, TRUE, FALSE, v) = ScalarFromFrees(e, TRUE, FALSE, v)
      BY <1>5, <2>4 DEF Containers, FromPyFrees
    <3>2. e.tag = "gvalue" => v.py # "gvalue"
      BY DEF PlainValues, PlainFor
    <3>3. e.tag = "callback" => e.scope = "call"
      BY DEF Takes
    <3>4. e.tag \in {"utf8", "filename", "gvalue", "callback"}
      BY <1>3, <2>4 DEF Copies
    <3>5. ScalarFromFrees(e, TRUE, FALSE, v)
      BY <3>2, <3>3, <3>4 DEF ScalarFromFrees
    <3> QED BY <1>4, <3>1, <3>5
  <2> QED BY <2>2, <2>3, <2>4 DEF Containers, Lists
<1>6. CASE part # Data
  <2>1. HoldsItem(e, v, part)
    BY <1>6 DEF Holds
  <2>2. part <= KnownItems(e, v)
    BY <1>2, <2>1, ItemKnown
  <2>3. PICK f : f = ItemCache(e)
    OBVIOUS
  <2>4. f.tag = e.item
    BY <2>3 DEF ItemCache, Blank
  <2>5. e.item \in Copies
    BY <1>2, <2>1 DEF HoldsItem, HoldsSelf, ItemTransfer
  <2>6. e.item = "gvalue" => v.items[part].py # "gvalue"
    BY <2>1 DEF HoldsItem, PlainValues, PlainFor
  <2>7. ScalarFromFrees(f, TRUE, FALSE, v.items[part])
    BY <2>4, <2>5, <2>6 DEF ScalarFromFrees, Copies
  <2>8. FromPyFrees(e, part, TRUE, FALSE, v) <=> FromItemFreed(e, part, TRUE, FALSE, v)
    BY <1>6 DEF FromPyFrees
  <2>9. FromPyFrees(e, part, TRUE, FALSE, v)
    BY <2>2, <2>3, <2>7, <2>8 DEF FromItemFreed
  <2> QED BY <1>4, <2>9
<1> QED BY <1>5, <1>6

\* Nothing that went in is ours when the call returns.
LEMMA CalleeHas ==
  ASSUME ResultInv, Taken, ValuesOK, PlainValues, Tidy(sig), pc = "call", NEW b \in DOMAIN ledger, b[1] = "in"
  PROVE  MarshalSuccess(HandOver(ledger))[b] # "ours"
<1>0. /\ Arriving /\ CallbacksIn /\ Regular(sig) /\ CacheOK(sig, cache, Count(sig)) /\ pos = cache.n
      /\ cache.n = Count(sig)
  BY SigsAssumption DEF ResultInv, ArriveInv, TypeInv, Indexed, Calling, Arriving
<1>1. PICK i, part, e, v : i = b[2] /\ part = b[3] /\ e = cache.args[i] /\ v = value[i]
  OBVIOUS
<1>2. ledger[b] = "ours" /\ Held(i, part) /\ (StaysOurs(e) => i \in argsData)
  BY <1>1 DEF Taken
<1>3. /\ i \in Numbers(sig) /\ i \in ArgsOf(sig) /\ Described(sig, i, e)
      /\ e.dir = WayOf(sig, i) /\ e.dir \in {"from", "both"} /\ Holds(e, v, part)
  BY <1>0, <1>1, <1>2, HeldEntry
<1>4. v \in Inputs(e) /\ e.meta = "parent" /\ (e.dir = "from" => args[i] = Slot("in", InSlot(i))) /\ i < pos
  BY <1>1, <1>2 DEF Held
<1>5. e.fromClean <=> HasFromCleanup(e.tag)
  <2>1. Swept(sig, i, e)
    BY <1>0, <1>1, <1>3, <1>4, Ready DEF Placed
  <2>2. e.tag = ArgOf(sig, i).tag
    BY <1>3 DEF Described
  <2> QED BY <1>3, <2>1, <2>2 DEF Swept, FromPython
<1>6. PICK led : led = HandOver(ledger)
  OBVIOUS
<1>7. DOMAIN led = DOMAIN ledger /\ led[b] = IF Takes(e, part) THEN "theirs" ELSE "ours"
  BY <1>1, <1>2, <1>6 DEF HandOver
<1>8. /\ e.fromClean
      /\ IF e.dir = "both" THEN i \in argsData ELSE At(args[i]) # Null
      /\ FromPyFrees(e, part, TRUE, FALSE, v)
      => MarshalSuccess(led)[b] = Free(led[b])
  BY <1>1, <1>7 DEF MarshalSuccess
<1>9. MarshalSuccess(led)[b] \in {Free(led[b]), led[b]}
  BY <1>7 DEF MarshalSuccess
<1>10. CASE Takes(e, part)
  BY <1>6, <1>7, <1>9, <1>10 DEF Free
<1>11. CASE ~Takes(e, part)
  <2>1. PICK a : a = ArgOf(sig, i)
    OBVIOUS
  <2>2. /\ Findable(a) /\ (a.tag = "array" => a.transfer \in {"nothing", "container", "everything"})
        /\ e.dir = "both" /\ a.tag \in Copies \cup Containers => a.transfer = "everything" \/ StaysOurs(a)
        /\ a.len \in Int /\ Offset(sig.ftype) \in {0, 1}
    BY <1>0, <1>3, <2>1, Ways DEF Tidy, TidyIn, Regular, FromPython
  <2>3. /\ e.tag = a.tag /\ e.transfer = a.transfer /\ e.item = a.item /\ e.atype = a.atype
        /\ e.fixed = a.fixed /\ e.zero = a.zero /\ e.len = IF a.len >= 0 THEN a.len + Offset(sig.ftype) ELSE -1
    BY <1>3, <2>1 DEF Described
  <2>4. e.len \in Int /\ (a.len >= 0 => e.len >= 0)
    BY <2>2, <2>3
  <2>5. Findable(e)
    BY <2>2, <2>3, <2>4 DEF Findable
  <2>6. HasFromCleanup(e.tag) /\ FromPyFrees(e, part, TRUE, FALSE, v)
    BY <1>3, <1>4, <1>11, <2>2, <2>3, <2>4, <2>5, HeldSettled
  <2>7. CASE e.dir = "both"
    <3>1. e.tag # "callback"
      BY <1>0, <1>3, <2>1, <2>3, <2>7 DEF CallbacksIn, Calling
    <3>2. e.transfer # "everything"
      BY <1>11 DEF Takes
    <3>3. e.tag \in Copies \cup Containers
      BY <1>3, <3>1, <3>2 DEF Holds, HoldsItem, HoldsSelf
    <3>4. StaysOurs(e)
      BY <2>2, <2>3, <2>7, <3>2, <3>3 DEF StaysOurs
    <3>5. MarshalSuccess(led)[b] = Free(led[b])
      BY <1>2, <1>5, <1>8, <2>6, <2>7, <3>4
    <3> QED BY <1>6, <1>7, <1>11, <3>5 DEF Free
  <2>8. CASE e.dir = "from"
    <3>1. At(args[i]) = inArgs[InSlot(i)]
      BY <1>4, <2>8 DEF At, Slot
    <3>2. Filled(i)
      BY <1>0, <1>3, <1>4 DEF Arriving
    <3>3. Fits(e, v, inArgs[InSlot(i)], i)
      BY <1>1, <1>4, <2>8, <3>2 DEF Filled, Carries
    <3>4. inArgs[InSlot(i)] # Null
      BY <1>3, <3>3 DEF Fits, Holds
    <3>5. MarshalSuccess(led)[b] = Free(led[b])
      BY <1>5, <1>8, <2>6, <2>8, <3>1, <3>4
    <3> QED BY <1>6, <1>7, <1>11, <3>5 DEF Free
  <2> QED BY <1>3, <2>7, <2>8
<1> QED BY <1>10, <1>11

-----------------------------------------------------------------------------
(* What has come back is read, or it is nobody's *)

LEMMA NoPlace ==
  ASSUME NEW a, NEW cv, cv.items \in Nat
  PROVE  Place \notin Parts(a, cv)
BY DEF Parts, Place, Data

\* What has parts that somebody owns is on the list.
LEMMA OnList ==
  ASSUME Regular(sig), CacheOK(sig, cache, Count(sig)), EndsOK(sig, cache, Count(sig)), Careful(sig), Tidy(sig),
         NEW i \in ArgsOf(sig) \cup {-1}, ToPython(WayOf(sig, i)), NEW part, Offered(i, part)
  PROVE  i \in Range(cache.toPy) \cup {-1}
<1> SUFFICES ASSUME i # -1 PROVE i \in Range(cache.toPy)
  OBVIOUS
<1>1. i \in ArgsOf(sig) /\ i \in Numbers(sig) /\ i \in DOMAIN cache.args /\ i < Count(sig)
  BY Ready, Ways DEF Numbers
<1>2. ~Lengthed(sig, Count(sig), i)
  <2> SUFFICES ASSUME Lengthed(sig, Count(sig), i) PROVE FALSE
    OBVIOUS
  <2>1. PICK k \in ArgsOf(sig) \cup {-1} : HasLengthArg(sig, k) /\ i = LengthAt(sig, k)
    BY DEF Lengthed
  <2>2. LengthRegular(sig, k, i)
    BY <2>1 DEF Regular
  <2>3. WayOf(sig, i) = WayOf(sig, k) /\ ArgOf(sig, i).tag \notin Interfaces \cup {"array"}
    BY <2>2 DEF LengthRegular
  <2>4. ~OwnedTag(ArgOf(sig, i).tag)
    BY <2>1, <2>3 DEF Tidy, TidyOut
  <2>5. ~OwnedTag(ArgOf(sig, i).item)
    <3>1. ArgOf(sig, i).tag \notin Containers
      BY <2>4 DEF OwnedTag, HasToCleanup, Containers
    <3> QED BY <3>1 DEF Careful
  <2>6. Parts(ArgOf(sig, i), Out(i)) = {}
    BY <2>4, <2>5 DEF Parts
  <2>7. ~Allocated(i)
    BY <1>1, <2>3 DEF Allocated, EndsOK, Structured
  <2> QED BY <2>6, <2>7 DEF Offered
<1>3. i \in Results(sig, Count(sig))
  BY <1>1, <1>2 DEF Results, ToOnes
<1>4. PICK q : q = cache.toPy
  OBVIOUS
<1>5. Listing(q, Results(sig, Count(sig)))
  BY <1>4 DEF EndsOK
<1>6. PICK k \in 1 .. Len(q) : q[k] = i
  BY <1>3, <1>5 DEF Listing
<1>7. k \in DOMAIN q
  BY <1>5 DEF Listing
<1>8. i \in Range(q)
  BY ONLY <1>6, <1>7 DEF Range
<1> QED BY ONLY <1>4, <1>8

\* The items of a container that was given away are taken over.
LEMMA ItemsTaken ==
  ASSUME NEW e, e.transfer = "everything", e.item \in {"object", "boxed"},
         NEW cv, {"k", "n"} \subseteq DOMAIN cv, cv.k = "ptr", cv.items \in Nat, cv.n < 0, NEW k \in 1 .. cv.items
  PROVE  k \in Stolen(e, cv)
<1>1. PICK it, whole : it = ItemCache(e) /\ whole = [cv EXCEPT !.n = -1]
  OBVIOUS
<1>2. it.tag = e.item /\ it.transfer = "everything"
  BY <1>1 DEF ItemCache, ItemTransfer, Blank
<1>3. whole.k = "ptr" /\ whole.n = -1
  BY <1>1
<1>4. Data \in ScalarToPy(it, whole).steals
  <2>1. Data \in Made({Data}).steals
    BY DEF Made
  <2>2. CASE e.item = "object"
    <3>1. ScalarToPy(it, whole) = ObjectToPy(it, whole)
      BY <1>2, <2>2 DEF ScalarToPy
    <3>2. ObjectToPy(it, whole) = Made({Data})
      BY <1>2, <1>3 DEF ObjectToPy
    <3> QED BY <2>1, <3>1, <3>2
  <2>3. CASE e.item = "boxed"
    <3>1. ScalarToPy(it, whole) = StructToPy(it, whole)
      BY <1>2, <2>3 DEF ScalarToPy
    <3>2. StructToPy(it, whole) = Made({Data})
      BY <1>2, <1>3, <2>3 DEF StructToPy, FailedIf, Data
    <3> QED BY <2>1, <3>1, <3>2
  <2> QED BY <2>2, <2>3
<1> QED BY <1>1, <1>4 DEF Stolen, Converted

LEMMA OwnedPart ==
  ASSUME NEW a, NEW cv, NEW part \in Parts(a, cv)
  PROVE  /\ cv.k = "ptr"
         /\ (part = Data /\ OwnedTag(a.tag)) \/ (part \in 1 .. cv.items /\ OwnedTag(a.item))
BY DEF Parts

LEMMA GivenAway ==
  ASSUME NEW a, NEW part, Gives(a, part) = "ours"
  PROVE  a.transfer = "everything" \/ (a.transfer = "container" /\ part = Data)
BY DEF Gives

\* What was given away is taken over by the Python value or given back after it has been made.
LEMMA Disposed ==
  ASSUME NEW a, NEW e, e.tag = a.tag, e.transfer = a.transfer, e.item = a.item, e.toClean <=> HasToCleanup(a.tag),
         a.tag \notin Containers => ~OwnedTag(a.item),
         a.transfer = "container" => ~OwnedTag(a.tag) \/ a.tag = "array",
         a.transfer = "everything" =>
           a.tag # "foreign" /\ (a.tag \in Containers \ {"ghash"} => a.item \notin Containers \cup {"foreign"}),
         NEW cv, {"k", "n"} \subseteq DOMAIN cv, cv.n \in Int, cv.items \in Nat,
         NEW part \in Parts(a, cv), Gives(a, part) = "ours",
         NEW lengthTag, NEW r, r = ToPyMarshal(e, cv, lengthTag), r.ok
  PROVE  part \in r.steals \/ (e.toClean /\ ToPyFrees(e, part, TRUE))
<1>1. /\ cv.k = "ptr"
      /\ (part = Data /\ OwnedTag(e.tag)) \/ (part \in 1 .. cv.items /\ OwnedTag(e.item))
  BY OwnedPart
<1>2. e.transfer = "everything" \/ (e.transfer = "container" /\ part = Data)
  BY GivenAway
<1>3. Data \notin 1 .. cv.items
  BY DEF Data
<1>4. ~Failed.ok /\ \A s : Made(s).steals = s
  BY DEF Failed, Made
<1>5. CASE e.tag \notin Containers
  <2>1. part = Data /\ OwnedTag(e.tag) /\ e.tag # "array"
    BY <1>1, <1>5 DEF Containers
  <2>2. e.transfer = "everything" /\ e.tag # "foreign"
    BY <1>2, <2>1
  <2>3. e.tag \in {"utf8", "filename", "object", "boxed"}
    BY <1>5, <2>1, <2>2 DEF OwnedTag, HasToCleanup, Containers
  <2>4. r = ScalarToPy(e, cv) /\ ToPyFrees(e, part, TRUE) = ScalarToFrees(e, TRUE)
    BY <1>5 DEF ToPyMarshal, ToPyFrees, Containers
  <2>5. CASE e.tag \in {"utf8", "filename"}
    <3>1. e.toClean
      BY <2>5 DEF HasToCleanup
    <3>2. ScalarToFrees(e, TRUE)
      BY <2>2, <2>5 DEF ScalarToFrees
    <3> QED BY <2>4, <3>1, <3>2
  <2>6. CASE e.tag = "object"
    <3>1. r = ObjectToPy(e, cv)
      BY <2>4, <2>6 DEF ScalarToPy
    <3>2. r = Made({Data})
      BY <1>1, <2>2, <3>1 DEF ObjectToPy
    <3> QED BY <1>4, <2>1, <3>2
  <2>7. CASE e.tag = "boxed"
    <3>1. r = StructToPy(e, cv)
      BY <2>4, <2>7 DEF ScalarToPy
    <3>2. r \in {Failed, Made({Data})}
      BY <1>1, <2>2, <2>7, <3>1 DEF StructToPy, FailedIf
    <3> QED BY <1>4, <2>1, <3>2
  <2> QED BY <2>3, <2>5, <2>6, <2>7
<1>6. CASE e.tag \in Containers
  <2>1. e.toClean
    BY <1>6 DEF HasToCleanup, Containers
  <2>2. CASE part = Data
    <3>1. e.tag # "array" => e.transfer = "everything"
      BY <1>1, <1>2, <1>6 DEF OwnedTag, HasToCleanup, Containers
    <3>2. ToPyFrees(e, part, TRUE)
      BY <1>2, <1>6, <2>2, <3>1 DEF ToPyFrees, ToArrayFreed, ToListFreed, ToHashFreed, Transferred, Containers
    <3> QED BY <2>1, <3>2
  <2>3. CASE part # Data
    <3>1. part \in 1 .. cv.items /\ OwnedTag(e.item) /\ e.transfer = "everything"
      BY <1>1, <1>2, <2>3
    <3>2. CASE e.tag = "ghash"
      BY <2>1, <3>1, <3>2 DEF ToPyFrees, ToHashFreed
    <3>3. CASE e.tag # "ghash" /\ e.item \in {"utf8", "filename"}
      <4>1. PICK it : it = ItemCache(e)
        OBVIOUS
      <4>2. it.tag = e.item /\ it.transfer = "everything"
        BY <3>1, <4>1 DEF ItemCache, ItemTransfer, Blank
      <4>3. ScalarToFrees(it, TRUE)
        BY <3>3, <4>2 DEF ScalarToFrees
      <4>4. ToPyFrees(e, part, TRUE)
        BY <1>6, <2>3, <3>1, <3>3, <4>1, <4>3 DEF ToPyFrees, ToArrayFreed, ToListFreed, Transferred, Containers
      <4> QED BY <2>1, <4>4
    <3>4. CASE e.tag # "ghash" /\ e.item \in {"object", "boxed"}
      <4>1. r = Made(Stolen(e, cv)) /\ cv.n < 0
        <5>1. CASE e.tag = "array"
          <6>1. r = ArrayToPy(e, cv, lengthTag)
            BY <5>1 DEF ToPyMarshal
          <6>2. cv.k # "null" /\ e.item # "uint8"
            BY <1>1, <3>4
          <6>3. \A s, f, g : /\ ~[Failed EXCEPT !.steals = s, !.frees = f].ok
                             /\ ~[Failed EXCEPT !.steals = s, !.frees = f, !.again = g].ok
            BY DEF Failed
          <6>4. HasLength(e, lengthTag)
            BY <1>4, <6>1 DEF ArrayToPy
          <6>5. cv.n < 0
            <7> SUFFICES ASSUME cv.n >= 0 PROVE FALSE
              OBVIOUS
            <7>1. CASE e.atype = "C"
              BY <6>1, <6>2, <6>3, <6>4, <7>1 DEF ArrayToPy
            <7>2. CASE e.atype # "C"
              BY <6>1, <6>2, <6>3, <6>4, <7>2 DEF ArrayToPy
            <7> QED BY <7>1, <7>2
          <6> QED BY <6>1, <6>2, <6>4, <6>5 DEF ArrayToPy
        <5>2. CASE e.tag \in {"glist", "gslist"}
          <6>1. r = ListToPy(e, cv)
            BY <5>2 DEF ToPyMarshal
          <6>2. ~[Failed EXCEPT !.steals = Stolen(e, cv)].ok
            BY DEF Failed
          <6> QED BY <1>1, <6>1, <6>2 DEF ListToPy
        <5> QED BY <1>6, <3>4, <5>1, <5>2 DEF Containers
      <4>2. part \in Stolen(e, cv)
        BY <1>1, <3>1, <3>4, <4>1, ItemsTaken
      <4> QED BY <1>4, <4>1, <4>2
    <3> QED BY <1>6, <3>1, <3>2, <3>3, <3>4 DEF OwnedTag, HasToCleanup, Containers
  <2> QED BY <2>2, <2>3
<1> QED BY <1>5, <1>6

-----------------------------------------------------------------------------
(* Nothing is left *)

LEMMA ReturnReleases ==
  ASSUME ResultInv, Taken, Release, ValuesOK, PlainValues, OutputsOK, ItemsConvert, Careful(sig), Tidy(sig),
         NEW ret, NEW outs, CallC("returns", ret, outs)
  PROVE  Release'
<1>1. /\ pc = "call" /\ pc' = "out return" /\ sig' = sig /\ cache' = cache /\ Returns(ret, outs)
      /\ Regular(sig) /\ CacheOK(sig, cache, Count(sig)) /\ ArriveInv /\ Ends /\ Seats
  BY ReturnPuts DEF ResultInv
<1>2. /\ sig \in Sigs /\ ret \in Outputs(sig.ret) /\ outcome' = outcome
      /\ \A i \in Outs : outs[i] \in Outputs(SigArg(i))
  BY <1>1 DEF CallC, Returns, ArriveInv, TypeInv, Indexed
<1>3. ret.items \in Nat /\ \A i \in Outs : outs[i].items \in Nat
  <2>1. cache.n = Count(sig)
    BY <1>1 DEF ArriveInv, TypeInv, Indexed
  <2>2. \A i \in Outs : i \in ArgsOf(sig) /\ SigArg(i) = ArgOf(sig, i)
    BY <1>1, <2>1, SigArgIs DEF Outs
  <2>3. ArgOf(sig, -1) = sig.ret
    BY DEF ArgOf
  <2> QED BY <1>2, <2>2, <2>3 DEF OutputsOK
<1>4. DOMAIN MarshalSuccess(HandOver(ledger)) = DOMAIN ledger
  BY DEF MarshalSuccess, HandOver
<1>5. ASSUME NEW b \in DOMAIN ledger', ledger'[b] = "ours"
      PROVE  b[1] = "out" /\ b[3] # Place
  <2>1. CASE b \in DOMAIN ledger /\ ledger'[b] = MarshalSuccess(HandOver(ledger))[b]
    <3>1. b[1] # "in"
      BY <1>1, <1>5, <2>1, CalleeHas
    <3>2. b[1] = "out" /\ b[3] = Data
      BY <1>1, <2>1, <3>1 DEF Taken
    <3> QED BY <3>2 DEF Place, Data
  <2>2. CASE b[1] = "out" /\ b[2] = -1 /\ b[3] \in Parts(sig.ret, ret)
    BY <1>3, <2>2, NoPlace
  <2>3. CASE b[1] = "out" /\ b[2] \in Outs /\ b[3] \in Parts(SigArg(b[2]), outs[b[2]])
    BY <1>3, <2>3, NoPlace
  <2> QED BY <1>1, <1>4, <2>1, <2>2, <2>3, ReturnBlocks
<1>6. \A i : Unread(i)'
  BY <1>1 DEF Unread
<1>7. outcome' # "returned"
  BY <1>1, <1>2 DEF Release
<1> QED BY <1>5, <1>6, <1>7 DEF Release

\* When a value has been read, what is left of it is cleaned up at the end.
LEMMA MarshalReleases ==
  ASSUME Release, pc \in Gathering, pc' = "out args", sig' = sig, cache' = cache, outcome' = outcome, NEW i, NEW r,
         Marshal(i, r), i \in Range(cache.toPy) \cup {-1},
         \A b \in DOMAIN ledger : b[1] = "out" /\ b[2] = i /\ b[3] # Place /\ ledger[b] = "ours" =>
                                   b[3] \in r.steals \/ Reclaimed(i, b[3]),
         \A b \in DOMAIN ledger : b[1] = "out" /\ b[2] # i /\ b[3] # Place /\ ledger[b] = "ours" /\ Unread(b[2]) =>
                                   Unread(b[2])'
  PROVE  Release'
<1>1. \A j, part : Reclaimed(j, part)' = Reclaimed(j, part)
  BY DEF Reclaimed
<1>2. Free("ours") # "ours" /\ \A o : Free(o) # "ours"
  BY DEF Free
<1>3. ASSUME NEW b \in DOMAIN ledger', ledger'[b] = "ours"
      PROVE  /\ b[1] = "out" /\ b[3] # Place
             /\ Unread(b[2])' \/ (b[2] \in Range(cache.toPy) \cup {-1} /\ Reclaimed(b[2], b[3]))
  <2>1. b \in DOMAIN ledger /\ ledger[b] = "ours" /\ ~(b[1] = "out" /\ b[2] = i /\ b[3] \in r.steals)
    BY <1>2, <1>3 DEF Marshal
  <2>2. /\ b[1] = "out" /\ b[3] # Place
        /\ Unread(b[2]) \/ (b[2] \in Range(cache.toPy) \cup {-1} /\ Reclaimed(b[2], b[3]))
    BY <2>1 DEF Release
  <2> QED BY <2>1, <2>2
<1>4. outcome' # "returned"
  BY DEF Release, Gathering
<1> QED BY <1>1, <1>3, <1>4 DEF Release

\* A value whose share is ours is disposed of.
LEMMA GivenDisposed ==
  ASSUME Regular(sig), CacheOK(sig, cache, Count(sig)), EndsOK(sig, cache, Count(sig)), Careful(sig), Tidy(sig),
         NEW i \in Range(cache.toPy) \cup {-1}, NEW e, e = IF i = -1 THEN cache.ret ELSE cache.args[i],
         NEW cv, Formed(ArgOf(sig, i), cv), NEW part \in Parts(ArgOf(sig, i), cv), Gives(ArgOf(sig, i), part) = "ours",
         NEW lengthTag, NEW r, r = ToPyMarshal(e, cv, lengthTag), r.ok
  PROVE  part \in r.steals \/ Reclaimed(i, part)
<1>1. PICK a : a = ArgOf(sig, i)
  OBVIOUS
<1>2. /\ e.tag = a.tag /\ e.transfer = a.transfer /\ e.item = a.item /\ i \in ArgsOf(sig) \cup {-1}
      /\ i # -1 => i \in Results(sig, Count(sig))
  BY <1>1, ReadBy
<1>3. ToPython(WayOf(sig, i))
  BY <1>2 DEF Results, ToOnes, WayOf, ToPython
<1>4. e.toClean <=> HasToCleanup(a.tag)
  <2>1. CASE i = -1
    BY <1>1, <2>1 DEF EndsOK, Returning, ArgOf
  <2>2. CASE i # -1
    <3>1. i \in Results(sig, Count(sig))
      BY <1>2, <2>2
    <3>2. Swept(sig, i, e)
      BY <2>2, <3>1, ResultEntry
    <3> QED BY <1>1, <1>3, <3>2 DEF Swept
  <2> QED BY <2>1, <2>2
<1>5. /\ a.tag \notin Containers => ~OwnedTag(a.item)
      /\ a.transfer = "container" => ~OwnedTag(a.tag) \/ a.tag = "array"
      /\ a.transfer = "everything" =>
           a.tag # "foreign" /\ (a.tag \in Containers \ {"ghash"} => a.item \notin Containers \cup {"foreign"})
  BY <1>1, <1>2, <1>3 DEF Careful, Tidy, TidyOut
<1>6. {"k", "n"} \subseteq DOMAIN cv /\ cv.n \in Int /\ cv.items \in Nat
  BY DEF Formed
<1>7. part \in r.steals \/ (e.toClean /\ ToPyFrees(e, part, TRUE))
  BY <1>1, <1>2, <1>4, <1>5, <1>6, Disposed
<1> QED BY <1>7 DEF Reclaimed

\* What was given back before it is read, and is ours.
LEMMA OursToRead ==
  ASSUME Yielded, Release, pc \in Gathering, NEW b \in DOMAIN ledger, ledger[b] = "ours", Unread(b[2])
  PROVE  /\ b[1] = "out" /\ b[3] # Place /\ b[2] \in ArgsOf(sig) \cup {-1} /\ ToPython(WayOf(sig, b[2]))
         /\ Offered(b[2], b[3]) /\ Share(b[2], b[3]) = "ours"
         /\ ~(b[2] # -1 /\ Allocated(b[2])) =>
              /\ b[3] \in Parts(ArgOf(sig, b[2]), Out(b[2])) /\ Gives(ArgOf(sig, b[2]), b[3]) = "ours"
              /\ Formed(ArgOf(sig, b[2]), Out(b[2]))
<1>1. b[1] = "out" /\ b[3] # Place
  BY DEF Release
<1>2. /\ b[2] \in ArgsOf(sig) \cup {-1} /\ ToPython(WayOf(sig, b[2]))
      /\ Offered(b[2], b[3]) /\ Share(b[2], b[3]) = "ours"
  BY <1>1 DEF Yielded
<1>3. ASSUME ~(b[2] # -1 /\ Allocated(b[2]))
      PROVE  /\ b[3] \in Parts(ArgOf(sig, b[2]), Out(b[2])) /\ Gives(ArgOf(sig, b[2]), b[3]) = "ours"
             /\ Formed(ArgOf(sig, b[2]), Out(b[2]))
  <2>1. Formed(ArgOf(sig, b[2]), Out(b[2]))
    BY <1>2, <1>3 DEF Yielded
  <2> QED BY <1>2, <1>3, <2>1 DEF Offered, Share
<1> QED BY <1>1, <1>2, <1>3

LEMMA ReturnReleased ==
  ASSUME ArriveInv, Ends, Gathered, Careful(sig), Tidy(sig), Yielded, Release, OutReturn
  PROVE  Release'
<1>1. /\ pc = "out return" /\ pc' \in {"out args", "done"} /\ sig' = sig /\ cache' = cache /\ pos' = 0
      /\ IF pc' = "out args" THEN outcome' = outcome ELSE outcome' = "bad result"
  BY DEF OutReturn, BadResult, Gathered
<1>2. Regular(sig) /\ CacheOK(sig, cache, Count(sig)) /\ EndsOK(sig, cache, Count(sig))
  <2>1. pc \in {"cached"} \cup Calling /\ TypeInv
    BY <1>1 DEF Calling, ArriveInv
  <2> QED BY <2>1, Now
<1>3. CASE pc' = "done"
  BY <1>1, <1>3 DEF Release, Gathering
<1>4. CASE pc' = "out args"
  <2>1. outcome' = outcome /\ pc \in Gathering /\ outcome # "returned"
    BY <1>1, <1>4 DEF Gathering, Release
  <2>2. ASSUME NEW b \in DOMAIN ledger, ledger[b] = "ours"
        PROVE  /\ b[1] = "out" /\ b[3] # Place
               /\ b[2] # -1 => Unread(b[2])'
               /\ b[2] = -1 => /\ b[3] \in Parts(sig.ret, Out(-1)) /\ Gives(sig.ret, b[3]) = "ours"
                               /\ Formed(sig.ret, Out(-1))
    <3>1. Unread(b[2])
      BY <1>1 DEF Unread
    <3>2. /\ b[1] = "out" /\ b[3] # Place /\ b[2] \in ArgsOf(sig) \cup {-1} /\ ToPython(WayOf(sig, b[2]))
          /\ Offered(b[2], b[3])
          /\ b[2] = -1 => /\ b[3] \in Parts(ArgOf(sig, b[2]), Out(b[2])) /\ Gives(ArgOf(sig, b[2]), b[3]) = "ours"
                          /\ Formed(ArgOf(sig, b[2]), Out(b[2]))
      BY <2>1, <2>2, <3>1, OursToRead
    <3>3. b[2] \in Range(cache.toPy) \cup {-1}
      BY <1>2, <3>2, OnList
    <3>4. \A i \in Range(cache.toPy) : Unread(i)'
      <4>1. PICK q : q = cache.toPy
        OBVIOUS
      <4>2. DOMAIN q = 1 .. Len(q)
        BY <1>2, <4>1 DEF EndsOK, Listing
      <4>3. \A i \in Range(q) : \E l \in 1 .. Len(q) : l > 0 /\ q[l] = i
        BY <4>2 DEF Range
      <4> QED BY <1>1, <1>4, <4>1, <4>3 DEF Unread
    <3>5. ArgOf(sig, -1) = sig.ret
      BY DEF ArgOf
    <3> QED BY <3>2, <3>3, <3>4, <3>5
  <2>3. CASE sig.skip
    <3>1. \A b \in DOMAIN ledger' : ledger'[b] = "ours" => b \in DOMAIN ledger /\ ledger[b] = "ours"
      <4>1. CASE ledger' = ledger
        BY <4>1
      <4>2. CASE ledger' = Only(Block("out", -1, Place), "misfreed") ++ ledger
        <5>1. PICK one : one = Only(Block("out", -1, Place), "misfreed")
          OBVIOUS
        <5>2. \A b \in DOMAIN one : one[b] = "misfreed"
          BY <5>1 DEF Only
        <5>3. ledger' = one ++ ledger
          BY <4>2, <5>1
        <5>4. /\ DOMAIN (one ++ ledger) = DOMAIN one \cup DOMAIN ledger
              /\ \A b \in DOMAIN one : (one ++ ledger)[b] = one[b]
              /\ \A b \in DOMAIN ledger : b \notin DOMAIN one => (one ++ ledger)[b] = ledger[b]
          BY ONLY Over
        <5> QED BY ONLY <5>2, <5>3, <5>4
      <4> QED BY <1>1, <2>3, <4>1, <4>2 DEF OutReturn
    <3>2. \A b \in DOMAIN ledger : ledger[b] = "ours" => b[2] # -1
      <4> SUFFICES ASSUME NEW b \in DOMAIN ledger, ledger[b] = "ours", b[2] = -1 PROVE FALSE
        OBVIOUS
      <4>1. PICK a, cv, part : a = sig.ret /\ cv = Out(-1) /\ part = b[3]
        OBVIOUS
      <4>2. part \in Parts(a, cv) /\ Gives(a, part) = "ours"
        BY <2>2, <4>1
      <4>3. a.tag \notin Containers => ~OwnedTag(a.item)
        BY <4>1 DEF Careful, ArgOf
      <4>4. OwnedTag(a.tag)
        BY <4>2, <4>3, OwnedPart DEF OwnedTag, HasToCleanup, Containers
      <4>5. a.transfer \notin {"everything", "container"}
        BY <2>3, <4>1, <4>4 DEF Tidy
      <4> QED BY <4>2, <4>5, GivenAway
    <3> QED BY <2>1, <2>2, <3>1, <3>2 DEF Release
  <2>4. CASE ~sig.skip
    <3>1. PICK e, cv, r : e = cache.ret /\ cv = outVals[-1] /\ r = ToPyMarshal(e, cv, LengthTag(e))
      OBVIOUS
    <3>2. Marshal(-1, r) /\ r.ok
      BY <1>4, <2>4, <3>1 DEF OutReturn, BadResult
    <3>3. cv = Out(-1)
      BY <3>1 DEF Out
    <3>4. ASSUME NEW b \in DOMAIN ledger, b[2] = -1, ledger[b] = "ours"
          PROVE  b[3] \in r.steals \/ Reclaimed(-1, b[3])
      <4>1. b[3] \in Parts(ArgOf(sig, -1), cv) /\ Gives(ArgOf(sig, -1), b[3]) = "ours" /\ Formed(ArgOf(sig, -1), cv)
        BY <2>2, <3>3, <3>4 DEF ArgOf
      <4> QED BY <1>2, <3>1, <3>2, <4>1, GivenDisposed
    <3> QED BY <1>1, <1>4, <2>1, <2>2, <3>2, <3>4, MarshalReleases
  <2> QED BY <2>3, <2>4
<1> QED BY <1>1, <1>3, <1>4

LEMMA ArgReleased ==
  ASSUME ArriveInv, Ends, Seats, Gathered, Careful(sig), Tidy(sig), Yielded, Release, OutArg
  PROVE  Release'
<1>1. PICK i : i = cache.toPy[pos + 1]
  OBVIOUS
<1>2. PICK e, cv, r : e = cache.args[i] /\ cv = ValueAt(i) /\ r = ToPyMarshal(e, cv, LengthTag(e))
  OBVIOUS
<1>3. /\ pc = "out args" /\ pc' \in {"out args", "done"} /\ sig' = sig /\ cache' = cache /\ outVals' = outVals
      /\ Regular(sig) /\ CacheOK(sig, cache, Count(sig)) /\ EndsOK(sig, cache, Count(sig))
      /\ i # -1 /\ i \in Range(cache.toPy) /\ i \in Results(sig, Count(sig))
      /\ Formed(ArgOf(sig, i), cv) /\ Unread(i) /\ Marshal(i, r)
      /\ Allocated(i) => cv.k = "ptr" /\ cv.n = -1
      /\ ~Allocated(i) => cv = Out(i)
      /\ pc' = "out args" => r.ok /\ ~Unread(i)' /\ \A j : j # i => (Unread(j)' <=> Unread(j))
      /\ IF pc' = "out args" THEN outcome' = outcome ELSE outcome' = "bad result"
  BY <1>1, <1>2, ArgTurn
<1>4. CASE pc' = "done"
  BY <1>3, <1>4 DEF Release, Gathering
<1>5. CASE pc' = "out args"
  <2>1. pc \in Gathering /\ outcome' = outcome
    BY <1>3, <1>5 DEF Gathering
  <2>2. ASSUME NEW b \in DOMAIN ledger, b[2] = i, ledger[b] = "ours"
        PROVE  b[3] \in r.steals \/ Reclaimed(i, b[3])
    <3>1. PICK part, a : part = b[3] /\ a = ArgOf(sig, i)
      OBVIOUS
    <3>2. /\ Offered(i, part)
          /\ ~Allocated(i) => part \in Parts(a, Out(i)) /\ Gives(a, part) = "ours"
      BY <1>3, <2>1, <2>2, <3>1, OursToRead
    <3>3. CASE ~Allocated(i)
      <4>1. part \in Parts(a, cv) /\ Gives(a, part) = "ours"
        BY <1>3, <3>2, <3>3
      <4> QED BY <1>2, <1>3, <1>5, <3>1, <4>1, GivenDisposed
    <3>4. CASE Allocated(i)
      <4>1. part = Data /\ cv.k = "ptr"
        BY <1>3, <3>2, <3>4 DEF Offered
      <4>2. i \in ArgsOf(sig) /\ i \in Numbers(sig) /\ Swept(sig, i, e) /\ e.tag = a.tag
        BY <1>2, <1>3, <3>1, ResultEntry DEF Described
      <4>3. e.caller /\ e.dir = "to" /\ WayOf(sig, i) = "to" /\ i \in DOMAIN cache.args
        BY <1>2, <1>3, <3>4, <4>2, Ready DEF Allocated
      <4>4. a.caller /\ a.tag \in Interfaces \cup {"array"}
        BY <1>2, <1>3, <3>1, <4>3 DEF EndsOK, Structured
      <4>5. e.tag \in {"boxed", "gvalue"}
        BY <3>1, <4>2, <4>3, <4>4 DEF Tidy, TidyIn
      <4>6. CASE e.tag = "gvalue"
        <5>1. ~e.toClean
          BY <3>1, <4>2, <4>6 DEF Swept, HasToCleanup
        <5> QED BY <1>2, <1>3, <4>3, <4>6, <5>1 DEF Reclaimed, CallerFrees
      <4>7. CASE e.tag = "boxed"
        <5>1. r = StructToPy(e, cv)
          BY <1>2, <4>7 DEF ToPyMarshal, ScalarToPy
        <5>2. r \in {Failed, Made({Data})}
          BY <4>1, <4>3, <4>7, <5>1 DEF StructToPy, FailedIf
        <5>3. ~Failed.ok /\ Made({Data}).steals = {Data}
          BY DEF Failed, Made
        <5>4. r.ok
          BY <1>3, <1>5
        <5>5. r.steals = {Data}
          BY ONLY <5>2, <5>3, <5>4
        <5> QED BY <3>1, <4>1, <5>5
      <4> QED BY <4>5, <4>6, <4>7
    <3> QED BY <3>3, <3>4
  <2> QED BY <1>3, <1>5, <2>1, <2>2, MarshalReleases
<1> QED BY <1>3, <1>4, <1>5

LEMMA FinishReleases ==
  ASSUME ArriveInv, Ends, Release, Finish
  PROVE  Release'
<1>1. pc = "out args" /\ pc' = "done" /\ ledger' = ToSuccess(ledger) /\ pos = NOut
  BY DEF Finish
<1>2. Regular(sig) /\ CacheOK(sig, cache, Count(sig)) /\ EndsOK(sig, cache, Count(sig))
  <2>1. pc \in {"cached"} \cup Calling /\ TypeInv
    BY <1>1 DEF Calling, ArriveInv
  <2> QED BY <2>1, Now
<1>3. pos = Len(cache.toPy) /\ Len(cache.toPy) \in Nat
  BY <1>1, <1>2, ResultsAre
<1>4. ASSUME NEW i
      PROVE  ~Unread(i)
  <2>1. PICK n : n = Len(cache.toPy)
    OBVIOUS
  <2>2. \A l \in 1 .. n : ~(l > pos)
    BY ONLY <1>3, <2>1
  <2>3. pc # "out return"
    BY <1>1
  <2> QED BY ONLY <2>1, <2>2, <2>3 DEF Unread
<1>5. DOMAIN ToSuccess(ledger) = DOMAIN ledger
  BY DEF ToSuccess
<1>6. ASSUME NEW b \in DOMAIN ledger
      PROVE  ToSuccess(ledger)[b] # "ours"
  <2> DEFINE cleaned == /\ b[1] = "out" /\ b[3] # Place
                        /\ b[2] = -1 \/ b[2] \in Range(cache.toPy)
                        /\ Reclaimed(b[2], b[3])
  <2>1. ToSuccess(ledger)[b] = IF cleaned THEN Free(ledger[b]) ELSE ledger[b]
    BY Zenon DEF ToSuccess, Reclaimed
  <2>2. ledger[b] = "ours" => cleaned
    BY <1>1, <1>4 DEF Release, Gathering
  <2>3. Free(ledger[b]) # "ours"
    BY DEF Free
  <2> HIDE DEF cleaned
  <2> QED BY <2>1, <2>2, <2>3
<1> QED BY <1>1, <1>5, <1>6 DEF Release, Gathering

LEMMA NextReleases ==
  ASSUME ReleaseInv, ValuesOK, OutputsOK, ItemsConvert, AllCareful, PlainValues, AllTidy, [Next]_vars
  PROVE  ReleaseInv'
<1>0. /\ LedgerInv' /\ Release /\ ResultInv /\ ArriveInv /\ Ends /\ Seats /\ Gathered /\ TypeInv
      /\ Taken /\ Yielded /\ Careful(sig) /\ Tidy(sig)
  BY NextLedger DEF ReleaseInv, LedgerInv, ResultInv, ArriveInv, TypeInv, Indexed, AllCareful, AllTidy
<1> SUFFICES Release'
  BY <1>0 DEF ReleaseInv
<1>1. pc # "done" /\ outcome' = outcome /\ pc' \notin Gathering => Release'
  BY <1>0 DEF Release
<1>2. outcome' # "returned" /\ pc' \notin Gathering => Release'
  BY DEF Release
<1>3. CASE CacheNext /\ UNCHANGED <<callvars, invars, outvars, args, ledger, endvars>>
  <2>1. pc \in Building /\ pc' \in Building \cup {"cached"} /\ outcome' = outcome
    BY <1>0, <1>3 DEF CacheNext, CacheNew, CacheReturn, CacheClosure, CacheChild, CacheArg, CacheDone, Building, endvars
  <2> QED BY <1>1, <2>1 DEF Building, Gathering
<1>4. ASSUME NEW c, NEW first, Call(c, first)
      PROVE  Release'
  BY <1>1, <1>2, <1>4 DEF Call, Gathering
<1>5. pc = "in" /\ Step /\ UNCHANGED endvars => Release'
  BY <1>1, StepIs DEF endvars, Gathering
<1>6. \A left : pc = "in" /\ FailAt(left) => Release'
  BY <1>2 DEF FailAt, Gathering
<1>7. CASE MarshalNothing
  BY <1>5, <1>7 DEF MarshalNothing
<1>8. ASSUME NEW v, NEW ud, MarshalIn(v, ud)
      PROVE  Release'
  BY <1>5, <1>6, <1>8 DEF MarshalIn
<1>9. ASSUME NEW v, MarshalBoth(v)
      PROVE  Release'
  BY <1>5, <1>6, <1>9 DEF MarshalBoth
<1>10. ASSUME NEW possible \in BOOLEAN, MarshalOut(possible)
       PROVE  Release'
  BY <1>5, <1>6, <1>10 DEF MarshalOut
<1>11. CASE NoArgs
  BY <1>1, <1>11 DEF NoArgs, endvars, Gathering
<1>12. ASSUME NEW did \in Courses, NEW ret, NEW outs, CallC(did, ret, outs)
       PROVE  Release'
  <2>1. CASE did = "returns"
    BY <1>0, <1>12, <2>1, ReturnReleases
  <2>2. CASE did # "returns"
    BY <1>2, <1>12, <2>2 DEF CallC, CallFails, Courses, Gathering
  <2> QED BY <2>1, <2>2
<1>13. CASE OutReturn
  BY <1>0, <1>13, ReturnReleased
<1>14. CASE OutArg
  BY <1>0, <1>14, ArgReleased
<1>15. CASE Finish
  BY <1>0, <1>15, FinishReleases
<1>16. CASE Again
  BY <1>2, <1>16 DEF Again, Gathering
<1>17. CASE UNCHANGED vars
  <2>1. pc' = pc /\ outcome' = outcome /\ cache' = cache /\ pos' = pos /\ ledger' = ledger
    BY <1>17 DEF vars, endvars
  <2>2. /\ \A i : Unread(i)' = Unread(i)
        /\ \A i, part : Reclaimed(i, part)' = Reclaimed(i, part)
    BY <2>1 DEF Reclaimed, Unread
  <2> QED BY <1>0, <2>1, <2>2 DEF Release
<1>18. CASE Next
  <2>1. CASE \E did \in {"returns", "throws", "not run"} : \E ret, outs : CallC(did, ret, outs)
    BY <1>12, <2>1 DEF Courses
  <2> QED BY <1>3, <1>4, <1>7, <1>8, <1>9, <1>10, <1>11, <1>13, <1>14, <1>15, <1>16, <1>18, <2>1 DEF Next
<1> QED BY <1>17, <1>18

(***************************************************************************)
(* A call that succeeds leaves nothing of the caller's behind, for         *)
(* callables whose annotations the cleanup gets right (AllCareful) and     *)
(* looks after (AllTidy), values that are cleaned up like what they were   *)
(* made of, and C arrays whose items have a Python form.                   *)
(* (pygi_marshal_cleanup_args_from_py_marshal_success,                     *)
(* pygi_marshal_cleanup_args_to_py_marshal_success)                        *)
(***************************************************************************)
THEOREM ReleasedOnSuccessAlways ==
  ASSUME ValuesOK, OutputsOK, ItemsConvert, AllCareful, PlainValues, AllTidy
  PROVE  Spec => []ReleasedOnSuccess
<1>1. Init => ReleaseInv
  <2> SUFFICES ASSUME Init PROVE ReleaseInv
    OBVIOUS
  <2>1. LedgerInv
    BY InitLedger
  <2>2. pc = "no cache" /\ outcome = "none"
    BY DEF Init, InitCache
  <2> QED BY <2>1, <2>2 DEF ReleaseInv, Release, Gathering
<1>2. ReleaseInv /\ [Next]_vars => ReleaseInv'
  BY NextReleases
<1>3. ReleaseInv => ReleasedOnSuccess
  BY DEF ReleaseInv, Release, ReleasedOnSuccess, Range
<1> QED BY <1>1, <1>2, <1>3, PTL DEF Spec
=============================================================================
