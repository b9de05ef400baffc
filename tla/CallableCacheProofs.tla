------------------------ MODULE CallableCacheProofs ------------------------
(***************************************************************************)
(* Machine-checked facts about CallableCache, for callables with any       *)
(* number of arguments: the indexes that the cache works out, one argument *)
(* after the other, are those that the introspection data gives, and it    *)
(* lists the arguments whose values are results.  The hypothesis is that   *)
(* the callables are Regular.                                              *)
(***************************************************************************)
EXTENDS InvokeInvariants, FiniteSetTheorems, SequenceTheorems, TLAPS

-----------------------------------------------------------------------------
(* Counting *)

LEMMA BelowFinite ==
  ASSUME NEW S, NEW i \in Int
  PROVE  IsFiniteSet({j \in 0 .. i - 1 : j \in S}) /\ Below(S, i) \in Nat
<1>1. IsFiniteSet(0 .. i - 1)
  BY FS_Interval
<1>2. {j \in 0 .. i - 1 : j \in S} \subseteq 0 .. i - 1
  OBVIOUS
<1> QED BY <1>1, <1>2, FS_Subset, FS_CardinalityType DEF Below

LEMMA BelowSame ==
  ASSUME NEW S, NEW T, NEW i \in Int, \A j \in 0 .. i - 1 : j \in S <=> j \in T
  PROVE  Below(S, i) = Below(T, i)
<1>1. {j \in 0 .. i - 1 : j \in S} = {j \in 0 .. i - 1 : j \in T}
  OBVIOUS
<1> QED BY <1>1 DEF Below

LEMMA BelowStep ==
  ASSUME NEW S, NEW i \in Nat
  PROVE  Below(S, i + 1) = IF i \in S THEN Below(S, i) + 1 ELSE Below(S, i)
<1> DEFINE B == {j \in 0 .. i - 1 : j \in S}
           C == {j \in 0 .. (i + 1) - 1 : j \in S}
<1>0. \A j : j \in 0 .. (i + 1) - 1 <=> j \in 0 .. i - 1 \/ j = i
  OBVIOUS
<1>1. CASE i \in S
  <2>1. i \notin B
    OBVIOUS
  <2>2. ASSUME NEW j PROVE j \in C <=> j \in B \cup {i}
    BY <1>0, <1>1
  <2>3. C = B \cup {i}
    BY <2>2, Zenon
  <2>4. Cardinality(B \cup {i}) = Cardinality(B) + 1
    <3>0. i \in Int
      OBVIOUS
    <3>1. IsFiniteSet(B)
      BY <3>0, BelowFinite, Zenon
    <3> HIDE DEF B
    <3> QED BY <2>1, <3>1, FS_AddElement
  <2>5. Below(S, i + 1) = Cardinality(C) /\ Below(S, i) = Cardinality(B)
    BY DEF Below
  <2> HIDE DEF B, C
  <2> QED BY <1>1, <2>3, <2>4, <2>5
<1>2. CASE i \notin S
  <2>1. C = B
    BY <1>0, <1>2
  <2>2. Below(S, i + 1) = Cardinality(C) /\ Below(S, i) = Cardinality(B)
    BY DEF Below
  <2> HIDE DEF B, C
  <2> QED BY <1>2, <2>1, <2>2
<1> QED BY <1>1, <1>2

\* A number that is added counts for those above it.
LEMMA BelowAdd ==
  ASSUME NEW S, NEW T, NEW l \in Nat, NEW i \in Int, l \notin S, l \in T, l < i,
         \A j \in 0 .. i - 1 : j # l => (j \in S <=> j \in T)
  PROVE  Below(T, i) = Below(S, i) + 1
<1> DEFINE B == {j \in 0 .. i - 1 : j \in S}
           C == {j \in 0 .. i - 1 : j \in T}
<1>1. C = B \cup {l} /\ l \notin B
  OBVIOUS
<1>2. IsFiniteSet(B)
  BY BelowFinite
<1>3. Below(T, i) = Cardinality(C) /\ Below(S, i) = Cardinality(B)
  BY DEF Below
<1> HIDE DEF B, C
<1> QED BY <1>1, <1>2, <1>3, FS_AddElement

\* Numbers of the set have different places, and those below i places below that of i.
LEMMA BelowLess ==
  ASSUME NEW S, NEW i \in Int, NEW k \in Nat, k \in S, k < i
  PROVE  Below(S, k) + 1 <= Below(S, i)
<1> DEFINE B == {j \in 0 .. (k + 1) - 1 : j \in S}
           C == {j \in 0 .. i - 1 : j \in S}
<1>1. B \subseteq C
  OBVIOUS
<1>2. Cardinality(B) <= Cardinality(C)
  BY <1>1, BelowFinite, FS_Subset
<1>3. Cardinality(B) = Below(S, k) + 1
  BY BelowStep DEF Below
<1> QED BY <1>2, <1>3 DEF Below

LEMMA BelowAll ==
  ASSUME NEW S, NEW i \in Nat, \A j \in 0 .. i - 1 : j \in S
  PROVE  Below(S, i) = i
<1>1. {j \in 0 .. i - 1 : j \in S} = 0 .. i - 1
  OBVIOUS
<1>2. Cardinality(0 .. i - 1) = i
  BY FS_Interval
<1> QED BY <1>1, <1>2 DEF Below

LEMMA BelowNone ==
  ASSUME NEW S, NEW i \in Int, \A j \in 0 .. i - 1 : j \notin S
  PROVE  Below(S, i) = 0
<1>1. {j \in 0 .. i - 1 : j \in S} = {}
  OBVIOUS
<1> QED BY <1>1, FS_EmptySet DEF Below

-----------------------------------------------------------------------------
(* Regular callables *)

LEMMA Ways ==
  ASSUME NEW s, Regular(s)
  PROVE  /\ Offset(s.ftype) \in {0, 1} /\ Count(s) \in Nat /\ Offset(s.ftype) <= Count(s)
         /\ ArgsOf(s) \subseteq Numbers(s) /\ Numbers(s) \subseteq Nat
         /\ \A j \in Numbers(s) : WayOf(s, j) \in {"from", "to", "both"}
         /\ \A j \in Numbers(s) : j \notin ArgsOf(s) => j = 0 /\ WayOf(s, j) = "from"
<1>1. Len(s.args) \in Nat
  BY DEF Regular
<1>2. Offset(s.ftype) \in {0, 1}
  BY DEF Offset
<1>3. \A j \in ArgsOf(s) : Direction(ArgOf(s, j)) \in {"from", "to", "both"}
  BY DEF Direction
<1> QED BY <1>1, <1>2, <1>3 DEF Count, ArgsOf, Numbers, WayOf

\* What Regular says of an owner and an argument.
LEMMA Owners ==
  ASSUME NEW s, Regular(s), NEW i \in ArgsOf(s) \cup {-1}
  PROVE  /\ ArgOf(s, i).len \in Int /\ ArgOf(s, i).closure \in Int /\ ArgOf(s, i).destroy \in Int
         /\ HasLengthArg(s, i) => LengthRegular(s, i, LengthAt(s, i)) /\ ~IsClosure(s, LengthAt(s, i))
         /\ HasUserData(s, i) => BehindRegular(s, i, UserDataAt(s, i)) /\ ~IsClosure(s, UserDataAt(s, i))
         /\ HasDestroy(s, i) => BehindRegular(s, i, DestroyAt(s, i)) /\ ~IsClosure(s, DestroyAt(s, i))
         /\ HasUserData(s, i) /\ HasDestroy(s, i) => UserDataAt(s, i) # DestroyAt(s, i)
         /\ \A j \in ArgsOf(s) \cup {-1} : \A k : Owns(s, i, k) /\ Owns(s, j, k) => i = j
<1>1. \A k : Owns(s, i, k) => k \in ArgsOf(s)
  BY DEF Regular, Owns, LengthRegular, BehindRegular
<1> QED BY <1>1 DEF Regular, Owns

\* Argument p adds its own children to those that were known.
LEMMA Marks ==
  ASSUME NEW s, Regular(s), NEW p \in ArgsOf(s), NEW j
  PROVE  /\ Lengthed(s, p + 1, j) <=> Lengthed(s, p, j) \/ (HasLengthArg(s, p) /\ j = LengthAt(s, p))
         /\ Fed(s, p + 1, j) <=> Fed(s, p, j) \/ (HasUserData(s, p) /\ j = UserDataAt(s, p))
         /\ Ended(s, p + 1, j) <=> Ended(s, p, j) \/ (HasDestroy(s, p) /\ j = DestroyAt(s, p))
<1>1. p \in Nat /\ \A i \in ArgsOf(s) \cup {-1} : i \in Int /\ (i < p + 1 <=> i < p \/ i = p)
  BY Ways
<1> QED BY <1>1 DEF Lengthed, Fed, Ended

\* A child has one owner, and is no owner.
LEMMA Children ==
  ASSUME NEW s, Regular(s), NEW p \in Int, NEW j, Lengthed(s, p, j) \/ Fed(s, p, j) \/ Ended(s, p, j)
  PROVE  /\ j \in ArgsOf(s) /\ ~IsClosure(s, j) /\ Childless(s, j)
         /\ Fed(s, p, j) \/ Ended(s, p, j) => WayOf(s, j) = "from"
         /\ \E i \in ArgsOf(s) \cup {-1} : i < p /\ Owns(s, i, j)
         /\ \A q : /\ Lengthed(s, p, j) => ~Fed(s, q, j) /\ ~Ended(s, q, j)
                   /\ Fed(s, p, j) => ~Lengthed(s, q, j) /\ ~Ended(s, q, j)
                   /\ Ended(s, p, j) => ~Lengthed(s, q, j) /\ ~Fed(s, q, j)
<1>1. \E i \in ArgsOf(s) \cup {-1} : i < p /\ Owns(s, i, j)
  BY DEF Lengthed, Fed, Ended, Owns
<1>2. j \in ArgsOf(s) /\ ~IsClosure(s, j) /\ Childless(s, j)
  BY <1>1, Owners DEF Owns, LengthRegular, BehindRegular
<1>3. Fed(s, p, j) \/ Ended(s, p, j) => WayOf(s, j) = "from"
  BY Owners DEF Fed, Ended, BehindRegular
<1>4. ASSUME NEW q, NEW i \in ArgsOf(s) \cup {-1}, NEW k \in ArgsOf(s) \cup {-1}, Owns(s, i, j), Owns(s, k, j)
      PROVE  i = k
  BY <1>4, Owners
<1>5. \A i \in ArgsOf(s) \cup {-1} : HasLengthArg(s, i) => ~HasUserData(s, i) /\ ~HasDestroy(s, i)
  BY DEF HasLengthArg, HasUserData, HasDestroy
<1>6. ASSUME NEW q
      PROVE  /\ Lengthed(s, p, j) => ~Fed(s, q, j) /\ ~Ended(s, q, j)
             /\ Fed(s, p, j) => ~Lengthed(s, q, j) /\ ~Ended(s, q, j)
             /\ Ended(s, p, j) => ~Lengthed(s, q, j) /\ ~Fed(s, q, j)
  BY <1>4, <1>5, Owners DEF Lengthed, Fed, Ended, Owns
<1> QED BY <1>1, <1>2, <1>3, <1>6

-----------------------------------------------------------------------------
(* Entries and caches, field by field *)

LEMMA Over ==
  ASSUME NEW f, NEW g
  PROVE  /\ DOMAIN (f ++ g) = DOMAIN f \cup DOMAIN g
         /\ \A x \in DOMAIN f : (f ++ g)[x] = f[x]
         /\ \A x \in DOMAIN g : x \notin DOMAIN f => (f ++ g)[x] = g[x]
BY DEF ++

LEMMA OnlyDomain ==
  ASSUME NEW x, NEW y, NEW g
  PROVE  DOMAIN (Only(x, y) ++ g) = {x} \cup DOMAIN g
BY DEF ++, Only

LEMMA OnlyOver ==
  ASSUME NEW x, NEW y, NEW g
  PROVE  /\ (Only(x, y) ++ g)[x] = y
         /\ \A z \in DOMAIN g : z # x => (Only(x, y) ++ g)[z] = g[z]
BY DEF ++, Only

LEMMA PutIs ==
  ASSUME NEW cc, DOMAIN cc = CacheFields, NEW i, NEW e
  PROVE  Put(cc, i, e).args = Only(i, e) ++ cc.args /\ Rest(cc, Put(cc, i, e), {"args"})
BY DEF Put, CacheFields, Rest

\* What storing an argument's entry leaves alone.
LEMMA RestOfArgs ==
  ASSUME NEW cc, NEW dd, Rest(cc, dd, {"args"})
  PROVE  /\ DOMAIN dd = CacheFields /\ dd.ftype = cc.ftype /\ dd.n = cc.n /\ dd.nFrom = cc.nFrom
         /\ dd.nTo = cc.nTo /\ dd.nPy = cc.nPy /\ dd.nToChild = cc.nToChild
BY DEF Rest, CacheFields

LEMMA NewIs ==
  ASSUME NEW s, NEW cc, cc = NewCallable(s)
  PROVE  /\ DOMAIN cc = CacheFields /\ cc.ftype = s.ftype /\ cc.n = Count(s) /\ DOMAIN cc.args = {}
         /\ cc.nFrom = 0 /\ cc.nTo = 0 /\ cc.nToChild = 0 /\ cc.nPy = 0 /\ cc.toPy = << >>
BY DEF NewCallable, CacheFields, Count

LEMMA SetupIs ==
  ASSUME NEW cc, DOMAIN cc = CacheFields, NEW dir \in {"from", "to", "both"}, NEW c \in Int, NEW l \in Nat,
         DOMAIN Child0(cc, l) = DOMAIN Blank, ~IsChild(Child0(cc, l)), NEW dd,
         dd = (LET cc1 == IF FromPython(dir) THEN SetupArrayFromPy(cc, l, dir, c) ELSE cc
               IN  IF ToPython(dir) THEN SetupArrayToPy(cc1, l, dir, c) ELSE cc1)
  PROVE  /\ dd.args = Only(l, LengthEntry(cc, l, dir, IF LengthFirst(dir, l, c) THEN "childUpdate" ELSE "child"))
                        ++ cc.args
         /\ Rest(cc, dd, {"args", "nToChild", "toPy"})
         /\ dd.nToChild = IF ToPython(dir) /\ l < c THEN cc.nToChild + 1 ELSE cc.nToChild
         /\ dd.toPy = IF ToPython(dir) THEN WithoutLength(cc.toPy, l) ELSE cc.toPy
<1> DEFINE e == LengthEntry(cc, l, dir, IF LengthFirst(dir, l, c) THEN "childUpdate" ELSE "child")
           cc1 == SetupArrayFromPy(cc, l, dir, c)
<1>1. CASE FromPython(dir)
  <2>1. cc1 = Put(cc, l, e)
    BY <1>1 DEF SetupArrayFromPy, LengthEntry, Child0, LengthFirst
  <2>2. cc1.args = Only(l, e) ++ cc.args /\ Rest(cc, cc1, {"args"})
    BY <2>1, PutIs
  <2>3. l \in DOMAIN cc1.args /\ cc1.args[l] = e
    <3> HIDE DEF cc1, e
    <3>1. DOMAIN (Only(l, e) ++ cc.args) = {l} \cup DOMAIN cc.args
      BY OnlyDomain
    <3>2. (Only(l, e) ++ cc.args)[l] = e
      BY OnlyOver
    <3> QED BY <2>2, <3>1, <3>2
  <2>4. IsChild(e)
    <3>1. e.meta \in {"child", "childUpdate"}
      BY DEF LengthEntry, Blank
    <3> QED BY <3>1 DEF IsChild
  <2> HIDE DEF cc1, e
  <2>5. CASE ToPython(dir)
    <3>1. dd = SetupArrayToPy(cc1, l, dir, c)
      BY <1>1, <2>5 DEF cc1
    <3>2. dd = [cc1 EXCEPT !.nToChild = IF l < c THEN @ + 1 ELSE @, !.toPy = WithoutLength(@, l)]
      BY <3>1, <2>3, <2>4 DEF SetupArrayToPy
    <3> QED BY <2>2, <2>5, <3>2 DEF Rest, CacheFields, e
  <2>6. CASE ~ToPython(dir)
    <3>1. dd = cc1
      BY <1>1, <2>6 DEF cc1
    <3> QED BY <2>2, <2>6, <3>1 DEF Rest, CacheFields, e
  <2> QED BY <2>5, <2>6
<1>2. CASE ~FromPython(dir)
  <2>0. ToPython(dir) /\ ~LengthFirst(dir, l, c)
    BY <1>2 DEF FromPython, ToPython, LengthFirst
  <2> DEFINE counted == [cc EXCEPT !.nToChild = IF l < c THEN @ + 1 ELSE @, !.toPy = WithoutLength(@, l)]
  <2>1. dd = Put(counted, l, e)
    BY <1>2, <2>0 DEF SetupArrayToPy, LengthEntry, Child0
  <2>2. /\ Rest(cc, counted, {"nToChild", "toPy"}) /\ counted.args = cc.args
        /\ counted.nToChild = (IF l < c THEN cc.nToChild + 1 ELSE cc.nToChild)
        /\ counted.toPy = WithoutLength(cc.toPy, l)
    BY DEF Rest, CacheFields
  <2> HIDE DEF counted
  <2>3. dd.args = Only(l, e) ++ counted.args /\ Rest(counted, dd, {"args"})
    BY <2>1, <2>2, PutIs DEF Rest
  <2> QED BY <2>0, <2>2, <2>3 DEF Rest, CacheFields
<1> QED BY <1>1, <1>2

LEMMA ArgNew ==
  ASSUME NEW cc, NEW a, NEW dir, NEW c, NEW py, NEW r, r = ArgCacheNew(cc, a, dir, c, py),
         NEW e, e = Entry(a, dir, c, py, Offset(cc.ftype)), NEW dd, dd = ArraySetUp(cc, e.len, dir, c)
  PROVE  /\ a.tag = "callback" =>
              r = IF ToPython(dir) THEN [ok |-> FALSE, cc |-> cc, e |-> e]
                  ELSE [ok |-> TRUE, cc |-> SetupCallback(cc, e.ud, e.destroy), e |-> e]
         /\ a.tag = "array" =>
              r = IF NeedsUpdate(dd, e.len)
                  THEN [ok |-> TRUE, cc |-> UpdateIndexes(dd, e.len), e |-> [e EXCEPT !.py = py - 1]]
                  ELSE [ok |-> TRUE, cc |-> dd, e |-> e]
         /\ a.tag \notin {"callback", "array"} =>
              r = [ok |-> a.tag # "unknown", cc |-> cc, e |-> e]
<1>1. CASE a.tag = "callback"
  BY <1>1, Zenon DEF ArgCacheNew
<1>2. CASE a.tag = "array"
  BY <1>2, Zenon DEF ArgCacheNew, ArraySetUp
<1>3. CASE a.tag \notin {"callback", "array"}
  <2>1. CASE a.tag = "unknown"
    BY <1>3, <2>1, Zenon DEF ArgCacheNew
  <2>2. CASE a.tag # "unknown"
    BY <1>3, <2>2, Zenon DEF ArgCacheNew
  <2> QED BY <2>1, <2>2
<1> QED BY <1>1, <1>2, <1>3

\* The fields of an entry that its set-up leaves.
LEMMA EntryIs ==
  ASSUME NEW a, NEW dir, NEW c, NEW py, NEW off, NEW e, e = Entry(a, dir, c, py, off)
  PROVE  /\ DOMAIN e = DOMAIN Blank
         /\ e.meta = (IF a.tag = "error" THEN "child" ELSE "parent") /\ e.dir = dir
         /\ e.tag = a.tag /\ e.transfer = a.transfer /\ e.py = py /\ e.c = c
         /\ e.len = (IF a.len >= 0 THEN a.len + off ELSE -1)
         /\ e.ud = (IF a.closure >= 0 THEN a.closure + off ELSE -1)
         /\ e.destroy = (IF a.destroy >= 0 THEN a.destroy + off ELSE -1)
         /\ e.scope = a.scope /\ e.item = a.item /\ e.atype = a.atype /\ e.fixed = a.fixed /\ e.zero = a.zero
<1>1. DOMAIN e = DOMAIN Blank
  BY DEF Entry
<1>2. {"meta", "dir", "tag", "transfer", "py", "c", "len", "ud", "destroy", "scope", "item", "atype", "fixed", "zero"}
         \subseteq DOMAIN Blank
  BY DEF Blank
<1>3. /\ e.meta = (IF a.tag = "error" THEN "child" ELSE "parent") /\ e.dir = dir
      /\ e.tag = a.tag /\ e.transfer = a.transfer /\ e.py = py /\ e.c = c
  BY <1>2 DEF Entry
<1>4. /\ e.len = (IF a.len >= 0 THEN a.len + off ELSE -1)
      /\ e.ud = (IF a.closure >= 0 THEN a.closure + off ELSE -1)
      /\ e.destroy = (IF a.destroy >= 0 THEN a.destroy + off ELSE -1)
  BY <1>2 DEF Entry
<1>5. e.scope = a.scope /\ e.item = a.item /\ e.atype = a.atype /\ e.fixed = a.fixed /\ e.zero = a.zero
  BY <1>2 DEF Entry
<1> QED BY <1>1, <1>3, <1>4, <1>5

LEMMA EntrySwept ==
  ASSUME NEW a, NEW dir, NEW c, NEW py, NEW off, NEW e, e = Entry(a, dir, c, py, off)
  PROVE  /\ e.fromClean = (FromPython(dir) /\ HasFromCleanup(a.tag))
         /\ e.toClean = (ToPython(dir) /\ HasToCleanup(a.tag))
<1>1. {"fromClean", "toClean"} \subseteq DOMAIN Blank
  BY DEF Blank
<1> QED BY <1>1 DEF Entry

-----------------------------------------------------------------------------
(* The cache, step by step *)

\* Before the first argument only the return value has said anything.
LEMMA FirstMarks ==
  ASSUME NEW s, Regular(s), NEW off, off = Offset(s.ftype)
  PROVE  \A j : /\ Lengthed(s, off, j) <=> HasLengthArg(s, -1) /\ j = LengthAt(s, -1)
                /\ ~Fed(s, off, j) /\ ~Ended(s, off, j)
<1>1. off \in {0, 1} /\ \A i \in ArgsOf(s) : ~(i < off)
  BY Ways DEF ArgsOf
<1> QED BY <1>1 DEF Lengthed, Fed, Ended

LEMMA ReturnSetUp ==
  ASSUME NEW s, Regular(s), NEW cc, cc = NewCallable(s), NEW r, r = ArgCacheNew(cc, s.ret, "to", -1, -1), r.ok
  PROVE  /\ Rest(cc, r.cc, {"args", "nToChild", "toPy"}) /\ r.cc.nToChild = 0
         /\ \A j : j \in DOMAIN r.cc.args <=> Lengthed(s, Offset(s.ftype), j)
         /\ \A j \in DOMAIN r.cc.args :
              r.cc.args[j].meta = "child" /\ r.cc.args[j].dir = "to" /\ DOMAIN r.cc.args[j] = DOMAIN Blank
<1> DEFINE off == Offset(s.ftype)
           e == Entry(s.ret, "to", -1, -1, off)
           dd == ArraySetUp(cc, e.len, "to", -1)
           l == LengthAt(s, -1)
<1>1. /\ DOMAIN cc = CacheFields /\ cc.ftype = s.ftype /\ DOMAIN cc.args = {} /\ cc.nToChild = 0
  BY NewIs
<1>2. ToPython("to") /\ ~FromPython("to")
  BY DEF ToPython, FromPython
<1>3. /\ s.ret.tag = "callback" => ~r.ok
      /\ s.ret.tag = "array" => r.cc = IF NeedsUpdate(dd, e.len) THEN UpdateIndexes(dd, e.len) ELSE dd
      /\ s.ret.tag \notin {"callback", "array"} => r.cc = cc
  <2>1. e = Entry(s.ret, "to", -1, -1, Offset(cc.ftype)) /\ dd = ArraySetUp(cc, e.len, "to", -1)
    BY <1>1
  <2> HIDE DEF e, dd
  <2>2. s.ret.tag = "callback" => ~r.ok
    BY <1>2, <2>1, ArgNew
  <2>3. s.ret.tag = "array" => r.cc = IF NeedsUpdate(dd, e.len) THEN UpdateIndexes(dd, e.len) ELSE dd
    BY <1>2, <2>1, ArgNew
  <2>4. s.ret.tag \notin {"callback", "array"} => r.cc = cc
    BY <1>2, <2>1, ArgNew
  <2> QED BY <2>2, <2>3, <2>4
<1>4. e.len = IF s.ret.len >= 0 THEN s.ret.len + off ELSE -1
  BY EntryIs
<1>5. s.ret = ArgOf(s, -1) /\ s.ret.len \in Int /\ off \in {0, 1}
  BY Owners, Ways DEF ArgOf
<1> HIDE DEF e, dd
<1>6. CASE HasLengthArg(s, -1)
  <2>1. s.ret.tag = "array" /\ e.len = l /\ l \in Nat
    BY <1>4, <1>5, <1>6 DEF HasLengthArg, LengthAt
  <2>2. Child0(cc, l) = Blank /\ ~IsChild(Child0(cc, l))
    BY <1>1 DEF Child0, IsChild, Blank
  <2> DEFINE f == LengthEntry(cc, l, "to", "child")
  <2>3. /\ dd.args = Only(l, f) ++ cc.args /\ Rest(cc, dd, {"args", "nToChild", "toPy"})
        /\ dd.nToChild = cc.nToChild
    <3>1. ~LengthFirst("to", l, -1) /\ ~(l < -1)
      BY <1>2, <2>1 DEF LengthFirst
    <3>2. dd = (LET cc1 == IF FromPython("to") THEN SetupArrayFromPy(cc, l, "to", -1) ELSE cc
                IN  IF ToPython("to") THEN SetupArrayToPy(cc1, l, "to", -1) ELSE cc1)
      BY <2>1 DEF dd, ArraySetUp
    <3> QED BY <1>1, <2>1, <2>2, <3>1, <3>2, SetupIs
  <2>4. f.meta = "child" /\ f.dir = "to" /\ DOMAIN f = DOMAIN Blank
    BY <2>2 DEF LengthEntry, Blank
  <2> HIDE DEF f
  <2>5. DOMAIN (Only(l, f) ++ cc.args) = {l} \cup DOMAIN cc.args
    BY OnlyDomain
  <2>6. (Only(l, f) ++ cc.args)[l] = f
    BY OnlyOver
  <2>7. DOMAIN dd.args = {l} /\ dd.args[l] = f
    BY <1>1, <2>3, <2>5, <2>6
  <2>8. r.cc = dd
    BY <1>3, <2>1, <2>4, <2>7 DEF NeedsUpdate
  <2> QED BY <1>1, <1>6, <2>3, <2>4, <2>7, <2>8, FirstMarks
<1>7. CASE ~HasLengthArg(s, -1)
  <2>1. r.cc = cc
    <3>1. CASE s.ret.tag = "array"
      <4>1. e.len = -1
        BY <1>4, <1>5, <1>7, <3>1 DEF HasLengthArg
      <4>2. dd = cc
        BY <4>1, <1>2 DEF dd, ArraySetUp, SetupArrayToPy
      <4> QED BY <1>3, <3>1, <4>1, <4>2 DEF NeedsUpdate
    <3> QED BY <1>3, <3>1
  <2> QED BY <1>1, <1>7, <2>1, FirstMarks DEF Rest
<1> QED BY <1>6, <1>7

LEMMA SelfIs ==
  /\ DOMAIN Self = DOMAIN Blank /\ Self.meta = "parent" /\ Self.dir = "from" /\ Self.py = 0 /\ Self.c = 0
  /\ Self.tag = "self"
BY DEF Self, Blank

LEMMA ReturnStep ==
  ASSUME NEW s, Regular(s), NEW cc, cc = NewCallable(s), NEW r, r = ArgCacheNew(cc, s.ret, "to", -1, -1), r.ok,
         NEW dd, dd = [r.cc EXCEPT !.ret = r.e],
         NEW new, new = IF IsMethod(s.ftype) THEN Instance(dd) ELSE dd
  PROVE  CacheOK(s, new, Offset(s.ftype))
<1> DEFINE off == Offset(s.ftype)
<1>1. /\ cc.ftype = s.ftype /\ cc.n = Count(s) /\ cc.nFrom = 0 /\ cc.nTo = 0 /\ cc.nPy = 0
  BY NewIs
<1>2. /\ Rest(cc, r.cc, {"args", "nToChild", "toPy"}) /\ r.cc.nToChild = 0
      /\ \A j : j \in DOMAIN r.cc.args <=> Lengthed(s, off, j)
      /\ \A j \in DOMAIN r.cc.args :
           r.cc.args[j].meta = "child" /\ r.cc.args[j].dir = "to" /\ DOMAIN r.cc.args[j] = DOMAIN Blank
  <2>1. Rest(cc, r.cc, {"args", "nToChild", "toPy"}) /\ r.cc.nToChild = 0
    BY ReturnSetUp
  <2>2. \A j : j \in DOMAIN r.cc.args <=> Lengthed(s, Offset(s.ftype), j)
    BY ReturnSetUp, SMTT(30)
  <2>3. \A j \in DOMAIN r.cc.args :
           r.cc.args[j].meta = "child" /\ r.cc.args[j].dir = "to" /\ DOMAIN r.cc.args[j] = DOMAIN Blank
    BY ReturnSetUp
  <2> QED BY <2>1, <2>2, <2>3
<1>3. /\ DOMAIN dd = CacheFields /\ dd.ftype = s.ftype /\ dd.n = Count(s) /\ dd.nFrom = 0 /\ dd.nTo = 0 /\ dd.nPy = 0
      /\ dd.nToChild = 0 /\ dd.args = r.cc.args
  BY <1>1, <1>2 DEF Rest, CacheFields
<1>4. /\ \A j : ~Fed(s, off, j) /\ ~Ended(s, off, j)
      /\ \A j : Lengthed(s, off, j) => /\ j \in ArgsOf(s) /\ j \in Numbers(s) /\ j >= off /\ WayOf(s, j) = "to"
                                       /\ Meta(s, off, j) = "child"
  <2>1. \A j : Lengthed(s, off, j) => HasLengthArg(s, -1) /\ j = LengthAt(s, -1)
    BY FirstMarks
  <2>2. \A j : Lengthed(s, off, j) => j \in ArgsOf(s) /\ WayOf(s, j) = "to" /\ ~IsClosure(s, j)
    BY <2>1, Owners DEF LengthRegular, WayOf
  <2>3. \A j : ~Fed(s, off, j) /\ ~Ended(s, off, j)
    BY FirstMarks
  <2>4. ArgsOf(s) \subseteq Numbers(s)
    BY Ways
  <2>5. \A j \in ArgsOf(s) : j >= off
    BY Ways DEF ArgsOf
  <2>6. \A j : Lengthed(s, off, j) => Meta(s, off, j) = "child"
    BY <2>2, <2>3 DEF Meta
  <2> HIDE DEF off
  <2> QED BY <2>2, <2>3, <2>4, <2>5, <2>6
<1>5. off \in {0, 1} /\ off <= Count(s) /\ Count(s) \in Nat /\ (off = 1 <=> IsMethod(s.ftype))
  BY Ways DEF Offset
<1>6. Below(Lengths(s, off), off) = 0
  <2>1. \A j \in 0 .. off - 1 : j \notin Lengths(s, off)
    BY <1>4, <1>5 DEF Lengths
  <2> QED BY <1>5, <2>1, BelowNone
<1>7. Below(ToOnes(s), off) = 0
  <2>1. \A j \in 0 .. off - 1 : j \notin ToOnes(s)
    BY <1>5, Ways DEF ToOnes, ArgsOf, ToPython
  <2> QED BY <1>5, <2>1, BelowNone
<1>7a. ASSUME NEW j \in DOMAIN dd.args
       PROVE  EntryOK(s, off, j, dd.args[j]) /\ j >= off
  <2>1. Lengthed(s, off, j)
    BY <1>2, <1>3, <1>7a
  <2>2. dd.args[j].meta = Meta(s, off, j) /\ dd.args[j].dir = WayOf(s, j) /\ ~(j < off) /\ j >= off
    BY <1>2, <1>3, <1>4, <1>5, <1>7a, <2>1, Ways
  <2>3. DOMAIN dd.args[j] = DOMAIN Blank
    BY <1>2, <1>3, <1>7a
  <2> HIDE DEF off
  <2> QED BY <2>2, <2>3, Zenon DEF EntryOK
<1>8. CASE ~IsMethod(s.ftype)
  <2>1. off = 0 /\ new = dd
    BY <1>5, <1>8
  <2>2. \A S : Below(S, 0) = 0
    BY BelowNone
  <2>3. \A j \in DOMAIN new.args : EntryOK(s, off, j, new.args[j])
    BY <1>7a, <2>1, Zenon
  <2> QED BY <1>2, <1>3, <1>4, <1>5, <2>1, <2>2, <2>3 DEF CacheOK, Numbers
<1>9. CASE IsMethod(s.ftype)
  <2>1. off = 1 /\ new = [Put(dd, 0, Self) EXCEPT !.nFrom = 1, !.nPy = 1]
    BY <1>5, <1>9 DEF Instance
  <2>2. Put(dd, 0, Self).args = Only(0, Self) ++ dd.args /\ Rest(dd, Put(dd, 0, Self), {"args"})
    <3>1. DOMAIN dd = CacheFields
      BY <1>3
    <3>2. \A x : DOMAIN x = CacheFields => Put(x, 0, Self).args = Only(0, Self) ++ x.args /\ Rest(x, Put(x, 0, Self), {"args"})
      BY PutIs
    <3> QED BY <3>1, <3>2
  <2>3. DOMAIN (Only(0, Self) ++ dd.args) = {0} \cup DOMAIN dd.args
    BY OnlyDomain
  <2>4. (Only(0, Self) ++ dd.args)[0] = Self /\ \A j \in DOMAIN dd.args : j # 0 => (Only(0, Self) ++ dd.args)[j] = dd.args[j]
    BY OnlyOver
  <2>5. /\ DOMAIN new = CacheFields /\ new.ftype = s.ftype /\ new.n = Count(s) /\ new.nFrom = 1 /\ new.nPy = 1
        /\ new.nTo = 0 /\ new.nToChild = 0 /\ new.args = Put(dd, 0, Self).args
    <3> DEFINE put == Put(dd, 0, Self)
    <3>1. DOMAIN put = CacheFields /\ \A k \in CacheFields \ {"args"} : put[k] = dd[k]
      BY <2>2 DEF Rest
    <3>2. /\ put.ftype = s.ftype /\ put.n = Count(s) /\ put.nTo = 0 /\ put.nToChild = 0
          /\ {"ftype", "n", "args", "nFrom", "nTo", "nToChild", "nPy"} \subseteq DOMAIN put
      BY <1>3, <3>1 DEF CacheFields
    <3> HIDE DEF put
    <3>3. new = [put EXCEPT !.nFrom = 1, !.nPy = 1]
      BY <2>1 DEF put
    <3>4. DOMAIN new = CacheFields
      BY <3>1, <3>3
    <3>5. new.ftype = s.ftype /\ new.n = Count(s) /\ new.nFrom = 1 /\ new.nPy = 1 /\ new.nTo = 0 /\ new.nToChild = 0
      BY <3>2, <3>3
    <3>6. new.args = Put(dd, 0, Self).args
      BY <3>2, <3>3 DEF put
    <3> QED BY <3>4, <3>5, <3>6
  <2>6. 0 \in Numbers(s) /\ 0 \notin ArgsOf(s) /\ WayOf(s, 0) = "from" /\ ~IsClosure(s, 0)
    BY <1>5, <2>1, Ways DEF Numbers, ArgsOf, IsClosure
  <2>7. 0 \in Ins(s) /\ 0 \in Shows(s, off) /\ Meta(s, off, 0) = "parent"
    BY <1>4, <2>1, <2>6 DEF Ins, Shows, Meta, FromPython
  <2>8. \A S : 0 \in S => Below(S, 1) = 1 /\ Below(S, 0) = 0
    <3>1. \A S : Below(S, 0) = 0
      BY BelowNone
    <3>2. \A S : 0 \in S => Below(S, 0 + 1) = Below(S, 0) + 1
      BY BelowStep
    <3> QED BY <3>1, <3>2
  <2>9. EntryOK(s, off, 0, Self)
    BY <2>6, <2>7, <2>8, SelfIs DEF EntryOK, Placed
  <2>10. \A j \in DOMAIN dd.args : EntryOK(s, off, j, dd.args[j]) /\ j # 0
    BY <1>7a, <2>1
  <2>11. \A j \in DOMAIN new.args : EntryOK(s, off, j, new.args[j])
    BY <2>2, <2>3, <2>4, <2>5, <2>9, <2>10
  <2>12. DOMAIN new.args = {j \in Numbers(s) : j < off \/ Lengthed(s, off, j) \/ Fed(s, off, j) \/ Ended(s, off, j)}
    <3>1. \A j : j \in DOMAIN new.args <=> j = 0 \/ Lengthed(s, off, j)
      BY <1>2, <1>3, <2>2, <2>3, <2>5
    <3>2. \A j \in Numbers(s) : j < off <=> j = 0
      BY <2>1, <1>5 DEF Numbers
    <3> QED BY <1>4, <2>6, <3>1, <3>2
  <2> QED BY <1>3, <1>5, <1>6, <1>7, <2>1, <2>5, <2>7, <2>8, <2>11, <2>12 DEF CacheOK
<1> QED BY <1>8, <1>9

-----------------------------------------------------------------------------
(* From one argument to the next *)

\* Nothing changes for the arguments that p does not own, p among them.
LEMMA Unowned ==
  ASSUME NEW s, Regular(s), NEW p \in ArgsOf(s)
  PROVE  /\ ~Owns(s, p, p)
         /\ \A j : ~Owns(s, p, j) => /\ Meta(s, p + 1, j) = Meta(s, p, j)
                                     /\ Lengthed(s, p + 1, j) <=> Lengthed(s, p, j)
<1>1. ~Owns(s, p, p)
  BY Owners DEF Owns, LengthRegular, BehindRegular, Childless
<1>2. ASSUME NEW j, ~Owns(s, p, j)
      PROVE  /\ Lengthed(s, p + 1, j) <=> Lengthed(s, p, j)
             /\ Fed(s, p + 1, j) <=> Fed(s, p, j)
             /\ Ended(s, p + 1, j) <=> Ended(s, p, j)
  BY <1>2, Marks DEF Owns
<1>3. ASSUME NEW j, ~Owns(s, p, j)
      PROVE  Meta(s, p + 1, j) = Meta(s, p, j)
  BY <1>2, <1>3, Zenon DEF Meta
<1> QED BY <1>1, <1>2, <1>3

\* What p owns nobody owned before, and p knows it as a child from then on.
LEMMA Owned1 ==
  ASSUME NEW s, Regular(s), NEW p \in ArgsOf(s), NEW j, Owns(s, p, j)
  PROVE  /\ j \in ArgsOf(s) /\ j # p /\ ~IsClosure(s, j) /\ WayOf(s, j) \in {"from", "to", "both"}
         /\ ~Lengthed(s, p, j) /\ ~Fed(s, p, j) /\ ~Ended(s, p, j) /\ Meta(s, p, j) = "parent"
         /\ Meta(s, p + 1, j) = IF HasUserData(s, p) /\ j = UserDataAt(s, p) THEN "childPy" ELSE "child"
         /\ ~Moves(s, p) => p < j
         /\ Moves(s, p) => j = LengthAt(s, p) /\ WayOf(s, j) = WayOf(s, p)
<1>1. j \in ArgsOf(s) /\ j # p /\ ~IsClosure(s, j) /\ WayOf(s, j) \in {"from", "to", "both"}
  BY Owners, Ways, Unowned DEF Owns, LengthRegular, BehindRegular
<1>2. p \in Int /\ \A i \in ArgsOf(s) \cup {-1} : i < p => i # p
  BY Ways
<1>3. ~Lengthed(s, p, j) /\ ~Fed(s, p, j) /\ ~Ended(s, p, j)
  <2>1. \A i \in ArgsOf(s) \cup {-1} : i < p => ~Owns(s, i, j)
    BY <1>2, Owners
  <2> QED BY <2>1 DEF Lengthed, Fed, Ended, Owns
<1>4. Meta(s, p, j) = "parent"
  BY <1>1, <1>3, Zenon DEF Meta
<1>5. Meta(s, p + 1, j) = IF HasUserData(s, p) /\ j = UserDataAt(s, p) THEN "childPy" ELSE "child"
  <2>1. /\ Lengthed(s, p + 1, j) <=> HasLengthArg(s, p) /\ j = LengthAt(s, p)
        /\ Fed(s, p + 1, j) <=> HasUserData(s, p) /\ j = UserDataAt(s, p)
        /\ Ended(s, p + 1, j) <=> HasDestroy(s, p) /\ j = DestroyAt(s, p)
    BY <1>3, Marks
  <2> QED BY <1>1, <2>1, Zenon DEF Meta, Owns
<1>6. HasLengthArg(s, p) => ~HasUserData(s, p) /\ ~HasDestroy(s, p)
  BY DEF HasLengthArg, HasUserData, HasDestroy
<1>7. (~Moves(s, p) => p < j) /\ (Moves(s, p) => j = LengthAt(s, p) /\ WayOf(s, j) = WayOf(s, p))
  <2>1. CASE HasLengthArg(s, p)
    <3>1. j = LengthAt(s, p) /\ WayOf(s, j) = WayOf(s, p)
      BY <1>6, <2>1, Owners DEF Owns, LengthRegular
    <3>2. j \in Int /\ p \in Int
      BY <1>1, Ways
    <3> QED BY <1>1, <2>1, <3>1, <3>2 DEF Moves
  <2>2. CASE ~HasLengthArg(s, p)
    BY <2>2, Owners DEF Owns, Moves, BehindRegular
  <2> QED BY <2>1, <2>2
<1> QED BY <1>1, <1>3, <1>4, <1>5, <1>7

\* The arguments before p that a Python argument is passed for lose the length of p at most.
LEMMA ShowsSame ==
  ASSUME NEW s, Regular(s), NEW p \in ArgsOf(s), NEW k \in Numbers(s), k < p
  PROVE  /\ k \in Shows(s, p + 1) <=>
              k \in Shows(s, p) /\ ~(Moves(s, p) /\ FromPython(WayOf(s, p)) /\ k = LengthAt(s, p))
         /\ Owns(s, p, k) => Moves(s, p) /\ k = LengthAt(s, p) /\ (k \in Shows(s, p) <=> FromPython(WayOf(s, p)))
<1>1. k \in Int /\ p \in Int /\ k < p + 1
  BY Ways
<1>2. CASE ~Owns(s, p, k)
  <2>1. k \in Shows(s, p + 1) <=> k \in Shows(s, p)
    BY <1>1, <1>2, Unowned DEF Shows
  <2>2. ~(Moves(s, p) /\ k = LengthAt(s, p))
    BY <1>2 DEF Moves, Owns
  <2> QED BY <1>2, <2>1, <2>2
<1>3. CASE Owns(s, p, k)
  <2>1. Moves(s, p) /\ k = LengthAt(s, p) /\ WayOf(s, k) = WayOf(s, p) /\ Meta(s, p, k) = "parent"
    BY <1>1, <1>3, Owned1
  <2>2. Meta(s, p + 1, k) = "child"
    <3>1. ~HasUserData(s, p)
      BY <2>1 DEF Moves, HasLengthArg, HasUserData
    <3> QED BY <1>3, <3>1, Owned1
  <2>3. k \notin Shows(s, p + 1)
    BY <2>2 DEF Shows
  <2>4. k \in Shows(s, p) <=> FromPython(WayOf(s, p))
    BY <2>1 DEF Shows, Ins
  <2> QED BY <1>3, <2>1, <2>3, <2>4
<1> QED BY <1>2, <1>3

LEMMA ShowsSelf ==
  ASSUME NEW s, Regular(s), NEW p \in ArgsOf(s)
  PROVE  /\ p \in Shows(s, p + 1) <=> p \in Ins(s) /\ Meta(s, p, p) \notin {"child", "closure"}
         /\ p \in Ins(s) <=> FromPython(WayOf(s, p))
         /\ p \in ToOnes(s) <=> ToPython(WayOf(s, p))
<1>1. p \in Numbers(s) /\ p < p + 1
  BY Ways
<1>2. Meta(s, p + 1, p) = Meta(s, p, p)
  BY Unowned
<1> QED BY <1>1, <1>2 DEF Shows, Ins, ToOnes

\* The number of Python arguments at p, and after it.
LEMMA PyStep ==
  ASSUME NEW s, Regular(s), NEW p \in ArgsOf(s)
  PROVE  /\ Below(Shows(s, p), p) \in Nat
         /\ Below(Shows(s, p + 1), p) =
              IF Moves(s, p) /\ FromPython(WayOf(s, p)) THEN Below(Shows(s, p), p) - 1 ELSE Below(Shows(s, p), p)
         /\ Below(Shows(s, p + 1), p + 1) =
              IF p \in Shows(s, p + 1) THEN Below(Shows(s, p + 1), p) + 1 ELSE Below(Shows(s, p + 1), p)
<1>1. p \in Nat /\ p \in Int /\ 0 .. p - 1 \subseteq Numbers(s)
  BY Ways DEF ArgsOf, Numbers
<1>2. Below(Shows(s, p), p) \in Nat
  BY <1>1, BelowFinite
<1>3. Below(Shows(s, p + 1), p + 1) =
        IF p \in Shows(s, p + 1) THEN Below(Shows(s, p + 1), p) + 1 ELSE Below(Shows(s, p + 1), p)
  BY <1>1, BelowStep
<1>4. CASE Moves(s, p) /\ FromPython(WayOf(s, p))
  <2> DEFINE l == LengthAt(s, p)
  <2>1. l \in Nat /\ l < p
    <3>1. l \in ArgsOf(s)
      BY <1>4, Owners DEF Moves, LengthRegular
    <3> QED BY <1>4, <3>1, Ways DEF Moves
  <2>2. l \in Numbers(s) /\ Owns(s, p, l)
    BY <1>1, <1>4, <2>1 DEF Moves, Owns
  <2>3. l \in Shows(s, p) /\ l \notin Shows(s, p + 1)
    BY <1>4, <2>1, <2>2, ShowsSame
  <2>4. \A k \in 0 .. p - 1 : k # l => (k \in Shows(s, p + 1) <=> k \in Shows(s, p))
    BY <1>1, ShowsSame
  <2>5. Below(Shows(s, p), p) = Below(Shows(s, p + 1), p) + 1
    <3> HIDE DEF l
    <3> QED BY <1>1, <2>1, <2>3, <2>4, BelowAdd
  <2>6. Below(Shows(s, p + 1), p) \in Nat
    BY <1>1, BelowFinite
  <2> QED BY <1>2, <1>3, <1>4, <2>5, <2>6
<1>5. CASE ~(Moves(s, p) /\ FromPython(WayOf(s, p)))
  <2>1. \A k \in 0 .. p - 1 : k \in Shows(s, p + 1) <=> k \in Shows(s, p)
    BY <1>1, <1>5, ShowsSame
  <2>2. Below(Shows(s, p + 1), p) = Below(Shows(s, p), p)
    BY <1>1, <2>1, BelowSame
  <2> QED BY <1>2, <1>3, <1>5, <2>2
<1> QED BY <1>4, <1>5

\* The number of lengths that are no result.
LEMMA ToChildStep ==
  ASSUME NEW s, Regular(s), NEW p \in ArgsOf(s)
  PROVE  /\ Below(Lengths(s, p), p) \in Nat
         /\ Below(Lengths(s, p + 1), p + 1) =
              IF Moves(s, p) /\ ToPython(WayOf(s, p)) THEN Below(Lengths(s, p), p) + 1
              ELSE IF p \in Lengths(s, p) THEN Below(Lengths(s, p), p) + 1 ELSE Below(Lengths(s, p), p)
<1>1. p \in Nat /\ p \in Int /\ p \in Numbers(s) /\ 0 .. p - 1 \subseteq Numbers(s)
  BY Ways DEF ArgsOf, Numbers
<1>2. Below(Lengths(s, p), p) \in Nat
  BY <1>1, BelowFinite
<1>3. \A k : ~Owns(s, p, k) => (k \in Lengths(s, p + 1) <=> k \in Lengths(s, p))
  BY Unowned DEF Lengths
<1>4. p \in Lengths(s, p + 1) <=> p \in Lengths(s, p)
  BY <1>3, Unowned
<1>5. Below(Lengths(s, p + 1), p + 1) =
        IF p \in Lengths(s, p) THEN Below(Lengths(s, p + 1), p) + 1 ELSE Below(Lengths(s, p + 1), p)
  BY <1>1, <1>4, BelowStep
<1>6. CASE Moves(s, p) /\ ToPython(WayOf(s, p))
  <2> DEFINE l == LengthAt(s, p)
  <2>1. Owns(s, p, l)
    BY <1>6 DEF Moves, Owns
  <2>2. l \in Numbers(s) /\ l \in Nat /\ l < p /\ WayOf(s, l) = WayOf(s, p) /\ ~Lengthed(s, p, l)
    BY <1>6, <2>1, Owned1, Ways DEF Moves
  <2>3. Lengthed(s, p + 1, l)
    BY <1>6, Marks DEF Moves
  <2>4. l \notin Lengths(s, p) /\ l \in Lengths(s, p + 1)
    BY <1>6, <2>2, <2>3 DEF Lengths, ToOnes
  <2>5. \A k : k # l => ~Owns(s, p, k)
    BY <1>6 DEF Moves, HasLengthArg, HasUserData, HasDestroy, Owns
  <2>6. \A k \in 0 .. p - 1 : k # l => (k \in Lengths(s, p) <=> k \in Lengths(s, p + 1))
    BY <1>3, <2>5
  <2>7. Below(Lengths(s, p + 1), p) = Below(Lengths(s, p), p) + 1
    <3> HIDE DEF l
    <3> QED BY <1>1, <2>2, <2>4, <2>6, BelowAdd
  <2>8. p \notin Lengths(s, p)
    <3>1. ~Childless(s, p)
      BY <1>6 DEF Moves, Childless
    <3> QED BY <1>1, <3>1, Children DEF Lengths
  <2> QED BY <1>2, <1>5, <1>6, <2>7, <2>8
<1>7. CASE ~(Moves(s, p) /\ ToPython(WayOf(s, p)))
  <2>1. \A k \in 0 .. p - 1 : k \in Lengths(s, p + 1) <=> k \in Lengths(s, p)
    <3>1. ASSUME NEW k \in 0 .. p - 1, Owns(s, p, k)
          PROVE  k \notin Lengths(s, p + 1) /\ k \notin Lengths(s, p)
      <4>1. Moves(s, p) /\ WayOf(s, k) = WayOf(s, p)
        BY <1>1, <3>1, Owned1
      <4> QED BY <1>7, <4>1 DEF Lengths, ToOnes
    <3> QED BY <1>3, <3>1
  <2>2. Below(Lengths(s, p + 1), p) = Below(Lengths(s, p), p)
    BY <1>1, <2>1, BelowSame
  <2> QED BY <1>2, <1>5, <1>7, <2>2
<1> QED BY <1>6, <1>7

\* The place of an argument before p among the Python arguments, once p has had its turn.
LEMMA PlaceBelow ==
  ASSUME NEW s, Regular(s), NEW p \in ArgsOf(s), NEW j \in Numbers(s), j < p
  PROVE  /\ Below(Shows(s, p), j) \in Nat
         /\ Below(Shows(s, p + 1), j) =
              IF Moves(s, p) /\ FromPython(WayOf(s, p)) /\ LengthAt(s, p) < j THEN Below(Shows(s, p), j) - 1
              ELSE Below(Shows(s, p), j)
<1>1. p \in Int /\ j \in Nat /\ j \in Int /\ 0 .. j - 1 \subseteq Numbers(s) /\ \A k \in 0 .. j - 1 : k < p
  BY Ways DEF ArgsOf, Numbers
<1>2. Below(Shows(s, p), j) \in Nat /\ Below(Shows(s, p + 1), j) \in Nat
  BY <1>1, BelowFinite
<1>3. CASE Moves(s, p) /\ FromPython(WayOf(s, p)) /\ LengthAt(s, p) < j
  <2> DEFINE l == LengthAt(s, p)
  <2>1. l \in Nat /\ l < p /\ l \in Numbers(s) /\ Owns(s, p, l)
    <3>1. l \in ArgsOf(s)
      BY <1>3, Owners DEF Moves, LengthRegular
    <3> QED BY <1>3, <3>1, Ways DEF Moves, Owns
  <2>2. l \in Shows(s, p) /\ l \notin Shows(s, p + 1)
    BY <1>3, <2>1, ShowsSame
  <2>3. \A k \in 0 .. j - 1 : k # l => (k \in Shows(s, p + 1) <=> k \in Shows(s, p))
    BY <1>1, ShowsSame
  <2>4. Below(Shows(s, p), j) = Below(Shows(s, p + 1), j) + 1
    <3>1. l < j
      BY <1>3
    <3> HIDE DEF l
    <3> QED BY <1>1, <2>1, <2>2, <2>3, <3>1, BelowAdd
  <2> QED BY <1>2, <1>3, <2>4
<1>4. CASE ~(Moves(s, p) /\ FromPython(WayOf(s, p)) /\ LengthAt(s, p) < j)
  <2>1. \A k \in 0 .. j - 1 : k \in Shows(s, p + 1) <=> k \in Shows(s, p)
    BY <1>1, <1>4, ShowsSame
  <2>2. Below(Shows(s, p + 1), j) = Below(Shows(s, p), j)
    BY <1>1, <2>1, BelowSame
  <2> QED BY <1>2, <1>4, <2>2
<1> QED BY <1>3, <1>4

\* The entry of another argument that p says nothing of: only its place may change.
LEMMA Carried ==
  ASSUME NEW s, Regular(s), NEW p \in ArgsOf(s), NEW j \in Numbers(s), j # p, ~Owns(s, p, j),
         NEW e, EntryOK(s, p, j, e), NEW f, DOMAIN f = DOMAIN e, \A k \in DOMAIN e \ {"py"} : f[k] = e[k],
         j < p => f.py = IF Moves(s, p) /\ FromPython(WayOf(s, p)) /\ LengthAt(s, p) < j THEN e.py - 1 ELSE e.py
  PROVE  EntryOK(s, p + 1, j, f)
<1>1. DOMAIN f = DOMAIN Blank
  BY DEF EntryOK
<1>2. /\ f.meta = e.meta /\ f.dir = e.dir /\ f.c = e.c /\ f.tag = e.tag /\ f.named = e.named /\ f.none = e.none
      /\ f.transfer = e.transfer /\ f.len = e.len /\ f.ud = e.ud /\ f.destroy = e.destroy /\ f.scope = e.scope
      /\ f.item = e.item /\ f.atype = e.atype /\ f.fixed = e.fixed /\ f.zero = e.zero
  <2>1. DOMAIN e = DOMAIN Blank
    BY DEF EntryOK
  <2>2. {"meta", "dir", "tag", "transfer", "c", "named", "none", "len", "ud", "destroy", "scope", "item", "atype",
         "fixed", "zero"} \subseteq DOMAIN Blank
    BY DEF Blank
  <2> QED BY <2>1, <2>2
<1>3. f.meta = Meta(s, p + 1, j) /\ f.dir = WayOf(s, j)
  BY <1>2, Unowned DEF EntryOK
<1>4. p \in Int /\ j \in Int /\ (j < p + 1 => j < p)
  BY Ways
<1>5. ASSUME j < p
      PROVE  Placed(s, p + 1, j, f)
  <2>1. Placed(s, p, j, e)
    BY <1>5 DEF EntryOK
  <2>2. f.c = IF f.meta \in {"child", "childPy"} /\ j \in Ins(s) THEN Below(Ins(s), j)
              ELSE IF f.meta = "parent" THEN j ELSE f.c
    BY <1>2, <2>1 DEF Placed
  <2>3. j \in Shows(s, p + 1) => f.py = Below(Shows(s, p + 1), j)
    <3>1. j \in Shows(s, p + 1) <=> j \in Shows(s, p)
      BY <1>5, ShowsSame DEF Moves, Owns
    <3>2. j \in Shows(s, p) => e.py = Below(Shows(s, p), j)
      BY <2>1 DEF Placed
    <3> QED BY <1>5, <3>1, <3>2, PlaceBelow
  <2>4. j \in ArgsOf(s) /\ f.meta # "closure" => f.tag = ArgOf(s, j).tag
    BY <1>2, <2>1 DEF Placed
  <2>5. j \in ArgsOf(s) /\ f.meta = "parent" => Described(s, j, f)
    BY <1>2, <2>1 DEF Placed, Described
  <2>6. j \notin ArgsOf(s) => f.tag = "self"
    BY <1>2, <2>1 DEF Placed
  <2>7. j \in ArgsOf(s) /\ f.meta = "parent" => Swept(s, j, f)
    <3>1. f.fromClean = e.fromClean /\ f.toClean = e.toClean
      <4>1. DOMAIN e = DOMAIN Blank
        BY DEF EntryOK
      <4>2. {"fromClean", "toClean"} \subseteq DOMAIN Blank
        BY DEF Blank
      <4> QED BY <4>1, <4>2
    <3>2. j \in ArgsOf(s) /\ e.meta = "parent" => Swept(s, j, e)
      BY <2>1 DEF Placed
    <3> QED BY <1>2, <3>1, <3>2 DEF Swept
  <2> QED BY <2>2, <2>3, <2>4, <2>5, <2>6, <2>7 DEF Placed
<1> QED BY <1>1, <1>3, <1>4, <1>5 DEF EntryOK

LEMMA NextOK ==
  ASSUME NEW s, Regular(s), NEW p \in ArgsOf(s), NEW cc, CacheOK(s, cc, p), NEW new, Grown(s, p, cc, new)
  PROVE  CacheOK(s, new, p + 1)
<1>0. /\ DOMAIN new = CacheFields /\ new.ftype = cc.ftype /\ new.n = cc.n
      /\ new.nFrom = IF FromPython(WayOf(s, p)) THEN cc.nFrom + 1 ELSE cc.nFrom
      /\ new.nTo = IF ToPython(WayOf(s, p)) THEN cc.nTo + 1 ELSE cc.nTo
      /\ new.nPy = Below(Shows(s, p + 1), p + 1) /\ new.nToChild = Below(Lengths(s, p + 1), p + 1)
      /\ \A j : j \in DOMAIN new.args <=> j \in DOMAIN cc.args \/ j = p \/ Owns(s, p, j)
      /\ \A j \in DOMAIN new.args : EntryOK(s, p + 1, j, new.args[j])
  BY DEF Grown
<1>1. p \in Nat /\ p \in Numbers(s) /\ p + 1 \in Offset(s.ftype) .. Count(s)
  BY Ways DEF ArgsOf
<1>2. new.nFrom = Below(Ins(s), p + 1) /\ new.nTo = Below(ToOnes(s), p + 1)
  <2>1. cc.nFrom = Below(Ins(s), p) /\ cc.nTo = Below(ToOnes(s), p)
    BY DEF CacheOK
  <2>2. /\ Below(Ins(s), p + 1) = IF p \in Ins(s) THEN Below(Ins(s), p) + 1 ELSE Below(Ins(s), p)
        /\ Below(ToOnes(s), p + 1) = IF p \in ToOnes(s) THEN Below(ToOnes(s), p) + 1 ELSE Below(ToOnes(s), p)
    BY <1>1, BelowStep
  <2> QED BY <1>0, <2>1, <2>2, ShowsSelf
<1>3. DOMAIN new.args =
        {j \in Numbers(s) : j < p + 1 \/ Lengthed(s, p + 1, j) \/ Fed(s, p + 1, j) \/ Ended(s, p + 1, j)}
  <2>1. \A j : j \in DOMAIN cc.args <=>
                 j \in Numbers(s) /\ (j < p \/ Lengthed(s, p, j) \/ Fed(s, p, j) \/ Ended(s, p, j))
    BY DEF CacheOK
  <2>2. \A j \in Numbers(s) : j < p + 1 <=> j < p \/ j = p
    BY <1>1, Ways
  <2>3. \A j : Owns(s, p, j) => j \in Numbers(s)
    BY Owned1, Ways
  <2>4. \A j : Lengthed(s, p + 1, j) \/ Fed(s, p + 1, j) \/ Ended(s, p + 1, j) <=>
                 Lengthed(s, p, j) \/ Fed(s, p, j) \/ Ended(s, p, j) \/ Owns(s, p, j)
    BY Marks DEF Owns
  <2>5. \A j : j \in DOMAIN new.args <=>
                 /\ j \in Numbers(s)
                 /\ j < p + 1 \/ Lengthed(s, p + 1, j) \/ Fed(s, p + 1, j) \/ Ended(s, p + 1, j)
    BY <1>0, <1>1, <2>1, <2>2, <2>3, <2>4
  <2> QED BY <2>5, Zenon
<1>4. new.ftype = s.ftype /\ new.n = Count(s)
  BY <1>0 DEF CacheOK
<1> QED BY <1>0, <1>1, <1>2, <1>3, <1>4 DEF CacheOK

LEMMA ClosureStep ==
  ASSUME NEW s, Regular(s), NEW p \in ArgsOf(s), IsClosure(s, p), NEW cc, CacheOK(s, cc, p), NEW e,
         DOMAIN e = DOMAIN Blank, e.meta = "closure", e.dir = "from",
         NEW new, new = [Put(cc, p, e) EXCEPT !.nFrom = @ + 1]
  PROVE  CacheOK(s, new, p + 1)
<1>1. WayOf(s, p) = "from" /\ ~HasLengthArg(s, p) /\ ~HasUserData(s, p) /\ ~HasDestroy(s, p)
  BY DEF Regular, HasLengthArg, HasUserData, HasDestroy
<1>2. ~Moves(s, p) /\ \A j : ~Owns(s, p, j)
  BY <1>1 DEF Moves, Owns
<1>3. Meta(s, p, p) = "closure" /\ Meta(s, p + 1, p) = "closure"
  BY Unowned DEF Meta
<1>4. FromPython(WayOf(s, p)) /\ ~ToPython(WayOf(s, p))
  BY <1>1 DEF FromPython, ToPython
<1>5. p \notin Shows(s, p + 1) /\ p \notin Lengths(s, p)
  BY <1>3, <1>4, ShowsSelf DEF Lengths
<1> DEFINE put == Put(cc, p, e)
<1>6. DOMAIN cc = CacheFields
  BY DEF CacheOK
<1>7. put.args = Only(p, e) ++ cc.args /\ Rest(cc, put, {"args"})
  BY <1>6, PutIs, Zenon
<1>8. /\ DOMAIN put = CacheFields /\ put.ftype = cc.ftype /\ put.n = cc.n /\ put.nFrom = cc.nFrom
      /\ put.nTo = cc.nTo /\ put.nPy = cc.nPy /\ put.nToChild = cc.nToChild
  BY <1>7 DEF Rest, CacheFields
<1> HIDE DEF put
<1>9. /\ DOMAIN new = CacheFields /\ new.ftype = cc.ftype /\ new.n = cc.n /\ new.nFrom = cc.nFrom + 1
      /\ new.nTo = cc.nTo /\ new.nPy = cc.nPy /\ new.nToChild = cc.nToChild /\ new.args = put.args
  <2>1. new = [put EXCEPT !.nFrom = @ + 1]
    BY DEF put
  <2>2. {"ftype", "n", "args", "nFrom", "nTo", "nToChild", "nPy"} \subseteq DOMAIN put
    BY <1>8 DEF CacheFields
  <2>3. new.args = put.args
    BY <2>1, <2>2
  <2>4. DOMAIN new = CacheFields
    BY <1>8, <2>1
  <2> QED BY <1>8, <2>1, <2>2, <2>3, <2>4
<1>10. DOMAIN (Only(p, e) ++ cc.args) = {p} \cup DOMAIN cc.args
  BY OnlyDomain
<1>11. (Only(p, e) ++ cc.args)[p] = e /\ \A j \in DOMAIN cc.args : j # p => (Only(p, e) ++ cc.args)[j] = cc.args[j]
  BY OnlyOver
<1>12. new.nPy = Below(Shows(s, p + 1), p + 1) /\ new.nToChild = Below(Lengths(s, p + 1), p + 1)
  BY <1>2, <1>5, <1>9, PyStep, ToChildStep DEF CacheOK
<1>13. \A j \in DOMAIN new.args : EntryOK(s, p + 1, j, new.args[j])
  <2>1. EntryOK(s, p + 1, p, e)
    <3>1. Placed(s, p + 1, p, e)
      BY <1>5 DEF Placed
    <3> QED BY <1>1, <1>3, <3>1, Zenon DEF EntryOK
  <2>2. ASSUME NEW j \in DOMAIN cc.args, j # p
        PROVE  EntryOK(s, p + 1, j, cc.args[j])
    <3>1. EntryOK(s, p, j, cc.args[j]) /\ j \in Numbers(s)
      BY DEF CacheOK
    <3> QED BY <1>2, <2>2, <3>1, Carried
  <2> QED BY <1>7, <1>9, <1>10, <1>11, <2>1, <2>2
<1>14. Grown(s, p, cc, new)
  BY <1>2, <1>4, <1>7, <1>9, <1>10, <1>12, <1>13 DEF Grown
<1> QED BY <1>14, NextOK

LEMMA ChildStep ==
  ASSUME NEW s, Regular(s), NEW p \in ArgsOf(s), ~IsClosure(s, p), NEW cc, CacheOK(s, cc, p), p \in DOMAIN cc.args,
         NEW dir, dir = WayOf(s, p), NEW e, e = cc.args[p], NEW f, DOMAIN f = DOMAIN e,
         f.meta = e.meta, f.dir = e.dir, f.tag = ArgOf(s, p).tag,
         FromPython(dir) => f.c = cc.nFrom, e.meta = "childPy" => f.py = cc.nPy,
         NEW new, new = AfterChild(cc, p, f, e, dir)
  PROVE  CacheOK(s, new, p + 1)
<1>1. Lengthed(s, p, p) \/ Fed(s, p, p) \/ Ended(s, p, p)
  BY Ways DEF CacheOK
<1>2. p \in Int
  BY Ways
<1>3. Childless(s, p) /\ (Fed(s, p, p) \/ Ended(s, p, p) => dir = "from") /\ (Fed(s, p, p) => ~Lengthed(s, p, p))
  BY <1>1, <1>2, Children
<1>4. ~Moves(s, p) /\ \A j : ~Owns(s, p, j)
  BY <1>3 DEF Moves, Owns, Childless
<1>5. EntryOK(s, p, p, e)
  BY DEF CacheOK
<1>6. e.meta = Meta(s, p, p) /\ e.meta = Meta(s, p + 1, p) /\ e.meta = IF Fed(s, p, p) THEN "childPy" ELSE "child"
  BY <1>1, <1>5, Unowned DEF EntryOK, Meta
<1>7. p \in Shows(s, p + 1) <=> e.meta = "childPy"
  <2>1. e.meta = "childPy" => FromPython(WayOf(s, p))
    BY <1>3, <1>6 DEF FromPython
  <2> QED BY <1>6, <2>1, ShowsSelf
<1>8. p \in Lengths(s, p) <=> ToPython(dir)
  <2>1. ToPython(dir) => Lengthed(s, p, p)
    BY <1>1, <1>3 DEF ToPython
  <2> QED BY <2>1, ShowsSelf DEF Lengths
<1> DEFINE put == Put(cc, p, f)
<1>9. DOMAIN cc = CacheFields
  BY DEF CacheOK
<1>10. put.args = Only(p, f) ++ cc.args /\ Rest(cc, put, {"args"})
  BY <1>9, PutIs, Zenon
<1>11. /\ DOMAIN put = CacheFields /\ put.ftype = cc.ftype /\ put.n = cc.n /\ put.nFrom = cc.nFrom
       /\ put.nTo = cc.nTo /\ put.nPy = cc.nPy /\ put.nToChild = cc.nToChild
  BY <1>10 DEF Rest, CacheFields
<1> HIDE DEF put
<1>12. /\ DOMAIN new = CacheFields /\ new.ftype = cc.ftype /\ new.n = cc.n /\ new.args = put.args
       /\ new.nFrom = (IF FromPython(dir) THEN cc.nFrom + 1 ELSE cc.nFrom)
       /\ new.nTo = (IF ToPython(dir) THEN cc.nTo + 1 ELSE cc.nTo)
       /\ new.nPy = (IF e.meta = "childPy" THEN cc.nPy + 1 ELSE cc.nPy)
       /\ new.nToChild = (IF ToPython(dir) THEN cc.nToChild + 1 ELSE cc.nToChild)
  <2>1. new = [put EXCEPT !.nPy = IF e.meta = "childPy" THEN @ + 1 ELSE @,
                          !.nFrom = IF FromPython(dir) THEN @ + 1 ELSE @,
                          !.nTo = IF ToPython(dir) THEN @ + 1 ELSE @,
                          !.nToChild = IF ToPython(dir) THEN @ + 1 ELSE @]
    BY DEF put, AfterChild
  <2>2. {"ftype", "n", "args", "nFrom", "nTo", "nToChild", "nPy"} \subseteq DOMAIN put
    BY <1>11 DEF CacheFields
  <2>3. DOMAIN new = CacheFields
    BY <1>11, <2>1
  <2>4. new.ftype = cc.ftype /\ new.n = cc.n /\ new.args = put.args
    BY <1>11, <2>1, <2>2
  <2>5. new.nFrom = (IF FromPython(dir) THEN cc.nFrom + 1 ELSE cc.nFrom)
    BY <1>11, <2>1, <2>2
  <2>8. new.nTo = (IF ToPython(dir) THEN cc.nTo + 1 ELSE cc.nTo)
    BY <1>11, <2>1, <2>2
  <2>6. new.nPy = (IF e.meta = "childPy" THEN cc.nPy + 1 ELSE cc.nPy)
    BY <1>11, <2>1, <2>2
  <2>7. new.nToChild = (IF ToPython(dir) THEN cc.nToChild + 1 ELSE cc.nToChild)
    BY <1>11, <2>1, <2>2
  <2> QED BY <2>3, <2>4, <2>5, <2>6, <2>7, <2>8
<1>13. DOMAIN (Only(p, f) ++ cc.args) = {p} \cup DOMAIN cc.args
  BY OnlyDomain
<1>14. (Only(p, f) ++ cc.args)[p] = f /\ \A j \in DOMAIN cc.args : j # p => (Only(p, f) ++ cc.args)[j] = cc.args[j]
  BY OnlyOver
<1>15. cc.nPy = Below(Shows(s, p), p) /\ cc.nToChild = Below(Lengths(s, p), p) /\ cc.nFrom = Below(Ins(s), p)
  BY DEF CacheOK
<1>16. /\ Below(Shows(s, p + 1), p) = Below(Shows(s, p), p)
       /\ new.nPy = Below(Shows(s, p + 1), p + 1) /\ new.nToChild = Below(Lengths(s, p + 1), p + 1)
  BY <1>4, <1>7, <1>8, <1>12, <1>15, PyStep, ToChildStep
<1>17. EntryOK(s, p + 1, p, f)
  <2>1. f.c = IF f.meta \in {"child", "childPy"} /\ p \in Ins(s) THEN Below(Ins(s), p)
              ELSE IF f.meta = "parent" THEN p ELSE f.c
    BY <1>6, <1>15, ShowsSelf
  <2>2. p \in Shows(s, p + 1) => f.py = Below(Shows(s, p + 1), p)
    BY <1>7, <1>15, <1>16
  <2>3. f.meta # "parent"
    BY <1>6
  <2>4. Placed(s, p + 1, p, f)
    BY <2>1, <2>2, <2>3 DEF Placed
  <2> QED BY <1>5, <1>6, <2>4, Zenon DEF EntryOK
<1>18. \A j \in DOMAIN new.args : EntryOK(s, p + 1, j, new.args[j])
  <2>2. ASSUME NEW j \in DOMAIN cc.args, j # p
        PROVE  EntryOK(s, p + 1, j, cc.args[j])
    <3>1. EntryOK(s, p, j, cc.args[j]) /\ j \in Numbers(s)
      BY DEF CacheOK
    <3> QED BY <1>4, <2>2, <3>1, Carried
  <2> QED BY <1>10, <1>12, <1>13, <1>14, <1>17, <2>2
<1>19. \A j : j \in DOMAIN new.args <=> j \in DOMAIN cc.args \/ j = p \/ Owns(s, p, j)
  BY <1>4, <1>10, <1>12, <1>13
<1>20. /\ new.nFrom = (IF FromPython(WayOf(s, p)) THEN cc.nFrom + 1 ELSE cc.nFrom)
       /\ new.nTo = (IF ToPython(WayOf(s, p)) THEN cc.nTo + 1 ELSE cc.nTo)
  BY <1>12
<1>21. /\ DOMAIN new = CacheFields /\ new.ftype = cc.ftype /\ new.n = cc.n
       /\ new.nPy = Below(Shows(s, p + 1), p + 1) /\ new.nToChild = Below(Lengths(s, p + 1), p + 1)
  BY <1>12, <1>16
<1>22. Grown(s, p, cc, new)
  BY <1>18, <1>19, <1>20, <1>21 DEF Grown
<1> QED BY <1>22, NextOK

\* The length of an array, as its entry was.
LEMMA LengthWas ==
  ASSUME NEW s, Regular(s), NEW p \in ArgsOf(s), NEW cc, ArgsOK(s, p, cc.args), HasLengthArg(s, p),
         NEW l, l = LengthAt(s, p)
  PROVE  /\ l \in Nat /\ l \in Numbers(s) /\ l # p /\ (Moves(s, p) <=> l < p) /\ Owns(s, p, l)
         /\ \A j : Owns(s, p, j) => j = l
         /\ l \in DOMAIN cc.args <=> Moves(s, p)
         /\ DOMAIN Child0(cc, l) = DOMAIN Blank /\ Child0(cc, l).meta = "parent" /\ ~IsChild(Child0(cc, l))
         /\ Moves(s, p) => /\ Placed(s, p, l, Child0(cc, l))
                           /\ FromPython(WayOf(s, p)) => l \in Ins(s) /\ Below(Ins(s), l) = l
<1>1. Owns(s, p, l) /\ (Moves(s, p) <=> l < p) /\ \A j : Owns(s, p, j) => j = l
  BY DEF Owns, Moves, HasLengthArg, HasUserData, HasDestroy
<1>2. l \in ArgsOf(s) /\ l # p /\ ~Lengthed(s, p, l) /\ ~Fed(s, p, l) /\ ~Ended(s, p, l) /\ Meta(s, p, l) = "parent"
  BY <1>1, Owned1
<1>3. l \in Nat /\ l \in Int /\ l \in Numbers(s)
  BY <1>2, Ways
<1>4. l \in DOMAIN cc.args <=> Moves(s, p)
  BY <1>1, <1>2, <1>3 DEF ArgsOK
<1>5. DOMAIN Child0(cc, l) = DOMAIN Blank /\ Child0(cc, l).meta = "parent"
  <2>1. CASE l \in DOMAIN cc.args
    <3>1. EntryOK(s, p, l, cc.args[l]) /\ Child0(cc, l) = cc.args[l]
      BY <2>1 DEF ArgsOK, Child0
    <3> QED BY <1>2, <3>1 DEF EntryOK
  <2>2. CASE l \notin DOMAIN cc.args
    <3>1. Child0(cc, l) = Blank
      BY <2>2 DEF Child0
    <3> QED BY <3>1 DEF Blank
  <2> QED BY <2>1, <2>2
<1>6. Moves(s, p) => Placed(s, p, l, Child0(cc, l))
  BY <1>1, <1>4 DEF ArgsOK, EntryOK, Child0
<1>7. ASSUME Moves(s, p), FromPython(WayOf(s, p))
      PROVE  l \in Ins(s) /\ Below(Ins(s), l) = l
  <2>1. LengthRegular(s, p, l)
    BY Owners
  <2>2. WayOf(s, l) = WayOf(s, p) /\ \A j \in ArgsOf(s) : j < l => WayOf(s, j) # "to"
    BY <1>1, <1>7, <2>1 DEF LengthRegular
  <2>3. \A j \in 0 .. l - 1 : j \in Numbers(s) /\ j < l
    BY <1>3, <1>2, Ways DEF Numbers, ArgsOf
  <2>4. \A j \in 0 .. l - 1 : j \in Ins(s)
    BY <2>2, <2>3, Ways DEF Ins, FromPython
  <2> QED BY <1>3, <1>7, <2>2, <2>4, BelowAll DEF Ins
<1> QED BY <1>1, <1>2, <1>3, <1>4, <1>5, <1>6, <1>7 DEF IsChild

\* What NeedsUpdate and UpdateIndexes do to an entry.
LEMMA UpdateIs ==
  ASSUME NEW cc, DOMAIN cc = CacheFields, NEW l, NEW new, new = UpdateIndexes(cc, l)
  PROVE  /\ Rest(cc, new, {"args", "nPy"}) /\ new.nPy = cc.nPy - 1 /\ DOMAIN new.args = DOMAIN cc.args
         /\ \A j \in DOMAIN cc.args :
              new.args[j] = IF j = l THEN [cc.args[j] EXCEPT !.meta = "child"]
                            ELSE IF j \in Behind(cc, l) THEN [cc.args[j] EXCEPT !.py = @ - 1] ELSE cc.args[j]
<1> DEFINE moved == [i \in DOMAIN cc.args |->
                       IF i = l THEN [cc.args[i] EXCEPT !.meta = "child"]
                       ELSE IF i \in Behind(cc, l) THEN [cc.args[i] EXCEPT !.py = @ - 1] ELSE cc.args[i]]
<1>1. new = [cc EXCEPT !.args = moved, !.nPy = @ - 1]
  BY DEF UpdateIndexes
<1>2. /\ DOMAIN moved = DOMAIN cc.args
      /\ \A j \in DOMAIN cc.args :
           moved[j] = IF j = l THEN [cc.args[j] EXCEPT !.meta = "child"]
                      ELSE IF j \in Behind(cc, l) THEN [cc.args[j] EXCEPT !.py = @ - 1] ELSE cc.args[j]
  BY Zenon
<1> HIDE DEF moved
<1>3. {"args", "nPy"} \subseteq DOMAIN cc
  BY DEF CacheFields
<1>4. new.args = moved /\ new.nPy = cc.nPy - 1
  BY <1>1, <1>3
<1>5. Rest(cc, new, {"args", "nPy"})
  BY <1>1, <1>3 DEF Rest
<1> QED BY <1>2, <1>4, <1>5

\* The entry of the length, once the array has been dealt with.
LEMMA LengthIs ==
  ASSUME NEW s, Regular(s), NEW p \in ArgsOf(s), NEW cc, ArgsOK(s, p, cc.args), HasLengthArg(s, p),
         NEW l, l = LengthAt(s, p), NEW e, DOMAIN e = DOMAIN Blank, e.meta = "child", e.dir = WayOf(s, p),
         e.c = Child0(cc, l).c, e.tag = Child0(cc, l).tag
  PROVE  EntryOK(s, p + 1, l, e)
<1>1. l \in Nat /\ l \in ArgsOf(s) /\ Owns(s, p, l) /\ (Moves(s, p) <=> l < p) /\ l # p
  BY LengthWas, Owned1
<1>2. Meta(s, p + 1, l) = "child" /\ WayOf(s, l) = WayOf(s, p)
  <2>1. ~HasUserData(s, p)
    BY DEF HasLengthArg, HasUserData
  <2>2. Meta(s, p + 1, l) = "child"
    <3>1. Meta(s, p + 1, l) = IF HasUserData(s, p) /\ l = UserDataAt(s, p) THEN "childPy" ELSE "child"
      <4>1. Owns(s, p, l)
        BY <1>1
      <4> QED BY <4>1, Owned1
    <3> QED BY <2>1, <3>1
  <2>3. WayOf(s, l) = WayOf(s, p)
    BY Owners DEF LengthRegular
  <2> QED BY <2>2, <2>3
<1>3. ASSUME l < p + 1
      PROVE  Placed(s, p + 1, l, e)
  <2>1. Moves(s, p)
    BY <1>1, <1>3, Ways
  <2>2. Placed(s, p, l, Child0(cc, l)) /\ Child0(cc, l).meta = "parent"
    BY <2>1, LengthWas
  <2>3. l \in Ins(s) => e.c = Below(Ins(s), l)
    <3>1. l \in Ins(s) => FromPython(WayOf(s, p))
      BY <1>2 DEF Ins
    <3>2. e.c = l
      BY <2>2 DEF Placed
    <3> QED BY <2>1, <3>1, <3>2, LengthWas
  <2>4. e.tag = ArgOf(s, l).tag
    BY <1>1, <2>2 DEF Placed
  <2>5. l \notin Shows(s, p + 1)
    BY <1>2 DEF Shows
  <2> QED BY <1>1, <2>3, <2>4, <2>5 DEF Placed
<1> QED BY <1>2, <1>3, Zenon DEF EntryOK

\* An array with a length argument, before its turn or behind it, in each direction.
LEMMA LengthSetUp ==
  ASSUME NEW s, Regular(s), NEW p \in ArgsOf(s), NEW cc, DOMAIN cc = CacheFields, ArgsOK(s, p, cc.args),
         p \notin DOMAIN cc.args, HasLengthArg(s, p), NEW l, l = LengthAt(s, p),
         NEW dd, dd = ArraySetUp(cc, l, WayOf(s, p), p), NEW new,
         new = IF NeedsUpdate(dd, l) THEN UpdateIndexes(dd, l) ELSE dd
  PROVE  SetUpOK(s, p, cc, new) /\ (NeedsUpdate(dd, l) <=> Moves(s, p) /\ FromPython(WayOf(s, p)))
<1> DEFINE dir == WayOf(s, p)
           first == LengthFirst(dir, l, p)
           e == LengthEntry(cc, l, dir, IF first THEN "childUpdate" ELSE "child")
<1>1. /\ l \in Nat /\ l \in Numbers(s) /\ l # p /\ (Moves(s, p) <=> l < p) /\ Owns(s, p, l)
      /\ \A j : Owns(s, p, j) => j = l
      /\ DOMAIN Child0(cc, l) = DOMAIN Blank /\ ~IsChild(Child0(cc, l))
  BY LengthWas
<1>2. dir \in {"from", "to", "both"} /\ p \in Int /\ p \in Numbers(s) /\ Numbers(s) \subseteq Int
  BY Ways
<1>3. first <=> Moves(s, p) /\ FromPython(dir)
  BY <1>1 DEF LengthFirst
<1>4. /\ dd.args = Only(l, e) ++ cc.args /\ Rest(cc, dd, {"args", "nToChild", "toPy"})
      /\ dd.nToChild = IF ToPython(dir) /\ l < p THEN cc.nToChild + 1 ELSE cc.nToChild
  <2>1. dd = (LET cc1 == IF FromPython(dir) THEN SetupArrayFromPy(cc, l, dir, p) ELSE cc
              IN  IF ToPython(dir) THEN SetupArrayToPy(cc1, l, dir, p) ELSE cc1)
    BY DEF ArraySetUp
  <2> HIDE DEF dir
  <2> QED BY <1>1, <1>2, <2>1, SetupIs
<1>5. /\ DOMAIN e = DOMAIN Blank /\ e.meta = (IF first THEN "childUpdate" ELSE "child") /\ e.dir = dir
      /\ e.c = Child0(cc, l).c /\ e.tag = Child0(cc, l).tag
  <2>1. {"meta", "dir", "c", "tag", "from", "to"} \subseteq DOMAIN Child0(cc, l)
    BY <1>1 DEF Blank
  <2>2. DOMAIN e = DOMAIN Blank
    BY <1>1 DEF LengthEntry
  <2> QED BY <2>1, <2>2 DEF LengthEntry
<1> HIDE DEF e, first
<1>6. DOMAIN dd.args = {l} \cup DOMAIN cc.args
  <2>1. DOMAIN (Only(l, e) ++ cc.args) = {l} \cup DOMAIN cc.args
    BY OnlyDomain
  <2> QED BY <1>4, <2>1
<1>7. dd.args[l] = e /\ \A j \in DOMAIN cc.args : j # l => dd.args[j] = cc.args[j]
  <2>1. (Only(l, e) ++ cc.args)[l] = e /\ \A j \in DOMAIN cc.args : j # l => (Only(l, e) ++ cc.args)[j] = cc.args[j]
    BY OnlyOver
  <2> QED BY <1>4, <2>1
<1>8. NeedsUpdate(dd, l) <=> first
  BY <1>1, <1>5, <1>7 DEF NeedsUpdate
<1>9. \A j \in DOMAIN cc.args : j \in Numbers(s) /\ j # p /\ EntryOK(s, p, j, cc.args[j])
  BY DEF ArgsOK
<1>10. CASE ~first
  <2>1. new = dd
    BY <1>8, <1>10
  <2>2. EntryOK(s, p + 1, l, e)
    BY <1>5, <1>10, LengthIs
  <2>3. ASSUME NEW j \in DOMAIN cc.args, j # l
        PROVE  EntryOK(s, p + 1, j, cc.args[j])
    BY <1>1, <1>3, <1>9, <1>10, <2>3, Carried
  <2>4. \A j \in DOMAIN dd.args : EntryOK(s, p + 1, j, dd.args[j])
    BY <1>6, <1>7, <2>2, <2>3
  <2>5. /\ dd.nPy = cc.nPy /\ Rest(cc, dd, {"args", "nPy", "nToChild", "toPy"})
        /\ dd.nToChild = IF Moves(s, p) /\ ToPython(dir) THEN cc.nToChild + 1 ELSE cc.nToChild
    BY <1>1, <1>4 DEF Rest, CacheFields
  <2>6. \A j : j \in DOMAIN dd.args <=> j \in DOMAIN cc.args \/ Owns(s, p, j)
    BY <1>1, <1>6
  <2> QED BY <1>3, <1>8, <1>10, <2>1, <2>4, <2>5, <2>6 DEF SetUpOK
<1>11. CASE first
  <2>1. new = UpdateIndexes(dd, l)
    BY <1>8, <1>11
  <2>2. DOMAIN dd = CacheFields
    BY <1>4 DEF Rest
  <2>3. /\ Rest(dd, new, {"args", "nPy"}) /\ new.nPy = dd.nPy - 1 /\ DOMAIN new.args = DOMAIN dd.args
        /\ \A j \in DOMAIN dd.args :
             new.args[j] = IF j = l THEN [dd.args[j] EXCEPT !.meta = "child"]
                           ELSE IF j \in Behind(dd, l) THEN [dd.args[j] EXCEPT !.py = @ - 1] ELSE dd.args[j]
    BY <2>1, <2>2, UpdateIs
  <2>4. EntryOK(s, p + 1, l, new.args[l])
    <3>1. new.args[l] = [e EXCEPT !.meta = "child"]
      BY <1>6, <1>7, <2>3
    <3>2. {"meta", "dir", "c", "tag"} \subseteq DOMAIN e
      BY <1>5 DEF Blank
    <3> DEFINE f == new.args[l]
    <3>3. DOMAIN f = DOMAIN Blank
      BY <1>5, <3>1
    <3>4. f.meta = "child" /\ f.dir = WayOf(s, p) /\ f.c = Child0(cc, l).c /\ f.tag = Child0(cc, l).tag
      BY <1>5, <3>1, <3>2
    <3> HIDE DEF f
    <3>5. EntryOK(s, p + 1, l, f)
      BY <3>3, <3>4, LengthIs
    <3> QED BY <3>5 DEF f
  <2>5. ASSUME NEW j \in DOMAIN cc.args, j # l
        PROVE  EntryOK(s, p + 1, j, new.args[j])
    <3> DEFINE d == cc.args[j]
               f == new.args[j]
    <3>1. j \in DOMAIN dd.args /\ dd.args[j] = d
      BY <1>6, <1>7, <2>5
    <3>2. f = IF j \in Behind(dd, l) THEN [d EXCEPT !.py = @ - 1] ELSE d
      BY <2>3, <2>5, <3>1
    <3>3. EntryOK(s, p, j, d) /\ DOMAIN d = DOMAIN Blank /\ j \in Numbers(s) /\ j # p /\ ~Owns(s, p, j)
      BY <1>1, <1>9, <2>5 DEF EntryOK
    <3>4. "py" \in DOMAIN d
      BY <3>3 DEF Blank
    <3> HIDE DEF d, f
    <3>5. DOMAIN f = DOMAIN d /\ \A k \in DOMAIN d \ {"py"} : f[k] = d[k]
      BY <3>2
    <3>6. j \in Behind(dd, l) => f.py = d.py - 1
      BY <3>2, <3>4
    <3>7. j \notin Behind(dd, l) => f.py = d.py
      BY <3>2
    <3>8. j < p => (j \in Behind(dd, l) <=> l < j)
      <4>1. ASSUME j < p, l < j, NEW k \in l .. j
            PROVE  k \in DOMAIN dd.args
        <5>1. k \in Numbers(s) /\ k < p
          <6>1. Count(s) \in Nat /\ j \in 0 .. Count(s) - 1
            BY <3>3, Ways DEF Numbers
          <6> QED BY <1>1, <1>2, <4>1, <6>1 DEF Numbers
        <5> QED BY <1>6, <5>1 DEF ArgsOK
      <4> QED BY <1>1, <1>2, <3>1, <3>3, <4>1 DEF Behind
    <3>9. j < p => f.py = IF Moves(s, p) /\ FromPython(WayOf(s, p)) /\ LengthAt(s, p) < j THEN d.py - 1 ELSE d.py
      BY <1>3, <1>11, <3>6, <3>7, <3>8
    <3>10. EntryOK(s, p + 1, j, f)
      BY <3>3, <3>5, <3>9, Carried
    <3> QED BY <3>10 DEF f
  <2>6. \A j \in DOMAIN new.args : EntryOK(s, p + 1, j, new.args[j])
    BY <1>6, <2>3, <2>4, <2>5
  <2>7. /\ new.nPy = cc.nPy - 1 /\ Rest(cc, new, {"args", "nPy", "nToChild", "toPy"})
        /\ new.nToChild = IF Moves(s, p) /\ ToPython(dir) THEN cc.nToChild + 1 ELSE cc.nToChild
    BY <1>1, <1>4, <2>3 DEF Rest, CacheFields
  <2>8. \A j : j \in DOMAIN new.args <=> j \in DOMAIN cc.args \/ Owns(s, p, j)
    BY <1>1, <1>6, <2>3
  <2> QED BY <1>3, <1>8, <1>11, <2>6, <2>7, <2>8 DEF SetUpOK
<1> QED BY <1>10, <1>11

LEMMA PutIf ==
  ASSUME NEW cc, DOMAIN cc = CacheFields, NEW i, NEW e, NEW dd, dd = IF i < 0 THEN cc ELSE Put(cc, i, e)
  PROVE  /\ Rest(cc, dd, {"args"})
         /\ \A j : j \in DOMAIN dd.args <=> j \in DOMAIN cc.args \/ (~(i < 0) /\ j = i)
         /\ \A j \in DOMAIN dd.args : dd.args[j] = IF ~(i < 0) /\ j = i THEN e ELSE cc.args[j]
<1>1. CASE i < 0
  BY <1>1 DEF Rest
<1>2. CASE ~(i < 0)
  <2>1. dd.args = Only(i, e) ++ cc.args /\ Rest(cc, dd, {"args"})
    <3>1. dd = Put(cc, i, e)
      BY <1>2
    <3> QED BY <3>1, PutIs
  <2>2. DOMAIN (Only(i, e) ++ cc.args) = {i} \cup DOMAIN cc.args
    BY OnlyDomain
  <2>3. (Only(i, e) ++ cc.args)[i] = e /\ \A j \in DOMAIN cc.args : j # i => (Only(i, e) ++ cc.args)[j] = cc.args[j]
    BY OnlyOver
  <2> QED BY <1>2, <2>1, <2>2, <2>3
<1> QED BY <1>1, <1>2

\* A callback, whose user data and destroy notification come behind it.
LEMMA CallbackSetUp ==
  ASSUME NEW s, Regular(s), NEW p \in ArgsOf(s), NEW cc, DOMAIN cc = CacheFields, ArgsOK(s, p, cc.args),
         p \notin DOMAIN cc.args, ArgOf(s, p).tag = "callback",
         NEW ud, ud = IF ArgOf(s, p).closure >= 0 THEN UserDataAt(s, p) ELSE -1,
         NEW destroy, destroy = IF ArgOf(s, p).destroy >= 0 THEN DestroyAt(s, p) ELSE -1,
         NEW new, new = SetupCallback(cc, ud, destroy)
  PROVE  SetUpOK(s, p, cc, new)
<1>1. p \in Nat /\ p # -1 /\ ~Moves(s, p) /\ ~HasLengthArg(s, p)
  BY Ways DEF Moves, HasLengthArg
<1>2. /\ HasUserData(s, p) <=> ArgOf(s, p).closure >= 0
      /\ HasDestroy(s, p) <=> ArgOf(s, p).destroy >= 0
  BY <1>1 DEF HasUserData, HasDestroy
<1>3. /\ HasUserData(s, p) => BehindRegular(s, p, UserDataAt(s, p))
      /\ HasDestroy(s, p) => BehindRegular(s, p, DestroyAt(s, p))
      /\ HasUserData(s, p) /\ HasDestroy(s, p) => UserDataAt(s, p) # DestroyAt(s, p)
  BY Owners
<1>4. \A j : BehindRegular(s, p, j) => j \in ArgsOf(s) /\ j \in Nat /\ p < j /\ WayOf(s, j) = "from"
  BY Ways DEF BehindRegular
<1>5. /\ ~(ud < 0) <=> HasUserData(s, p)
      /\ ~(destroy < 0) <=> HasDestroy(s, p)
      /\ HasUserData(s, p) => ud = UserDataAt(s, p) /\ ud \in Nat /\ p < ud /\ WayOf(s, ud) = "from"
      /\ HasDestroy(s, p) => destroy = DestroyAt(s, p) /\ destroy \in Nat /\ p < destroy /\ WayOf(s, destroy) = "from"
      /\ HasUserData(s, p) /\ HasDestroy(s, p) => ud # destroy
  BY <1>2, <1>3, <1>4
<1>6. \A j : Owns(s, p, j) <=> (HasUserData(s, p) /\ j = ud) \/ (HasDestroy(s, p) /\ j = destroy)
  BY <1>1, <1>5 DEF Owns
<1> DEFINE e == [Blank EXCEPT !.meta = "childPy", !.dir = "from"]
           f == [Blank EXCEPT !.meta = "child", !.dir = "from"]
           c1 == IF ud < 0 THEN cc ELSE Put(cc, ud, e)
<1>7. /\ DOMAIN e = DOMAIN Blank /\ e.meta = "childPy" /\ e.dir = "from"
      /\ DOMAIN f = DOMAIN Blank /\ f.meta = "child" /\ f.dir = "from"
  BY DEF Blank
<1>8. new = IF destroy < 0 THEN c1 ELSE Put(c1, destroy, f)
  BY DEF SetupCallback
<1> HIDE DEF e, f
<1>9. /\ Rest(cc, c1, {"args"})
      /\ \A j : j \in DOMAIN c1.args <=> j \in DOMAIN cc.args \/ (~(ud < 0) /\ j = ud)
      /\ \A j \in DOMAIN c1.args : c1.args[j] = IF ~(ud < 0) /\ j = ud THEN e ELSE cc.args[j]
  BY PutIf
<1> HIDE DEF c1
<1>10. /\ Rest(c1, new, {"args"})
       /\ \A j : j \in DOMAIN new.args <=> j \in DOMAIN c1.args \/ (~(destroy < 0) /\ j = destroy)
       /\ \A j \in DOMAIN new.args : new.args[j] = IF ~(destroy < 0) /\ j = destroy THEN f ELSE c1.args[j]
  BY <1>8, <1>9, PutIf DEF Rest
<1>11. /\ Rest(cc, new, {"args", "nPy", "nToChild", "toPy"}) /\ new.nPy = cc.nPy /\ new.nToChild = cc.nToChild
  BY <1>9, <1>10 DEF Rest, CacheFields
<1>12. \A j : j \in DOMAIN new.args <=> j \in DOMAIN cc.args \/ Owns(s, p, j)
  BY <1>5, <1>6, <1>9, <1>10
<1>13. ASSUME NEW j \in DOMAIN new.args
       PROVE  EntryOK(s, p + 1, j, new.args[j])
  <2>1. CASE HasDestroy(s, p) /\ j = destroy
    <3>1. new.args[j] = f /\ Owns(s, p, j) /\ ~(j < p + 1)
      BY <1>1, <1>5, <1>6, <1>10, <2>1
    <3>2. ~(HasUserData(s, p) /\ j = UserDataAt(s, p))
      BY <1>5, <2>1
    <3>3. Meta(s, p + 1, j) = "child"
      <4>1. Meta(s, p + 1, j) = IF HasUserData(s, p) /\ j = UserDataAt(s, p) THEN "childPy" ELSE "child"
        BY <3>1, Owned1
      <4> QED BY <3>2, <4>1
    <3> QED BY <1>5, <1>7, <2>1, <3>1, <3>3, Zenon DEF EntryOK
  <2>2. CASE HasUserData(s, p) /\ j = ud /\ ~(HasDestroy(s, p) /\ j = destroy)
    <3>1. new.args[j] = e /\ Owns(s, p, j) /\ ~(j < p + 1)
      BY <1>1, <1>5, <1>6, <1>9, <1>10, <2>2
    <3>3. Meta(s, p + 1, j) = "childPy"
      <4>1. Meta(s, p + 1, j) = IF HasUserData(s, p) /\ j = UserDataAt(s, p) THEN "childPy" ELSE "child"
        BY <3>1, Owned1
      <4> QED BY <1>5, <2>2, <4>1
    <3> QED BY <1>5, <1>7, <2>2, <3>1, <3>3, Zenon DEF EntryOK
  <2>3. CASE ~(HasUserData(s, p) /\ j = ud) /\ ~(HasDestroy(s, p) /\ j = destroy)
    <3>1. j \in DOMAIN cc.args /\ new.args[j] = cc.args[j] /\ ~Owns(s, p, j)
      BY <1>5, <1>6, <1>9, <1>10, <2>3
    <3>2. EntryOK(s, p, j, cc.args[j]) /\ j \in Numbers(s) /\ j # p
      BY <3>1 DEF ArgsOK
    <3> QED BY <1>1, <3>1, <3>2, Carried
  <2> QED BY <2>1, <2>2, <2>3
<1> QED BY <1>1, <1>11, <1>12, <1>13 DEF SetUpOK

\* An argument that owns nothing.
LEMMA NothingSetUp ==
  ASSUME NEW s, Regular(s), NEW p \in ArgsOf(s), NEW cc, DOMAIN cc = CacheFields, ArgsOK(s, p, cc.args),
         p \notin DOMAIN cc.args, \A j : ~Owns(s, p, j)
  PROVE  SetUpOK(s, p, cc, cc)
<1>1. ~Moves(s, p)
  BY DEF Moves, Owns
<1>2. \A j \in DOMAIN cc.args : EntryOK(s, p + 1, j, cc.args[j])
  <2>1. ASSUME NEW j \in DOMAIN cc.args
        PROVE  EntryOK(s, p + 1, j, cc.args[j])
    <3>1. EntryOK(s, p, j, cc.args[j]) /\ j \in Numbers(s) /\ j # p
      BY DEF ArgsOK
    <3> QED BY <1>1, <3>1, Carried
  <2> QED BY <2>1
<1> QED BY <1>1, <1>2 DEF SetUpOK, Rest

LEMMA ArgSetUp ==
  ASSUME NEW s, Regular(s), NEW p \in ArgsOf(s), NEW cc, DOMAIN cc = CacheFields, cc.ftype = s.ftype,
         ArgsOK(s, p, cc.args), p \notin DOMAIN cc.args, NEW py,
         NEW r, r = ArgCacheNew(cc, ArgOf(s, p), WayOf(s, p), p, py), r.ok,
         NEW e, e = Entry(ArgOf(s, p), WayOf(s, p), p, py, Offset(s.ftype))
  PROVE  /\ SetUpOK(s, p, cc, r.cc)
         /\ r.e = Shifted(s, p, e, py)
<1> DEFINE a == ArgOf(s, p)
           dir == WayOf(s, p)
           dd == ArraySetUp(cc, e.len, dir, p)
<1>1. p \in Nat /\ p # -1 /\ p \in ArgsOf(s) \cup {-1}
  BY Ways
<1>2. a.len \in Int /\ a.closure \in Int /\ a.destroy \in Int /\ Offset(s.ftype) \in {0, 1}
  BY <1>1, Owners, Ways
<1>3. /\ e.len = (IF a.len >= 0 THEN LengthAt(s, p) ELSE -1)
      /\ e.ud = (IF a.closure >= 0 THEN UserDataAt(s, p) ELSE -1)
      /\ e.destroy = (IF a.destroy >= 0 THEN DestroyAt(s, p) ELSE -1)
  BY EntryIs DEF LengthAt, UserDataAt, DestroyAt
<1>4. e = Entry(a, dir, p, py, Offset(cc.ftype))
  OBVIOUS
<1> HIDE DEF a, dir
<1>5. CASE a.tag = "callback"
  <2>1. r = IF ToPython(dir) THEN [ok |-> FALSE, cc |-> cc, e |-> e]
            ELSE [ok |-> TRUE, cc |-> SetupCallback(cc, e.ud, e.destroy), e |-> e]
    BY <1>4, <1>5, ArgNew DEF a, dir
  <2>2. r.cc = SetupCallback(cc, e.ud, e.destroy) /\ r.e = e
    BY <2>1
  <2>3. ~Moves(s, p)
    BY <1>5 DEF Moves, HasLengthArg, a
  <2>4. SetUpOK(s, p, cc, r.cc)
    BY <1>3, <1>5, <2>2, CallbackSetUp DEF a
  <2> QED BY <2>2, <2>3, <2>4 DEF a, dir, Shifted
<1>6. CASE a.tag = "array"
  <2>1. r = IF NeedsUpdate(dd, e.len)
            THEN [ok |-> TRUE, cc |-> UpdateIndexes(dd, e.len), e |-> [e EXCEPT !.py = py - 1]]
            ELSE [ok |-> TRUE, cc |-> dd, e |-> e]
    BY <1>4, <1>6, ArgNew DEF a, dir
  <2> HIDE DEF dd
  <2>2. r.cc = IF NeedsUpdate(dd, e.len) THEN UpdateIndexes(dd, e.len) ELSE dd
    BY <2>1
  <2>3. r.e = IF NeedsUpdate(dd, e.len) THEN [e EXCEPT !.py = py - 1] ELSE e
    BY <2>1
  <2>4. CASE a.len >= 0
    <3>1. HasLengthArg(s, p) /\ e.len = LengthAt(s, p)
      BY <1>3, <1>6, <2>4 DEF HasLengthArg, a
    <3>2. SetUpOK(s, p, cc, r.cc) /\ (NeedsUpdate(dd, e.len) <=> Moves(s, p) /\ FromPython(WayOf(s, p)))
      <4>1. dd = ArraySetUp(cc, e.len, WayOf(s, p), p)
        BY DEF dd, dir
      <4> QED BY <2>2, <3>1, <4>1, LengthSetUp
    <3> QED BY <2>3, <3>2 DEF a, dir, Shifted
  <2>5. CASE ~(a.len >= 0)
    <3>1. \A j : ~Owns(s, p, j)
      BY <1>6, <2>5 DEF Owns, HasLengthArg, HasUserData, HasDestroy, a
    <3>2. e.len = -1 /\ ~Moves(s, p)
      BY <1>3, <2>5 DEF Moves, HasLengthArg, a
    <3>3. dd = cc
      BY <3>2 DEF dd, ArraySetUp, SetupArrayFromPy, SetupArrayToPy
    <3>4. r.cc = cc /\ r.e = e
      BY <2>2, <2>3, <3>2, <3>3 DEF NeedsUpdate
    <3> QED BY <3>1, <3>2, <3>4, NothingSetUp DEF a, dir, Shifted
  <2> QED BY <2>4, <2>5
<1>7. CASE a.tag \notin {"callback", "array"}
  <2>1. r = [ok |-> a.tag # "unknown", cc |-> cc, e |-> e]
    BY <1>4, <1>7, ArgNew DEF a, dir
  <2>2. (\A j : ~Owns(s, p, j)) /\ ~Moves(s, p)
    BY <1>7 DEF Owns, Moves, HasLengthArg, HasUserData, HasDestroy, a
  <2>3. r.cc = cc /\ r.e = e
    BY <2>1
  <2> QED BY <2>2, <2>3, NothingSetUp DEF a, dir, Shifted
<1> QED BY <1>5, <1>6, <1>7

LEMMA CountedIs ==
  ASSUME NEW cc, DOMAIN cc = CacheFields, NEW dir, NEW dd, dd = Counted(cc, dir)
  PROVE  /\ Rest(cc, dd, {"nFrom", "nPy"})
         /\ dd.nFrom = IF FromPython(dir) THEN cc.nFrom + 1 ELSE cc.nFrom
         /\ dd.nPy = IF FromPython(dir) THEN cc.nPy + 1 ELSE cc.nPy
<1>1. CASE FromPython(dir)
  <2>1. dd = [cc EXCEPT !.nFrom = @ + 1, !.nPy = @ + 1]
    BY <1>1 DEF Counted
  <2> QED BY <1>1, <2>1 DEF Rest, CacheFields
<1>2. CASE ~FromPython(dir)
  BY <1>2 DEF Rest, Counted
<1> QED BY <1>1, <1>2

LEMMA ListedIs ==
  ASSUME NEW cc, DOMAIN cc = CacheFields, NEW dir, NEW p, NEW dd, dd = Listed(cc, dir, p)
  PROVE  /\ Rest(cc, dd, {"nTo", "toPy"})
         /\ dd.nTo = IF ToPython(dir) THEN cc.nTo + 1 ELSE cc.nTo
         /\ dd.toPy = IF ToPython(dir) THEN Append(cc.toPy, p) ELSE cc.toPy
<1>1. CASE ToPython(dir)
  <2>1. dd = [cc EXCEPT !.nTo = @ + 1, !.toPy = Append(@, p)]
    BY <1>1 DEF Listed
  <2> QED BY <1>1, <2>1 DEF Rest, CacheFields
<1>2. CASE ~ToPython(dir)
  BY <1>2 DEF Rest, Listed
<1> QED BY <1>1, <1>2

\* The entry that CacheArg puts in the cache.
LEMMA EntryNew ==
  ASSUME NEW s, Regular(s), NEW p \in ArgsOf(s), Meta(s, p, p) = "parent",
         NEW py, FromPython(WayOf(s, p)) => py = Below(Shows(s, p), p),
         NEW e, e = Entry(ArgOf(s, p), WayOf(s, p), p, py, Offset(s.ftype)),
         NEW g, g = Shifted(s, p, e, py),
         NEW caller, NEW f, f = Named(g, ArgOf(s, p).none, caller)
  PROVE  EntryOK(s, p + 1, p, f)
<1> DEFINE a == ArgOf(s, p)
<1>1. /\ DOMAIN e = DOMAIN Blank /\ e.meta = "parent" /\ e.dir = WayOf(s, p)
      /\ e.tag = a.tag /\ e.transfer = a.transfer /\ e.py = py /\ e.c = p
      /\ e.len = (IF a.len >= 0 THEN a.len + Offset(s.ftype) ELSE -1)
      /\ e.ud = (IF a.closure >= 0 THEN a.closure + Offset(s.ftype) ELSE -1)
      /\ e.destroy = (IF a.destroy >= 0 THEN a.destroy + Offset(s.ftype) ELSE -1)
      /\ e.scope = a.scope /\ e.item = a.item /\ e.atype = a.atype /\ e.fixed = a.fixed /\ e.zero = a.zero
  <2>1. a.tag # "error"
    BY DEF Regular
  <2> QED BY <2>1, EntryIs
<1>2. {"meta", "dir", "tag", "transfer", "c", "named", "none", "len", "ud", "destroy", "scope", "item", "atype",
       "fixed", "zero", "py", "caller"} \subseteq DOMAIN e
  BY <1>1 DEF Blank
<1> HIDE DEF a
<1>3. /\ DOMAIN g = DOMAIN e /\ \A k \in DOMAIN e \ {"py"} : g[k] = e[k]
  BY DEF Shifted
<1>4. g.py = IF Moves(s, p) /\ FromPython(WayOf(s, p)) THEN py - 1 ELSE py
  BY <1>1, <1>2 DEF Shifted
<1>5. DOMAIN f = DOMAIN g /\ \A k \in DOMAIN g \ {"named", "none", "caller"} : f[k] = g[k]
  BY DEF Named
<1>6. f.named = TRUE /\ f.none = ArgOf(s, p).none
  BY <1>2, <1>3 DEF Named
<1>7. \A k \in DOMAIN e \ {"py", "named", "none", "caller"} : f[k] = e[k]
  BY <1>3, <1>5
<1>8. f.py = IF Moves(s, p) /\ FromPython(WayOf(s, p)) THEN py - 1 ELSE py
  BY <1>2, <1>3, <1>4, <1>5
<1>9. /\ f.meta = "parent" /\ f.dir = WayOf(s, p) /\ f.tag = a.tag /\ f.transfer = a.transfer /\ f.c = p
  BY <1>1, <1>2, <1>7
<1>10. /\ f.len = (IF a.len >= 0 THEN a.len + Offset(s.ftype) ELSE -1)
       /\ f.ud = (IF a.closure >= 0 THEN a.closure + Offset(s.ftype) ELSE -1)
       /\ f.destroy = (IF a.destroy >= 0 THEN a.destroy + Offset(s.ftype) ELSE -1)
       /\ f.scope = a.scope /\ f.item = a.item /\ f.atype = a.atype /\ f.fixed = a.fixed /\ f.zero = a.zero
  <2>1. /\ f.len = e.len /\ f.ud = e.ud /\ f.destroy = e.destroy
        /\ f.scope = e.scope /\ f.item = e.item /\ f.atype = e.atype /\ f.fixed = e.fixed /\ f.zero = e.zero
    BY <1>2, <1>7
  <2> QED BY <1>1, <2>1
<1>11. Described(s, p, f)
  BY <1>6, <1>9, <1>10 DEF Described, a
<1>12. p \in Shows(s, p + 1) => f.py = Below(Shows(s, p + 1), p)
  BY <1>8, PyStep, ShowsSelf
<1>16. Swept(s, p, f)
  <2>1. /\ e.fromClean = (FromPython(WayOf(s, p)) /\ HasFromCleanup(a.tag))
        /\ e.toClean = (ToPython(WayOf(s, p)) /\ HasToCleanup(a.tag))
    BY EntrySwept DEF a
  <2>2. f.fromClean = e.fromClean /\ f.toClean = e.toClean
    <3>1. {"fromClean", "toClean"} \subseteq DOMAIN e
      BY <1>1 DEF Blank
    <3> QED BY <1>7, <3>1
  <2> QED BY <2>1, <2>2 DEF Swept, a
<1>13. Placed(s, p + 1, p, f)
  BY <1>9, <1>11, <1>12, <1>16 DEF Placed, a
<1>14. Meta(s, p + 1, p) = "parent"
  BY Unowned
<1>15. DOMAIN f = DOMAIN Blank
  BY <1>1, <1>3, <1>5
<1> QED BY <1>9, <1>13, <1>14, <1>15, Zenon DEF EntryOK

\* One entry more: all are right if the new one is and the others were.
LEMMA PutOK ==
  ASSUME NEW s, NEW m, NEW p, NEW f, EntryOK(s, m, p, f), NEW old, \A j \in DOMAIN old : EntryOK(s, m, j, old[j]),
         NEW new, new.args = Only(p, f) ++ old
  PROVE  \A j \in DOMAIN new.args : EntryOK(s, m, j, new.args[j])
<1>1. PICK all : all = Only(p, f) ++ old
  OBVIOUS
<1>2. DOMAIN all = {p} \cup DOMAIN old
  BY <1>1, OnlyDomain
<1>3. all[p] = f /\ \A j \in DOMAIN old : j # p => all[j] = old[j]
  BY <1>1, OnlyOver
<1>4. ASSUME NEW j \in DOMAIN all PROVE EntryOK(s, m, j, all[j])
  <2>1. CASE j = p
    BY <1>3, <2>1
  <2>2. CASE j # p
    BY <1>2, <1>3, <2>2
  <2> QED BY <2>1, <2>2
<1>5. new.args = all
  BY <1>1
<1> QED BY <1>4, <1>5

LEMMA ArgStep ==
  ASSUME NEW s, Regular(s), NEW p \in ArgsOf(s), ~IsClosure(s, p), NEW cc, CacheOK(s, cc, p), p \notin DOMAIN cc.args,
         NEW dir, dir = WayOf(s, p), NEW c0, c0 = Counted(cc, dir),
         NEW py, py = IF FromPython(dir) THEN cc.nPy ELSE -1,
         NEW r, r = ArgCacheNew(c0, ArgOf(s, p), dir, p, py), r.ok, NEW caller,
         NEW f, f = Named(r.e, ArgOf(s, p).none, caller),
         NEW c1, c1 = Listed(r.cc, dir, p), NEW new, new = Put(c1, p, f)
  PROVE  CacheOK(s, new, p + 1)
<1> DEFINE e == Entry(ArgOf(s, p), WayOf(s, p), p, py, Offset(s.ftype))
           g == r.e
<1>1. DOMAIN cc = CacheFields /\ cc.ftype = s.ftype /\ cc.nPy = Below(Shows(s, p), p) /\ cc.nToChild = Below(Lengths(s, p), p)
  BY DEF CacheOK
<1>2. p \in Numbers(s) /\ p \in Nat
  BY Ways
<1>3. ArgsOK(s, p, cc.args)
  BY DEF CacheOK, ArgsOK
<1>4. Meta(s, p, p) = "parent"
  <2>1. ~Lengthed(s, p, p) /\ ~Fed(s, p, p) /\ ~Ended(s, p, p)
    BY <1>2, <1>3 DEF ArgsOK
  <2> QED BY <2>1 DEF Meta
<1>5. /\ Rest(cc, c0, {"nFrom", "nPy"})
      /\ c0.nFrom = IF FromPython(dir) THEN cc.nFrom + 1 ELSE cc.nFrom
      /\ c0.nPy = IF FromPython(dir) THEN cc.nPy + 1 ELSE cc.nPy
  BY <1>1, CountedIs
<1>6. /\ DOMAIN c0 = CacheFields /\ c0.ftype = cc.ftype /\ c0.n = cc.n /\ c0.args = cc.args /\ c0.nTo = cc.nTo
      /\ c0.nToChild = cc.nToChild
  BY <1>5 DEF Rest, CacheFields
<1>7. /\ SetUpOK(s, p, c0, r.cc)
      /\ g = Shifted(s, p, e, py)
  <2>1. /\ r = ArgCacheNew(c0, ArgOf(s, p), WayOf(s, p), p, py)
        /\ DOMAIN c0 = CacheFields /\ c0.ftype = s.ftype /\ ArgsOK(s, p, c0.args) /\ p \notin DOMAIN c0.args
    BY <1>1, <1>3, <1>6
  <2>2. SetUpOK(s, p, c0, r.cc)
    BY <2>1, ArgSetUp, Zenon
  <2>3. r.e = Shifted(s, p, e, py)
    <3>1. e = Entry(ArgOf(s, p), WayOf(s, p), p, py, Offset(s.ftype))
      OBVIOUS
    <3> HIDE DEF e, g
    <3> QED BY <2>1, <3>1, ArgSetUp
  <2> QED BY <2>2, <2>3
<1>8. EntryOK(s, p + 1, p, f)
  <2>1. FromPython(WayOf(s, p)) => py = Below(Shows(s, p), p)
    BY <1>1
  <2>2. f = Named(g, ArgOf(s, p).none, caller)
    OBVIOUS
  <2>3. g = Shifted(s, p, e, py)
    BY <1>7
  <2>4. e = Entry(ArgOf(s, p), WayOf(s, p), p, py, Offset(s.ftype))
    OBVIOUS
  <2> HIDE DEF g, e
  <2> QED BY <1>4, <2>1, <2>2, <2>3, <2>4, EntryNew
<1>9. /\ DOMAIN r.cc = CacheFields /\ r.cc.ftype = cc.ftype /\ r.cc.n = cc.n /\ r.cc.nFrom = c0.nFrom /\ r.cc.nTo = cc.nTo
      /\ r.cc.nPy = (IF Moves(s, p) /\ FromPython(WayOf(s, p)) THEN c0.nPy - 1 ELSE c0.nPy)
      /\ r.cc.nToChild = (IF Moves(s, p) /\ ToPython(WayOf(s, p)) THEN cc.nToChild + 1 ELSE cc.nToChild)
  BY <1>6, <1>7 DEF SetUpOK, Rest, CacheFields
<1>10. /\ Rest(r.cc, c1, {"nTo", "toPy"}) /\ c1.nTo = IF ToPython(dir) THEN r.cc.nTo + 1 ELSE r.cc.nTo
  BY <1>9, ListedIs
<1>11. /\ DOMAIN c1 = CacheFields /\ c1.ftype = cc.ftype /\ c1.n = cc.n /\ c1.nFrom = c0.nFrom
       /\ c1.nPy = r.cc.nPy /\ c1.nToChild = r.cc.nToChild /\ c1.args = r.cc.args
  BY <1>9, <1>10 DEF Rest, CacheFields
<1>12. new.args = Only(p, f) ++ c1.args /\ Rest(c1, new, {"args"})
  BY <1>11, PutIs
<1>13. /\ DOMAIN new = CacheFields /\ new.ftype = cc.ftype /\ new.n = cc.n /\ new.nFrom = c0.nFrom
       /\ new.nTo = c1.nTo /\ new.nPy = r.cc.nPy /\ new.nToChild = r.cc.nToChild
  <2>1. Rest(c1, new, {"args"})
    BY <1>12
  <2>2. /\ DOMAIN new = CacheFields /\ new.ftype = c1.ftype /\ new.n = c1.n /\ new.nFrom = c1.nFrom
        /\ new.nTo = c1.nTo /\ new.nPy = c1.nPy /\ new.nToChild = c1.nToChild
    BY ONLY <2>1, RestOfArgs
  <2> QED BY ONLY <1>11, <2>2
<1>14. DOMAIN (Only(p, f) ++ c1.args) = {p} \cup DOMAIN c1.args
  BY OnlyDomain
<1>15. (Only(p, f) ++ c1.args)[p] = f /\ \A j \in DOMAIN c1.args : j # p => (Only(p, f) ++ c1.args)[j] = c1.args[j]
  BY OnlyOver
<1>16. \A j \in DOMAIN new.args : EntryOK(s, p + 1, j, new.args[j])
  <2>1. \A j \in DOMAIN c1.args : EntryOK(s, p + 1, j, c1.args[j])
    BY <1>7, <1>11 DEF SetUpOK
  <2>2. new.args = Only(p, f) ++ c1.args
    BY <1>12
  <2> HIDE DEF e, g
  <2> QED BY <1>8, <2>1, <2>2, PutOK
<1>17. \A j : j \in DOMAIN new.args <=> j \in DOMAIN cc.args \/ j = p \/ Owns(s, p, j)
  <2>1. \A j : j \in DOMAIN r.cc.args <=> j \in DOMAIN cc.args \/ Owns(s, p, j)
    BY <1>6, <1>7 DEF SetUpOK
  <2> QED BY <1>11, <1>12, <1>14, <2>1
<1>18. new.nPy = Below(Shows(s, p + 1), p + 1)
  <2>1. p \in Shows(s, p + 1) <=> FromPython(WayOf(s, p))
    BY <1>4, ShowsSelf
  <2>2. new.nPy = IF FromPython(WayOf(s, p)) THEN Below(Shows(s, p + 1), p) + 1 ELSE Below(Shows(s, p + 1), p)
    <3>1. Below(Shows(s, p), p) \in Nat
      BY PyStep
    <3>2. Below(Shows(s, p + 1), p) =
            IF Moves(s, p) /\ FromPython(WayOf(s, p)) THEN Below(Shows(s, p), p) - 1 ELSE Below(Shows(s, p), p)
      BY PyStep
    <3> QED BY <1>1, <1>5, <1>9, <1>13, <3>1, <3>2
  <2> QED BY <2>1, <2>2, PyStep
<1>19. new.nToChild = Below(Lengths(s, p + 1), p + 1)
  <2>1. p \notin Lengths(s, p)
    <3>1. ~Lengthed(s, p, p)
      BY <1>2, <1>3 DEF ArgsOK
    <3> QED BY <3>1 DEF Lengths
  <2> QED BY <1>1, <1>9, <1>13, <2>1, ToChildStep
<1>20. /\ new.nFrom = (IF FromPython(WayOf(s, p)) THEN cc.nFrom + 1 ELSE cc.nFrom)
       /\ new.nTo = (IF ToPython(WayOf(s, p)) THEN cc.nTo + 1 ELSE cc.nTo)
  BY <1>5, <1>9, <1>10, <1>13
<1>21. \A j : j \in DOMAIN new.args <=> j \in DOMAIN cc.args \/ j = p \/ Owns(s, p, j)
  BY <1>17
<1>22. DOMAIN new = CacheFields /\ new.ftype = cc.ftype /\ new.n = cc.n
  BY <1>13
<1> HIDE DEF e, g
<1>23. Grown(s, p, cc, new)
  BY <1>16, <1>18, <1>19, <1>20, <1>21, <1>22, Zenon DEF Grown
<1> QED BY <1>23, NextOK

-----------------------------------------------------------------------------
(* The indexes of the cache, in every state *)

LEMMA NewIndexed ==
  ASSUME sig \in Sigs
  PROVE  /\ NewCallable(sig).n = Count(sig) /\ DOMAIN NewCallable(sig).args \subseteq Numbers(sig)
         /\ 0 \in 0 .. Count(sig)
<1>1. Regular(sig)
  BY SigsAssumption
<1>2. Count(sig) \in Nat
  BY <1>1, Ways
<1> QED BY <1>2, NewIs

LEMMA OKIndexed ==
  ASSUME NEW s, Regular(s), NEW cc, NEW p, CacheOK(s, cc, p)
  PROVE  cc.n = Count(s) /\ DOMAIN cc.args \subseteq Numbers(s) /\ p \in 0 .. Count(s)
<1>1. Offset(s.ftype) \in {0, 1} /\ Count(s) \in Nat
  BY Ways
<1> QED BY <1>1 DEF CacheOK

\* The argument that is dealt with.
LEMMA InfoIs ==
  ASSUME Indexed, pc = "args", pos < cache.n
  PROVE  /\ Regular(sig) /\ pos \in ArgsOf(sig) /\ Info = ArgOf(sig, pos) /\ Direction(Info) = WayOf(sig, pos)
         /\ (Info.closure = pos - Offset(sig.ftype)) <=> IsClosure(sig, pos)
         /\ CacheOK(sig, cache, pos)
<1>1. Regular(sig) /\ CacheOK(sig, cache, pos)
  BY SigsAssumption DEF Indexed
<1>2. Offset(sig.ftype) \in {0, 1} /\ Count(sig) \in Nat
  BY <1>1, Ways
<1>3. pos \in ArgsOf(sig)
  BY <1>1, <1>2 DEF Indexed, CacheOK, ArgsOf
<1>4. pos # -1 /\ pos \in Int
  BY <1>2, <1>3 DEF ArgsOf
<1>5. Info = ArgOf(sig, pos)
  BY <1>4 DEF Info, ArgOf
<1>6. ArgOf(sig, pos).closure \in Int
  BY <1>1, <1>3, Owners
<1>7. Direction(Info) = WayOf(sig, pos)
  BY <1>3, <1>4, <1>5 DEF WayOf
<1>8. (Info.closure = pos - Offset(sig.ftype)) <=> IsClosure(sig, pos)
  BY <1>2, <1>3, <1>4, <1>5, <1>6 DEF IsClosure
<1> QED BY <1>1, <1>3, <1>5, <1>7, <1>8

LEMMA ReturnIndexed ==
  ASSUME Indexed, CacheReturn
  PROVE  Indexed'
<1>1. Regular(sig) /\ sig' = sig /\ pc = "return" /\ cache = NewCallable(sig) /\ pos \in 0 .. Count(sig) /\ sig \in Sigs
  BY SigsAssumption DEF Indexed, CacheReturn
<1> DEFINE r == ArgCacheNew(cache, sig.ret, "to", -1, -1)
           dd == [r.cc EXCEPT !.ret = r.e]
<1>2. CASE ~r.ok
  <2>1. pc' = "no cache" /\ cache' = cache /\ pos' = pos
    BY <1>2 DEF CacheReturn
  <2> QED BY <1>1, <2>1, NewIndexed DEF Indexed, Building, Calling
<1>3. CASE r.ok
  <2>1. /\ pc' = "args" /\ pos' = Offset(sig.ftype)
        /\ cache' = IF IsMethod(sig.ftype) THEN Instance(dd) ELSE dd
    BY <1>3 DEF CacheReturn
  <2>2. PICK new : new = cache'
    OBVIOUS
  <2>3. CacheOK(sig, new, Offset(sig.ftype))
    <3> HIDE DEF r
    <3>1. r = ArgCacheNew(cache, sig.ret, "to", -1, -1)
      BY DEF r
    <3>2. dd = [r.cc EXCEPT !.ret = r.e]
      OBVIOUS
    <3> HIDE DEF dd
    <3> QED BY <1>1, <1>3, <2>1, <2>2, <3>1, <3>2, ReturnStep
  <2>4. new.n = Count(sig) /\ DOMAIN new.args \subseteq Numbers(sig) /\ Offset(sig.ftype) \in 0 .. Count(sig)
    BY <1>1, <2>3, OKIndexed
  <2> QED BY <1>1, <2>1, <2>2, <2>3, <2>4 DEF Indexed, Building, Calling
<1> QED BY <1>2, <1>3

\* One more argument has been dealt with.
LEMMA AdvanceIndexed ==
  ASSUME Indexed, pc = "args", pos < cache.n, NEW new, CacheOK(sig, new, pos + 1),
         cache' = new, pos' = pos + 1, pc' = pc, sig' = sig
  PROVE  Indexed'
<1>1. Regular(sig)
  BY InfoIs
<1>2. new.n = Count(sig) /\ DOMAIN new.args \subseteq Numbers(sig) /\ pos + 1 \in 0 .. Count(sig)
  BY <1>1, OKIndexed
<1>3. sig \in Sigs
  BY DEF Indexed
<1> QED BY <1>2, <1>3 DEF Indexed, Building, Calling

LEMMA ClosureIndexed ==
  ASSUME Indexed, CacheClosure
  PROVE  Indexed'
<1> DEFINE e == [Blank EXCEPT !.meta = "closure", !.dir = "from", !.named = TRUE, !.c = pos - Offset(sig.ftype)]
           new == [Put(cache, pos, e) EXCEPT !.nFrom = @ + 1]
<1>1. /\ pc = "args" /\ pos < cache.n /\ Info.closure = pos - Offset(sig.ftype)
      /\ cache' = new /\ pos' = pos + 1 /\ pc' = pc /\ sig' = sig
  BY DEF CacheClosure
<1>2. DOMAIN e = DOMAIN Blank /\ e.meta = "closure" /\ e.dir = "from"
  BY DEF Blank
<1>3. CacheOK(sig, new, pos + 1)
  <2> HIDE DEF e
  <2>1. new = [Put(cache, pos, e) EXCEPT !.nFrom = @ + 1]
    OBVIOUS
  <2> HIDE DEF new
  <2> QED BY <1>1, <1>2, <2>1, InfoIs, ClosureStep
<1> HIDE DEF new
<1> QED BY <1>1, <1>3, AdvanceIndexed

LEMMA ChildIndexed ==
  ASSUME Indexed, CacheChild
  PROVE  Indexed'
<1> DEFINE dir == Direction(Info)
           e == cache.args[pos]
           e1 == IF e.meta = "childPy" THEN [e EXCEPT !.py = cache.nPy] ELSE e
           e2 == IF FromPython(dir) THEN Found(cache, e1) ELSE e1
           f == [e2 EXCEPT !.tag = Info.tag]
           new == AfterChild(cache, pos, f, e, dir)
<1>1. /\ pc = "args" /\ pos < cache.n /\ pos \in DOMAIN cache.args /\ Info.closure # pos - Offset(sig.ftype)
      /\ cache' = new /\ pos' = pos + 1 /\ pc' = pc /\ sig' = sig
  BY DEF CacheChild, AfterChild
<1>2. DOMAIN e = DOMAIN Blank
  BY <1>1, InfoIs DEF CacheOK, EntryOK
<1>3. {"meta", "dir", "tag", "c", "py"} \subseteq DOMAIN e
  BY <1>2 DEF Blank
<1> HIDE DEF e, dir
<1>4. /\ DOMAIN e1 = DOMAIN e /\ e1.meta = e.meta /\ e1.dir = e.dir
      /\ e.meta = "childPy" => e1.py = cache.nPy
  BY <1>3
<1> HIDE DEF e1
<1>5. /\ DOMAIN e2 = DOMAIN e /\ e2.meta = e.meta /\ e2.dir = e.dir
      /\ e.meta = "childPy" => e2.py = cache.nPy
      /\ FromPython(dir) => e2.c = cache.nFrom
  BY <1>3, <1>4 DEF Found
<1> HIDE DEF e2
<1>6. /\ DOMAIN f = DOMAIN e /\ f.meta = e.meta /\ f.dir = e.dir /\ f.tag = Info.tag
      /\ e.meta = "childPy" => f.py = cache.nPy
      /\ FromPython(dir) => f.c = cache.nFrom
  BY <1>3, <1>5
<1> HIDE DEF f
<1>7. CacheOK(sig, new, pos + 1)
  <2>1. /\ Regular(sig) /\ pos \in ArgsOf(sig) /\ ~IsClosure(sig, pos) /\ CacheOK(sig, cache, pos)
        /\ dir = WayOf(sig, pos) /\ f.tag = ArgOf(sig, pos).tag /\ e = cache.args[pos]
    BY <1>1, <1>6, InfoIs DEF dir, e
  <2>2. new = AfterChild(cache, pos, f, e, dir)
    OBVIOUS
  <2> HIDE DEF new
  <2> QED BY <1>1, <1>6, <2>1, <2>2, ChildStep
<1> HIDE DEF new
<1> QED BY <1>1, <1>7, AdvanceIndexed

LEMMA ArgIndexed ==
  ASSUME Indexed, CacheArg
  PROVE  Indexed'
<1> DEFINE dir == Direction(Info)
           cc == Counted(cache, dir)
           py == IF FromPython(dir) THEN cache.nPy ELSE -1
           r == ArgCacheNew(cc, Info, dir, pos, py)
           caller == Info.caller /\ Info.tag \in Interfaces \cup {"array"}
           f == Named(r.e, Info.none, caller)
           c1 == Listed(r.cc, dir, pos)
           new == Put(c1, pos, f)
<1>1. /\ pc = "args" /\ pos < cache.n /\ pos \notin DOMAIN cache.args /\ Info.closure # pos - Offset(sig.ftype)
      /\ sig' = sig
  BY DEF CacheArg
<1>2. CASE ~r.ok
  <2>1. pc' = "no cache" /\ cache' = cache /\ pos' = pos
    BY <1>2 DEF CacheArg, Counted
  <2> QED BY <1>1, <2>1 DEF Indexed, Building, Calling
<1>3. CASE r.ok
  <2>1. cache' = new /\ pos' = pos + 1 /\ pc' = pc
    BY <1>3 DEF CacheArg, Counted, Named, Listed
  <2>2. CacheOK(sig, new, pos + 1)
    <3>1. /\ Regular(sig) /\ pos \in ArgsOf(sig) /\ ~IsClosure(sig, pos) /\ CacheOK(sig, cache, pos)
          /\ dir = WayOf(sig, pos) /\ Info = ArgOf(sig, pos)
      BY <1>1, InfoIs
    <3>2. /\ cc = Counted(cache, dir) /\ py = IF FromPython(dir) THEN cache.nPy ELSE -1
          /\ r = ArgCacheNew(cc, ArgOf(sig, pos), dir, pos, py) /\ f = Named(r.e, ArgOf(sig, pos).none, caller)
          /\ c1 = Listed(r.cc, dir, pos) /\ new = Put(c1, pos, f)
      BY <3>1
    <3> HIDE DEF dir, cc, py, r, caller, f, c1, new
    <3> QED BY <1>1, <1>3, <3>1, <3>2, ArgStep
  <2> HIDE DEF new
  <2> QED BY <1>1, <2>1, <2>2, AdvanceIndexed
<1> QED BY <1>2, <1>3

LEMMA DoneIndexed ==
  ASSUME Indexed, CacheDone
  PROVE  Indexed'
<1>1. /\ pc = "args" /\ pos = cache.n /\ pc' = "cached" /\ sig' = sig /\ pos' = pos
      /\ CacheOK(sig, cache, pos) /\ Regular(sig) /\ cache.n = Count(sig) /\ sig \in Sigs
  BY SigsAssumption DEF Indexed, CacheDone
<1> DEFINE names == NameList(cache)
<1>2. cache' = [cache EXCEPT !.names = names]
  BY DEF CacheDone
<1> HIDE DEF names
<1>3. PICK new : new = cache'
  OBVIOUS
<1>4. DOMAIN cache = CacheFields
  BY <1>1 DEF CacheOK
<1>5. /\ DOMAIN new = CacheFields /\ new.ftype = cache.ftype /\ new.n = cache.n /\ new.args = cache.args
      /\ new.nFrom = cache.nFrom /\ new.nTo = cache.nTo /\ new.nPy = cache.nPy /\ new.nToChild = cache.nToChild
  BY <1>2, <1>3, <1>4 DEF CacheFields
<1>6. CacheOK(sig, new, Count(sig))
  BY <1>1, <1>5 DEF CacheOK
<1>7. new.n = Count(sig) /\ DOMAIN new.args \subseteq Numbers(sig) /\ pos \in 0 .. Count(sig)
  BY <1>1, <1>6, OKIndexed
<1> QED BY <1>1, <1>3, <1>6, <1>7 DEF Indexed, Building, Calling

LEMMA NewCacheIndexed ==
  ASSUME Indexed, CacheNew
  PROVE  Indexed'
<1>1. pc' = "return" /\ cache' = NewCallable(sig) /\ pos' = 0 /\ sig' = sig /\ sig \in Sigs
  BY DEF CacheNew, Indexed
<1> QED BY <1>1, NewIndexed DEF Indexed, Building, Calling

LEMMA CacheNextIndexed ==
  ASSUME Indexed, CacheNext
  PROVE  Indexed'
BY NewCacheIndexed, ReturnIndexed, ClosureIndexed, ChildIndexed, ArgIndexed, DoneIndexed DEF CacheNext

\* The number of values that come back.
LEMMA Outcome ==
  ASSUME NEW s, Regular(s), NEW cc, CacheOK(s, cc, Count(s))
  PROVE  cc.nTo - cc.nToChild <= cc.n /\ cc.nTo - cc.nToChild \in Int
<1>1. Count(s) \in Nat /\ Count(s) \in Int
  BY Ways
<1>2. cc.nTo = Below(ToOnes(s), Count(s)) /\ cc.nToChild = Below(Lengths(s, Count(s)), Count(s)) /\ cc.n = Count(s)
  BY DEF CacheOK
<1>3. Below(ToOnes(s), Count(s)) \in Nat /\ Below(Lengths(s, Count(s)), Count(s)) \in Nat
  BY <1>1, BelowFinite
<1>4. Below(ToOnes(s), Count(s)) <= Count(s)
  <2>1. {j \in 0 .. Count(s) - 1 : j \in ToOnes(s)} \subseteq 0 .. Count(s) - 1
    OBVIOUS
  <2>2. IsFiniteSet(0 .. Count(s) - 1) /\ Cardinality(0 .. Count(s) - 1) = Count(s)
    BY <1>1, FS_Interval
  <2> QED BY <2>1, <2>2, FS_Subset DEF Below
<1> QED BY <1>1, <1>2, <1>3, <1>4

\* A call leaves the cache alone.
LEMMA CallIndexed ==
  ASSUME Indexed, pc \in {"cached"} \cup Calling, cache' = cache, sig' = sig,
         pc' \in {"cached"} \cup Calling, pos' \in 0 .. Count(sig)
  PROVE  Indexed'
BY DEF Indexed, Building, Calling

-----------------------------------------------------------------------------
(* The slots of a call *)

LEMMA Ready ==
  ASSUME NEW s, Regular(s), NEW cc, CacheOK(s, cc, Count(s))
  PROVE  /\ DOMAIN cc = CacheFields /\ cc.n = Count(s) /\ Count(s) \in Nat /\ DOMAIN cc.args = Numbers(s)
         /\ Numbers(s) = 0 .. cc.n - 1
         /\ cc.nFrom = Below(Ins(s), Count(s)) /\ cc.nTo = Below(ToOnes(s), Count(s))
         /\ cc.nFrom \in Nat /\ cc.nTo \in Nat
         /\ \A i \in Numbers(s) : /\ cc.args[i].meta = Meta(s, Count(s), i) /\ cc.args[i].dir = WayOf(s, i)
                                  /\ Placed(s, Count(s), i, cc.args[i])
<1>1. Count(s) \in Nat /\ Count(s) \in Int /\ Numbers(s) = 0 .. Count(s) - 1
  BY Ways DEF Numbers
<1>2. /\ DOMAIN cc = CacheFields /\ cc.n = Count(s)
      /\ cc.nFrom = Below(Ins(s), Count(s)) /\ cc.nTo = Below(ToOnes(s), Count(s))
  BY DEF CacheOK
<1>3. \A j \in Numbers(s) : j < Count(s)
  BY <1>1
<1>4. DOMAIN cc.args = Numbers(s)
  <2>1. \A j : j \in DOMAIN cc.args <=> j \in Numbers(s)
    BY <1>3 DEF CacheOK
  <2>2. DOMAIN cc.args \subseteq Numbers(s)
    BY <2>1
  <2> QED BY <2>1, <2>2
<1>5. cc.nFrom \in Nat /\ cc.nTo \in Nat
  BY <1>1, <1>2, BelowFinite
<1>6. \A i \in Numbers(s) : EntryOK(s, Count(s), i, cc.args[i])
  BY <1>4 DEF CacheOK
<1> QED BY <1>1, <1>2, <1>3, <1>4, <1>5, <1>6 DEF EntryOK

LEMMA SlotBounds ==
  ASSUME NEW s, Regular(s), NEW cc, CacheOK(s, cc, Count(s)), NEW i \in Numbers(s)
  PROVE  /\ i \in Ins(s) => Below(Ins(s), i) \in 0 .. cc.nFrom - 1
         /\ i \in ToOnes(s) => Below(ToOnes(s), i) \in 0 .. cc.nTo - 1
<1>1. Count(s) \in Int /\ i \in Nat /\ i \in Int /\ i < Count(s)
  BY Ways DEF Numbers
<1>2. /\ cc.nFrom = Below(Ins(s), Count(s)) /\ cc.nTo = Below(ToOnes(s), Count(s))
      /\ cc.nFrom \in Nat /\ cc.nTo \in Nat
  BY Ready
<1>3. Below(Ins(s), i) \in Nat /\ Below(ToOnes(s), i) \in Nat
  BY <1>1, BelowFinite
<1>4. i \in Ins(s) => Below(Ins(s), i) + 1 <= Below(Ins(s), Count(s))
  BY <1>1, BelowLess
<1>5. i \in ToOnes(s) => Below(ToOnes(s), i) + 1 <= Below(ToOnes(s), Count(s))
  BY <1>1, BelowLess
<1> QED BY <1>2, <1>3, <1>4, <1>5

\* An argument that a parent owns: its entry is a child's, with the slot of its own.
LEMMA ChildSlot ==
  ASSUME NEW s, Regular(s), NEW cc, CacheOK(s, cc, Count(s)), NEW i \in ArgsOf(s), NEW l, Owns(s, i, l)
  PROVE  /\ l \in Numbers(s) /\ l \in ArgsOf(s) /\ l # i /\ cc.args[l].meta \in {"child", "childPy"}
         /\ cc.args[l].meta = "childPy" <=> HasUserData(s, i) /\ l = UserDataAt(s, i)
         /\ l \in Ins(s) => cc.args[l].c = Below(Ins(s), l)
<1>1. l \in ArgsOf(s) /\ l # i /\ ~IsClosure(s, l)
  BY Owned1
<1>2. l \in Numbers(s) /\ i < Count(s)
  BY <1>1, Ways DEF ArgsOf
<1>3. /\ HasLengthArg(s, i) /\ l = LengthAt(s, i) => Lengthed(s, Count(s), l)
      /\ HasUserData(s, i) /\ l = UserDataAt(s, i) => Fed(s, Count(s), l)
      /\ HasDestroy(s, i) /\ l = DestroyAt(s, i) => Ended(s, Count(s), l)
  BY <1>2 DEF Lengthed, Fed, Ended
<1>4. Lengthed(s, Count(s), l) \/ Fed(s, Count(s), l) \/ Ended(s, Count(s), l)
  BY <1>3 DEF Owns
<1>5. cc.args[l].meta = Meta(s, Count(s), l) /\ Placed(s, Count(s), l, cc.args[l])
  BY <1>2, Ready
<1>6. Meta(s, Count(s), l) = IF Fed(s, Count(s), l) THEN "childPy" ELSE "child"
  BY <1>1, <1>4, Zenon DEF Meta
<1>7. Fed(s, Count(s), l) <=> HasUserData(s, i) /\ l = UserDataAt(s, i)
  <2>1. ASSUME Fed(s, Count(s), l) PROVE HasUserData(s, i) /\ l = UserDataAt(s, i)
    <3>1. PICK k \in ArgsOf(s) : HasUserData(s, k) /\ l = UserDataAt(s, k)
      BY <2>1 DEF Fed
    <3>2. Owns(s, k, l)
      BY <3>1 DEF Owns
    <3>3. i = k
      BY <3>2, Owners
    <3> QED BY <3>1, <3>3
  <2> QED BY <1>3, <2>1
<1>8. l \in Ins(s) => cc.args[l].c = Below(Ins(s), l)
  BY <1>5, <1>6 DEF Placed
<1> QED BY <1>1, <1>2, <1>5, <1>6, <1>7, <1>8

\* What the entry of a parent says of its children.
LEMMA Parents ==
  ASSUME NEW s, Regular(s), NEW cc, CacheOK(s, cc, Count(s)), NEW i \in Numbers(s), cc.args[i].meta = "parent",
         NEW e, e = cc.args[i]
  PROVE  /\ e.tag \in {"array", "callback"} => i \in ArgsOf(s)
         /\ i \in ArgsOf(s) => Described(s, i, e)
         /\ e.tag = "array" /\ e.len >= 0 => HasLengthArg(s, i) /\ e.len = LengthAt(s, i) /\ Owns(s, i, e.len)
         /\ e.tag = "callback" /\ e.ud >= 0 => HasUserData(s, i) /\ e.ud = UserDataAt(s, i) /\ Owns(s, i, e.ud)
         /\ e.tag = "callback" /\ e.destroy >= 0 =>
              HasDestroy(s, i) /\ e.destroy = DestroyAt(s, i) /\ Owns(s, i, e.destroy)
<1>1. Placed(s, Count(s), i, e)
  BY Ready
<1>2. e.tag \in {"array", "callback"} => i \in ArgsOf(s)
  BY <1>1 DEF Placed
<1>3. i \in ArgsOf(s) => Described(s, i, e)
  BY <1>1 DEF Placed
<1>4. i # -1
  BY Ways
<1>5. ASSUME e.tag = "array", e.len >= 0
      PROVE  HasLengthArg(s, i) /\ e.len = LengthAt(s, i)
  BY <1>2, <1>3, <1>5 DEF Described, HasLengthArg, LengthAt
<1>6. ASSUME e.tag = "callback", e.ud >= 0
      PROVE  HasUserData(s, i) /\ e.ud = UserDataAt(s, i)
  BY <1>2, <1>3, <1>4, <1>6 DEF Described, HasUserData, UserDataAt
<1>7. ASSUME e.tag = "callback", e.destroy >= 0
      PROVE  HasDestroy(s, i) /\ e.destroy = DestroyAt(s, i)
  BY <1>2, <1>3, <1>4, <1>7 DEF Described, HasDestroy, DestroyAt
<1> QED BY <1>2, <1>3, <1>5, <1>6, <1>7 DEF Owns

-----------------------------------------------------------------------------
(* What comes back *)

\* A list holds each of its numbers at the place that the smaller ones leave.
LEMMA Listed1 ==
  ASSUME NEW q, NEW S, Listing(q, S), NEW n \in 0 .. Len(q)
  PROVE  Cardinality({q[k] : k \in 1 .. n}) = n
<1>1. Len(q) \in Nat /\ \A k \in 1 .. Len(q) : q[k] \in Int
  BY LenProperties, ElementOfSeq DEF Listing
<1>2. \A k \in 1 .. Len(q), l \in 1 .. Len(q) : q[k] = q[l] => k = l
  <2> SUFFICES ASSUME NEW k \in 1 .. Len(q), NEW l \in 1 .. Len(q), q[k] = q[l] PROVE k = l
    OBVIOUS
  <2>1. ~(k < l) /\ ~(l < k)
    BY <1>1 DEF Listing
  <2> QED BY <1>1, <2>1
<1> DEFINE T == {q[k] : k \in 1 .. n}
           g == [k \in 1 .. n |-> q[k]]
<1>3. \A k \in 1 .. n : k \in 1 .. Len(q)
  BY <1>1
<1>4. g \in [1 .. n -> T]
  OBVIOUS
<1>5. \A k \in 1 .. n, l \in 1 .. n : g[k] = g[l] => k = l
  BY <1>2, <1>3
<1>6. \A t \in T : \E k \in 1 .. n : g[k] = t
  OBVIOUS
<1> HIDE DEF T, g
<1>7. g \in Bijection(1 .. n, T)
  BY <1>4, <1>5, <1>6 DEF Bijection, Injection, Surjection, IsInjective
<1>8. n \in Nat
  BY <1>1
<1> QED BY <1>7, <1>8, FS_CountingElements DEF ExistsBijection, T

LEMMA ListedAll ==
  ASSUME NEW q, NEW S, Listing(q, S)
  PROVE  /\ S \subseteq Int /\ Len(q) \in Nat /\ Len(q) = Cardinality(S)
         /\ \A i \in S : LET o == Cardinality({j \in S : j < i}) + 1
                         IN  o \in 1 .. Len(q) /\ q[o] = i
<1>1. Len(q) \in Nat /\ \A k \in 1 .. Len(q) : q[k] \in Int
  BY LenProperties, ElementOfSeq DEF Listing
<1>2. S \subseteq Int
  BY <1>1 DEF Listing
<1>3. Len(q) = Cardinality(S)
  <2>1. {q[k] : k \in 1 .. Len(q)} = S
    BY DEF Listing
  <2> QED BY <1>1, <2>1, Listed1
<1>4. ASSUME NEW i \in S
      PROVE  LET o == Cardinality({j \in S : j < i}) + 1
             IN  o \in 1 .. Len(q) /\ q[o] = i
  <2>1. PICK k \in 1 .. Len(q) : q[k] = i
    BY DEF Listing
  <2>2. k - 1 \in 0 .. Len(q) /\ k \in Int
    BY <1>1
  <2>3. ASSUME NEW j \in S, j < i PROVE j \in {q[l] : l \in 1 .. k - 1}
    <3>1. PICK l \in 1 .. Len(q) : q[l] = j
      BY DEF Listing
    <3>2. ~(k < l) /\ k # l
      BY <1>1, <2>1, <2>3, <3>1 DEF Listing
    <3>3. l \in 1 .. k - 1
      BY <1>1, <3>2
    <3> QED BY <3>1, <3>3
  <2>4. ASSUME NEW l \in 1 .. k - 1 PROVE q[l] \in S /\ q[l] < i
    <3>1. l \in 1 .. Len(q) /\ l < k
      BY <1>1
    <3> QED BY <2>1, <3>1 DEF Listing
  <2>5. {j \in S : j < i} = {q[l] : l \in 1 .. k - 1}
    BY <2>3, <2>4
  <2>6. Cardinality({j \in S : j < i}) = k - 1
    BY <2>2, <2>5, Listed1
  <2> QED BY <2>1, <2>2, <2>6
<1> QED BY <1>1, <1>2, <1>3, <1>4

\* An element that is greater than all others is listed last.
LEMMA ListedMore ==
  ASSUME NEW q, NEW S, Listing(q, S), NEW p \in Int, \A j \in S : j < p
  PROVE  Listing(Append(q, p), S \cup {p})
<1>1. Len(q) \in Nat /\ \A k \in 1 .. Len(q) : q[k] \in Int /\ q[k] \in S /\ q[k] < p
  BY LenProperties, ElementOfSeq DEF Listing
<1>2. PICK r : r = Append(q, p)
  OBVIOUS
<1>3. /\ r \in Seq(Int) /\ Len(r) = Len(q) + 1 /\ r[Len(q) + 1] = p
      /\ \A k \in 1 .. Len(q) : r[k] = q[k]
  BY <1>2, AppendProperties DEF Listing
<1>4. ASSUME NEW k \in 1 .. Len(r) PROVE k \in 1 .. Len(q) \/ k = Len(q) + 1
  BY <1>1, <1>3
<1>5. \A k \in 1 .. Len(r), l \in 1 .. Len(r) : k < l => r[k] < r[l]
  <2> SUFFICES ASSUME NEW k \in 1 .. Len(r), NEW l \in 1 .. Len(r), k < l PROVE r[k] < r[l]
    OBVIOUS
  <2>1. k \in 1 .. Len(q)
    BY <1>1, <1>3
  <2>2. CASE l \in 1 .. Len(q)
    BY <1>3, <2>1, <2>2 DEF Listing
  <2>3. CASE l = Len(q) + 1
    BY <1>1, <1>3, <2>1, <2>3
  <2> QED BY <1>4, <2>2, <2>3
<1>6. \A k \in 1 .. Len(r) : r[k] \in S \cup {p}
  BY <1>1, <1>3, <1>4
<1>7. ASSUME NEW j \in S \cup {p} PROVE \E k \in 1 .. Len(r) : r[k] = j
  <2>1. CASE j \in S
    <3>1. PICK k \in 1 .. Len(q) : q[k] = j
      BY <2>1 DEF Listing
    <3>2. k \in 1 .. Len(r) /\ r[k] = j
      BY <1>1, <1>3, <3>1
    <3> QED BY <3>2
  <2>2. CASE j = p
    BY <1>1, <1>3, <2>2
  <2> QED BY <2>1, <2>2
<1> QED BY <1>2, <1>3, <1>5, <1>6, <1>7 DEF Listing

\* One that is taken out leaves the others in their order; if it is not there nothing changes.
LEMMA ListedLess ==
  ASSUME NEW q, NEW S, Listing(q, S), NEW x
  PROVE  Listing(WithoutLength(q, x), S \ {x})
<1>1. Len(q) \in Nat /\ \A k \in 1 .. Len(q) : q[k] \in Int /\ q[k] \in S
  BY LenProperties, ElementOfSeq DEF Listing
<1>2. CASE ~\E i \in 1 .. Len(q) : q[i] = x
  <2>1. WithoutLength(q, x) = q
    BY <1>2 DEF WithoutLength, RemoveFirst
  <2>2. x \notin S
    BY <1>2 DEF Listing
  <2>3. S \ {x} = S
    BY <2>2
  <2> QED BY <2>1, <2>3
<1>3. ASSUME NEW i \in 1 .. Len(q), q[i] = x
      PROVE  Listing(WithoutLength(q, x), S \ {x})
  <2>1. \A k \in 1 .. Len(q) : q[k] = x => k = i
    <3> SUFFICES ASSUME NEW k \in 1 .. Len(q), q[k] = x PROVE k = i
      OBVIOUS
    <3>1. ~(k < i) /\ ~(i < k)
      BY <1>1, <1>3 DEF Listing
    <3> QED BY <1>1, <3>1
  <2>2. {k \in 1 .. Len(q) : q[k] = x} = {i}
    BY <1>3, <2>1
  <2>3. Min({i}) = i
    <3>1. i \in {i} /\ \A y \in {i} : i =< y
      BY <1>1
    <3> QED BY <3>1 DEF Min
  <2>4. SelectInSeq(q, LAMBDA v : v = x) = i
    BY <2>2, <2>3 DEF SelectInSeq
  <2>5. WithoutLength(q, x) = SubSeq(q, 1, i - 1) \o SubSeq(q, i + 1, Len(q))
    <3>1. WithoutLength(q, x) = RemoveAt(q, SelectInSeq(q, LAMBDA v : v = x))
      BY <1>3 DEF WithoutLength, RemoveFirst
    <3> QED BY <2>4, <3>1 DEF RemoveAt
  <2>6. /\ i \in Int /\ i - 1 \in Int /\ i + 1 \in Int /\ Len(q) \in Int /\ i >= 1 /\ i <= Len(q)
    BY <1>1
  <2>7. PICK a : a = SubSeq(q, 1, i - 1)
    OBVIOUS
  <2>8. PICK b : b = SubSeq(q, i + 1, Len(q))
    OBVIOUS
  <2>9. a \in Seq(Int) /\ Len(a) = i - 1 /\ \A k \in 1 .. i - 1 : a[k] = q[k]
    <3>1. \A k \in 1 .. i - 1 : q[k] \in Int
      BY <1>1, <2>6
    <3>2. /\ a \in Seq(Int) /\ Len(a) = (IF 1 <= i - 1 THEN i - 1 - 1 + 1 ELSE 0)
          /\ \A k \in 1 .. i - 1 - 1 + 1 : a[k] = q[1 + k - 1]
      BY <2>6, <2>7, <3>1, SubSeqProperties
    <3> QED BY <2>6, <3>2
  <2>10. b \in Seq(Int) /\ Len(b) = Len(q) - i /\ \A k \in 1 .. Len(q) - i : b[k] = q[i + k]
    <3>1. \A k \in i + 1 .. Len(q) : q[k] \in Int
      BY <1>1, <2>6
    <3>2. /\ b \in Seq(Int) /\ Len(b) = (IF i + 1 <= Len(q) THEN Len(q) - (i + 1) + 1 ELSE 0)
          /\ \A k \in 1 .. Len(q) - (i + 1) + 1 : b[k] = q[i + 1 + k - 1]
      BY <2>6, <2>8, <3>1, SubSeqProperties
    <3>3. ASSUME NEW k \in 1 .. Len(q) - i PROVE b[k] = q[i + k]
      <4>1. k \in 1 .. Len(q) - (i + 1) + 1 /\ i + 1 + k - 1 = i + k
        BY <2>6
      <4> QED BY <3>2, <4>1
    <3>4. Len(b) = Len(q) - i
      BY <2>6, <3>2
    <3> QED BY <3>2, <3>3, <3>4
  <2>11. PICK r : r = a \o b
    OBVIOUS
  <2>12. /\ r \in Seq(Int) /\ Len(r) = Len(q) - 1
         /\ \A k \in 1 .. Len(q) - 1 : r[k] = IF k < i THEN q[k] ELSE q[k + 1]
    <3>1. /\ r \in Seq(Int) /\ Len(r) = Len(a) + Len(b)
          /\ \A k \in 1 .. Len(a) + Len(b) : r[k] = IF k <= Len(a) THEN a[k] ELSE b[k - Len(a)]
      BY <2>9, <2>10, <2>11, ConcatProperties
    <3>2. Len(r) = Len(q) - 1
      BY <2>6, <2>9, <2>10, <3>1
    <3>3. ASSUME NEW k \in 1 .. Len(q) - 1 PROVE r[k] = IF k < i THEN q[k] ELSE q[k + 1]
      <4>1. k \in 1 .. Len(a) + Len(b)
        BY <2>6, <2>9, <2>10
      <4>2. CASE k < i
        <5>1. k \in 1 .. i - 1 /\ k <= Len(a)
          BY <2>6, <2>9, <4>2
        <5> QED BY <2>9, <3>1, <4>1, <4>2, <5>1
      <4>3. CASE ~(k < i)
        <5>1. k - (i - 1) \in 1 .. Len(q) - i /\ ~(k <= Len(a)) /\ i + (k - (i - 1)) = k + 1
          BY <2>6, <2>9, <4>3
        <5> QED BY <2>9, <2>10, <3>1, <4>1, <4>3, <5>1
      <4> QED BY <4>2, <4>3
    <3> QED BY <3>1, <3>2, <3>3
  <2> DEFINE at(k) == IF k < i THEN k ELSE k + 1
  <2>13. ASSUME NEW k \in 1 .. Len(r) PROVE at(k) \in 1 .. Len(q) /\ at(k) # i /\ r[k] = q[at(k)]
    <3>1. k \in 1 .. Len(q) - 1
      BY <2>12
    <3>2. r[k] = q[at(k)]
      BY <2>12, <3>1
    <3>3. at(k) \in 1 .. Len(q) /\ at(k) # i
      BY <2>6, <3>1
    <3> QED BY <3>2, <3>3
  <2>14. \A k \in 1 .. Len(r), l \in 1 .. Len(r) : k < l => at(k) < at(l)
    BY <2>6, <2>12
  <2>15. ASSUME NEW k \in 1 .. Len(q), k # i PROVE \E l \in 1 .. Len(r) : at(l) = k
    <3>1. CASE k < i
      <4>1. k \in 1 .. Len(r) /\ at(k) = k
        BY <2>6, <2>12, <3>1
      <4> QED BY <4>1
    <3>2. CASE ~(k < i)
      <4>1. k - 1 \in 1 .. Len(r) /\ at(k - 1) = k
        BY <2>6, <2>12, <2>15, <3>2
      <4> QED BY <4>1
    <3> QED BY <3>1, <3>2
  <2> HIDE DEF at
  <2>16. \A k \in 1 .. Len(r), l \in 1 .. Len(r) : k < l => r[k] < r[l]
    BY <2>13, <2>14 DEF Listing
  <2>17. \A k \in 1 .. Len(r) : r[k] \in S \ {x}
    BY <1>1, <2>1, <2>13
  <2>18. ASSUME NEW j \in S \ {x} PROVE \E k \in 1 .. Len(r) : r[k] = j
    <3>1. PICK k \in 1 .. Len(q) : q[k] = j
      BY DEF Listing
    <3>2. k # i
      BY <1>3, <2>18, <3>1
    <3>3. PICK l \in 1 .. Len(r) : at(l) = k
      BY <2>15, <3>2
    <3> QED BY <2>13, <3>1, <3>3
  <2>19. WithoutLength(q, x) = r
    BY <2>5, <2>7, <2>8, <2>11
  <2> QED BY <2>12, <2>16, <2>17, <2>18, <2>19 DEF Listing
<1> QED BY <1>2, <1>3

-----------------------------------------------------------------------------
(* Which arguments are listed, and which the caller allocates *)

LEMMA PutSound ==
  ASSUME NEW s, NEW cc, Sound(s, cc), NEW i, NEW e, SoundEntry(s, i, e), NEW dd, dd = Put(cc, i, e)
  PROVE  Sound(s, dd) /\ Same(cc, dd)
<1>1. dd.args = Only(i, e) ++ cc.args /\ Rest(cc, dd, {"args"})
  BY PutIs DEF Sound
<1>2. DOMAIN dd = CacheFields /\ Same(cc, dd)
  BY <1>1 DEF Rest, CacheFields, Same
<1>3. PICK as : as = Only(i, e) ++ cc.args
  OBVIOUS
<1>4. DOMAIN as = {i} \cup DOMAIN cc.args
  BY <1>3, OnlyDomain
<1>5. as[i] = e /\ \A j \in DOMAIN cc.args : j # i => as[j] = cc.args[j]
  BY <1>3, OnlyOver
<1>6. ASSUME NEW j \in DOMAIN as PROVE SoundEntry(s, j, as[j])
  <2>1. CASE j = i
    BY <1>5, <2>1
  <2>2. CASE j # i
    BY <1>4, <1>5, <2>2 DEF Sound
  <2> QED BY <2>1, <2>2
<1>7. dd.args = as
  BY <1>1, <1>3
<1> QED BY <1>2, <1>6, <1>7 DEF Sound

LEMMA ChildSound ==
  ASSUME NEW s, NEW cc, Sound(s, cc), NEW l
  PROVE  SoundEntry(s, l, Child0(cc, l)) /\ SoundEntry(s, l, Blank)
<1>1. SoundEntry(s, l, Blank)
  BY DEF SoundEntry, Blank
<1> QED BY <1>1 DEF Child0, Sound

LEMMA FromSound ==
  ASSUME NEW s, NEW cc, Sound(s, cc), NEW l, NEW dir, NEW c, NEW dd, dd = SetupArrayFromPy(cc, l, dir, c)
  PROVE  Sound(s, dd) /\ Same(cc, dd)
<1> DEFINE child == Child0(cc, l)
           e == [child EXCEPT !.meta = IF l < c THEN "childUpdate" ELSE "child", !.dir = dir, !.from = FALSE, !.to = FALSE]
<1>1. dd = cc \/ dd = Put(cc, l, e)
  BY DEF SetupArrayFromPy, Child0
<1>2. SoundEntry(s, l, e)
  <2>1. SoundEntry(s, l, child)
    BY ChildSound
  <2> HIDE DEF child
  <2>2. DOMAIN e = DOMAIN child /\ e.caller = child.caller
    BY <2>1 DEF SoundEntry, Blank
  <2> QED BY <2>1, <2>2 DEF SoundEntry
<1> HIDE DEF e
<1>3. Same(cc, cc)
  BY DEF Same
<1> QED BY <1>1, <1>2, <1>3, PutSound

LEMMA ToSound ==
  ASSUME NEW s, NEW cc, Sound(s, cc), NEW l \in Int, NEW dir, NEW c, NEW dd, dd = SetupArrayToPy(cc, l, dir, c)
  PROVE  Sound(s, dd) /\ dd.ret = cc.ret /\ dd.toPy = IF l >= 0 THEN WithoutLength(cc.toPy, l) ELSE cc.toPy
<1> DEFINE child == Child0(cc, l)
           counted == [cc EXCEPT !.nToChild = IF l < c THEN @ + 1 ELSE @, !.toPy = WithoutLength(@, l)]
           e == [child EXCEPT !.meta = "child", !.dir = dir, !.from = FALSE, !.to = FALSE]
<1>1. /\ l < 0 => dd = cc
      /\ l >= 0 => dd = counted \/ dd = Put(counted, l, e)
  BY DEF SetupArrayToPy, Child0
<1>2. SoundEntry(s, l, e)
  <2>1. SoundEntry(s, l, child)
    BY ChildSound
  <2> HIDE DEF child
  <2>2. DOMAIN e = DOMAIN child /\ e.caller = child.caller
    BY <2>1 DEF SoundEntry, Blank
  <2> QED BY <2>1, <2>2 DEF SoundEntry
<1> HIDE DEF e
<1>3. /\ DOMAIN counted = CacheFields /\ counted.args = cc.args /\ counted.ret = cc.ret
      /\ counted.toPy = WithoutLength(cc.toPy, l)
  BY DEF Sound, CacheFields
<1> HIDE DEF counted
<1>4. Sound(s, counted)
  BY <1>3 DEF Sound
<1>5. l >= 0 => Sound(s, dd) /\ Same(counted, dd)
  <2>1. Same(counted, counted)
    BY DEF Same
  <2> QED BY <1>1, <1>2, <1>4, <2>1, PutSound
<1>6. CASE l < 0
  BY <1>1, <1>6
<1>7. CASE ~(l < 0)
  BY <1>3, <1>5, <1>7 DEF Same
<1> QED BY <1>6, <1>7

LEMMA ArraySound ==
  ASSUME NEW s, NEW cc, Sound(s, cc), NEW l \in Int, NEW dir, NEW c, NEW dd, dd = ArraySetUp(cc, l, dir, c)
  PROVE  /\ Sound(s, dd) /\ dd.ret = cc.ret
         /\ dd.toPy = IF ToPython(dir) /\ l >= 0 THEN WithoutLength(cc.toPy, l) ELSE cc.toPy
<1>1. PICK cc1 : cc1 = IF FromPython(dir) THEN SetupArrayFromPy(cc, l, dir, c) ELSE cc
  OBVIOUS
<1>2. Sound(s, cc1) /\ Same(cc, cc1)
  <2>1. Same(cc, cc)
    BY DEF Same
  <2> QED BY <1>1, <2>1, FromSound
<1>3. dd = IF ToPython(dir) THEN SetupArrayToPy(cc1, l, dir, c) ELSE cc1
  BY <1>1 DEF ArraySetUp
<1>4. CASE ToPython(dir)
  BY <1>2, <1>3, <1>4, ToSound DEF Same
<1>5. CASE ~ToPython(dir)
  BY <1>2, <1>3, <1>5 DEF Same
<1> QED BY <1>4, <1>5

LEMMA UpdateSound ==
  ASSUME NEW s, NEW cc, Sound(s, cc), NEW l, NEW dd, dd = UpdateIndexes(cc, l)
  PROVE  Sound(s, dd) /\ Same(cc, dd)
<1> DEFINE moved == [i \in DOMAIN cc.args |->
                       IF i = l THEN [cc.args[i] EXCEPT !.meta = "child"]
                       ELSE IF i \in Behind(cc, l) THEN [cc.args[i] EXCEPT !.py = @ - 1]
                       ELSE cc.args[i]]
<1>1. dd = [cc EXCEPT !.args = moved, !.nPy = @ - 1]
  BY DEF UpdateIndexes
<1>2. ASSUME NEW j \in DOMAIN moved PROVE SoundEntry(s, j, moved[j])
  <2>1. SoundEntry(s, j, cc.args[j])
    BY DEF Sound
  <2>2. PICK e : e = cc.args[j]
    OBVIOUS
  <2>3. moved[j] \in {[e EXCEPT !.meta = "child"], [e EXCEPT !.py = @ - 1], e}
    BY <2>2
  <2> HIDE DEF moved
  <2>4. DOMAIN moved[j] = DOMAIN e /\ moved[j].caller = e.caller
    BY <2>1, <2>2, <2>3 DEF SoundEntry, Blank
  <2> QED BY <2>1, <2>2, <2>4 DEF SoundEntry
<1> HIDE DEF moved
<1>3. DOMAIN dd = CacheFields /\ dd.args = moved /\ Same(cc, dd)
  BY <1>1 DEF Sound, CacheFields, Same
<1> QED BY <1>2, <1>3 DEF Sound

LEMMA CallbackSound ==
  ASSUME NEW s, NEW cc, Sound(s, cc), NEW ud, NEW destroy, NEW dd, dd = SetupCallback(cc, ud, destroy)
  PROVE  Sound(s, dd) /\ Same(cc, dd)
<1> DEFINE e == [Blank EXCEPT !.meta = "childPy", !.dir = "from"]
           f == [Blank EXCEPT !.meta = "child", !.dir = "from"]
<1>1. PICK cc1 : cc1 = IF ud < 0 THEN cc ELSE Put(cc, ud, e)
  OBVIOUS
<1>2. dd = IF destroy < 0 THEN cc1 ELSE Put(cc1, destroy, f)
  BY <1>1 DEF SetupCallback
<1>3. SoundEntry(s, ud, e) /\ SoundEntry(s, destroy, f)
  BY DEF SoundEntry, Blank
<1> HIDE DEF e, f
<1>4. Same(cc, cc) /\ Same(cc1, cc1)
  BY DEF Same
<1>5. Sound(s, cc1) /\ Same(cc, cc1)
  BY <1>1, <1>3, <1>4, PutSound
<1>6. Sound(s, dd) /\ Same(cc1, dd)
  BY <1>2, <1>3, <1>4, <1>5, PutSound
<1> QED BY <1>5, <1>6 DEF Same

LEMMA EntryEnds ==
  ASSUME NEW a, NEW dir, NEW c, NEW py, NEW off, NEW e, e = Entry(a, dir, c, py, off)
  PROVE  ~e.caller /\ (e.toClean <=> ToPython(dir) /\ HasToCleanup(a.tag))
<1>1. "caller" \in DOMAIN Blank /\ ~Blank.caller
  BY DEF Blank
<1>2. ~e.caller
  BY <1>1 DEF Entry
<1> QED BY <1>2, EntrySwept

LEMMA ArgEnds ==
  ASSUME NEW s, NEW cc, Sound(s, cc), cc.ftype = s.ftype, NEW a, a.len \in Int, NEW dir, NEW c, NEW py,
         NEW l, l = (IF a.len >= 0 THEN a.len + Offset(s.ftype) ELSE -1),
         NEW r, r = ArgCacheNew(cc, a, dir, c, py), r.ok
  PROVE  /\ Sound(s, r.cc) /\ r.cc.ret = cc.ret
         /\ r.cc.toPy = IF a.tag = "array" /\ a.len >= 0 /\ ToPython(dir) THEN WithoutLength(cc.toPy, l) ELSE cc.toPy
         /\ DOMAIN r.e = DOMAIN Blank /\ r.e.tag = a.tag /\ r.e.len = l
         /\ r.e.transfer = a.transfer /\ r.e.item = a.item /\ r.e.atype = a.atype
         /\ ~r.e.caller /\ (r.e.toClean <=> ToPython(dir) /\ HasToCleanup(a.tag))
<1>1. PICK e : e = Entry(a, dir, c, py, Offset(cc.ftype))
  OBVIOUS
<1>2. /\ DOMAIN e = DOMAIN Blank /\ e.tag = a.tag /\ e.len = l
      /\ e.transfer = a.transfer /\ e.item = a.item /\ e.atype = a.atype
      /\ ~e.caller /\ (e.toClean <=> ToPython(dir) /\ HasToCleanup(a.tag))
  BY <1>1, EntryIs, EntryEnds
<1>3. PICK dd : dd = ArraySetUp(cc, e.len, dir, c)
  OBVIOUS
<1>4. Offset(s.ftype) \in {0, 1} /\ l \in Int /\ (l >= 0 <=> a.len >= 0)
  BY DEF Offset
<1>5. /\ Sound(s, dd) /\ dd.ret = cc.ret
      /\ dd.toPy = IF ToPython(dir) /\ l >= 0 THEN WithoutLength(cc.toPy, l) ELSE cc.toPy
  BY <1>2, <1>3, <1>4, ArraySound
<1>6. CASE a.tag = "callback"
  <2>1. r = IF ToPython(dir) THEN [ok |-> FALSE, cc |-> cc, e |-> e]
            ELSE [ok |-> TRUE, cc |-> SetupCallback(cc, e.ud, e.destroy), e |-> e]
    BY <1>1, <1>3, <1>6, ArgNew
  <2>2. r.cc = SetupCallback(cc, e.ud, e.destroy) /\ r.e = e
    BY <2>1
  <2>3. Sound(s, r.cc) /\ Same(cc, r.cc)
    BY <2>2, CallbackSound
  <2> QED BY <1>2, <1>6, <2>2, <2>3 DEF Same
<1>7. CASE a.tag = "array"
  <2>1. r = IF NeedsUpdate(dd, e.len)
            THEN [ok |-> TRUE, cc |-> UpdateIndexes(dd, e.len), e |-> [e EXCEPT !.py = py - 1]]
            ELSE [ok |-> TRUE, cc |-> dd, e |-> e]
    BY <1>1, <1>3, <1>7, ArgNew
  <2>2. /\ r.cc = UpdateIndexes(dd, e.len) \/ r.cc = dd
        /\ r.e = [e EXCEPT !.py = py - 1] \/ r.e = e
    BY <2>1
  <2>3. Sound(s, r.cc) /\ Same(dd, r.cc)
    <3>1. Same(dd, dd)
      BY DEF Same
    <3> QED BY <1>5, <2>2, <3>1, UpdateSound
  <2>4. /\ DOMAIN r.e = DOMAIN e /\ r.e.tag = e.tag /\ r.e.len = e.len
        /\ r.e.transfer = e.transfer /\ r.e.item = e.item /\ r.e.atype = e.atype
        /\ r.e.caller = e.caller /\ r.e.toClean = e.toClean
    BY <1>2, <2>2 DEF Blank
  <2> QED BY <1>2, <1>4, <1>5, <1>7, <2>3, <2>4 DEF Same
<1>8. CASE a.tag \notin {"callback", "array"}
  <2>1. r = [ok |-> a.tag # "unknown", cc |-> cc, e |-> e]
    BY <1>1, <1>3, <1>8, ArgNew
  <2>2. r.cc = cc /\ r.e = e
    BY <2>1
  <2> QED BY <1>2, <1>8, <2>2
<1> QED BY <1>6, <1>7, <1>8

LEMMA EndsSound ==
  ASSUME NEW s, NEW cc, NEW p, NEW q, CacheOK(s, cc, q), EndsOK(s, cc, p)
  PROVE  Sound(s, cc)
BY DEF CacheOK, EntryOK, EndsOK, Sound, SoundEntry

\* Argument p is a result from its turn on; the length it has is none.
LEMMA ResultsNext ==
  ASSUME NEW s, Regular(s), NEW p \in ArgsOf(s)
  PROVE  /\ \A j : j \in Results(s, p + 1) <=>
                     \/ j \in Results(s, p) /\ ~(HasLengthArg(s, p) /\ j = LengthAt(s, p))
                     \/ j = p /\ ToPython(WayOf(s, p)) /\ ~Lengthed(s, p, p)
         /\ \A j \in Results(s, p) : j < p
         /\ HasLengthArg(s, p) => LengthAt(s, p) # p /\ WayOf(s, LengthAt(s, p)) = WayOf(s, p)
<1>1. p \in Numbers(s) /\ p \in Int /\ \A j \in Numbers(s) : j \in Int
  BY Ways
<1>2. HasLengthArg(s, p) => LengthAt(s, p) # p /\ WayOf(s, LengthAt(s, p)) = WayOf(s, p)
  BY Owners DEF LengthRegular, Childless
<1>3. ASSUME NEW j
      PROVE  Lengthed(s, p + 1, j) <=> Lengthed(s, p, j) \/ (HasLengthArg(s, p) /\ j = LengthAt(s, p))
  BY Marks
<1>4. \A j \in Numbers(s) : j < p + 1 <=> j < p \/ j = p
  BY <1>1
<1>5. \A j : j \in ToOnes(s) <=> j \in Numbers(s) /\ ToPython(WayOf(s, j))
  BY DEF ToOnes
<1>6. ASSUME NEW j
      PROVE  j \in Results(s, p + 1) <=>
                     \/ j \in Results(s, p) /\ ~(HasLengthArg(s, p) /\ j = LengthAt(s, p))
                     \/ j = p /\ ToPython(WayOf(s, p)) /\ ~Lengthed(s, p, p)
  <2>1. j \in Results(s, p + 1) <=> j \in ToOnes(s) /\ (j < p \/ j = p) /\ ~Lengthed(s, p + 1, j)
    BY <1>4, <1>5 DEF Results
  <2>2. j \in Results(s, p) <=> j \in ToOnes(s) /\ j < p /\ ~Lengthed(s, p, j)
    BY DEF Results
  <2>3. j = p => ~(j < p)
    BY <1>1
  <2>4. CASE j = p
    <3>1. j \in Results(s, p + 1) <=> ToPython(WayOf(s, p)) /\ ~Lengthed(s, p, p)
      BY <1>1, <1>2, <1>3, <1>5, <2>1, <2>4
    <3> QED BY <2>2, <2>3, <2>4, <3>1
  <2>5. CASE j # p
    BY <1>3, <2>1, <2>2, <2>5
  <2> QED BY <2>4, <2>5
<1>7. \A j \in Results(s, p) : j < p
  BY DEF Results
<1> QED BY <1>2, <1>6, <1>7

\* Before the first argument there is none.
LEMMA ResultsNone ==
  ASSUME NEW s, Regular(s)
  PROVE  Results(s, Offset(s.ftype)) = {}
<1>1. \A j \in ToOnes(s) : j \in Numbers(s) /\ j \in ArgsOf(s)
  BY Ways DEF ToOnes, ToPython
<1>2. \A j \in ArgsOf(s) : ~(j < Offset(s.ftype))
  BY Ways DEF ArgsOf
<1> QED BY <1>1, <1>2 DEF Results

LEMMA ReturnEnds ==
  ASSUME NEW s, Regular(s), NEW cc, cc = NewCallable(s), NEW r, r = ArgCacheNew(cc, s.ret, "to", -1, -1), r.ok,
         NEW dd, dd = [r.cc EXCEPT !.ret = r.e],
         NEW new, new = IF IsMethod(s.ftype) THEN Instance(dd) ELSE dd
  PROVE  EndsOK(s, new, Offset(s.ftype))
<1>1. DOMAIN cc = CacheFields /\ DOMAIN cc.args = {} /\ cc.toPy = << >> /\ cc.ftype = s.ftype
  BY NewIs
<1>2. Sound(s, cc)
  BY <1>1 DEF Sound
<1>3. s.ret.len \in Int
  BY Owners DEF ArgOf
<1>4. PICK l : l = IF s.ret.len >= 0 THEN s.ret.len + Offset(s.ftype) ELSE -1
  OBVIOUS
<1>5. /\ Sound(s, r.cc)
      /\ r.cc.toPy = << >> \/ r.cc.toPy = WithoutLength(<< >>, l)
      /\ DOMAIN r.e = DOMAIN Blank /\ r.e.tag = s.ret.tag /\ r.e.len = l
      /\ r.e.transfer = s.ret.transfer /\ r.e.item = s.ret.item /\ r.e.atype = s.ret.atype
      /\ ~r.e.caller /\ (r.e.toClean <=> HasToCleanup(s.ret.tag))
  BY <1>1, <1>2, <1>3, <1>4, ArgEnds DEF ToPython
<1>6. /\ DOMAIN dd = CacheFields /\ dd.args = r.cc.args /\ dd.toPy = r.cc.toPy /\ dd.ret = r.e
  BY <1>5 DEF Sound, CacheFields
<1>7. Sound(s, dd)
  BY <1>5, <1>6 DEF Sound
<1>8. Sound(s, new) /\ Same(dd, new)
  <2>1. CASE IsMethod(s.ftype)
    <3>1. new = [Put(dd, 0, Self) EXCEPT !.nFrom = 1, !.nPy = 1]
      BY <2>1 DEF Instance
    <3>2. SoundEntry(s, 0, Self)
      BY DEF SoundEntry, Self, Blank
    <3>3. PICK put : put = Put(dd, 0, Self)
      OBVIOUS
    <3>4. Sound(s, put) /\ Same(dd, put)
      BY <1>7, <3>2, <3>3, PutSound
    <3>5. DOMAIN new = CacheFields /\ new.args = put.args /\ new.toPy = put.toPy /\ new.ret = put.ret
      BY <3>1, <3>3, <3>4 DEF Sound, CacheFields
    <3> QED BY <3>4, <3>5 DEF Sound, Same
  <2>2. CASE ~IsMethod(s.ftype)
    BY <1>7, <2>2 DEF Same
  <2> QED BY <2>1, <2>2
<1>9. Listing(<< >>, {})
  BY DEF Listing
<1>10. Listing(WithoutLength(<< >>, l), {})
  <2>1. Listing(WithoutLength(<< >>, l), {} \ {l})
    BY <1>9, ListedLess
  <2>2. {} \ {l} = {}
    OBVIOUS
  <2> QED BY <2>1, <2>2
<1>11. Listing(new.toPy, Results(s, Offset(s.ftype)))
  BY <1>5, <1>6, <1>8, <1>9, <1>10, ResultsNone DEF Same
<1>12. Returning(s, new.ret)
  <2>1. new.ret = r.e
    BY <1>6, <1>8 DEF Same
  <2> QED BY <1>4, <1>5, <2>1 DEF Returning
<1> QED BY <1>8, <1>11, <1>12 DEF EndsOK, Sound, SoundEntry

LEMMA EndsNext ==
  ASSUME NEW s, NEW cc, NEW p, EndsOK(s, cc, p), NEW new, Sound(s, new), new.ret = cc.ret,
         NEW q, Listing(new.toPy, Results(s, q))
  PROVE  EndsOK(s, new, q)
BY DEF EndsOK, Sound, SoundEntry

LEMMA ClosureEnds ==
  ASSUME NEW s, Regular(s), NEW p \in ArgsOf(s), IsClosure(s, p), NEW cc, CacheOK(s, cc, p), EndsOK(s, cc, p),
         NEW e, SoundEntry(s, p, e), NEW new, new = [Put(cc, p, e) EXCEPT !.nFrom = @ + 1]
  PROVE  EndsOK(s, new, p + 1)
<1>1. Sound(s, cc)
  BY EndsSound
<1>2. PICK put : put = Put(cc, p, e)
  OBVIOUS
<1>3. Sound(s, put) /\ Same(cc, put)
  BY <1>1, <1>2, PutSound
<1>4. DOMAIN new = CacheFields /\ new.args = put.args /\ new.toPy = put.toPy /\ new.ret = put.ret
  BY <1>2, <1>3 DEF Sound, CacheFields
<1>5. Sound(s, new)
  BY <1>3, <1>4 DEF Sound
<1>6. WayOf(s, p) = "from" /\ ~HasLengthArg(s, p)
  BY DEF Regular, HasLengthArg
<1>7. Results(s, p + 1) = Results(s, p)
  BY <1>6, ResultsNext DEF ToPython
<1>8. Listing(new.toPy, Results(s, p + 1))
  BY <1>3, <1>4, <1>7 DEF Same, EndsOK
<1> QED BY <1>3, <1>4, <1>5, <1>8, EndsNext DEF Same

LEMMA ChildEnds ==
  ASSUME NEW s, Regular(s), NEW p \in ArgsOf(s), NEW cc, CacheOK(s, cc, p), EndsOK(s, cc, p), p \in DOMAIN cc.args,
         NEW f, SoundEntry(s, p, f), NEW e, NEW dir, NEW new, new = AfterChild(cc, p, f, e, dir)
  PROVE  EndsOK(s, new, p + 1)
<1>1. Sound(s, cc)
  BY EndsSound
<1>2. PICK put : put = Put(cc, p, f)
  OBVIOUS
<1>3. Sound(s, put) /\ Same(cc, put)
  BY <1>1, <1>2, PutSound
<1>4. DOMAIN new = CacheFields /\ new.args = put.args /\ new.toPy = put.toPy /\ new.ret = put.ret
  BY <1>2, <1>3 DEF Sound, CacheFields, AfterChild
<1>5. Sound(s, new)
  BY <1>3, <1>4 DEF Sound
<1>6. Lengthed(s, p, p) \/ Fed(s, p, p) \/ Ended(s, p, p)
  <2>1. p \in Int
    BY Ways
  <2> QED BY <2>1 DEF CacheOK
<1>7. ~HasLengthArg(s, p) /\ (ToPython(WayOf(s, p)) => Lengthed(s, p, p))
  <2>1. p \in Int
    BY Ways
  <2>2. Childless(s, p) /\ (Fed(s, p, p) \/ Ended(s, p, p) => WayOf(s, p) = "from")
    BY <1>6, <2>1, Children
  <2> QED BY <1>6, <2>2 DEF Childless, ToPython
<1>8. Results(s, p + 1) = Results(s, p)
  BY <1>7, ResultsNext
<1>9. Listing(new.toPy, Results(s, p + 1))
  BY <1>3, <1>4, <1>8 DEF Same, EndsOK
<1> QED BY <1>3, <1>4, <1>5, <1>9, EndsNext DEF Same

LEMMA ArgListed ==
  ASSUME NEW s, Regular(s), NEW p \in ArgsOf(s), NEW cc, CacheOK(s, cc, p), EndsOK(s, cc, p), p \notin DOMAIN cc.args,
         NEW q, q = (IF HasLengthArg(s, p) /\ ToPython(WayOf(s, p)) THEN WithoutLength(cc.toPy, LengthAt(s, p))
                     ELSE cc.toPy),
         NEW u, u = (IF ToPython(WayOf(s, p)) THEN Append(q, p) ELSE q)
  PROVE  Listing(u, Results(s, p + 1))
<1>1. p \in Int /\ ~Lengthed(s, p, p)
  <2>1. p \in Int /\ p \in Numbers(s)
    BY Ways
  <2> QED BY <2>1 DEF CacheOK
<1>2. Listing(cc.toPy, Results(s, p))
  BY DEF EndsOK
<1>3. PICK S : S = {j \in Results(s, p) : ~(HasLengthArg(s, p) /\ j = LengthAt(s, p))}
  OBVIOUS
<1>4. Listing(q, S)
  <2>1. CASE HasLengthArg(s, p) /\ ToPython(WayOf(s, p))
    <3>1. Listing(WithoutLength(cc.toPy, LengthAt(s, p)), Results(s, p) \ {LengthAt(s, p)})
      BY <1>2, ListedLess
    <3>2. S = Results(s, p) \ {LengthAt(s, p)}
      BY <1>3, <2>1
    <3> QED BY <2>1, <3>1, <3>2
  <2>2. CASE HasLengthArg(s, p) /\ ~ToPython(WayOf(s, p))
    <3>1. LengthAt(s, p) \notin Results(s, p)
      BY <2>2, ResultsNext DEF Results, ToOnes
    <3>2. S = Results(s, p)
      BY <1>3, <3>1
    <3> QED BY <1>2, <2>2, <3>2
  <2>3. CASE ~HasLengthArg(s, p)
    <3>1. S = Results(s, p)
      BY <1>3, <2>3
    <3> QED BY <1>2, <2>3, <3>1
  <2> QED BY <2>1, <2>2, <2>3
<1>5. \A j \in S : j < p
  BY <1>3, ResultsNext
<1>6. CASE ToPython(WayOf(s, p))
  <2>1. Listing(Append(q, p), S \cup {p})
    BY <1>1, <1>4, <1>5, ListedMore
  <2>2. S \cup {p} = Results(s, p + 1)
    BY <1>1, <1>3, <1>6, ResultsNext
  <2> QED BY <1>6, <2>1, <2>2
<1>7. CASE ~ToPython(WayOf(s, p))
  <2>1. S = Results(s, p + 1)
    BY <1>3, <1>7, ResultsNext
  <2> QED BY <1>4, <1>7, <2>1
<1> QED BY <1>6, <1>7

LEMMA NewArgEnds ==
  ASSUME NEW s, Regular(s), NEW p \in ArgsOf(s), NEW cc, CacheOK(s, cc, p), EndsOK(s, cc, p), p \notin DOMAIN cc.args,
         NEW dir, dir = WayOf(s, p), NEW c0, c0 = Counted(cc, dir), NEW py,
         NEW r, r = ArgCacheNew(c0, ArgOf(s, p), dir, p, py), r.ok,
         NEW none, NEW caller, caller => Structured(s, p),
         NEW f, f = Named(r.e, none, caller), NEW c1, c1 = Listed(r.cc, dir, p), NEW new, new = Put(c1, p, f)
  PROVE  EndsOK(s, new, p + 1)
<1>1. Sound(s, cc)
  BY EndsSound
<1>2. Rest(cc, c0, {"nFrom", "nPy"})
  BY <1>1, CountedIs DEF Sound
<1>3. DOMAIN c0 = CacheFields /\ c0.args = cc.args /\ c0.toPy = cc.toPy /\ c0.ret = cc.ret /\ c0.ftype = cc.ftype
  BY <1>2 DEF Rest, CacheFields
<1>4. Sound(s, c0) /\ c0.ftype = s.ftype
  BY <1>1, <1>3 DEF Sound, CacheOK
<1>5. ArgOf(s, p).len \in Int
  BY Owners
<1>6. PICK l : l = IF ArgOf(s, p).len >= 0 THEN ArgOf(s, p).len + Offset(s.ftype) ELSE -1
  OBVIOUS
<1>7. /\ Sound(s, r.cc) /\ r.cc.ret = c0.ret
      /\ r.cc.toPy = IF ArgOf(s, p).tag = "array" /\ ArgOf(s, p).len >= 0 /\ ToPython(dir)
                     THEN WithoutLength(c0.toPy, l) ELSE c0.toPy
      /\ DOMAIN r.e = DOMAIN Blank
  BY <1>4, <1>5, <1>6, ArgEnds
<1>8. SoundEntry(s, p, f)
  <2>1. DOMAIN f = DOMAIN r.e /\ f.caller = caller
    BY <1>7 DEF Named, Blank
  <2> QED BY <1>7, <2>1 DEF SoundEntry
<1>9. /\ Rest(r.cc, c1, {"nTo", "toPy"})
      /\ c1.toPy = IF ToPython(dir) THEN Append(r.cc.toPy, p) ELSE r.cc.toPy
  BY <1>7, ListedIs DEF Sound
<1>10. DOMAIN c1 = CacheFields /\ c1.args = r.cc.args /\ c1.ret = r.cc.ret
  BY <1>9 DEF Rest, CacheFields
<1>11. Sound(s, c1)
  BY <1>7, <1>10 DEF Sound
<1>12. Sound(s, new) /\ Same(c1, new)
  BY <1>8, <1>11, PutSound
<1>13. r.cc.toPy = IF HasLengthArg(s, p) /\ ToPython(WayOf(s, p)) THEN WithoutLength(cc.toPy, LengthAt(s, p))
                   ELSE cc.toPy
  <2>1. HasLengthArg(s, p) <=> ArgOf(s, p).tag = "array" /\ ArgOf(s, p).len >= 0
    BY DEF HasLengthArg
  <2>2. HasLengthArg(s, p) => l = LengthAt(s, p)
    BY <1>6, <2>1 DEF LengthAt
  <2> QED BY <1>3, <1>7, <2>1, <2>2
<1>14. Listing(c1.toPy, Results(s, p + 1))
  BY <1>9, <1>13, ArgListed
<1>15. new.ret = cc.ret /\ Listing(new.toPy, Results(s, p + 1))
  BY <1>3, <1>7, <1>10, <1>12, <1>14 DEF Same
<1> QED BY <1>12, <1>15, EndsNext

LEMMA CacheEnds ==
  ASSUME Indexed, Ends, CacheNext
  PROVE  Ends'
<1>0. "args" \notin {"cached"} \cup Calling /\ "return" \notin {"cached"} \cup Calling
      /\ "no cache" \notin {"cached"} \cup Calling
  BY DEF Calling
<1>1. CASE CacheNew
  <2>1. pc' = "return"
    BY <1>1 DEF CacheNew
  <2> QED BY <1>0, <2>1 DEF Ends
<1>2. CASE CacheReturn
  <2> DEFINE r == ArgCacheNew(cache, sig.ret, "to", -1, -1)
             dd == [r.cc EXCEPT !.ret = r.e]
  <2>1. Regular(sig) /\ sig' = sig /\ cache = NewCallable(sig)
    BY <1>2, SigsAssumption DEF Indexed, CacheReturn
  <2>2. CASE ~r.ok
    <3>1. pc' = "no cache"
      BY <1>2, <2>2 DEF CacheReturn
    <3> QED BY <1>0, <3>1 DEF Ends
  <2>3. CASE r.ok
    <3>1. /\ pc' = "args" /\ pos' = Offset(sig.ftype)
          /\ cache' = IF IsMethod(sig.ftype) THEN Instance(dd) ELSE dd
      BY <1>2, <2>3 DEF CacheReturn
    <3>2. PICK new : new = cache'
      OBVIOUS
    <3>3. EndsOK(sig, new, Offset(sig.ftype))
      <4> HIDE DEF r
      <4>1. r = ArgCacheNew(cache, sig.ret, "to", -1, -1)
        BY DEF r
      <4>2. dd = [r.cc EXCEPT !.ret = r.e]
        OBVIOUS
      <4> HIDE DEF dd
      <4> QED BY <2>1, <2>3, <3>1, <3>2, <4>1, <4>2, ReturnEnds
    <3> HIDE DEF dd
    <3> QED BY <1>0, <2>1, <3>1, <3>2, <3>3 DEF Ends
  <2> QED BY <2>2, <2>3
<1>3. ASSUME pc = "args", pos < cache.n, NEW new, EndsOK(sig, new, pos + 1),
             cache' = new, pos' = pos + 1, pc' = pc, sig' = sig
      PROVE  Ends'
  BY <1>0, <1>3 DEF Ends
<1>4. CASE CacheClosure
  <2> DEFINE e == [Blank EXCEPT !.meta = "closure", !.dir = "from", !.named = TRUE, !.c = pos - Offset(sig.ftype)]
             new == [Put(cache, pos, e) EXCEPT !.nFrom = @ + 1]
  <2>1. /\ pc = "args" /\ pos < cache.n /\ Info.closure = pos - Offset(sig.ftype)
        /\ cache' = new /\ pos' = pos + 1 /\ pc' = pc /\ sig' = sig
    BY <1>4 DEF CacheClosure
  <2>2. SoundEntry(sig, pos, e)
    BY DEF SoundEntry, Blank
  <2>3. /\ Regular(sig) /\ pos \in ArgsOf(sig) /\ IsClosure(sig, pos) /\ CacheOK(sig, cache, pos)
        /\ EndsOK(sig, cache, pos)
    BY <2>1, InfoIs DEF Ends
  <2>4. EndsOK(sig, new, pos + 1)
    <3> HIDE DEF e
    <3>1. new = [Put(cache, pos, e) EXCEPT !.nFrom = @ + 1]
      OBVIOUS
    <3> HIDE DEF new
    <3> QED BY <2>2, <2>3, <3>1, ClosureEnds
  <2> HIDE DEF new
  <2> QED BY <1>3, <2>1, <2>4
<1>5. CASE CacheChild
  <2> DEFINE dir == Direction(Info)
             e == cache.args[pos]
             e1 == IF e.meta = "childPy" THEN [e EXCEPT !.py = cache.nPy] ELSE e
             e2 == IF FromPython(dir) THEN Found(cache, e1) ELSE e1
             f == [e2 EXCEPT !.tag = Info.tag]
             new == AfterChild(cache, pos, f, e, dir)
  <2>1. /\ pc = "args" /\ pos < cache.n /\ pos \in DOMAIN cache.args
        /\ cache' = new /\ pos' = pos + 1 /\ pc' = pc /\ sig' = sig
    BY <1>5 DEF CacheChild, AfterChild
  <2>2. /\ Regular(sig) /\ pos \in ArgsOf(sig) /\ CacheOK(sig, cache, pos)
        /\ EndsOK(sig, cache, pos)
    BY <2>1, InfoIs DEF Ends
  <2>3. SoundEntry(sig, pos, e)
    BY <2>1, <2>2, EndsSound DEF Sound
  <2> HIDE DEF e, dir
  <2>4. {"meta", "dir", "tag", "c", "py", "caller"} \subseteq DOMAIN e
    BY <2>3 DEF SoundEntry, Blank
  <2>5. DOMAIN e1 = DOMAIN e /\ e1.caller = e.caller
    BY <2>4
  <2> HIDE DEF e1
  <2>6. DOMAIN e2 = DOMAIN e /\ e2.caller = e.caller
    BY <2>4, <2>5 DEF Found
  <2> HIDE DEF e2
  <2>7. DOMAIN f = DOMAIN e /\ f.caller = e.caller
    BY <2>4, <2>6
  <2> HIDE DEF f
  <2>8. SoundEntry(sig, pos, f)
    BY <2>3, <2>7 DEF SoundEntry
  <2>9. EndsOK(sig, new, pos + 1)
    <3>1. new = AfterChild(cache, pos, f, e, dir)
      OBVIOUS
    <3> HIDE DEF new
    <3> QED BY <2>1, <2>2, <2>8, <3>1, ChildEnds
  <2> HIDE DEF new
  <2> QED BY <1>3, <2>1, <2>9
<1>6. CASE CacheArg
  <2> DEFINE dir == Direction(Info)
             cc == Counted(cache, dir)
             py == IF FromPython(dir) THEN cache.nPy ELSE -1
             r == ArgCacheNew(cc, Info, dir, pos, py)
             caller == Info.caller /\ Info.tag \in Interfaces \cup {"array"}
             f == Named(r.e, Info.none, caller)
             c1 == Listed(r.cc, dir, pos)
             new == Put(c1, pos, f)
  <2>1. /\ pc = "args" /\ pos < cache.n /\ pos \notin DOMAIN cache.args /\ sig' = sig
    BY <1>6 DEF CacheArg
  <2>2. CASE ~r.ok
    <3>1. pc' = "no cache"
      BY <1>6, <2>2 DEF CacheArg, Counted
    <3> QED BY <1>0, <3>1 DEF Ends
  <2>3. CASE r.ok
    <3>1. cache' = new /\ pos' = pos + 1 /\ pc' = pc
      BY <1>6, <2>3 DEF CacheArg, Counted, Named, Listed
    <3>2. EndsOK(sig, new, pos + 1)
      <4>1. /\ Regular(sig) /\ pos \in ArgsOf(sig) /\ CacheOK(sig, cache, pos) /\ EndsOK(sig, cache, pos)
            /\ dir = WayOf(sig, pos) /\ Info = ArgOf(sig, pos)
        BY <2>1, InfoIs DEF Ends
      <4>2. /\ cc = Counted(cache, dir)
            /\ r = ArgCacheNew(cc, ArgOf(sig, pos), dir, pos, py) /\ f = Named(r.e, Info.none, caller)
            /\ c1 = Listed(r.cc, dir, pos) /\ new = Put(c1, pos, f)
        BY <4>1
      <4>3. caller => Structured(sig, pos)
        BY <4>1 DEF Structured
      <4> HIDE DEF dir, cc, py, r, caller, f, c1, new
      <4> QED BY <2>1, <2>3, <4>1, <4>2, <4>3, NewArgEnds
    <3> HIDE DEF new
    <3> QED BY <1>3, <2>1, <3>1, <3>2
  <2> QED BY <2>2, <2>3
<1>7. CASE CacheDone
  <2> DEFINE names == NameList(cache)
  <2>1. /\ pc = "args" /\ pos = cache.n /\ cache' = [cache EXCEPT !.names = names] /\ pc' = "cached" /\ sig' = sig
    BY <1>7 DEF CacheDone
  <2> HIDE DEF names
  <2>2. PICK new : new = cache'
    OBVIOUS
  <2>3. DOMAIN cache = CacheFields /\ EndsOK(sig, cache, Count(sig))
    BY <2>1 DEF Indexed, CacheOK, Ends
  <2>4. new.args = cache.args /\ new.toPy = cache.toPy /\ new.ret = cache.ret
    BY <2>1, <2>2, <2>3 DEF CacheFields
  <2>5. EndsOK(sig, new, Count(sig))
    BY <2>3, <2>4 DEF EndsOK
  <2> QED BY <2>1, <2>2, <2>5 DEF Ends
<1> QED BY <1>1, <1>2, <1>4, <1>5, <1>6, <1>7 DEF CacheNext

LEMMA CallEnds ==
  ASSUME Ends, pc \in {"cached"} \cup Calling, pc' \in {"cached"} \cup Calling, sig' = sig, cache' = cache
  PROVE  Ends'
BY DEF Ends, Calling
=============================================================================
