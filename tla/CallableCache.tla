--------------------------- MODULE CallableCache ---------------------------
(***************************************************************************)
(* The cache of a callable (pygi-cache.c): what is worked out once, from   *)
(* the introspection data of a function, about how its arguments are       *)
(* marshalled.  Everything an invocation does later is an index computed   *)
(* here: which Python argument goes into which C argument, which C         *)
(* arguments no Python argument corresponds to because another one (an     *)
(* array, a callback) fills them in, which values come back.               *)
(*                                                                         *)
(* An argument and its children may come in either order, so entries are   *)
(* made ahead of their turn and indexes are corrected after the fact.      *)
(*                                                                         *)
(* C arguments are numbered from 0, as in the code; a method's instance    *)
(* is argument 0 and shifts what the introspection data numbers.           *)
(***************************************************************************)
EXTENDS ArgTypes

CONSTANT Sigs  \* the callables: records [ftype, args, ret, skip], see ArgTypes

NewCallable(s) ==
  [ftype |-> s.ftype, n |-> Len(s.args) + Offset(s.ftype), args |-> << >>,
   nFrom |-> 0, nTo |-> 0, nToChild |-> 0, nPy |-> 0, toPy |-> << >>, ret |-> Blank,
   names |-> << >>]

\* args_cache is an array of pointers: those that are not NULL are its domain.
Put(cc, i, e) == [cc EXCEPT !.args = Only(i, e) ++ @]

IsChild(e) == e.meta \in {"child", "childUpdate"}

(***************************************************************************)
(* An array marks the argument that holds its length.  One that comes      *)
(* before the array has been given an index among the Python arguments,    *)
(* and is marked so that the indexes are corrected.                        *)
(***************************************************************************)
SetupArrayFromPy(cc, len, dir, c) ==
  LET child == IF len \in DOMAIN cc.args THEN cc.args[len] ELSE Blank
  IN  IF len < 0 \/ IsChild(child) THEN cc
      ELSE Put(cc, len, [child EXCEPT !.meta = IF len < c THEN "childUpdate" ELSE "child",
                                      !.dir = dir, !.from = FALSE, !.to = FALSE])

\* The length is no result of its own.  Mutant: it stays one.
WithoutLengthNot(toPy, len) == toPy
WithoutLength(toPy, len) == RemoveFirst(toPy, len)

SetupArrayToPy(cc, len, dir, c) ==
  LET child == IF len \in DOMAIN cc.args THEN cc.args[len] ELSE Blank
      counted == [cc EXCEPT !.nToChild = IF len < c THEN @ + 1 ELSE @,
                            !.toPy = WithoutLength(@, len)]
  IN  IF len < 0 THEN cc
      ELSE IF IsChild(child) THEN counted
      ELSE Put(counted, len, [child EXCEPT !.meta = "child", !.dir = dir,
                                           !.from = FALSE, !.to = FALSE])

(***************************************************************************)
(* The length came before the array: it is no Python argument after all,   *)
(* and the Python arguments behind it move up by one, as far as the cache  *)
(* has been filled in.                                                     *)
(***************************************************************************)
NeedsUpdate(cc, len) == len >= 0 /\ cc.args[len].meta = "childUpdate"
\* Mutant: nothing moves up.
BehindNone(cc, len) == {}
Behind(cc, len) ==
  {i \in DOMAIN cc.args : i > len /\ \A k \in len .. i : k \in DOMAIN cc.args}
UpdateIndexes(cc, len) ==
  LET moved == [i \in DOMAIN cc.args |->
                  IF i = len THEN [cc.args[i] EXCEPT !.meta = "child"]
                  ELSE IF i \in Behind(cc, len) THEN [cc.args[i] EXCEPT !.py = @ - 1]
                  ELSE cc.args[i]]
  IN  [cc EXCEPT !.args = moved, !.nPy = @ - 1]

(***************************************************************************)
(* A callback makes the entries of its user data and of its destroy        *)
(* notification, whatever is there.                                        *)
(***************************************************************************)
SetupCallback(cc, ud, destroy) ==
  LET cc1 == IF ud < 0 THEN cc
             ELSE Put(cc, ud, [Blank EXCEPT !.meta = "childPy", !.dir = "from"])
  IN  IF destroy < 0 THEN cc1
      ELSE Put(cc1, destroy, [Blank EXCEPT !.meta = "child", !.dir = "from"])

\* The entry of an interface type, or of any type, as its set-up leaves it.
Entry(a, dir, c, py, off) ==
  [Blank EXCEPT !.meta = IF a.tag = "error" THEN "child" ELSE "parent",
                !.dir = dir, !.tag = a.tag, !.transfer = a.transfer, !.py = py, !.c = c,
                !.from = FromPython(dir), !.to = ToPython(dir),
                !.fromClean = FromPython(dir) /\ HasFromCleanup(a.tag),
                !.toClean = ToPython(dir) /\ HasToCleanup(a.tag),
                !.len = IF a.len >= 0 THEN a.len + off ELSE -1,
                !.ud = IF a.closure >= 0 THEN a.closure + off ELSE -1,
                !.destroy = IF a.destroy >= 0 THEN a.destroy + off ELSE -1,
                !.scope = a.scope, !.item = a.item, !.atype = a.atype,
                !.fixed = a.fixed, !.zero = a.zero]

(***************************************************************************)
(* _arg_cache_new: the callable's cache with what the argument's set-up    *)
(* changes in it, and the argument's entry; ok is FALSE for NULL.          *)
(***************************************************************************)
ArgCacheNew(cc, a, dir, c, py) ==
  LET off == Offset(cc.ftype)
      e == Entry(a, dir, c, py, off)
      cc1 == IF FromPython(dir) THEN SetupArrayFromPy(cc, e.len, dir, c) ELSE cc
      cc2 == IF ToPython(dir) THEN SetupArrayToPy(cc1, e.len, dir, c) ELSE cc1
  IN  CASE a.tag = "unknown" \/ (a.tag = "callback" /\ ToPython(dir)) ->
             [ok |-> FALSE, cc |-> cc, e |-> e]
        [] a.tag = "callback" /\ ~ToPython(dir) ->
             [ok |-> TRUE, cc |-> SetupCallback(cc, e.ud, e.destroy), e |-> e]
        [] a.tag = "array" ->
             IF NeedsUpdate(cc2, e.len)
             THEN [ok |-> TRUE, cc |-> UpdateIndexes(cc2, e.len), e |-> [e EXCEPT !.py = py - 1]]
             ELSE [ok |-> TRUE, cc |-> cc2, e |-> e]
        [] OTHER -> [ok |-> TRUE, cc |-> cc, e |-> e]

-----------------------------------------------------------------------------
(***************************************************************************)
(* _args_cache_generate, one step per argument.                            *)
(***************************************************************************)
VARIABLES
  sig,     \* the callable that is being called
  cache,   \* its PyGICallableCache
  pc,      \* "no cache", "return", "args", "cached", and the stages of Invoke
  pos      \* the C argument that is dealt with next

cachevars == <<sig, cache, pc, pos>>

InitCache == /\ sig \in Sigs
             /\ cache = NewCallable(sig)
             /\ pc = "no cache"
             /\ pos = 0

\* _pygi_callable_cache_new, the first time the callable is called.
CacheNew == /\ pc = "no cache"
            /\ cache' = NewCallable(sig)
            /\ pc' = "return"
            /\ pos' = 0
            /\ UNCHANGED sig

\* The instance of a method or a virtual function is its first argument.
\* Mutant: it is not counted among the C arguments.
Self == [Blank EXCEPT !.dir = "from", !.tag = "self", !.from = TRUE, !.fromClean = TRUE]
InstanceUncounted(cc) == [Put(cc, 0, Self) EXCEPT !.nPy = 1]
Instance(cc) == [Put(cc, 0, Self) EXCEPT !.nFrom = 1, !.nPy = 1]

CacheReturn ==
  LET r == ArgCacheNew(cache, sig.ret, "to", -1, -1)
      cc == [r.cc EXCEPT !.ret = r.e]
  IN  /\ pc = "return"
      /\ IF ~r.ok THEN pc' = "no cache" /\ UNCHANGED <<cache, pos>>
         ELSE /\ pc' = "args"
              /\ pos' = Offset(sig.ftype)
              /\ cache' = IF IsMethod(sig.ftype) THEN Instance(cc) ELSE cc
      /\ UNCHANGED sig

Info == sig.args[pos - Offset(sig.ftype) + 1]
Direction(a) == CASE a.dir = "inout" -> "both" [] a.dir = "in" -> "from" [] OTHER -> "to"

\* The user data of a C callback that is called from Python.
CacheClosure ==
  LET e == [Blank EXCEPT !.meta = "closure", !.dir = "from", !.named = TRUE,
                         !.c = pos - Offset(sig.ftype)]
  IN  /\ pc = "args" /\ pos < cache.n
      /\ Info.closure = pos - Offset(sig.ftype)
      /\ cache' = [Put(cache, pos, e) EXCEPT !.nFrom = @ + 1]
      /\ pos' = pos + 1
      /\ UNCHANGED <<sig, pc>>

\* An argument whose entry an array or a callback before it has made; what it is told
\* later goes into its C argument.  Mutant: into the one of its Python index.
FoundPy(cc, e) == [e EXCEPT !.c = cc.nPy]
Found(cc, e) == [e EXCEPT !.c = cc.nFrom]
CacheChild ==
  LET dir == Direction(Info)
      e == cache.args[pos]
      e1 == IF e.meta = "childPy" THEN [e EXCEPT !.py = cache.nPy] ELSE e
      e2 == IF FromPython(dir) THEN Found(cache, e1) ELSE e1
  IN  /\ pc = "args" /\ pos < cache.n /\ pos \in DOMAIN cache.args
      /\ Info.closure # pos - Offset(sig.ftype)
      /\ cache' = [Put(cache, pos, [e2 EXCEPT !.tag = Info.tag]) EXCEPT
                     !.nPy = IF e.meta = "childPy" THEN @ + 1 ELSE @,
                     !.nFrom = IF FromPython(dir) THEN @ + 1 ELSE @,
                     !.nTo = IF ToPython(dir) THEN @ + 1 ELSE @,
                     !.nToChild = IF ToPython(dir) THEN @ + 1 ELSE @]
      /\ pos' = pos + 1
      /\ UNCHANGED <<sig, pc>>

CacheArg ==
  LET dir == Direction(Info)
      cc == IF FromPython(dir) THEN [cache EXCEPT !.nFrom = @ + 1, !.nPy = @ + 1] ELSE cache
      r == ArgCacheNew(cc, Info, dir, pos, IF FromPython(dir) THEN cache.nPy ELSE -1)
      e == [r.e EXCEPT !.named = TRUE, !.none = Info.none,
                       !.caller = Info.caller /\ Info.tag \in Interfaces \cup {"array"}]
      cc1 == IF ToPython(dir) THEN [r.cc EXCEPT !.nTo = @ + 1, !.toPy = Append(@, pos)]
             ELSE r.cc
  IN  /\ pc = "args" /\ pos < cache.n /\ pos \notin DOMAIN cache.args
      /\ Info.closure # pos - Offset(sig.ftype)
      /\ IF ~r.ok THEN pc' = "no cache" /\ UNCHANGED <<cache, pos>>
         ELSE /\ cache' = Put(cc1, pos, e)
              /\ pos' = pos + 1
              /\ UNCHANGED pc
      /\ UNCHANGED sig

\* Numbers, the lowest first.
InOrder(S) ==
  [p \in 1 .. Cardinality(S) |-> CHOOSE k \in S : Cardinality({j \in S : j < k}) = p - 1]

\* _arg_name_list_generate: the arguments a Python caller passes, in their order; an
\* entry made by another argument has no name and can only be passed by position.
NameList(cc) ==
  InOrder({k \in 0 .. cc.n - 1 : /\ cc.args[k].meta \notin {"child", "closure"}
                                 /\ FromPython(cc.args[k].dir)})
CacheDone == /\ pc = "args" /\ pos = cache.n
             /\ cache' = [cache EXCEPT !.names = NameList(cache)]
             /\ pc' = "cached"
             /\ UNCHANGED <<sig, pos>>

CacheNext == CacheNew \/ CacheReturn \/ CacheClosure \/ CacheChild \/ CacheArg \/ CacheDone

-----------------------------------------------------------------------------
(***************************************************************************)
(* The callables whose indexes come out right, in C numbers; -1 stands for *)
(* the return value.  An argument has at most one owner, which says that   *)
(* it is the length of an array, the user data of a callback or its        *)
(* destroy notification.  Lengths are no structures, which the caller      *)
(* might allocate, and go the way of their array; the others go in, behind *)
(* their callback.  A length that goes in and comes before its array has   *)
(* no (out) argument in front of it, whose place would be taken for its    *)
(* own.                                                                    *)
(***************************************************************************)
Count(s) == Len(s.args) + Offset(s.ftype)
ArgsOf(s) == Offset(s.ftype) .. Count(s) - 1
ArgOf(s, i) == IF i = -1 THEN s.ret ELSE s.args[i - Offset(s.ftype) + 1]
WayOf(s, i) == IF i = -1 THEN "to" ELSE IF i \in ArgsOf(s) THEN Direction(ArgOf(s, i)) ELSE "from"

HasLengthArg(s, i) == ArgOf(s, i).tag = "array" /\ ArgOf(s, i).len >= 0
LengthAt(s, i) == ArgOf(s, i).len + Offset(s.ftype)
HasUserData(s, i) == i # -1 /\ ArgOf(s, i).tag = "callback" /\ ArgOf(s, i).closure >= 0
UserDataAt(s, i) == ArgOf(s, i).closure + Offset(s.ftype)
HasDestroy(s, i) == i # -1 /\ ArgOf(s, i).tag = "callback" /\ ArgOf(s, i).destroy >= 0
DestroyAt(s, i) == ArgOf(s, i).destroy + Offset(s.ftype)
Owns(s, i, j) == \/ HasLengthArg(s, i) /\ j = LengthAt(s, i)
                 \/ HasUserData(s, i) /\ j = UserDataAt(s, i)
                 \/ HasDestroy(s, i) /\ j = DestroyAt(s, i)
IsClosure(s, i) == i \in ArgsOf(s) /\ ArgOf(s, i).closure + Offset(s.ftype) = i

Childless(s, j) == ~HasLengthArg(s, j) /\ ~HasUserData(s, j) /\ ~HasDestroy(s, j)
LengthRegular(s, i, l) ==
  /\ l \in ArgsOf(s) /\ WayOf(s, l) = WayOf(s, i) /\ Childless(s, l)
  /\ ArgOf(s, l).tag \notin Interfaces \cup {"array"}
  /\ l < i /\ FromPython(WayOf(s, i)) => \A j \in ArgsOf(s) : j < l => WayOf(s, j) # "to"
BehindRegular(s, i, j) == j \in ArgsOf(s) /\ i < j /\ WayOf(s, j) = "from" /\ Childless(s, j)
Regular(s) ==
  /\ s.args \in Seq(Range(s.args))
  /\ \A i \in ArgsOf(s) \cup {-1} :
       /\ {ArgOf(s, i).len, ArgOf(s, i).closure, ArgOf(s, i).destroy} \subseteq Int
       /\ HasLengthArg(s, i) => LengthRegular(s, i, LengthAt(s, i))
       /\ HasUserData(s, i) => BehindRegular(s, i, UserDataAt(s, i))
       /\ HasDestroy(s, i) => BehindRegular(s, i, DestroyAt(s, i))
       /\ HasUserData(s, i) /\ HasDestroy(s, i) => UserDataAt(s, i) # DestroyAt(s, i)
       /\ \A j \in ArgsOf(s) : Owns(s, i, j) => ~IsClosure(s, j)
       /\ \A j \in ArgsOf(s) \cup {-1} : i # j => \A k \in ArgsOf(s) : ~(Owns(s, i, k) /\ Owns(s, j, k))
  /\ \A i \in ArgsOf(s) :
       /\ ArgOf(s, i).dir \in {"in", "out", "inout"} /\ ArgOf(s, i).tag # "error"
       /\ IsClosure(s, i) => WayOf(s, i) = "from" /\ ArgOf(s, i).tag \notin {"array", "callback"}
ASSUME SigsAssumption == \A s \in Sigs : Regular(s)
=============================================================================
