---------------------------- MODULE ObjectProofs ----------------------------
(***************************************************************************)
(* Machine-checked facts about the beginning and the end of a GObject:     *)
(* about Construction, and then about WeakRef.  They share no state.       *)
(***************************************************************************)
EXTENDS Construction, WeakRef, FiniteSetTheorems, TLAPS

-----------------------------------------------------------------------------
(***************************************************************************)
(* Construction, for any number of threads, objects, wrappers and classes  *)
(* and any depth of nesting: objects and wrappers find each other through  *)
(* the thread-local slot as long as no object gets to Python before it has *)
(* its wrapper (Reentrant).                                                *)
(***************************************************************************)

-----------------------------------------------------------------------------
(* The inductive invariant *)

\* Place i of the stack of thread t has a frame.
On(t, i) == t \in Makers /\ i \in 1 .. Len(stack[t])
F(t, i) == stack[t][i]
Constructing(o) == \E t, i : On(t, i) /\ F(t, i).kind = "construct" /\ F(t, i).obj = o

\* The object that a wrapper knows knows the wrapper.
Bonds == \A w \in Wrappers, o \in Objects : qwrap[o] = w <=> bound[w] = o

\* An object is there as long as it is owned, by its wrapper too unless that is constructing it.
Owned ==
  \A o \in Objects :
    /\ class[o] # NoClass <=> owners[o] # {}
    /\ qwrap[o] # NoWrapper =>
         /\ class[o] # NoClass
         /\ \/ qwrap[o] \in owners[o]
            \/ \E t, i : On(t, i) /\ F(t, i).kind = "construct" /\ F(t, i).obj = o /\ F(t, i).w = qwrap[o]

\* Python code has seen the object: an instance initialiser of a class written in Python has run.
Begun(f) == f.left < Levels[class[f.obj]]

\* A constructor whose object has no wrapper yet has the slot, unless no initialiser will look there.
Waits(t, i) ==
  LET f == F(t, i) IN
  /\ qwrap[f.obj] = NoWrapper /\ (f.w # NoWrapper => bound[f.w] = NoObject)
  /\ f.stage = "parents" => i = Len(stack[t]) /\ (f.left > 0 => slot[t] = f.w)
ConstructFrame(t, i) ==
  LET f == F(t, i) IN
  /\ f.left <= Levels[class[f.obj]] /\ (f.stage = "rest" => f.left = 0)
  /\ Levels[class[f.obj]] > 0 => inits[f.obj] = IF Begun(f) THEN 1 ELSE 0
  /\ IF Begun(f) THEN /\ qwrap[f.obj] # NoWrapper
                      /\ IF f.w = NoWrapper THEN "float" \in kept[qwrap[f.obj]] ELSE qwrap[f.obj] = f.w
     ELSE Waits(t, i)
FrameOK(t, i) ==
  LET f == F(t, i) IN
  /\ class[f.obj] # NoClass
  /\ f.w # NoWrapper => "frame" \in kept[f.w]
  /\ f.kind = "construct" => ConstructFrame(t, i)
  /\ f.kind = "init" => f.stage = "rest" /\ f.w # NoWrapper /\ qwrap[f.obj] = f.w
  /\ f.kind = "wrap" => f.stage = "rest" /\ f.w = NoWrapper /\ qwrap[f.obj] = NoWrapper
Framed == \A t, i : On(t, i) => FrameOK(t, i)

\* A wrapper is in one frame, and an object in one of a kind; what is being wrapped is in no other.
Once ==
  \A t, i, u, j : On(t, i) /\ On(u, j) =>
    LET f == F(t, i)
        g == F(u, j)
    IN  (f.w = g.w /\ f.w # NoWrapper) \/ (f.obj = g.obj /\ (f.kind = g.kind \/ f.kind = "wrap"))
          => t = u /\ i = j

\* What is in the slot is a wrapper that its constructor waits for.
Slots ==
  \A t \in Makers : slot[t] # NoWrapper =>
    bound[slot[t]] = NoObject /\ \E i : On(t, i) /\ F(t, i).kind = "construct" /\ F(t, i).w = slot[t]

\* InitialisedOnce, by places.
Done == \A o \in Objects : class[o] # NoClass /\ Levels[class[o]] > 0 /\ ~Constructing(o) => inits[o] = 1

BirthInv == BirthTypeOK /\ Bonds /\ Owned /\ Done /\ Framed /\ Once /\ Slots

-----------------------------------------------------------------------------
(* Stacks, place by place *)

LEMMA Stacked ==
  ASSUME BirthTypeOK, NEW t \in Makers
  PROVE  stack[t] \in Seq(Frames) /\ Len(stack[t]) \in Nat /\ DOMAIN stack[t] = 1 .. Len(stack[t])
BY DEF BirthTypeOK

LEMMA FrameTypes ==
  ASSUME BirthTypeOK, NEW t, NEW i, On(t, i)
  PROVE  t \in Makers /\ F(t, i) \in Frames
BY Stacked DEF On, F

LEMMA TopPlace ==
  ASSUME BirthTypeOK, NEW t \in Makers, stack[t] # << >>
  PROVE  On(t, Len(stack[t])) /\ F(t, Len(stack[t])) = Top(t) /\ Top(t) \in Frames
<1>1. stack[t] \in Seq(Frames) /\ Len(stack[t]) \in 1 .. Len(stack[t])
  BY Stacked
<1> QED BY <1>1 DEF On, F, Top

LEMMA InFramePlaces ==
  ASSUME BirthTypeOK, NEW o
  PROVE  InFrame(o) <=> \E t, i : On(t, i) /\ F(t, i).obj = o
BY Stacked DEF InFrame, On, F

Pushed(t, n, f) ==
  /\ n = Len(stack[t]) + 1 /\ ~On(t, n) /\ On(t, n)' /\ F(t, n)' = f /\ n = Len(stack'[t])
  /\ \A u, i : On(u, i)' <=> On(u, i) \/ (u = t /\ i = n)
  /\ \A u, i : On(u, i) => F(u, i)' = F(u, i) /\ ~(u = t /\ i = n)
  /\ \A u \in Makers \ {t} : stack'[u] = stack[u]
Popped(t, n) ==
  /\ n = Len(stack[t]) /\ On(t, n) /\ ~On(t, n)' /\ F(t, n) = Top(t)
  /\ \A u, i : On(u, i)' <=> On(u, i) /\ ~(u = t /\ i = n)
  /\ \A u, i : On(u, i)' => F(u, i)' = F(u, i)
  /\ \A u \in Makers \ {t} : stack'[u] = stack[u]
Changed(t, n, f) ==
  /\ n = Len(stack[t]) /\ On(t, n) /\ F(t, n) = Top(t) /\ F(t, n)' = f
  /\ \A u, i : On(u, i)' <=> On(u, i)
  /\ \A u, i : On(u, i) /\ ~(u = t /\ i = n) => F(u, i)' = F(u, i)
  /\ \A u \in Makers : Len(stack'[u]) = Len(stack[u])

LEMMA PushPlaces ==
  ASSUME BirthTypeOK, NEW t \in Makers, NEW f \in Frames, Len(stack[t]) < MaxDepth, Push(t, f)
  PROVE  /\ \E n : Pushed(t, n, f)
         /\ stack' \in [Makers -> Seq(Frames)] /\ \A u \in Makers : Len(stack'[u]) <= MaxDepth
<1>1. PICK n : n = Len(stack[t]) + 1 /\ n \in Nat
  BY Stacked
<1>2. stack'[t] = Append(stack[t], f) /\ \A u \in Makers \ {t} : stack'[u] = stack[u]
  BY DEF Push, BirthTypeOK
<1>3. /\ Append(stack[t], f) \in Seq(Frames) /\ Len(Append(stack[t], f)) = n /\ Append(stack[t], f)[n] = f
      /\ \A i \in 1 .. Len(stack[t]) : Append(stack[t], f)[i] = stack[t][i]
  BY <1>1, Stacked
<1>4. stack' \in [Makers -> Seq(Frames)] /\ \A u \in Makers : Len(stack'[u]) <= MaxDepth
  BY <1>1, <1>2, <1>3, Stacked, DepthAssumption DEF Push, BirthTypeOK
<1>5. /\ ~On(t, n) /\ On(t, n)' /\ F(t, n)' = f
      /\ \A u, i : On(u, i)' <=> On(u, i) \/ (u = t /\ i = n)
  BY <1>1, <1>2, <1>3, Stacked DEF On, F
<1>6. \A u, i : On(u, i) => F(u, i)' = F(u, i) /\ ~(u = t /\ i = n)
  BY <1>1, <1>2, <1>3, Stacked DEF On, F
<1> QED BY <1>1, <1>2, <1>3, <1>4, <1>5, <1>6 DEF Pushed

LEMMA PopPlaces ==
  ASSUME BirthTypeOK, NEW t \in Makers, stack[t] # << >>, Pop(t)
  PROVE  /\ \E n : Popped(t, n)
         /\ stack' \in [Makers -> Seq(Frames)] /\ \A u \in Makers : Len(stack'[u]) <= MaxDepth
<1>1. PICK n : n = Len(stack[t]) /\ n \in Nat \ {0}
  BY Stacked
<1> DEFINE s == SubSeq(stack[t], 1, n - 1)
<1>2. stack'[t] = s /\ \A u \in Makers \ {t} : stack'[u] = stack[u]
  BY <1>1 DEF Pop, BirthTypeOK
<1>3. s \in Seq(Frames) /\ Len(s) = n - 1 /\ \A i \in 1 .. n - 1 : s[i] = stack[t][i]
  BY <1>1, Stacked
<1> HIDE DEF s
<1>4. stack' \in [Makers -> Seq(Frames)] /\ \A u \in Makers : Len(stack'[u]) <= MaxDepth
  BY <1>1, <1>2, <1>3, Stacked, DepthAssumption DEF Pop, BirthTypeOK
<1>5. On(t, n) /\ ~On(t, n)' /\ F(t, n) = Top(t)
  BY <1>1, <1>2, <1>3, TopPlace DEF On
<1>6. \A u, i : On(u, i)' <=> On(u, i) /\ ~(u = t /\ i = n)
  BY <1>1, <1>2, <1>3 DEF On
<1>7. \A u, i : On(u, i)' => F(u, i)' = F(u, i)
  BY <1>1, <1>2, <1>3, Stacked DEF On, F
<1> QED BY <1>1, <1>2, <1>4, <1>5, <1>6, <1>7 DEF Popped

LEMMA ChangePlaces ==
  ASSUME BirthTypeOK, NEW t \in Makers, stack[t] # << >>, NEW f \in Frames,
         stack' = [stack EXCEPT ![t] = [@ EXCEPT ![Len(stack[t])] = f]]
  PROVE  /\ \E n : Changed(t, n, f)
         /\ stack' \in [Makers -> Seq(Frames)] /\ \A u \in Makers : Len(stack'[u]) <= MaxDepth
<1>1. PICK n : n = Len(stack[t]) /\ n \in Nat \ {0}
  BY Stacked
<1>2. stack'[t] = [stack[t] EXCEPT ![n] = f] /\ \A u \in Makers \ {t} : stack'[u] = stack[u]
  BY <1>1 DEF BirthTypeOK
<1>3. /\ stack'[t] \in Seq(Frames) /\ Len(stack'[t]) = n /\ stack'[t][n] = f
      /\ \A i \in 1 .. n : i # n => stack'[t][i] = stack[t][i]
  BY <1>1, <1>2, Stacked
<1>4. stack' \in [Makers -> Seq(Frames)] /\ \A u \in Makers : Len(stack'[u]) <= MaxDepth
  BY <1>1, <1>2, <1>3, Stacked, DepthAssumption DEF BirthTypeOK
<1>5. On(t, n) /\ F(t, n) = Top(t) /\ F(t, n)' = f
  BY <1>1, <1>3, TopPlace DEF F
<1>6. \A u, i : On(u, i)' <=> On(u, i)
  BY <1>1, <1>2, <1>3 DEF On
<1>7. \A u, i : On(u, i) /\ ~(u = t /\ i = n) => F(u, i)' = F(u, i)
  BY <1>1, <1>2, <1>3, Stacked DEF On, F
<1> QED BY <1>1, <1>2, <1>3, <1>4, <1>5, <1>6, <1>7 DEF Changed

LEMMA SameStack ==
  ASSUME stack' = stack
  PROVE  \A u, i : (On(u, i)' <=> On(u, i)) /\ F(u, i)' = F(u, i)
BY DEF On, F

-----------------------------------------------------------------------------
(* What a step does *)

LEMMA InitBirth == BirthInit => BirthInv
<1> SUFFICES ASSUME BirthInit PROVE BirthInv
  OBVIOUS
<1>1. \A t, i : ~On(t, i)
  BY DEF BirthInit, On
<1>2. BirthTypeOK
  BY DepthAssumption DEF BirthInit, BirthTypeOK
<1>3. Bonds /\ Owned
  BY AbsentAssumption DEF BirthInit, Bonds, Owned
<1>4. Done /\ Framed /\ Once /\ Slots
  BY <1>1 DEF BirthInit, Done, Framed, Once, Slots
<1> QED BY <1>2, <1>3, <1>4 DEF BirthInv

\* References come and go, but objects, wrappers and constructors stay.
LEMMA QuietStep ==
  ASSUME BirthInv, UNCHANGED <<slot, stack, class, qwrap, inits, bound>>, BirthTypeOK',
         \A o \in Objects : owners'[o] = {} <=> owners[o] = {},
         \A o \in Objects : qwrap[o] # NoWrapper /\ qwrap[o] \in owners[o] => qwrap[o] \in owners'[o],
         \A w \in Wrappers : "frame" \in kept[w] => "frame" \in kept'[w],
         \A o \in Objects : Constructing(o) /\ qwrap[o] # NoWrapper /\ "float" \in kept[qwrap[o]]
                              => "float" \in kept'[qwrap[o]]
  PROVE  BirthInv'
<1> USE DEF BirthInv
<1>1. \A u, i : (On(u, i)' <=> On(u, i)) /\ F(u, i)' = F(u, i)
  BY SameStack
<1>2. Bonds' /\ Owned'
  BY <1>1 DEF Bonds, Owned
<1>3. Done' /\ Once' /\ Slots'
  BY <1>1 DEF Done, Constructing, Once, Slots
<1>4. Framed'
  <2> SUFFICES ASSUME NEW t, NEW i, On(t, i), NEW f \in Frames, f = F(t, i), F(t, i)' = f
               PROVE  FrameOK(t, i)'
    BY <1>1, FrameTypes DEF Framed
  <2>1. f.w \in Wrappers \cup {NoWrapper} /\ f.obj \in Objects
    BY DEF Frames
  <2>2. f.kind = "construct" => Constructing(f.obj)
    BY DEF Constructing
  <2>3. f.kind = "construct" => ConstructFrame(t, i)'
    BY <2>1, <2>2 DEF Framed, FrameOK, ConstructFrame, Begun, Waits
  <2> QED BY <2>1, <2>3 DEF Framed, FrameOK
<1> QED BY <1>2, <1>3, <1>4

LEMMA ConstructorSinksStep ==
  ASSUME BirthInv, NEW t \in Makers, ConstructorSinks(t)
  PROVE  BirthInv'
<1>1. Top(t).obj \in Objects
  BY TopPlace DEF ConstructorSinks, BirthInv, Frames
<1>2. BirthTypeOK'
  BY <1>1 DEF ConstructorSinks, BirthInv, BirthTypeOK
<1>3. \A o \in Objects : /\ owners'[o] = {} <=> owners[o] = {}
                         /\ qwrap[o] # NoWrapper /\ qwrap[o] \in owners[o] => qwrap[o] \in owners'[o]
  <2> SUFFICES ASSUME NEW o \in Objects
               PROVE  /\ owners'[o] = {} <=> owners[o] = {}
                      /\ qwrap[o] # NoWrapper /\ qwrap[o] \in owners[o] => qwrap[o] \in owners'[o]
    OBVIOUS
  <2>1. CASE o = Top(t).obj
    <3>1. owners'[o] = (owners[o] \ {"maker"}) \cup {"native"}
      BY <2>1 DEF ConstructorSinks, BirthInv, BirthTypeOK
    <3>2. class[o] # NoClass
      BY <2>1, TopPlace DEF ConstructorSinks, BirthInv, Framed, FrameOK
    <3>3. qwrap[o] # NoWrapper => qwrap[o] # "maker"
      BY OwnersAssumption DEF BirthInv, BirthTypeOK
    <3> QED BY <3>1, <3>2, <3>3 DEF BirthInv, Owned
  <2>2. CASE o # Top(t).obj
    BY <2>2 DEF ConstructorSinks, BirthInv, BirthTypeOK
  <2> QED BY <2>1, <2>2
<1> QED BY <1>2, <1>3, QuietStep DEF ConstructorSinks

\* Native code hands a wrapped object to Python.
LEMMA FetchStep ==
  ASSUME BirthInv, ~Reentrant, NEW t \in Makers, NEW o \in Objects, Fetch(t, o)
  PROVE  BirthInv'
<1>1. qwrap[o] \in Wrappers
  BY DEF Fetch, BirthInv, BirthTypeOK
<1>2. BirthTypeOK'
  BY <1>1 DEF Fetch, BirthInv, BirthTypeOK
<1>3. \A p \in Objects : Constructing(p) => p # o
  BY InFramePlaces DEF Fetch, Constructing, BirthInv
<1>4. \A p \in Objects : p # o => qwrap[p] # qwrap[o] \/ qwrap[p] = NoWrapper
  BY <1>1 DEF BirthInv, Bonds
<1>5. \A w \in Wrappers : /\ "frame" \in kept[w] => "frame" \in kept'[w]
                          /\ w # qwrap[o] => kept'[w] = kept[w]
  BY DEF Fetch, BirthInv, BirthTypeOK
<1>6. \A p \in Objects : qwrap[p] # NoWrapper => qwrap[p] \in Wrappers
  BY DEF BirthInv, BirthTypeOK
<1> QED BY <1>2, <1>3, <1>4, <1>5, <1>6, QuietStep DEF Fetch

\* What a program does with its wrappers, and native code with a reference.
LEMMA UsesStep ==
  ASSUME BirthInv, NEW t \in Makers, NEW w \in Wrappers,
         SetAttr(t, w) \/ Keep(t, w) \/ Drop(t, w) \/ NativeRef(t, w)
  PROVE  BirthInv'
<1>1. CASE SetAttr(t, w)
  <2>1. BirthTypeOK'
    BY <1>1 DEF SetAttr, BirthInv, BirthTypeOK
  <2> QED BY <1>1, <2>1, QuietStep DEF SetAttr
<1>2. ASSUME Keep(t, w) \/ Drop(t, w),
             NEW k \in SUBSET {"variable", "frame", "float"}, kept' = [kept EXCEPT ![w] = k],
             k \cap {"frame", "float"} = kept[w] \cap {"frame", "float"}
      PROVE  BirthInv'
  <2>1. UNCHANGED <<slot, stack, class, floating, owners, qwrap, inits, bound, dict>>
    BY <1>2 DEF Keep, Drop
  <2>2. BirthTypeOK'
    BY <1>2, <2>1 DEF BirthInv, BirthTypeOK
  <2>3. \A v \in Wrappers, l \in {"frame", "float"} : l \in kept[v] => l \in kept'[v]
    BY <1>2 DEF BirthInv, BirthTypeOK
  <2>4. \A o \in Objects : qwrap[o] # NoWrapper => qwrap[o] \in Wrappers
    BY DEF BirthInv, BirthTypeOK
  <2> QED BY <2>1, <2>2, <2>3, <2>4, QuietStep
<1>a. kept[w] \subseteq {"variable", "frame", "float"}
  BY DEF BirthInv, BirthTypeOK
<1>k. CASE Keep(t, w)
  <2>1. kept' = [kept EXCEPT ![w] = kept[w] \cup {"variable"}]
    BY <1>k DEF Keep
  <2> QED BY <1>2, <1>a, <1>k, <2>1
<1>d. CASE Drop(t, w)
  <2>1. kept' = [kept EXCEPT ![w] = kept[w] \ {"variable"}]
    BY <1>d DEF Drop
  <2> QED BY <1>2, <1>a, <1>d, <2>1
<1>3. CASE NativeRef(t, w)
  <2>1. bound[w] \in Objects
    BY <1>3 DEF NativeRef, BirthInv, BirthTypeOK
  <2>2. BirthTypeOK'
    BY <1>3, <2>1 DEF NativeRef, BirthInv, BirthTypeOK
  <2>3. class[bound[w]] # NoClass
    BY <2>1, AbsentAssumption DEF BirthInv, Bonds, Owned
  <2>4. \A o \in Objects : owners[o] \subseteq owners'[o] /\ (o # bound[w] => owners'[o] = owners[o])
    BY <1>3 DEF NativeRef, BirthInv, BirthTypeOK
  <2>5. owners[bound[w]] # {}
    BY <2>1, <2>3 DEF BirthInv, Owned
  <2> QED BY <1>3, <2>2, <2>4, <2>5, QuietStep DEF NativeRef
<1> QED BY <1>1, <1>k, <1>d, <1>3

\* What a frame says, when what it is about has not changed.
LEMMA SameFrame ==
  ASSUME BirthInv, NEW t, NEW i, On(t, i), NEW f \in Frames, F(t, i) = f, F(t, i)' = f,
         class'[f.obj] = class[f.obj], qwrap'[f.obj] = qwrap[f.obj], inits'[f.obj] = inits[f.obj],
         (slot'[t] = slot[t] /\ Len(stack'[t]) = Len(stack[t])) \/ f.stage = "rest" \/ Begun(f),
         f.w # NoWrapper => "frame" \in kept'[f.w] /\ (f.kind = "construct" /\ ~Begun(f) => bound'[f.w] = bound[f.w]),
         f.kind = "construct" /\ f.w = NoWrapper /\ Begun(f) => "float" \in kept'[qwrap[f.obj]]
  PROVE  FrameOK(t, i)'
<1>1. /\ class[f.obj] # NoClass
      /\ f.kind = "construct" => ConstructFrame(t, i)
      /\ f.kind = "init" => f.stage = "rest" /\ f.w # NoWrapper /\ qwrap[f.obj] = f.w
      /\ f.kind = "wrap" => f.stage = "rest" /\ f.w = NoWrapper /\ qwrap[f.obj] = NoWrapper
  BY DEF BirthInv, Framed, FrameOK
<1>2. Begun(f)' = Begun(f)
  BY DEF Begun
<1>3. f.kind = "construct" => ConstructFrame(t, i)'
  BY <1>1, <1>2 DEF ConstructFrame, Waits
<1> QED BY <1>1, <1>3 DEF FrameOK

\* An object that nobody constructs or wraps loses an owner, and may go.
LEMMA NativeUnrefStep ==
  ASSUME BirthInv, NEW o \in Objects, NativeUnref(o)
  PROVE  BirthInv'
<1> USE DEF BirthInv
<1>0. \A u, i : (On(u, i)' <=> On(u, i)) /\ F(u, i)' = F(u, i)
  BY SameStack DEF NativeUnref
<1>1. \A u, i : On(u, i) => F(u, i).obj # o
  BY InFramePlaces DEF NativeUnref
<1>2. /\ owners' = [owners EXCEPT ![o] = @ \ {"native"}]
      /\ class' = IF owners[o] = {"native"} THEN [class EXCEPT ![o] = NoClass] ELSE class
      /\ UNCHANGED <<slot, stack, floating, qwrap, inits, bound, kept, dict>>
  BY DEF NativeUnref, Unowns
<1>3. BirthTypeOK'
  BY <1>2 DEF BirthTypeOK
<1>4. Bonds' /\ Once' /\ Slots'
  BY <1>0, <1>2 DEF Bonds, Once, Slots
<1>5. \A p \in Objects : p # o => class'[p] = class[p] /\ owners'[p] = owners[p]
  BY <1>2 DEF BirthTypeOK
<1>6. class'[o] = (IF owners[o] = {"native"} THEN NoClass ELSE class[o]) /\ owners'[o] = owners[o] \ {"native"}
  BY <1>2 DEF BirthTypeOK
<1>7. Owned'
  <2>1. qwrap[o] # NoWrapper => qwrap[o] \in owners[o] /\ qwrap[o] # "native"
    <3>1. qwrap[o] # NoWrapper => qwrap[o] \in Wrappers
      BY DEF BirthTypeOK
    <3>2. \A v \in Wrappers : v # "native"
      BY OwnersAssumption
    <3>3. qwrap[o] # NoWrapper => qwrap[o] \in owners[o]
      BY <1>1 DEF Owned
    <3> QED BY <3>1, <3>2, <3>3
  <2>2. (/\ class[o] # NoClass <=> owners[o] # {}
         /\ qwrap[o] # NoWrapper => class[o] # NoClass /\ qwrap[o] \in owners[o])'
    BY <1>2, <1>6, <2>1 DEF Owned
  <2> QED BY <1>0, <1>2, <1>5, <2>2 DEF Owned
<1>8. Done'
  <2>1. \A p : Constructing(p)' = Constructing(p)
    BY <1>0 DEF Constructing
  <2> QED BY <1>2, <1>5, <1>6, <2>1 DEF Done
<1>9. Framed'
  <2>1. ASSUME NEW t, NEW i, On(t, i)
        PROVE  FrameOK(t, i)'
    <3>1. PICK f \in Frames : f = F(t, i)
      BY <2>1, FrameTypes
    <3>2. f.obj \in Objects /\ f.obj # o /\ class'[f.obj] = class[f.obj]
      BY <1>1, <1>5, <2>1, <3>1 DEF Frames
    <3>3. f.w # NoWrapper => "frame" \in kept'[f.w]
      BY <1>2, <2>1, <3>1 DEF Framed, FrameOK
    <3>4. f.kind = "construct" /\ f.w = NoWrapper /\ Begun(f) => "float" \in kept'[qwrap[f.obj]]
      BY <1>2, <2>1, <3>1 DEF Framed, FrameOK, ConstructFrame
    <3> QED BY <1>0, <1>2, <2>1, <3>1, <3>2, <3>3, <3>4, SameFrame
  <2> QED BY <1>0, <2>1 DEF Framed
<1> QED BY <1>3, <1>4, <1>7, <1>8, <1>9

\* tp_dealloc, of a wrapper that no constructor is about.
LEMMA DeallocStep ==
  ASSUME BirthInv, NEW w \in Wrappers, Dealloc(w)
  PROVE  BirthInv'
<1> USE DEF BirthInv
<1>0. \A u, i : (On(u, i)' <=> On(u, i)) /\ F(u, i)' = F(u, i)
  BY SameStack DEF Dealloc
<1>p. PICK o : o = bound[w]
  OBVIOUS
<1>a. o \in Objects /\ kept[w] = {} /\ qwrap[o] = w /\ w # NoWrapper
  BY <1>p, AbsentAssumption DEF Dealloc, Dead, BirthTypeOK, Bonds
<1>1. \A u, i : On(u, i) => F(u, i).obj # o /\ F(u, i).w # w
  <2> SUFFICES ASSUME NEW u, NEW i, On(u, i), NEW f \in Frames, f = F(u, i)
               PROVE  f.obj # o /\ f.w # w
    BY FrameTypes
  <2>1. FrameOK(u, i) /\ f.w # w
    BY <1>a DEF Framed, FrameOK
  <2>2. f.kind \in {"construct", "init", "wrap"} /\ f.w \in Wrappers \cup {NoWrapper}
    BY DEF Frames
  <2> QED BY <1>a, <2>1, <2>2 DEF FrameOK, ConstructFrame, Waits
<1>2. /\ owners' = [owners EXCEPT ![o] = @ \ {w}]
      /\ class' = IF owners[o] = {w} THEN [class EXCEPT ![o] = NoClass] ELSE class
      /\ qwrap' = [qwrap EXCEPT ![o] = NoWrapper] /\ bound' = [bound EXCEPT ![w] = NoObject]
      /\ dict' = dict \ {w} /\ UNCHANGED <<slot, stack, floating, inits, kept>>
  BY <1>p DEF Dealloc, Unowns
<1>3. BirthTypeOK'
  BY <1>2 DEF BirthTypeOK
<1>4. /\ \A p \in Objects : p # o => class'[p] = class[p] /\ owners'[p] = owners[p] /\ qwrap'[p] = qwrap[p]
      /\ class'[o] = (IF owners[o] = {w} THEN NoClass ELSE class[o]) /\ owners'[o] = owners[o] \ {w}
      /\ qwrap'[o] = NoWrapper /\ bound'[w] = NoObject
      /\ \A v \in Wrappers : v # w => bound'[v] = bound[v]
  BY <1>2, <1>a DEF BirthTypeOK
<1>5. Bonds'
  BY <1>a, <1>4, AbsentAssumption DEF Bonds
<1>6. Once'
  BY <1>0 DEF Once
<1>7. Slots'
  BY <1>0, <1>1, <1>2, <1>4 DEF Slots, BirthTypeOK
<1>8. Owned'
  <2>1. w \in owners[o]
    BY <1>1, <1>a DEF Owned
  <2>2. class'[o] # NoClass <=> owners'[o] # {}
    <3>1. owners[o] \ {w} = {} <=> owners[o] = {w}
      BY <2>1
    <3>2. class[o] # NoClass
      BY <1>a DEF Owned
    <3> QED BY <1>4, <3>1, <3>2
  <2> QED BY <1>0, <1>4, <2>2 DEF Owned
<1>9. Done'
  BY <1>0, <1>2, <1>4 DEF Done, Constructing
<1>10. Framed'
  <2>1. ASSUME NEW t, NEW i, On(t, i)
        PROVE  FrameOK(t, i)'
    <3>1. PICK f \in Frames : f = F(t, i)
      BY <2>1, FrameTypes
    <3>2. f.obj \in Objects /\ f.obj # o /\ f.w # w /\ f.w \in Wrappers \cup {NoWrapper}
      BY <1>1, <2>1, <3>1 DEF Frames
    <3>3. f.w # NoWrapper => "frame" \in kept'[f.w] /\ bound'[f.w] = bound[f.w]
      BY <1>2, <1>4, <2>1, <3>1, <3>2 DEF Framed, FrameOK
    <3>4. f.kind = "construct" /\ f.w = NoWrapper /\ Begun(f) => "float" \in kept'[qwrap[f.obj]]
      BY <1>2, <2>1, <3>1 DEF Framed, FrameOK, ConstructFrame
    <3> QED BY <1>0, <1>2, <1>4, <2>1, <3>1, <3>2, <3>3, <3>4, SameFrame
  <2> QED BY <1>0, <2>1 DEF Framed
<1> QED BY <1>3, <1>5, <1>6, <1>7, <1>8, <1>9, <1>10

\* A frame goes on: it stays the same constructor of the same object.
LEMMA SameKinds ==
  ASSUME BirthInv, NEW t \in Makers, NEW n, NEW f, Changed(t, n, f),
         f.kind = Top(t).kind, f.w = Top(t).w, f.obj = Top(t).obj
  PROVE  /\ \A u, i : On(u, i) => F(u, i)'.kind = F(u, i).kind /\ F(u, i)'.w = F(u, i).w /\ F(u, i)'.obj = F(u, i).obj
         /\ Once' /\ \A o : Constructing(o)' = Constructing(o)
<1>1. \A u, i : On(u, i) => F(u, i)'.kind = F(u, i).kind /\ F(u, i)'.w = F(u, i).w /\ F(u, i)'.obj = F(u, i).obj
  BY DEF Changed
<1>2. \A u, i : On(u, i)' <=> On(u, i)
  BY DEF Changed
<1>3. Once'
  BY <1>1, <1>2 DEF BirthInv, Once
<1>4. \A o : Constructing(o)' = Constructing(o)
  BY <1>1, <1>2 DEF Constructing
<1> QED BY <1>1, <1>3, <1>4

\* The instance initialisers are through.
LEMMA InitialisedStep ==
  ASSUME BirthInv, NEW t \in Makers, Initialised(t)
  PROVE  BirthInv'
<1> USE DEF BirthInv
<1>1. Top(t) \in Frames /\ stack[t] # << >> /\ Top(t).stage = "parents" /\ Top(t).left = 0
  BY TopPlace DEF Initialised, Busy
<1>2. PICK f : f = [Top(t) EXCEPT !.stage = "rest"]
  OBVIOUS
<1>3. /\ f \in Frames /\ f.kind = Top(t).kind /\ f.w = Top(t).w /\ f.obj = Top(t).obj
      /\ f.left = Top(t).left /\ f.stage = "rest"
  BY <1>1, <1>2 DEF Frames
<1>4. stack' = [stack EXCEPT ![t] = [@ EXCEPT ![Len(stack[t])] = f]]
  BY <1>2 DEF Initialised, Top
<1>5. /\ \E n : Changed(t, n, f)
      /\ stack' \in [Makers -> Seq(Frames)] /\ \A u \in Makers : Len(stack'[u]) <= MaxDepth
  BY <1>1, <1>3, <1>4, ChangePlaces
<1>6. PICK n : Changed(t, n, f)
  BY <1>5
<1>7. BirthTypeOK'
  BY <1>5 DEF Initialised, BirthTypeOK
<1>8. /\ \A u, i : On(u, i) => F(u, i)'.kind = F(u, i).kind /\ F(u, i)'.w = F(u, i).w /\ F(u, i)'.obj = F(u, i).obj
      /\ Once' /\ \A o : Constructing(o)' = Constructing(o)
  BY <1>3, <1>6, SameKinds
<1>9. \A u, i : On(u, i)' <=> On(u, i)
  BY <1>6 DEF Changed
<1>10. Bonds' /\ Owned' /\ Done' /\ Slots'
  BY <1>8, <1>9 DEF Initialised, Bonds, Owned, Done, Slots
<1>11. Framed'
  <2>1. ASSUME NEW u, NEW i, On(u, i)
        PROVE  FrameOK(u, i)'
    <3>1. PICK g \in Frames : g = F(u, i)
      BY <2>1, FrameTypes
    <3>2. FrameOK(u, i) /\ u \in Makers
      BY <2>1 DEF Framed, On
    <3>3. CASE u = t /\ i = n
      <4>1. F(u, i)' = f /\ g = Top(t)
        BY <1>6, <3>1, <3>3 DEF Changed
      <4>2. FrameOK(u, i)
        BY <2>1 DEF Framed
      <4>3. Begun(f)' = Begun(g)
        BY <1>3, <4>1 DEF Begun, Initialised
      <4> QED BY <1>1, <1>3, <4>1, <4>2, <4>3, <3>1 DEF FrameOK, ConstructFrame, Waits, Initialised
    <3>4. CASE ~(u = t /\ i = n)
      <4>1. F(u, i)' = g /\ Len(stack'[u]) = Len(stack[u])
        BY <1>6, <2>1, <3>1, <3>2, <3>4 DEF Changed
      <4> QED BY <2>1, <3>1, <3>2, <4>1, SameFrame DEF FrameOK, ConstructFrame, Initialised
    <3> QED BY <3>3, <3>4
  <2> QED BY <1>9, <2>1 DEF Framed
<1> QED BY <1>7, <1>8, <1>10, <1>11

\* A frame that is about another object and another wrapper goes on.
Apart(u, i, o, w) == F(u, i).obj # o /\ F(u, i).w # w
LEMMA OtherFrame ==
  ASSUME BirthInv, NEW o, NEW w, NEW u, NEW i, On(u, i), F(u, i)' = F(u, i), Apart(u, i, o, w),
         \A p \in Objects : p # o => class'[p] = class[p] /\ qwrap'[p] = qwrap[p] /\ inits'[p] = inits[p],
         \A v \in Wrappers : v # w => /\ "frame" \in kept[v] => "frame" \in kept'[v]
                                      /\ bound'[v] = bound[v],
         \A v \in Wrappers : v = qwrap[F(u, i).obj] /\ "float" \in kept[v] => "float" \in kept'[v],
         (slot'[u] = slot[u] /\ Len(stack'[u]) = Len(stack[u])) \/ F(u, i).stage = "rest" \/ Begun(F(u, i))
  PROVE  FrameOK(u, i)'
<1>1. PICK f \in Frames : f = F(u, i)
  BY FrameTypes DEF BirthInv
<1>2. f.obj \in Objects /\ f.w \in Wrappers \cup {NoWrapper} /\ FrameOK(u, i)
  BY <1>1 DEF Frames, BirthInv, Framed
<1>3. f.w # NoWrapper => "frame" \in kept'[f.w] /\ bound'[f.w] = bound[f.w]
  BY <1>1, <1>2 DEF FrameOK, Apart
<1>4. f.kind = "construct" /\ f.w = NoWrapper /\ Begun(f) => "float" \in kept'[qwrap[f.obj]]
  BY <1>1, <1>2 DEF FrameOK, ConstructFrame, BirthInv, BirthTypeOK
<1> QED BY <1>1, <1>2, <1>3, <1>4, SameFrame DEF Apart

\* No instance initialiser is due in a frame below another.
LEMMA SettledFrame ==
  ASSUME BirthInv, NEW t, NEW i, On(t, i), i # Len(stack[t])
  PROVE  F(t, i).stage = "rest" \/ Begun(F(t, i))
<1>1. PICK f \in Frames : f = F(t, i)
  BY FrameTypes DEF BirthInv
<1>2. FrameOK(t, i) /\ f.kind \in {"construct", "init", "wrap"} /\ f.stage \in {"parents", "rest"}
  BY <1>1 DEF BirthInv, Framed, Frames
<1> QED BY <1>1, <1>2 DEF FrameOK, ConstructFrame, Waits

\* An instance initialiser of a class written in Python.
LEMMA LevelStep ==
  ASSUME BirthInv, NEW t \in Makers, Initialising(t), stack' = NextLevel(t)
  PROVE  \E n, f :
           /\ f \in Frames /\ Changed(t, n, f) /\ FrameOK(t, n)
           /\ f.kind = "construct" /\ f.w = Top(t).w /\ f.obj = Top(t).obj
           /\ f.left = Top(t).left - 1 /\ f.stage = "parents"
           /\ stack' \in [Makers -> Seq(Frames)] /\ \A u \in Makers : Len(stack'[u]) <= MaxDepth
<1>1. /\ Top(t) \in Frames /\ stack[t] # << >>
      /\ Top(t).kind = "construct" /\ Top(t).stage = "parents" /\ Top(t).left > 0
  BY TopPlace DEF Initialising, BirthInv
<1>2. PICK f : f = [Top(t) EXCEPT !.left = @ - 1]
  OBVIOUS
<1>3. /\ f \in Frames /\ f.kind = Top(t).kind /\ f.w = Top(t).w /\ f.obj = Top(t).obj
      /\ f.left = Top(t).left - 1 /\ f.stage = "parents"
  BY <1>1, <1>2 DEF Frames
<1>4. stack' = [stack EXCEPT ![t] = [@ EXCEPT ![Len(stack[t])] = f]]
  BY <1>2 DEF NextLevel, Top
<1>5. /\ \E n : Changed(t, n, f)
      /\ stack' \in [Makers -> Seq(Frames)] /\ \A u \in Makers : Len(stack'[u]) <= MaxDepth
  BY <1>1, <1>3, <1>4, ChangePlaces DEF BirthInv
<1>6. PICK n : Changed(t, n, f)
  BY <1>5
<1>7. FrameOK(t, n)
  BY <1>6 DEF Changed, BirthInv, Framed
<1> QED BY <1>1, <1>3, <1>5, <1>6, <1>7

\* The object has its wrapper, from an initialiser of a base class.
LEMMA HasWrapperStep ==
  ASSUME BirthInv, NEW t \in Makers, HasWrapper(t)
  PROVE  BirthInv'
<1> USE DEF BirthInv
<1>1. PICK n, f :
           /\ f \in Frames /\ Changed(t, n, f) /\ FrameOK(t, n)
           /\ f.kind = "construct" /\ f.w = Top(t).w /\ f.obj = Top(t).obj
           /\ f.left = Top(t).left - 1 /\ f.stage = "parents"
           /\ stack' \in [Makers -> Seq(Frames)] /\ \A u \in Makers : Len(stack'[u]) <= MaxDepth
  BY LevelStep DEF HasWrapper
<1>2. /\ Top(t) \in Frames /\ Top(t).kind = "construct" /\ Top(t).stage = "parents" /\ Top(t).left > 0
      /\ On(t, n) /\ F(t, n) = Top(t) /\ F(t, n)' = f /\ ConstructFrame(t, n)
  BY <1>1, TopPlace DEF HasWrapper, Initialising, Changed, FrameOK
<1>3. /\ \A u, i : On(u, i) => F(u, i)'.kind = F(u, i).kind /\ F(u, i)'.w = F(u, i).w /\ F(u, i)'.obj = F(u, i).obj
      /\ Once' /\ \A p : Constructing(p)' = Constructing(p)
  BY <1>1, <1>2, SameKinds
<1>4. \A u, i : On(u, i)' <=> On(u, i)
  BY <1>1 DEF Changed
<1>5. /\ slot' = [slot EXCEPT ![t] = NoWrapper]
      /\ UNCHANGED <<class, floating, owners, qwrap, inits, bound, kept, dict>>
  BY DEF HasWrapper, Emptied
<1>6. slot'[t] = NoWrapper /\ \A u \in Makers : u # t => slot'[u] = slot[u]
  BY <1>5 DEF BirthTypeOK
<1>7. BirthTypeOK' /\ Bonds' /\ Owned' /\ Done'
  <2>1. BirthTypeOK' /\ Bonds'
    BY <1>1, <1>5 DEF BirthTypeOK, Bonds
  <2> QED BY <1>3, <1>4, <1>5, <2>1 DEF Owned, Done
<1>8. Slots'
  <2>1. ASSUME NEW u \in Makers, u # t, slot[u] # NoWrapper
        PROVE  bound[slot[u]] = NoObject /\ \E i : On(u, i)' /\ F(u, i)'.kind = "construct" /\ F(u, i)'.w = slot[u]
    BY <1>3, <1>4, <2>1 DEF Slots
  <2> QED BY <1>5, <1>6, <2>1 DEF Slots
<1>9. Framed'
  <2>1. ASSUME NEW u, NEW i, On(u, i), ~(u = t /\ i = n)
        PROVE  FrameOK(u, i)'
    <3>1. F(u, i)' = F(u, i) /\ u \in Makers /\ Len(stack'[u]) = Len(stack[u])
      BY <1>1, <2>1 DEF Changed, On
    <3>2. u = t => F(u, i).stage = "rest" \/ Begun(F(u, i))
      BY <1>1, <2>1, SettledFrame DEF Changed
    <3>3. PICK o, w : Apart(u, i, o, w)
      <4>1. "maker" # "native"
        OBVIOUS
      <4> QED BY <4>1 DEF Apart
    <3> QED BY <1>5, <1>6, <2>1, <3>1, <3>2, <3>3, OtherFrame
  <2>2. FrameOK(t, n)'
    <3>1. f.obj \in Objects /\ qwrap[f.obj] # NoWrapper /\ Top(t).left \in Nat
      BY <1>1, <1>2 DEF HasWrapper, Frames
    <3>2. class[f.obj] \in Classes /\ Levels[class[f.obj]] \in Nat
      BY <1>1, <1>2, <3>1, LevelsAssumption DEF FrameOK, BirthTypeOK
    <3>3. Begun(Top(t)) /\ Begun(f)
      BY <1>1, <1>2, <3>1, <3>2 DEF ConstructFrame, Waits, Begun
    <3>4. ConstructFrame(t, n)'
      BY <1>1, <1>2, <1>5, <3>1, <3>2, <3>3 DEF ConstructFrame, Begun
    <3> QED BY <1>1, <1>2, <1>5, <3>4 DEF FrameOK
  <2> QED BY <1>4, <2>1, <2>2 DEF Framed
<1> QED BY <1>3, <1>7, <1>8, <1>9
\* Bonds, when an object without a wrapper and a wrapper without an object get each other.
LEMMA BindBonds ==
  ASSUME BirthInv, NEW w \in Wrappers, NEW o \in Objects, bound[w] = NoObject, qwrap[o] = NoWrapper, Bind(w, o)
  PROVE  /\ Bonds' /\ qwrap'[o] = w /\ bound'[w] = o
         /\ \A p \in Objects : p # o => qwrap'[p] = qwrap[p]
         /\ \A v \in Wrappers : v # w => bound'[v] = bound[v]
         /\ qwrap' \in [Objects -> Wrappers \cup {NoWrapper}] /\ bound' \in [Wrappers -> Objects \cup {NoObject}]
<1>1. /\ qwrap'[o] = w /\ bound'[w] = o
      /\ \A p \in Objects : p # o => qwrap'[p] = qwrap[p]
      /\ \A v \in Wrappers : v # w => bound'[v] = bound[v]
      /\ qwrap' \in [Objects -> Wrappers \cup {NoWrapper}] /\ bound' \in [Wrappers -> Objects \cup {NoObject}]
  BY DEF Bind, BirthInv, BirthTypeOK
<1>2. \A v \in Wrappers : bound[v] # o
  BY AbsentAssumption DEF BirthInv, Bonds
<1>3. \A p \in Objects : qwrap[p] # w
  BY AbsentAssumption DEF BirthInv, Bonds
<1>4. Bonds'
  BY <1>1, <1>2, <1>3 DEF BirthInv, Bonds
<1> QED BY <1>1, <1>4

\* The constructor on top, when the object has no wrapper yet.
LEMMA FirstLevel ==
  ASSUME BirthInv, NEW t \in Makers, Initialising(t), qwrap[Top(t).obj] = NoWrapper
  PROVE  /\ Top(t) \in Frames /\ Top(t).obj \in Objects /\ slot[t] = Top(t).w
         /\ Top(t).w # NoWrapper => bound[Top(t).w] = NoObject /\ "frame" \in kept[Top(t).w]
         /\ class[Top(t).obj] \in Classes /\ Levels[class[Top(t).obj]] = Top(t).left
         /\ Top(t).left \in Nat \ {0} /\ inits[Top(t).obj] = 0
<1>1. PICK n : n = Len(stack[t]) /\ On(t, n) /\ F(t, n) = Top(t) /\ Top(t) \in Frames
  BY TopPlace DEF Initialising, BirthInv
<1>2. FrameOK(t, n) /\ ConstructFrame(t, n)
  BY <1>1 DEF BirthInv, Framed, FrameOK, Initialising
<1>3. Top(t).obj \in Objects /\ Top(t).left \in Nat \ {0} /\ Top(t).w \in Wrappers \cup {NoWrapper}
  BY <1>1 DEF Frames, Initialising
<1>4. class[Top(t).obj] \in Classes /\ Levels[class[Top(t).obj]] \in Nat
  BY <1>1, <1>2, <1>3, LevelsAssumption DEF FrameOK, BirthInv, BirthTypeOK
<1>5. ~Begun(Top(t))
  BY <1>1, <1>2 DEF ConstructFrame
<1>6. Waits(t, n)
  BY <1>1, <1>2, <1>5 DEF ConstructFrame
<1>7. Levels[class[Top(t).obj]] = Top(t).left
  BY <1>1, <1>2, <1>3, <1>4, <1>5 DEF ConstructFrame, Begun
<1>8. inits[Top(t).obj] = 0
  BY <1>1, <1>2, <1>3, <1>5, <1>7 DEF ConstructFrame
<1> QED BY <1>1, <1>2, <1>3, <1>4, <1>6, <1>7, <1>8 DEF Waits, FrameOK, Initialising

\* Nobody else is about the object whose constructor is on top, as long as it has no wrapper.
LEMMA OnlyConstructor ==
  ASSUME BirthInv, NEW t, NEW n, On(t, n), F(t, n).kind = "construct", qwrap[F(t, n).obj] = NoWrapper,
         NEW u, NEW i, On(u, i), ~(u = t /\ i = n)
  PROVE  F(u, i).obj # F(t, n).obj /\ (F(t, n).w # NoWrapper => F(u, i).w # F(t, n).w)
<1>1. PICK g \in Frames : g = F(u, i)
  BY FrameTypes DEF BirthInv
<1>2. g.kind \in {"construct", "init", "wrap"} /\ FrameOK(u, i)
  BY <1>1 DEF Frames, BirthInv, Framed
<1>3. g.kind = "init" => g.obj # F(t, n).obj
  BY <1>1, <1>2 DEF FrameOK
<1>4. g.kind # "init" => g.obj # F(t, n).obj
  BY <1>1, <1>2 DEF BirthInv, Once
<1> QED BY <1>1, <1>3, <1>4 DEF BirthInv, Once

\* The wrapper in the slot is the one that constructs the object.
LEMMA TakeSlotStep ==
  ASSUME BirthInv, NEW t \in Makers, TakeSlot(t)
  PROVE  BirthInv'
<1> USE DEF BirthInv
<1>1. PICK n, f :
           /\ f \in Frames /\ Changed(t, n, f) /\ FrameOK(t, n)
           /\ f.kind = "construct" /\ f.w = Top(t).w /\ f.obj = Top(t).obj
           /\ f.left = Top(t).left - 1 /\ f.stage = "parents"
           /\ stack' \in [Makers -> Seq(Frames)] /\ \A u \in Makers : Len(stack'[u]) <= MaxDepth
  BY LevelStep DEF TakeSlot
<1>2. PICK o, w : o = Top(t).obj /\ w = Top(t).w
  OBVIOUS
<1>3. /\ o \in Objects /\ w \in Wrappers /\ slot[t] = w /\ bound[w] = NoObject /\ "frame" \in kept[w]
      /\ class[o] \in Classes /\ Levels[class[o]] = Top(t).left /\ Top(t).left \in Nat \ {0}
      /\ inits[o] = 0 /\ qwrap[o] = NoWrapper /\ w # NoWrapper
  BY <1>2, FirstLevel DEF TakeSlot, ForSlot, Frames, BirthTypeOK
<1>4. /\ Bind(w, o) /\ inits' = [inits EXCEPT ![o] = @ + 1] /\ slot' = [slot EXCEPT ![t] = NoWrapper]
      /\ UNCHANGED <<class, floating, owners, kept, dict>>
  BY <1>2, <1>3 DEF TakeSlot, ForSlot, Emptied
<1>5. /\ Bonds' /\ qwrap'[o] = w /\ bound'[w] = o
      /\ \A p \in Objects : p # o => qwrap'[p] = qwrap[p]
      /\ \A v \in Wrappers : v # w => bound'[v] = bound[v]
      /\ qwrap' \in [Objects -> Wrappers \cup {NoWrapper}] /\ bound' \in [Wrappers -> Objects \cup {NoObject}]
  BY <1>3, <1>4, BindBonds
<1>6. /\ slot'[t] = NoWrapper /\ (\A u \in Makers : u # t => slot'[u] = slot[u])
      /\ inits'[o] = 1 /\ \A p \in Objects : p # o => inits'[p] = inits[p]
      /\ slot' \in [Makers -> Wrappers \cup {NoWrapper}] /\ inits' \in [Objects -> Nat]
  BY <1>3, <1>4 DEF BirthTypeOK
<1>7. On(t, n) /\ F(t, n) = Top(t) /\ F(t, n)' = f /\ Top(t).kind = "construct" /\ n = Len(stack[t])
  BY <1>1 DEF TakeSlot, Initialising, Changed
<1>8. /\ \A u, i : On(u, i) => F(u, i)'.kind = F(u, i).kind /\ F(u, i)'.w = F(u, i).w /\ F(u, i)'.obj = F(u, i).obj
      /\ Once' /\ \A p : Constructing(p)' = Constructing(p)
  BY <1>1, <1>7, SameKinds
<1>9. \A u, i : On(u, i)' <=> On(u, i)
  BY <1>1 DEF Changed
<1>10. \A u, i : On(u, i) /\ ~(u = t /\ i = n) => F(u, i).obj # o /\ F(u, i).w # w
  BY <1>2, <1>3, <1>7, OnlyConstructor
<1>11. BirthTypeOK'
  BY <1>1, <1>4, <1>5, <1>6 DEF BirthTypeOK
<1>12. Owned'
  <2>1. ASSUME NEW p \in Objects, p # o
        PROVE  (/\ class[p] # NoClass <=> owners[p] # {}
                /\ qwrap[p] # NoWrapper =>
                     /\ class[p] # NoClass
                     /\ \/ qwrap[p] \in owners[p]
                        \/ \E u, i : On(u, i) /\ F(u, i).kind = "construct" /\ F(u, i).obj = p /\ F(u, i).w = qwrap[p])'
    BY <1>4, <1>5, <1>8, <1>9, <2>1 DEF Owned
  <2>2. (/\ class[o] # NoClass <=> owners[o] # {}
         /\ class[o] # NoClass
         /\ \E u, i : On(u, i) /\ F(u, i).kind = "construct" /\ F(u, i).obj = o /\ F(u, i).w = qwrap[o])'
    <3>1. class'[o] # NoClass /\ owners'[o] # {}
      BY <1>3, <1>4, AbsentAssumption DEF Owned
    <3>2. On(t, n)' /\ F(t, n)'.kind = "construct" /\ F(t, n)'.obj = o /\ F(t, n)'.w = qwrap'[o]
      BY <1>1, <1>2, <1>5, <1>7, <1>9
    <3> QED BY <3>1, <3>2
  <2> QED BY <2>1, <2>2 DEF Owned
<1>13. Done'
  BY <1>2, <1>4, <1>6, <1>7, <1>8 DEF Done, Constructing
<1>14. Slots'
  <2>1. ASSUME NEW u \in Makers, slot'[u] # NoWrapper
        PROVE  bound'[slot'[u]] = NoObject /\ \E i : On(u, i)' /\ F(u, i)'.kind = "construct" /\ F(u, i)'.w = slot'[u]
    <3>1. u # t /\ slot'[u] = slot[u] /\ slot[u] \in Wrappers
      BY <1>6, <2>1 DEF BirthTypeOK
    <3>2. PICK i : On(u, i) /\ F(u, i).kind = "construct" /\ F(u, i).w = slot[u] /\ bound[slot[u]] = NoObject
      BY <2>1, <3>1 DEF Slots
    <3>3. slot[u] # w
      BY <1>10, <3>1, <3>2
    <3> QED BY <1>5, <1>8, <1>9, <3>1, <3>2, <3>3
  <2> QED BY <2>1 DEF Slots
<1>15. Framed'
  <2>1. ASSUME NEW u, NEW i, On(u, i), ~(u = t /\ i = n)
        PROVE  FrameOK(u, i)'
    <3>1. F(u, i)' = F(u, i) /\ u \in Makers /\ Len(stack'[u]) = Len(stack[u])
      BY <1>1, <2>1 DEF Changed, On
    <3>2. u = t => F(u, i).stage = "rest" \/ Begun(F(u, i))
      BY <1>7, <2>1, SettledFrame
    <3>3. Apart(u, i, o, w)
      BY <1>10, <2>1 DEF Apart
    <3>4. /\ \A p \in Objects : p # o => class'[p] = class[p] /\ qwrap'[p] = qwrap[p] /\ inits'[p] = inits[p]
          /\ \A v \in Wrappers : v # w => ("frame" \in kept[v] => "frame" \in kept'[v]) /\ bound'[v] = bound[v]
          /\ \A v \in Wrappers : v = qwrap[F(u, i).obj] /\ "float" \in kept[v] => "float" \in kept'[v]
      BY <1>4, <1>5, <1>6
    <3>5. (slot'[u] = slot[u] /\ Len(stack'[u]) = Len(stack[u])) \/ F(u, i).stage = "rest" \/ Begun(F(u, i))
      BY <1>6, <3>1, <3>2
    <3>6. F(u, i)' = F(u, i)
      BY <3>1
    <3> QED BY <2>1, <3>3, <3>4, <3>5, <3>6, OtherFrame
  <2>2. FrameOK(t, n)'
    <3>1. Begun(f)'
      BY <1>1, <1>2, <1>3, <1>4 DEF Begun
    <3>2. ConstructFrame(t, n)'
      BY <1>1, <1>2, <1>3, <1>4, <1>5, <1>6, <1>7, <3>1 DEF ConstructFrame
    <3> QED BY <1>1, <1>2, <1>3, <1>4, <1>7, <3>2, AbsentAssumption DEF FrameOK
  <2> QED BY <1>9, <2>1, <2>2 DEF Framed
<1> QED BY <1>5, <1>8, <1>11, <1>12, <1>13, <1>14, <1>15
\* The object that native code constructs gets an orphan for a wrapper, whose __init__ is run.
LEMMA OrphanStep ==
  ASSUME BirthInv, NEW t \in Makers, NEW w \in Wrappers, Orphan(t, w)
  PROVE  BirthInv'
<1> USE DEF BirthInv
<1>1. PICK o : o = Top(t).obj
  OBVIOUS
<1>2. /\ o \in Objects /\ Top(t).w = NoWrapper /\ slot[t] = NoWrapper /\ qwrap[o] = NoWrapper
      /\ class[o] \in Classes /\ Levels[class[o]] = Top(t).left /\ Top(t).left \in Nat \ {0}
      /\ inits[o] = 0 /\ bound[w] = NoObject /\ kept[w] = {} /\ w # NoWrapper
      /\ Top(t) \in Frames /\ Top(t).kind = "construct" /\ Top(t).stage = "parents" /\ stack[t] # << >>
  BY <1>1, FirstLevel, AbsentAssumption DEF Orphan, ForSlot, Unused, Initialising
<1>3. PICK k : k = Len(stack[t]) /\ On(t, k) /\ F(t, k) = Top(t) /\ k \in Nat \ {0}
  BY <1>2, TopPlace, Stacked
<1>4. PICK f : f = [Top(t) EXCEPT !.left = @ - 1]
  OBVIOUS
<1>5. PICK g : g = [kind |-> "init", w |-> w, obj |-> o, left |-> 0, stage |-> "rest"]
  OBVIOUS
<1>6. /\ f \in Frames /\ f.kind = "construct" /\ f.w = NoWrapper /\ f.obj = o
      /\ f.left = Top(t).left - 1 /\ f.stage = "parents" /\ g \in Frames
  BY <1>1, <1>2, <1>4, <1>5 DEF Frames
<1> DEFINE s == [stack[t] EXCEPT ![k] = f]
<1>7. /\ stack' = [stack EXCEPT ![t] = Append(s, g)]
      /\ s \in Seq(Frames) /\ Len(s) = k /\ s[k] = f /\ \A i \in 1 .. k : i # k => s[i] = stack[t][i]
  <2>1. NextLevel(t) = [stack EXCEPT ![t] = s]
    BY <1>3, <1>4 DEF NextLevel, Top
  <2>2. stack' = [NextLevel(t) EXCEPT ![t] = Append(@, g)]
    BY <1>1, <1>5 DEF Orphan
  <2>3. stack[t] \in Seq(Frames) /\ stack \in [Makers -> Seq(Frames)]
    BY Stacked DEF BirthTypeOK
  <2>4. s \in Seq(Frames) /\ Len(s) = k /\ s[k] = f /\ \A i \in 1 .. k : i # k => s[i] = stack[t][i]
    BY <1>3, <1>6, <2>3
  <2> HIDE DEF s
  <2> QED BY <2>1, <2>2, <2>3, <2>4
<1> HIDE DEF s
<1>8. PICK n : n = k + 1 /\ n \in Nat
  BY <1>3
<1>9. /\ Append(s, g) \in Seq(Frames) /\ Len(Append(s, g)) = n /\ Append(s, g)[n] = g
      /\ \A i \in 1 .. k : Append(s, g)[i] = s[i]
  BY <1>6, <1>7, <1>8
<1>10. /\ stack'[t] = Append(s, g) /\ \A u \in Makers \ {t} : stack'[u] = stack[u]
       /\ stack' \in [Makers -> Seq(Frames)] /\ \A u \in Makers : Len(stack'[u]) <= MaxDepth
  <2>1. Len(Append(s, g)) <= MaxDepth
    BY <1>3, <1>8, <1>9, DepthAssumption DEF Orphan
  <2> QED BY <1>7, <1>9, <2>1 DEF BirthTypeOK
<1>11. /\ On(t, n)' /\ F(t, n)' = g /\ ~On(t, n) /\ F(t, k)' = f /\ n # k
       /\ \A u, i : On(u, i)' <=> On(u, i) \/ (u = t /\ i = n)
       /\ \A u, i : On(u, i) /\ ~(u = t /\ i = k) => F(u, i)' = F(u, i)
  <2>1. On(t, n)' /\ F(t, n)' = g /\ ~On(t, n) /\ n # k
    BY <1>3, <1>8, <1>9, <1>10 DEF On, F
  <2>2. F(t, k)' = f
    BY <1>3, <1>7, <1>8, <1>9, <1>10 DEF F
  <2>3. \A u, i : On(u, i)' <=> On(u, i) \/ (u = t /\ i = n)
    BY <1>3, <1>8, <1>9, <1>10 DEF On
  <2>4. \A u, i : On(u, i) /\ ~(u = t /\ i = k) => F(u, i)' = F(u, i)
    BY <1>3, <1>7, <1>8, <1>9, <1>10 DEF On, F
  <2> QED BY <2>1, <2>2, <2>3, <2>4
<1>12. /\ Bind(w, o) /\ Sunk(w, o) /\ inits' = [inits EXCEPT ![o] = @ + 1]
       /\ slot' = slot /\ kept' = [kept EXCEPT ![w] = {"frame", "float"}] /\ UNCHANGED <<class, dict>>
  <2>1. slot' = slot
    BY <1>2 DEF Orphan, Emptied, BirthTypeOK
  <2> QED BY <1>1, <2>1 DEF Orphan, Orphaned
<1>13. /\ Bonds' /\ qwrap'[o] = w /\ bound'[w] = o
       /\ \A p \in Objects : p # o => qwrap'[p] = qwrap[p]
       /\ \A v \in Wrappers : v # w => bound'[v] = bound[v]
       /\ qwrap' \in [Objects -> Wrappers \cup {NoWrapper}] /\ bound' \in [Wrappers -> Objects \cup {NoObject}]
  BY <1>2, <1>12, BindBonds
<1>14. /\ inits'[o] = 1 /\ (\A p \in Objects : p # o => inits'[p] = inits[p]) /\ inits' \in [Objects -> Nat]
       /\ kept'[w] = {"frame", "float"} /\ \A v \in Wrappers : v # w => kept'[v] = kept[v]
       /\ w \in owners'[o] /\ \A p \in Objects : p # o => owners'[p] = owners[p]
       /\ kept' \in [Wrappers -> SUBSET {"variable", "frame", "float"}]
       /\ owners' \in [Objects -> SUBSET ({"maker", "native"} \cup Wrappers)]
       /\ floating' \subseteq Objects
  BY <1>2, <1>12 DEF BirthTypeOK, Sunk
<1>15. BirthTypeOK'
  BY <1>10, <1>12, <1>13, <1>14 DEF BirthTypeOK
<1>16. \A u, i : On(u, i) => F(u, i).w # w
  BY <1>2 DEF Framed, FrameOK
<1>17. \A u, i : On(u, i) /\ ~(u = t /\ i = k) => F(u, i).obj # o
  BY <1>1, <1>2, <1>3, OnlyConstructor
<1>18. /\ \A u, i : On(u, i) => F(u, i)'.kind = F(u, i).kind /\ F(u, i)'.w = F(u, i).w /\ F(u, i)'.obj = F(u, i).obj
       /\ g.kind = "init" /\ g.w = w /\ g.obj = o /\ g.stage = "rest"
  BY <1>1, <1>2, <1>3, <1>5, <1>6, <1>11
<1>19. Once'
  <2>1. \A u, i : On(u, i) => F(u, i)'.w # w /\ ~(F(u, i)'.obj = o /\ F(u, i)'.kind \in {"init", "wrap"})
    BY <1>2, <1>3, <1>16, <1>17, <1>18
  <2> QED BY <1>11, <1>18, <2>1 DEF Once
<1>20. Owned'
  <2>1. ASSUME NEW p \in Objects, p # o
        PROVE  (/\ class[p] # NoClass <=> owners[p] # {}
                /\ qwrap[p] # NoWrapper =>
                     /\ class[p] # NoClass
                     /\ \/ qwrap[p] \in owners[p]
                        \/ \E u, i : On(u, i) /\ F(u, i).kind = "construct" /\ F(u, i).obj = p /\ F(u, i).w = qwrap[p])'
    BY <1>11, <1>12, <1>13, <1>14, <1>18, <2>1 DEF Owned
  <2>2. class'[o] # NoClass /\ owners'[o] # {} /\ qwrap'[o] \in owners'[o]
    BY <1>2, <1>12, <1>13, <1>14, AbsentAssumption
  <2> QED BY <2>1, <2>2 DEF Owned
<1>21. Done'
  <2>1. \A p : Constructing(p) => Constructing(p)'
    BY <1>11, <1>18 DEF Constructing
  <2> QED BY <1>12, <1>14, <2>1 DEF Done
<1>22. Slots'
  <2>1. ASSUME NEW u \in Makers, slot[u] # NoWrapper
        PROVE  bound'[slot[u]] = NoObject /\ \E i : On(u, i)' /\ F(u, i)'.kind = "construct" /\ F(u, i)'.w = slot[u]
    <3>1. PICK i : On(u, i) /\ F(u, i).kind = "construct" /\ F(u, i).w = slot[u] /\ bound[slot[u]] = NoObject
      BY <2>1 DEF Slots
    <3>2. slot[u] \in Wrappers /\ slot[u] # w
      BY <1>16, <2>1, <3>1 DEF BirthTypeOK
    <3> QED BY <1>11, <1>13, <1>18, <3>1, <3>2
  <2> QED BY <1>12, <2>1 DEF Slots
<1>23. Framed'
  <2>1. ASSUME NEW u, NEW i, On(u, i), ~(u = t /\ i = k)
        PROVE  FrameOK(u, i)'
    <3>1. F(u, i)' = F(u, i) /\ u \in Makers
      BY <1>11, <2>1 DEF On
    <3>2. (slot'[u] = slot[u] /\ Len(stack'[u]) = Len(stack[u])) \/ F(u, i).stage = "rest" \/ Begun(F(u, i))
      BY <1>3, <1>10, <1>12, <2>1, <3>1, SettledFrame
    <3>3. Apart(u, i, o, w)
      BY <1>16, <1>17, <2>1 DEF Apart
    <3>4. /\ \A p \in Objects : p # o => class'[p] = class[p] /\ qwrap'[p] = qwrap[p] /\ inits'[p] = inits[p]
          /\ \A v \in Wrappers : v # w => ("frame" \in kept[v] => "frame" \in kept'[v]) /\ bound'[v] = bound[v]
          /\ \A v \in Wrappers : v = qwrap[F(u, i).obj] /\ "float" \in kept[v] => "float" \in kept'[v]
      BY <1>12, <1>13, <1>14
    <3> QED BY <2>1, <3>1, <3>2, <3>3, <3>4, OtherFrame
  <2>2. FrameOK(t, k)'
    <3>1. Begun(f)'
      BY <1>2, <1>6, <1>12 DEF Begun
    <3>2. ConstructFrame(t, k)'
      BY <1>2, <1>6, <1>11, <1>12, <1>13, <1>14, <3>1 DEF ConstructFrame
    <3> QED BY <1>2, <1>6, <1>11, <1>12, <3>2, AbsentAssumption DEF FrameOK
  <2>3. FrameOK(t, n)'
    BY <1>2, <1>11, <1>12, <1>13, <1>14, <1>18, AbsentAssumption DEF FrameOK
  <2> QED BY <1>11, <2>1, <2>2, <2>3 DEF Framed
<1> QED BY <1>13, <1>15, <1>19, <1>20, <1>21, <1>22, <1>23
\* What stays when a frame goes that is not a constructor's.
LEMMA PoppedFrames ==
  ASSUME BirthInv, NEW t \in Makers, NEW n, Popped(t, n)
  PROVE  /\ Once'
         /\ \A u, i : On(u, i)' => /\ On(u, i) /\ ~(u = t /\ i = n) /\ F(u, i)' = F(u, i)
                                   /\ \/ Len(stack'[u]) = Len(stack[u])
                                      \/ F(u, i).stage = "rest" \/ Begun(F(u, i))
         /\ \A u, i : On(u, i) /\ ~(u = t /\ i = n) => On(u, i)' /\ F(u, i)' = F(u, i)
<1>1. Once'
  BY DEF Popped, BirthInv, Once
<1>2. \A u, i : On(u, i)' => On(u, i) /\ ~(u = t /\ i = n) /\ F(u, i)' = F(u, i)
  BY DEF Popped
<1>3. ASSUME NEW u, NEW i, On(u, i)'
      PROVE  Len(stack'[u]) = Len(stack[u]) \/ F(u, i).stage = "rest" \/ Begun(F(u, i))
  <2>1. CASE u = t
    BY <1>2, <1>3, <2>1, SettledFrame DEF Popped
  <2>2. CASE u # t
    BY <1>2, <1>3, <2>2 DEF Popped, On
  <2> QED BY <2>1, <2>2
<1> QED BY <1>1, <1>2, <1>3 DEF Popped

\* Owned, Done and Slots ask only for constructors.
LEMMA OtherPlaces ==
  ASSUME BirthInv, NEW t \in Makers, NEW n, Popped(t, n), Top(t).kind # "construct"
  PROVE  /\ \A o : Constructing(o)' = Constructing(o)
         /\ \A u, i : On(u, i) /\ F(u, i).kind = "construct" => On(u, i)' /\ F(u, i)' = F(u, i)
<1>1. \A u, i : On(u, i) /\ F(u, i).kind = "construct" => On(u, i)' /\ F(u, i)' = F(u, i)
  BY DEF Popped
<1>2. \A o : Constructing(o)' => Constructing(o)
  BY DEF Popped, Constructing
<1>3. \A o : Constructing(o) => Constructing(o)'
  BY <1>1 DEF Constructing
<1>4. ASSUME NEW o PROVE Constructing(o)' = Constructing(o)
  <2>1. Constructing(o)' \in BOOLEAN /\ Constructing(o) \in BOOLEAN
    BY DEF Constructing
  <2> QED BY <1>2, <1>3, <2>1
<1> QED BY <1>1, <1>4

\* The orphan's __init__ is through.
LEMMA InitReturnsStep ==
  ASSUME BirthInv, NEW t \in Makers, InitReturns(t)
  PROVE  BirthInv'
<1> USE DEF BirthInv
<1>1. /\ \E n : Popped(t, n)
      /\ stack' \in [Makers -> Seq(Frames)] /\ \A u \in Makers : Len(stack'[u]) <= MaxDepth
  BY PopPlaces DEF InitReturns
<1>2. PICK n : Popped(t, n)
  BY <1>1
<1>3. PICK w : w = Top(t).w
  OBVIOUS
<1>4. /\ On(t, n) /\ F(t, n) = Top(t) /\ Top(t) \in Frames /\ Top(t).kind = "init" /\ FrameOK(t, n)
      /\ w # NoWrapper
  BY <1>2, <1>3, FrameTypes DEF Popped, InitReturns, Framed, FrameOK
<1>5. w \in Wrappers
  BY <1>3, <1>4 DEF Frames
<1>6. /\ kept' = [kept EXCEPT ![w] = @ \ {"frame"}]
      /\ UNCHANGED <<slot, class, floating, owners, qwrap, inits, bound, dict>>
  BY <1>3 DEF InitReturns
<1>7. /\ Once'
      /\ \A u, i : On(u, i)' => /\ On(u, i) /\ ~(u = t /\ i = n) /\ F(u, i)' = F(u, i)
                                /\ \/ Len(stack'[u]) = Len(stack[u])
                                   \/ F(u, i).stage = "rest" \/ Begun(F(u, i))
  BY <1>2, PoppedFrames
<1>8. /\ \A o : Constructing(o)' = Constructing(o)
      /\ \A u, i : On(u, i) /\ F(u, i).kind = "construct" => On(u, i)' /\ F(u, i)' = F(u, i)
  BY <1>2, <1>4, OtherPlaces
<1>9. BirthTypeOK' /\ Bonds'
  BY <1>1, <1>5, <1>6 DEF BirthTypeOK, Bonds
<1>10. Owned' /\ Done' /\ Slots'
  BY <1>6, <1>8 DEF Owned, Done, Slots
<1>11. ASSUME NEW u, NEW i, On(u, i)'
       PROVE  FrameOK(u, i)'
  <2>1. On(u, i) /\ F(u, i)' = F(u, i) /\ F(u, i).w # w /\ u \in Makers
    BY <1>3, <1>4, <1>7, <1>11 DEF Once, On
  <2>2. PICK o : Apart(u, i, o, w)
    <3>1. "maker" # "native"
      OBVIOUS
    <3> QED BY <2>1, <3>1 DEF Apart
  <2>3. /\ \A v \in Wrappers : v # w => ("frame" \in kept[v] => "frame" \in kept'[v]) /\ bound'[v] = bound[v]
        /\ \A v \in Wrappers : v = qwrap[F(u, i).obj] /\ "float" \in kept[v] => "float" \in kept'[v]
        /\ \A p \in Objects : p # o => class'[p] = class[p] /\ qwrap'[p] = qwrap[p] /\ inits'[p] = inits[p]
    BY <1>6 DEF BirthTypeOK
  <2>4. (slot'[u] = slot[u] /\ Len(stack'[u]) = Len(stack[u])) \/ F(u, i).stage = "rest" \/ Begun(F(u, i))
    BY <1>6, <1>7, <1>11
  <2> QED BY <2>1, <2>2, <2>3, <2>4, OtherFrame
<1> QED BY <1>7, <1>9, <1>10, <1>11 DEF Framed

\* pygobject_new_full gives an object that has no wrapper, and that nobody constructs, a new one.
LEMMA EndWrapStep ==
  ASSUME BirthInv, NEW t \in Makers, NEW w \in Wrappers, EndWrap(t, w)
  PROVE  BirthInv'
<1> USE DEF BirthInv
<1>1. /\ \E n : Popped(t, n)
      /\ stack' \in [Makers -> Seq(Frames)] /\ \A u \in Makers : Len(stack'[u]) <= MaxDepth
  BY PopPlaces DEF EndWrap
<1>2. PICK n : Popped(t, n)
  BY <1>1
<1>3. PICK o : o = Top(t).obj
  OBVIOUS
<1>4. /\ On(t, n) /\ F(t, n) = Top(t) /\ Top(t) \in Frames /\ Top(t).kind = "wrap" /\ FrameOK(t, n)
  BY <1>2, <1>3, FrameTypes DEF Popped, EndWrap, Framed
<1>5. /\ o \in Objects /\ qwrap[o] = NoWrapper /\ class[o] # NoClass
      /\ bound[w] = NoObject /\ kept[w] = {} /\ w # NoWrapper
  BY <1>3, <1>4, AbsentAssumption DEF Frames, FrameOK, EndWrap, Unused
<1>6. Bind(w, o) /\ Sunk(w, o) /\ kept' = [kept EXCEPT ![w] = {"variable"}] /\ UNCHANGED <<slot, class, inits, dict>>
  BY <1>3 DEF EndWrap
<1>7. /\ Bonds' /\ qwrap'[o] = w /\ bound'[w] = o
      /\ \A p \in Objects : p # o => qwrap'[p] = qwrap[p]
      /\ \A v \in Wrappers : v # w => bound'[v] = bound[v]
      /\ qwrap' \in [Objects -> Wrappers \cup {NoWrapper}] /\ bound' \in [Wrappers -> Objects \cup {NoObject}]
  BY <1>5, <1>6, BindBonds
<1>8. /\ Once'
      /\ \A u, i : On(u, i)' => /\ On(u, i) /\ ~(u = t /\ i = n) /\ F(u, i)' = F(u, i)
                                /\ \/ Len(stack'[u]) = Len(stack[u])
                                   \/ F(u, i).stage = "rest" \/ Begun(F(u, i))
  BY <1>2, PoppedFrames
<1>9. /\ \A p : Constructing(p)' = Constructing(p)
      /\ \A u, i : On(u, i) /\ F(u, i).kind = "construct" => On(u, i)' /\ F(u, i)' = F(u, i)
  BY <1>2, <1>4, OtherPlaces
<1>10. /\ w \in owners'[o] /\ \A p \in Objects : p # o => owners'[p] = owners[p]
       /\ kept'[w] = {"variable"} /\ \A v \in Wrappers : v # w => kept'[v] = kept[v]
       /\ kept' \in [Wrappers -> SUBSET {"variable", "frame", "float"}]
       /\ owners' \in [Objects -> SUBSET ({"maker", "native"} \cup Wrappers)]
       /\ floating' \subseteq Objects
  BY <1>5, <1>6 DEF BirthTypeOK, Sunk
<1>11. BirthTypeOK'
  BY <1>1, <1>6, <1>7, <1>10 DEF BirthTypeOK
<1>12. \A u, i : On(u, i) => F(u, i).w # w
  BY <1>5 DEF Framed, FrameOK
<1>13. Owned'
  <2>1. ASSUME NEW p \in Objects, p # o
        PROVE  (/\ class[p] # NoClass <=> owners[p] # {}
                /\ qwrap[p] # NoWrapper =>
                     /\ class[p] # NoClass
                     /\ \/ qwrap[p] \in owners[p]
                        \/ \E u, i : On(u, i) /\ F(u, i).kind = "construct" /\ F(u, i).obj = p /\ F(u, i).w = qwrap[p])'
    BY <1>6, <1>7, <1>9, <1>10, <2>1 DEF Owned
  <2>2. class'[o] # NoClass /\ owners'[o] # {} /\ qwrap'[o] \in owners'[o]
    BY <1>5, <1>6, <1>7, <1>10
  <2> QED BY <2>1, <2>2 DEF Owned
<1>14. Done'
  BY <1>6, <1>9 DEF Done
<1>15. Slots'
  <2>1. ASSUME NEW u \in Makers, slot[u] # NoWrapper
        PROVE  bound'[slot[u]] = NoObject /\ \E i : On(u, i)' /\ F(u, i)'.kind = "construct" /\ F(u, i)'.w = slot[u]
    <3>1. PICK i : On(u, i) /\ F(u, i).kind = "construct" /\ F(u, i).w = slot[u] /\ bound[slot[u]] = NoObject
      BY <2>1 DEF Slots
    <3>2. slot[u] \in Wrappers /\ slot[u] # w
      BY <1>12, <2>1, <3>1 DEF BirthTypeOK
    <3> QED BY <1>7, <1>9, <3>1, <3>2
  <2> QED BY <1>6, <2>1 DEF Slots
<1>16. ASSUME NEW u, NEW i, On(u, i)'
       PROVE  FrameOK(u, i)'
  <2>1. On(u, i) /\ F(u, i)' = F(u, i) /\ u \in Makers
    BY <1>8, <1>16 DEF On
  <2>2. Apart(u, i, o, w)
    BY <1>3, <1>4, <1>8, <1>12, <1>16 DEF Apart, Once
  <2>3. /\ \A v \in Wrappers : v # w => ("frame" \in kept[v] => "frame" \in kept'[v]) /\ bound'[v] = bound[v]
        /\ \A v \in Wrappers : v = qwrap[F(u, i).obj] /\ "float" \in kept[v] => "float" \in kept'[v]
        /\ \A p \in Objects : p # o => class'[p] = class[p] /\ qwrap'[p] = qwrap[p] /\ inits'[p] = inits[p]
    BY <1>5, <1>6, <1>7, <1>10
  <2>4. (slot'[u] = slot[u] /\ Len(stack'[u]) = Len(stack[u])) \/ F(u, i).stage = "rest" \/ Begun(F(u, i))
    BY <1>6, <1>8, <1>16
  <2> QED BY <2>1, <2>2, <2>3, <2>4, OtherFrame
<1> QED BY <1>7, <1>8, <1>11, <1>13, <1>14, <1>15, <1>16 DEF Framed
\* A constructor whose instance initialisers are through.
LEMMA LastFrame ==
  ASSUME BirthInv, NEW t \in Makers, Constructed(t)
  PROVE  \E n, o, w :
           /\ Popped(t, n) /\ o = Top(t).obj /\ w = Top(t).w /\ o \in Objects /\ w \in Wrappers \cup {NoWrapper}
           /\ stack' \in [Makers -> Seq(Frames)] /\ \A u \in Makers : Len(stack'[u]) <= MaxDepth
           /\ On(t, n) /\ F(t, n) = Top(t) /\ Top(t).kind = "construct" /\ FrameOK(t, n)
           /\ class[o] \in Classes /\ Levels[class[o]] \in Nat
           /\ IF Levels[class[o]] > 0
                THEN inits[o] = 1 /\ qwrap[o] # NoWrapper /\ (w # NoWrapper => qwrap[o] = w)
                ELSE qwrap[o] = NoWrapper /\ (w # NoWrapper => bound[w] = NoObject)
<1> USE DEF BirthInv
<1>1. /\ \E n : Popped(t, n)
      /\ stack' \in [Makers -> Seq(Frames)] /\ \A u \in Makers : Len(stack'[u]) <= MaxDepth
  BY PopPlaces DEF Constructed
<1>2. PICK n : Popped(t, n)
  BY <1>1
<1>3. PICK o, w : o = Top(t).obj /\ w = Top(t).w
  OBVIOUS
<1>4. /\ On(t, n) /\ F(t, n) = Top(t) /\ Top(t) \in Frames /\ Top(t).kind = "construct" /\ FrameOK(t, n)
      /\ Top(t).stage = "rest"
  BY <1>2, FrameTypes DEF Popped, Constructed, Framed
<1>5. o \in Objects /\ w \in Wrappers \cup {NoWrapper}
  BY <1>3, <1>4 DEF Frames
<1>6. class[o] \in Classes /\ Levels[class[o]] \in Nat
  BY <1>3, <1>4, <1>5, LevelsAssumption DEF FrameOK, BirthTypeOK
<1>7. Top(t).left = 0 /\ ConstructFrame(t, n)
  BY <1>4 DEF FrameOK, ConstructFrame
<1>8. Begun(Top(t)) <=> Levels[class[o]] > 0
  BY <1>3, <1>6, <1>7 DEF Begun
<1>9. CASE Levels[class[o]] > 0
  <2>1. inits[o] = 1 /\ qwrap[o] # NoWrapper /\ (w # NoWrapper => qwrap[o] = w)
    BY <1>3, <1>4, <1>7, <1>8, <1>9 DEF ConstructFrame
  <2> QED BY <1>1, <1>2, <1>3, <1>4, <1>5, <1>6, <1>9, <2>1
<1>10. CASE ~(Levels[class[o]] > 0)
  <2>1. qwrap[o] = NoWrapper /\ (w # NoWrapper => bound[w] = NoObject)
    BY <1>3, <1>4, <1>7, <1>8, <1>10 DEF ConstructFrame, Waits
  <2> QED BY <1>1, <1>2, <1>3, <1>4, <1>5, <1>6, <1>10, <2>1
<1> QED BY <1>9, <1>10

\* Done and Owned, when the constructor of an object that has its owner is through.
LEMMA ConstructedPlaces ==
  ASSUME BirthInv, NEW t \in Makers, NEW n, Popped(t, n), NEW o, o = Top(t).obj
  PROVE  /\ \A p : p # o => Constructing(p)' = Constructing(p)
         /\ \A u, i : On(u, i) /\ F(u, i).obj # o => On(u, i)' /\ F(u, i)' = F(u, i)
<1>1. \A u, i : On(u, i) /\ F(u, i).obj # o => On(u, i)' /\ F(u, i)' = F(u, i)
  BY DEF Popped
<1>2. \A p : Constructing(p)' => Constructing(p)
  BY DEF Popped, Constructing
<1>3. \A p : p # o /\ Constructing(p) => Constructing(p)'
  BY <1>1 DEF Constructing
<1>4. ASSUME NEW p, p # o PROVE Constructing(p)' = Constructing(p)
  <2>1. Constructing(p)' \in BOOLEAN /\ Constructing(p) \in BOOLEAN
    BY DEF Constructing
  <2> QED BY <1>2, <1>3, <1>4, <2>1
<1> QED BY <1>1, <1>4

\* The native constructor returns.
LEMMA NativeConstructedStep ==
  ASSUME BirthInv, NEW t \in Makers, NativeConstructed(t)
  PROVE  BirthInv'
<1> USE DEF BirthInv
<1>1. PICK n, o, w :
           /\ Popped(t, n) /\ o = Top(t).obj /\ w = Top(t).w /\ o \in Objects /\ w \in Wrappers \cup {NoWrapper}
           /\ stack' \in [Makers -> Seq(Frames)] /\ \A u \in Makers : Len(stack'[u]) <= MaxDepth
           /\ On(t, n) /\ F(t, n) = Top(t) /\ Top(t).kind = "construct" /\ FrameOK(t, n)
           /\ class[o] \in Classes /\ Levels[class[o]] \in Nat
           /\ IF Levels[class[o]] > 0
                THEN inits[o] = 1 /\ qwrap[o] # NoWrapper /\ (w # NoWrapper => qwrap[o] = w)
                ELSE qwrap[o] = NoWrapper /\ (w # NoWrapper => bound[w] = NoObject)
  BY LastFrame DEF NativeConstructed
<1>2. /\ w = NoWrapper
      /\ owners' = [owners EXCEPT ![o] = (@ \ {"maker"}) \cup {"native"}] /\ floating' = floating \ {o}
      /\ UNCHANGED <<slot, class, qwrap, inits, bound, kept, dict>>
  BY <1>1 DEF NativeConstructed
<1>3. /\ \A p : p # o => Constructing(p)' = Constructing(p)
      /\ \A u, i : On(u, i) /\ F(u, i).obj # o => On(u, i)' /\ F(u, i)' = F(u, i)
  BY <1>1, ConstructedPlaces
<1>4. /\ Once'
      /\ \A u, i : On(u, i)' => /\ On(u, i) /\ ~(u = t /\ i = n) /\ F(u, i)' = F(u, i)
                                /\ \/ Len(stack'[u]) = Len(stack[u])
                                   \/ F(u, i).stage = "rest" \/ Begun(F(u, i))
      /\ \A u, i : On(u, i) /\ ~(u = t /\ i = n) => On(u, i)' /\ F(u, i)' = F(u, i)
  BY <1>1, PoppedFrames
<1>5. BirthTypeOK' /\ Bonds'
  BY <1>1, <1>2 DEF BirthTypeOK, Bonds
<1>6. owners'[o] = (owners[o] \ {"maker"}) \cup {"native"} /\ \A p \in Objects : p # o => owners'[p] = owners[p]
  BY <1>1, <1>2 DEF BirthTypeOK
<1>7. Owned'
  <2>1. ASSUME NEW p \in Objects, p # o
        PROVE  (/\ class[p] # NoClass <=> owners[p] # {}
                /\ qwrap[p] # NoWrapper =>
                     /\ class[p] # NoClass
                     /\ \/ qwrap[p] \in owners[p]
                        \/ \E u, i : On(u, i) /\ F(u, i).kind = "construct" /\ F(u, i).obj = p /\ F(u, i).w = qwrap[p])'
    BY <1>2, <1>3, <1>6, <2>1 DEF Owned
  <2>2. qwrap[o] # NoWrapper => qwrap[o] \in owners[o]
    \* Its own constructor does not hold the wrapper.
    <3>1. \A u, i : On(u, i) /\ F(u, i).kind = "construct" /\ F(u, i).obj = o => u = t /\ i = n
      BY <1>1 DEF Once
    <3>2. F(t, n).w = NoWrapper /\ o \in Objects
      BY <1>1, <1>2
    <3> QED BY <3>1, <3>2 DEF Owned
  <2>3. qwrap[o] # NoWrapper => qwrap[o] \in owners'[o]
    BY <1>1, <1>6, <2>2, OwnersAssumption DEF BirthTypeOK
  <2>4. class'[o] # NoClass /\ owners'[o] # {}
    BY <1>1, <1>2, <1>6, AbsentAssumption
  <2> QED BY <1>2, <2>1, <2>3, <2>4 DEF Owned
<1>8. Done'
  BY <1>1, <1>2, <1>3 DEF Done
<1>9. Slots'
  <2>1. ASSUME NEW u \in Makers, slot[u] # NoWrapper
        PROVE  bound[slot[u]] = NoObject /\ \E i : On(u, i)' /\ F(u, i)'.kind = "construct" /\ F(u, i)'.w = slot[u]
    <3>1. PICK i : On(u, i) /\ F(u, i).kind = "construct" /\ F(u, i).w = slot[u] /\ bound[slot[u]] = NoObject
      BY <2>1 DEF Slots
    <3>2. F(t, n).w = NoWrapper
      BY <1>1, <1>2
    <3>3. On(u, i)' /\ F(u, i)' = F(u, i)
      BY <1>4, <2>1, <3>1, <3>2
    <3> QED BY <3>1, <3>3
  <2> QED BY <1>2, <2>1 DEF Slots
<1>10. ASSUME NEW u, NEW i, On(u, i)'
       PROVE  FrameOK(u, i)'
  <2>1. On(u, i) /\ F(u, i)' = F(u, i) /\ u \in Makers
    BY <1>4, <1>10 DEF On
  <2>2. PICK p, v : Apart(u, i, p, v)
    <3>1. "maker" # "native"
      OBVIOUS
    <3> QED BY <3>1 DEF Apart
  <2>3. (slot'[u] = slot[u] /\ Len(stack'[u]) = Len(stack[u])) \/ F(u, i).stage = "rest" \/ Begun(F(u, i))
    BY <1>2, <1>4, <1>10
  <2> QED BY <1>2, <2>1, <2>2, <2>3, OtherFrame
<1> QED BY <1>4, <1>5, <1>7, <1>8, <1>9, <1>10 DEF Framed

\* pygobject_constructv returns: the wrapper owns the object that it is bound to, now or before.
LEMMA PyConstructedStep ==
  ASSUME BirthInv, NEW t \in Makers, PyConstructed(t)
  PROVE  BirthInv'
<1> USE DEF BirthInv
<1>1. PICK n, o, w :
           /\ Popped(t, n) /\ o = Top(t).obj /\ w = Top(t).w /\ o \in Objects /\ w \in Wrappers \cup {NoWrapper}
           /\ stack' \in [Makers -> Seq(Frames)] /\ \A u \in Makers : Len(stack'[u]) <= MaxDepth
           /\ On(t, n) /\ F(t, n) = Top(t) /\ Top(t).kind = "construct" /\ FrameOK(t, n)
           /\ class[o] \in Classes /\ Levels[class[o]] \in Nat
           /\ IF Levels[class[o]] > 0
                THEN inits[o] = 1 /\ qwrap[o] # NoWrapper /\ (w # NoWrapper => qwrap[o] = w)
                ELSE qwrap[o] = NoWrapper /\ (w # NoWrapper => bound[w] = NoObject)
  BY LastFrame DEF PyConstructed
<1>2. /\ w \in Wrappers /\ w # NoWrapper
      /\ owners' = [owners EXCEPT ![o] = (@ \ {"maker"}) \cup {w}] /\ floating' = floating \ {o}
      /\ kept' = [kept EXCEPT ![w] = (@ \ {"frame"}) \cup {"variable"}]
      /\ IF bound[w] = NoObject THEN Bind(w, o) /\ inits' = [inits EXCEPT ![o] = @ + 1]
         ELSE UNCHANGED <<bound, qwrap, inits>>
      /\ slot' = [slot EXCEPT ![t] = NoWrapper] /\ UNCHANGED <<class, dict>>
  BY <1>1 DEF PyConstructed, Emptied
<1>3. /\ Bonds' /\ qwrap'[o] = w /\ bound'[w] = o
      /\ \A p \in Objects : p # o => qwrap'[p] = qwrap[p]
      /\ \A v \in Wrappers : v # w => bound'[v] = bound[v]
      /\ qwrap' \in [Objects -> Wrappers \cup {NoWrapper}] /\ bound' \in [Wrappers -> Objects \cup {NoObject}]
  <2>1. CASE Levels[class[o]] > 0
    <3>1. bound[w] = o /\ o # NoObject
      BY <1>1, <1>2, <2>1, AbsentAssumption DEF Bonds
    <3>2. UNCHANGED <<bound, qwrap, inits>>
      BY <1>2, <3>1
    <3> QED BY <1>1, <1>2, <2>1, <3>1, <3>2 DEF Bonds, BirthTypeOK
  <2>2. CASE ~(Levels[class[o]] > 0)
    BY <1>1, <1>2, <2>2, BindBonds
  <2> QED BY <2>1, <2>2
<1>4. /\ \A p \in Objects : p # o => inits'[p] = inits[p]
      /\ inits' \in [Objects -> Nat]
      /\ Levels[class[o]] > 0 => inits'[o] = 1
  <2>1. CASE Levels[class[o]] > 0
    <3>1. bound[w] # NoObject
      BY <1>1, <1>2, <2>1, AbsentAssumption DEF Bonds
    <3> QED BY <1>1, <1>2, <2>1, <3>1 DEF BirthTypeOK
  <2>2. CASE ~(Levels[class[o]] > 0)
    <3>1. inits' = inits \/ inits' = [inits EXCEPT ![o] = @ + 1]
      BY <1>2
    <3> QED BY <1>1, <2>2, <3>1 DEF BirthTypeOK
  <2> QED BY <2>1, <2>2
<1>5. /\ \A p : p # o => Constructing(p)' = Constructing(p)
      /\ \A u, i : On(u, i) /\ F(u, i).obj # o => On(u, i)' /\ F(u, i)' = F(u, i)
  BY <1>1, ConstructedPlaces
<1>6. /\ Once'
      /\ \A u, i : On(u, i)' => /\ On(u, i) /\ ~(u = t /\ i = n) /\ F(u, i)' = F(u, i)
                                /\ \/ Len(stack'[u]) = Len(stack[u])
                                   \/ F(u, i).stage = "rest" \/ Begun(F(u, i))
      /\ \A u, i : On(u, i) /\ ~(u = t /\ i = n) => On(u, i)' /\ F(u, i)' = F(u, i)
  BY <1>1, PoppedFrames
<1>7. /\ w \in owners'[o] /\ \A p \in Objects : p # o => owners'[p] = owners[p]
      /\ \A v \in Wrappers : v # w => kept'[v] = kept[v]
      /\ \A v \in Wrappers : "float" \in kept[v] => "float" \in kept'[v]
      /\ slot'[t] = NoWrapper /\ \A u \in Makers : u # t => slot'[u] = slot[u]
  BY <1>1, <1>2 DEF BirthTypeOK
<1>8. BirthTypeOK'
  <2>1. /\ owners' \in [Objects -> SUBSET ({"maker", "native"} \cup Wrappers)]
        /\ kept' \in [Wrappers -> SUBSET {"variable", "frame", "float"}]
        /\ slot' \in [Makers -> Wrappers \cup {NoWrapper}] /\ floating' \subseteq Objects
    BY <1>1, <1>2 DEF BirthTypeOK
  <2> QED BY <1>1, <1>2, <1>3, <1>4, <2>1 DEF BirthTypeOK
<1>9. Owned'
  <2>1. ASSUME NEW p \in Objects, p # o
        PROVE  (/\ class[p] # NoClass <=> owners[p] # {}
                /\ qwrap[p] # NoWrapper =>
                     /\ class[p] # NoClass
                     /\ \/ qwrap[p] \in owners[p]
                        \/ \E u, i : On(u, i) /\ F(u, i).kind = "construct" /\ F(u, i).obj = p /\ F(u, i).w = qwrap[p])'
    BY <1>2, <1>3, <1>5, <1>7, <2>1 DEF Owned
  <2>2. class'[o] # NoClass /\ owners'[o] # {} /\ qwrap'[o] \in owners'[o]
    BY <1>1, <1>2, <1>3, <1>7, AbsentAssumption
  <2> QED BY <2>1, <2>2 DEF Owned
<1>10. Done'
  BY <1>1, <1>2, <1>4, <1>5 DEF Done
<1>11. \A u, i : On(u, i) /\ ~(u = t /\ i = n) => F(u, i).obj # o /\ F(u, i).w # w
  <2>1. ASSUME NEW u, NEW i, On(u, i), ~(u = t /\ i = n)
        PROVE  F(u, i).obj # o /\ F(u, i).w # w
    <3>1. PICK g \in Frames : g = F(u, i)
      BY <2>1, FrameTypes
    <3>2. g.kind \in {"construct", "init", "wrap"} /\ FrameOK(u, i) /\ g.w # w
      BY <1>1, <1>2, <2>1, <3>1 DEF Frames, Framed, Once
    <3>3. g.kind = "init" => g.obj # o
      BY <1>1, <1>2, <3>1, <3>2 DEF FrameOK
    <3>4. g.kind # "init" => g.obj # o
      BY <1>1, <2>1, <3>1, <3>2 DEF Once
    <3> QED BY <3>1, <3>2, <3>3, <3>4
  <2> QED BY <2>1
<1>12. Slots'
  <2>1. ASSUME NEW u \in Makers, u # t, slot[u] # NoWrapper
        PROVE  bound'[slot[u]] = NoObject /\ \E i : On(u, i)' /\ F(u, i)'.kind = "construct" /\ F(u, i)'.w = slot[u]
    <3>1. PICK i : On(u, i) /\ F(u, i).kind = "construct" /\ F(u, i).w = slot[u] /\ bound[slot[u]] = NoObject
      BY <2>1 DEF Slots
    <3>2. slot[u] \in Wrappers /\ slot[u] # w
      BY <1>11, <2>1, <3>1 DEF BirthTypeOK
    <3> QED BY <1>3, <1>6, <2>1, <3>1, <3>2
  <2> QED BY <1>7, <2>1 DEF Slots
<1>13. ASSUME NEW u, NEW i, On(u, i)'
       PROVE  FrameOK(u, i)'
  <2>1. On(u, i) /\ F(u, i)' = F(u, i) /\ u \in Makers /\ ~(u = t /\ i = n)
    BY <1>6, <1>13 DEF On
  <2>2. Apart(u, i, o, w)
    BY <1>11, <2>1 DEF Apart
  <2>3. /\ \A v \in Wrappers : v # w => ("frame" \in kept[v] => "frame" \in kept'[v]) /\ bound'[v] = bound[v]
        /\ \A v \in Wrappers : v = qwrap[F(u, i).obj] /\ "float" \in kept[v] => "float" \in kept'[v]
        /\ \A p \in Objects : p # o => class'[p] = class[p] /\ qwrap'[p] = qwrap[p] /\ inits'[p] = inits[p]
    BY <1>2, <1>3, <1>4, <1>7
  <2>4. u = t => F(u, i).stage = "rest" \/ Begun(F(u, i))
    BY <1>1, <2>1, SettledFrame DEF Popped
  <2>5. u # t => slot'[u] = slot[u] /\ stack'[u] = stack[u]
    BY <1>1, <1>7, <2>1 DEF Popped
  <2>6. (slot'[u] = slot[u] /\ Len(stack'[u]) = Len(stack[u])) \/ F(u, i).stage = "rest" \/ Begun(F(u, i))
    BY <2>4, <2>5
  <2> QED BY <2>1, <2>2, <2>3, <2>6, OtherFrame
<1> QED BY <1>3, <1>6, <1>8, <1>9, <1>10, <1>12, <1>13 DEF Framed
\* Nothing else waits on a thread that may start something.
LEMMA PushedFrames ==
  ASSUME BirthInv, ~Reentrant, NEW t \in Makers, Runs(t), NEW n, NEW f \in Frames, Pushed(t, n, f)
  PROVE  \A u, i : On(u, i) => /\ On(u, i)' /\ F(u, i)' = F(u, i) /\ u \in Makers
                               /\ \/ u # t /\ Len(stack'[u]) = Len(stack[u])
                                  \/ F(u, i).stage = "rest" \/ Begun(F(u, i))
<1> SUFFICES ASSUME NEW u, NEW i, On(u, i)
             PROVE  /\ On(u, i)' /\ F(u, i)' = F(u, i) /\ u \in Makers
                    /\ \/ u # t /\ Len(stack'[u]) = Len(stack[u])
                       \/ F(u, i).stage = "rest" \/ Begun(F(u, i))
  OBVIOUS
<1>1. On(u, i)' /\ F(u, i)' = F(u, i) /\ u \in Makers
  BY DEF Pushed, On
<1>2. CASE u # t
  BY <1>1, <1>2 DEF Pushed
<1>3. CASE u = t /\ i # Len(stack[t])
  BY <1>1, <1>3, SettledFrame
<1>4. CASE u = t /\ i = Len(stack[t])
  <2>1. stack[t] # << >>
    BY <1>4 DEF On
  <2>2. F(u, i) = Top(t) /\ Top(t) \in Frames
    BY <1>4, <2>1, TopPlace DEF BirthInv
  <2>3. Top(t).stage # "parents"
    BY <2>1 DEF Runs, Busy
  <2> QED BY <1>1, <2>2, <2>3 DEF Frames
<1> QED BY <1>1, <1>2, <1>3, <1>4

\* pygobject_new_full is about to allocate a wrapper.
LEMMA BeginWrapStep ==
  ASSUME BirthInv, ~Reentrant, NEW t \in Makers, NEW o \in Objects, BeginWrap(t, o)
  PROVE  BirthInv'
<1> USE DEF BirthInv
<1>1. PICK f : f = [kind |-> "wrap", w |-> NoWrapper, obj |-> o, left |-> 0, stage |-> "rest"]
  OBVIOUS
<1>2. f \in Frames /\ f.kind = "wrap" /\ f.w = NoWrapper /\ f.obj = o /\ f.stage = "rest"
  BY <1>1 DEF Frames
<1>3. /\ \E n : Pushed(t, n, f)
      /\ stack' \in [Makers -> Seq(Frames)] /\ \A u \in Makers : Len(stack'[u]) <= MaxDepth
  BY <1>1, <1>2, PushPlaces DEF BeginWrap
<1>4. PICK n : Pushed(t, n, f)
  BY <1>3
<1>5. /\ UNCHANGED <<slot, class, floating, owners, qwrap, inits, bound, kept, dict>>
      /\ class[o] # NoClass /\ qwrap[o] = NoWrapper /\ Runs(t)
  BY DEF BeginWrap
<1>6. \A u, i : On(u, i) => F(u, i).obj # o
  BY InFramePlaces DEF BeginWrap
<1>7. \A u, i : On(u, i) => /\ On(u, i)' /\ F(u, i)' = F(u, i) /\ u \in Makers
                            /\ \/ u # t /\ Len(stack'[u]) = Len(stack[u])
                               \/ F(u, i).stage = "rest" \/ Begun(F(u, i))
  BY <1>2, <1>4, <1>5, PushedFrames
<1>8. /\ \A u, i : On(u, i)' <=> On(u, i) \/ (u = t /\ i = n)
      /\ F(t, n)' = f /\ ~On(t, n)
  BY <1>4 DEF Pushed
<1>9. BirthTypeOK' /\ Bonds'
  BY <1>3, <1>5 DEF BirthTypeOK, Bonds
<1>10. Once'
  BY <1>2, <1>6, <1>7, <1>8 DEF Once
<1>11. Owned' /\ Done'
  <2>1. \A p : Constructing(p) => Constructing(p)'
    BY <1>7 DEF Constructing
  <2>2. Done'
    BY <1>5, <2>1 DEF Done
  <2>3. Owned'
    BY <1>5, <1>7 DEF Owned
  <2> QED BY <2>2, <2>3
<1>12. Slots'
  BY <1>5, <1>7 DEF Slots
<1>13. ASSUME NEW u, NEW i, On(u, i)
       PROVE  FrameOK(u, i)'
  <2>1. PICK p, v : Apart(u, i, p, v)
    <3>1. "maker" # "native"
      OBVIOUS
    <3> QED BY <3>1 DEF Apart
  <2>2. F(u, i)' = F(u, i)
    BY <1>7, <1>13
  <2>3. (slot'[u] = slot[u] /\ Len(stack'[u]) = Len(stack[u])) \/ F(u, i).stage = "rest" \/ Begun(F(u, i))
    BY <1>5, <1>7, <1>13
  <2> QED BY <1>5, <1>13, <2>1, <2>2, <2>3, OtherFrame
<1>14. FrameOK(t, n)'
  BY <1>2, <1>5, <1>8 DEF FrameOK
<1> QED BY <1>8, <1>9, <1>10, <1>11, <1>12, <1>13, <1>14 DEF Framed

\* g_object_newv allocates an object, for a wrapper or for native code.
LEMMA CreateStep ==
  ASSUME BirthInv, ~Reentrant, NEW t \in Makers, Runs(t), NEW w \in Wrappers \cup {NoWrapper},
         NEW o \in Objects, NEW c \in Classes, Create(t, w, o, c),
         w # NoWrapper => Unused(w) /\ kept' = [kept EXCEPT ![w] = {"frame"}] /\ slot' = [slot EXCEPT ![t] = w],
         w = NoWrapper => kept' = kept /\ slot' = slot /\ (Levels[c] > 0 => slot[t] = NoWrapper),
         dict' \subseteq Wrappers
  PROVE  BirthInv'
<1> USE DEF BirthInv
<1>1. PICK f : f = [kind |-> "construct", w |-> w, obj |-> o, left |-> Levels[c], stage |-> "parents"]
  OBVIOUS
<1>2. /\ f \in Frames /\ f.kind = "construct" /\ f.w = w /\ f.obj = o /\ f.stage = "parents"
      /\ f.left = Levels[c] /\ Levels[c] \in Nat
  BY <1>1, LevelsAssumption DEF Frames
<1>3. /\ \E n : Pushed(t, n, f)
      /\ stack' \in [Makers -> Seq(Frames)] /\ \A u \in Makers : Len(stack'[u]) <= MaxDepth
  BY <1>1, <1>2, PushPlaces DEF Create
<1>4. PICK n : Pushed(t, n, f)
  BY <1>3
<1>5. /\ class[o] = NoClass /\ qwrap[o] = NoWrapper
      /\ \A u, i : On(u, i) => F(u, i).obj # o
  BY InFramePlaces DEF Create, Owned
<1>6. /\ class' = [class EXCEPT ![o] = c] /\ owners' = [owners EXCEPT ![o] = {"maker"}]
      /\ inits' = [inits EXCEPT ![o] = 0] /\ qwrap' = qwrap /\ bound' = bound
      /\ floating' \subseteq Objects
  BY DEF Create, BirthTypeOK
<1>7. /\ class'[o] = c /\ owners'[o] = {"maker"} /\ inits'[o] = 0 /\ c # NoClass
      /\ \A p \in Objects : p # o => class'[p] = class[p] /\ owners'[p] = owners[p] /\ inits'[p] = inits[p]
  BY <1>6, AbsentAssumption DEF BirthTypeOK
<1>8. /\ w # NoWrapper => bound[w] = NoObject /\ kept[w] = {} /\ w \in Wrappers /\ kept'[w] = {"frame"} /\ slot'[t] = w
      /\ \A v \in Wrappers : v # w => kept'[v] = kept[v]
      /\ \A v \in Wrappers : kept[v] \subseteq kept'[v]
      /\ \A u \in Makers : u # t => slot'[u] = slot[u]
      /\ w = NoWrapper => slot'[t] = slot[t]
      /\ kept' \in [Wrappers -> SUBSET {"variable", "frame", "float"}]
      /\ slot' \in [Makers -> Wrappers \cup {NoWrapper}]
  <2>1. CASE w = NoWrapper
    <3>1. kept' = kept /\ slot' = slot /\ w \notin Wrappers
      BY <2>1, AbsentAssumption
    <3> QED BY <2>1, <3>1 DEF BirthTypeOK
  <2>2. CASE w # NoWrapper
    <3>1. /\ w \in Wrappers /\ bound[w] = NoObject /\ kept[w] = {}
          /\ kept' = [kept EXCEPT ![w] = {"frame"}] /\ slot' = [slot EXCEPT ![t] = w]
      BY <2>2 DEF Unused
    <3>2. kept'[w] = {"frame"} /\ \A v \in Wrappers : v # w => kept'[v] = kept[v]
      BY <3>1 DEF BirthTypeOK
    <3>3. slot'[t] = w /\ \A u \in Makers : u # t => slot'[u] = slot[u]
      BY <3>1 DEF BirthTypeOK
    <3>4. kept' \in [Wrappers -> SUBSET {"variable", "frame", "float"}] /\ slot' \in [Makers -> Wrappers \cup {NoWrapper}]
      BY <3>1 DEF BirthTypeOK
    <3>5. \A v \in Wrappers : kept[v] \subseteq kept'[v]
      BY <3>1, <3>2
    <3> QED BY <2>2, <3>1, <3>2, <3>3, <3>4, <3>5
  <2> QED BY <2>1, <2>2
<1>9. \A u, i : On(u, i) => /\ On(u, i)' /\ F(u, i)' = F(u, i) /\ u \in Makers
                            /\ \/ u # t /\ Len(stack'[u]) = Len(stack[u])
                               \/ F(u, i).stage = "rest" \/ Begun(F(u, i))
  BY <1>2, <1>4, PushedFrames
<1>10. /\ \A u, i : On(u, i)' <=> On(u, i) \/ (u = t /\ i = n)
       /\ F(t, n)' = f /\ ~On(t, n) /\ n = Len(stack'[t]) /\ On(t, n)'
  BY <1>4 DEF Pushed
<1>11. w # NoWrapper => \A u, i : On(u, i) => F(u, i).w # w
  BY <1>8 DEF Framed, FrameOK
<1>12. BirthTypeOK' /\ Bonds'
  <2>1. /\ class' \in [Objects -> Classes \cup {NoClass}]
        /\ owners' \in [Objects -> SUBSET ({"maker", "native"} \cup Wrappers)] /\ inits' \in [Objects -> Nat]
    BY <1>6 DEF BirthTypeOK
  <2> QED BY <1>3, <1>6, <1>8, <2>1 DEF BirthTypeOK, Bonds
<1>13. Once'
  BY <1>2, <1>5, <1>9, <1>10, <1>11 DEF Once
<1>14. Owned'
  <2>1. ASSUME NEW p \in Objects, p # o
        PROVE  (/\ class[p] # NoClass <=> owners[p] # {}
                /\ qwrap[p] # NoWrapper =>
                     /\ class[p] # NoClass
                     /\ \/ qwrap[p] \in owners[p]
                        \/ \E u, i : On(u, i) /\ F(u, i).kind = "construct" /\ F(u, i).obj = p /\ F(u, i).w = qwrap[p])'
    BY <1>6, <1>7, <1>9, <2>1 DEF Owned
  <2> QED BY <1>5, <1>6, <1>7, <2>1 DEF Owned
<1>15. Done'
  <2>1. \A p : Constructing(p) \/ p = o => Constructing(p)'
    BY <1>2, <1>9, <1>10 DEF Constructing
  <2> QED BY <1>7, <2>1 DEF Done
<1>16. Slots'
  <2>1. ASSUME NEW u \in Makers, slot[u] # NoWrapper
        PROVE  bound[slot[u]] = NoObject /\ \E i : On(u, i)' /\ F(u, i)'.kind = "construct" /\ F(u, i)'.w = slot[u]
    BY <1>9, <2>1 DEF Slots
  <2>2. w # NoWrapper => bound[w] = NoObject /\ \E i : On(t, i)' /\ F(t, i)'.kind = "construct" /\ F(t, i)'.w = w
    BY <1>2, <1>8, <1>10
  <2> QED BY <1>6, <1>8, <2>1, <2>2 DEF Slots
<1>17. ASSUME NEW u, NEW i, On(u, i)
       PROVE  FrameOK(u, i)'
  <2>1. PICK v : Apart(u, i, o, v) /\ (w = NoWrapper \/ v = w)
    <3>1. "maker" # "native"
      OBVIOUS
    <3> QED BY <1>5, <1>11, <1>17, <3>1 DEF Apart
  <2>2. F(u, i)' = F(u, i)
    BY <1>9, <1>17
  <2>3. (slot'[u] = slot[u] /\ Len(stack'[u]) = Len(stack[u])) \/ F(u, i).stage = "rest" \/ Begun(F(u, i))
    BY <1>8, <1>9, <1>17
  <2>4. /\ \A p \in Objects : p # o => class'[p] = class[p] /\ qwrap'[p] = qwrap[p] /\ inits'[p] = inits[p]
        /\ \A x \in Wrappers : x # v => ("frame" \in kept[x] => "frame" \in kept'[x]) /\ bound'[x] = bound[x]
        /\ \A x \in Wrappers : x = qwrap[F(u, i).obj] /\ "float" \in kept[x] => "float" \in kept'[x]
    BY <1>6, <1>7, <1>8
  <2> QED BY <1>17, <2>1, <2>2, <2>3, <2>4, OtherFrame
<1>18. FrameOK(t, n)'
  <2>1. ~Begun(f)'
    BY <1>2, <1>7 DEF Begun
  <2>2. Waits(t, n)'
    <3>1. f.left > 0 => slot'[t] = f.w
      BY <1>2, <1>8
    <3> QED BY <1>2, <1>5, <1>6, <1>8, <1>10, <3>1 DEF Waits
  <2>3. ConstructFrame(t, n)'
    BY <1>2, <1>7, <1>10, <2>1, <2>2 DEF ConstructFrame
  <2> QED BY <1>2, <1>7, <1>8, <1>10, <2>3 DEF FrameOK
<1> QED BY <1>10, <1>12, <1>13, <1>14, <1>15, <1>16, <1>17, <1>18 DEF Framed

LEMMA PyConstructStep ==
  ASSUME BirthInv, ~Reentrant, NEW t \in Makers, NEW w \in Wrappers, NEW o \in Objects, NEW c \in Classes,
         NEW attributes \in BOOLEAN, PyConstruct(t, w, o, c, attributes)
  PROVE  BirthInv'
<1>1. w # NoWrapper /\ dict' \subseteq Wrappers
  BY AbsentAssumption DEF PyConstruct, BirthInv, BirthTypeOK
<1> QED BY <1>1, CreateStep DEF PyConstruct

\* Native code does not construct an object of a class written in Python while the slot is taken.
LEMMA NativeConstructStep ==
  ASSUME BirthInv, ~Reentrant, NEW t \in Makers, NEW o \in Objects, NEW c \in Classes, NativeConstruct(t, o, c)
  PROVE  BirthInv'
<1>1. Levels[c] > 0 => slot[t] = NoWrapper
  <2> SUFFICES ASSUME Levels[c] > 0, slot[t] # NoWrapper
               PROVE  FALSE
    OBVIOUS
  <2>1. ~Unbound(t)
    BY DEF NativeConstruct
  <2>2. PICK i : On(t, i) /\ F(t, i).w = slot[t] /\ bound[slot[t]] = NoObject
    BY DEF BirthInv, Slots
  <2>3. i \in DOMAIN stack[t]
    BY <2>2, Stacked DEF On, BirthInv
  <2> QED BY <2>1, <2>2, <2>3 DEF Unbound, F
<1>2. dict' \subseteq Wrappers /\ kept' = kept /\ slot' = slot
  BY DEF NativeConstruct, BirthInv, BirthTypeOK
<1> QED BY <1>1, <1>2, CreateStep DEF NativeConstruct

LEMMA StutterBirth ==
  ASSUME BirthInv, UNCHANGED birthvars
  PROVE  BirthInv'
<1>1. BirthTypeOK'
  BY DEF birthvars, BirthInv, BirthTypeOK
<1> QED BY <1>1, QuietStep DEF birthvars

LEMMA NextBirth ==
  ASSUME BirthInv, ~Reentrant, [BirthNext]_birthvars
  PROVE  BirthInv'
<1>1. ASSUME NEW t \in Makers,
             \/ TakeSlot(t) \/ HasWrapper(t) \/ InitReturns(t) \/ Initialised(t) \/ ConstructorSinks(t)
             \/ PyConstructed(t) \/ NativeConstructed(t)
      PROVE  BirthInv'
  BY <1>1, TakeSlotStep, HasWrapperStep, InitReturnsStep, InitialisedStep, ConstructorSinksStep,
     PyConstructedStep, NativeConstructedStep
<1>2. ASSUME NEW t \in Makers, NEW o \in Objects,
             Fetch(t, o) \/ BeginWrap(t, o) \/ \E c \in Classes : NativeConstruct(t, o, c)
      PROVE  BirthInv'
  BY <1>2, FetchStep, BeginWrapStep, NativeConstructStep
<1>3. ASSUME NEW t \in Makers, NEW w \in Wrappers,
             \/ Orphan(t, w) \/ EndWrap(t, w) \/ SetAttr(t, w) \/ Keep(t, w) \/ Drop(t, w) \/ NativeRef(t, w)
             \/ \E o \in Objects, c \in Classes, attributes \in BOOLEAN : PyConstruct(t, w, o, c, attributes)
      PROVE  BirthInv'
  BY <1>3, OrphanStep, EndWrapStep, UsesStep, PyConstructStep
<1>4. ASSUME BirthNext
      PROVE  BirthInv'
  BY <1>1, <1>2, <1>3, <1>4, NativeUnrefStep, DeallocStep DEF BirthNext
<1> QED BY <1>4, StutterBirth
-----------------------------------------------------------------------------
(* The theorems *)

(***************************************************************************)
(* The invariant holds of every state of a process in which no object gets *)
(* to Python before it has its wrapper: what pygobject_constructv, the     *)
(* instance initialisers, pygobject_new_full and the Python code that runs *)
(* inside them do to the slot, the objects and the wrappers keeps it.      *)
(***************************************************************************)
THEOREM BirthInvariance ==
  ASSUME ~Reentrant
  PROVE  BirthSpec => []BirthInv
<1>1. BirthInit => BirthInv
  BY InitBirth
<1>2. BirthInv /\ [BirthNext]_birthvars => BirthInv'
  BY NextBirth
<1> QED BY <1>1, <1>2, PTL DEF BirthSpec

(***************************************************************************)
(* A wrapper is bound to the object it constructed, and no object has two  *)
(* wrappers, however constructors nest and threads interleave.             *)
(***************************************************************************)
THEOREM OwnObjectAlways ==
  ASSUME ~Reentrant
  PROVE  BirthSpec => []OwnObject
<1>1. ASSUME BirthInv PROVE OwnObject
  <2>1. \A w \in Wrappers : bound[w] # NoObject => qwrap[bound[w]] = w
    BY <1>1 DEF BirthInv, BirthTypeOK, Bonds
  <2>2. ASSUME NEW t \in Makers, NEW i \in DOMAIN stack[t], NEW f, f = stack[t][i],
               f.kind = "construct", f.w # NoWrapper
        PROVE  bound[f.w] = IF Levels[class[f.obj]] > f.left THEN f.obj ELSE NoObject
    <3>1. On(t, i) /\ f = F(t, i)
      BY <1>1, <2>2, Stacked DEF BirthInv, On, F
    <3>2. f \in Frames /\ ConstructFrame(t, i)
      BY <1>1, <2>2, <3>1, FrameTypes DEF BirthInv, Framed, FrameOK
    <3>3. f.left \in Nat /\ f.w \in Wrappers /\ f.obj \in Objects /\ class[f.obj] # NoClass
      BY <1>1, <2>2, <3>1, <3>2 DEF Frames, BirthInv, Framed, FrameOK
    <3>4. Levels[class[f.obj]] \in Nat
      BY <1>1, <3>3, LevelsAssumption DEF BirthInv, BirthTypeOK
    <3>5. CASE Begun(f)
      BY <1>1, <2>2, <3>1, <3>2, <3>3, <3>4, <3>5 DEF ConstructFrame, Begun, BirthInv, Bonds
    <3>6. CASE ~Begun(f)
      BY <2>2, <3>1, <3>2, <3>3, <3>4, <3>6 DEF ConstructFrame, Begun, Waits
    <3> QED BY <3>5, <3>6
  <2> QED BY <2>1, <2>2 DEF OwnObject
<1> QED BY <1>1, BirthInvariance, PTL

(***************************************************************************)
(* __init__ has been run exactly once for an object of a class written in  *)
(* Python when its constructor returns, by the instance initialiser that   *)
(* binds the constructor's wrapper or that makes an orphan.                *)
(***************************************************************************)
THEOREM InitialisedOnceAlways ==
  ASSUME ~Reentrant
  PROVE  BirthSpec => []InitialisedOnce
<1>1. ASSUME BirthInv PROVE InitialisedOnce
  <2>1. ASSUME NEW o \in Objects, Constructing(o)
        PROVE  \E t \in Makers : \E i \in DOMAIN stack[t] : stack[t][i].kind = "construct" /\ stack[t][i].obj = o
    BY <1>1, <2>1, Stacked DEF BirthInv, Constructing, On, F
  <2> QED BY <1>1, <2>1 DEF BirthInv, Done, InitialisedOnce
<1> QED BY <1>1, BirthInvariance, PTL

(***************************************************************************)
(* The object of a constructor, of an orphan's __init__ and of an          *)
(* allocation in pygobject_new_full is there until they return.            *)
(***************************************************************************)
THEOREM StillThereAlways ==
  ASSUME ~Reentrant
  PROVE  BirthSpec => []StillThere
<1>1. ASSUME BirthInv PROVE StillThere
  <2>1. ASSUME NEW t \in Makers, NEW i \in DOMAIN stack[t]
        PROVE  class[stack[t][i].obj] # NoClass /\ owners[stack[t][i].obj] # {}
    <3>1. On(t, i) /\ F(t, i) = stack[t][i]
      BY <1>1, <2>1, Stacked DEF BirthInv, On, F
    <3>2. class[F(t, i).obj] # NoClass /\ F(t, i).obj \in Objects
      BY <1>1, <3>1, FrameTypes DEF BirthInv, Framed, FrameOK, Frames
    <3> QED BY <1>1, <3>1, <3>2 DEF BirthInv, Owned
  <2> QED BY <2>1 DEF StillThere
<1> QED BY <1>1, BirthInvariance, PTL

-----------------------------------------------------------------------------
(***************************************************************************)
(* WeakRef, for any number of GObjects, bindings and weak references: what *)
(* GLib and Python know of each other agrees in the middle of a dispose    *)
(* too, as long as programs are not Careless and memory that is not        *)
(* initialised reads as zero (Garbage).                                    *)
(***************************************************************************)

-----------------------------------------------------------------------------
(* The inductive invariant *)

\* An object is disposed of while it is there, and owned only then.
Lives ==
  \A o \in Targets :
    /\ todo[o] # {} => life[o] = "disposing"
    /\ holders[o] # {} => life[o] \in {"alive", "disposing"}

\* A weak reference is on one list of one object.
OneList ==
  /\ \A o \in Targets : weak[o] \cap todo[o] = {}
  /\ \A o, p \in Targets : o # p => (weak[o] \cup todo[o]) \cap (weak[p] \cup todo[p]) = {}

\* A notification that waits for the GIL is in the middle of a dispose, has a callback, and has
\* forgotten the object.
InNotification ==
  \A r \in waiting : /\ target[r] = NoTarget /\ r \in callback /\ fate[r] \in {"due", "called"}
                     /\ \E o \in Targets : r \in todo[o]

\* Those that keep themselves are those whose callback nobody has called off.
Floating == \A r \in Refs : floats[r] <=> r \in callback /\ fate[r] # "unreffed"

\* What Python has deallocated has neither object nor callback.
Gone == \A r \in Refs : ~Exists(r) => target[r] = NoTarget /\ r \notin callback

\* A callback is due until it is called, by its notification, or called off.
Fates ==
  \A r \in Refs :
    /\ r \in callback => fate[r] # "none" /\ (fate[r] = "called" => r \in waiting)
    /\ fate[r] = "unreffed" => target[r] = NoTarget

\* KeepsItself, in arithmetic that the provers know.
B(b) == IF b THEN 1 ELSE 0
Keeps == \A r \in Refs : pyrefs[r] = B(r \in named) + B(r \in callback /\ fate[r] # "unreffed")

DeathInv ==
  /\ DeathTypeOK /\ Registered /\ Keeps /\ CalledUnlessUnreffed
  /\ Lives /\ OneList /\ InNotification /\ Floating /\ Gone /\ Fates

LEMMA MemberCount ==
  ASSUME NEW r, NEW S
  PROVE  Cardinality({r} \cap S) = B(r \in S)
<1>1. CASE r \in S
  <2>1. {r} \cap S = {r}
    BY <1>1
  <2> QED BY <1>1, <2>1, FS_Singleton DEF B
<1>2. CASE r \notin S
  <2>1. {r} \cap S = {}
    BY <1>2
  <2> QED BY <1>2, <2>1, FS_EmptySet DEF B
<1> QED BY <1>1, <1>2

LEMMA KeepsCounts == Keeps => KeepsItself
<1> SUFFICES ASSUME Keeps, NEW r \in Refs
             PROVE  pyrefs[r] = Cardinality({r} \cap named)
                                + Cardinality({r} \cap {s \in callback : fate[s] # "unreffed"})
  BY DEF KeepsItself
<1>1. Cardinality({r} \cap named) = B(r \in named)
  BY MemberCount
<1>2. Cardinality({r} \cap {s \in callback : fate[s] # "unreffed"})
        = B(r \in callback /\ fate[r] # "unreffed")
  <2>1. r \in {s \in callback : fate[s] # "unreffed"} <=> r \in callback /\ fate[r] # "unreffed"
    OBVIOUS
  <2> QED BY <2>1, MemberCount DEF B
<1> QED BY <1>1, <1>2 DEF Keeps

-----------------------------------------------------------------------------
(* What a step does *)

LEMMA InitDeath == DeathInit => DeathInv
BY NoTargetAssumption DEF DeathInit, DeathInv, DeathTypeOK, Registered, Keeps, B, CalledUnlessUnreffed,
   Lives, OneList, InNotification, Floating, Gone, Fates, Exists

LEMMA BornStep ==
  ASSUME DeathInv, NEW o \in Targets, Born(o)
  PROVE  DeathInv'
<1> USE DEF DeathInv, Born
<1>1. DeathTypeOK'
  BY DEF DeathTypeOK
<1>2. Registered'
  BY NoTargetAssumption DEF Registered, Exists, DeathTypeOK
<1>3. Keeps'
  BY DEF Keeps, B
<1>4. CalledUnlessUnreffed'
  BY DEF CalledUnlessUnreffed
<1>5. Lives'
  BY DEF Lives, DeathTypeOK
<1>6. (OneList /\ InNotification /\ Floating /\ Gone /\ Fates)'
  BY DEF OneList, InNotification, Floating, Gone, Fates, Exists
<1> QED BY <1>1, <1>2, <1>3, <1>4, <1>5, <1>6

\* pygobject_weak_ref_new, pygbinding_weak_ref_new
LEMMA NewWeakRefStep ==
  ASSUME DeathInv, Garbage \subseteq {FALSE}, NEW r \in Refs, NEW o \in Targets,
         NEW calls \in BOOLEAN, NEW garbage \in Garbage, NewWeakRef(r, o, calls, garbage)
  PROVE  DeathInv'
<1> USE DEF DeathInv, NewWeakRef, Fresh
<1>0. garbage = FALSE
  OBVIOUS
<1>1. DeathTypeOK'
  BY <1>0 DEF DeathTypeOK
<1>2. Registered'
  BY NoTargetAssumption, BindingsAssumption DEF Registered, Exists, DeathTypeOK, Lives, InNotification
<1>3. Keeps'
  BY DEF Keeps, B, DeathTypeOK, Gone, Exists
<1>4. CalledUnlessUnreffed'
  <2>1. r \notin waiting /\ r \notin callback
    BY DEF InNotification, Gone
  <2>2. \A s \in Refs, p \in Targets :
          s \in weak'[p] \cup todo'[p] <=> s \in weak[p] \cup todo[p] \/ (s = r /\ p = o)
    BY DEF DeathTypeOK
  <2>3. /\ r \in callback' <=> calls
        /\ fate'[r] = (IF calls THEN "due" ELSE "none")
        /\ \A s \in Refs \ {r} : fate'[s] = fate[s] /\ (s \in callback' <=> s \in callback)
    BY <2>1 DEF DeathTypeOK
  <2> QED BY <2>1, <2>2, <2>3 DEF CalledUnlessUnreffed
<1>5. Lives'
  BY DEF Lives
<1>6. OneList'
  BY DEF OneList, DeathTypeOK
<1>7. InNotification'
  BY DEF InNotification, DeathTypeOK
<1>8. (Floating /\ Gone /\ Fates)'
  BY <1>0 DEF Floating, Gone, Fates, Exists, DeathTypeOK
<1> QED BY <1>1, <1>2, <1>3, <1>4, <1>5, <1>6, <1>7, <1>8

LEMMA AnswerStep ==
  ASSUME DeathInv, NEW r \in Refs, Answer(r)
  PROVE  DeathInv'
<1> USE DEF DeathInv, Answer
<1>1. DeathTypeOK'
  BY DEF DeathTypeOK
<1>2. Lives'
  BY DEF Lives, DeathTypeOK, Registered
<1>3. (Registered /\ Keeps /\ CalledUnlessUnreffed /\ OneList)'
  BY DEF Registered, Exists, Keeps, B, CalledUnlessUnreffed, OneList
<1>4. (InNotification /\ Floating /\ Gone /\ Fates)'
  BY DEF InNotification, Floating, Gone, Fates, Exists
<1> QED BY <1>1, <1>2, <1>3, <1>4

\* A weak reference that knows its object, and may be given up, is to be notified of nothing yet.
LEMMA OnGLibsList ==
  ASSUME DeathInv, ~Careless, NEW r \in Refs, target[r] # NoTarget, Linked(r)
  PROVE  /\ target[r] \in Targets /\ r \in weak[target[r]] /\ r \notin waiting /\ Exists(r)
         /\ \A o \in Targets : r \notin todo[o] /\ (r \in weak[o] => o = target[r])
BY DEF DeathInv, DeathTypeOK, Linked, InNotification, OneList, Registered

\* pygobject_weak_ref_unref
LEMMA UnrefStep ==
  ASSUME DeathInv, ~Careless, NEW r \in Refs, Unref(r)
  PROVE  DeathInv'
<1> USE DEF DeathInv, Unref, Unregister
<1>0. /\ target[r] \in Targets /\ r \in weak[target[r]] /\ r \notin waiting /\ Exists(r)
      /\ \A o \in Targets : r \notin todo[o] /\ (r \in weak[o] => o = target[r])
  BY OnGLibsList
<1>a. pyrefs[r] = 1 + B(floats[r]) /\ (r \in callback <=> floats[r])
  BY <1>0 DEF Keeps, Floating, B, CalledUnlessUnreffed, DeathTypeOK, Fates
<1>b. /\ pyrefs' = [pyrefs EXCEPT ![r] = 1]
      /\ callback' = callback
  BY <1>a DEF PyDecref, B, DeathTypeOK
<1>1. DeathTypeOK'
  BY <1>0, <1>b DEF DeathTypeOK
<1>2. Registered'
  BY <1>0, <1>b, NoTargetAssumption DEF Registered, Exists, DeathTypeOK
<1>3. Keeps'
  <2>1. r \in callback => fate'[r] = "unreffed"
    BY <1>0, <1>a DEF Floating, Fates, DeathTypeOK
  <2>2. pyrefs'[r] = 1 /\ r \in named' /\ callback' = callback
    BY <1>b DEF DeathTypeOK
  <2>3. \A s \in Refs \ {r} : pyrefs'[s] = pyrefs[s] /\ fate'[s] = fate[s]
    BY <1>b DEF DeathTypeOK
  <2> QED BY <2>1, <2>2, <2>3 DEF Keeps, B
<1>4. CalledUnlessUnreffed'
  BY <1>0, <1>b DEF CalledUnlessUnreffed, DeathTypeOK
<1>5. Lives' /\ OneList'
  BY <1>0 DEF Lives, OneList, DeathTypeOK
<1>6. InNotification'
  BY <1>0, <1>b DEF InNotification, DeathTypeOK
<1>7. (Floating /\ Gone /\ Fates)'
  BY <1>0, <1>a, <1>b DEF Floating, Gone, Fates, Exists, DeathTypeOK
<1> QED BY <1>1, <1>2, <1>3, <1>4, <1>5, <1>6, <1>7

\* pygobject_weak_ref_dealloc, the last time.
LEMMA ForgetStep ==
  ASSUME DeathInv, ~Careless, NEW r \in Refs, Forget(r)
  PROVE  DeathInv'
<1> USE DEF DeathInv, Forget, PyDecref
<1>1. CASE pyrefs[r] = 1 /\ target[r] # NoTarget
  <2>0. /\ target[r] \in Targets /\ r \in weak[target[r]] /\ r \notin waiting
        /\ \A o \in Targets : r \notin todo[o] /\ (r \in weak[o] => o = target[r])
        /\ r \notin callback
    BY <1>1, OnGLibsList DEF Keeps, B, Fates
  <2>1. DeathTypeOK'
    BY <1>1, <2>0 DEF DeathTypeOK, Unregister
  <2>2. Registered'
    BY <1>1, <2>0, NoTargetAssumption DEF Registered, Exists, DeathTypeOK, Unregister
  <2>3. (Keeps /\ CalledUnlessUnreffed)'
    BY <1>1, <2>0 DEF Keeps, B, DeathTypeOK, CalledUnlessUnreffed, Unregister
  <2>4. (Lives /\ OneList /\ InNotification)'
    BY <1>1, <2>0 DEF Lives, OneList, DeathTypeOK, InNotification, Unregister
  <2>5. (Floating /\ Gone /\ Fates)'
    BY <1>1, <2>0 DEF Floating, Gone, Fates, Exists, DeathTypeOK, Unregister
  <2> QED BY <2>1, <2>2, <2>3, <2>4, <2>5
<1>2. CASE ~(pyrefs[r] = 1 /\ target[r] # NoTarget)
  <2>0. UNCHANGED <<weak, target>>
    BY <1>2
  <2>a. pyrefs[r] = 1 => r \notin callback \/ fate[r] = "unreffed"
    BY DEF Keeps, B
  <2>1. DeathTypeOK'
    BY <2>0 DEF DeathTypeOK, Keeps, B
  <2>2. Registered'
    <3>1. \A s \in Refs : s \in waiting => (pyrefs'[s] > 0)
      BY <2>a DEF Registered, Exists, DeathTypeOK, InNotification, Keeps, B
    <3>2. \A s \in Refs : target[s] # NoTarget => (pyrefs'[s] > 0 <=> pyrefs[s] > 0)
      BY <1>2 DEF DeathTypeOK, Keeps, B
    <3>3. \A s \in Refs, o \in Targets : target[s] = o => target[s] # NoTarget
      BY NoTargetAssumption
    <3> QED BY <2>0, <3>1, <3>2, <3>3 DEF Registered, Exists, DeathTypeOK
  <2>3. Keeps' /\ CalledUnlessUnreffed'
    BY <2>0, <2>a DEF Keeps, B, DeathTypeOK, CalledUnlessUnreffed
  <2>4. (Lives /\ OneList /\ InNotification)'
    BY <2>0, <2>a DEF Lives, OneList, DeathTypeOK, InNotification
  <2>5. (Floating /\ Gone /\ Fates)'
    BY <1>2, <2>0, <2>a DEF Floating, Gone, Fates, Exists, DeathTypeOK, Keeps, B
  <2> QED BY <2>1, <2>2, <2>3, <2>4, <2>5
<1> QED BY <1>1, <1>2

-----------------------------------------------------------------------------
(* The dispose, and its notifications *)

\* An owner goes: an object without another is disposed of.
LEMMA LosesStep ==
  ASSUME DeathInv, NEW o \in Targets, NEW who \in {"native", "python"}, who \in holders[o], Loses(o, who),
         UNCHANGED <<waiting, target, callback, floats, pyrefs, named, fate>>
  PROVE  DeathInv'
<1> USE DEF DeathInv
<1>1. CASE holders[o] # {who} \/ life[o] = "disposing"
  <2> holders' = [holders EXCEPT ![o] = @ \ {who}] /\ UNCHANGED <<life, weak, todo>>
    BY <1>1 DEF Loses
  <2>1. DeathTypeOK' /\ Lives'
    BY DEF DeathTypeOK, Lives
  <2>2. (Registered /\ Keeps /\ CalledUnlessUnreffed /\ OneList)'
    BY DEF Registered, Exists, Keeps, B, CalledUnlessUnreffed, OneList
  <2>3. (InNotification /\ Floating /\ Gone /\ Fates)'
    BY DEF InNotification, Floating, Gone, Fates, Exists
  <2> QED BY <2>1, <2>2, <2>3
<1>2. CASE ~(holders[o] # {who} \/ life[o] = "disposing")
  <2> /\ holders' = [holders EXCEPT ![o] = {}] /\ life' = [life EXCEPT ![o] = "disposing"]
      /\ todo' = [todo EXCEPT ![o] = weak[o]] /\ weak' = [weak EXCEPT ![o] = {}]
    BY <1>2 DEF Loses
  <2>0. todo[o] = {} /\ life[o] # "unborn"
    BY <1>2 DEF Lives, DeathTypeOK
  <2>a. \A r \in Refs, p \in Targets : r \in weak'[p] \cup todo'[p] <=> r \in weak[p] \cup todo[p]
    BY <2>0 DEF DeathTypeOK
  <2>b. \A r \in weak[o] : r \notin waiting
    <3> SUFFICES ASSUME NEW r \in weak[o], r \in waiting PROVE FALSE
      OBVIOUS
    <3>1. PICK p \in Targets : r \in todo[p]
      BY DEF InNotification
    <3> QED BY <3>1, <2>0 DEF OneList
  <2>1. DeathTypeOK' /\ Lives'
    BY <2>0 DEF DeathTypeOK, Lives
  <2>2. Registered'
    <3>1. \A r \in Refs, p \in Targets :
            r \in weak'[p] \cup (todo'[p] \ waiting) <=> r \in weak[p] \cup (todo[p] \ waiting)
      BY <2>0, <2>b DEF DeathTypeOK
    <3> QED BY <3>1 DEF Registered, Exists, DeathTypeOK
  <2>3. Keeps' /\ CalledUnlessUnreffed'
    BY <2>a DEF Keeps, B, CalledUnlessUnreffed
  <2>4. OneList' /\ InNotification'
    BY <2>0 DEF OneList, InNotification, DeathTypeOK
  <2>5. (Floating /\ Gone /\ Fates)'
    BY DEF Floating, Gone, Fates, Exists
  <2> QED BY <2>1, <2>2, <2>3, <2>4, <2>5
<1> QED BY <1>1, <1>2

\* pygbinding_weak_ref_unbind of a binding that its source and target own.
LEMMA UnbindStep ==
  ASSUME DeathInv, ~Careless, NEW r \in Refs, Unbind(r)
  PROVE  DeathInv'
<1>1. target[r] \in Targets
  BY BindingsAssumption DEF Unbind
<1>2. "native" \in holders[target[r]] /\ Loses(target[r], "native")
  BY DEF Unbind
<1> QED BY <1>1, <1>2, LosesStep DEF Unbind

\* The end of g_object_unref.
LEMMA DisposedStep ==
  ASSUME DeathInv, NEW o \in Targets, Disposed(o)
  PROVE  DeathInv'
<1> USE DEF DeathInv, Disposed
<1>a. \A r \in Refs, p \in Targets : r \in weak'[p] \cup todo'[p] <=> r \in weak[p] \cup todo[p]
  BY DEF DeathTypeOK
<1>b. \A r \in weak[o] : r \notin waiting
  <2> SUFFICES ASSUME NEW r \in weak[o], r \in waiting PROVE FALSE
    OBVIOUS
  <2>1. PICK p \in Targets : r \in todo[p]
    BY DEF InNotification
  <2> QED BY <2>1 DEF OneList
<1>1. DeathTypeOK'
  BY DEF DeathTypeOK
<1>2. Lives'
  BY DEF DeathTypeOK, Lives
<1>3. Registered'
  <2>1. \A r \in Refs, p \in Targets :
          r \in weak'[p] \cup (todo'[p] \ waiting) <=> r \in weak[p] \cup (todo[p] \ waiting)
    BY <1>b DEF DeathTypeOK
  <2>2. \A r \in Refs : target[r] = o => Exists(r) \/ target[r] = NoTarget
    BY DEF Gone
  <2>3. \A r \in Refs : target[r] = o => life'[o] \in {"alive", "disposing"}
    BY <2>2, NoTargetAssumption DEF Registered, DeathTypeOK
  <2> QED BY <2>1, <2>3 DEF Registered, Exists, DeathTypeOK
<1>4. Keeps' /\ CalledUnlessUnreffed'
  BY <1>a DEF Keeps, B, CalledUnlessUnreffed
<1>5. OneList' /\ InNotification'
  BY DEF OneList, InNotification, DeathTypeOK
<1>6. (Floating /\ Gone /\ Fates)'
  BY DEF Floating, Gone, Fates, Exists
<1> QED BY <1>1, <1>2, <1>3, <1>4, <1>5, <1>6

\* pygobject_weak_ref_notify, before it has the GIL.
LEMMA NotifyStep ==
  ASSUME DeathInv, NEW o \in Targets, NEW r \in Refs, Notify(o, r)
  PROVE  DeathInv'
<1> USE DEF DeathInv, Notify
<1>0. r \notin waiting /\ r \in todo[o] /\ Exists(r) /\ target[r] = o
  BY DEF Registered
<1>a. \A p \in Targets : r \in weak[p] \cup todo[p] => p = o /\ r \notin weak[p]
  BY <1>0 DEF OneList
<1>b. \A s \in Refs \ {r} : target'[s] = target[s] /\ (s \in waiting' <=> s \in waiting)
                            /\ \A p \in Targets : s \in todo'[p] <=> s \in todo[p]
  BY DEF DeathTypeOK
<1>c. target'[r] = NoTarget
  BY DEF DeathTypeOK
<1>d. fate[r] # "unreffed" /\ (r \in callback => fate[r] = "due")
  BY <1>0, NoTargetAssumption DEF Fates, DeathTypeOK
<1>e. /\ r \in waiting' <=> r \in callback
      /\ \A p \in Targets : r \in todo'[p] <=> p = o /\ r \in callback
  BY <1>0, <1>a DEF DeathTypeOK
<1>1. DeathTypeOK'
  BY DEF DeathTypeOK
<1>2. Registered'
  <2>1. \A p \in Targets : ~(r \in weak'[p] \cup (todo'[p] \ waiting')) /\ target'[r] # p
    BY <1>a, <1>c, <1>e, NoTargetAssumption
  <2> QED BY <1>0, <1>b, <1>c, <1>e, <2>1 DEF Registered, Exists
<1>3. Keeps'
  BY DEF Keeps, B
<1>4. CalledUnlessUnreffed'
  BY <1>0, <1>a, <1>b, <1>d, <1>e DEF CalledUnlessUnreffed
<1>5. Lives' /\ OneList'
  BY DEF Lives, OneList, DeathTypeOK
<1>6. InNotification'
  BY <1>b, <1>c, <1>d, <1>e DEF InNotification, DeathTypeOK
<1>7. (Floating /\ Gone /\ Fates)'
  BY <1>0, <1>b, <1>c, <1>d DEF Floating, Gone, Fates, Exists
<1> QED BY <1>1, <1>2, <1>3, <1>4, <1>5, <1>6, <1>7

\* It has the GIL ...
LEMMA RunCallbackStep ==
  ASSUME DeathInv, NEW r \in Refs, RunCallback(r)
  PROVE  DeathInv'
<1> USE DEF DeathInv, RunCallback
<1>0. fate[r] = "due" /\ fate'[r] = "called" /\ \A s \in Refs \ {r} : fate'[s] = fate[s]
  BY DEF InNotification, DeathTypeOK
<1>1. DeathTypeOK'
  BY DEF DeathTypeOK
<1>2. (Registered /\ Lives /\ OneList)'
  BY DEF Registered, Exists, Lives, OneList
<1>3. Keeps' /\ CalledUnlessUnreffed'
  BY <1>0 DEF Keeps, B, CalledUnlessUnreffed
<1>4. (InNotification /\ Floating /\ Gone /\ Fates)'
  BY <1>0 DEF InNotification, Floating, Gone, Fates, Exists
<1> QED BY <1>1, <1>2, <1>3, <1>4

\* ... and the callback has returned.
LEMMA CalledStep ==
  ASSUME DeathInv, NEW o \in Targets, NEW r \in Refs, Called(o, r)
  PROVE  DeathInv'
<1> USE DEF DeathInv, Called
<1>0. target[r] = NoTarget /\ r \in callback /\ floats[r] /\ Exists(r)
  BY DEF InNotification, Floating, Registered
<1>a. \A p \in Targets : r \in weak[p] \cup todo[p] => p = o /\ r \notin weak[p]
  BY DEF OneList
<1>b. \A s \in Refs \ {r} : /\ pyrefs'[s] = pyrefs[s] /\ floats'[s] = floats[s]
                            /\ (s \in waiting' <=> s \in waiting) /\ (s \in callback' <=> s \in callback)
                            /\ \A p \in Targets : s \in todo'[p] <=> s \in todo[p]
  BY DEF DeathTypeOK
<1>c. /\ ~floats'[r] /\ r \notin callback' /\ r \notin waiting' /\ pyrefs'[r] = pyrefs[r] - 1
      /\ \A p \in Targets : r \notin todo'[p] /\ r \notin weak[p]
  BY <1>0, <1>a DEF DeathTypeOK
<1>1. DeathTypeOK'
  BY <1>0 DEF DeathTypeOK, Exists
<1>2. Registered'
  BY <1>0, <1>b, <1>c, NoTargetAssumption DEF Registered, Exists
<1>3. Keeps'
  BY <1>0, <1>b, <1>c DEF Keeps, B
<1>4. CalledUnlessUnreffed'
  BY <1>b, <1>c DEF CalledUnlessUnreffed
<1>5. Lives' /\ OneList'
  BY DEF Lives, OneList, DeathTypeOK
<1>6. InNotification'
  BY <1>b, <1>c DEF InNotification
<1>7. (Floating /\ Gone /\ Fates)'
  BY <1>0, <1>b, <1>c DEF Floating, Gone, Fates, Exists
<1> QED BY <1>1, <1>2, <1>3, <1>4, <1>5, <1>6, <1>7

LEMMA NextDeath ==
  ASSUME DeathInv, ~Careless, Garbage \subseteq {FALSE}, [DeathNext]_deathvars
  PROVE  DeathInv'
<1>1. CASE UNCHANGED deathvars
  <2>1. (DeathTypeOK /\ Registered /\ Keeps /\ CalledUnlessUnreffed)'
    BY <1>1 DEF deathvars, DeathInv, DeathTypeOK, Registered, Exists, Keeps, B, CalledUnlessUnreffed
  <2>2. (Lives /\ OneList /\ InNotification /\ Floating /\ Gone /\ Fates)'
    BY <1>1 DEF deathvars, DeathInv, Lives, OneList, InNotification, Floating, Gone, Fates, Exists
  <2> QED BY <2>1, <2>2 DEF DeathInv
<1>2. ASSUME NEW o \in Targets, NEW who \in {"native", "python"}, Release(o, who)
      PROVE  DeathInv'
  BY <1>2, LosesStep DEF Release
<1>3. ASSUME NEW o \in Targets, Born(o) \/ Disposed(o)
      PROVE  DeathInv'
  BY <1>3, BornStep, DisposedStep
<1>4. ASSUME NEW o \in Targets, NEW r \in Refs,
             \/ Notify(o, r) \/ Called(o, r)
             \/ \E calls \in BOOLEAN, garbage \in Garbage : NewWeakRef(r, o, calls, garbage)
      PROVE  DeathInv'
  BY <1>4, NotifyStep, CalledStep, NewWeakRefStep
<1>5. ASSUME NEW r \in Refs, Answer(r) \/ Unref(r) \/ Forget(r) \/ Unbind(r) \/ RunCallback(r)
      PROVE  DeathInv'
  BY <1>5, AnswerStep, UnrefStep, ForgetStep, UnbindStep, RunCallbackStep
<1> QED BY <1>1, <1>2, <1>3, <1>4, <1>5 DEF DeathNext

-----------------------------------------------------------------------------
(* The theorems *)

\* The inductive invariant.
THEOREM DeathInvariance ==
  ASSUME ~Careless, Garbage \subseteq {FALSE}
  PROVE  DeathSpec => []DeathInv
<1>1. DeathInit => DeathInv
  BY InitDeath
<1>2. DeathInv /\ [DeathNext]_deathvars => DeathInv'
  BY NextDeath
<1> QED BY <1>1, <1>2, PTL DEF DeathSpec

\* GLib has on its lists the weak references that exist and know the object, and no other, at every
\* point of a dispose: no notification reaches memory that pygobject_weak_ref_dealloc has given back,
\* and no weak reference answers with an object that is finalized.
THEOREM RegisteredAlways ==
  ASSUME ~Careless, Garbage \subseteq {FALSE}
  PROVE  DeathSpec => [](DeathTypeOK /\ Registered)
<1>1. DeathInv => DeathTypeOK /\ Registered
  BY DEF DeathInv
<1> QED BY <1>1, DeathInvariance, PTL

\* The references that a weak reference has are those of the program and of its own callback, so that
\* it goes when both are gone, and the notification always finds it there.
THEOREM KeepsItselfAlways ==
  ASSUME ~Careless, Garbage \subseteq {FALSE}
  PROVE  DeathSpec => []KeepsItself
<1>1. DeathInv => KeepsItself
  BY KeepsCounts DEF DeathInv
<1> QED BY <1>1, DeathInvariance, PTL

\* A callback that is due is always on the list of one of the objects, or in the notification that
\* waits for the GIL; one that unref() has called off is in none.
THEOREM CalledUnlessUnreffedAlways ==
  ASSUME ~Careless, Garbage \subseteq {FALSE}
  PROVE  DeathSpec => []CalledUnlessUnreffed
<1>1. DeathInv => CalledUnlessUnreffed
  BY DEF DeathInv
<1> QED BY <1>1, DeathInvariance, PTL
=============================================================================
