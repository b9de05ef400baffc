------------------------- MODULE RegistrationProofs -------------------------
(***************************************************************************)
(* Machine-checked facts about Registration, for any GTypes, namespaces    *)
(* and threads: the class of an instance has among its bases the very      *)
(* class that a module gives for each ancestor, in whatever order programs *)
(* ask for them.  The hypotheses are that no module is used before its     *)
(* overrides are through (Premature) and that no two threads make one      *)
(* class (Twice).                                                          *)
(***************************************************************************)
EXTENDS Registration, SequenceTheorems, TLAPS

-----------------------------------------------------------------------------
(* The inductive invariant *)

\* Place i of the stack of thread t has a frame.
On(t, i) == t \in Loaders /\ i \in 1 .. Len(making[t])
F(t, i) == making[t][i]

In(x, seq) == \E i \in DOMAIN seq : seq[i] = x

\* The overrides will not change the class of this GType any more.
Settled(p) == \A t, i : On(t, i) /\ F(t, i).what = "load" => ~In(p, F(t, i).left)

\* The class derives from what the modules give for this GType, and will give.
Covers(c, p) == Described(p) => Attribute(p) # 0 /\ Settled(p) /\ Attribute(p) \in classes[c].mro
Good(c, ty) == c \in DOMAIN classes /\ \A p \in Kin[ty] : Covers(c, p)

\* A class that a module gives is the one of its GType, and derives from those of the ancestors.
Given(ty) ==
  Attribute(ty) # 0 =>
    /\ Described(ty) /\ module[Space[ty]] # "absent" /\ pytype[ty] = Attribute(ty)
    /\ Attribute(ty) \in classes[Attribute(ty)].mro
    /\ \A p \in Kin[ty] \ {ty} : Covers(Attribute(ty), p)
Attributes ==
  /\ Static \in DOMAIN classes
  /\ \A ty \in GTypes :
       /\ Given(ty) /\ (cached[ty] # 0 => classes[cached[ty]].info = ty)
       /\ pytype[ty] # 0 /\ Attribute(ty) = 0 =>
            IF Described(ty) THEN ty = Root /\ pytype[ty] = Static ELSE Good(pytype[ty], ty)
  /\ \A s \in Spaces : module[s] = "loaded" =>
       \A i \in DOMAIN Overrides[s] : registry[Overrides[s][i]] # 0

\* An overrides module being run: those it defined are registered, the others not yet.
LoadFrame(f) ==
  /\ f.of \in Spaces /\ module[f.of] = "loading"
  /\ \A j, k \in DOMAIN f.left : f.left[j] \in Kin[f.left[k]] => j <= k
  /\ \A j \in DOMAIN f.left : Space[f.left[j]] = f.of /\ registry[f.left[j]] = 0
  /\ \A i \in DOMAIN Overrides[f.of] :
       registry[Overrides[f.of][i]] # 0 \/ In(Overrides[f.of][i], f.left)

\* The bases of a class in the making: there already, or still to be asked for.
BasesSoFar(f) ==
  /\ f.of \in GTypes /\ (\A j \in DOMAIN f.bases : f.bases[j] \in DOMAIN classes)
  /\ \A j \in DOMAIN f.left : In(f.left[j], Parents[f.of])
  /\ \A i \in DOMAIN Parents[f.of] :
       In(Parents[f.of][i], f.left) \/ \E j \in DOMAIN f.bases : Good(f.bases[j], Parents[f.of][i])
IntrospectedFrame(f) ==
  /\ BasesSoFar(f) /\ Described(f.of) /\ module[Space[f.of]] # "absent" /\ Attribute(f.of) = 0
  /\ f.checked => f.left = << >>
  /\ f.of = Root => Len(f.bases) >= 1 /\ f.bases[1] = Static

\* What somebody has an instance of is described, with its ancestors, by typelibs that are loaded.
Known(ty) ==
  /\ ty \in GTypes /\ module[Space[Root]] = "loaded"
  /\ \A p \in Kin[ty] : Described(p) => Space[p] \in typelibs
DemandFrame(f) == BasesSoFar(f) /\ Known(f.of) /\ ~Described(f.of)
WrapFrame(f) ==
  /\ Known(f.of)
  /\ \/ f.left = <<f.of>> /\ f.bases = << >>
     \/ f.left = << >> /\ Len(f.bases) = 1 /\ Good(f.bases[1], f.of)

Sound(f) ==
  /\ f.what = "load" => LoadFrame(f)
  /\ f.what = "introspected" => IntrospectedFrame(f)
  /\ f.what = "demand" => DemandFrame(f)
  /\ f.what = "wrap" => WrapFrame(f)
Framed == \A t, i : On(t, i) => Sound(F(t, i))

\* What is made on behalf of a frame: ancestors, or classes of the namespaces below.
SpaceOf(f) == IF f.what = "load" THEN f.of ELSE Space[f.of]
Needs(f) == IF f.what = "load" THEN IF f.left = << >> THEN {} ELSE Kin[f.left[1]]
            ELSE Kin[f.of] \ {f.of}
FromTypelib(f) == f.what \in {"load", "introspected"}
Above(f, g) ==
  FromTypelib(f) => /\ FromTypelib(g)
                    /\ \/ SpaceOf(g) \in Depends[SpaceOf(f)]
                       \/ g.what = "introspected" /\ g.of \in Needs(f)
Stacked == \A t, i, j : On(t, i) /\ On(t, j) /\ i < j => Above(F(t, i), F(t, j))

\* Two threads are never at the same class, nor at the same module.
Apart ==
  \A t, u, i, j : On(t, i) /\ On(u, j) /\ t # u /\ F(t, i).what = F(u, j).what /\ FromTypelib(F(t, i))
    => F(t, i).of # F(u, j).of

Worn == \A ty \in GTypes : \A c \in worn[ty] : Good(c, ty)

RegInv == RegTypeOK /\ Attributes /\ Framed /\ Stacked /\ Apart /\ Worn

-----------------------------------------------------------------------------
(* Ancestors *)

\* Kin is reflexive and transitive, and what its comment says.
LEMMA KinFacts ==
  /\ \A ty \in GTypes : ty \in Kin[ty] /\ Kin[ty] \subseteq GTypes
  /\ \A ty \in GTypes : \A i \in DOMAIN Parents[ty] :
       Parents[ty][i] \in GTypes /\ Kin[Parents[ty][i]] \subseteq Kin[ty]
  /\ \A ty \in GTypes : \A p \in Kin[ty] : Kin[p] \subseteq Kin[ty]
  /\ \A ty \in GTypes : \A p \in Kin[ty] \ {ty} :
       ty \notin Kin[p] /\ \E i \in DOMAIN Parents[ty] : p \in Kin[Parents[ty][i]]
<1>1. \A ty \in GTypes :
        Kin[ty] = {p \in GTypes : \A S \in SUBSET GTypes : ty \in S /\ Closed(S) => p \in S}
  BY DEF Kin
<1>2. \A ty \in GTypes : ty \in Kin[ty] /\ Kin[ty] \subseteq GTypes
  BY <1>1
<1>3. \A ty \in GTypes : \A i \in DOMAIN Parents[ty] : Parents[ty][i] \in GTypes
  BY ParentsAssumption
<1>4. \A ty \in GTypes : Closed(Kin[ty])
  BY <1>1, <1>3 DEF Closed
<1>5. \A ty \in GTypes : \A p \in Kin[ty] : Kin[p] \subseteq Kin[ty]
  BY <1>1, <1>2, <1>4
<1>6. \A ty \in GTypes : \A i \in DOMAIN Parents[ty] : Kin[Parents[ty][i]] \subseteq Kin[ty]
  BY <1>2, <1>4, <1>5 DEF Closed
<1>7. ASSUME NEW ty \in GTypes
      PROVE  \A p \in Kin[ty] \ {ty} : \E i \in DOMAIN Parents[ty] : p \in Kin[Parents[ty][i]]
  <2> DEFINE S == {ty} \cup {p \in GTypes : \E i \in DOMAIN Parents[ty] : p \in Kin[Parents[ty][i]]}
  <2>1. S \in SUBSET GTypes /\ ty \in S
    OBVIOUS
  <2>2. ASSUME NEW q \in S, NEW i \in DOMAIN Parents[q]
        PROVE  Parents[q][i] \in S
    <3>1. q \in GTypes /\ Parents[q][i] \in GTypes
      BY <2>1, <2>2, <1>3
    <3>2. CASE q = ty
      BY <3>1, <3>2, <1>2
    <3>3. CASE q # ty
      <4>1. PICK j \in DOMAIN Parents[ty] : q \in Kin[Parents[ty][j]]
        BY <3>3
      <4>2. Parents[ty][j] \in GTypes
        BY <1>3
      <4>3. Parents[q][i] \in Kin[Parents[ty][j]]
        BY <4>1, <4>2, <1>4 DEF Closed
      <4> QED BY <3>1, <4>3
    <3> QED BY <3>2, <3>3
  <2>3. Closed(S)
    BY <2>2 DEF Closed
  <2>4. Kin[ty] \subseteq S
    <3> HIDE DEF S
    <3> QED BY <2>1, <2>3, <1>1
  <2> QED BY <2>4
<1>8. ASSUME NEW ty \in GTypes, NEW p \in Kin[ty] \ {ty}, ty \in Kin[p]
      PROVE  FALSE
  <2>1. PICK i \in DOMAIN Parents[ty] : p \in Kin[Parents[ty][i]]
    BY <1>7
  <2>2. Kin[p] \subseteq Kin[Parents[ty][i]]
    BY <1>3, <1>5, <2>1
  <2> QED BY <1>8, <2>1, <2>2, ParentsAssumption
<1> QED BY <1>2, <1>3, <1>5, <1>6, <1>7, <1>8

\* What an ancestor of a described GType is described by.
LEMMA KinSpaces ==
  ASSUME NEW ty \in GTypes, Described(ty), NEW p \in Kin[ty]
  PROVE  /\ p \in GTypes /\ Space[ty] \in Spaces /\ Described(p) /\ Space[p] \in Spaces
         /\ Space[p] \in {Space[ty]} \cup Depends[Space[ty]]
<1>1. p \in GTypes
  BY KinFacts
<1>2. Space[ty] \in Spaces
  BY SpacesAssumption DEF Described
<1>3. Space[p] \in {Space[ty]} \cup Depends[Space[ty]]
  BY SpacesAssumption
<1>4. Space[p] \in Spaces
  BY <1>2, <1>3, SpacesAssumption
<1> QED BY <1>1, <1>2, <1>3, <1>4, SpacesAssumption DEF Described

-----------------------------------------------------------------------------
(* Stacks, place by place *)

LEMMA StackTypes ==
  ASSUME RegTypeOK
  PROVE  /\ \A t \in Loaders : making[t] \in Seq(Making) /\ Len(making[t]) \in Nat
                                /\ DOMAIN making[t] = 1 .. Len(making[t])
         /\ \A t, i : On(t, i) => F(t, i) \in Making
<1>1. \A t \in Loaders : making[t] \in Seq(Making)
  BY DEF RegTypeOK
<1>2. ASSUME NEW t \in Loaders
      PROVE  Len(making[t]) \in Nat /\ DOMAIN making[t] = 1 .. Len(making[t])
  <2>1. making[t] \in Seq(Making)
    BY <1>1
  <2> QED BY <2>1
<1> QED BY <1>1, <1>2 DEF On, F

LEMMA TopPlace ==
  ASSUME RegTypeOK, NEW t \in Loaders, Active(t)
  PROVE  /\ On(t, Len(making[t])) /\ F(t, Len(making[t])) = Current(t) /\ Current(t) \in Making
         /\ \A i : On(t, i) => i \in Nat /\ i <= Len(making[t])
<1>1. making[t] \in Seq(Making) /\ Len(making[t]) \in 1 .. Len(making[t])
  BY StackTypes DEF Active
<1> QED BY <1>1, StackTypes DEF On, F, Current

Pushed(t, n, f) ==
  /\ n = Len(making[t]) + 1 /\ n \in Nat /\ ~On(t, n) /\ On(t, n)' /\ F(t, n)' = f
  /\ \A u, i : On(u, i)' <=> On(u, i) \/ (u = t /\ i = n)
  /\ \A u, i : On(u, i) => F(u, i)' = F(u, i)
Popped(t, n) ==
  /\ n = Len(making[t]) /\ On(t, n) /\ ~On(t, n)' /\ F(t, n) = Current(t)
  /\ \A u, i : On(u, i)' <=> On(u, i) /\ ~(u = t /\ i = n)
  /\ \A u, i : On(u, i)' => F(u, i)' = F(u, i)
Changed(t, n, f) ==
  /\ n = Len(making[t]) /\ On(t, n) /\ F(t, n) = Current(t) /\ F(t, n)' = f
  /\ \A u, i : On(u, i)' <=> On(u, i)
  /\ \A u, i : On(u, i) /\ ~(u = t /\ i = n) => F(u, i)' = F(u, i)

LEMMA EnterPlaces ==
  ASSUME RegTypeOK, NEW t \in Loaders, NEW f \in Making, Enter(t, f)
  PROVE  (\E n : Pushed(t, n, f)) /\ making' \in [Loaders -> Seq(Making)]
<1>1. PICK n : n = Len(making[t]) + 1 /\ n \in Nat
  BY StackTypes
<1>2. making'[t] = Append(making[t], f) /\ \A u \in Loaders \ {t} : making'[u] = making[u]
  BY DEF Enter, RegTypeOK
<1>3. /\ Append(making[t], f) \in Seq(Making) /\ Len(Append(making[t], f)) = n
      /\ Append(making[t], f)[n] = f
      /\ \A i \in 1 .. Len(making[t]) : Append(making[t], f)[i] = making[t][i]
  BY <1>1, StackTypes
<1>4. making' \in [Loaders -> Seq(Making)]
  BY <1>2, <1>3 DEF Enter, RegTypeOK
<1>5. /\ ~On(t, n) /\ On(t, n)' /\ F(t, n)' = f
      /\ \A u, i : On(u, i)' <=> On(u, i) \/ (u = t /\ i = n)
  BY <1>1, <1>2, <1>3, StackTypes DEF On, F
<1>6. \A u, i : On(u, i) => F(u, i)' = F(u, i)
  BY <1>1, <1>2, <1>3, StackTypes DEF On, F
<1> QED BY <1>1, <1>4, <1>5, <1>6 DEF Pushed

LEMMA LeavePlaces ==
  ASSUME RegTypeOK, NEW t \in Loaders, Active(t), Leave(t)
  PROVE  (\E n : Popped(t, n)) /\ making' \in [Loaders -> Seq(Making)]
<1>1. PICK n : n = Len(making[t]) /\ n \in Nat \ {0}
  BY StackTypes DEF Active
<1> DEFINE s == SubSeq(making[t], 1, n - 1)
<1>2. making'[t] = s /\ \A u \in Loaders \ {t} : making'[u] = making[u]
  BY <1>1 DEF Leave, RegTypeOK
<1>3. s \in Seq(Making) /\ Len(s) = n - 1 /\ \A i \in 1 .. n - 1 : s[i] = making[t][i]
  BY <1>1, StackTypes
<1> HIDE DEF s
<1>4. making' \in [Loaders -> Seq(Making)]
  BY <1>1, <1>2, <1>3 DEF Leave, RegTypeOK
<1>5. /\ ~On(t, n)' /\ On(t, n)
      /\ \A u, i : On(u, i)' <=> On(u, i) /\ ~(u = t /\ i = n)
  BY <1>1, <1>2, <1>3, StackTypes DEF On
<1>6. \A u, i : On(u, i)' => F(u, i)' = F(u, i)
  BY <1>1, <1>2, <1>3, StackTypes DEF On, F
<1> QED BY <1>1, <1>4, <1>5, <1>6, TopPlace DEF Popped

LEMMA BecomesPlaces ==
  ASSUME RegTypeOK, NEW t \in Loaders, NEW f \in Making, Active(t), Becomes(t, f)
  PROVE  (\E n : Changed(t, n, f)) /\ making' \in [Loaders -> Seq(Making)]
<1>1. PICK n : n = Len(making[t]) /\ n \in Nat \ {0}
  BY StackTypes DEF Active
<1> DEFINE s == SubSeq(making[t], 1, n - 1)
<1>2. making'[t] = Append(s, f) /\ \A u \in Loaders \ {t} : making'[u] = making[u]
  BY <1>1 DEF Becomes, RegTypeOK
<1>3. s \in Seq(Making) /\ Len(s) = n - 1 /\ \A i \in 1 .. n - 1 : s[i] = making[t][i]
  BY <1>1, StackTypes
<1> HIDE DEF s
<1>4. /\ Append(s, f) \in Seq(Making) /\ Len(Append(s, f)) = n /\ Append(s, f)[n] = f
      /\ \A i \in 1 .. n - 1 : Append(s, f)[i] = making[t][i]
  BY <1>1, <1>3
<1>5. making' \in [Loaders -> Seq(Making)]
  BY <1>2, <1>4 DEF Becomes, RegTypeOK
<1>6. /\ On(t, n) /\ F(t, n)' = f
      /\ \A u, i : On(u, i)' <=> On(u, i)
  BY <1>1, <1>2, <1>4, StackTypes DEF On, F
<1>7. \A u, i : On(u, i) /\ ~(u = t /\ i = n) => F(u, i)' = F(u, i)
  BY <1>1, <1>2, <1>4, StackTypes DEF On, F
<1> QED BY <1>1, <1>5, <1>6, <1>7, TopPlace DEF Changed

-----------------------------------------------------------------------------
(* What is there stays *)

\* No step takes a class, a typelib or a loaded module away, and the class that a module
\* gives for a settled GType stays the same.
Grows ==
  /\ DOMAIN classes \subseteq DOMAIN classes'
  /\ \A c \in DOMAIN classes : classes'[c] = classes[c]
  /\ \A p \in GTypes : Attribute(p) # 0 /\ Settled(p) => Attribute(p)' = Attribute(p) /\ Settled(p)'
  /\ typelibs \subseteq typelibs'
  /\ \A s \in Spaces : /\ module[s] # "absent" => module'[s] # "absent"
                       /\ module[s] = "loaded" => module'[s] = "loaded"
  /\ \A p \in GTypes : registry[p] # 0 => registry'[p] # 0

\* What a frame needs that a step may take from it.
Undisturbed(f) ==
  /\ f.what = "load" => /\ module'[f.of] = "loading"
                        /\ \A j \in DOMAIN f.left : registry'[f.left[j]] = 0
  /\ f.what = "introspected" => Attribute(f.of)' = 0

\* What a class derives from stays so.
LEMMA GoodGrows ==
  ASSUME Grows
  PROVE  /\ \A c \in DOMAIN classes : \A p \in GTypes : Covers(c, p) => Covers(c, p)'
         /\ \A c : \A ty \in GTypes : Good(c, ty) => Good(c, ty)'
<1>1. \A c \in DOMAIN classes : \A p \in GTypes : Covers(c, p) => Covers(c, p)'
  BY DEF Grows, Covers
<1> QED BY <1>1, KinFacts DEF Good, Grows

LEMMA SoundGrows ==
  ASSUME RegTypeOK, Grows, NEW f \in Making, Sound(f), Undisturbed(f)
  PROVE  Sound(f)'
<1>1. CASE f.what = "load"
  <2>1. LoadFrame(f)
    BY <1>1 DEF Sound
  <2>2. \A i \in DOMAIN Overrides[f.of] : Overrides[f.of][i] \in GTypes
    BY <2>1, OrderAssumption DEF LoadFrame
  <2>3. LoadFrame(f)'
    BY <1>1, <2>1, <2>2 DEF LoadFrame, Undisturbed, Grows
  <2> QED BY <1>1, <2>3 DEF Sound
<1>2. ASSUME BasesSoFar(f)
      PROVE  BasesSoFar(f)'
  <2>1. \A i \in DOMAIN Parents[f.of] : Parents[f.of][i] \in GTypes
    BY <1>2, ParentsAssumption DEF BasesSoFar
  <2> QED BY <1>2, <2>1, GoodGrows DEF BasesSoFar, Grows
<1>3. ASSUME Known(f.of)
      PROVE  Known(f.of)'
  <2>1. Space[Root] \in Spaces
    BY ParentsAssumption, SpacesAssumption, OrderAssumption DEF Described
  <2> QED BY <1>3, <2>1 DEF Known, Grows
<1>4. CASE f.what = "introspected"
  <2>1. IntrospectedFrame(f)
    BY <1>4 DEF Sound
  <2>2. Space[f.of] \in Spaces
    BY <2>1, SpacesAssumption DEF IntrospectedFrame, BasesSoFar, Described
  <2>3. IntrospectedFrame(f)'
    BY <1>2, <1>4, <2>1, <2>2 DEF IntrospectedFrame, Undisturbed, Grows
  <2> QED BY <1>4, <2>3 DEF Sound
<1>5. CASE f.what = "demand"
  BY <1>2, <1>3, <1>5 DEF Sound, DemandFrame
<1>6. CASE f.what = "wrap"
  <2>1. WrapFrame(f)
    BY <1>6 DEF Sound
  <2>2. f.of \in GTypes
    BY <2>1 DEF WrapFrame, Known
  <2>3. WrapFrame(f)'
    BY <1>3, <2>1, <2>2, GoodGrows DEF WrapFrame
  <2> QED BY <1>6, <2>3 DEF Sound
<1> QED BY <1>1, <1>4, <1>5, <1>6 DEF Making

\* What a module gives, if that does not change.
LEMMA GivenStays ==
  ASSUME RegTypeOK, Grows, NEW ty \in GTypes, Given(ty),
         Attribute(ty)' = Attribute(ty), pytype'[ty] = pytype[ty]
  PROVE  Given(ty)'
<1> SUFFICES ASSUME Attribute(ty) # 0
             PROVE  /\ module'[Space[ty]] # "absent"
                    /\ Attribute(ty) \in classes'[Attribute(ty)].mro
                    /\ \A p \in Kin[ty] \ {ty} : Covers(Attribute(ty), p)'
  BY DEF Given
<1>1. Described(ty) /\ Space[ty] \in Spaces
  BY SpacesAssumption DEF Given, Described
<1>2. PICK c : c = Attribute(ty)
  OBVIOUS
<1>3. c \in DOMAIN classes /\ Attribute(ty)' = c
  BY <1>2 DEF RegTypeOK, Attribute
<1>4. \A p \in Kin[ty] \ {ty} : p \in GTypes /\ Covers(c, p)
  BY <1>2, KinFacts DEF Given
<1>5. \A p \in Kin[ty] \ {ty} : Covers(c, p)'
  BY <1>3, <1>4, GoodGrows
<1>6. \A p \in Kin[ty] \ {ty} : Covers(Attribute(ty), p)'
  BY <1>3, <1>5 DEF Covers
<1> QED BY <1>1, <1>2, <1>3, <1>6 DEF Given, Grows

\* What modules give, if no class changes.
LEMMA AttributesSame ==
  ASSUME RegTypeOK, Attributes, Grows, UNCHANGED <<classes, pytype, cached, registry>>,
         \A s \in Spaces : module'[s] = "loaded" =>
           \A i \in DOMAIN Overrides[s] : registry[Overrides[s][i]] # 0
  PROVE  Attributes'
<1>1. \A ty \in GTypes : Attribute(ty)' = Attribute(ty)
  BY DEF Attribute
<1>2. \A ty \in GTypes : Given(ty)'
  BY <1>1, GivenStays DEF Attributes
<1>3. ASSUME NEW ty \in GTypes, NEW c, Good(c, ty)
      PROVE  Good(c, ty)'
  BY <1>3, GoodGrows
<1> QED BY <1>1, <1>2, <1>3 DEF Attributes

-----------------------------------------------------------------------------
(* What is above what *)

\* A frame of a typelib is about a namespace, and knows what it needs.
LEMMA FrameSpace ==
  ASSUME NEW f \in Making, Sound(f), FromTypelib(f)
  PROVE  /\ SpaceOf(f) \in Spaces
         /\ f.what = "introspected" => f.of \in GTypes /\ Described(f.of)
         /\ \A p \in Needs(f) : /\ p \in GTypes /\ Described(p)
                                /\ Space[p] \in {SpaceOf(f)} \cup Depends[SpaceOf(f)]
<1>1. CASE f.what = "load"
  <2>1. f.of \in Spaces /\ SpaceOf(f) = f.of
    BY <1>1 DEF Sound, LoadFrame, SpaceOf
  <2>2. ASSUME NEW p \in Needs(f)
        PROVE  p \in GTypes /\ Described(p) /\ Space[p] \in {SpaceOf(f)} \cup Depends[SpaceOf(f)]
    <3>1. f.left # << >> /\ p \in Kin[f.left[1]]
      BY <1>1 DEF Needs
    <3>2. f.left \in Seq(GTypes)
      BY DEF Making
    <3>3. 1 \in DOMAIN f.left /\ f.left[1] \in GTypes
      BY <3>1, <3>2
    <3>4. Space[f.left[1]] = f.of
      BY <1>1, <3>3 DEF Sound, LoadFrame
    <3>5. Described(f.left[1])
      BY <2>1, <3>4, SpacesAssumption DEF Described
    <3> QED BY <2>1, <3>1, <3>3, <3>4, <3>5, KinSpaces
  <2> QED BY <1>1, <2>1, <2>2
<1>2. CASE f.what = "introspected"
  <2>1. f.of \in GTypes /\ Described(f.of) /\ SpaceOf(f) = Space[f.of]
    BY <1>2 DEF Sound, IntrospectedFrame, BasesSoFar, SpaceOf
  <2>2. Needs(f) \subseteq Kin[f.of]
    BY <1>2 DEF Needs
  <2>3. \A p \in Kin[f.of] : p \in GTypes /\ Described(p) /\ Space[p] \in {Space[f.of]} \cup Depends[Space[f.of]]
    BY <2>1, KinSpaces
  <2>4. SpaceOf(f) \in Spaces
    BY <2>1, SpacesAssumption DEF Described
  <2> QED BY <2>1, <2>2, <2>3, <2>4
<1> QED BY <1>1, <1>2 DEF FromTypelib

\* What is above is of the same namespace or of one that it depends on.
LEMMA SpaceAbove ==
  ASSUME NEW f \in Making, NEW g \in Making, Sound(f), FromTypelib(f), Above(f, g)
  PROVE  FromTypelib(g) /\ SpaceOf(g) \in {SpaceOf(f)} \cup Depends[SpaceOf(f)]
<1>1. CASE g.what = "introspected" /\ g.of \in Needs(f)
  <2>1. SpaceOf(g) = Space[g.of]
    BY <1>1 DEF SpaceOf
  <2> QED BY <1>1, <2>1, FrameSpace DEF FromTypelib
<1> QED BY <1>1 DEF Above

LEMMA AboveTransitive ==
  ASSUME NEW e \in Making, NEW f \in Making, NEW g \in Making,
         Sound(e), Sound(f), Above(e, f), Above(f, g)
  PROVE  Above(e, g)
<1> SUFFICES ASSUME FromTypelib(e)
    PROVE  Above(e, g)
  BY DEF Above
<1>1. FromTypelib(f) /\ FromTypelib(g)
  BY SpaceAbove
<1>2. SpaceOf(e) \in Spaces /\ SpaceOf(f) \in Spaces
  BY <1>1, FrameSpace
<1>3. SpaceOf(g) \in {SpaceOf(f)} \cup Depends[SpaceOf(f)]
  BY <1>1, SpaceAbove
<1>4. CASE SpaceOf(f) \in Depends[SpaceOf(e)]
  <2>1. SpaceOf(g) \in Depends[SpaceOf(e)]
    BY <1>2, <1>3, <1>4, SpacesAssumption
  <2> QED BY <1>1, <2>1 DEF Above
<1>5. CASE f.what = "introspected" /\ f.of \in Needs(e)
  <2>1. SpaceOf(f) \in {SpaceOf(e)} \cup Depends[SpaceOf(e)]
    BY SpaceAbove
  <2>2. CASE SpaceOf(g) \in Depends[SpaceOf(f)]
    <3>1. SpaceOf(g) \in Depends[SpaceOf(e)]
      BY <1>2, <2>1, <2>2, SpacesAssumption
    <3> QED BY <1>1, <3>1 DEF Above
  <2>3. CASE g.what = "introspected" /\ g.of \in Needs(f)
    <3>1. g.of \in Kin[f.of] /\ g.of # f.of /\ f.of \in GTypes
      BY <1>1, <1>5, <2>3, FrameSpace DEF Needs
    <3>2. CASE e.what = "load"
      <4>1. e.left # << >> /\ f.of \in Kin[e.left[1]]
        BY <1>5, <3>2 DEF Needs
      <4>2. e.left \in Seq(GTypes)
        BY DEF Making
      <4>3. e.left[1] \in GTypes
        BY <4>1, <4>2
      <4>4. g.of \in Kin[e.left[1]]
        BY <3>1, <4>1, <4>3, KinFacts
      <4>5. g.of \in Needs(e)
        BY <3>2, <4>1, <4>4 DEF Needs
      <4> QED BY <1>1, <2>3, <4>5 DEF Above
    <3>3. CASE e.what = "introspected"
      <4>1. e.of \in GTypes /\ f.of \in Kin[e.of] /\ f.of # e.of
        BY <1>5, <3>3, FrameSpace DEF Needs
      <4>2. g.of \in Kin[e.of]
        BY <3>1, <4>1, KinFacts
      <4>3. g.of # e.of
        BY <3>1, <4>1, KinFacts
      <4>4. g.of \in Needs(e)
        BY <3>3, <4>2, <4>3 DEF Needs
      <4> QED BY <1>1, <2>3, <4>4 DEF Above
    <3> QED BY <3>2, <3>3 DEF FromTypelib
  <2> QED BY <1>1, <2>2, <2>3 DEF Above
<1> QED BY <1>1, <1>4, <1>5 DEF Above

\* No two frames of one kind are about the same class or module.
LEMMA AboveDiffers ==
  ASSUME NEW f \in Making, NEW g \in Making, Sound(f), FromTypelib(f), Above(f, g),
         f.what = g.what
  PROVE  f.of # g.of
<1>1. SpaceOf(f) \in Spaces
  BY FrameSpace
<1>2. CASE SpaceOf(g) \in Depends[SpaceOf(f)]
  BY <1>1, <1>2, SpacesAssumption DEF SpaceOf
<1>3. CASE g.what = "introspected" /\ g.of \in Needs(f)
  BY <1>3 DEF Needs
<1> QED BY <1>2, <1>3 DEF Above

LEMMA Once ==
  ASSUME RegInv, NEW t, NEW i, NEW u, NEW j, On(t, i), On(u, j),
         F(t, i).what = F(u, j).what, F(t, i).of = F(u, j).of, FromTypelib(F(t, i))
  PROVE  t = u /\ i = j
<1>1. t = u
  BY DEF RegInv, Apart
<1>2. /\ F(t, i) \in Making /\ F(u, j) \in Making /\ Sound(F(t, i)) /\ Sound(F(u, j))
      /\ FromTypelib(F(u, j))
  BY StackTypes DEF RegInv, Framed, FromTypelib
<1>3. i \in Nat /\ j \in Nat
  BY StackTypes DEF On, RegInv
<1>4. ~(i < j)
  <2>1. i < j => Above(F(t, i), F(u, j))
    BY <1>1 DEF RegInv, Stacked
  <2> QED BY <2>1, <1>2, AboveDiffers
<1>5. ~(j < i)
  <2>1. j < i => Above(F(u, j), F(t, i))
    BY <1>1 DEF RegInv, Stacked
  <2> QED BY <2>1, <1>2, AboveDiffers
<1> QED BY <1>1, <1>3, <1>4, <1>5

-----------------------------------------------------------------------------
(* Stacks: a frame comes, goes or changes *)

\* What a stack says about the frames that stay.
Stacks == Framed /\ Stacked /\ Apart

LEMMA EnterKeeps ==
  ASSUME RegInv, NEW t \in Loaders, NEW f \in Making, Enter(t, f), Grows, Sound(f)',
         Active(t) => Above(Current(t), f),
         FromTypelib(f) => \A u, i : On(u, i) /\ u # t /\ F(u, i).what = f.what => F(u, i).of # f.of,
         \A u, i, g : On(u, i) /\ g = F(u, i) => Undisturbed(g)
  PROVE  Stacks'
<1> USE DEF RegInv
<1>1. PICK n : Pushed(t, n, f)
  BY EnterPlaces
<1>2. ASSUME NEW u, NEW i, On(u, i)'
      PROVE  Sound(F(u, i))'
  <2>1. CASE On(u, i)
    <3>1. PICK g : g = F(u, i)
      OBVIOUS
    <3>2. g \in Making /\ Sound(g) /\ Undisturbed(g)
      BY <2>1, <3>1, StackTypes DEF Framed
    <3>3. Sound(g)'
      BY <3>2, SoundGrows
    <3>4. F(u, i)' = g
      BY <1>1, <2>1, <3>1 DEF Pushed
    <3> QED BY <3>3, <3>4
  <2>2. CASE u = t /\ i = n
    BY <1>1, <2>2 DEF Pushed
  <2> QED BY <1>1, <1>2, <2>1, <2>2 DEF Pushed
<1>3. Framed'
  BY <1>2 DEF Framed
<1>4. ASSUME NEW i, On(t, i)
      PROVE  Above(F(t, i), f)
  <2>1. Active(t)
    BY <1>4, StackTypes DEF On, Active
  <2>2. /\ On(t, Len(making[t])) /\ F(t, Len(making[t])) = Current(t) /\ Current(t) \in Making
        /\ i \in Nat /\ i <= Len(making[t]) /\ Len(making[t]) \in Nat
    BY <1>4, <2>1, TopPlace, StackTypes
  <2>3. CASE i = Len(making[t])
    BY <2>1, <2>2, <2>3
  <2>4. CASE i < Len(making[t])
    <3>1. Above(F(t, i), Current(t))
      BY <1>4, <2>2, <2>4 DEF Stacked
    <3>2. F(t, i) \in Making /\ Sound(F(t, i)) /\ Sound(Current(t))
      BY <1>4, <2>2, StackTypes DEF Framed
    <3> QED BY <2>1, <2>2, <3>1, <3>2, AboveTransitive
  <2> QED BY <2>2, <2>3, <2>4
<1>5. Stacked'
  <2> SUFFICES ASSUME NEW u, NEW i, NEW j, On(u, i)', On(u, j)', i < j
      PROVE  Above(F(u, i)', F(u, j)')
    BY DEF Stacked, Above, FromTypelib, SpaceOf, Needs
  <2>1. CASE On(u, i) /\ On(u, j)
    BY <1>1, <2>1 DEF Pushed, Stacked
  <2>2. CASE On(u, i) /\ u = t /\ j = n
    BY <1>1, <1>4, <2>2 DEF Pushed
  <2>3. CASE u = t /\ i = n
    <3>1. j = n \/ j <= Len(making[t])
      BY <1>1, <2>3, StackTypes DEF Pushed, On
    <3> QED BY <1>1, <2>3, <3>1, StackTypes DEF Pushed, On
  <2> QED BY <1>1, <2>1, <2>2, <2>3 DEF Pushed
<1>6. Apart'
  <2> SUFFICES ASSUME NEW u, NEW v, NEW i, NEW j, On(u, i)', On(v, j)', u # v,
                      F(u, i)'.what = F(v, j)'.what, FromTypelib(F(u, i)')
      PROVE  F(u, i)'.of # F(v, j)'.of
    BY DEF Apart, FromTypelib
  <2>1. CASE On(u, i) /\ On(v, j)
    BY <1>1, <2>1 DEF Pushed, Apart
  <2>2. CASE On(u, i) /\ v = t /\ j = n
    BY <1>1, <2>2 DEF Pushed, FromTypelib
  <2>3. CASE On(v, j) /\ u = t /\ i = n
    BY <1>1, <2>3 DEF Pushed, FromTypelib
  <2> QED BY <1>1, <2>1, <2>2, <2>3 DEF Pushed
<1> QED BY <1>3, <1>5, <1>6 DEF Stacks

\* No stack changes.
LEMMA SteadyStacks ==
  ASSUME RegInv, Grows, \A u, i : (On(u, i)' <=> On(u, i)) /\ F(u, i)' = F(u, i),
         \A u, i, g : On(u, i) /\ g = F(u, i) => Undisturbed(g)
  PROVE  Stacks'
<1> USE DEF RegInv
<1>1. ASSUME NEW u, NEW i, On(u, i)'
      PROVE  Sound(F(u, i))'
  <2>1. PICK g : g = F(u, i)
    OBVIOUS
  <2>2. Sound(g) /\ g \in Making /\ Undisturbed(g)
    BY <1>1, <2>1, StackTypes DEF Framed
  <2>3. Sound(g)'
    BY <2>2, SoundGrows
  <2>4. F(u, i)' = g
    BY <2>1
  <2> QED BY <2>3, <2>4
<1>2. Framed'
  BY <1>1 DEF Framed
<1>3. Stacked'
  <2> SUFFICES ASSUME NEW u, NEW i, NEW j, On(u, i)', On(u, j)', i < j
      PROVE  Above(F(u, i)', F(u, j)')
    BY DEF Stacked, Above, FromTypelib, SpaceOf, Needs
  <2> QED BY DEF Stacked
<1>4. Apart'
  <2> SUFFICES ASSUME NEW u, NEW v, NEW i, NEW j, On(u, i)', On(v, j)', u # v,
                      F(u, i)'.what = F(v, j)'.what, FromTypelib(F(u, i)')
      PROVE  F(u, i)'.of # F(v, j)'.of
    BY DEF Apart, FromTypelib
  <2> QED BY DEF Apart
<1> QED BY <1>2, <1>3, <1>4 DEF Stacks

LEMMA LeaveKeeps ==
  ASSUME RegInv, NEW t \in Loaders, Active(t), Leave(t), Grows,
         \A u, i, g : On(u, i) /\ g = F(u, i) /\ ~(u = t /\ i = Len(making[t])) => Undisturbed(g)
  PROVE  Stacks'
<1> USE DEF RegInv
<1>1. PICK n : Popped(t, n)
  BY LeavePlaces
<1>2. ASSUME NEW u, NEW i, On(u, i)'
      PROVE  Sound(F(u, i))'
  <2>1. PICK g : g = F(u, i)
    OBVIOUS
  <2>2. On(u, i) /\ ~(u = t /\ i = Len(making[t]))
    BY <1>1, <1>2 DEF Popped
  <2>3. g \in Making /\ Sound(g) /\ Undisturbed(g)
    BY <2>1, <2>2, StackTypes DEF Framed
  <2>4. Sound(g)'
    BY <2>3, SoundGrows
  <2>5. F(u, i)' = g
    BY <1>1, <1>2, <2>1 DEF Popped
  <2> QED BY <2>4, <2>5
<1>3. Framed'
  BY <1>2 DEF Framed
<1>4. Stacked'
  <2> SUFFICES ASSUME NEW u, NEW i, NEW j, On(u, i)', On(u, j)', i < j
      PROVE  Above(F(u, i)', F(u, j)')
    BY DEF Stacked, Above, FromTypelib, SpaceOf, Needs
  <2> QED BY <1>1 DEF Popped, Stacked
<1>5. Apart'
  <2> SUFFICES ASSUME NEW u, NEW v, NEW i, NEW j, On(u, i)', On(v, j)', u # v,
                      F(u, i)'.what = F(v, j)'.what, FromTypelib(F(u, i)')
      PROVE  F(u, i)'.of # F(v, j)'.of
    BY DEF Apart, FromTypelib
  <2> QED BY <1>1 DEF Popped, Apart
<1> QED BY <1>3, <1>4, <1>5 DEF Stacks

LEMMA BecomesKeeps ==
  ASSUME RegInv, NEW t \in Loaders, NEW f \in Making, Active(t), Becomes(t, f), Grows,
         f.what = Current(t).what, f.of = Current(t).of, Sound(f)',
         \A u, i, g : On(u, i) /\ g = F(u, i) /\ ~(u = t /\ i = Len(making[t])) => Undisturbed(g)
  PROVE  Stacks'
<1> USE DEF RegInv
<1>1. PICK n : Changed(t, n, f)
  BY BecomesPlaces
<1>2. ASSUME NEW u, NEW i, On(u, i)'
      PROVE  Sound(F(u, i))'
  <2>1. CASE u = t /\ i = n
    BY <1>1, <2>1 DEF Changed
  <2>2. CASE ~(u = t /\ i = n)
    <3>1. PICK g : g = F(u, i)
      OBVIOUS
    <3>2. On(u, i) /\ ~(u = t /\ i = Len(making[t]))
      BY <1>1, <1>2, <2>2 DEF Changed
    <3>3. g \in Making /\ Sound(g) /\ Undisturbed(g)
      BY <3>1, <3>2, StackTypes DEF Framed
    <3>4. Sound(g)'
      BY <3>3, SoundGrows
    <3>5. F(u, i)' = g
      BY <1>1, <2>2, <3>1, <3>2 DEF Changed
    <3> QED BY <3>4, <3>5
  <2> QED BY <2>1, <2>2
<1>3. Framed'
  BY <1>2 DEF Framed
<1>4. \A u, i : On(u, i) => F(u, i)'.what = F(u, i).what /\ F(u, i)'.of = F(u, i).of
  BY <1>1 DEF Changed
<1>5. Stacked'
  <2> SUFFICES ASSUME NEW u, NEW i, NEW j, On(u, i)', On(u, j)', i < j
      PROVE  Above(F(u, i)', F(u, j)')
    BY DEF Stacked, Above, FromTypelib, SpaceOf, Needs
  <2>1. On(u, i) /\ On(u, j) /\ Above(F(u, i), F(u, j))
    BY <1>1 DEF Changed, Stacked
  <2>2. ~(u = t /\ i = n)
    BY <1>1, <2>1, StackTypes DEF Changed, On
  <2>3. F(u, i)' = F(u, i)
    BY <1>1, <2>1, <2>2 DEF Changed
  <2> QED BY <1>4, <2>1, <2>3 DEF Above, FromTypelib, SpaceOf
<1>6. Apart'
  <2> SUFFICES ASSUME NEW u, NEW v, NEW i, NEW j, On(u, i)', On(v, j)', u # v,
                      F(u, i)'.what = F(v, j)'.what, FromTypelib(F(u, i)')
      PROVE  F(u, i)'.of # F(v, j)'.of
    BY DEF Apart, FromTypelib
  <2>1. On(u, i) /\ On(v, j)
    BY <1>1 DEF Changed
  <2> QED BY <1>4, <2>1 DEF Apart, FromTypelib
<1> QED BY <1>3, <1>5, <1>6 DEF Stacks

-----------------------------------------------------------------------------
(* Classes that can be used *)

\* The class that a module gives can be used as soon as nobody runs its overrides.
LEMMA GivenGood ==
  ASSUME RegInv, NEW ty \in GTypes, Attribute(ty) # 0, Settled(ty)
  PROVE  Good(Attribute(ty), ty)
<1> USE DEF RegInv
<1>1. Attribute(ty) \in DOMAIN classes
  BY DEF RegTypeOK, Attribute
<1>2. /\ Attribute(ty) \in classes[Attribute(ty)].mro
      /\ \A p \in Kin[ty] \ {ty} : Covers(Attribute(ty), p)
  BY DEF Attributes, Given
<1>3. Covers(Attribute(ty), ty)
  BY <1>2 DEF Covers
<1> QED BY <1>1, <1>2, <1>3 DEF Good

LEMMA NotLoadingSettled ==
  ASSUME RegInv, NEW ty \in GTypes, module[Space[ty]] # "loading"
  PROVE  Settled(ty)
<1> SUFFICES ASSUME NEW t, NEW i, On(t, i), F(t, i).what = "load", In(ty, F(t, i).left)
    PROVE  FALSE
  BY DEF Settled
<1>1. LoadFrame(F(t, i))
  BY DEF RegInv, Framed, Sound
<1> QED BY <1>1 DEF LoadFrame, In

\* A thread with nothing from a typelib on its stack, or nothing at all, runs no overrides.
LEMMA NoLoads ==
  ASSUME RegInv, NEW t \in Loaders, ~Active(t) \/ ~FromTypelib(Current(t)), NEW s
  PROVE  ~Loads(t, s)
<1> USE DEF RegInv
<1> SUFFICES ASSUME Loads(t, s)
    PROVE  FALSE
  OBVIOUS
<1>1. PICK i \in DOMAIN making[t] : making[t][i].what = "load"
  BY DEF Loads
<1>2. On(t, i) /\ F(t, i) = making[t][i] /\ Active(t)
  BY <1>1, StackTypes DEF On, F, Active
<1>3. /\ On(t, Len(making[t])) /\ F(t, Len(making[t])) = Current(t)
      /\ i \in Nat /\ i <= Len(making[t]) /\ Len(making[t]) \in Nat
  BY <1>2, TopPlace, StackTypes
<1>4. i = Len(making[t]) \/ Above(F(t, i), Current(t))
  BY <1>2, <1>3 DEF Stacked
<1> QED BY <1>1, <1>2, <1>3, <1>4 DEF Above, FromTypelib

\* While a thread runs the overrides of a module, it asks for classes that are settled.
LEMMA OwnLoadSettled ==
  ASSUME RegInv, NEW t \in Loaders, Active(t), Current(t).what = "introspected",
         NEW p \in Needs(Current(t)), Loads(t, Space[p])
  PROVE  Settled(p)
<1> USE DEF RegInv
<1> DEFINE n == Len(making[t])
<1>1. /\ On(t, n) /\ F(t, n) = Current(t) /\ Current(t) \in Making /\ Sound(Current(t))
      /\ FromTypelib(Current(t)) /\ \A i : On(t, i) => i \in Nat /\ i <= n
      /\ n \in Nat
  BY TopPlace, StackTypes DEF Framed, FromTypelib
<1>2. PICK i : On(t, i) /\ F(t, i).what = "load" /\ F(t, i).of = Space[p]
  <2>1. PICK i \in DOMAIN making[t] : making[t][i].what = "load" /\ making[t][i].of = Space[p]
    BY DEF Loads
  <2> QED BY <2>1, StackTypes DEF On, F
<1>3. PICK f, g : f = F(t, i) /\ g = Current(t)
  OBVIOUS
<1>4. /\ f \in Making /\ g \in Making /\ Sound(f) /\ Sound(g) /\ FromTypelib(f) /\ FromTypelib(g)
      /\ f.what = "load" /\ g.what = "introspected" /\ f.of = Space[p] /\ p \in Needs(g)
  BY <1>1, <1>2, <1>3, StackTypes DEF Framed, FromTypelib
<1>5. Above(f, g)
  <2>1. i # n
    BY <1>1, <1>3, <1>4
  <2>2. i < n
    BY <1>1, <1>2, <2>1
  <2> HIDE DEF n
  <2> QED BY <1>1, <1>2, <1>3, <2>2 DEF Stacked
<1>6. /\ g.of \in GTypes /\ Described(g.of) /\ p \in GTypes /\ SpaceOf(f) = Space[p]
      /\ Space[p] \in {SpaceOf(g)} \cup Depends[SpaceOf(g)]
      /\ SpaceOf(f) \in Spaces /\ SpaceOf(g) \in Spaces
  BY <1>4, FrameSpace DEF SpaceOf
<1>7. SpaceOf(g) \notin Depends[SpaceOf(f)]
  BY <1>6, SpacesAssumption
<1>8. g.of \in Needs(f)
  BY <1>5, <1>4, <1>7 DEF Above
<1>9. f.left # << >> /\ g.of \in Kin[f.left[1]] /\ f.left \in Seq(GTypes)
  BY <1>4, <1>8 DEF Needs, Making
<1>10. PICK x \in GTypes : x = f.left[1] /\ 1 \in DOMAIN f.left /\ DOMAIN f.left \subseteq Nat \ {0}
  BY <1>9
<1>11. p \in Kin[g.of] /\ p # g.of
  BY <1>4 DEF Needs
<1>12. p \in Kin[x] /\ p # x
  BY <1>6, <1>9, <1>10, <1>11, KinFacts
<1>13. ~In(p, f.left)
  <2> SUFFICES ASSUME NEW j \in DOMAIN f.left, f.left[j] = p
      PROVE  FALSE
    BY DEF In
  <2>1. j <= 1
    BY <1>4, <1>10, <1>12 DEF Sound, LoadFrame
  <2>2. j = 1
    BY <2>1, <1>10
  <2> QED BY <2>2, <1>10, <1>12
<1>14. ASSUME NEW u, NEW j, On(u, j), F(u, j).what = "load", In(p, F(u, j).left)
       PROVE  FALSE
  <2>1. LoadFrame(F(u, j))
    BY <1>14 DEF Framed, Sound
  <2>2. F(u, j).of = Space[p]
    BY <1>14, <2>1 DEF LoadFrame, In
  <2>3. u = t /\ j = i
    BY <1>2, <1>14, <2>2, Once DEF FromTypelib
  <2> QED BY <1>3, <1>13, <1>14, <2>3
<1> QED BY <1>14 DEF Settled

-----------------------------------------------------------------------------
(* What looking for a class does: load a module, make a class, or take one *)

\* What remains of the invariant when a stack has been dealt with.
LEMMA SameClasses ==
  ASSUME RegInv, Grows, UNCHANGED <<classes, pytype, cached, registry, worn>>,
         making' \in [Loaders -> Seq(Making)], typelibs' \subseteq Spaces,
         module' \in [Spaces -> {"absent", "loading", "loaded"}], Stacks',
         \A s \in Spaces : module'[s] = "loaded" =>
           \A i \in DOMAIN Overrides[s] : registry[Overrides[s][i]] # 0
  PROVE  RegInv'
<1>1. RegTypeOK'
  BY DEF RegInv, RegTypeOK
<1>2. Attributes'
  BY AttributesSame DEF RegInv
<1>3. Worn'
  BY GoodGrows DEF RegInv, Worn
<1> QED BY <1>1, <1>2, <1>3 DEF RegInv, Stacks

\* A GType whose module is not there has no class from it.
LEMMA AbsentGivesNone ==
  ASSUME RegInv, NEW s \in Spaces, module[s] = "absent", NEW p \in GTypes, Space[p] = s
  PROVE  Attribute(p) = 0 /\ cached[p] = 0 /\ registry[p] = 0
BY DEF RegInv, Attributes, Given, Attribute

LEMMA LoadKeeps ==
  ASSUME RegInv, NEW t \in Loaders, NEW s \in Spaces, module[s] = "absent", Load(t, s),
         Active(t) /\ FromTypelib(Current(t)) => s \in Depends[SpaceOf(Current(t))]
  PROVE  RegInv'
<1> USE DEF RegInv
<1>1. PICK f : f = [what |-> "load", of |-> s, left |-> Overrides[s], bases |-> << >>, checked |-> FALSE]
  OBVIOUS
<1>2. /\ f \in Making /\ f.what = "load" /\ f.of = s /\ f.left = Overrides[s]
      /\ Overrides[s] \in Seq(GTypes)
  BY <1>1, OrderAssumption DEF Making
<1>3. /\ Enter(t, f) /\ module' = [module EXCEPT ![s] = "loading"]
      /\ typelibs' = typelibs \cup {s} \cup Depends[s]
      /\ UNCHANGED <<classes, pytype, cached, registry, worn>>
  BY <1>1 DEF Load
<1>4. PICK n : Pushed(t, n, f)
  BY <1>2, <1>3, EnterPlaces
<1>5. \A j \in DOMAIN Overrides[s] : Overrides[s][j] \in GTypes /\ Space[Overrides[s][j]] = s
  BY OrderAssumption
<1>6. ASSUME NEW p \in GTypes, Attribute(p) # 0, Settled(p)
      PROVE  Attribute(p)' = Attribute(p) /\ Settled(p)'
  <2>1. ~In(p, f.left)
    BY <1>2, <1>5, <1>6, AbsentGivesNone DEF In
  <2>2. ASSUME NEW u, NEW i, On(u, i)', F(u, i)'.what = "load", In(p, F(u, i)'.left)
        PROVE  FALSE
    BY <1>4, <1>6, <2>1, <2>2 DEF Pushed, Settled
  <2>3. Settled(p)'
    BY <2>2 DEF Settled, In
  <2> QED BY <1>3, <2>3 DEF Attribute
<1>7. Grows
  BY <1>3, <1>6 DEF Grows, RegTypeOK
<1>8. Sound(f)'
  <2>1. module'[s] = "loading"
    BY <1>3 DEF RegTypeOK
  <2>2. \A j \in DOMAIN Overrides[s] : registry'[Overrides[s][j]] = 0
    BY <1>3, <1>5, AbsentGivesNone
  <2>3. \A j, k \in DOMAIN Overrides[s] : Overrides[s][j] \in Kin[Overrides[s][k]] => j <= k
    BY OrderAssumption
  <2>4. LoadFrame(f)'
    BY <1>2, <1>5, <2>1, <2>2, <2>3 DEF LoadFrame, In
  <2> QED BY <1>2, <2>4 DEF Sound
<1>9. Active(t) => Above(Current(t), f)
  BY <1>2 DEF Above, SpaceOf, FromTypelib
<1>10. \A u, i : On(u, i) /\ F(u, i).what = "load" => F(u, i).of # s
  BY DEF Framed, Sound, LoadFrame
<1>11. ASSUME NEW u, NEW i, NEW g, On(u, i), g = F(u, i)
       PROVE  Undisturbed(g)
  <2>1. Sound(g)
    BY <1>11 DEF Framed
  <2>2. g.what = "load" => module'[g.of] = "loading" /\ \A j \in DOMAIN g.left : registry'[g.left[j]] = 0
    BY <1>3, <1>10, <1>11, <2>1 DEF Sound, LoadFrame, RegTypeOK
  <2>3. g.what = "introspected" => Attribute(g.of)' = 0
    BY <1>3, <2>1 DEF Sound, IntrospectedFrame, Attribute
  <2> QED BY <2>2, <2>3 DEF Undisturbed
<1>12. Stacks'
  BY <1>2, <1>3, <1>7, <1>8, <1>9, <1>10, <1>11, EnterKeeps
<1>13. /\ making' \in [Loaders -> Seq(Making)] /\ typelibs' \subseteq Spaces
       /\ module' \in [Spaces -> {"absent", "loading", "loaded"}]
  <2>1. making' \in [Loaders -> Seq(Making)]
    BY <1>2, <1>3, EnterPlaces
  <2>2. typelibs' \subseteq Spaces
    BY <1>3, SpacesAssumption DEF RegTypeOK
  <2>3. module' \in [Spaces -> {"absent", "loading", "loaded"}]
    BY <1>3 DEF RegTypeOK
  <2> QED BY <2>1, <2>2, <2>3
<1>14. \A r \in Spaces : module'[r] = "loaded" => \A i \in DOMAIN Overrides[r] : registry[Overrides[r][i]] # 0
  BY <1>3 DEF RegTypeOK, Attributes
<1> QED BY <1>3, <1>7, <1>12, <1>13, <1>14, SameClasses

\* When only the stacks change, and no overrides begin to run, everything else stays.
LEMMA StackGrows ==
  ASSUME RegTypeOK, UNCHANGED <<classes, pytype, cached, registry, typelibs, module>>,
         \A p \in GTypes : Settled(p) => Settled(p)'
  PROVE  /\ Grows
         /\ RegInv => \A u, i, g : On(u, i) /\ g = F(u, i) => Undisturbed(g)
<1>1. Grows
  BY DEF Grows, Attribute
<1>2. ASSUME RegInv, NEW u, NEW i, NEW g, On(u, i), g = F(u, i)
      PROVE  Undisturbed(g)
  <2>1. Sound(g)
    BY <1>2 DEF RegInv, Framed
  <2> QED BY <2>1 DEF Sound, LoadFrame, IntrospectedFrame, Undisturbed, Attribute
<1> QED BY <1>1, <1>2

LEMMA MakeClassKeeps ==
  ASSUME RegInv, ~Twice, NEW t \in Loaders, NEW ty \in GTypes, NEW what, MakeClass(t, what, ty),
         \/ what = "introspected" /\ Described(ty) /\ module[Space[ty]] # "absent" /\ Attribute(ty) = 0
         \/ what = "demand" /\ ~Described(ty) /\ Known(ty),
         Active(t) /\ FromTypelib(Current(t)) => what = "introspected" /\ ty \in Needs(Current(t))
  PROVE  RegInv'
<1> USE DEF RegInv
<1>1. PICK f : f = Entered(what, ty)
  OBVIOUS
<1>2. /\ f.what = what /\ f.of = ty /\ f.left = Parents[ty] /\ ~f.checked
      /\ f.bases = IF what = "introspected" /\ ty = Root THEN <<Static>> ELSE << >>
  BY <1>1 DEF Entered
<1>3. f \in Making
  BY <1>1, ParentsAssumption DEF Entered, Making, Static
<1>4. /\ Enter(t, f) /\ UNCHANGED <<classes, pytype, cached, registry, typelibs, module, worn>>
      /\ \A u, i : On(u, i) /\ u # t /\ F(u, i).what = "introspected" => F(u, i).of # ty
  BY <1>1, StackTypes DEF MakeClass, NotTwice, On, F
<1>5. PICK n : Pushed(t, n, f)
  BY <1>3, <1>4, EnterPlaces
<1>6. ASSUME NEW p \in GTypes, Settled(p)
      PROVE  Settled(p)'
  <2> SUFFICES ASSUME NEW u, NEW i, On(u, i)', F(u, i)'.what = "load", In(p, F(u, i)'.left)
      PROVE  FALSE
    BY DEF Settled, In
  <2> QED BY <1>2, <1>5, <1>6 DEF Pushed, Settled
<1>7. Grows /\ \A u, i, g : On(u, i) /\ g = F(u, i) => Undisturbed(g)
  BY <1>4, <1>6, StackGrows
<1>8. Sound(f)'
  <2>1. \A j \in DOMAIN f.bases : f.bases[j] \in DOMAIN classes
    BY <1>2 DEF Attributes
  <2>2. BasesSoFar(f)'
    BY <1>2, <1>4, <2>1 DEF BasesSoFar, In
  <2>3. CASE what = "introspected"
    <3>1. Attribute(f.of)' = 0
      BY <1>2, <1>4, <2>3 DEF Attribute
    <3>2. f.of = Root => Len(f.bases) >= 1 /\ f.bases[1] = Static
      BY <1>2, <2>3
    <3>3. IntrospectedFrame(f)'
      BY <1>2, <1>4, <2>2, <2>3, <3>1, <3>2 DEF IntrospectedFrame
    <3> QED BY <1>2, <2>3, <3>3 DEF Sound
  <2>4. CASE what = "demand"
    <3>1. DemandFrame(f)'
      BY <1>2, <1>4, <2>2, <2>4 DEF DemandFrame, Known
    <3> QED BY <1>2, <2>4, <3>1 DEF Sound
  <2> QED BY <2>3, <2>4
<1>9. Active(t) => Above(Current(t), f)
  BY <1>2 DEF Above, FromTypelib
<1>10. FromTypelib(f) => \A u, i : On(u, i) /\ u # t /\ F(u, i).what = f.what => F(u, i).of # f.of
  BY <1>2, <1>4 DEF FromTypelib
<1>11. Stacks'
  BY <1>3, <1>4, <1>7, <1>8, <1>9, <1>10, EnterKeeps
<1>12. making' \in [Loaders -> Seq(Making)]
  BY <1>3, <1>4, EnterPlaces
<1> QED BY <1>4, <1>7, <1>11, <1>12, SameClasses DEF RegTypeOK, Attributes

\* Tail and Append, place by place.
LEMMA TailPlaces ==
  ASSUME NEW S, NEW left \in Seq(S), left # << >>
  PROVE  /\ left[1] \in S /\ Tail(left) \in Seq(S)
         /\ \A j \in DOMAIN Tail(left) : j + 1 \in DOMAIN left /\ Tail(left)[j] = left[j + 1]
         /\ \A y : In(y, Tail(left)) => In(y, left)
         /\ \A y : In(y, left) => y = left[1] \/ In(y, Tail(left))
<1>1. left[1] \in S /\ Tail(left) \in Seq(S) /\ Len(Tail(left)) = Len(left) - 1 /\ Len(left) \in Nat \ {0}
  OBVIOUS
<1>2. \A j \in DOMAIN Tail(left) : j + 1 \in DOMAIN left /\ Tail(left)[j] = left[j + 1]
  BY <1>1
<1>3. \A y : In(y, Tail(left)) => In(y, left)
  BY <1>2 DEF In
<1>4. ASSUME NEW y, In(y, left)
      PROVE  y = left[1] \/ In(y, Tail(left))
  <2>1. PICK i \in DOMAIN left : left[i] = y
    BY <1>4 DEF In
  <2>2. CASE i # 1
    <3>1. i - 1 \in DOMAIN Tail(left) /\ Tail(left)[i - 1] = left[i]
      BY <1>1, <1>2, <2>1, <2>2
    <3> QED BY <2>1, <3>1 DEF In
  <2> QED BY <2>1, <2>2
<1> QED BY <1>1, <1>2, <1>3, <1>4

LEMMA AppendPlaces ==
  ASSUME NEW R, NEW bases \in Seq(R), NEW x \in R
  PROVE  /\ Append(bases, x) \in Seq(R) /\ Len(Append(bases, x)) = Len(bases) + 1
         /\ \A j \in DOMAIN bases : j \in DOMAIN Append(bases, x) /\ Append(bases, x)[j] = bases[j]
         /\ Len(bases) + 1 \in DOMAIN Append(bases, x) /\ Append(bases, x)[Len(bases) + 1] = x
         /\ \A j \in DOMAIN Append(bases, x) : Append(bases, x)[j] = x \/ j \in DOMAIN bases
<1>1. /\ Append(bases, x) \in Seq(R) /\ Len(Append(bases, x)) = Len(bases) + 1
      /\ DOMAIN Append(bases, x) = 1 .. Len(bases) + 1 /\ DOMAIN bases = 1 .. Len(bases)
      /\ Append(bases, x)[Len(bases) + 1] = x /\ Len(bases) \in Nat
      /\ \A j \in 1 .. Len(bases) : Append(bases, x)[j] = bases[j]
  OBVIOUS
<1> QED BY <1>1

\* The next base is there.
LEMMA TakeKeeps ==
  ASSUME RegInv, NEW t \in Loaders, NEW class, Active(t), Take(t, class),
         Current(t).what \in {"introspected", "demand", "wrap"}, Current(t).left # << >>,
         Good(class, Current(t).left[1])
  PROVE  RegInv'
<1> USE DEF RegInv
<1>1. PICK f : f = Current(t)
  OBVIOUS
<1>2. PICK g : g = [f EXCEPT !.bases = Append(@, class), !.left = Tail(@)]
  OBVIOUS
<1>3. /\ f \in Making /\ On(t, Len(making[t])) /\ F(t, Len(making[t])) = f /\ Sound(f)
      /\ f.what \in {"introspected", "demand", "wrap"} /\ f.left # << >> /\ Good(class, f.left[1])
  BY <1>1, TopPlace DEF Framed
<1>4. f.left \in Seq(GTypes) /\ f.bases \in Seq(Nat) /\ class \in Nat
  <2>1. classes \in Seq([info : GTypes \cup {NoType}, mro : SUBSET (DOMAIN classes)])
    BY DEF RegTypeOK
  <2>2. DOMAIN classes \subseteq Nat
    BY <2>1
  <2> QED BY <1>3, <2>2 DEF Making, Good
<1>5. /\ g \in Making /\ g.what = f.what /\ g.of = f.of /\ g.checked = f.checked
      /\ g.left = Tail(f.left) /\ g.bases = Append(f.bases, class)
  <2>0. Tail(f.left) \in Seq(GTypes) /\ Append(f.bases, class) \in Seq(Nat)
    BY <1>3, <1>4
  <2>1. PICK left \in Seq(GTypes) : left = Tail(f.left)
    BY <2>0
  <2>2. PICK bases \in Seq(Nat) : bases = Append(f.bases, class)
    BY <2>0
  <2>3. g = [f EXCEPT !.bases = bases, !.left = left]
    BY <1>2, <2>1, <2>2
  <2>4. /\ g.what = f.what /\ g.of = f.of /\ g.checked = f.checked
        /\ g.left = left /\ g.bases = bases /\ g \in Making
    BY <1>3, <2>3 DEF Making
  <2> QED BY <2>1, <2>2, <2>4
<1>6. /\ Becomes(t, g) /\ UNCHANGED <<classes, pytype, cached, registry, typelibs, module, worn>>
  BY <1>1, <1>2 DEF Take
<1>7. PICK n : Changed(t, n, g)
  BY <1>5, <1>6, BecomesPlaces
<1>8. ASSUME NEW p \in GTypes, Settled(p)
      PROVE  Settled(p)'
  <2> SUFFICES ASSUME NEW u, NEW i, On(u, i)', F(u, i)'.what = "load", In(p, F(u, i)'.left)
      PROVE  FALSE
    BY DEF Settled, In
  <2> QED BY <1>3, <1>5, <1>7, <1>8 DEF Changed, Settled
<1>9. Grows /\ \A u, i, h : On(u, i) /\ h = F(u, i) => Undisturbed(h)
  BY <1>6, <1>8, StackGrows
<1>10. \A c : \A ty \in GTypes : Good(c, ty) => Good(c, ty)'
  BY <1>9, GoodGrows
<1>11. ASSUME BasesSoFar(f)
       PROVE  BasesSoFar(g)'
  <2>1. f.of \in GTypes /\ \A i \in DOMAIN Parents[f.of] : Parents[f.of][i] \in GTypes
    BY <1>11, ParentsAssumption DEF BasesSoFar
  <2>2. \A j \in DOMAIN g.bases : g.bases[j] \in DOMAIN classes
    BY <1>3, <1>4, <1>5, <1>11, TailPlaces, AppendPlaces DEF BasesSoFar, Good
  <2>3. \A j \in DOMAIN g.left : In(g.left[j], Parents[f.of])
    BY <1>3, <1>4, <1>5, <1>11, TailPlaces, AppendPlaces DEF BasesSoFar
  <2>4. ASSUME NEW i \in DOMAIN Parents[f.of]
        PROVE  In(Parents[f.of][i], g.left) \/ \E j \in DOMAIN g.bases : Good(g.bases[j], Parents[f.of][i])'
    <3>1. CASE \E j \in DOMAIN f.bases : Good(f.bases[j], Parents[f.of][i])
      <4>1. PICK j \in DOMAIN f.bases : Good(f.bases[j], Parents[f.of][i])
        BY <3>1
      <4>2. j \in DOMAIN g.bases /\ g.bases[j] = f.bases[j]
        BY <1>3, <1>4, <1>5, TailPlaces, AppendPlaces
      <4> QED BY <1>10, <2>1, <4>1, <4>2
    <3>2. CASE Parents[f.of][i] = f.left[1]
      <4>1. Len(f.bases) + 1 \in DOMAIN g.bases /\ g.bases[Len(f.bases) + 1] = class
        BY <1>3, <1>4, <1>5, TailPlaces, AppendPlaces
      <4>2. Good(class, Parents[f.of][i])'
        BY <1>3, <1>10, <2>1, <3>2
      <4> QED BY <4>1, <4>2
    <3>3. CASE In(Parents[f.of][i], f.left) /\ Parents[f.of][i] # f.left[1]
      BY <1>3, <1>4, <1>5, <3>3, TailPlaces, AppendPlaces
    <3> QED BY <1>11, <3>1, <3>2, <3>3 DEF BasesSoFar
  <2> QED BY <1>5, <1>6, <2>1, <2>2, <2>3, <2>4 DEF BasesSoFar
<1>12. Sound(g)'
  <2>1. CASE f.what = "introspected"
    <3>1. IntrospectedFrame(f)
      BY <1>3, <2>1 DEF Sound
    <3>2. ~g.checked
      BY <1>3, <1>5, <3>1 DEF IntrospectedFrame, Making
    <3>3. Attribute(g.of)' = 0
      BY <1>5, <1>6, <3>1 DEF IntrospectedFrame, Attribute
    <3>4. g.of = Root => Len(g.bases) >= 1 /\ g.bases[1] = Static
      <4>1. ASSUME f.of = Root
            PROVE  Len(g.bases) >= 1 /\ g.bases[1] = Static
        <5>1. 1 \in DOMAIN f.bases /\ f.bases[1] = Static /\ Len(f.bases) \in Nat
          BY <1>4, <3>1, <4>1 DEF IntrospectedFrame
        <5> QED BY <1>3, <1>4, <1>5, <5>1, TailPlaces, AppendPlaces
      <4> QED BY <1>5, <4>1
    <3>5. IntrospectedFrame(g)'
      BY <1>5, <1>6, <1>11, <3>1, <3>2, <3>3, <3>4 DEF IntrospectedFrame
    <3> QED BY <1>5, <2>1, <3>5 DEF Sound
  <2>2. CASE f.what = "demand"
    <3>1. DemandFrame(g)'
      BY <1>3, <1>5, <1>6, <1>11, <2>2 DEF Sound, DemandFrame, Known
    <3> QED BY <1>5, <2>2, <3>1 DEF Sound
  <2>3. CASE f.what = "wrap"
    <3>1. Known(f.of) /\ f.left = <<f.of>> /\ f.bases = << >>
      BY <1>3, <2>3 DEF Sound, WrapFrame
    <3>2. g.left = << >> /\ Len(g.bases) = 1 /\ g.bases[1] = class
      BY <1>4, <1>5, <3>1
    <3>3. Good(class, f.of)'
      BY <1>3, <1>10, <3>1 DEF Known
    <3>4. WrapFrame(g)'
      BY <1>5, <1>6, <3>1, <3>2, <3>3 DEF WrapFrame, Known
    <3> QED BY <1>5, <2>3, <3>4 DEF Sound
  <2> QED BY <1>3, <2>1, <2>2, <2>3
<1>13. Stacks'
  BY <1>1, <1>5, <1>6, <1>9, <1>12, BecomesKeeps
<1>14. making' \in [Loaders -> Seq(Making)]
  BY <1>5, <1>6, BecomesPlaces
<1> QED BY <1>6, <1>9, <1>13, <1>14, SameClasses DEF RegTypeOK, Attributes

\* What the next base is: an ancestor from a typelib, or a GType that can be looked up.
LEMMA NextBase ==
  ASSUME RegInv, NEW t \in Loaders, Active(t), Current(t).left # << >>,
         Current(t).what \in {"introspected", "demand", "wrap"}
  PROVE  /\ Current(t) \in Making /\ Sound(Current(t)) /\ Current(t).left[1] \in GTypes
         /\ Current(t).what = "introspected" =>
              Current(t).left[1] \in Needs(Current(t)) /\ Described(Current(t).left[1])
         /\ Current(t).what # "introspected" => Known(Current(t).left[1])
<1>1. PICK f : f = Current(t)
  OBVIOUS
<1>2. f \in Making /\ Sound(f) /\ f.what \in {"introspected", "demand", "wrap"} /\ f.left # << >>
  BY <1>1, TopPlace DEF RegInv, Framed
<1>3. f.left \in Seq(GTypes)
  BY <1>2 DEF Making
<1>4. 1 \in DOMAIN f.left /\ f.left[1] \in GTypes
  BY <1>2, <1>3
<1>5. ASSUME BasesSoFar(f)
      PROVE  f.of \in GTypes /\ f.left[1] \in Kin[f.of] /\ f.left[1] # f.of
  <2>1. f.of \in GTypes
    BY <1>5 DEF BasesSoFar
  <2>2. PICK i \in DOMAIN Parents[f.of] : Parents[f.of][i] = f.left[1]
    BY <1>4, <1>5 DEF BasesSoFar, In
  <2>3. f.left[1] \in Kin[f.left[1]]
    BY <1>4, KinFacts
  <2> QED BY <2>1, <2>2, <2>3, KinFacts, ParentsAssumption
<1>6. CASE f.what = "introspected"
  <2>1. BasesSoFar(f) /\ Described(f.of)
    BY <1>2, <1>6 DEF Sound, IntrospectedFrame
  <2> QED BY <1>1, <1>2, <1>4, <1>5, <1>6, <2>1, KinSpaces DEF Needs
<1>7. CASE f.what = "demand"
  <2>1. BasesSoFar(f) /\ Known(f.of)
    BY <1>2, <1>7 DEF Sound, DemandFrame
  <2> QED BY <1>1, <1>2, <1>4, <1>5, <1>7, <2>1, KinFacts DEF Known
<1>8. CASE f.what = "wrap"
  <2>1. Known(f.of) /\ f.left[1] = f.of
    BY <1>2, <1>8 DEF Sound, WrapFrame
  <2> QED BY <1>1, <1>2, <1>4, <1>8, <2>1
<1> QED BY <1>2, <1>6, <1>7, <1>8

\* What a thread may take from a module is settled.
LEMMA NextSettled ==
  ASSUME RegInv, ~Premature, NEW t \in Loaders, Active(t), Current(t).left # << >>,
         Current(t).what \in {"introspected", "demand", "wrap"},
         NotLoading(t, Space[Current(t).left[1]])
  PROVE  Settled(Current(t).left[1])
<1>1. PICK p \in GTypes : p = Current(t).left[1]
  BY NextBase
<1>2. CASE module[Space[p]] # "loading"
  BY <1>1, <1>2, NotLoadingSettled
<1>3. CASE Loads(t, Space[p])
  <2>1. Current(t).what = "introspected"
    BY <1>3, NoLoads DEF FromTypelib
  <2> QED BY <1>1, <1>3, <2>1, NextBase, OwnLoadSettled
<1> QED BY <1>1, <1>2, <1>3 DEF NotLoading

LEMMA GetAttributeKeeps ==
  ASSUME RegInv, ~Premature, ~Twice, NEW t \in Loaders, Active(t), Current(t).left # << >>,
         Current(t).what \in {"introspected", "demand", "wrap"}, Described(Current(t).left[1]),
         GetAttribute(t, Current(t).left[1])
  PROVE  RegInv'
<1>1. PICK p \in GTypes : p = Current(t).left[1]
  BY NextBase
<1>2. Described(p) /\ Space[p] \in Spaces
  BY <1>1, SpacesAssumption DEF Described
<1>3. CASE module[Space[p]] = "absent" /\ Load(t, Space[p])
  <2>1. ASSUME FromTypelib(Current(t))
        PROVE  Space[p] \in Depends[SpaceOf(Current(t))]
    <3>1. Current(t).what = "introspected" /\ Current(t) \in Making /\ Sound(Current(t))
      BY <2>1, NextBase DEF FromTypelib
    <3>2. Space[p] \in {SpaceOf(Current(t))} \cup Depends[SpaceOf(Current(t))]
      BY <1>1, <2>1, <3>1, NextBase, FrameSpace
    <3>3. module[SpaceOf(Current(t))] # "absent"
      BY <3>1 DEF Sound, IntrospectedFrame, SpaceOf
    <3> QED BY <1>3, <3>2, <3>3
  <2> QED BY <1>2, <1>3, <2>1, LoadKeeps
<1>4. CASE NotLoading(t, Space[p]) /\ Attribute(p) # 0 /\ Take(t, Attribute(p))
  <2>1. Good(Attribute(p), p)
    BY <1>1, <1>4, NextSettled, GivenGood
  <2>2. PICK class : class = Attribute(p)
    OBVIOUS
  <2> QED BY <1>1, <1>4, <2>1, <2>2, TakeKeeps
<1>5. CASE module[Space[p]] # "absent" /\ Attribute(p) = 0 /\ MakeClass(t, "introspected", p)
  <2>1. PICK what : what = "introspected"
    OBVIOUS
  <2>2. FromTypelib(Current(t)) => p \in Needs(Current(t))
    BY <1>1, NextBase DEF FromTypelib
  <2> QED BY <1>2, <1>5, <2>1, <2>2, MakeClassKeeps
<1> QED BY <1>1, <1>3, <1>4, <1>5 DEF GetAttribute

LEMMA LookupClassKeeps ==
  ASSUME RegInv, ~Premature, ~Twice, NEW t \in Loaders, Active(t), Current(t).left # << >>,
         Current(t).what \in {"demand", "wrap"}, LookupClass(t, Current(t).left[1])
  PROVE  RegInv'
<1>1. PICK p \in GTypes : p = Current(t).left[1]
  BY NextBase
<1>2. Known(p) /\ Current(t).what \in {"introspected", "demand", "wrap"}
  BY <1>1, NextBase
<1>3. CASE pytype[p] # 0 /\ (Described(p) => NotLoading(t, Space[p])) /\ Take(t, pytype[p])
  <2>1. CASE Attribute(p) # 0
    <3>1. Described(p) /\ pytype[p] = Attribute(p)
      BY <2>1 DEF RegInv, Attributes, Given
    <3>2. Good(pytype[p], p)
      BY <1>1, <1>2, <1>3, <2>1, <3>1, NextSettled, GivenGood
    <3> QED BY <1>1, <1>2, <1>3, <3>2, TakeKeeps
  <2>2. CASE Attribute(p) = 0
    <3>1. Attribute(Root) # 0
      <4>1. PICK i \in DOMAIN Overrides[Space[Root]] : Overrides[Space[Root]][i] = Root
        BY OrderAssumption
      <4>2. Space[Root] \in Spaces
        BY ParentsAssumption, SpacesAssumption, OrderAssumption DEF Described
      <4>3. registry[Root] # 0
        BY <1>2, <4>1, <4>2 DEF RegInv, Attributes, Known
      <4> QED BY <4>3 DEF Attribute
    <3>2. Good(pytype[p], p)
      BY <1>3, <2>2, <3>1 DEF RegInv, Attributes
    <3> QED BY <1>1, <1>2, <1>3, <3>2, TakeKeeps
  <2> QED BY <2>1, <2>2
<1>4. CASE Described(p) /\ GetAttribute(t, p)
  BY <1>1, <1>2, <1>4, GetAttributeKeeps
<1>5. CASE ~(Described(p) /\ Space[p] \in typelibs) /\ MakeClass(t, "demand", p)
  <2>1. ~Described(p)
    BY <1>2, <1>5, KinFacts DEF Known
  <2>2. PICK what : what = "demand"
    OBVIOUS
  <2> QED BY <1>1, <1>2, <1>5, <2>1, <2>2, MakeClassKeeps DEF FromTypelib
<1> QED BY <1>1, <1>3, <1>4, <1>5 DEF LookupClass

-----------------------------------------------------------------------------
(* New classes *)

\* Class n is the one more there is, and derives from what its bases derive from.
Made(n, info, bases) ==
  /\ n # 0 /\ n \notin DOMAIN classes /\ DOMAIN classes' = DOMAIN classes \cup {n}
  /\ \A c \in DOMAIN classes : classes'[c] = classes[c]
  /\ n \in classes'[n].mro /\ classes'[n].info = info
  /\ \A j \in DOMAIN bases : classes[bases[j]].mro \subseteq classes'[n].mro

\* What the classes of this state, and of the next, are.
Class == [info : GTypes \cup {NoType}, mro : SUBSET (DOMAIN classes)]

LEMMA NewClassMade ==
  ASSUME RegTypeOK, NEW info \in GTypes \cup {NoType}, NEW bases \in Seq(Nat), NewClass(info, bases),
         \A j \in DOMAIN bases : bases[j] \in DOMAIN classes
  PROVE  /\ classes' \in Seq(Class)'
         /\ \E given \in GTypes \cup {NoType} :
              /\ given = IF info = NoType /\ bases # << >> THEN classes[bases[1]].info ELSE info
              /\ Made(New, given, bases)
<1>1. PICK n : n = Len(classes)
  OBVIOUS
<1>2. classes \in Seq(Class)
  BY DEF RegTypeOK, Class
<1>3. /\ n \in Nat /\ DOMAIN classes = 1 .. n
      /\ \A c \in DOMAIN classes : classes[c] \in Class
  BY <1>1, <1>2
<1>4. PICK given : given = IF info = NoType /\ bases # << >> THEN classes[bases[1]].info ELSE info
  OBVIOUS
<1>5. given \in GTypes \cup {NoType}
  <2>1. CASE bases # << >>
    <3>1. bases[1] \in DOMAIN classes
      BY <2>1
    <3> QED BY <1>3, <1>4, <3>1 DEF Class
  <2> QED BY <1>4, <2>1
<1>6. PICK mro : mro = {n + 1} \cup UNION {classes[bases[i]].mro : i \in DOMAIN bases}
  OBVIOUS
<1>7. mro \subseteq 1 .. n + 1
  <2>1. \A i \in DOMAIN bases : classes[bases[i]].mro \subseteq 1 .. n
    BY <1>3 DEF Class
  <2> QED BY <1>3, <1>6, <2>1
<1>8. PICK class : class = [info |-> given, mro |-> mro]
  OBVIOUS
<1>9. classes' = Append(classes, class)
  BY <1>1, <1>4, <1>6, <1>8 DEF NewClass
<1>10. PICK S : S = [info : GTypes \cup {NoType}, mro : SUBSET (1 .. n + 1)]
  OBVIOUS
<1>11. class \in S /\ classes \in Seq(S)
  <2>1. class \in S
    BY <1>5, <1>7, <1>8, <1>10
  <2>2. Class \subseteq S
    BY <1>3, <1>10 DEF Class
  <2> QED BY <1>2, <2>1, <2>2, SeqMonotonic
<1>12. /\ Len(classes') = n + 1 /\ DOMAIN classes' = 1 .. n + 1 /\ classes' \in Seq(S)
       /\ \A c \in 1 .. n : classes'[c] = classes[c]
       /\ classes'[n + 1] = class
  BY <1>1, <1>3, <1>9, <1>11
<1>13. Class' = S
  BY <1>10, <1>12 DEF Class
<1>14. Made(n + 1, given, bases)
  <2>1. \A j \in DOMAIN bases : classes[bases[j]].mro \subseteq mro
    BY <1>6
  <2>2. n + 1 \in mro
    BY <1>6
  <2> QED BY <1>3, <1>8, <1>12, <2>1, <2>2 DEF Made
<1> QED BY <1>1, <1>4, <1>5, <1>12, <1>13, <1>14 DEF New

\* A class derives from what its bases, one for each parent, derive from.
LEMMA DerivesFromBases ==
  ASSUME Grows, NEW ty \in GTypes, NEW n, NEW info, NEW bases, Made(n, info, bases),
         \A i \in DOMAIN Parents[ty] : \E j \in DOMAIN bases : Good(bases[j], Parents[ty][i])
  PROVE  \A p \in Kin[ty] \ {ty} : Covers(n, p)'
<1> SUFFICES ASSUME NEW p \in Kin[ty] \ {ty}
    PROVE  Covers(n, p)'
  OBVIOUS
<1>1. PICK i \in DOMAIN Parents[ty] : p \in Kin[Parents[ty][i]]
  BY KinFacts
<1>2. PICK j \in DOMAIN bases : Good(bases[j], Parents[ty][i])
  BY <1>1
<1>3. Covers(bases[j], p)
  BY <1>1, <1>2 DEF Good
<1>4. p \in GTypes /\ classes[bases[j]].mro \subseteq classes'[n].mro
  BY <1>2, KinFacts DEF Made
<1>5. Described(p) => Attribute(p)' = Attribute(p) /\ Settled(p)'
  BY <1>3, <1>4 DEF Grows, Covers
<1> QED BY <1>3, <1>4, <1>5 DEF Covers

\* What modules give, if one GType gets a class.
LEMMA AttributesBut ==
  ASSUME RegInv, Grows, UNCHANGED module, NEW ty \in GTypes, NEW n, pytype'[ty] = n,
         \A x \in GTypes \ {ty} :
           Attribute(x)' = Attribute(x) /\ cached'[x] = cached[x] /\ pytype'[x] = pytype[x],
         Given(ty)', cached'[ty] # 0 => classes'[cached'[ty]].info = ty,
         n # 0 /\ Attribute(ty)' = 0 => ~Described(ty) /\ Good(n, ty)'
  PROVE  Attributes'
<1>1. Static \in DOMAIN classes'
  BY DEF RegInv, Attributes, Grows
<1>2. \A x \in GTypes : Given(x)'
  BY GivenStays DEF RegInv, Attributes
<1>3. \A x \in GTypes : cached'[x] # 0 => classes'[cached'[x]].info = x
  <2> SUFFICES ASSUME NEW x \in GTypes \ {ty}, cached[x] # 0
      PROVE  classes'[cached[x]].info = x
    OBVIOUS
  <2>1. cached[x] \in DOMAIN classes /\ classes[cached[x]].info = x
    BY DEF RegInv, RegTypeOK, Attributes
  <2> QED BY <2>1 DEF Grows
<1>4. ASSUME NEW x \in GTypes, pytype'[x] # 0, Attribute(x)' = 0
      PROVE  IF Described(x) THEN x = Root /\ pytype'[x] = Static ELSE Good(pytype[x], x)'
  <2>1. CASE x = ty
    BY <1>4, <2>1 DEF Good
  <2>2. CASE x # ty
    <3>1. pytype'[x] = pytype[x] /\ pytype[x] # 0 /\ Attribute(x) = 0
      BY <1>4, <2>2
    <3>2. IF Described(x) THEN x = Root /\ pytype[x] = Static ELSE Good(pytype[x], x)
      BY <3>1 DEF RegInv, Attributes
    <3>3. PICK c : c = pytype[x]
      OBVIOUS
    <3>4. Good(c, x) => Good(c, x)'
      BY GoodGrows
    <3> QED BY <3>1, <3>2, <3>3, <3>4 DEF Good
  <2> QED BY <2>1, <2>2
<1>5. \A s \in Spaces : module'[s] = "loaded" =>
        \A i \in DOMAIN Overrides[s] : registry'[Overrides[s][i]] # 0
  <2>1. \A s \in Spaces : \A i \in DOMAIN Overrides[s] : Overrides[s][i] \in GTypes
    BY OrderAssumption
  <2> QED BY <2>1 DEF RegInv, Attributes, Grows
<1> QED BY <1>1, <1>2, <1>3, <1>4, <1>5 DEF Attributes

\* Nobody's stack has less of its overrides left: what was settled is.
LEMMA StillSettled ==
  ASSUME NEW p, Settled(p),
         \A u, i : On(u, i)' /\ F(u, i)'.what = "load" /\ In(p, F(u, i)'.left) =>
           \E j : On(u, j) /\ F(u, j).what = "load" /\ In(p, F(u, j).left)
  PROVE  Settled(p)'
BY DEF Settled, In

\* What remains of the invariant when a class has been made.
LEMMA MadeKeeps ==
  ASSUME RegInv, Grows, classes' \in Seq(Class)', UNCHANGED <<typelibs, module, worn>>,
         NEW n \in DOMAIN classes', NEW ty \in GTypes, pytype' = [pytype EXCEPT ![ty] = n],
         cached' \in {cached, [cached EXCEPT ![ty] = n]},
         registry' \in {registry, [registry EXCEPT ![ty] = n]},
         making' \in [Loaders -> Seq(Making)], Stacks', Attributes'
  PROVE  RegInv'
<1>1. DOMAIN classes \subseteq DOMAIN classes'
  BY DEF Grows
<1>2. {pytype, cached, registry} \subseteq [GTypes -> {0} \cup DOMAIN classes']
  BY <1>1 DEF RegInv, RegTypeOK
<1>3. {pytype', cached', registry'} \subseteq [GTypes -> {0} \cup DOMAIN classes']
  <2>1. pytype' \in [GTypes -> {0} \cup DOMAIN classes']
    BY <1>2
  <2>2. cached' \in [GTypes -> {0} \cup DOMAIN classes']
    BY <1>2
  <2>3. registry' \in [GTypes -> {0} \cup DOMAIN classes']
    BY <1>2
  <2> QED BY <2>1, <2>2, <2>3
<1>4. worn \in [GTypes -> SUBSET DOMAIN classes']
  BY <1>1 DEF RegInv, RegTypeOK
<1>5. RegTypeOK'
  BY <1>3, <1>4 DEF RegInv, RegTypeOK, Class
<1>6. Worn'
  BY GoodGrows DEF RegInv, Worn
<1> QED BY <1>5, <1>6 DEF RegInv, Stacks

LEMMA IntrospectClassKeeps ==
  ASSUME RegInv, NEW t \in Loaders, IntrospectClass(t)
  PROVE  RegInv'
<1> USE DEF RegInv
<1>1. PICK f : f = Current(t)
  OBVIOUS
<1>2. /\ Active(t) /\ f.what = "introspected" /\ f.checked /\ NewClass(f.of, f.bases) /\ Leave(t)
      /\ pytype' = [pytype EXCEPT ![f.of] = New] /\ cached' = [cached EXCEPT ![f.of] = New]
      /\ UNCHANGED <<registry, typelibs, module, worn>>
  BY <1>1 DEF IntrospectClass
<1>3. f \in Making /\ On(t, Len(making[t])) /\ F(t, Len(making[t])) = f /\ Sound(f)
  BY <1>1, <1>2, TopPlace DEF Framed
<1>4. IntrospectedFrame(f) /\ BasesSoFar(f) /\ f.left = << >> /\ f.bases \in Seq(Nat) /\ f.of \in GTypes
  BY <1>2, <1>3 DEF Sound, IntrospectedFrame, BasesSoFar, Making
<1>5. PICK n : n = New /\ Made(n, f.of, f.bases) /\ classes' \in Seq(Class)'
  <2>1. PICK info \in GTypes, bases \in Seq(Nat) : info = f.of /\ bases = f.bases
    BY <1>4
  <2>2. NewClass(info, bases) /\ \A j \in DOMAIN bases : bases[j] \in DOMAIN classes
    BY <1>2, <1>4, <2>1 DEF BasesSoFar
  <2>3. info # NoType
    BY ParentsAssumption
  <2>4. Made(New, info, bases) /\ classes' \in Seq(Class)'
    BY <2>2, <2>3, NewClassMade
  <2> QED BY <2>1, <2>4
<1>6. PICK k : Popped(t, k)
  BY <1>2, LeavePlaces
<1>7. /\ cached[f.of] = 0 /\ registry[f.of] = 0 /\ Described(f.of) /\ module[Space[f.of]] # "absent"
      /\ Attribute(f.of)' = n /\ cached'[f.of] = n /\ pytype'[f.of] = n
      /\ \A x \in GTypes \ {f.of} :
           Attribute(x)' = Attribute(x) /\ cached'[x] = cached[x] /\ pytype'[x] = pytype[x]
  BY <1>2, <1>4, <1>5 DEF IntrospectedFrame, Attribute, RegTypeOK
<1>8. \A p : Settled(p) => Settled(p)'
  BY <1>6, StillSettled DEF Popped
<1>9. Grows
  <2>1. \A p \in GTypes : Attribute(p) # 0 => Attribute(p)' = Attribute(p)
    BY <1>4, <1>7 DEF IntrospectedFrame
  <2> QED BY <1>2, <1>5, <1>8, <2>1 DEF Grows, Made
<1>10. ASSUME NEW u, NEW i, NEW g, On(u, i), g = F(u, i), ~(u = t /\ i = Len(making[t]))
       PROVE  Undisturbed(g)
  <2>1. Sound(g) /\ g \in Making
    BY <1>10, StackTypes DEF Framed
  <2>2. g.what = "load" => module'[g.of] = "loading" /\ \A j \in DOMAIN g.left : registry'[g.left[j]] = 0
    BY <1>2, <2>1 DEF Sound, LoadFrame
  <2>3. ASSUME g.what = "introspected"
        PROVE  Attribute(g.of)' = 0
    <3>1. g.of # f.of
      BY <1>2, <1>3, <1>10, <2>3, Once DEF FromTypelib
    <3>2. g.of \in GTypes /\ Attribute(g.of) = 0
      BY <2>1, <2>3 DEF Sound, IntrospectedFrame, BasesSoFar
    <3> QED BY <1>7, <3>1, <3>2
  <2> QED BY <2>2, <2>3 DEF Undisturbed
<1>11. Stacks' /\ making' \in [Loaders -> Seq(Making)]
  BY <1>2, <1>9, <1>10, LeaveKeeps, LeavePlaces
<1>12. \A p \in Kin[f.of] \ {f.of} : Covers(n, p)'
  <2>1. \A i \in DOMAIN Parents[f.of] : \E j \in DOMAIN f.bases : Good(f.bases[j], Parents[f.of][i])
    BY <1>4 DEF BasesSoFar, In
  <2> QED BY <1>4, <1>5, <1>9, <2>1, DerivesFromBases
<1>13. Given(f.of)'
  BY <1>2, <1>5, <1>7, <1>12 DEF Given, Made, Covers
<1>14. Attributes'
  BY <1>2, <1>4, <1>5, <1>7, <1>9, <1>13, AttributesBut DEF Made
<1> QED BY <1>2, <1>4, <1>5, <1>9, <1>11, <1>14, MadeKeeps DEF Made

LEMMA OverrideKeeps ==
  ASSUME RegInv, NEW t \in Loaders, Override(t)
  PROVE  RegInv'
<1> USE DEF RegInv
<1>1. PICK f, ty, base : f = Current(t) /\ ty = f.left[1] /\ base = cached[ty]
  OBVIOUS
<1>2. /\ Active(t) /\ f.what = "load" /\ f.left # << >> /\ base # 0 /\ classes[base].info # NoType
      /\ NewClass(NoType, <<base>>)
      /\ pytype' = [pytype EXCEPT ![classes[base].info] = New]
      /\ registry' = [registry EXCEPT ![ty] = New]
      /\ Becomes(t, [f EXCEPT !.left = Tail(@)])
      /\ UNCHANGED <<cached, typelibs, module, worn>>
  BY <1>1 DEF Override
<1>3. f \in Making /\ On(t, Len(making[t])) /\ F(t, Len(making[t])) = f /\ Sound(f)
  BY <1>1, <1>2, TopPlace DEF Framed
<1>4. LoadFrame(f) /\ f.left \in Seq(GTypes) /\ ty \in GTypes /\ 1 \in DOMAIN f.left
  <2>1. f.left \in Seq(GTypes)
    BY <1>3 DEF Making
  <2> QED BY <1>1, <1>2, <1>3, <2>1 DEF Sound
<1>5. base \in DOMAIN classes /\ classes[base].info = ty /\ registry[ty] = 0 /\ Attribute(ty) = base
  BY <1>1, <1>2, <1>4 DEF RegTypeOK, Attributes, LoadFrame, Attribute
<1>6. PICK n : n = New /\ Made(n, ty, <<base>>) /\ classes' \in Seq(Class)'
  <2>1. <<base>> \in Seq(Nat)
    <3>1. base \in Nat
      BY <1>5 DEF RegTypeOK
    <3> QED BY <3>1
  <2>2. PICK info, bases : info = NoType /\ bases = <<base>> /\ bases \in Seq(Nat)
    BY <2>1
  <2>3. NewClass(info, bases) /\ \A j \in DOMAIN bases : bases[j] \in DOMAIN classes
    BY <1>2, <1>5, <2>2
  <2>4. bases # << >> /\ classes[bases[1]].info = ty
    BY <1>5, <2>2
  <2>5. Made(New, ty, bases) /\ classes' \in Seq(Class)'
    BY <2>2, <2>3, <2>4, NewClassMade
  <2> QED BY <2>2, <2>5
<1>7. PICK g : g = [f EXCEPT !.left = Tail(@)]
  OBVIOUS
<1>8. /\ g \in Making /\ g.what = "load" /\ g.of = f.of /\ g.left = Tail(f.left)
      /\ Tail(f.left) \in Seq(GTypes)
  <2>1. PICK left \in Seq(GTypes) : left = Tail(f.left)
    <3>1. Tail(f.left) \in Seq(GTypes)
      BY <1>2, <1>4
    <3> QED BY <3>1
  <2>2. g = [f EXCEPT !.left = left]
    BY <1>7, <2>1
  <2> QED BY <1>2, <1>3, <2>1, <2>2 DEF Making
<1>9. PICK k : Changed(t, k, g)
  BY <1>2, <1>7, <1>8, BecomesPlaces
<1>10. /\ Attribute(ty)' = n /\ cached'[ty] = base /\ pytype'[ty] = n /\ registry'[ty] = n
       /\ \A x \in GTypes \ {ty} : /\ Attribute(x)' = Attribute(x) /\ cached'[x] = cached[x]
                                   /\ pytype'[x] = pytype[x] /\ registry'[x] = registry[x]
  BY <1>1, <1>2, <1>4, <1>5, <1>6 DEF Attribute, RegTypeOK, Made
<1>11. /\ \A j \in DOMAIN g.left : j + 1 \in DOMAIN f.left /\ g.left[j] = f.left[j + 1]
       /\ \A y : In(y, g.left) => In(y, f.left)
       /\ \A y : In(y, f.left) => y = ty \/ In(y, g.left)
  BY <1>1, <1>2, <1>4, <1>8, TailPlaces
<1>12. \A p : Settled(p) => Settled(p)' /\ p # ty
  <2>1. ASSUME NEW p, Settled(p)
        PROVE  Settled(p)'
    BY <1>2, <1>3, <1>9, <1>11, <2>1, StillSettled DEF Changed
  <2>2. In(ty, f.left)
    BY <1>1, <1>4 DEF In
  <2> QED BY <1>2, <1>3, <2>1, <2>2 DEF Settled
<1>13. Grows
  <2>1. \A p \in GTypes : Attribute(p) # 0 /\ Settled(p) => Attribute(p)' = Attribute(p)
    BY <1>10, <1>12
  <2>2. \A p \in GTypes : registry[p] # 0 => registry'[p] # 0
    BY <1>5, <1>10
  <2> QED BY <1>2, <1>6, <1>12, <2>1, <2>2 DEF Grows, Made
<1>14. ASSUME NEW u, NEW i, NEW h, On(u, i), h = F(u, i), ~(u = t /\ i = Len(making[t]))
       PROVE  Undisturbed(h)
  <2>1. Sound(h) /\ h \in Making
    BY <1>14, StackTypes DEF Framed
  <2>2. ASSUME h.what = "load"
        PROVE  module'[h.of] = "loading" /\ \A j \in DOMAIN h.left : registry'[h.left[j]] = 0
    <3>1. h.of # f.of
      BY <1>2, <1>3, <1>14, <2>2, Once DEF FromTypelib
    <3>2. LoadFrame(h) /\ h.left \in Seq(GTypes)
      BY <2>1, <2>2 DEF Sound, Making
    <3>3. \A j \in DOMAIN h.left : h.left[j] \in GTypes /\ h.left[j] # ty
      BY <1>1, <1>4, <3>1, <3>2 DEF LoadFrame
    <3> QED BY <1>2, <1>10, <3>2, <3>3 DEF LoadFrame
  <2>3. ASSUME h.what = "introspected"
        PROVE  Attribute(h.of)' = 0
    <3>1. h.of \in GTypes /\ Attribute(h.of) = 0
      BY <2>1, <2>3 DEF Sound, IntrospectedFrame, BasesSoFar
    <3> QED BY <1>2, <1>5, <1>10, <3>1
  <2> QED BY <2>2, <2>3 DEF Undisturbed
<1>15. Sound(g)'
  <2>1. \A j, l \in DOMAIN g.left : g.left[j] \in Kin[g.left[l]] => j <= l
    <3> SUFFICES ASSUME NEW j \in DOMAIN g.left, NEW l \in DOMAIN g.left, g.left[j] \in Kin[g.left[l]]
        PROVE  j <= l
      OBVIOUS
    <3>1. j + 1 <= l + 1
      BY <1>4, <1>11 DEF LoadFrame
    <3>2. j \in Nat /\ l \in Nat
      BY <1>8
    <3> QED BY <3>1, <3>2
  <2>2. ASSUME NEW j \in DOMAIN g.left
        PROVE  Space[g.left[j]] = f.of /\ registry'[g.left[j]] = 0
    <3>1. j + 1 \in DOMAIN f.left /\ g.left[j] = f.left[j + 1] /\ j \in Nat \ {0}
      BY <1>8, <1>11
    <3>2. g.left[j] \in GTypes
      BY <1>8
    <3>3. g.left[j] # ty
      <4>1. SUFFICES ASSUME g.left[j] = ty
                     PROVE  FALSE
        OBVIOUS
      <4>2. f.left[j + 1] \in Kin[f.left[1]]
        BY <1>1, <1>4, <3>1, <4>1, KinFacts
      <4>3. j + 1 <= 1
        BY <1>4, <3>1, <4>2 DEF LoadFrame
      <4> QED BY <3>1, <4>3
    <3> QED BY <1>4, <1>10, <3>1, <3>2, <3>3 DEF LoadFrame
  <2>3. ASSUME NEW i \in DOMAIN Overrides[f.of]
        PROVE  registry'[Overrides[f.of][i]] # 0 \/ In(Overrides[f.of][i], g.left)
    <3>1. Overrides[f.of][i] \in GTypes
      BY <1>4, OrderAssumption DEF LoadFrame
    <3>2. registry[Overrides[f.of][i]] # 0 \/ In(Overrides[f.of][i], f.left)
      BY <1>4 DEF LoadFrame
    <3>3. n # 0
      BY <1>6 DEF Made
    <3> QED BY <1>10, <1>11, <1>13, <3>1, <3>2, <3>3 DEF Grows
  <2>4. LoadFrame(g)'
    BY <1>2, <1>4, <1>8, <2>1, <2>2, <2>3 DEF LoadFrame, In
  <2> QED BY <1>8, <2>4 DEF Sound
<1>16. Stacks' /\ making' \in [Loaders -> Seq(Making)]
  BY <1>1, <1>2, <1>7, <1>8, <1>13, <1>14, <1>15, BecomesKeeps, BecomesPlaces
<1>17. Given(ty)'
  <2>1. Given(ty) /\ n \in classes'[n].mro /\ classes[base].mro \subseteq classes'[n].mro
    BY <1>4, <1>6 DEF Attributes, Made
  <2>2. ASSUME NEW p \in Kin[ty] \ {ty}
        PROVE  Covers(n, p)'
    <3>1. p \in GTypes /\ Covers(base, p)
      BY <1>2, <1>4, <1>5, <2>1, KinFacts DEF Given
    <3>2. Described(p) => Attribute(p)' = Attribute(p) /\ Settled(p)'
      BY <1>13, <3>1 DEF Covers, Grows
    <3> QED BY <2>1, <3>1, <3>2 DEF Covers
  <2> QED BY <1>2, <1>5, <1>10, <2>1, <2>2 DEF Given, Covers
<1>18. Attributes'
  <2>1. classes'[base] = classes[base] /\ n # 0
    BY <1>5, <1>6 DEF Made
  <2> QED BY <1>2, <1>4, <1>5, <1>10, <1>13, <1>17, <2>1, AttributesBut
<1> QED BY <1>2, <1>4, <1>5, <1>6, <1>13, <1>16, <1>18, MadeKeeps DEF Made

\* A class for a GType that no typelib describes derives from all it should.
LEMMA MadeGood ==
  ASSUME Grows, NEW ty \in GTypes, ~Described(ty), NEW n, NEW info, NEW bases, Made(n, info, bases),
         \A i \in DOMAIN Parents[ty] : \E j \in DOMAIN bases : Good(bases[j], Parents[ty][i])
  PROVE  Good(n, ty)'
<1>1. \A p \in Kin[ty] \ {ty} : Covers(n, p)'
  BY DerivesFromBases
<1>2. Covers(n, ty)'
  BY DEF Covers
<1>3. n \in DOMAIN classes'
  BY DEF Made
<1> QED BY <1>1, <1>2, <1>3 DEF Good

LEMMA DemandClassKeeps ==
  ASSUME RegInv, NEW t \in Loaders, DemandClass(t)
  PROVE  RegInv'
<1> USE DEF RegInv
<1>1. PICK f : f = Current(t)
  OBVIOUS
<1>2. /\ Active(t) /\ f.what = "demand" /\ f.left = << >> /\ NewClass(NoType, f.bases) /\ Leave(t)
      /\ pytype' = [pytype EXCEPT ![f.of] = New]
      /\ UNCHANGED <<cached, registry, typelibs, module, worn>>
  BY <1>1 DEF DemandClass
<1>3. f \in Making /\ On(t, Len(making[t])) /\ F(t, Len(making[t])) = f /\ Sound(f)
  BY <1>1, <1>2, TopPlace DEF Framed
<1>4. BasesSoFar(f) /\ ~Described(f.of) /\ f.bases \in Seq(Nat) /\ f.of \in GTypes
  BY <1>2, <1>3 DEF Sound, DemandFrame, BasesSoFar, Making
<1>5. PICK n, info : n = New /\ Made(n, info, f.bases) /\ classes' \in Seq(Class)'
  <2>1. PICK none, bases : none = NoType /\ bases = f.bases
    OBVIOUS
  <2>2. NewClass(none, bases) /\ bases \in Seq(Nat) /\ \A j \in DOMAIN bases : bases[j] \in DOMAIN classes
    BY <1>2, <1>4, <2>1 DEF BasesSoFar
  <2> QED BY <2>1, <2>2, NewClassMade
<1>6. PICK k : Popped(t, k)
  BY <1>2, LeavePlaces
<1>7. /\ \A x \in GTypes : Attribute(x)' = Attribute(x)
      /\ pytype'[f.of] = n /\ \A x \in GTypes \ {f.of} : pytype'[x] = pytype[x]
  BY <1>2, <1>4, <1>5 DEF Attribute, RegTypeOK
<1>8. \A p : Settled(p) => Settled(p)'
  BY <1>6, StillSettled DEF Popped
<1>9. Grows
  BY <1>2, <1>5, <1>7, <1>8 DEF Grows, Made
<1>10. ASSUME NEW u, NEW i, NEW g, On(u, i), g = F(u, i), ~(u = t /\ i = Len(making[t]))
       PROVE  Undisturbed(g)
  <2>1. Sound(g) /\ g \in Making
    BY <1>10, StackTypes DEF Framed
  <2> QED BY <1>2, <1>7, <2>1 DEF Undisturbed, Sound, LoadFrame, IntrospectedFrame, BasesSoFar
<1>11. Stacks' /\ making' \in [Loaders -> Seq(Making)]
  BY <1>2, <1>9, <1>10, LeaveKeeps, LeavePlaces
<1>12. Good(n, f.of)'
  <2>1. \A i \in DOMAIN Parents[f.of] : \E j \in DOMAIN f.bases : Good(f.bases[j], Parents[f.of][i])
    BY <1>2, <1>4 DEF BasesSoFar, In
  <2> QED BY <1>4, <1>5, <1>9, <2>1, MadeGood
<1>13. Attribute(f.of) = 0 /\ cached[f.of] = 0
  BY <1>4 DEF Attributes, Given, Attribute
<1>14. Given(f.of)'
  BY <1>4, <1>7, <1>13 DEF Given
<1>15. Attributes'
  BY <1>2, <1>4, <1>7, <1>9, <1>12, <1>13, <1>14, AttributesBut
<1> QED BY <1>2, <1>4, <1>5, <1>9, <1>11, <1>15, MadeKeeps DEF Made

LEMMA SubclassKeeps ==
  ASSUME RegInv, ~Premature, NEW t \in Loaders, NEW ty \in GTypes, Subclass(t, ty)
  PROVE  RegInv'
<1> USE DEF RegInv
<1>1. PICK bases : bases = [i \in DOMAIN Parents[ty] |-> Attribute(Parents[ty][i])]
  OBVIOUS
<1>2. /\ ~Active(t) /\ ty \in Written /\ pytype[ty] = 0
      /\ \A i \in DOMAIN Parents[ty] :
           NotLoading(t, Space[Parents[ty][i]]) /\ Attribute(Parents[ty][i]) # 0
      /\ NewClass(NoType, bases) /\ pytype' = [pytype EXCEPT ![ty] = New]
      /\ UNCHANGED <<cached, registry, typelibs, module, making, worn>>
  BY <1>1 DEF Subclass
<1>3. ~Described(ty)
  BY <1>2, SpacesAssumption
<1>4. \A i \in DOMAIN Parents[ty] : Good(Attribute(Parents[ty][i]), Parents[ty][i])
  <2> SUFFICES ASSUME NEW i \in DOMAIN Parents[ty]
      PROVE  Good(Attribute(Parents[ty][i]), Parents[ty][i])
    OBVIOUS
  <2>1. PICK p \in GTypes : p = Parents[ty][i]
    BY ParentsAssumption
  <2>2. Settled(p)
    BY <1>2, <2>1, NoLoads, NotLoadingSettled DEF NotLoading
  <2> QED BY <1>2, <2>1, <2>2, GivenGood
<1>5. bases \in Seq(Nat) /\ \A j \in DOMAIN bases : bases[j] \in DOMAIN classes
  <2>1. \A i \in DOMAIN Parents[ty] : Attribute(Parents[ty][i]) \in DOMAIN classes
    BY <1>4 DEF Good
  <2>2. DOMAIN classes \subseteq Nat
    BY DEF RegTypeOK
  <2>3. PICK k \in Nat : DOMAIN Parents[ty] = 1 .. k
    <3>1. Parents[ty] \in Seq(GTypes)
      BY ParentsAssumption
    <3> QED BY <3>1
  <2>4. bases \in [1 .. k -> Nat]
    BY <1>1, <2>1, <2>2, <2>3
  <2> QED BY <1>1, <2>1, <2>3, <2>4, SeqDef
<1>6. PICK n, info : n = New /\ Made(n, info, bases) /\ classes' \in Seq(Class)'
  <2>1. PICK none : none = NoType
    OBVIOUS
  <2> QED BY <1>2, <1>5, <2>1, NewClassMade
<1>7. /\ \A x \in GTypes : Attribute(x)' = Attribute(x)
      /\ pytype'[ty] = n /\ \A x \in GTypes \ {ty} : pytype'[x] = pytype[x]
  BY <1>2, <1>6 DEF Attribute, RegTypeOK
<1>8. \A u, i : (On(u, i)' <=> On(u, i)) /\ F(u, i)' = F(u, i)
  BY <1>2 DEF On, F
<1>9. Grows
  <2>1. \A p : Settled(p) => Settled(p)'
    BY <1>8, StillSettled
  <2> QED BY <1>2, <1>6, <1>7, <2>1 DEF Grows, Made
<1>10. Stacks'
  <2>1. ASSUME NEW u, NEW i, NEW g, On(u, i), g = F(u, i)
        PROVE  Undisturbed(g)
    <3>1. Sound(g) /\ g \in Making
      BY <2>1, StackTypes DEF Framed
    <3> QED BY <1>2, <1>7, <3>1 DEF Undisturbed, Sound, LoadFrame, IntrospectedFrame, BasesSoFar
  <2> QED BY <1>8, <1>9, <2>1, SteadyStacks
<1>11. Good(n, ty)'
  BY <1>1, <1>3, <1>4, <1>6, <1>9, MadeGood
<1>12. Attribute(ty) = 0 /\ cached[ty] = 0
  BY <1>3 DEF Attributes, Given, Attribute
<1>13. Given(ty)'
  BY <1>3, <1>7, <1>12 DEF Given
<1>14. Attributes'
  BY <1>2, <1>3, <1>7, <1>9, <1>11, <1>12, <1>13, AttributesBut
<1>15. making' \in [Loaders -> Seq(Making)]
  BY <1>2 DEF RegTypeOK
<1> QED BY <1>2, <1>6, <1>9, <1>10, <1>14, <1>15, MadeKeeps DEF Made

-----------------------------------------------------------------------------
(* The other steps *)

LEMMA IntrospectBaseKeeps ==
  ASSUME RegInv, ~Premature, ~Twice, NEW t \in Loaders, IntrospectBase(t)
  PROVE  RegInv'
BY NextBase, GetAttributeKeeps DEF IntrospectBase

\* The other way in which a class could have been made is closed: only the root has one.
LEMMA IntrospectExistingKeeps ==
  ASSUME RegInv, NEW t \in Loaders, IntrospectExisting(t)
  PROVE  RegInv'
<1> USE DEF RegInv
<1>1. PICK f : f = Current(t)
  OBVIOUS
<1>2. /\ Active(t) /\ f.what = "introspected" /\ f.left = << >>
      /\ UNCHANGED <<classes, pytype, registry, typelibs, module, worn>>
  BY <1>1 DEF IntrospectExisting
<1>3. f \in Making /\ Sound(f) /\ On(t, Len(making[t])) /\ F(t, Len(making[t])) = f
  BY <1>1, <1>2, TopPlace DEF Framed
<1>4. IntrospectedFrame(f) /\ f.of \in GTypes /\ f.bases \in Seq(Nat)
  BY <1>2, <1>3 DEF Sound, IntrospectedFrame, BasesSoFar, Making
<1>5. pytype[f.of] = 0 \/ \E i \in DOMAIN f.bases : f.bases[i] = pytype[f.of]
  <2>1. ASSUME pytype[f.of] # 0
        PROVE  1 \in DOMAIN f.bases /\ f.bases[1] = pytype[f.of]
    <3>1. f.of = Root /\ pytype[f.of] = Static
      BY <1>4, <2>1 DEF Attributes, IntrospectedFrame
    <3> QED BY <1>4, <3>1 DEF IntrospectedFrame
  <2> QED BY <2>1
<1>6. PICK g : g = [f EXCEPT !.checked = TRUE]
  OBVIOUS
<1>7. Becomes(t, g) /\ UNCHANGED cached
  BY <1>1, <1>5, <1>6 DEF IntrospectExisting
<1>8. /\ g \in Making /\ g.what = f.what /\ g.of = f.of /\ g.left = << >> /\ g.bases = f.bases
  BY <1>2, <1>3, <1>6 DEF Making
<1>9. PICK n : Changed(t, n, g)
  BY <1>2, <1>7, <1>8, BecomesPlaces
<1>10. \A p : Settled(p) => Settled(p)'
  BY <1>2, <1>8, <1>9, StillSettled DEF Changed
<1>11. Grows /\ \A u, i, h : On(u, i) /\ h = F(u, i) => Undisturbed(h)
  BY <1>2, <1>7, <1>10, StackGrows
<1>12. Sound(f)'
  BY <1>3, <1>11, SoundGrows
<1>13. Sound(g)'
  <2>1. IntrospectedFrame(f)'
    BY <1>2, <1>12 DEF Sound
  <2>2. IntrospectedFrame(g)'
    BY <1>2, <1>8, <2>1 DEF IntrospectedFrame, BasesSoFar
  <2> QED BY <1>2, <1>8, <2>2 DEF Sound
<1>14. Stacks' /\ making' \in [Loaders -> Seq(Making)]
  BY <1>1, <1>2, <1>7, <1>8, <1>11, <1>13, BecomesKeeps, BecomesPlaces
<1> QED BY <1>2, <1>7, <1>11, <1>14, SameClasses DEF RegTypeOK, Attributes

LEMMA OverrideBaseKeeps ==
  ASSUME RegInv, ~Twice, NEW t \in Loaders, OverrideBase(t)
  PROVE  RegInv'
<1>1. PICK f, what, ty : f = Current(t) /\ what = "introspected" /\ ty = f.left[1]
  OBVIOUS
<1>2. /\ Active(t) /\ f.what = "load" /\ f.left # << >> /\ cached[ty] = 0
      /\ MakeClass(t, what, ty)
  BY <1>1 DEF OverrideBase
<1>3. f \in Making /\ Sound(f)
  BY <1>1, <1>2, TopPlace DEF RegInv, Framed
<1>4. f.left \in Seq(GTypes) /\ LoadFrame(f)
  BY <1>2, <1>3 DEF Making, Sound
<1>5. ty \in GTypes /\ 1 \in DOMAIN f.left
  BY <1>1, <1>2, <1>4
<1>6. Space[ty] = f.of /\ f.of \in Spaces /\ module[f.of] = "loading" /\ registry[ty] = 0
  BY <1>1, <1>4, <1>5 DEF LoadFrame
<1>7. Described(ty) /\ module[Space[ty]] # "absent" /\ Attribute(ty) = 0
  BY <1>2, <1>6, SpacesAssumption DEF Described, Attribute
<1>8. ty \in Needs(f)
  BY <1>1, <1>2, <1>5, KinFacts DEF Needs
<1> QED BY <1>1, <1>2, <1>5, <1>7, <1>8, MakeClassKeeps

LEMMA LoadedKeeps ==
  ASSUME RegInv, NEW t \in Loaders, Loaded(t)
  PROVE  RegInv'
<1> USE DEF RegInv
<1>1. PICK f : f = Current(t)
  OBVIOUS
<1>2. /\ Active(t) /\ f.what = "load" /\ f.left = << >> /\ Leave(t)
      /\ module' = [module EXCEPT ![f.of] = "loaded"]
      /\ UNCHANGED <<classes, pytype, cached, registry, typelibs, worn>>
  BY <1>1 DEF Loaded
<1>3. f \in Making /\ Sound(f) /\ On(t, Len(making[t])) /\ F(t, Len(making[t])) = f
  BY <1>1, <1>2, TopPlace DEF Framed
<1>4. LoadFrame(f)
  BY <1>2, <1>3 DEF Sound
<1>5. PICK n : Popped(t, n)
  BY <1>2, LeavePlaces
<1>6. \A p : Settled(p) => Settled(p)'
  BY <1>5, StillSettled DEF Popped
<1>7. Grows
  BY <1>2, <1>4, <1>6 DEF Grows, Attribute, LoadFrame, RegTypeOK
<1>8. ASSUME NEW u, NEW i, NEW g, On(u, i), g = F(u, i), ~(u = t /\ i = Len(making[t]))
      PROVE  Undisturbed(g)
  <2>1. Sound(g) /\ g \in Making
    BY <1>8, StackTypes DEF Framed
  <2>2. g.what = "load" => g.of # f.of
    BY <1>2, <1>3, <1>8, Once DEF FromTypelib
  <2> QED BY <1>2, <2>1, <2>2 DEF Undisturbed, Sound, LoadFrame, IntrospectedFrame, Attribute, RegTypeOK
<1>9. Stacks' /\ making' \in [Loaders -> Seq(Making)]
  BY <1>2, <1>7, <1>8, LeaveKeeps, LeavePlaces
<1>10. \A s \in Spaces : module'[s] = "loaded" => \A i \in DOMAIN Overrides[s] : registry[Overrides[s][i]] # 0
  BY <1>2, <1>4 DEF LoadFrame, In, Attributes, RegTypeOK
<1> QED BY <1>2, <1>7, <1>9, <1>10, SameClasses DEF RegTypeOK

LEMMA DemandBaseKeeps ==
  ASSUME RegInv, ~Premature, ~Twice, NEW t \in Loaders, DemandBase(t)
  PROVE  RegInv'
BY LookupClassKeeps DEF DemandBase

LEMMA WrapClassKeeps ==
  ASSUME RegInv, ~Premature, ~Twice, NEW t \in Loaders, WrapClass(t)
  PROVE  RegInv'
<1>1. Active(t) /\ Current(t).what = "wrap" /\ Current(t).left # << >> /\ Sound(Current(t))
  BY TopPlace DEF RegInv, Framed, WrapClass
<1>2. Current(t).of = Current(t).left[1]
  BY <1>1 DEF Sound, WrapFrame
<1> QED BY <1>1, <1>2, LookupClassKeeps DEF WrapClass

LEMMA InstanceWrappedKeeps ==
  ASSUME RegInv, NEW t \in Loaders, InstanceWrapped(t)
  PROVE  RegInv'
<1> USE DEF RegInv
<1>1. PICK f, c : f = Current(t) /\ c = f.bases[1]
  OBVIOUS
<1>2. /\ Active(t) /\ f.what = "wrap" /\ f.left = << >> /\ Leave(t)
      /\ worn' = [worn EXCEPT ![f.of] = @ \cup {c}]
      /\ UNCHANGED <<classes, pytype, cached, registry, typelibs, module>>
  BY <1>1 DEF InstanceWrapped
<1>3. f \in Making /\ Sound(f)
  BY <1>1, <1>2, TopPlace DEF Framed
<1>4. f.of \in GTypes /\ Good(c, f.of)
  BY <1>1, <1>2, <1>3 DEF Sound, WrapFrame, Known
<1>5. PICK n : Popped(t, n)
  BY <1>2, LeavePlaces
<1>6. \A p : Settled(p) => Settled(p)'
  BY <1>5, StillSettled DEF Popped
<1>7. Grows /\ \A u, i, g : On(u, i) /\ g = F(u, i) => Undisturbed(g)
  BY <1>2, <1>6, StackGrows
<1>8. Stacks' /\ making' \in [Loaders -> Seq(Making)]
  BY <1>2, <1>7, LeaveKeeps, LeavePlaces
<1>9. c \in DOMAIN classes
  BY <1>4 DEF Good
<1>10. RegTypeOK'
  BY <1>2, <1>4, <1>8, <1>9 DEF RegTypeOK
<1>11. Attributes'
  BY <1>2, <1>7, AttributesSame DEF Attributes
<1>12. Worn'
  <2> SUFFICES ASSUME NEW ty \in GTypes, NEW d \in worn'[ty]
      PROVE  Good(d, ty)'
    BY DEF Worn, Good
  <2>1. Good(d, ty)
    BY <1>2, <1>4 DEF RegTypeOK, Worn
  <2> QED BY <1>7, <2>1, GoodGrows
<1> QED BY <1>8, <1>10, <1>11, <1>12 DEF Stacks

LEMMA ImportKeeps ==
  ASSUME RegInv, NEW t \in Loaders, NEW s \in Spaces, Import(t, s)
  PROVE  RegInv'
BY LoadKeeps DEF Import

LEMMA UseKeeps ==
  ASSUME RegInv, ~Twice, NEW t \in Loaders, NEW ty \in GTypes, Use(t, ty)
  PROVE  RegInv'
<1>1. PICK what : what = "introspected"
  OBVIOUS
<1> QED BY <1>1, MakeClassKeeps DEF Use

LEMMA WrapInstanceKeeps ==
  ASSUME RegInv, ~Premature, NEW t \in Loaders, NEW ty \in GTypes, WrapInstance(t, ty)
  PROVE  RegInv'
<1> USE DEF RegInv
<1>1. PICK f : f = [what |-> "wrap", of |-> ty, left |-> <<ty>>, bases |-> << >>, checked |-> FALSE]
  OBVIOUS
<1>2. /\ ~Active(t) /\ Enter(t, f) /\ module[Space[Root]] = "loaded"
      /\ \A p \in Kin[ty] : Described(p) => Space[p] \in typelibs
      /\ UNCHANGED <<classes, pytype, cached, registry, typelibs, module, worn>>
  BY <1>1 DEF WrapInstance
<1>3. f \in Making /\ f.what = "wrap" /\ f.of = ty /\ f.left = <<ty>> /\ f.bases = << >>
  BY <1>1 DEF Making
<1>4. PICK n : Pushed(t, n, f)
  BY <1>2, <1>3, EnterPlaces
<1>5. \A p : Settled(p) => Settled(p)'
  BY <1>3, <1>4, StillSettled DEF Pushed
<1>6. Grows /\ \A u, i, g : On(u, i) /\ g = F(u, i) => Undisturbed(g)
  BY <1>2, <1>5, StackGrows
<1>7. Sound(f)'
  BY <1>2, <1>3 DEF Sound, WrapFrame, Known
<1>8. Stacks' /\ making' \in [Loaders -> Seq(Making)]
  BY <1>2, <1>3, <1>6, <1>7, EnterKeeps, EnterPlaces DEF FromTypelib
<1> QED BY <1>2, <1>6, <1>8, SameClasses DEF RegTypeOK, Attributes

-----------------------------------------------------------------------------
(* The theorem *)

LEMMA InitSound == RegInit => RegInv
<1> SUFFICES ASSUME RegInit
    PROVE  RegInv
  OBVIOUS
<1>1. classes = <<[info |-> NoType, mro |-> {1}]>> /\ DOMAIN classes = {1} /\ Static = 1
  BY DEF RegInit, Static
<1>2. classes \in Seq([info : GTypes \cup {NoType}, mro : SUBSET (DOMAIN classes)])
  BY <1>1
<1>3. \A t \in Loaders : making[t] = << >>
  BY DEF RegInit
<1>4. making \in [Loaders -> Seq(Making)]
  BY DEF RegInit
<1>5. RegTypeOK
  BY <1>1, <1>2, <1>4 DEF RegInit, RegTypeOK
<1>6. \A t, i : ~On(t, i)
  BY <1>3 DEF On
<1>7. \A ty \in GTypes : Attribute(ty) = 0 /\ cached[ty] = 0 /\ (pytype[ty] # 0 => ty = Root /\ pytype[ty] = Static)
  BY DEF RegInit, Attribute
<1>8. \A s \in Spaces : module[s] = "absent"
  BY DEF RegInit
<1>9. Attributes
  BY <1>1, <1>7, <1>8, OrderAssumption DEF Attributes, Given
<1>10. Worn
  BY DEF RegInit, Worn
<1> QED BY <1>5, <1>6, <1>9, <1>10 DEF RegInv, Framed, Stacked, Apart

LEMMA StutterKeeps ==
  ASSUME RegInv, UNCHANGED regvars
  PROVE  RegInv'
<1> USE DEF RegInv
<1>1. UNCHANGED <<classes, pytype, cached, registry, typelibs, module, worn>> /\ making' = making
  BY DEF regvars
<1>2. \A u, i : (On(u, i)' <=> On(u, i)) /\ F(u, i)' = F(u, i)
  BY <1>1 DEF On, F
<1>3. \A p : Settled(p) => Settled(p)'
  BY <1>2, StillSettled
<1>4. Grows /\ \A u, i, g : On(u, i) /\ g = F(u, i) => Undisturbed(g)
  BY <1>1, <1>3, StackGrows
<1>5. Stacks'
  BY <1>2, <1>4, SteadyStacks
<1> QED BY <1>1, <1>4, <1>5, SameClasses DEF RegTypeOK, Attributes

LEMMA StepKeeps ==
  ASSUME RegInv, ~Premature, ~Twice, [RegNext]_regvars
  PROVE  RegInv'
<1>1. CASE UNCHANGED regvars
  BY <1>1, StutterKeeps
<1>2. CASE RegNext
  <2>1. PICK t \in Loaders :
          \/ IntrospectBase(t) \/ IntrospectExisting(t) \/ IntrospectClass(t)
          \/ OverrideBase(t) \/ Override(t) \/ Loaded(t)
          \/ DemandBase(t) \/ DemandClass(t)
          \/ WrapClass(t) \/ InstanceWrapped(t)
          \/ \E s \in Spaces : Import(t, s)
          \/ \E ty \in GTypes : Use(t, ty) \/ Subclass(t, ty) \/ WrapInstance(t, ty)
    BY <1>2 DEF RegNext
  <2>2. CASE IntrospectBase(t) \/ IntrospectExisting(t) \/ IntrospectClass(t)
    BY <2>2, IntrospectBaseKeeps, IntrospectExistingKeeps, IntrospectClassKeeps
  <2>3. CASE OverrideBase(t) \/ Override(t) \/ Loaded(t)
    BY <2>3, OverrideBaseKeeps, OverrideKeeps, LoadedKeeps
  <2>4. CASE DemandBase(t) \/ DemandClass(t) \/ WrapClass(t) \/ InstanceWrapped(t)
    BY <2>4, DemandBaseKeeps, DemandClassKeeps, WrapClassKeeps, InstanceWrappedKeeps
  <2>5. ASSUME NEW s \in Spaces, Import(t, s)
        PROVE  RegInv'
    BY <2>5, ImportKeeps
  <2>6. ASSUME NEW ty \in GTypes, Use(t, ty) \/ Subclass(t, ty) \/ WrapInstance(t, ty)
        PROVE  RegInv'
    BY <2>6, UseKeeps, SubclassKeeps, WrapInstanceKeeps
  <2> QED BY <2>1, <2>2, <2>3, <2>4, <2>5, <2>6
<1> QED BY <1>1, <1>2

\* The classes, the stacks and the wrapped instances agree in every state (pygtype.c:1233,
\* gi/module.py:111), if modules are loaded before they are used, and by one thread.
THEOREM RegInvariance == ~Premature /\ ~Twice /\ RegSpec => []RegInv
<1> SUFFICES ASSUME ~Premature, ~Twice
    PROVE  RegSpec => []RegInv
  OBVIOUS
<1>1. RegInv /\ [RegNext]_regvars => RegInv'
  BY StepKeeps
<1> QED BY InitSound, <1>1, PTL DEF RegSpec

\* A wrapped instance belongs to the class that a program gets from a module for its GType and
\* for each ancestor and interface, in whatever order the classes came to be.
THEOREM InstancesBelongAlways == ~Premature /\ ~Twice /\ RegSpec => []InstancesBelong
<1>1. ASSUME RegInv
      PROVE  InstancesBelong
  BY <1>1 DEF RegInv, Worn, Good, Covers, InstancesBelong
<1> QED BY <1>1, RegInvariance, PTL
=============================================================================
