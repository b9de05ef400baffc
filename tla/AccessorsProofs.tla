--------------------------- MODULE AccessorsProofs ---------------------------
(***************************************************************************)
(* Machine-checked facts about Accessors, for any objects, plans and       *)
(* number of threads: notifications stay frozen exactly while somebody     *)
(* needs them to be, and a descriptor raises its own exception.  They      *)
(* depend on when the GIL is given up and on what a failure skips, and not *)
(* on what the converters make of a value.                                 *)
(***************************************************************************)
EXTENDS Accessors, FiniteSetTheorems, TLAPS

-----------------------------------------------------------------------------
(* The inductive invariant *)

Parts == {"pc", "at", "way", "todo", "on", "gi", "value", "from", "error", "crossed"}
Shaped == /\ world \in Worlds /\ DOMAIN exc = Accessor /\ DOMAIN th = Threads
          /\ \A t \in Threads : DOMAIN th[t] = Parts

\* Who needs the notifications to be frozen.
Freezers == {t \in Threads : th[t].way = "set_properties" /\ th[t].pc # "idle"}
Setters == {t \in Threads : Setting(th[t].way) /\ th[t].pc = "vfunc"}
Frozen == frozen = Cardinality(Freezers) + Cardinality(Setters)

\* Only a descriptor looks at _exc.
Checked == \A t \in Threads : th[t].pc = "check" => Descriptor(th[t].way)

\* The exception that the methods of a Property leave for a descriptor.
OwnRefusal(t) == IF Of(th[t].on).rw = Refusal(th[t].way) THEN Refusal(th[t].way) ELSE "none"

\* What a descriptor finds in _exc from its beginning to its end, unless another
\* thread has crossed it.
Course(t) ==
  /\ th[t].pc \in {"idle", "call", "item", "native", "vfunc", "back", "return", "check"}
  /\ th[t].pc # "idle" => th[t].on \in Accessor
  /\ th[t].pc \in {"call", "item", "native", "vfunc", "back"} =>
       th[t].error = "none" /\ Len(th[t].todo) = 1 /\ Item(t).p = th[t].on
  /\ th[t].pc \in {"call", "item", "native", "vfunc"} => exc[th[t].on] = "none"
  /\ th[t].pc = "back" => exc[th[t].on] = OwnRefusal(t)
  /\ th[t].pc = "return" => th[t].error = "raised" \/ (th[t].error = "none" /\ exc[th[t].on] = OwnRefusal(t))
  /\ th[t].pc = "check" => th[t].error = "none" /\ exc[th[t].on] = OwnRefusal(t)
  /\ th[t].pc = "idle" => th[t].error = "raised" \/ th[t].error = OwnRefusal(t)
Courses == \A t \in Threads : Descriptor(th[t].way) /\ ~th[t].crossed => Course(t)

AccessInv == Shaped /\ Frozen /\ Checked /\ Courses

-----------------------------------------------------------------------------
(* What a step of one thread leaves alone *)

\* The other threads are where they were, and what a descriptor among them is to
\* find in _exc is there unless it is told that it was crossed.
Elsewhere(t) ==
  \A u \in Threads \ {t} :
    /\ DOMAIN th'[u] = Parts
    /\ th'[u].pc = th[u].pc /\ th'[u].way = th[u].way /\ th'[u].todo = th[u].todo
    /\ th'[u].on = th[u].on /\ th'[u].error = th[u].error
    /\ ~th'[u].crossed => ~th[u].crossed /\ (th[u].pc = "idle" \/ exc'[th[u].on] = exc[th[u].on])

LEMMA TouchElsewhere ==
  ASSUME Shaped, NEW t \in Threads, NEW p, NEW self, DOMAIN self = Parts, Touch(t, p, self),
         NEW e, exc' = [exc EXCEPT ![p] = e]
  PROVE  Elsewhere(t) /\ DOMAIN th' = Threads /\ th'[t] = self /\ DOMAIN exc' = DOMAIN exc
BY DEF Touch, Elsewhere, Shaped, Parts

LEMMA AloneElsewhere ==
  ASSUME Shaped, NEW t \in Threads, NEW self, DOMAIN self = Parts, th' = [th EXCEPT ![t] = self],
         \A q : exc'[q] = exc[q]
  PROVE  Elsewhere(t) /\ DOMAIN th' = Threads /\ th'[t] = self
BY DEF Elsewhere, Shaped, Parts

Member(t, S) == IF t \in S THEN 1 ELSE 0

LEMMA OneMoves ==
  ASSUME NEW S \in SUBSET Threads, NEW T \in SUBSET Threads, NEW t \in Threads, S \ {t} = T \ {t}
  PROVE  /\ Cardinality(T) = Cardinality(S) + Member(t, T) - Member(t, S)
         /\ Cardinality(S) \in Nat /\ Cardinality(T) \in Nat
<1>1. IsFiniteSet(S) /\ IsFiniteSet(T) /\ IsFiniteSet(S \ {t}) /\ S \ {t} \in SUBSET Threads
  BY ThreadsAssumption, FS_Subset
<1>2. ASSUME NEW R \in SUBSET Threads, IsFiniteSet(R), IsFiniteSet(R \ {t})
      PROVE  Cardinality(R) = Cardinality(R \ {t}) + Member(t, R) /\ Cardinality(R \ {t}) \in Nat
  <2>1. Cardinality(R \ {t}) \in Nat
    BY <1>2, FS_CardinalityType
  <2>2. CASE t \in R
    <3>1. R = (R \ {t}) \cup {t}
      BY <2>2
    <3>2. Cardinality((R \ {t}) \cup {t}) = Cardinality(R \ {t}) + 1
      BY <1>2, FS_AddElement
    <3>3. Member(t, R) = 1
      BY <2>2 DEF Member
    <3> QED BY <2>1, <3>1, <3>2, <3>3
  <2>3. CASE t \notin R
    <3>1. R \ {t} = R /\ Member(t, R) = 0
      BY <2>3 DEF Member
    <3> QED BY <2>1, <3>1
  <2> QED BY <2>2, <2>3
<1>3. /\ Cardinality(S) = Cardinality(S \ {t}) + Member(t, S)
      /\ Cardinality(T) = Cardinality(S \ {t}) + Member(t, T) /\ Cardinality(S \ {t}) \in Nat
  BY <1>1, <1>2
<1>4. Member(t, S) \in Nat /\ Member(t, T) \in Nat
  BY DEF Member
<1> QED BY <1>3, <1>4

\* A step of t, in what it changes.
LEMMA Moves ==
  ASSUME AccessInv, NEW t \in Threads, Elsewhere(t), DOMAIN th' = Threads, DOMAIN th'[t] = Parts,
         world' = world, DOMAIN exc' = DOMAIN exc,
         frozen' = frozen + (Member(t, Freezers') - Member(t, Freezers))
                          + (Member(t, Setters') - Member(t, Setters)),
         th'[t].pc = "check" => Descriptor(th'[t].way),
         Descriptor(th'[t].way) /\ ~th'[t].crossed => Course(t)'
  PROVE  AccessInv'
<1>1. Shaped'
  BY DEF AccessInv, Shaped, Elsewhere, Accessor
<1>2. Frozen'
  <2>1. Freezers \in SUBSET Threads /\ Freezers' \in SUBSET Threads /\ Freezers \ {t} = Freezers' \ {t}
    BY DEF Freezers, Elsewhere
  <2>2. Setters \in SUBSET Threads /\ Setters' \in SUBSET Threads /\ Setters \ {t} = Setters' \ {t}
    BY DEF Setters, Elsewhere
  <2>3. PICK a, b, c, d : /\ a = Cardinality(Freezers) /\ b = Cardinality(Setters)
                          /\ c = Cardinality(Freezers') /\ d = Cardinality(Setters')
    OBVIOUS
  <2>4. PICK i, j, k, l : /\ i = Member(t, Freezers) /\ j = Member(t, Setters)
                          /\ k = Member(t, Freezers') /\ l = Member(t, Setters')
    OBVIOUS
  <2>5. i \in Nat /\ j \in Nat /\ k \in Nat /\ l \in Nat
    BY <2>4 DEF Member
  <2>6. /\ a \in Nat /\ b \in Nat /\ c \in Nat /\ d \in Nat
        /\ c = a + k - i /\ d = b + l - j
    BY <2>1, <2>2, <2>3, <2>4, OneMoves
  <2>7. frozen = a + b /\ frozen' = frozen + (k - i) + (l - j)
    BY <2>3, <2>4 DEF AccessInv, Frozen
  <2>8. frozen' = c + d
    BY <2>5, <2>6, <2>7
  <2> QED BY <2>3, <2>8 DEF Frozen
<1>3. Checked'
  BY DEF AccessInv, Checked, Elsewhere
<1>4. Courses'
  <2>1. ASSUME NEW u \in Threads, u # t, Descriptor(th'[u].way), ~th'[u].crossed PROVE Course(u)'
    <3>1. Course(u) /\ (th[u].pc = "idle" \/ exc'[th[u].on] = exc[th[u].on])
      BY <2>1 DEF AccessInv, Courses, Elsewhere
    <3>2. /\ th'[u].pc = th[u].pc /\ th'[u].way = th[u].way /\ th'[u].todo = th[u].todo
          /\ th'[u].on = th[u].on /\ th'[u].error = th[u].error
      BY <2>1 DEF Elsewhere
    <3>3. OwnRefusal(u)' = OwnRefusal(u) /\ Accessor' = Accessor /\ Item(u)' = Item(u)
      BY <3>2 DEF OwnRefusal, Of, Accessor, Item
    <3> QED BY <3>1, <3>2, <3>3 DEF Course
  <2> QED BY <2>1 DEF Courses
<1> QED BY <1>1, <1>2, <1>3, <1>4 DEF AccessInv

LEMMA FrozenNumber ==
  ASSUME AccessInv
  PROVE  frozen \in Nat
<1>1. Freezers \in SUBSET Threads /\ Setters \in SUBSET Threads
  BY DEF Freezers, Setters
<1>2. ASSUME NEW S \in SUBSET Threads PROVE Cardinality(S) \in Nat
  BY ThreadsAssumption, FS_Subset, FS_CardinalityType
<1>3. Cardinality(Freezers) \in Nat /\ Cardinality(Setters) \in Nat
  BY <1>1, <1>2
<1> QED BY <1>3 DEF AccessInv, Frozen

\* A step of t within a call that concerns neither notifications nor _exc.
LEMMA QuietMoves ==
  ASSUME AccessInv, NEW t \in Threads, DOMAIN th' = Threads, DOMAIN th'[t] = Parts,
         \A u \in Threads \ {t} : th'[u] = th[u],
         UNCHANGED <<world, exc, frozen>>, th'[t].way = th[t].way,
         th[t].pc \notin {"idle", "vfunc"}, th'[t].pc \notin {"idle", "vfunc", "check"},
         Descriptor(th'[t].way) /\ ~th'[t].crossed => Course(t)'
  PROVE  AccessInv'
<1>1. Elsewhere(t)
  BY DEF Elsewhere, AccessInv, Shaped
<1>2. Member(t, Freezers') - Member(t, Freezers) = 0 /\ Member(t, Setters') - Member(t, Setters) = 0
  <2>1. (t \in Freezers' <=> t \in Freezers) /\ t \notin Setters' /\ t \notin Setters
    BY DEF Freezers, Setters
  <2> QED BY <2>1 DEF Member
<1>4. frozen' = frozen + (Member(t, Freezers') - Member(t, Freezers)) + (Member(t, Setters') - Member(t, Setters))
  BY <1>2, FrozenNumber
<1> QED BY <1>1, <1>4, Moves

-----------------------------------------------------------------------------
(* The steps of a call *)

LEMMA CallStep ==
  ASSUME AccessInv, NEW t \in Threads, Call(t)
  PROVE  AccessInv'
<1>1. /\ DOMAIN th' = Threads /\ DOMAIN th'[t] = Parts /\ \A u \in Threads \ {t} : th'[u] = th[u]
      /\ th[t].pc = "call" /\ th'[t].pc = "item"
      /\ th'[t].way = th[t].way /\ th'[t].todo = th[t].todo /\ th'[t].on = th[t].on
      /\ th'[t].error = th[t].error /\ th'[t].crossed = th[t].crossed
  BY DEF Call, AccessInv, Shaped, Parts
<1>2. UNCHANGED <<world, exc, frozen>>
  BY DEF Call
<1>3. Descriptor(th'[t].way) /\ ~th'[t].crossed => Course(t)'
  BY <1>1, <1>2 DEF AccessInv, Courses, Course, Item, Accessor
<1> QED BY <1>1, <1>2, <1>3, QuietMoves

\* A call raises an exception, in the midst of its items.
LEMMA RaisesStep ==
  ASSUME AccessInv, NEW t \in Threads, Raises(t), UNCHANGED <<world, exc, frozen>>,
         th[t].pc \in {"item", "back"}
  PROVE  AccessInv'
<1>1. /\ DOMAIN th' = Threads /\ DOMAIN th'[t] = Parts /\ \A u \in Threads \ {t} : th'[u] = th[u]
      /\ th'[t].pc = "return" /\ th'[t].error = "raised"
      /\ th'[t].way = th[t].way /\ th'[t].on = th[t].on /\ th'[t].crossed = th[t].crossed
  BY DEF Raises, AccessInv, Shaped, Parts
<1>2. Descriptor(th'[t].way) /\ ~th'[t].crossed => Course(t)'
  BY <1>1 DEF AccessInv, Courses, Course, Accessor
<1> QED BY <1>1, <1>2, QuietMoves

\* It is done with an item, and goes on to the next or returns.
LEMMA PassesStep ==
  ASSUME AccessInv, NEW t \in Threads, Passes(t), UNCHANGED <<world, exc, frozen>>,
         th[t].pc = "back" \/ (th[t].pc = "item" /\ ~Descriptor(th[t].way))
  PROVE  AccessInv'
<1>1. /\ DOMAIN th' = Threads /\ DOMAIN th'[t] = Parts /\ \A u \in Threads \ {t} : th'[u] = th[u]
      /\ th'[t].pc = Then(t) /\ th'[t].error = th[t].error
      /\ th'[t].way = th[t].way /\ th'[t].on = th[t].on /\ th'[t].crossed = th[t].crossed
  BY DEF Passes, AccessInv, Shaped, Parts
<1>2. Then(t) \in {"item", "return"}
  BY DEF Then
<1>3. ASSUME Descriptor(th'[t].way), ~th'[t].crossed PROVE Course(t)'
  <2>1. th[t].pc = "back" /\ Course(t)
    BY <1>1, <1>3 DEF AccessInv, Courses
  <2>a. Len(th[t].todo) = 1
    BY <2>1 DEF Course
  <2>2. Then(t) = "return"
    BY <2>a DEF Then
  <2>3. OwnRefusal(t)' = OwnRefusal(t)
    BY <1>1 DEF OwnRefusal, Of
  <2> QED BY <1>1, <2>1, <2>2, <2>3 DEF Course, Accessor
<1> QED BY <1>1, <1>2, <1>3, QuietMoves

LEMMA FieldItemStep ==
  ASSUME AccessInv, NEW t \in Threads, FieldItem(t)
  PROVE  AccessInv'
<1>1. /\ Passes(t) \/ Raises(t)
      /\ UNCHANGED <<world, exc, frozen>> /\ th[t].pc = "item" /\ ~Descriptor(th[t].way)
  BY DEF FieldItem, Descriptor
<1> QED BY <1>1, PassesStep, RaisesStep

LEMMA SetItemStep ==
  ASSUME AccessInv, NEW t \in Threads, SetItem(t)
  PROVE  AccessInv'
<1>1. UNCHANGED <<world, exc, frozen>> /\ th[t].pc = "item"
  BY DEF SetItem
<1>2. \/ Raises(t)
      \/ \E gi, c : th' = [th EXCEPT ![t].pc = "native", ![t].gi = gi, ![t].value = c]
  BY DEF SetItem
<1>3. ASSUME NEW gi, NEW c, th' = [th EXCEPT ![t].pc = "native", ![t].gi = gi, ![t].value = c]
      PROVE  AccessInv'
  <2>1. /\ DOMAIN th' = Threads /\ DOMAIN th'[t] = Parts /\ \A u \in Threads \ {t} : th'[u] = th[u]
        /\ th'[t].pc = "native" /\ th'[t].error = th[t].error /\ th'[t].todo = th[t].todo
        /\ th'[t].way = th[t].way /\ th'[t].on = th[t].on /\ th'[t].crossed = th[t].crossed
    BY <1>3 DEF AccessInv, Shaped, Parts
  <2>2. Descriptor(th'[t].way) /\ ~th'[t].crossed => Course(t)'
    BY <1>1, <2>1 DEF AccessInv, Courses, Course, Item, Accessor
  <2> QED BY <1>1, <2>1, <2>2, QuietMoves
<1> QED BY <1>1, <1>2, <1>3, RaisesStep

LEMMA InitItemsStep ==
  ASSUME AccessInv, NEW t \in Threads, InitItems(t)
  PROVE  AccessInv'
<1>1. UNCHANGED <<world, exc, frozen>> /\ th[t].pc = "item" /\ ~Descriptor(th[t].way)
  BY DEF InitItems, Descriptor
<1>2. Raises(t) \/ th' = [th EXCEPT ![t].pc = "return", ![t].todo = << >>]
  BY DEF InitItems
<1>3. ASSUME th' = [th EXCEPT ![t].pc = "return", ![t].todo = << >>]
      PROVE  AccessInv'
  <2>1. /\ DOMAIN th' = Threads /\ DOMAIN th'[t] = Parts /\ \A u \in Threads \ {t} : th'[u] = th[u]
        /\ th'[t].pc = "return" /\ th'[t].way = th[t].way
    BY <1>3 DEF AccessInv, Shaped, Parts
  <2> QED BY <1>1, <2>1, QuietMoves
<1> QED BY <1>1, <1>2, <1>3, RaisesStep

LEMMA GetItemStep ==
  ASSUME AccessInv, NEW t \in Threads, GetItem(t)
  PROVE  AccessInv'
<1>1. UNCHANGED <<world, exc, frozen>> /\ th[t].pc = "item"
  BY DEF GetItem
<1>2. \/ Raises(t)
      \/ \E gi : th' = [th EXCEPT ![t].pc = "native", ![t].gi = gi,
                                  ![t].error = IF Pending(t) THEN "pending" ELSE @]
  BY DEF GetItem
<1>3. ASSUME NEW gi, th' = [th EXCEPT ![t].pc = "native", ![t].gi = gi,
                                      ![t].error = IF Pending(t) THEN "pending" ELSE @]
      PROVE  AccessInv'
  <2>1. /\ DOMAIN th' = Threads /\ DOMAIN th'[t] = Parts /\ \A u \in Threads \ {t} : th'[u] = th[u]
        /\ th'[t].pc = "native" /\ (~Pending(t) => th'[t].error = th[t].error) /\ th'[t].todo = th[t].todo
        /\ th'[t].way = th[t].way /\ th'[t].on = th[t].on /\ th'[t].crossed = th[t].crossed
    BY <1>3 DEF AccessInv, Shaped, Parts
  <2>2. Descriptor(th[t].way) => ~Pending(t)
    BY DEF Descriptor, Pending
  <2>3. Descriptor(th'[t].way) /\ ~th'[t].crossed => Course(t)'
    BY <1>1, <2>1, <2>2 DEF AccessInv, Courses, Course, Item, Accessor
  <2> QED BY <1>1, <2>1, <2>3, QuietMoves
<1> QED BY <1>1, <1>2, <1>3, RaisesStep

LEMMA BackStep ==
  ASSUME AccessInv, NEW t \in Threads, Back(t)
  PROVE  AccessInv'
<1>1. (Passes(t) \/ Raises(t)) /\ UNCHANGED <<world, exc, frozen>> /\ th[t].pc = "back"
  BY DEF Back
<1> QED BY <1>1, PassesStep, RaisesStep

\* A Property is neither thawed nor asked for what it refuses: only its methods do that.
LEMMA NativeStep ==
  ASSUME AccessInv, NEW t \in Threads, Native(t)
  PROVE  AccessInv'
<1>1. th[t].pc = "native" /\ UNCHANGED <<world, exc>>
  BY DEF Native
<1>2. CASE Of(Item(t).p).kind = "python"
  <2>1. /\ th' = [th EXCEPT ![t].pc = "vfunc"]
        /\ frozen' = IF Setting(th[t].way) THEN frozen + 1 ELSE frozen
    BY <1>2 DEF Native
  <2>2. /\ DOMAIN th' = Threads /\ DOMAIN th'[t] = Parts /\ \A u \in Threads \ {t} : th'[u] = th[u]
        /\ th'[t].pc = "vfunc" /\ th'[t].error = th[t].error /\ th'[t].todo = th[t].todo
        /\ th'[t].way = th[t].way /\ th'[t].on = th[t].on /\ th'[t].crossed = th[t].crossed
    BY <2>1 DEF AccessInv, Shaped, Parts
  <2>3. Elsewhere(t)
    BY <1>1, <2>2 DEF Elsewhere, AccessInv, Shaped
  <2>4. Descriptor(th'[t].way) /\ ~th'[t].crossed => Course(t)'
    BY <1>1, <2>2 DEF AccessInv, Courses, Course, Item, Accessor
  <2>5. /\ Member(t, Freezers') = Member(t, Freezers) /\ Member(t, Setters) = 0
        /\ Member(t, Setters') = IF Setting(th[t].way) THEN 1 ELSE 0
    <3>1. (t \in Freezers' <=> t \in Freezers) /\ t \notin Setters /\ (t \in Setters' <=> Setting(th[t].way))
      BY <1>1, <2>2 DEF Freezers, Setters
    <3> QED BY <3>1 DEF Member
  <2>6. frozen' = frozen + (Member(t, Freezers') - Member(t, Freezers)) + (Member(t, Setters') - Member(t, Setters))
    BY <2>1, <2>5, FrozenNumber DEF Member
  <2> QED BY <1>1, <2>2, <2>3, <2>4, <2>6, Moves
<1>3. CASE Of(Item(t).p).kind # "python"
  <2>1. frozen' = frozen /\ \/ th' = [th EXCEPT ![t].pc = "back"]
                            \/ \E c, v : th' = [th EXCEPT ![t].pc = "back", ![t].value = c, ![t].from = v]
    <3>1. CASE Setting(th[t].way)
      BY <1>3, <3>1 DEF Native
    <3>2. CASE ~Setting(th[t].way)
      <4>1. /\ frozen' = frozen
            /\ th' = [th EXCEPT ![t].pc = "back", ![t].value = stored[Item(t).p], ![t].from = given[Item(t).p]]
        BY <1>3, <3>2 DEF Native
      <4> QED BY <4>1
    <3> QED BY <3>1, <3>2
  <2>2. /\ DOMAIN th' = Threads /\ DOMAIN th'[t] = Parts /\ \A u \in Threads \ {t} : th'[u] = th[u]
        /\ th'[t].pc = "back" /\ th'[t].error = th[t].error /\ th'[t].todo = th[t].todo
        /\ th'[t].way = th[t].way /\ th'[t].on = th[t].on /\ th'[t].crossed = th[t].crossed
    <3>1. DOMAIN th = Threads /\ DOMAIN th[t] = Parts
      BY DEF AccessInv, Shaped
    <3>2. CASE th' = [th EXCEPT ![t].pc = "back"]
      BY <3>1, <3>2 DEF Parts
    <3>3. ASSUME NEW c, NEW v, th' = [th EXCEPT ![t].pc = "back", ![t].value = c, ![t].from = v]
          PROVE  /\ DOMAIN th' = Threads /\ DOMAIN th'[t] = Parts /\ \A u \in Threads \ {t} : th'[u] = th[u]
                 /\ th'[t].pc = "back" /\ th'[t].error = th[t].error /\ th'[t].todo = th[t].todo
                 /\ th'[t].way = th[t].way /\ th'[t].on = th[t].on /\ th'[t].crossed = th[t].crossed
      BY <3>1, <3>3 DEF Parts
    <3> QED BY <2>1, <3>2, <3>3
  <2>3. ASSUME Descriptor(th'[t].way), ~th'[t].crossed PROVE Course(t)'
    <3>1. Course(t) /\ Item(t).p = th[t].on /\ th[t].on \in Accessor
      BY <1>1, <2>2, <2>3 DEF AccessInv, Courses, Course
    <3>2. Of(th[t].on).rw = "both"
      BY <1>3, <3>1, WorldsAssumption DEF AccessInv, Shaped, Of, Accessor
    <3>3. OwnRefusal(t)' = "none"
      BY <1>1, <2>2, <3>2 DEF OwnRefusal, Refusal, Of
    <3> QED BY <1>1, <2>2, <3>1, <3>3 DEF Course, Item, Accessor
  <2> QED BY <1>1, <2>1, <2>2, <2>3, QuietMoves
<1> QED BY <1>2, <1>3

\* The methods of a Property: the one it lacks leaves an exception in _exc.
LEMMA VfuncStep ==
  ASSUME AccessInv, NEW t \in Threads, Vfunc(t)
  PROVE  AccessInv'
<1> DEFINE p == Item(t).p
           refuses == Of(p).rw = Refusal(th[t].way)
<1>1. th[t].pc = "vfunc" /\ world' = world /\ frozen' = IF Setting(th[t].way) THEN frozen - 1 ELSE frozen
  BY DEF Vfunc
<1>2. PICK self : /\ \/ self = [th[t] EXCEPT !.pc = "back"]
                     \/ \E c, v : self = [th[t] EXCEPT !.pc = "back", !.value = c, !.from = v]
                  /\ IF refuses THEN Touch(t, p, self) /\ exc' = [exc EXCEPT ![p] = Refusal(th[t].way)]
                     ELSE th' = [th EXCEPT ![t] = self] /\ UNCHANGED exc
  BY DEF Vfunc
<1>3. /\ DOMAIN self = Parts /\ self.pc = "back" /\ self.error = th[t].error /\ self.todo = th[t].todo
      /\ self.way = th[t].way /\ self.on = th[t].on /\ self.crossed = th[t].crossed
  BY <1>2 DEF AccessInv, Shaped, Parts
<1>4. Elsewhere(t) /\ DOMAIN th' = Threads /\ th'[t] = self /\ DOMAIN exc' = DOMAIN exc
  <2>1. CASE refuses
    <3>1. PICK e : exc' = [exc EXCEPT ![p] = e]
      BY <1>2, <2>1
    <3> QED BY <1>2, <1>3, <2>1, <3>1, TouchElsewhere DEF AccessInv
  <2>2. CASE ~refuses
    BY <1>2, <1>3, <2>2, AloneElsewhere DEF AccessInv
  <2> QED BY <2>1, <2>2
<1>5. ASSUME Descriptor(th'[t].way), ~th'[t].crossed PROVE Course(t)'
  <2>1. Course(t) /\ p = th[t].on /\ th[t].on \in Accessor /\ exc[th[t].on] = "none"
    BY <1>1, <1>3, <1>4, <1>5 DEF AccessInv, Courses, Course
  <2>2. exc'[th[t].on] = OwnRefusal(t)
    BY <1>2, <2>1 DEF OwnRefusal, AccessInv, Shaped
  <2>3. OwnRefusal(t)' = OwnRefusal(t)
    BY <1>1, <1>3, <1>4 DEF OwnRefusal, Of
  <2> QED BY <1>1, <1>3, <1>4, <2>1, <2>2, <2>3 DEF Course, Item, Accessor
<1>6. /\ Member(t, Freezers') = Member(t, Freezers) /\ Member(t, Setters') = 0
      /\ Member(t, Setters) = IF Setting(th[t].way) THEN 1 ELSE 0
  <2>1. (t \in Freezers' <=> t \in Freezers) /\ t \notin Setters' /\ (t \in Setters <=> Setting(th[t].way))
    BY <1>1, <1>3, <1>4 DEF Freezers, Setters
  <2> QED BY <2>1 DEF Member
<1>7. frozen' = frozen + (Member(t, Freezers') - Member(t, Freezers)) + (Member(t, Setters') - Member(t, Setters))
  BY <1>1, <1>6, FrozenNumber DEF Member
<1> QED BY <1>1, <1>3, <1>4, <1>5, <1>7, Moves

LEMMA ReturnStep ==
  ASSUME AccessInv, NEW t \in Threads, Return(t)
  PROVE  AccessInv'
<1>1. th[t].pc = "return" /\ UNCHANGED <<world, exc>> /\ frozen' = Thaws(t)
  BY DEF Return
<1>2. CASE Descriptor(th[t].way) /\ th[t].error = "none"
  <2>1. th' = [th EXCEPT ![t].pc = "check"]
    BY <1>2 DEF Return
  <2>2. /\ DOMAIN th' = Threads /\ DOMAIN th'[t] = Parts /\ \A u \in Threads \ {t} : th'[u] = th[u]
        /\ th'[t].pc = "check" /\ th'[t].error = th[t].error
        /\ th'[t].way = th[t].way /\ th'[t].on = th[t].on /\ th'[t].crossed = th[t].crossed
    BY <2>1 DEF AccessInv, Shaped, Parts
  <2>3. Elsewhere(t)
    BY <1>1, <2>2 DEF Elsewhere, AccessInv, Shaped
  <2>4. ASSUME ~th'[t].crossed PROVE Course(t)'
    <3>1. Course(t) /\ OwnRefusal(t)' = OwnRefusal(t)
      BY <1>1, <1>2, <2>2, <2>4 DEF AccessInv, Courses, OwnRefusal, Of
    <3> QED BY <1>1, <1>2, <2>2, <3>1 DEF Course, Accessor
  <2>5. Member(t, Freezers') = Member(t, Freezers) /\ Member(t, Setters') = Member(t, Setters) /\ frozen' = frozen
    <3>1. t \notin Freezers' /\ t \notin Freezers /\ t \notin Setters' /\ t \notin Setters
      BY <1>1, <1>2, <2>2 DEF Freezers, Setters, Descriptor
    <3> QED BY <1>1, <1>2, <3>1 DEF Member, Thaws, Descriptor
  <2>6. frozen' = frozen + (Member(t, Freezers') - Member(t, Freezers)) + (Member(t, Setters') - Member(t, Setters))
    BY <2>5, FrozenNumber DEF Member
  <2> QED BY <1>1, <1>2, <2>2, <2>3, <2>4, <2>6, Moves
<1>3. CASE ~(Descriptor(th[t].way) /\ th[t].error = "none")
  <2>1. PICK n : th' = [th EXCEPT ![t].pc = "idle", ![t].at = n]
    BY <1>3 DEF Return
  <2>2. /\ DOMAIN th' = Threads /\ DOMAIN th'[t] = Parts /\ \A u \in Threads \ {t} : th'[u] = th[u]
        /\ th'[t].pc = "idle" /\ th'[t].error = th[t].error
        /\ th'[t].way = th[t].way /\ th'[t].on = th[t].on /\ th'[t].crossed = th[t].crossed
    BY <2>1 DEF AccessInv, Shaped, Parts
  <2>3. Elsewhere(t)
    BY <1>1, <2>2 DEF Elsewhere, AccessInv, Shaped
  <2>4. Descriptor(th'[t].way) /\ ~th'[t].crossed => Course(t)'
    BY <1>1, <1>3, <2>2 DEF AccessInv, Courses, Course
  <2>5. /\ Member(t, Freezers') = 0 /\ Member(t, Setters') = 0 /\ Member(t, Setters) = 0
        /\ Member(t, Freezers) = IF th[t].way = "set_properties" THEN 1 ELSE 0
    <3>1. t \notin Freezers' /\ t \notin Setters' /\ t \notin Setters /\ (t \in Freezers <=> th[t].way = "set_properties")
      BY <1>1, <2>2 DEF Freezers, Setters
    <3> QED BY <3>1 DEF Member
  <2>6. frozen' = frozen + (Member(t, Freezers') - Member(t, Freezers)) + (Member(t, Setters') - Member(t, Setters))
    BY <1>1, <2>5, FrozenNumber DEF Thaws
  <2> QED BY <1>1, <2>2, <2>3, <2>4, <2>6, Moves
<1> QED BY <1>2, <1>3

LEMMA CheckStep ==
  ASSUME AccessInv, NEW t \in Threads, Check(t)
  PROVE  AccessInv'
<1> DEFINE p == th[t].on
<1>1. th[t].pc = "check" /\ UNCHANGED <<world, frozen>> /\ exc' = [exc EXCEPT ![p] = "none"]
  BY DEF Check
<1>2. PICK self : /\ self = [th[t] EXCEPT !.pc = "idle", !.at = @ + 1, !.error = exc[p]]
                  /\ IF exc[p] = "none" THEN th' = [th EXCEPT ![t] = self] ELSE Touch(t, p, self)
  BY DEF Check
<1>3. /\ DOMAIN self = Parts /\ self.pc = "idle" /\ self.error = exc[p]
      /\ self.way = th[t].way /\ self.on = p /\ self.crossed = th[t].crossed
  BY <1>2 DEF AccessInv, Shaped, Parts
<1>4. Elsewhere(t) /\ DOMAIN th' = Threads /\ th'[t] = self /\ DOMAIN exc' = DOMAIN exc
  <2>1. CASE exc[p] = "none"
    <3>1. \A q \in DOMAIN exc : exc'[q] = exc[q]
      BY <1>1, <2>1
    <3>2. th' = [th EXCEPT ![t] = self]
      BY <1>2, <2>1
    <3>3. \A u \in Threads \ {t} : th'[u] = th[u] /\ DOMAIN th[u] = Parts
      BY <3>2 DEF AccessInv, Shaped
    <3>4. ASSUME NEW u \in Threads, u # t, ~th[u].crossed, th[u].pc # "idle" PROVE exc'[th[u].on] = exc[th[u].on]
      <4>1. CASE th[u].on \in DOMAIN exc
        BY <3>1, <4>1
      <4>2. CASE th[u].on \notin DOMAIN exc
        BY <1>1, <4>2
      <4> QED BY <4>1, <4>2
    <3> QED BY <1>1, <3>2, <3>3, <3>4 DEF Elsewhere, AccessInv, Shaped
  <2>2. CASE exc[p] # "none"
    <3>1. Shaped
      BY DEF AccessInv
    <3>2. Touch(t, p, self)
      BY <1>2, <2>2
    <3> HIDE DEF p
    <3> QED BY <1>1, <1>3, <3>1, <3>2, TouchElsewhere
  <2> QED BY <2>1, <2>2
<1>5. ASSUME Descriptor(th'[t].way), ~th'[t].crossed PROVE Course(t)'
  <2>1. exc[p] = OwnRefusal(t) /\ OwnRefusal(t)' = OwnRefusal(t)
    BY <1>1, <1>3, <1>4, <1>5 DEF AccessInv, Courses, Course, OwnRefusal, Of
  <2> QED BY <1>3, <1>4, <2>1 DEF Course
<1>6. /\ Member(t, Freezers') = Member(t, Freezers) /\ Member(t, Setters') = Member(t, Setters)
  <2>1. t \notin Freezers' /\ t \notin Freezers /\ t \notin Setters' /\ t \notin Setters
    BY <1>1, <1>3, <1>4 DEF Freezers, Setters, AccessInv, Checked, Descriptor
  <2> QED BY <2>1 DEF Member
<1>7. frozen' = frozen + (Member(t, Freezers') - Member(t, Freezers)) + (Member(t, Setters') - Member(t, Setters))
  BY <1>1, <1>6, FrozenNumber DEF Member
<1> QED BY <1>1, <1>3, <1>4, <1>5, <1>7, Moves

LEMMA BeginStep ==
  ASSUME AccessInv, NEW t \in Threads, NEW k \in DOMAIN world.plan[t], NEW op \in world.plan[t][k], Begin(t, op)
  PROVE  AccessInv'
<1> DEFINE p == op.items[1].p
<1>1. th[t].pc = "idle" /\ world' = world /\ frozen' = IF op.way = "set_properties" THEN frozen + 1 ELSE frozen
  BY DEF Begin
<1>2. p \in Accessor /\ (Descriptor(op.way) => Len(op.items) = 1)
  <2>1. /\ Len(op.items) > 0 /\ \A i \in 1 .. Len(op.items) : op.items[i].p \in DOMAIN world.accessors
        /\ Descriptor(op.way) => Len(op.items) = 1
    BY WorldsAssumption DEF AccessInv, Shaped
  <2>2. CASE 1 \in 1 .. Len(op.items)
    BY <2>1, <2>2 DEF Accessor
  <2>3. CASE 1 \notin 1 .. Len(op.items)
    BY <2>1, <2>3
  <2> QED BY <2>1, <2>2, <2>3
<1> DEFINE start == [Idle(th[t].at) EXCEPT !.way = op.way, !.todo = op.items, !.on = p]
<1>3. PICK self : /\ self.way = op.way /\ self.todo = op.items /\ self.on = p /\ self.error = "none"
                  /\ DOMAIN self = Parts /\ self.crossed = FALSE
                  /\ \/ /\ Descriptor(op.way) /\ self.pc = "call"
                        /\ Touch(t, p, self) /\ exc' = [exc EXCEPT ![p] = "none"]
                     \/ /\ ~Descriptor(op.way) /\ self.pc = "item"
                        /\ th' = [th EXCEPT ![t] = self] /\ exc' = exc
  <2>1. CASE Descriptor(op.way)
    <3>1. Touch(t, p, [start EXCEPT !.pc = "call"]) /\ exc' = [exc EXCEPT ![p] = "none"]
      BY <2>1 DEF Begin, Clears
    <3>2. PICK self : self = [start EXCEPT !.pc = "call"]
      OBVIOUS
    <3>3. /\ self.way = op.way /\ self.todo = op.items /\ self.on = p /\ self.error = "none"
          /\ DOMAIN self = Parts /\ self.crossed = FALSE /\ self.pc = "call"
      BY <3>2 DEF Idle, Parts
    <3>4. Touch(t, p, self)
      BY <3>1, <3>2
    <3> QED BY <2>1, <3>1, <3>3, <3>4
  <2>2. CASE ~Descriptor(op.way)
    <3>1. th' = [th EXCEPT ![t] = [start EXCEPT !.pc = "item"]] /\ exc' = exc
      BY <2>2 DEF Begin
    <3> QED BY <2>2, <3>1 DEF Idle, Parts
  <2> QED BY <2>1, <2>2
<1>4. Elsewhere(t) /\ DOMAIN th' = Threads /\ th'[t] = self /\ DOMAIN exc' = DOMAIN exc
  <2>1. CASE Descriptor(op.way)
    BY <1>3, <2>1, TouchElsewhere DEF AccessInv
  <2>2. CASE ~Descriptor(op.way)
    BY <1>3, <2>2, AloneElsewhere DEF AccessInv
  <2> QED BY <2>1, <2>2
<1>5. ASSUME Descriptor(th'[t].way) PROVE Course(t)'
  <2>1. Descriptor(op.way) /\ self.pc = "call" /\ exc' = [exc EXCEPT ![p] = "none"] /\ Len(op.items) = 1
    BY <1>2, <1>3, <1>4, <1>5
  <2>2. exc'[p] = "none" /\ p \in Accessor'
    BY <1>1, <1>2, <2>1 DEF AccessInv, Shaped, Accessor
  <2>3. Item(t)'.p = p
    BY <1>3, <1>4, <2>1 DEF Item
  <2> QED BY <1>3, <1>4, <2>1, <2>2, <2>3 DEF Course
<1>6. /\ Member(t, Setters') = 0 /\ Member(t, Setters) = 0 /\ Member(t, Freezers) = 0
      /\ Member(t, Freezers') = IF op.way = "set_properties" THEN 1 ELSE 0
  <2>1. t \notin Freezers /\ t \notin Setters /\ t \notin Setters' /\ (t \in Freezers' <=> op.way = "set_properties")
    BY <1>1, <1>3, <1>4 DEF Freezers, Setters
  <2> QED BY <2>1 DEF Member
<1>7. frozen' = frozen + (Member(t, Freezers') - Member(t, Freezers)) + (Member(t, Setters') - Member(t, Setters))
  BY <1>1, <1>6, FrozenNumber
<1>8. th'[t].pc # "check"
  BY <1>3, <1>4
<1> QED BY <1>1, <1>3, <1>4, <1>5, <1>7, <1>8, Moves

-----------------------------------------------------------------------------
(* The theorems *)

LEMMA InitAccess ==
  ASSUME Init
  PROVE  AccessInv
<1>1. \A t \in Threads : /\ DOMAIN th[t] = Parts /\ th[t].pc = "idle" /\ th[t].way = "none"
  BY DEF Init, Idle, Parts
<1>2. Shaped
  BY <1>1 DEF Init, Shaped, Accessor
<1>3. Frozen
  <2>1. Freezers = {} /\ Setters = {} /\ frozen = 0
    BY <1>1 DEF Freezers, Setters, Init
  <2> QED BY <2>1, FS_EmptySet DEF Frozen
<1>4. Checked /\ Courses
  BY <1>1 DEF Checked, Courses, Descriptor
<1> QED BY <1>2, <1>3, <1>4 DEF AccessInv

LEMMA NextAccess ==
  ASSUME AccessInv, [Next]_vars
  PROVE  AccessInv'
<1>1. CASE UNCHANGED vars
  <2>1. Shaped' /\ Frozen' /\ Checked'
    BY <1>1 DEF vars, AccessInv, Shaped, Accessor, Frozen, Freezers, Setters, Checked
  <2>2. Courses'
    BY <1>1 DEF vars, AccessInv, Courses, Course, Accessor, Item, OwnRefusal, Of
  <2> QED BY <2>1, <2>2 DEF AccessInv
<1>2. CASE NativeLocks \/ NativeCalls
  <2>1. UNCHANGED <<world, frozen, exc, th>>
    BY <1>2 DEF NativeLocks, NativeCalls
  <2>2. Shaped' /\ Frozen' /\ Checked'
    BY <2>1 DEF AccessInv, Shaped, Accessor, Frozen, Freezers, Setters, Checked
  <2>3. Courses'
    BY <2>1 DEF AccessInv, Courses, Course, Accessor, Item, OwnRefusal, Of
  <2> QED BY <2>2, <2>3 DEF AccessInv
<1>3. ASSUME NEW t \in Threads, Step(t) PROVE AccessInv'
  <2>1. ASSUME NEW k \in DOMAIN world.plan[t], NEW op \in world.plan[t][k], Begin(t, op) PROVE AccessInv'
    BY <2>1, BeginStep
  <2>2. CASE Call(t) \/ FieldItem(t) \/ SetItem(t) \/ InitItems(t) \/ GetItem(t)
    BY <2>2, CallStep, FieldItemStep, SetItemStep, InitItemsStep, GetItemStep
  <2>3. CASE Native(t) \/ Vfunc(t) \/ Back(t) \/ Return(t) \/ Check(t)
    BY <2>3, NativeStep, VfuncStep, BackStep, ReturnStep, CheckStep
  <2> QED BY <1>3, <2>1, <2>2, <2>3 DEF Step
<1> QED BY <1>1, <1>2, <1>3 DEF Next

(***************************************************************************)
(* The inductive invariant: the notifications are counted, and every       *)
(* descriptor that no other thread has crossed finds in _exc what it is to *)
(* find there.                                                             *)
(***************************************************************************)
THEOREM AccessInvariance == Spec => []AccessInv
<1>1. Init => AccessInv
  BY InitAccess
<1>2. AccessInv /\ [Next]_vars => AccessInv'
  BY NextAccess
<1>3. Spec => Init /\ [][Next]_vars
  BY PTL DEF Spec
<1> QED BY <1>1, <1>2, <1>3, PTL

(***************************************************************************)
(* set_properties and Python setters freeze the notifications of their     *)
(* object and thaw them, however threads take turns and whatever fails.    *)
(***************************************************************************)
THEOREM FreezeBalancedAlways == Spec => []FreezeBalanced
<1>1. AccessInv => FreezeBalanced
  BY DEF AccessInv, Frozen, Freezers, Setters, FreezeBalanced
<1> QED BY <1>1, AccessInvariance, PTL

(***************************************************************************)
(* A Property that lacks its getter or its setter raises for the           *)
(* descriptor that wanted it, and for no other access, unless threads      *)
(* cross.                                                                  *)
(***************************************************************************)
THEOREM OwnErrorsAlways == Spec => []OwnErrors
<1>1. AccessInv => OwnErrors
  BY DEF AccessInv, Courses, Course, OwnRefusal, OwnErrors
<1> QED BY <1>1, AccessInvariance, PTL
=============================================================================
