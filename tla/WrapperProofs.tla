---------------------------- MODULE WrapperProofs ----------------------------
(***************************************************************************)
(* Machine-checked facts about Wrapper, for any number of objects and      *)
(* wrappers and without the bounds of the model-checked instances, under   *)
(* the assumption that an object whose wrapper the collector has on its    *)
(* list is not handed to Python (RewrapTrash = FALSE).                     *)
(***************************************************************************)
EXTENDS Wrapper, FiniteSetTheorems, TLAPS

-----------------------------------------------------------------------------

(* The inductive invariant *)

\* Nobody but dictionaries, and the GObject, refers to w.
Quiet(w) ==
  /\ held[w] = 0 /\ inCall[w] = 0 /\ ~wfloat[w]
  /\ pendUp[w] = 0 /\ pendDown[w] = 0

\* What a struct looks like in each of its states.
Shape ==
  \A w \in Wraps :
    /\ wst[w] = "free" => wobj[w] = NoObj /\ ~dict[w] /\ pyref[w] = 0
    /\ wst[w] = "dealloc" => pyref[w] = 0
    /\ wst[w] \in {"clearing", "dealloc"} => wobj[w] # NoObj
    /\ ~Live(w) => Quiet(w)
    /\ ~dict[w] => refs[w] = {}

\* The toggle reference on an object is that of its live wrapper, exactly when
\* that wrapper has a dictionary.
Toggles ==
  /\ \A o \in Objs : togg[o] # NoWrap =>
       Live(togg[o]) /\ wobj[togg[o]] = o /\ dict[togg[o]]
  /\ \A w \in Wraps : Live(w) /\ wobj[w] # NoObj /\ dict[w] =>
       togg[wobj[w]] = w

\* A notification in flight concerns a toggle reference that is still there; an
\* up notification is sent by a borrower that owns the reference it took.
Pending ==
  \A w \in Wraps :
    /\ pendUp[w] <= 1
    /\ pendUp[w] + pendDown[w] > 0 => wobj[w] # NoObj /\ togg[wobj[w]] = w
    /\ pendUp[w] = 1 => native[wobj[w]] >= 1 /\ Borrowers(w) >= 1

\* While a collection goes on, its list stays garbage: nothing but wrappers on
\* the list, being cleared or deallocated refers to one on the list or being
\* cleared.
Trash ==
  /\ \A w \in trash : Live(w) /\ Quiet(w) /\ Share(w) = 0
  /\ \A w \in Wraps : w \in trash \/ wst[w] = "clearing" =>
       \A v \in Referrers(w) : v \in trash \/ ~Live(v)

IInv ==
  /\ TypeOK /\ RefsOwned /\ PyRefsOwned /\ OneWrapper
  /\ Shape /\ Toggles /\ Pending /\ Trash

\* The instance data of an object agrees with the class of its wrappers, and is
\* there before a wrapper starts to die; an address without object has none.
Classy ==
  /\ \A w \in Wraps : wobj[w] # NoObj =>
       /\ iclass[wobj[w]] # NoClass => wclass[w] = iclass[wobj[w]]
       /\ w \in trash \/ ~Live(w) => iclass[wobj[w]] # NoClass
  /\ \A o \in Objs : gref[o] = 0 => iclass[o] = NoClass

-----------------------------------------------------------------------------
(* Counting *)

\* A set that differs from another at most in w.
LEMMA CountUpdate ==
  ASSUME NEW P \in SUBSET Wraps, NEW Q \in SUBSET Wraps, NEW w \in Wraps,
         P \ {w} = Q \ {w}
  PROVE  Cardinality(Q) = Cardinality(P) + B(w \in Q) - B(w \in P)
<1>1. IsFiniteSet(P) /\ IsFiniteSet(Q)
  BY FiniteAssumption, FS_Subset
<1>2. Cardinality(P) \in Nat /\ Cardinality(Q) \in Nat
  BY <1>1, FS_CardinalityType
<1>3. CASE (w \in P) = (w \in Q)
  <2>1. P = Q
    BY <1>3
  <2> QED BY <2>1, <1>2 DEF B
<1>4. CASE w \in Q /\ w \notin P
  <2>1. Q = P \cup {w}
    BY <1>4
  <2>2. Cardinality(Q) = Cardinality(P) + 1
    BY <2>1, <1>1, <1>4, FS_AddElement
  <2> QED BY <2>2, <1>2, <1>4 DEF B
<1>5. CASE w \notin Q /\ w \in P
  <2>1. Q = P \ {w}
    BY <1>5
  <2>2. Cardinality(Q) = Cardinality(P) - 1
    BY <2>1, <1>1, <1>5, FS_RemoveElement
  <2> QED BY <2>2, <1>2, <1>5 DEF B
<1> QED BY <1>3, <1>4, <1>5

\* The preimages the accounting counts are finite, and not empty if they have a
\* member.
LEMMA CountsNat ==
  /\ \A o : Cardinality(Owners(o)) \in Nat
  /\ \A w : Cardinality(Referrers(w)) \in Nat
  /\ \A w \in Wraps : Cardinality(Owners(wobj[w])) >= 1
  /\ \A v \in Wraps : \A w \in refs[v] : Cardinality(Referrers(w)) >= 1
<1>1. \A o : IsFiniteSet(Owners(o))
  BY FiniteAssumption, FS_Subset DEF Owners
<1>2. \A w : IsFiniteSet(Referrers(w))
  BY FiniteAssumption, FS_Subset DEF Referrers
<1>3. \A v \in Wraps : v \in Owners(wobj[v]) /\ \A w \in refs[v] : v \in Referrers(w)
  BY DEF Owners, Referrers
<1>4. \A S : IsFiniteSet(S) => Cardinality(S) \in Nat /\ (Cardinality(S) = 0 <=> S = {})
  BY FS_CardinalityType, FS_EmptySet
<1> QED BY <1>1, <1>2, <1>3, <1>4

LEMMA OwnersSame ==
  ASSUME wobj' = wobj
  PROVE  \A o : Cardinality(Owners(o))' = Cardinality(Owners(o))
BY DEF Owners

LEMMA ReferrersSame ==
  ASSUME refs' = refs
  PROVE  \A w : Cardinality(Referrers(w))' = Cardinality(Referrers(w))
BY DEF Referrers

LEMMA OwnersUpdate ==
  ASSUME TypeOK, NEW w \in Wraps, NEW x, wobj' = [wobj EXCEPT ![w] = x]
  PROVE  \A o : Cardinality(Owners(o))'
                  = Cardinality(Owners(o)) + B(x = o) - B(wobj[w] = o)
<1> TAKE o
<1>1. /\ Owners(o) \in SUBSET Wraps /\ Owners(o)' \in SUBSET Wraps
      /\ Owners(o) \ {w} = Owners(o)' \ {w}
      /\ w \in Owners(o) <=> wobj[w] = o
      /\ w \in Owners(o)' <=> x = o
  BY DEF Owners, TypeOK
<1>2. Cardinality(Owners(o)') = Cardinality(Owners(o)) + B(w \in Owners(o)') - B(w \in Owners(o))
  BY <1>1, CountUpdate
<1> QED BY <1>1, <1>2 DEF B

LEMMA ReferrersUpdate ==
  ASSUME TypeOK, NEW w \in Wraps, NEW R, refs' = [refs EXCEPT ![w] = R]
  PROVE  \A v : Cardinality(Referrers(v))'
                  = Cardinality(Referrers(v)) + B(v \in R) - B(v \in refs[w])
<1> TAKE v
<1>1. /\ Referrers(v) \in SUBSET Wraps /\ Referrers(v)' \in SUBSET Wraps
      /\ Referrers(v) \ {w} = Referrers(v)' \ {w}
      /\ w \in Referrers(v) <=> v \in refs[w]
      /\ w \in Referrers(v)' <=> v \in R
  BY DEF Referrers, TypeOK
<1>2. Cardinality(Referrers(v)')
        = Cardinality(Referrers(v)) + B(w \in Referrers(v)') - B(w \in Referrers(v))
  BY <1>1, CountUpdate
<1> QED BY <1>1, <1>2 DEF B

\* The values the accounting adds up are numbers.
LEMMA Typed ==
  ASSUME TypeOK
  PROVE  \A x \in Wraps :
           /\ pyref[x] \in Nat /\ held[x] \in Nat /\ inCall[x] \in Nat
           /\ pendUp[x] \in Nat /\ pendDown[x] \in Nat
           /\ wfloat[x] \in BOOLEAN /\ Share(x) \in 0..1
           /\ Cardinality(Referrers(x)) \in Nat
BY CountsNat DEF TypeOK, Share, B

-----------------------------------------------------------------------------
(* What the accounting says about single objects and wrappers *)

\* An object a wrapper is bound to exists; one that does not has no owner.
LEMMA Bound ==
  ASSUME TypeOK, RefsOwned
  PROVE  /\ \A w \in Wraps : wobj[w] # NoObj => gref[wobj[w]] >= 1
         /\ \A o \in Objs : gref[o] = 0 =>
              native[o] = 0 /\ ~floating[o] /\ \A w \in Wraps : wobj[w] # o
         /\ \A w \in Wraps : wobj[w] # NoObj =>
              gref[wobj[w]] >= 1 + native[wobj[w]] + B(floating[wobj[w]])
BY CountsNat DEF TypeOK, RefsOwned, B

\* An up notification in flight means the toggle reference is not the last one.
LEMMA UpShared ==
  ASSUME TypeOK, RefsOwned, Pending
  PROVE  \A w \in Wraps : pendUp[w] > 0 => Share(w) = 1
BY Bound DEF TypeOK, Pending, Share, B

\* A wrapper has at least the references of its variables, calls, dictionaries
\* and of an orphan's creator.
LEMMA Lower ==
  ASSUME TypeOK, RefsOwned, PyRefsOwned, Pending
  PROVE  \A w \in Wraps :
           pyref[w] >= held[w] + inCall[w] + Cardinality(Referrers(w))
                         + B(wfloat[w]) + pendDown[w]
<1> TAKE w \in Wraps
<1>1. pendUp[w] <= Share(w) /\ Share(w) \in Nat
  BY UpShared DEF TypeOK, Pending, Share, B
<1> QED BY <1>1, CountsNat DEF TypeOK, PyRefsOwned, B

\* Two wrappers bound to an object own a reference each.
LEMMA TwoOwners ==
  ASSUME TypeOK, RefsOwned, NEW v \in Wraps, NEW w \in Wraps, v # w,
         wobj[v] = wobj[w], wobj[w] # NoObj
  PROVE  gref[wobj[w]] >= 2
<1> DEFINE o == wobj[w]
           S == Owners(o)
<1>1. o \in Objs /\ v \in S /\ w \in S
  BY DEF TypeOK, Owners
<1>2. IsFiniteSet(S) /\ IsFiniteSet(S \ {v})
  BY FiniteAssumption, FS_Subset DEF Owners
<1>3. /\ Cardinality(S \ {v}) = Cardinality(S) - 1 /\ Cardinality(S) \in Nat
      /\ Cardinality(S \ {v}) \in Nat
  BY <1>1, <1>2, FS_RemoveElement, FS_CardinalityType
<1>4. Cardinality(S \ {v}) # 0
  BY <1>1, <1>2, FS_EmptySet
<1>5. Cardinality(S) >= 2
  BY <1>3, <1>4
<1>6. gref[o] = native[o] + B(floating[o]) + Cardinality(S)
  BY <1>1 DEF RefsOwned
<1>7. native[o] \in Nat /\ B(floating[o]) \in Nat
  BY <1>1 DEF TypeOK, B
<1> QED BY <1>3, <1>5, <1>6, <1>7

\* What a dictionary refers to has a count.
LEMMA Referred ==
  ASSUME TypeOK, RefsOwned, PyRefsOwned, Pending
  PROVE  \A v \in Wraps : \A x \in refs[v] : x \in Wraps /\ pyref[x] >= 1
<1> TAKE v \in Wraps
<1> TAKE x \in refs[v]
<1>1. x \in Wraps
  BY DEF TypeOK
<1>2. /\ held[x] \in Nat /\ inCall[x] \in Nat /\ B(wfloat[x]) \in Nat
      /\ pendDown[x] \in Nat /\ pyref[x] \in Nat
  BY <1>1 DEF TypeOK, B
<1> QED BY <1>1, <1>2, Lower, CountsNat

\* One whose count says no more than that is quiet and its object not shared.
LEMMA Unreferenced ==
  ASSUME TypeOK, RefsOwned, PyRefsOwned, Pending,
         NEW w \in Wraps, pyref[w] <= Cardinality(Referrers(w))
  PROVE  Quiet(w) /\ Share(w) = 0
<1>1. held[w] = 0 /\ inCall[w] = 0 /\ ~wfloat[w] /\ pendDown[w] = 0
  <2> DEFINE b == B(wfloat[w])
             c == Cardinality(Referrers(w))
  <2>1. pyref[w] >= held[w] + inCall[w] + c + b + pendDown[w]
    BY Lower
  <2>2. /\ pyref[w] \in Nat /\ held[w] \in Nat /\ inCall[w] \in Nat
        /\ pendDown[w] \in Nat /\ b \in Nat /\ c \in Nat
    BY CountsNat DEF TypeOK, B
  <2>3. b = 0 => ~wfloat[w]
    BY DEF B
  <2>4. pyref[w] <= c
    OBVIOUS
  <2> HIDE DEF b, c
  <2>5. held[w] = 0 /\ inCall[w] = 0 /\ b = 0 /\ pendDown[w] = 0
    BY <2>1, <2>2, <2>4
  <2> QED BY <2>3, <2>5
<1>2. pendUp[w] = 0
  BY <1>1 DEF Pending, TypeOK, Borrowers, B
<1> QED BY <1>1, <1>2, CountsNat DEF Quiet, PyRefsOwned, Share, TypeOK, B

\* What the collector is told to clear is referred to from the list only.
LEMMA GarbageClosed ==
  ASSUME TypeOK, RefsOwned, PyRefsOwned, Pending,
         NEW S \in SUBSET Wraps, Garbage(S), NEW w \in S
  PROVE  Quiet(w) /\ Share(w) = 0 /\ Referrers(w) \subseteq S
<1>1. IsFiniteSet(Referrers(w))
  BY FiniteAssumption, FS_Subset DEF Referrers
<1>2. pyref[w] = Cardinality(Referrers(w) \cap S)
  BY DEF Garbage
<1>3. /\ Cardinality(Referrers(w) \cap S) <= Cardinality(Referrers(w))
      /\ Cardinality(Referrers(w) \cap S) = Cardinality(Referrers(w))
           => Referrers(w) \cap S = Referrers(w)
  BY <1>1, FS_Subset
<1>4. Quiet(w) /\ Share(w) = 0
  BY <1>2, <1>3, Unreferenced
<1>5. pyref[w] >= Cardinality(Referrers(w))
  BY Lower, <1>4, CountsNat DEF Quiet, TypeOK, B
<1>6. Cardinality(Referrers(w) \cap S) = Cardinality(Referrers(w))
  BY <1>2, <1>3, <1>5, CountsNat DEF TypeOK
<1> QED BY <1>3, <1>4, <1>6

-----------------------------------------------------------------------------
(* Every step preserves the invariant *)

\* g_object_new of a C type: the new reference is native code's, or floating.
LEMMA NativeNewKeeps ==
  ASSUME IInv, NEW o \in Objs, NEW fl \in BOOLEAN, NativeNew(o, fl)
  PROVE  IInv'
<1> USE DEF IInv
<1>1. \A p : Cardinality(Owners(p))' = Cardinality(Owners(p))
  BY OwnersSame DEF NativeNew, wvars
<1>2. \A x : Cardinality(Referrers(x))' = Cardinality(Referrers(x))
  BY ReferrersSame DEF NativeNew, wvars
<1>3. \A x \in Wraps : Share(x)' = Share(x)
  BY DEF Share, NativeNew, wvars
<1>4. TypeOK'
  BY DEF TypeOK, NativeNew, wvars, B
<1>5. RefsOwned'
  <2> SUFFICES ASSUME NEW p \in Objs
      PROVE  (gref[p] = native[p] + B(floating[p]) + Cardinality(Owners(p)))'
    BY DEF RefsOwned
  <2>1. /\ gref'[p] = gref[p] + B(p = o)
        /\ native'[p] = native[p] + B(p = o) - B(p = o /\ fl)
        /\ B(floating'[p]) = B(floating[p]) + B(p = o /\ fl)
    BY Bound DEF NativeNew, TypeOK, B
  <2>2. gref[p] \in Nat /\ native[p] \in Nat /\ floating[p] \in BOOLEAN
    BY DEF TypeOK
  <2> QED BY <1>1, <2>1, <2>2, CountsNat DEF RefsOwned, B
<1>6. PyRefsOwned'
  <2>1. UNCHANGED <<pyref, held, inCall, wfloat, pendDown, pendUp>>
    BY DEF NativeNew, wvars
  <2> QED BY <1>2, <1>3, <2>1 DEF PyRefsOwned
<1>7. OneWrapper'
  BY DEF OneWrapper, NativeNew, wvars, Live
<1>8. Shape'
  BY DEF Shape, NativeNew, wvars, Live, Quiet
<1>9. Toggles'
  BY DEF Toggles, NativeNew, wvars, Live
<1>10. Pending'
  BY Bound DEF Pending, NativeNew, wvars, Borrowers
<1>11. Trash'
  BY DEF Trash, Referrers, NativeNew, wvars, Live, Quiet, Share
<1> QED BY <1>4, <1>5, <1>6, <1>7, <1>8, <1>9, <1>10, <1>11

\* g_object_ref.  It can only move the count of a toggle reference off one if a
\* call borrows the wrapper, which then backs the notification (<1>p).
LEMMA NativeRefKeeps ==
  ASSUME IInv, NEW o \in Objs, NativeRef(o)
  PROVE  IInv'
<1> USE DEF IInv
<1>p. ASSUME NEW x \in Wraps, togg[o] = x, gref[o] = 1
      PROVE  pendUp[x] = 0 /\ Borrowers(x) >= 1
  <2>1. Live(x) /\ wobj[x] = o /\ o # NoObj
    BY <1>p, SentinelAssumption DEF Toggles
  <2>2. pendUp[x] = 0
    BY <1>p, <2>1, UpShared DEF TypeOK, Share, B
  <2>3. native[o] = 0 /\ ~floating[o]
    <3>1. 1 >= 1 + native[o] + B(floating[o])
      BY <1>p, <2>1, Bound
    <3>2. native[o] \in Nat /\ B(floating[o]) \in Nat /\ (B(floating[o]) = 0 => ~floating[o])
      BY DEF TypeOK, B
    <3> QED BY <3>1, <3>2
  <2>4. PICK v \in Owners(o) : (Live(v) /\ Borrowers(v) > pendUp[v]) \/ ~Live(v)
    BY <1>p, <2>2, <2>3 DEF NativeRef, Reachable, Pinned
  <2>5. v = x
    BY <1>p, <2>1, TwoOwners DEF Owners
  <2> QED BY <2>1, <2>2, <2>4, <2>5 DEF Borrowers, B, TypeOK
<1>1. \A p : Cardinality(Owners(p))' = Cardinality(Owners(p))
  BY OwnersSame DEF NativeRef
<1>2. \A x : Cardinality(Referrers(x))' = Cardinality(Referrers(x))
  BY ReferrersSame DEF NativeRef
<1>3. \A x \in Wraps : Share(x)' = Share(x) + B(togg[o] = x /\ gref[o] = 1)
  BY SentinelAssumption DEF TypeOK, Share, Toggles, NativeRef, B
<1>4. TypeOK'
  BY DEF TypeOK, NativeRef
<1>5. RefsOwned'
  <2> SUFFICES ASSUME NEW p \in Objs
      PROVE  (gref[p] = native[p] + B(floating[p]) + Cardinality(Owners(p)))'
    BY DEF RefsOwned
  <2>1. /\ gref'[p] = gref[p] + B(p = o)
        /\ native'[p] = native[p] + B(p = o)
        /\ UNCHANGED <<floating>>
    BY DEF NativeRef, TypeOK, B
  <2>2. gref[p] \in Nat /\ native[p] \in Nat /\ floating[p] \in BOOLEAN
    BY DEF TypeOK
  <2> QED BY <1>1, <2>1, <2>2, CountsNat DEF RefsOwned, B
<1>6. PyRefsOwned'
  <2> SUFFICES ASSUME NEW x \in Wraps
      PROVE  (pyref[x] = held[x] + inCall[x] + Cardinality(Referrers(x)) + B(wfloat[x])
                           + Share(x) + pendDown[x] - pendUp[x])'
    BY DEF PyRefsOwned
  <2>1. /\ pendUp'[x] = pendUp[x] + B(togg[o] = x /\ gref[o] = 1)
        /\ UNCHANGED <<pyref, held, inCall, wfloat, pendDown>>
    BY SentinelAssumption DEF NativeRef, TypeOK, B
  <2> QED BY <1>2, <1>3, <2>1, Typed DEF PyRefsOwned, B
<1>7. OneWrapper'
  BY DEF OneWrapper, NativeRef, Live
<1>8. Shape'
  BY DEF Shape, Toggles, NativeRef, Live, Quiet
<1>9. Toggles'
  BY DEF Toggles, NativeRef, Live
<1>10. Pending'
  BY <1>p, SentinelAssumption DEF TypeOK, Pending, Toggles, NativeRef, Borrowers
<1>11. Trash'
  <2>1. \A x \in trash : Quiet(x)' /\ Share(x)' = 0
    <3> TAKE x \in trash
    <3>1. x \in Wraps /\ Quiet(x) /\ Share(x) = 0
      BY DEF Trash, TypeOK
    <3>2. ~(togg[o] = x /\ gref[o] = 1)
      BY <1>p, <3>1 DEF Quiet, Borrowers, B
    <3> QED BY <1>3, <3>1, <3>2 DEF Quiet, NativeRef, B
  <2> QED BY <2>1 DEF Trash, NativeRef, Live, Referrers
<1> QED BY <1>4, <1>5, <1>6, <1>7, <1>8, <1>9, <1>10, <1>11

\* g_object_ref_sink: the floating reference becomes native code's.
LEMMA NativeSinkKeeps ==
  ASSUME IInv, NEW o \in Objs, NativeSink(o)
  PROVE  IInv'
<1> USE DEF IInv
<1>1. \A p : Cardinality(Owners(p))' = Cardinality(Owners(p))
  BY OwnersSame DEF NativeSink, wvars
<1>2. \A x : Cardinality(Referrers(x))' = Cardinality(Referrers(x))
  BY ReferrersSame DEF NativeSink, wvars
<1>3. \A x \in Wraps : Share(x)' = Share(x)
  BY DEF Share, NativeSink, wvars
<1>4. TypeOK'
  BY DEF TypeOK, NativeSink, wvars
<1>5. RefsOwned'
  <2> SUFFICES ASSUME NEW p \in Objs
      PROVE  (gref[p] = native[p] + B(floating[p]) + Cardinality(Owners(p)))'
    BY DEF RefsOwned
  <2>1. /\ native'[p] = native[p] + B(p = o)
        /\ B(floating'[p]) = B(floating[p]) - B(p = o)
        /\ UNCHANGED <<gref>>
    BY DEF NativeSink, TypeOK, B
  <2>2. gref[p] \in Nat /\ native[p] \in Nat /\ floating[p] \in BOOLEAN
    BY DEF TypeOK
  <2> QED BY <1>1, <2>1, <2>2 DEF RefsOwned, B
<1>6. PyRefsOwned'
  <2>1. UNCHANGED <<pyref, held, inCall, wfloat, pendDown, pendUp>>
    BY DEF NativeSink, wvars
  <2> QED BY <1>2, <1>3, <2>1 DEF PyRefsOwned
<1>7. OneWrapper'
  BY DEF OneWrapper, NativeSink, wvars, Live
<1>8. Shape'
  BY DEF Shape, NativeSink, wvars, Live, Quiet
<1>9. Toggles'
  BY DEF Toggles, NativeSink, wvars, Live
<1>10. Pending'
  BY DEF TypeOK, Pending, NativeSink, wvars, Borrowers
<1>11. Trash'
  BY DEF Trash, Referrers, NativeSink, wvars, Live, Quiet, Share
<1> QED BY <1>4, <1>5, <1>6, <1>7, <1>8, <1>9, <1>10, <1>11

\* g_object_unref by native code, which owns the reference it drops (<1>p).
LEMMA NativeUnrefKeeps ==
  ASSUME IInv, NEW o \in Objs, NativeUnref(o)
  PROVE  IInv'
<1> USE DEF IInv
<1>p. native[o] >= 1 /\ gref[o] >= 1
  <2>1. native[o] \in Nat /\ native[o] >= 1 /\ gref[o] \in Nat /\ B(floating[o]) \in Nat
    BY DEF NativeUnref, Pinned, TypeOK, B
  <2> QED BY <2>1, CountsNat DEF RefsOwned
<1>1. \A p : Cardinality(Owners(p))' = Cardinality(Owners(p))
  BY OwnersSame DEF NativeUnref
<1>2. \A x : Cardinality(Referrers(x))' = Cardinality(Referrers(x))
  BY ReferrersSame DEF NativeUnref
<1>3. \A x \in Wraps : Share(x)' = Share(x) - B(togg[o] = x /\ gref[o] = 2)
  BY SentinelAssumption DEF TypeOK, Share, Toggles, OneWrapper, Shape, NativeUnref,
     B, DropRef, Pinned, Quiet
<1>4. TypeOK'
  BY <1>p DEF TypeOK, NativeUnref, DropRef
<1>5. RefsOwned'
  <2> SUFFICES ASSUME NEW p \in Objs
      PROVE  (gref[p] = native[p] + B(floating[p]) + Cardinality(Owners(p)))'
    BY DEF RefsOwned
  <2>1. /\ gref'[p] = gref[p] - B(p = o)
        /\ native'[p] = native[p] - B(p = o)
        /\ UNCHANGED <<floating>>
    BY DEF DropRef, NativeUnref, TypeOK, B
  <2>2. gref[p] \in Nat /\ native[p] \in Nat /\ floating[p] \in BOOLEAN
    BY DEF TypeOK
  <2> QED BY <1>1, <2>1, <2>2, CountsNat DEF RefsOwned, B
<1>6. PyRefsOwned'
  <2> SUFFICES ASSUME NEW x \in Wraps
      PROVE  (pyref[x] = held[x] + inCall[x] + Cardinality(Referrers(x)) + B(wfloat[x])
                           + Share(x) + pendDown[x] - pendUp[x])'
    BY DEF PyRefsOwned
  <2>1. /\ pendDown'[x] = pendDown[x] + B(togg[o] = x /\ gref[o] = 2)
        /\ UNCHANGED <<pyref, held, inCall, wfloat, pendUp>>
    BY SentinelAssumption DEF DropRef, NativeUnref, TypeOK, B
  <2> QED BY <1>2, <1>3, <2>1, Typed DEF PyRefsOwned, B
<1>7. OneWrapper'
  BY DEF OneWrapper, NativeUnref, Live
<1>8. Shape'
  BY DEF Shape, Toggles, NativeUnref, DropRef, Live, Quiet
<1>9. Toggles'
  BY DEF Toggles, NativeUnref, Live
<1>10. Pending'
  BY SentinelAssumption DEF TypeOK, Pending, Toggles, NativeUnref, DropRef, Pinned,
     Borrowers
<1>11. Trash'
  <2>1. \A x \in trash : Quiet(x)' /\ Share(x)' = 0
    <3> TAKE x \in trash
    <3>1. x \in Wraps /\ Quiet(x) /\ Share(x) = 0
      BY DEF Trash, TypeOK
    <3>2. ~(togg[o] = x /\ gref[o] = 2)
      BY <3>1, SentinelAssumption DEF Toggles, Share, B
    <3> QED BY <1>3, <3>1, <3>2 DEF Quiet, NativeUnref, DropRef, B
  <2> QED BY <2>1 DEF Trash, NativeUnref, Live, Referrers
<1> QED BY <1>4, <1>5, <1>6, <1>7, <1>8, <1>9, <1>10, <1>11

\* pyg_toggle_notify: the reference of the GObject arrives on the wrapper.
LEMMA NotifyUpKeeps ==
  ASSUME IInv, NEW w \in Wraps, NotifyUp(w)
  PROVE  IInv'
<1> USE DEF IInv
<1>1. \A p : Cardinality(Owners(p))' = Cardinality(Owners(p))
  BY OwnersSame DEF NotifyUp
<1>2. \A x : Cardinality(Referrers(x))' = Cardinality(Referrers(x))
  BY ReferrersSame DEF NotifyUp
<1>3. \A x \in Wraps : Share(x)' = Share(x)
  BY DEF Share, NotifyUp, gvars
<1>4. TypeOK'
  BY DEF TypeOK, NotifyUp, gvars
<1>5. RefsOwned'
  BY <1>1 DEF RefsOwned, NotifyUp, gvars
<1>6. PyRefsOwned'
  <2> SUFFICES ASSUME NEW x \in Wraps
      PROVE  (pyref[x] = held[x] + inCall[x] + Cardinality(Referrers(x)) + B(wfloat[x])
                           + Share(x) + pendDown[x] - pendUp[x])'
    BY DEF PyRefsOwned
  <2>1. /\ pyref'[x] = pyref[x] + B(x = w)
        /\ pendUp'[x] = pendUp[x] - B(x = w)
        /\ UNCHANGED <<held, inCall, wfloat, pendDown>>
    BY DEF NotifyUp, TypeOK, B
  <2> QED BY <1>2, <1>3, <2>1, Typed DEF PyRefsOwned, B
<1>7. OneWrapper'
  BY DEF OneWrapper, NotifyUp, gvars, Live
<1>8. Shape'
  BY DEF Shape, NotifyUp, Live, Quiet
<1>9. Toggles'
  BY DEF Toggles, NotifyUp, gvars, Live
<1>10. Pending'
  BY DEF TypeOK, Pending, NotifyUp, gvars, Borrowers
<1>11. Trash'
  BY <1>3 DEF TypeOK, Trash, Referrers, NotifyUp, Live, Quiet
<1> QED BY <1>4, <1>5, <1>6, <1>7, <1>8, <1>9, <1>10, <1>11

\* pyg_toggle_notify: the reference of the GObject leaves the wrapper, which had
\* it.
LEMMA NotifyDownKeeps ==
  ASSUME IInv, NEW w \in Wraps, NotifyDown(w)
  PROVE  IInv'
<1> USE DEF IInv
<1>1. \A p : Cardinality(Owners(p))' = Cardinality(Owners(p))
  BY OwnersSame DEF NotifyDown
<1>2. \A x : Cardinality(Referrers(x))' = Cardinality(Referrers(x))
  BY ReferrersSame DEF NotifyDown
<1>3. \A x \in Wraps : Share(x)' = Share(x)
  BY DEF Share, NotifyDown, gvars
<1>4. TypeOK'
  BY SentinelAssumption, Lower, CountsNat DEF TypeOK, NotifyDown, gvars, B
<1>5. RefsOwned'
  BY <1>1 DEF RefsOwned, NotifyDown, gvars
<1>6. PyRefsOwned'
  <2> SUFFICES ASSUME NEW x \in Wraps
      PROVE  (pyref[x] = held[x] + inCall[x] + Cardinality(Referrers(x)) + B(wfloat[x])
                           + Share(x) + pendDown[x] - pendUp[x])'
    BY DEF PyRefsOwned
  <2>1. /\ pyref'[x] = pyref[x] - B(x = w)
        /\ pendDown'[x] = pendDown[x] - B(x = w)
        /\ UNCHANGED <<held, inCall, wfloat, pendUp>>
    BY DEF NotifyDown, TypeOK, B
  <2> QED BY <1>2, <1>3, <2>1, Typed DEF PyRefsOwned, B
<1>7. OneWrapper'
  BY DEF OneWrapper, NotifyDown, gvars, Live
<1>8. Shape'
  BY DEF Shape, NotifyDown, Live, Quiet
<1>9. Toggles'
  BY DEF Toggles, NotifyDown, gvars, Live
<1>10. Pending'
  BY DEF TypeOK, Pending, NotifyDown, gvars, Borrowers
<1>11. Trash'
  BY <1>3 DEF TypeOK, Trash, Referrers, NotifyDown, Live, Quiet
<1> QED BY <1>4, <1>5, <1>6, <1>7, <1>8, <1>9, <1>10, <1>11

\* cls.__new__ takes a free struct.
LEMMA AllocKeeps ==
  ASSUME IInv, NEW w \in Wraps, NEW c \in Classes, Alloc(w, c)
  PROVE  IInv'
<1> USE DEF IInv
<1>1. \A p : Cardinality(Owners(p))' = Cardinality(Owners(p))
  BY OwnersSame DEF Alloc
<1>2. \A x : Cardinality(Referrers(x))' = Cardinality(Referrers(x))
  BY ReferrersSame DEF Alloc
<1>3. \A x \in Wraps : Share(x)' = Share(x)
  BY DEF Share, Alloc, gvars
<1>4. TypeOK'
  BY DEF TypeOK, Alloc, gvars
<1>5. RefsOwned'
  BY <1>1 DEF RefsOwned, Alloc, gvars
<1>6. PyRefsOwned'
  <2> SUFFICES ASSUME NEW x \in Wraps
      PROVE  (pyref[x] = held[x] + inCall[x] + Cardinality(Referrers(x)) + B(wfloat[x])
                           + Share(x) + pendDown[x] - pendUp[x])'
    BY DEF PyRefsOwned
  <2>1. /\ pyref'[x] = pyref[x] + B(x = w)
        /\ held'[x] = held[x] + B(x = w)
        /\ UNCHANGED <<inCall, wfloat, pendDown, pendUp>>
    BY DEF Shape, Live, Quiet, Alloc, TypeOK, B
  <2> QED BY <1>2, <1>3, <2>1, Typed DEF PyRefsOwned, B
<1>7. OneWrapper'
  BY DEF OneWrapper, Shape, Alloc, gvars, Live
<1>8. Shape'
  BY DEF TypeOK, Shape, Alloc, Live, Quiet
<1>9. Toggles'
  BY DEF Toggles, Shape, Alloc, gvars, Live
<1>10. Pending'
  BY DEF Pending, Alloc, gvars, Borrowers
<1>11. Trash'
  BY <1>3 DEF TypeOK, Trash, Shape, Referrers, Alloc, Live, Quiet
<1> QED BY <1>4, <1>5, <1>6, <1>7, <1>8, <1>9, <1>10, <1>11

\* pygobject_constructv binds a wrapper that has no GObject to a new one.
LEMMA ConstructKeeps ==
  ASSUME IInv, NEW w \in Wraps, NEW o \in Objs, NEW how, Construct(w, o, how)
  PROVE  IInv'
<1> USE DEF IInv
<1>1. \A p : Cardinality(Owners(p))'
             = Cardinality(Owners(p)) + B(o = p) - B(wobj[w] = p)
  <2>1. wobj' = [wobj EXCEPT ![w] = o]
    BY DEF Construct
  <2>2. \A p : Cardinality(Owners(p))' = Cardinality(Owners(p)) + B(o = p) - B(wobj[w] = p)
    BY <2>1, OwnersUpdate DEF B
  <2> QED BY <2>2
<1>2. \A x : Cardinality(Referrers(x))' = Cardinality(Referrers(x))
  BY ReferrersSame DEF Construct
<1>3. \A x \in Wraps : Share(x)' = Share(x) + B(x = w /\ dict[w] /\ how = "owned")
  BY SentinelAssumption, Bound DEF TypeOK, Share, Toggles, Construct, B, Register
<1>4. TypeOK'
  BY DEF TypeOK, Construct, B, Register, ToggleKeeps
<1>5. RefsOwned'
  <2> SUFFICES ASSUME NEW p \in Objs
      PROVE  (gref[p] = native[p] + B(floating[p]) + Cardinality(Owners(p)))'
    BY DEF RefsOwned
  <2>1. /\ gref'[p] = gref[p] + B(p = o) + B(p = o /\ how = "owned")
        /\ native'[p] = native[p] + B(p = o /\ how = "owned")
        /\ UNCHANGED <<floating>>
    BY Bound DEF Construct, TypeOK, B
  <2>2. gref[p] \in Nat /\ native[p] \in Nat /\ floating[p] \in BOOLEAN
    BY DEF TypeOK
  <2>3. wobj[w] # p
    BY SentinelAssumption DEF Shape, Construct
  <2> QED BY <1>1, <2>1, <2>2, <2>3, CountsNat DEF RefsOwned, B
<1>6. PyRefsOwned'
  <2> SUFFICES ASSUME NEW x \in Wraps
      PROVE  (pyref[x] = held[x] + inCall[x] + Cardinality(Referrers(x)) + B(wfloat[x])
                           + Share(x) + pendDown[x] - pendUp[x])'
    BY DEF PyRefsOwned
  <2>1. /\ pyref'[x] = pyref[x] + B(x = w /\ dict[w] /\ how = "owned")
        /\ UNCHANGED <<held, inCall, wfloat, pendDown, pendUp>>
    BY DEF ToggleKeeps, Construct, TypeOK, B
  <2> QED BY <1>2, <1>3, <2>1, Typed DEF PyRefsOwned, B
<1>7. OneWrapper'
  BY Bound, SentinelAssumption DEF TypeOK, OneWrapper, Construct, Register, Live
<1>8. Shape'
  BY DEF Shape, Construct, Live, Quiet
<1>9. Toggles'
  BY Bound, SentinelAssumption DEF TypeOK, Toggles, Construct, Register, Live
<1>10. Pending'
  BY Bound DEF TypeOK, Pending, Construct, Register, Borrowers
<1>11. Trash'
  BY <1>3 DEF TypeOK, Trash, Referrers, Construct, B, Live, Quiet
<1> QED BY <1>4, <1>5, <1>6, <1>7, <1>8, <1>9, <1>10, <1>11

\* pygobject__g_instance_init makes the orphan wrapper of a new object.
LEMMA GNewKeeps ==
  ASSUME IInv, NEW o \in Objs, NEW w \in Wraps, NEW d \in BOOLEAN, NEW fl \in BOOLEAN, GNew(o, w, d, fl)
  PROVE  IInv'
<1> USE DEF IInv
<1>1. \A p : Cardinality(Owners(p))'
             = Cardinality(Owners(p)) + B(o = p) - B(wobj[w] = p)
  <2>1. wobj' = [wobj EXCEPT ![w] = o]
    BY DEF GNew
  <2>2. \A p : Cardinality(Owners(p))' = Cardinality(Owners(p)) + B(o = p) - B(wobj[w] = p)
    BY <2>1, OwnersUpdate DEF B
  <2> QED BY <2>2
<1>2. \A x : Cardinality(Referrers(x))' = Cardinality(Referrers(x))
  BY ReferrersSame DEF GNew
<1>3. \A x \in Wraps : Share(x)' = Share(x) + B(x = w /\ d /\ ~fl)
  BY SentinelAssumption, Bound DEF TypeOK, Share, Toggles, GNew, B, Register, Live
<1>4. TypeOK'
  BY SentinelAssumption DEF TypeOK, GNew, B, Register, ToggleKeeps
<1>5. RefsOwned'
  <2> SUFFICES ASSUME NEW p \in Objs
      PROVE  (gref[p] = native[p] + B(floating[p]) + Cardinality(Owners(p)))'
    BY DEF RefsOwned
  <2>1. /\ gref'[p] = gref[p] + B(p = o) + B(p = o /\ ~fl)
        /\ native'[p] = native[p] + B(p = o /\ ~fl)
        /\ UNCHANGED <<floating>>
    BY Bound DEF GNew, TypeOK, B
  <2>2. gref[p] \in Nat /\ native[p] \in Nat /\ floating[p] \in BOOLEAN
    BY DEF TypeOK
  <2>3. wobj[w] # p
    BY SentinelAssumption DEF Shape, GNew
  <2> QED BY <1>1, <2>1, <2>2, <2>3, CountsNat DEF RefsOwned, B
<1>6. PyRefsOwned'
  <2> SUFFICES ASSUME NEW x \in Wraps
      PROVE  (pyref[x] = held[x] + inCall[x] + Cardinality(Referrers(x)) + B(wfloat[x])
                           + Share(x) + pendDown[x] - pendUp[x])'
    BY DEF PyRefsOwned
  <2>1. /\ pyref'[x] = pyref[x] + B(x = w) + B(x = w /\ d /\ ~fl)
        /\ B(wfloat'[x]) = B(wfloat[x]) + B(x = w)
        /\ UNCHANGED <<held, inCall, pendDown, pendUp>>
    BY DEF Shape, Live, Quiet, ToggleKeeps, GNew, TypeOK, B
  <2> QED BY <1>2, <1>3, <2>1, Typed DEF PyRefsOwned, B
<1>7. OneWrapper'
  BY Bound DEF TypeOK, OneWrapper, GNew, Register, Live
<1>8. Shape'
  BY DEF TypeOK, Shape, GNew, Live, Quiet
<1>9. Toggles'
  BY Bound DEF TypeOK, Toggles, GNew, Register, Live
<1>10. Pending'
  BY Bound DEF Pending, Shape, GNew, B, Register, Borrowers, Live, Quiet
<1>11. Trash'
  BY <1>3 DEF TypeOK, Trash, Shape, Referrers, GNew, B, Live, Quiet
<1> QED BY <1>4, <1>5, <1>6, <1>7, <1>8, <1>9, <1>10, <1>11

\* pygobject_new_full with a wrapper in the qdata.  This is where RewrapTrash has
\* to be false: a wrapper on the collector's list is not given a reference.
LEMMA WrapAgainKeeps ==
  ASSUME IInv, NEW o \in Objs, NEW steal \in BOOLEAN, ~RewrapTrash, WrapAgain(o, steal)
  PROVE  IInv'
<1> USE DEF IInv
<1>1. \A p : Cardinality(Owners(p))' = Cardinality(Owners(p))
  BY OwnersSame DEF WrapAgain
<1>2. \A x : Cardinality(Referrers(x))' = Cardinality(Referrers(x))
  BY ReferrersSame DEF WrapAgain
<1>3. \A x \in Wraps : Share(x)' = Share(x) - B(steal /\ togg[o] = x /\ gref[o] = 2)
  BY SentinelAssumption DEF TypeOK, Share, Toggles, WrapAgain, B
<1>4. TypeOK'
  BY Lower, CountsNat, Bound DEF TypeOK, WrapAgain, B, Pinned
<1>5. RefsOwned'
  <2> SUFFICES ASSUME NEW p \in Objs
      PROVE  (gref[p] = native[p] + B(floating[p]) + Cardinality(Owners(p)))'
    BY DEF RefsOwned
  <2>1. /\ gref'[p] = gref[p] - B(p = o /\ steal)
        /\ native'[p] = native[p] - B(p = o /\ steal)
        /\ UNCHANGED <<floating>>
    BY DEF WrapAgain, TypeOK, B
  <2>2. gref[p] \in Nat /\ native[p] \in Nat /\ floating[p] \in BOOLEAN
    BY DEF TypeOK
  <2> QED BY <1>1, <2>1, <2>2, CountsNat DEF RefsOwned, B
<1>6. PyRefsOwned'
  <2> SUFFICES ASSUME NEW x \in Wraps
      PROVE  (pyref[x] = held[x] + inCall[x] + Cardinality(Referrers(x)) + B(wfloat[x])
                           + Share(x) + pendDown[x] - pendUp[x])'
    BY DEF PyRefsOwned
  <2>1. /\ pyref'[x] = pyref[x] + B(x = qwrap[o] /\ ~wfloat[x]) - B(steal /\ togg[o] = x /\ gref[o] = 2)
        /\ held'[x] = held[x] + B(x = qwrap[o])
        /\ B(wfloat'[x]) = B(wfloat[x]) - B(x = qwrap[o] /\ wfloat[x])
        /\ UNCHANGED <<inCall, pendDown, pendUp>>
    BY Typed, SentinelAssumption DEF Toggles, OneWrapper, WrapAgain, TypeOK, B
  <2> QED BY <1>2, <1>3, <2>1, Typed DEF PyRefsOwned, B
<1>7. OneWrapper'
  BY DEF OneWrapper, WrapAgain, Live
<1>8. Shape'
  BY DEF Shape, OneWrapper, WrapAgain, Live, Quiet
<1>9. Toggles'
  BY DEF Toggles, WrapAgain, Live
<1>10. Pending'
  BY SentinelAssumption DEF TypeOK, Pending, WrapAgain, B, Borrowers, Pinned
<1>11. Trash'
  <2>1. \A x \in trash : x # qwrap[o] /\ Quiet(x)' /\ Share(x)' = 0
    <3> TAKE x \in trash
    <3>1. x \in Wraps /\ Quiet(x) /\ Share(x) = 0 /\ x # qwrap[o]
      BY DEF Trash, TypeOK, WrapAgain
    <3>2. togg[o] # x
      BY <3>1, SentinelAssumption DEF Toggles, OneWrapper
    <3> QED BY <1>3, <3>1, <3>2 DEF Quiet, WrapAgain, B
  <2> QED BY <2>1 DEF Trash, WrapAgain, Live, Referrers
<1> QED BY <1>4, <1>5, <1>6, <1>7, <1>8, <1>9, <1>10, <1>11

\* pygobject_new_full without one: the object gets a new wrapper.
LEMMA WrapNewKeeps ==
  ASSUME IInv, NEW o \in Objs, NEW w \in Wraps, NEW steal \in BOOLEAN, WrapNew(o, w, steal)
  PROVE  IInv'
<1> USE DEF IInv
<1>1. \A p : Cardinality(Owners(p))'
             = Cardinality(Owners(p)) + B(o = p) - B(wobj[w] = p)
  <2>1. wobj' = [wobj EXCEPT ![w] = o]
    BY DEF WrapNew
  <2>2. \A p : Cardinality(Owners(p))' = Cardinality(Owners(p)) + B(o = p) - B(wobj[w] = p)
    BY <2>1, OwnersUpdate DEF B
  <2> QED BY <2>2
<1>2. \A x : Cardinality(Referrers(x))' = Cardinality(Referrers(x))
  BY ReferrersSame DEF WrapNew
<1>3. \A x \in Wraps : Share(x)' = Share(x)
  BY SentinelAssumption DEF Share, Toggles, OneWrapper, Shape, WrapNew, Register
<1>4. TypeOK'
  BY SentinelAssumption DEF TypeOK, WrapNew, B, Register, Pinned
<1>5. RefsOwned'
  <2> SUFFICES ASSUME NEW p \in Objs
      PROVE  (gref[p] = native[p] + B(floating[p]) + Cardinality(Owners(p)))'
    BY DEF RefsOwned
  <2>1. /\ gref'[p] = gref[p] + B(p = o /\ AddsRef(o, steal))
        /\ native'[p] = native[p] - B(p = o /\ steal /\ ~floating[o])
        /\ B(floating'[p]) = B(floating[p]) - B(p = o /\ floating[o])
    BY DEF WrapNew, TypeOK, B
  <2>2. gref[p] \in Nat /\ native[p] \in Nat /\ floating[p] \in BOOLEAN
    BY DEF TypeOK
  <2>3. wobj[w] # p
    BY SentinelAssumption DEF Shape, WrapNew
  <2> QED BY <1>1, <2>1, <2>2, <2>3, CountsNat DEF RefsOwned, B, AddsRef
<1>6. PyRefsOwned'
  <2> SUFFICES ASSUME NEW x \in Wraps
      PROVE  (pyref[x] = held[x] + inCall[x] + Cardinality(Referrers(x)) + B(wfloat[x])
                           + Share(x) + pendDown[x] - pendUp[x])'
    BY DEF PyRefsOwned
  <2>1. /\ pyref'[x] = pyref[x] + B(x = w)
        /\ held'[x] = held[x] + B(x = w)
        /\ UNCHANGED <<inCall, wfloat, pendDown, pendUp>>
    BY DEF Shape, Live, Quiet, WrapNew, TypeOK, B
  <2> QED BY <1>2, <1>3, <2>1, Typed DEF PyRefsOwned, B
<1>7. OneWrapper'
  BY SentinelAssumption DEF TypeOK, OneWrapper, WrapNew, Register, Live
<1>8. Shape'
  BY DEF TypeOK, Shape, WrapNew, Live, Quiet
<1>9. Toggles'
  BY DEF Toggles, Shape, WrapNew, Register, Live
<1>10. Pending'
  BY SentinelAssumption DEF TypeOK, Pending, Toggles, WrapNew, B, Register,
     Borrowers, Pinned, Live
<1>11. Trash'
  BY <1>3 DEF TypeOK, Trash, Shape, Referrers, WrapNew, Live, Quiet
<1> QED BY <1>4, <1>5, <1>6, <1>7, <1>8, <1>9, <1>10, <1>11

\* pygobject_setattro: what becomes referred to is held, and the toggle reference
\* takes the place of the plain one.
LEMMA SetAttrKeeps ==
  ASSUME IInv, NEW w \in Wraps, NEW new \in SUBSET Wraps, SetAttr(w, new)
  PROVE  IInv'
<1> USE DEF IInv
<1>1. \A p : Cardinality(Owners(p))' = Cardinality(Owners(p))
  BY OwnersSame DEF SetAttr
<1>2. \A x : Cardinality(Referrers(x))'
             = Cardinality(Referrers(x)) + B(x \in new) - B(x \in refs[w])
  <2>1. refs' = [refs EXCEPT ![w] = new]
    BY DEF SetAttr
  <2> QED BY <2>1, ReferrersUpdate
<1>3. \A x \in Wraps : Share(x)' = Share(x) + IF x = w /\ ~dict[w] /\ wobj[w] # NoObj THEN ToggleKeeps(gref[wobj[w]]) ELSE 0
  BY SentinelAssumption DEF TypeOK, Share, Toggles, OneWrapper, SetAttr, B,
     ToggleKeeps
<1>4. TypeOK'
  BY SentinelAssumption, Lower, CountsNat DEF TypeOK, Shape, SetAttr, B,
     ToggleKeeps, Quiet
<1>5. RefsOwned'
  BY <1>1 DEF RefsOwned, SetAttr
<1>6. PyRefsOwned'
  <2> SUFFICES ASSUME NEW x \in Wraps
      PROVE  (pyref[x] = held[x] + inCall[x] + Cardinality(Referrers(x)) + B(wfloat[x])
                           + Share(x) + pendDown[x] - pendUp[x])'
    BY DEF PyRefsOwned
  <2>1. /\ pyref'[x] = pyref[x] + B(x \in new) - B(x \in refs[w])
             + IF x = w /\ ~dict[w] /\ wobj[w] # NoObj THEN ToggleKeeps(gref[wobj[w]]) ELSE 0
        /\ UNCHANGED <<held, inCall, wfloat, pendDown, pendUp>>
    BY DEF SetAttr
  <2> QED BY <1>2, <1>3, <2>1, Typed DEF PyRefsOwned, B, ToggleKeeps
<1>7. OneWrapper'
  BY DEF OneWrapper, SetAttr, Live
<1>8. Shape'
  <2>1. ASSUME NEW v \in Wraps, pyref[v] = 0, Quiet(v)
        PROVE  v \notin new /\ v \notin refs[w] /\ v # w
    BY <2>1, Referred DEF SetAttr, Quiet
  <2>2. ASSUME NEW v \in Wraps, wst[v] \in {"free", "dealloc"}
        PROVE  pyref'[v] = 0
    <3>1. pyref[v] = 0 /\ Quiet(v)
      BY <2>2 DEF Shape, Live
    <3> QED BY <2>1, <3>1 DEF SetAttr, B
  <2> QED BY <2>2 DEF TypeOK, Shape, SetAttr, Live, Quiet
<1>9. Toggles'
  BY DEF TypeOK, Toggles, OneWrapper, SetAttr, Live
<1>10. Pending'
  BY SentinelAssumption DEF TypeOK, Pending, Toggles, OneWrapper, SetAttr, Borrowers
<1>11. Trash'
  BY <1>3 DEF TypeOK, Trash, Shape, Referrers, SetAttr, Live, Quiet
<1> QED BY <1>4, <1>5, <1>6, <1>7, <1>8, <1>9, <1>10, <1>11

\* A variable gets a reference; what it reads from a dictionary is not dying.
LEMMA IncrefKeeps ==
  ASSUME IInv, NEW w \in Wraps, Incref(w)
  PROVE  IInv'
<1> USE DEF IInv
<1>1. \A p : Cardinality(Owners(p))' = Cardinality(Owners(p))
  BY OwnersSame DEF Incref
<1>2. \A x : Cardinality(Referrers(x))' = Cardinality(Referrers(x))
  BY ReferrersSame DEF Incref
<1>3. \A x \in Wraps : Share(x)' = Share(x)
  BY DEF Share, Incref, gvars
<1>4. TypeOK'
  BY DEF TypeOK, Incref, gvars
<1>5. RefsOwned'
  BY <1>1 DEF RefsOwned, Incref, gvars
<1>6. PyRefsOwned'
  <2> SUFFICES ASSUME NEW x \in Wraps
      PROVE  (pyref[x] = held[x] + inCall[x] + Cardinality(Referrers(x)) + B(wfloat[x])
                           + Share(x) + pendDown[x] - pendUp[x])'
    BY DEF PyRefsOwned
  <2>1. /\ pyref'[x] = pyref[x] + B(x = w)
        /\ held'[x] = held[x] + B(x = w)
        /\ UNCHANGED <<inCall, wfloat, pendDown, pendUp>>
    BY DEF Incref, TypeOK, B
  <2> QED BY <1>2, <1>3, <2>1, Typed DEF PyRefsOwned, B
<1>7. OneWrapper'
  BY DEF OneWrapper, Incref, gvars, Live
<1>8. Shape'
  <2>1. Live(w)
    <3>1. CASE held[w] > 0
      BY <3>1 DEF Shape, Quiet
    <3>2. CASE \E v \in Referrers(w) : Live(v) /\ held[v] > 0
      <4>1. PICK v \in Wraps : w \in refs[v] /\ Live(v) /\ held[v] > 0
        BY <3>2 DEF Referrers
      <4>2. pyref[w] >= 1
        BY <4>1, Referred
      <4>3. wst[w] # "clearing"
        BY <4>1 DEF Trash, Quiet, Referrers
      <4> QED BY <4>2, <4>3 DEF Shape, TypeOK, Live
    <3> QED BY <3>1, <3>2 DEF Incref
  <2> QED BY <2>1 DEF Shape, Incref, Live, Quiet
<1>9. Toggles'
  BY DEF Toggles, Incref, gvars, Live
<1>10. Pending'
  BY DEF Pending, Incref, gvars, Borrowers
<1>11. Trash'
  BY <1>3 DEF TypeOK, Trash, Referrers, Incref, Live, Quiet
<1> QED BY <1>4, <1>5, <1>6, <1>7, <1>8, <1>9, <1>10, <1>11

\* A variable loses one.
LEMMA DecrefKeeps ==
  ASSUME IInv, NEW w \in Wraps, Decref(w)
  PROVE  IInv'
<1> USE DEF IInv
<1>1. \A p : Cardinality(Owners(p))' = Cardinality(Owners(p))
  BY OwnersSame DEF Decref
<1>2. \A x : Cardinality(Referrers(x))' = Cardinality(Referrers(x))
  BY ReferrersSame DEF Decref
<1>3. \A x \in Wraps : Share(x)' = Share(x)
  BY DEF Share, Decref, gvars
<1>4. TypeOK'
  BY Lower, CountsNat DEF TypeOK, Decref, gvars, B
<1>5. RefsOwned'
  BY <1>1 DEF RefsOwned, Decref, gvars
<1>6. PyRefsOwned'
  <2> SUFFICES ASSUME NEW x \in Wraps
      PROVE  (pyref[x] = held[x] + inCall[x] + Cardinality(Referrers(x)) + B(wfloat[x])
                           + Share(x) + pendDown[x] - pendUp[x])'
    BY DEF PyRefsOwned
  <2>1. /\ pyref'[x] = pyref[x] - B(x = w)
        /\ held'[x] = held[x] - B(x = w)
        /\ UNCHANGED <<inCall, wfloat, pendDown, pendUp>>
    BY DEF Decref, TypeOK, B
  <2> QED BY <1>2, <1>3, <2>1, Typed DEF PyRefsOwned, B
<1>7. OneWrapper'
  BY DEF OneWrapper, Decref, gvars, Live
<1>8. Shape'
  BY DEF Shape, Decref, Live, Quiet
<1>9. Toggles'
  BY DEF Toggles, Decref, gvars, Live
<1>10. Pending'
  BY DEF Pending, Decref, gvars, Borrowers
<1>11. Trash'
  BY <1>3 DEF TypeOK, Trash, Referrers, Decref, Live, Quiet
<1> QED BY <1>4, <1>5, <1>6, <1>7, <1>8, <1>9, <1>10, <1>11

\* A call takes the wrapper as argument.
LEMMA BeginCallKeeps ==
  ASSUME IInv, NEW w \in Wraps, BeginCall(w)
  PROVE  IInv'
<1> USE DEF IInv
<1>1. \A p : Cardinality(Owners(p))' = Cardinality(Owners(p))
  BY OwnersSame DEF BeginCall
<1>2. \A x : Cardinality(Referrers(x))' = Cardinality(Referrers(x))
  BY ReferrersSame DEF BeginCall
<1>3. \A x \in Wraps : Share(x)' = Share(x)
  BY DEF Share, BeginCall, gvars
<1>4. TypeOK'
  BY DEF TypeOK, BeginCall, gvars
<1>5. RefsOwned'
  BY <1>1 DEF RefsOwned, BeginCall, gvars
<1>6. PyRefsOwned'
  <2> SUFFICES ASSUME NEW x \in Wraps
      PROVE  (pyref[x] = held[x] + inCall[x] + Cardinality(Referrers(x)) + B(wfloat[x])
                           + Share(x) + pendDown[x] - pendUp[x])'
    BY DEF PyRefsOwned
  <2>1. /\ pyref'[x] = pyref[x] + B(x = w)
        /\ inCall'[x] = inCall[x] + B(x = w)
        /\ UNCHANGED <<held, wfloat, pendDown, pendUp>>
    BY DEF BeginCall, TypeOK, B
  <2> QED BY <1>2, <1>3, <2>1, Typed DEF PyRefsOwned, B
<1>7. OneWrapper'
  BY DEF OneWrapper, BeginCall, gvars, Live
<1>8. Shape'
  BY DEF Shape, BeginCall, Live, Quiet
<1>9. Toggles'
  BY DEF Toggles, BeginCall, gvars, Live
<1>10. Pending'
  BY DEF TypeOK, Pending, BeginCall, gvars, B, Borrowers
<1>11. Trash'
  BY <1>3 DEF TypeOK, Trash, Referrers, BeginCall, Live, Quiet
<1> QED BY <1>4, <1>5, <1>6, <1>7, <1>8, <1>9, <1>10, <1>11

\* A call returns.
LEMMA EndCallKeeps ==
  ASSUME IInv, NEW w \in Wraps, EndCall(w)
  PROVE  IInv'
<1> USE DEF IInv
<1>1. \A p : Cardinality(Owners(p))' = Cardinality(Owners(p))
  BY OwnersSame DEF EndCall
<1>2. \A x : Cardinality(Referrers(x))' = Cardinality(Referrers(x))
  BY ReferrersSame DEF EndCall
<1>3. \A x \in Wraps : Share(x)' = Share(x)
  BY DEF Share, EndCall, gvars
<1>4. TypeOK'
  BY Lower, CountsNat DEF TypeOK, EndCall, gvars, B
<1>5. RefsOwned'
  BY <1>1 DEF RefsOwned, EndCall, gvars
<1>6. PyRefsOwned'
  <2> SUFFICES ASSUME NEW x \in Wraps
      PROVE  (pyref[x] = held[x] + inCall[x] + Cardinality(Referrers(x)) + B(wfloat[x])
                           + Share(x) + pendDown[x] - pendUp[x])'
    BY DEF PyRefsOwned
  <2>1. /\ pyref'[x] = pyref[x] - B(x = w)
        /\ inCall'[x] = inCall[x] - B(x = w)
        /\ UNCHANGED <<held, wfloat, pendDown, pendUp>>
    BY DEF EndCall, TypeOK, B
  <2> QED BY <1>2, <1>3, <2>1, Typed DEF PyRefsOwned, B
<1>7. OneWrapper'
  BY DEF OneWrapper, EndCall, gvars, Live
<1>8. Shape'
  BY DEF Shape, EndCall, Live, Quiet
<1>9. Toggles'
  BY DEF Toggles, EndCall, gvars, Live
<1>10. Pending'
  BY DEF TypeOK, Pending, EndCall, gvars, B, Borrowers
<1>11. Trash'
  BY <1>3 DEF TypeOK, Trash, Referrers, EndCall, Live, Quiet
<1> QED BY <1>4, <1>5, <1>6, <1>7, <1>8, <1>9, <1>10, <1>11

\* pygi_marshal_from_py_gobject adds a reference for the callee.
LEMMA PassBorrowedKeeps ==
  ASSUME IInv, NEW w \in Wraps, PassBorrowed(w)
  PROVE  IInv'
<1> USE DEF IInv
<1>1. \A p : Cardinality(Owners(p))' = Cardinality(Owners(p))
  BY OwnersSame DEF PassBorrowed
<1>2. \A x : Cardinality(Referrers(x))' = Cardinality(Referrers(x))
  BY ReferrersSame DEF PassBorrowed
<1>3. \A x \in Wraps : Share(x)' = Share(x) + B(x = w /\ togg[wobj[w]] = w)
  BY SentinelAssumption DEF TypeOK, Share, Toggles, OneWrapper, PassBorrowed, B
<1>4. TypeOK'
  BY DEF TypeOK, PassBorrowed, B
<1>5. RefsOwned'
  <2> SUFFICES ASSUME NEW p \in Objs
      PROVE  (gref[p] = native[p] + B(floating[p]) + Cardinality(Owners(p)))'
    BY DEF RefsOwned
  <2>1. /\ gref'[p] = gref[p] + B(p = wobj[w])
        /\ native'[p] = native[p] + B(p = wobj[w] /\ ~wsunk[w])
        /\ B(floating'[p]) = B(floating[p]) + B(p = wobj[w] /\ wsunk[w])
    BY Bound DEF PassBorrowed, TypeOK, B
  <2>2. gref[p] \in Nat /\ native[p] \in Nat /\ floating[p] \in BOOLEAN
    BY DEF TypeOK
  <2> QED BY <1>1, <2>1, <2>2, CountsNat DEF RefsOwned, B
<1>6. PyRefsOwned'
  <2> SUFFICES ASSUME NEW x \in Wraps
      PROVE  (pyref[x] = held[x] + inCall[x] + Cardinality(Referrers(x)) + B(wfloat[x])
                           + Share(x) + pendDown[x] - pendUp[x])'
    BY DEF PyRefsOwned
  <2>1. /\ pyref'[x] = pyref[x] + B(x = w /\ togg[wobj[w]] = w)
        /\ UNCHANGED <<held, inCall, wfloat, pendDown, pendUp>>
    BY DEF PassBorrowed, TypeOK, B
  <2> QED BY <1>2, <1>3, <2>1, Typed DEF PyRefsOwned, B
<1>7. OneWrapper'
  BY DEF OneWrapper, PassBorrowed, Live
<1>8. Shape'
  BY DEF Shape, PassBorrowed, Live, Quiet
<1>9. Toggles'
  BY DEF Toggles, PassBorrowed, Live
<1>10. Pending'
  BY DEF TypeOK, Pending, PassBorrowed, B, Borrowers
<1>11. Trash'
  BY <1>3 DEF TypeOK, Trash, Referrers, PassBorrowed, B, Live, Quiet
<1> QED BY <1>4, <1>5, <1>6, <1>7, <1>8, <1>9, <1>10, <1>11

\* tp_dealloc finds a wrapper nobody refers to, the GObject included (<1>u).
LEMMA BeginDeallocKeeps ==
  ASSUME IInv, NEW w \in Wraps, BeginDealloc(w)
  PROVE  IInv'
<1> USE DEF IInv
<1>1. \A p : Cardinality(Owners(p))' = Cardinality(Owners(p))
  BY OwnersSame DEF BeginDealloc
<1>2. \A x : Cardinality(Referrers(x))' = Cardinality(Referrers(x))
  BY ReferrersSame DEF BeginDealloc
<1>u. Quiet(w) /\ Share(w) = 0
  BY Unreferenced, CountsNat DEF BeginDealloc
<1>3. \A x \in Wraps : Share(x)' = Share(x)
  BY <1>u DEF Share, Toggles, BeginDealloc, B, Unregister
<1>4. TypeOK'
  BY DEF TypeOK, BeginDealloc, Unregister, Recorded
<1>5. RefsOwned'
  BY <1>1 DEF RefsOwned, BeginDealloc
<1>6. PyRefsOwned'
  <2>1. UNCHANGED <<pyref, held, inCall, wfloat, pendDown, pendUp>>
    BY DEF BeginDealloc, wvars
  <2> QED BY <1>2, <1>3, <2>1 DEF PyRefsOwned
<1>7. OneWrapper'
  BY DEF TypeOK, OneWrapper, BeginDealloc, Unregister, Live
<1>8. Shape'
  BY <1>u DEF Shape, BeginDealloc, Live, Quiet
<1>9. Toggles'
  BY DEF TypeOK, Toggles, BeginDealloc, Unregister, Live
<1>10. Pending'
  BY <1>u DEF Pending, BeginDealloc, Unregister, Quiet, Borrowers, Toggles
<1>11. Trash'
  BY <1>3 DEF TypeOK, Trash, Referrers, BeginDealloc, Live, Quiet
<1> QED BY <1>4, <1>5, <1>6, <1>7, <1>8, <1>9, <1>10, <1>11

\* tp_dealloc of a wrapper without a GObject.
LEMMA DeallocUnboundKeeps ==
  ASSUME IInv, NEW w \in Wraps, DeallocUnbound(w)
  PROVE  IInv'
<1> USE DEF IInv
<1>u. Quiet(w)
  BY Unreferenced, CountsNat DEF DeallocUnbound
<1>r. \A x \in Wraps : pyref[x] - B(x \in refs[w]) \in Nat /\ (pyref[x] = 0 => x \notin refs[w])
  BY Referred DEF TypeOK, B
<1>1. \A p : Cardinality(Owners(p))' = Cardinality(Owners(p))
  BY OwnersSame DEF DeallocUnbound
<1>2. \A x : Cardinality(Referrers(x))'
             = Cardinality(Referrers(x)) + B(x \in {}) - B(x \in refs[w])
  <2>1. refs' = [refs EXCEPT ![w] = {}]
    BY DEF DeallocUnbound
  <2> QED BY <2>1, ReferrersUpdate
<1>3. \A x \in Wraps : Share(x)' = Share(x)
  BY DEF Share, DeallocUnbound, gvars
<1>4. TypeOK'
  BY <1>r DEF TypeOK, DeallocUnbound, DropRefs, gvars
<1>5. RefsOwned'
  BY <1>1 DEF RefsOwned, DeallocUnbound, gvars
<1>6. PyRefsOwned'
  <2> SUFFICES ASSUME NEW x \in Wraps
      PROVE  (pyref[x] = held[x] + inCall[x] + Cardinality(Referrers(x)) + B(wfloat[x])
                           + Share(x) + pendDown[x] - pendUp[x])'
    BY DEF PyRefsOwned
  <2>1. /\ pyref'[x] = pyref[x] - B(x \in refs[w])
        /\ UNCHANGED <<held, inCall, wfloat, pendDown, pendUp>>
    BY DEF DropRefs, DeallocUnbound
  <2> QED BY <1>2, <1>3, <2>1, Typed DEF PyRefsOwned, B
<1>7. OneWrapper'
  BY SentinelAssumption DEF OneWrapper, DeallocUnbound, gvars, Live
<1>8. Shape'
  <2>1. \A x \in Wraps : pyref[x] = 0 => pyref'[x] = 0
    BY <1>r DEF DeallocUnbound, DropRefs, B
  <2> QED BY <1>u, <2>1 DEF TypeOK, Shape, DeallocUnbound, Live, Quiet
<1>9. Toggles'
  BY SentinelAssumption DEF Toggles, DeallocUnbound, gvars, Live
<1>10. Pending'
  BY DEF Pending, DeallocUnbound, gvars, Borrowers
<1>11. Trash'
  BY <1>3 DEF TypeOK, Trash, Referrers, DeallocUnbound, Live, Quiet
<1> QED BY <1>4, <1>5, <1>6, <1>7, <1>8, <1>9, <1>10, <1>11

\* The collector's list holds only garbage (GarbageClosed).
LEMMA GcStartKeeps ==
  ASSUME IInv, NEW S \in SUBSET Wraps, GcStart(S)
  PROVE  IInv'
<1> USE DEF IInv
<1>1. \A p : Cardinality(Owners(p))' = Cardinality(Owners(p))
  BY OwnersSame DEF GcStart, wvars
<1>2. \A x : Cardinality(Referrers(x))' = Cardinality(Referrers(x))
  BY ReferrersSame DEF GcStart, wvars
<1>3. \A x \in Wraps : Share(x)' = Share(x)
  BY DEF Share, GcStart, wvars
<1>4. TypeOK'
  <2>1. Traversed \in [Objs -> Classes \cup {NoClass}]
    <3> SUFFICES ASSUME NEW p \in Objs PROVE Traversed[p] \in Classes \cup {NoClass}
      BY DEF Traversed
    <3> DEFINE L == {x \in Owners(p) : Live(x)}
    <3>1. L # {} => (CHOOSE x \in L : TRUE) \in Wraps
      BY DEF Owners
    <3>2. Traversed[p] = IF iclass[p] = NoClass /\ L # {}
                           THEN wclass[CHOOSE x \in L : TRUE] ELSE iclass[p]
      BY DEF Traversed
    <3> HIDE DEF L
    <3> QED BY <3>1, <3>2 DEF TypeOK
  <2> QED BY <2>1 DEF TypeOK, GcStart, wvars
<1>5. RefsOwned'
  BY <1>1 DEF RefsOwned, GcStart
<1>6. PyRefsOwned'
  <2>1. UNCHANGED <<pyref, held, inCall, wfloat, pendDown, pendUp>>
    BY DEF GcStart, wvars
  <2> QED BY <1>2, <1>3, <2>1 DEF PyRefsOwned
<1>7. OneWrapper'
  BY DEF OneWrapper, GcStart, wvars, Live
<1>8. Shape'
  BY DEF Shape, GcStart, wvars, Live, Quiet
<1>9. Toggles'
  BY DEF Toggles, GcStart, wvars, Live
<1>10. Pending'
  BY DEF Pending, GcStart, wvars, Borrowers
<1>11. Trash'
  <2>1. \A x \in S : Live(x) /\ Quiet(x) /\ Share(x) = 0 /\ Referrers(x) \subseteq S
    BY GarbageClosed DEF GcStart, Garbage
  <2>2. UNCHANGED wvars /\ trash' = S /\ \A x \in Wraps : wst[x] # "clearing"
    BY DEF GcStart
  <2> QED BY <1>3, <2>1, <2>2 DEF Trash, wvars, Live, Quiet, Referrers
<1> QED BY <1>4, <1>5, <1>6, <1>7, <1>8, <1>9, <1>10, <1>11

\* tp_clear of a wrapper on the list, still nobody's (<1>u).
LEMMA GcClearKeeps ==
  ASSUME IInv, NEW w \in Wraps, GcClear(w)
  PROVE  IInv'
<1> USE DEF IInv
<1>1. \A p : Cardinality(Owners(p))' = Cardinality(Owners(p))
  BY OwnersSame DEF GcClear
<1>2. \A x : Cardinality(Referrers(x))' = Cardinality(Referrers(x))
  BY ReferrersSame DEF GcClear
<1>u. Live(w) /\ Quiet(w) /\ Share(w) = 0
  BY DEF Trash, GcClear
<1>3. \A x \in Wraps : Share(x)' = Share(x)
  BY <1>u DEF Share, Toggles, GcClear, B, Unregister
<1>4. TypeOK'
  BY DEF TypeOK, GcClear, Unregister
<1>5. RefsOwned'
  BY <1>1 DEF RefsOwned, GcClear
<1>6. PyRefsOwned'
  <2>1. UNCHANGED <<pyref, held, inCall, wfloat, pendDown, pendUp>>
    BY DEF GcClear, wvars
  <2> QED BY <1>2, <1>3, <2>1 DEF PyRefsOwned
<1>7. OneWrapper'
  BY DEF TypeOK, OneWrapper, Trash, GcClear, Unregister, Live
<1>8. Shape'
  BY DEF Shape, Trash, GcClear, Live, Quiet
<1>9. Toggles'
  BY DEF TypeOK, Toggles, Trash, GcClear, Unregister, Live
<1>10. Pending'
  BY <1>u DEF Pending, GcClear, Unregister, Quiet, Borrowers, Toggles
<1>11. Trash'
  BY <1>3 DEF TypeOK, Trash, Referrers, GcClear, Live, Quiet
<1> QED BY <1>4, <1>5, <1>6, <1>7, <1>8, <1>9, <1>10, <1>11

\* tp_clear of a wrapper without a GObject.
LEMMA GcClearUnboundKeeps ==
  ASSUME IInv, NEW w \in Wraps, GcClearUnbound(w)
  PROVE  IInv'
<1> USE DEF IInv
<1>r. \A x \in Wraps : pyref[x] - B(x \in refs[w]) \in Nat /\ (pyref[x] = 0 => x \notin refs[w])
  BY Referred DEF TypeOK, B
<1>1. \A p : Cardinality(Owners(p))' = Cardinality(Owners(p))
  BY OwnersSame DEF GcClearUnbound
<1>2. \A x : Cardinality(Referrers(x))'
             = Cardinality(Referrers(x)) + B(x \in {}) - B(x \in refs[w])
  <2>1. refs' = [refs EXCEPT ![w] = {}]
    BY DEF GcClearUnbound
  <2> QED BY <2>1, ReferrersUpdate
<1>3. \A x \in Wraps : Share(x)' = Share(x)
  BY DEF Share, GcClearUnbound, gvars
<1>4. TypeOK'
  BY <1>r DEF TypeOK, GcClearUnbound, DropRefs, gvars
<1>5. RefsOwned'
  BY <1>1 DEF RefsOwned, GcClearUnbound, gvars
<1>6. PyRefsOwned'
  <2> SUFFICES ASSUME NEW x \in Wraps
      PROVE  (pyref[x] = held[x] + inCall[x] + Cardinality(Referrers(x)) + B(wfloat[x])
                           + Share(x) + pendDown[x] - pendUp[x])'
    BY DEF PyRefsOwned
  <2>1. /\ pyref'[x] = pyref[x] - B(x \in refs[w])
        /\ UNCHANGED <<held, inCall, wfloat, pendDown, pendUp>>
    BY DEF DropRefs, GcClearUnbound
  <2> QED BY <1>2, <1>3, <2>1, Typed DEF PyRefsOwned, B
<1>7. OneWrapper'
  BY DEF OneWrapper, GcClearUnbound, gvars, Live
<1>8. Shape'
  <2>1. \A x \in Wraps : pyref[x] = 0 => pyref'[x] = 0
    BY <1>r DEF GcClearUnbound, DropRefs, B
  <2> QED BY <2>1 DEF TypeOK, Shape, GcClearUnbound, Live, Quiet
<1>9. Toggles'
  BY SentinelAssumption DEF Toggles, GcClearUnbound, gvars, Live
<1>10. Pending'
  BY DEF Pending, GcClearUnbound, gvars, Borrowers
<1>11. Trash'
  BY <1>3 DEF TypeOK, Trash, Referrers, GcClearUnbound, Live, Quiet
<1> QED BY <1>4, <1>5, <1>6, <1>7, <1>8, <1>9, <1>10, <1>11

\* pygobject_clear gives the reference on the GObject back, which the wrapper
\* owns until then (<1>p).
LEMMA FinishKeeps ==
  ASSUME IInv, NEW w \in Wraps, Finish(w)
  PROVE  IInv'
<1> USE DEF IInv
<1>p. wobj[w] \in Objs /\ wobj[w] # NoObj /\ gref[wobj[w]] >= 1 /\ ~Live(w)
  BY Bound DEF TypeOK, Shape, Finish, Live
<1>r. \A x \in Wraps : pyref[x] - B(x \in refs[w]) \in Nat /\ (pyref[x] = 0 => x \notin refs[w])
  BY Referred DEF TypeOK, B
<1>1. \A p : Cardinality(Owners(p))'
             = Cardinality(Owners(p)) + B(NoObj = p) - B(wobj[w] = p)
  <2>1. wobj' = [wobj EXCEPT ![w] = NoObj]
    BY DEF Finish
  <2>2. \A p : Cardinality(Owners(p))' = Cardinality(Owners(p)) + B(NoObj = p) - B(wobj[w] = p)
    BY <2>1, OwnersUpdate DEF B
  <2> QED BY <2>2
<1>2. \A x : Cardinality(Referrers(x))'
             = Cardinality(Referrers(x)) + B(x \in {}) - B(x \in refs[w])
  <2>1. refs' = [refs EXCEPT ![w] = {}]
    BY DEF Finish
  <2> QED BY <2>1, ReferrersUpdate
<1>3. \A x \in Wraps : Share(x)' = Share(x) - B(togg[wobj[w]] = x /\ gref[wobj[w]] = 2)
  BY SentinelAssumption DEF TypeOK, Share, Toggles, Shape, Finish, B, DropRef, Live
<1>4. TypeOK'
  BY <1>p, <1>r DEF TypeOK, Finish, DropRef, DropRefs
<1>5. RefsOwned'
  <2> SUFFICES ASSUME NEW p \in Objs
      PROVE  (gref[p] = native[p] + B(floating[p]) + Cardinality(Owners(p)))'
    BY DEF RefsOwned
  <2>1. /\ gref'[p] = gref[p] - B(p = wobj[w])
        /\ UNCHANGED <<native, floating>>
    BY DEF DropRef, Finish, TypeOK, B
  <2>2. gref[p] \in Nat /\ native[p] \in Nat /\ floating[p] \in BOOLEAN
    BY DEF TypeOK
  <2>3. NoObj # p
    BY SentinelAssumption
  <2> QED BY <1>1, <2>1, <2>2, <2>3, CountsNat DEF RefsOwned, B
<1>6. PyRefsOwned'
  <2> SUFFICES ASSUME NEW x \in Wraps
      PROVE  (pyref[x] = held[x] + inCall[x] + Cardinality(Referrers(x)) + B(wfloat[x])
                           + Share(x) + pendDown[x] - pendUp[x])'
    BY DEF PyRefsOwned
  <2>1. /\ pyref'[x] = pyref[x] - B(x \in refs[w])
        /\ pendDown'[x] = pendDown[x] + B(togg[wobj[w]] = x /\ gref[wobj[w]] = 2)
        /\ UNCHANGED <<held, inCall, wfloat, pendUp>>
    BY SentinelAssumption DEF DropRef, DropRefs, Finish, TypeOK, B
  <2> QED BY <1>2, <1>3, <2>1, Typed DEF PyRefsOwned, B
<1>7. OneWrapper'
  BY DEF TypeOK, OneWrapper, Finish, Live
<1>8. Shape'
  <2>1. \A x \in Wraps : pyref[x] = 0 => pyref'[x] = 0
    BY <1>r DEF Finish, DropRefs, B
  <2>2. \A x \in Wraps : Live(x) /\ wobj[x] # NoObj /\ togg[wobj[w]] = x => x # w
    BY <1>p
  <2>3. \A x \in Wraps : togg[wobj[w]] = x => Live(x)
    BY <1>p, SentinelAssumption DEF Toggles
  <2> QED BY <2>1, <2>3 DEF TypeOK, Shape, Finish, DropRef, Live, Quiet
<1>9. Toggles'
  BY DEF TypeOK, Toggles, Finish, Live
<1>10. Pending'
  BY SentinelAssumption DEF TypeOK, Pending, Toggles, Shape, Finish, DropRef,
     Borrowers, Live
<1>11. Trash'
  <2>1. \A x \in trash : Live(x)' /\ Quiet(x)' /\ Share(x)' = 0
    <3> TAKE x \in trash
    <3>1. x \in Wraps /\ Live(x) /\ Quiet(x) /\ Share(x) = 0
      BY DEF Trash, TypeOK
    <3>2. ~(togg[wobj[w]] = x /\ gref[wobj[w]] = 2)
      BY <1>p, <3>1, SentinelAssumption DEF Toggles, Share, B
    <3> QED BY <1>3, <3>1, <3>2 DEF Quiet, Finish, DropRef, Live, B
  <2>2. \A x \in Wraps : wst'[x] = "clearing" => wst[x] = "clearing"
    BY DEF TypeOK, Finish
  <2>3. \A x, v \in Wraps : x \in refs'[v] => v # w /\ x \in refs[v]
    BY DEF TypeOK, Finish
  <2>4. \A v \in Wraps : v # w => wst'[v] = wst[v]
    BY DEF Finish
  <2> QED BY <2>1, <2>3 DEF Trash, Finish, Live, Referrers
<1> QED BY <1>4, <1>5, <1>6, <1>7, <1>8, <1>9, <1>10, <1>11

-----------------------------------------------------------------------------
(* The inductive invariant holds in every state *)

\* Initially every count is zero.
LEMMA InitKeeps ==
  ASSUME Init
  PROVE  IInv
<1>1. \A o \in Objs : Owners(o) = {}
  BY SentinelAssumption DEF Init, Owners
<1>2. \A w : Referrers(w) = {}
  BY DEF Init, Referrers
<1>3. Cardinality({}) = 0
  BY FS_EmptySet
<1>4. TypeOK
  BY SentinelAssumption DEF Init, TypeOK
<1>5. RefsOwned
  BY <1>1, <1>3 DEF Init, RefsOwned, B
<1>6. PyRefsOwned
  <2> SUFFICES ASSUME NEW w \in Wraps
               PROVE  pyref[w] = held[w] + inCall[w] + Cardinality(Referrers(w)) + B(wfloat[w])
                                   + Share(w) + pendDown[w] - pendUp[w]
    BY DEF PyRefsOwned
  <2>1. Share(w) = 0 /\ B(wfloat[w]) = 0
    BY DEF Init, Share, B
  <2>2. pyref[w] = 0 /\ held[w] = 0 /\ inCall[w] = 0 /\ pendDown[w] = 0 /\ pendUp[w] = 0
    BY DEF Init
  <2> QED BY <1>2, <1>3, <2>1, <2>2
<1>7. OneWrapper /\ Shape /\ Toggles /\ Pending /\ Trash
  BY <1>2, SentinelAssumption
  DEF Init, OneWrapper, Shape, Toggles, Pending, Trash, Live, Quiet
<1> QED BY <1>4, <1>5, <1>6, <1>7 DEF IInv

\* A step that changes nothing.
LEMMA StutterKeeps ==
  ASSUME IInv, UNCHANGED vars
  PROVE  IInv'
BY DEF IInv, vars, TypeOK, RefsOwned, PyRefsOwned, OneWrapper, Shape, Toggles,
       Pending, Trash, Owners, Referrers, Share, Live, Quiet, Borrowers

\* Every step.
LEMMA NextKeeps ==
  ASSUME ~RewrapTrash, IInv, Next
  PROVE  IInv'
<1> USE DEF IInv
<1>1. ASSUME NEW o \in Objs, ObjStep(o)
      PROVE  IInv'
  <2>1. ASSUME NEW fl \in BOOLEAN, NativeNew(o, fl) PROVE IInv'
    BY <2>1, NativeNewKeeps
  <2>2. CASE NativeRef(o)
    BY <2>2, NativeRefKeeps
  <2>3. CASE NativeSink(o)
    BY <2>3, NativeSinkKeeps
  <2>4. CASE NativeUnref(o)
    BY <2>4, NativeUnrefKeeps
  <2>5. ASSUME NEW steal \in BOOLEAN, WrapAgain(o, steal) PROVE IInv'
    BY <2>5, WrapAgainKeeps
  <2>6. ASSUME NEW w \in Wraps, NEW steal \in BOOLEAN, WrapNew(o, w, steal) PROVE IInv'
    BY <2>6, WrapNewKeeps
  <2>7. ASSUME NEW w \in Wraps, NEW how, Construct(w, o, how) PROVE IInv'
    BY <2>7, ConstructKeeps
  <2>8. ASSUME NEW w \in Wraps, NEW d \in BOOLEAN, NEW fl \in BOOLEAN, GNew(o, w, d, fl)
        PROVE  IInv'
    BY <2>8, GNewKeeps
  <2> QED BY <1>1, <2>1, <2>2, <2>3, <2>4, <2>5, <2>6, <2>7, <2>8 DEF ObjStep
<1>2. ASSUME NEW w \in Wraps, WrapStep(w)
      PROVE  IInv'
  <2>1. ASSUME NEW c \in Classes, Alloc(w, c) PROVE IInv'
    BY <2>1, AllocKeeps
  <2>2. ASSUME NEW v \in Wraps,
               SetAttr(w, refs[w] \cup {v}) \/ SetAttr(w, refs[w] \ {v})
        PROVE  IInv'
    <3>1. refs[w] \cup {v} \in SUBSET Wraps /\ refs[w] \ {v} \in SUBSET Wraps
      BY DEF TypeOK
    <3> QED BY <2>2, <3>1, SetAttrKeeps
  <2>3. CASE Incref(w)
    BY <2>3, IncrefKeeps
  <2>4. CASE Decref(w)
    BY <2>4, DecrefKeeps
  <2>5. CASE BeginCall(w)
    BY <2>5, BeginCallKeeps
  <2>6. CASE EndCall(w)
    BY <2>6, EndCallKeeps
  <2>7. CASE PassBorrowed(w)
    BY <2>7, PassBorrowedKeeps
  <2>8. CASE NotifyUp(w)
    BY <2>8, NotifyUpKeeps
  <2>9. CASE NotifyDown(w)
    BY <2>9, NotifyDownKeeps
  <2>10. CASE BeginDealloc(w)
    BY <2>10, BeginDeallocKeeps
  <2>11. CASE DeallocUnbound(w)
    BY <2>11, DeallocUnboundKeeps
  <2>12. CASE Finish(w)
    BY <2>12, FinishKeeps
  <2>13. CASE GcClear(w)
    BY <2>13, GcClearKeeps
  <2>14. CASE GcClearUnbound(w)
    BY <2>14, GcClearUnboundKeeps
  <2> QED BY <1>2, <2>1, <2>2, <2>3, <2>4, <2>5, <2>6, <2>7, <2>8, <2>9, <2>10,
             <2>11, <2>12, <2>13, <2>14 DEF WrapStep
<1>3. ASSUME NEW S \in SUBSET Wraps, GcStart(S)
      PROVE  IInv'
  BY <1>3, GcStartKeeps
<1> QED BY <1>1, <1>2, <1>3 DEF Next

\* IInv is invariant, for any number of objects, wrappers and classes.
THEOREM Invariance ==
  ASSUME ~RewrapTrash
  PROVE  Spec => []IInv
<1>1. Init => IInv
  BY InitKeeps
<1>2. IInv /\ [Next]_vars => IInv'
  BY NextKeeps, StutterKeeps
<1> QED BY <1>1, <1>2, PTL DEF Spec

\* Every reference on a GObject has exactly one owner: pygobject.c neither leaks
\* nor over-releases a GObject reference, whatever threads and collections do.
THEOREM RefsOwnedAlways ==
  ASSUME ~RewrapTrash
  PROVE  Spec => []RefsOwned
<1>1. IInv => RefsOwned
  BY DEF IInv
<1> QED BY <1>1, Invariance, PTL

-----------------------------------------------------------------------------
(* What follows from it *)

\* No count ever goes below zero.
THEOREM TypeCorrect ==
  ASSUME ~RewrapTrash
  PROVE  Spec => []TypeOK
<1>1. IInv => TypeOK
  BY DEF IInv
<1> QED BY <1>1, Invariance, PTL

\* Every reference on a wrapper has an owner: pyg_toggle_notify and
\* pygobject_switch_to_toggle_ref add and release the GObject's share exactly once.
THEOREM PyRefsOwnedAlways ==
  ASSUME ~RewrapTrash
  PROVE  Spec => []PyRefsOwned
<1>1. IInv => PyRefsOwned
  BY DEF IInv
<1> QED BY <1>1, Invariance, PTL

\* A GObject has at most one live wrapper, the one in its qdata.
THEOREM OneWrapperAlways ==
  ASSUME ~RewrapTrash
  PROVE  Spec => []OneWrapper
<1>1. IInv => OneWrapper
  BY DEF IInv
<1> QED BY <1>1, Invariance, PTL

\* pyg_toggle_notify never counts on a freed or dying struct: the down
\* notification keeps its wrapper alive until it arrives, and the up notification
\* is backed by the call that caused it.
THEOREM NotifiedLiveAlways ==
  ASSUME ~RewrapTrash
  PROVE  Spec => []NotifiedLive
<1>1. ASSUME IInv
      PROVE  NotifiedLive
  <2> USE <1>1 DEF IInv
  <2> SUFFICES ASSUME NEW w \in Wraps, pendUp[w] + pendDown[w] > 0
      PROVE  Live(w) /\ wobj[w] # NoObj /\ togg[wobj[w]] = w /\ pyref[w] > 0
    BY DEF NotifiedLive
  <2>1. wobj[w] # NoObj /\ togg[wobj[w]] = w
    BY DEF Pending
  <2>2. Live(w)
    BY <2>1, SentinelAssumption DEF Toggles, TypeOK
  <2>3. inCall[w] + B(wfloat[w]) + pendDown[w] > 0
    <3>1. /\ inCall[w] \in Nat /\ pendUp[w] \in Nat /\ pendDown[w] \in Nat /\ wfloat[w] \in BOOLEAN
      BY Typed
    <3>2. B(wfloat[w]) \in Nat
      BY <3>1 DEF B
    <3>3. pendUp[w] <= 1 /\ (pendUp[w] = 1 => inCall[w] + B(wfloat[w]) >= 1)
      BY DEF Pending, Borrowers
    <3> QED BY <3>1, <3>2, <3>3
  <2>4. pyref[w] > 0
    BY <2>3, Lower, Typed DEF B
  <2> QED BY <2>1, <2>2, <2>4
<1> QED BY <1>1, Invariance, PTL

\* A wrapper with attributes whose object is not shared is its only owner.
LEMMA SoleOwner ==
  ASSUME IInv, NEW w \in Wraps, Live(w), wobj[w] # NoObj, dict[w], Share(w) = 0
  PROVE  gref[wobj[w]] = 1 /\ native[wobj[w]] = 0 /\ ~floating[wobj[w]]
<1>1. togg[wobj[w]] = w
  BY DEF IInv, Toggles
<1>2. gref[wobj[w]] \in Nat /\ native[wobj[w]] \in Nat /\ floating[wobj[w]] \in BOOLEAN
  BY DEF IInv, TypeOK
<1>3. gref[wobj[w]] <= 1
  BY <1>1, <1>2 DEF Share, B
<1>4. gref[wobj[w]] >= 1 + native[wobj[w]] + B(floating[wobj[w]])
  BY Bound DEF IInv
<1> QED BY <1>2, <1>3, <1>4 DEF B

\* A wrapper with attributes starts to die only as the sole owner of its GObject:
\* tp_dealloc and tp_clear of such a wrapper never lose state that native code
\* could lead back to.
THEOREM AttributesKeptAlways ==
  ASSUME ~RewrapTrash
  PROVE  Spec => AttributesKept
<1> DEFINE Kept(w) ==
      (Live(w) /\ wst'[w] # "live" /\ wobj[w] # NoObj /\ dict[w])
        => (gref[wobj[w]] = 1 /\ native[wobj[w]] = 0 /\ ~floating[wobj[w]])
<1>1. IInv /\ [Next]_vars => \A w \in Wraps : Kept(w)
  <2> SUFFICES ASSUME IInv, [Next]_vars PROVE \A w \in Wraps : Kept(w)
    OBVIOUS
  <2> SUFFICES ASSUME NEW w \in Wraps, Live(w), wst'[w] # "live"
      PROVE  wobj[w] = NoObj \/ Share(w) = 0
    BY SoleOwner
  <2> USE DEF IInv
  <2>1. BeginDealloc(w) \/ DeallocUnbound(w) \/ GcClear(w)
    <3>1. CASE UNCHANGED vars
      BY <3>1 DEF vars, Live
    <3>2. ASSUME NEW o \in Objs, ObjStep(o)
          PROVE  FALSE
      BY <3>2 DEF ObjStep, NativeNew, NativeRef, NativeSink, NativeUnref, WrapAgain,
                  WrapNew, Construct, GNew, wvars, Live, TypeOK
    <3>3. ASSUME NEW v \in Wraps, WrapStep(v)
          PROVE  BeginDealloc(w) \/ DeallocUnbound(w) \/ GcClear(w)
      BY <3>3 DEF WrapStep, Alloc, SetAttr, Incref, Decref, BeginCall, EndCall,
                  PassBorrowed, NotifyUp, NotifyDown, BeginDealloc, DeallocUnbound,
                  Finish, GcClear, GcClearUnbound, Live, TypeOK
    <3>4. ASSUME NEW S \in SUBSET Wraps, GcStart(S)
          PROVE  FALSE
      BY <3>4 DEF GcStart, wvars, Live
    <3> QED BY <3>1, <3>2, <3>3, <3>4 DEF Next
  <2>2. CASE BeginDealloc(w)
    BY <2>2, Unreferenced, CountsNat DEF BeginDealloc
  <2>3. CASE DeallocUnbound(w)
    BY <2>3 DEF DeallocUnbound
  <2>4. CASE GcClear(w)
    BY <2>4 DEF GcClear, Trash
  <2> QED BY <2>1, <2>2, <2>3, <2>4
<1> QED BY <1>1, Invariance, PTL DEF AttributesKept, Spec

-----------------------------------------------------------------------------
(* Classes *)

\* A step keeps Classy and the class of every object that exists before and after.
LEMMA ClassStep ==
  ASSUME IInv, Classy, Next
  PROVE  /\ Classy'
         /\ \A o \in Objs : (gref[o] > 0 /\ gref'[o] > 0 /\ ClassOf(o) # NoClass)
                              => ClassOf(o)' = ClassOf(o)
<1> DEFINE Same == \A p \in Objs :
      (gref[p] > 0 /\ gref'[p] > 0 /\ ClassOf(p) # NoClass) => ClassOf(p)' = ClassOf(p)
<1> USE DEF IInv
<1>q. \A p \in Objs : qwrap[p] # NoWrap => /\ qwrap[p] \in Wraps
                                           /\ wobj[qwrap[p]] = p /\ Live(qwrap[p])
  BY DEF TypeOK, OneWrapper
<1>a. ASSUME UNCHANGED <<iclass, wobj, wclass, wst, qwrap, trash>>,
             \A p \in Objs : gref[p] > 0 => gref'[p] > 0
      PROVE  Classy' /\ Same
  <2>1. \A p \in Objs : gref'[p] = 0 => gref[p] = 0
    BY <1>a DEF TypeOK
  <2> QED BY <1>a, <2>1 DEF Classy, ClassOf, Live
<1>d. ASSUME NEW o \in Objs, DropRef(o), gref[o] >= 1,
             \A v \in Wraps : wobj'[v] # NoObj => wobj'[v] = wobj[v],
             \A v \in Wraps : wobj'[v] = o => gref[o] >= 2,
             \A v \in Wraps : wobj'[v] # NoObj => (Live(v)' <=> Live(v)),
             UNCHANGED <<wclass, qwrap, trash>>
      PROVE  Classy' /\ Same
  <2>1. /\ gref' = [gref EXCEPT ![o] = gref[o] - 1]
        /\ iclass' = IF gref[o] = 1 THEN [iclass EXCEPT ![o] = NoClass] ELSE iclass
    BY <1>d DEF DropRef
  <2>2. \A p \in Objs : gref'[p] = 0 => iclass'[p] = NoClass
    BY <1>d, <2>1 DEF Classy, TypeOK
  <2>3. \A v \in Wraps : wobj'[v] # NoObj => wobj'[v] = wobj[v] /\ iclass'[wobj[v]] = iclass[wobj[v]]
    BY <1>d, <2>1 DEF TypeOK
  <2>4. Same
    BY <1>d, <2>1 DEF ClassOf, TypeOK
  <2> QED BY <1>d, <2>2, <2>3, <2>4 DEF Classy
<1>1. ASSUME NEW o \in Objs, ObjStep(o)
      PROVE  Classy' /\ Same
  <2>1. ASSUME NEW fl \in BOOLEAN, NativeNew(o, fl) PROVE Classy' /\ Same
    BY <2>1, <1>a DEF NativeNew, wvars, TypeOK
  <2>2. CASE NativeRef(o)
    BY <2>2, <1>a DEF NativeRef, TypeOK
  <2>3. CASE NativeSink(o)
    BY <2>3, <1>a DEF NativeSink, wvars, TypeOK
  <2>4. CASE NativeUnref(o)
    <3>1. native[o] >= 1
      BY <2>4 DEF NativeUnref, Pinned, TypeOK
    <3>2. gref[o] \in Nat /\ B(floating[o]) \in Nat
      BY DEF TypeOK, B
    <3>3. gref[o] >= 1
      BY <3>1, <3>2, CountsNat DEF RefsOwned, TypeOK
    <3>4. \A v \in Wraps : wobj[v] = o => gref[o] >= 2
      BY <3>1, <3>2, Bound, SentinelAssumption DEF TypeOK
    <3> QED BY <2>4, <3>3, <3>4, <1>d DEF NativeUnref, Live
  <2>5. ASSUME NEW steal \in BOOLEAN, WrapAgain(o, steal) PROVE Classy' /\ Same
    <3>1. qwrap[o] \in Wraps /\ wobj[qwrap[o]] = o
      BY <2>5, <1>q DEF WrapAgain
    <3>2. steal => gref[o] >= 2
      <4>1. steal => native[o] >= 1
        BY <2>5 DEF WrapAgain, Pinned, TypeOK
      <4>2. gref[o] \in Nat /\ native[o] \in Nat /\ B(floating[o]) \in Nat
        BY DEF TypeOK, B
      <4> QED BY <3>1, <4>1, <4>2, Bound, SentinelAssumption
    <3>3. \A p \in Objs : gref[p] > 0 => gref'[p] > 0
      BY <2>5, <3>2 DEF WrapAgain, TypeOK, B
    <3> QED BY <2>5, <3>3, <1>a DEF WrapAgain
  <2>6. ASSUME NEW w \in Wraps, NEW steal \in BOOLEAN, WrapNew(o, w, steal)
        PROVE  Classy' /\ Same
    <3>1. /\ qwrap' = [qwrap EXCEPT ![o] = w] /\ qwrap[o] = NoWrap
          /\ wclass' = [wclass EXCEPT ![w] = IF iclass[o] # NoClass THEN iclass[o]
                                                                     ELSE BaseClass]
          /\ wobj' = [wobj EXCEPT ![w] = o] /\ wst' = [wst EXCEPT ![w] = "live"]
          /\ UNCHANGED <<iclass, trash>> /\ ~Live(w) /\ w \notin trash
      BY <2>6 DEF WrapNew, Register, Live, Trash
    <3>2. \A p \in Objs : gref'[p] = 0 => gref[p] = 0
      BY <2>6 DEF WrapNew, B, TypeOK
    <3>3. \A p \in Objs : qwrap[p] # w /\ (qwrap[p] # NoWrap => qwrap[p] \in Wraps)
      BY <1>q, <3>1, SentinelAssumption
    <3> QED BY <3>1, <3>2, <3>3, SentinelAssumption DEF Classy, ClassOf, TypeOK,
               Live
  <2>7. ASSUME NEW w \in Wraps, NEW how, Construct(w, o, how) PROVE Classy' /\ Same
    <3>1. /\ qwrap' = [qwrap EXCEPT ![o] = w] /\ gref[o] = 0
          /\ wobj' = [wobj EXCEPT ![w] = o]
          /\ UNCHANGED <<iclass, trash, wclass, wst>> /\ Live(w) /\ w \notin trash
      BY <2>7 DEF Construct, Register, Trash, Quiet, TypeOK
    <3>2. \A p \in Objs : gref'[p] = 0 => gref[p] = 0
      BY <2>7 DEF Construct, B, TypeOK
    <3> QED BY <3>1, <3>2, SentinelAssumption DEF Classy, ClassOf, TypeOK, Live
  <2>8. ASSUME NEW w \in Wraps, NEW d \in BOOLEAN, NEW fl \in BOOLEAN, GNew(o, w, d, fl)
        PROVE  Classy' /\ Same
    <3>1. /\ qwrap' = [qwrap EXCEPT ![o] = w] /\ gref[o] = 0
          /\ wobj' = [wobj EXCEPT ![w] = o] /\ wst' = [wst EXCEPT ![w] = "live"]
          /\ wclass' = [wclass EXCEPT ![w] = BaseClass]
          /\ UNCHANGED <<iclass, trash>> /\ ~Live(w) /\ w \notin trash
      BY <2>8 DEF GNew, Register, Live, Trash
    <3>2. \A p \in Objs : gref'[p] = 0 => gref[p] = 0
      BY <2>8 DEF GNew, B, TypeOK
    <3>3. \A p \in Objs : qwrap[p] # w /\ (qwrap[p] # NoWrap => qwrap[p] \in Wraps)
      BY <1>q, <3>1, SentinelAssumption
    <3> QED BY <3>1, <3>2, <3>3, SentinelAssumption DEF Classy, ClassOf, TypeOK,
               Live
  <2> QED BY <1>1, <2>1, <2>2, <2>3, <2>4, <2>5, <2>6, <2>7, <2>8 DEF ObjStep
<1>2. ASSUME NEW w \in Wraps, WrapStep(w)
      PROVE  Classy' /\ Same
  <2>1. ASSUME NEW c \in Classes, Alloc(w, c) PROVE Classy' /\ Same
    <3>1. /\ wst' = [wst EXCEPT ![w] = "live"] /\ wclass' = [wclass EXCEPT ![w] = c]
          /\ UNCHANGED <<gref, iclass, qwrap, wobj, trash>> /\ ~Live(w) /\ wobj[w] = NoObj
      BY <2>1 DEF Alloc, gvars, Live, Shape
    <3>2. \A p \in Objs : qwrap[p] # w /\ (qwrap[p] # NoWrap => qwrap[p] \in Wraps)
      BY <1>q, <3>1, SentinelAssumption
    <3> QED BY <3>1, <3>2 DEF Classy, ClassOf, TypeOK, Live
  <2>2. CASE \/ \E v \in Wraps : SetAttr(w, refs[w] \cup {v}) \/ SetAttr(w, refs[w] \ {v})
             \/ Incref(w) \/ Decref(w) \/ BeginCall(w) \/ EndCall(w)
             \/ NotifyUp(w) \/ NotifyDown(w)
    <3>1. UNCHANGED <<gref, iclass, wobj, wclass, wst, qwrap, trash>>
      BY <2>2 DEF SetAttr, Incref, Decref, BeginCall, EndCall, NotifyUp, NotifyDown,
         gvars
    <3> QED BY <3>1, <1>a
  <2>3. CASE PassBorrowed(w)
    BY <2>3, <1>a DEF PassBorrowed, TypeOK
  <2>4. CASE DeallocUnbound(w)
    <3>1. /\ UNCHANGED <<gref, iclass, qwrap, wobj, wclass>> /\ trash' \subseteq trash
          /\ wobj[w] = NoObj /\ wst' = [wst EXCEPT ![w] = "free"]
      BY <2>4 DEF DeallocUnbound, gvars
    <3> QED BY <3>1 DEF Classy, ClassOf, TypeOK, Live
  <2>5. CASE GcClearUnbound(w)
    <3>1. UNCHANGED <<gref, iclass, qwrap, wobj, wclass, wst>> /\ trash' \subseteq trash
      BY <2>5 DEF GcClearUnbound, gvars
    <3> QED BY <3>1 DEF Classy, ClassOf, TypeOK, Live
  <2>6. CASE GcClear(w)
    <3>1. /\ UNCHANGED <<gref, iclass, wobj, wclass>> /\ trash' \subseteq trash
          /\ wobj[w] # NoObj /\ w \in trash /\ wst' = [wst EXCEPT ![w] = "clearing"]
          /\ qwrap' = [qwrap EXCEPT ![wobj[w]] = NoWrap]
      BY <2>6 DEF GcClear, Unregister
    <3>2. wobj[w] \in Objs /\ qwrap[wobj[w]] = w
      BY <3>1 DEF Trash, OneWrapper, TypeOK
    <3>3. iclass[wobj[w]] = wclass[w] /\ iclass[wobj[w]] # NoClass
      BY <3>1 DEF Classy
    <3>4. Classy'
      BY <3>1, <3>3 DEF Classy, TypeOK, Live
    <3> QED BY <3>1, <3>2, <3>3, <3>4, SentinelAssumption DEF ClassOf, TypeOK
  <2>7. CASE BeginDealloc(w)
    <3>1. /\ UNCHANGED <<gref, wobj, wclass>> /\ trash' \subseteq trash
          /\ wobj[w] # NoObj /\ Live(w) /\ wst' = [wst EXCEPT ![w] = "dealloc"]
          /\ iclass' = [iclass EXCEPT ![wobj[w]] = Recorded(w)]
          /\ qwrap' = [qwrap EXCEPT ![wobj[w]] = NoWrap]
      BY <2>7 DEF BeginDealloc, Unregister
    <3>2. wobj[w] \in Objs /\ qwrap[wobj[w]] = w /\ gref[wobj[w]] # 0
      BY <3>1, Bound DEF OneWrapper, TypeOK
    <3>3. Recorded(w) = wclass[w] /\ wclass[w] # NoClass
      BY <3>1, SentinelAssumption DEF Classy, Recorded, TypeOK
    <3>4. \A v \in Wraps : wobj[v] = wobj[w] => wclass[v] = wclass[w]
      BY <3>1, <3>2, SentinelAssumption DEF Classy, OneWrapper, Live
    <3>5. Classy'
      BY <3>1, <3>2, <3>3, <3>4 DEF Classy, TypeOK, Live
    <3> QED BY <3>1, <3>2, <3>3, <3>5, SentinelAssumption DEF ClassOf, TypeOK
  <2>8. CASE Finish(w)
    <3> DEFINE o == wobj[w]
    <3>1. o \in Objs /\ o # NoObj /\ gref[o] >= 1
      BY <2>8, Bound DEF Finish, Shape, TypeOK
    <3>2. /\ DropRef(o) /\ wobj' = [wobj EXCEPT ![w] = NoObj]
          /\ \A v \in Wraps : v # w => wst'[v] = wst[v]
          /\ UNCHANGED <<wclass, qwrap, trash>>
      BY <2>8 DEF Finish
    <3>3. \A v \in Wraps : wobj'[v] # NoObj => v # w /\ wobj'[v] = wobj[v]
      BY <3>2 DEF TypeOK
    <3>4. \A v \in Wraps : wobj'[v] = o => gref[o] >= 2
      BY <3>1, <3>3, TwoOwners
    <3>5. \A v \in Wraps : wobj'[v] # NoObj => (Live(v)' <=> Live(v))
      BY <3>2, <3>3 DEF Live
    <3> HIDE DEF o
    <3> QED BY <3>1, <3>2, <3>3, <3>4, <3>5, <1>d
  <2> QED BY <1>2, <2>1, <2>2, <2>3, <2>4, <2>5, <2>6, <2>7, <2>8 DEF WrapStep
<1>3. ASSUME NEW S \in SUBSET Wraps, GcStart(S)
      PROVE  Classy' /\ Same
  <2>1. /\ UNCHANGED <<gref, wobj, wclass, wst, qwrap>> /\ trash' = S
        /\ iclass' = Traversed /\ \A v \in S : Live(v)
    BY <1>3 DEF GcStart, wvars, Garbage
  <2>2. ASSUME NEW p \in Objs, NEW v \in Wraps, wobj[v] = p, Live(v)
        PROVE  Traversed[p] = wclass[v] /\ wclass[v] # NoClass
    <3> DEFINE L == {x \in Owners(p) : Live(x)}
    <3>1. L = {v}
      BY <2>2, SentinelAssumption DEF Owners, OneWrapper
    <3>2. Traversed[p] = IF iclass[p] = NoClass /\ L # {}
                           THEN wclass[CHOOSE x \in L : TRUE] ELSE iclass[p]
      BY DEF Traversed
    <3>3. (CHOOSE x \in L : TRUE) = v
      BY <3>1
    <3>4. iclass[p] # NoClass => wclass[v] = iclass[p]
      BY <2>2, SentinelAssumption DEF Classy
    <3> HIDE DEF L
    <3> QED BY <3>1, <3>2, <3>3, <3>4, SentinelAssumption DEF TypeOK
  <2>3. ASSUME NEW p \in Objs, iclass[p] # NoClass \/ ~\E v \in Owners(p) : Live(v)
        PROVE  Traversed[p] = iclass[p]
    BY <2>3 DEF Traversed
  <2>4. \A p \in Objs : gref[p] = 0 => Traversed[p] = NoClass
    BY <2>3, Bound DEF Classy, Owners
  <2>5. ASSUME NEW v \in Wraps, wobj[v] # NoObj
        PROVE  Traversed[wobj[v]] # NoClass => wclass[v] = Traversed[wobj[v]]
    BY <2>2, <2>3, <2>5 DEF Classy, TypeOK
  <2>6. ASSUME NEW v \in Wraps, wobj[v] # NoObj, v \in S \/ ~Live(v)
        PROVE  Traversed[wobj[v]] # NoClass
    BY <2>1, <2>2, <2>3, <2>6 DEF Classy, TypeOK
  <2>7. Classy'
    BY <2>1, <2>4, <2>5, <2>6 DEF Classy, Live
  <2>8. Same
    BY <2>1, <2>3, <1>q DEF ClassOf
  <2> QED BY <2>7, <2>8
<1> QED BY <1>1, <1>2, <1>3 DEF Next

\* An object keeps its class while it exists, over any number of wrappers.
THEOREM ClassKeptAlways ==
  ASSUME ~RewrapTrash
  PROVE  Spec => ClassKept
<1>1. Init => Classy
  BY DEF Init, Classy
<1>2. IInv /\ Classy /\ [Next]_vars
        => /\ Classy'
           /\ \A o \in Objs : (gref[o] > 0 /\ gref'[o] > 0 /\ ClassOf(o) # NoClass)
                                => ClassOf(o)' = ClassOf(o)
  <2>1. CASE Next
    BY <2>1, ClassStep
  <2>2. CASE UNCHANGED vars
    BY <2>2 DEF vars, Classy, ClassOf, Live
  <2> QED BY <2>1, <2>2
<1> QED BY <1>1, <1>2, Invariance, PTL DEF ClassKept, Spec

-----------------------------------------------------------------------------
(***************************************************************************)
(* Wrapper implements ObjectPromise, for any number of objects and         *)
(* wrappers: counting references the way pygobject.c does keeps every      *)
(* attribute of an object somebody can use, and its class.                 *)
(***************************************************************************)

\* The attributes of ObjectPromise.
Attrs(o) == qwrap[o] # NoWrap /\ dict[qwrap[o]]

-----------------------------------------------------------------------------
(* What can be reached *)

\* Roots are reached, and nothing that a closed set with the roots leaves out.
LEMMA RootsReached ==
  /\ Roots \subseteq Reached /\ Roots' \subseteq Reached'
  /\ Reached \subseteq Wraps /\ Reached' \subseteq Wraps
  /\ \A S \in SUBSET Wraps :
       Roots \subseteq S /\ (\A v \in S : refs[v] \subseteq S) => Reached \subseteq S
BY DEF Roots, Reached

\* A wrapper with attributes that the collector has on its list, is clearing or
\* is about to deallocate is not reached: nobody can tell that they go.
LEMMA DyingUnreached ==
  ASSUME IInv
  PROVE  \A w \in Reached : Live(w) /\ (w \in trash => ~dict[w])
<1> USE DEF IInv
<1> DEFINE S == {w \in Wraps : Live(w) /\ (w \in trash => ~dict[w])}
<1>1. ASSUME NEW w \in Roots
      PROVE  w \in S
  <2>1. w \in Wraps /\ Live(w)
    BY DEF Roots
  <2>2. CASE w \in trash /\ dict[w]
    <3>1. Quiet(w) /\ Share(w) = 0
      BY <2>2 DEF Trash
    <3>2. wobj[w] # NoObj => native[wobj[w]] = 0 /\ ~floating[wobj[w]]
      BY <2>1, <2>2, <3>1, SoleOwner
    <3>3. held[w] = 0 /\ inCall[w] = 0 /\ ~wfloat[w]
      BY <3>1 DEF Quiet
    <3>4. held[w] + inCall[w] > 0
      BY <3>2, <3>3, <2>1 DEF Roots, TypeOK
    <3> QED BY <3>3, <3>4
  <2> QED BY <2>1, <2>2
<1>2. ASSUME NEW v \in S, NEW x \in refs[v]
      PROVE  x \in S
  <2>1. dict[v] /\ v \notin trash /\ Live(v) /\ v \in Referrers(x)
    BY <1>2 DEF Shape, Referrers
  <2>2. x \in Wraps /\ pyref[x] >= 1
    BY Referred
  <2>3. x \notin trash /\ wst[x] # "clearing"
    BY <2>1, <2>2 DEF Trash
  <2>4. Live(x)
    BY <2>2, <2>3 DEF Shape, TypeOK, Live
  <2> QED BY <2>2, <2>3, <2>4
<1>3. S \in SUBSET Wraps
  OBVIOUS
<1>4. Reached \subseteq S
  <2> HIDE DEF S
  <2> QED BY <1>1, <1>2, <1>3, RootsReached
<1> QED BY <1>4

\* Nor is one that nothing refers to and that is no root.
LEMMA AloneUnreached ==
  ASSUME IInv, NEW w \in Wraps, w \notin Roots, \A v \in Wraps : w \notin refs[v]
  PROVE  w \notin Reached
<1>1. Roots \subseteq Wraps \ {w} /\ \A v \in Wraps \ {w} : refs[v] \subseteq Wraps \ {w}
  BY DEF Roots, IInv, TypeOK
<1> QED BY <1>1, RootsReached

-----------------------------------------------------------------------------
(* What a step does to an object, in the terms of ObjectPromise *)

\* An object comes into being with a user.
Born(o) == gref[o] = 0 /\ gref'[o] > 0 => Used(o)'

\* One that ends has lost its wrapper before, and the attributes with it.
Ended(o) == gref[o] > 0 /\ gref'[o] = 0 => qwrap[o] = NoWrap

\* Its class is decided by the wrapper that Python gets.
Decided(o) ==
  gref[o] > 0 /\ gref'[o] > 0 /\ ClassOf(o) = NoClass /\ ClassOf(o)' # NoClass
    => (Attrs(o)' <=> Attrs(o)) /\ Used(o)'

\* Attributes are set by somebody who uses it.
Gained(o) == gref[o] > 0 /\ ~Attrs(o) /\ Attrs(o)' => Used(o) /\ Used(o)'

\* They go when nobody can use it.
Lost(o) == gref[o] > 0 /\ Attrs(o) /\ ~Attrs(o)' => ~Used(o) /\ ~Used(o)'

Effects(o) == Born(o) /\ Ended(o) /\ Decided(o) /\ Gained(o) /\ Lost(o)

\* A step that changes no wrapper, class or dictionary and makes or ends no object.
LEMMA SteadyEffects ==
  ASSUME NEW o \in Objs, UNCHANGED <<qwrap, iclass, wclass, dict>>,
         gref[o] = 0 <=> gref'[o] = 0, TypeOK, TypeOK'
  PROVE  Effects(o)
BY DEF Effects, Born, Ended, Decided, Gained, Lost, Attrs, ClassOf, TypeOK

\* What a struct that is not the wrapper of any object looks like.
LEMMA Unregistered ==
  ASSUME IInv
  PROVE  /\ \A o \in Objs : qwrap[o] # NoWrap =>
              qwrap[o] \in Wraps /\ wobj[qwrap[o]] = o /\ Live(qwrap[o])
         /\ \A w \in Wraps : ~Live(w) \/ wobj[w] = NoObj => \A o \in Objs : qwrap[o] # w
         /\ \A o \in Objs : Reachable(o) => gref[o] > 0
<1> USE DEF IInv
<1>1. \A o \in Objs : qwrap[o] # NoWrap =>
         qwrap[o] \in Wraps /\ wobj[qwrap[o]] = o /\ Live(qwrap[o])
  BY DEF TypeOK, OneWrapper
<1>2. \A w \in Wraps : ~Live(w) \/ wobj[w] = NoObj => \A o \in Objs : qwrap[o] # w
  BY <1>1, SentinelAssumption
<1>3. ASSUME NEW o \in Objs, Reachable(o), gref[o] = 0
      PROVE  FALSE
  <2>1. native[o] = 0 /\ ~floating[o] /\ Owners(o) = {}
    BY <1>3, Bound DEF Owners
  <2>2. Pinned(o) \in Nat
    BY <1>3 DEF Pinned, TypeOK
  <2> QED BY <1>3, <2>1, <2>2 DEF Reachable
<1> QED BY <1>1, <1>2, <1>3 DEF TypeOK

\* What g_object_unref does to the attributes: nothing, for the object has no
\* wrapper any more if it ends.
LEMMA DropEffects ==
  ASSUME IInv, IInv', NEW p \in Objs, NEW o \in Objs, DropRef(p), gref[p] >= 1,
         gref[p] = 1 => qwrap[p] = NoWrap,
         UNCHANGED <<qwrap, wclass>>,
         \A q \in Objs : qwrap[q] # NoWrap => dict'[qwrap[q]] = dict[qwrap[q]]
  PROVE  Effects(o)
<1> USE DEF IInv
<1>1. /\ gref' = [gref EXCEPT ![p] = gref[p] - 1]
      /\ iclass' = IF gref[p] = 1 THEN [iclass EXCEPT ![p] = NoClass] ELSE iclass
  BY DEF DropRef
<1>2. Attrs(o)' <=> Attrs(o)
  BY DEF Attrs
<1>3. gref'[o] > 0 => ClassOf(o)' = ClassOf(o)
  BY <1>1 DEF ClassOf, TypeOK
<1> QED BY <1>1, <1>2, <1>3 DEF Effects, Born, Ended, Decided, Gained, Lost, TypeOK

\* A wrapper with attributes that leaves the qdata, in tp_dealloc or tp_clear: nobody
\* uses its object, before or after.
LEMMA UnregisterEffects ==
  ASSUME IInv, IInv', NEW w \in Wraps, NEW o \in Objs, Live(w), wobj[w] # NoObj,
         dict[w] => w \notin Reached /\ Share(w) = 0, Unregister(w),
         UNCHANGED <<gref, native, floating, wclass, dict>>,
         o # wobj[w] => iclass'[o] = iclass[o]
  PROVE  Effects(o)
<1> USE DEF IInv
<1>1. wobj[w] \in Objs /\ qwrap[wobj[w]] = w
  BY DEF OneWrapper, TypeOK
<1>2. qwrap' = [qwrap EXCEPT ![wobj[w]] = NoWrap]
  BY DEF Unregister
<1>3. CASE o # wobj[w]
  <2>1. (Attrs(o)' <=> Attrs(o)) /\ ClassOf(o)' = ClassOf(o)
    BY <1>1, <1>2, <1>3 DEF Attrs, ClassOf, TypeOK
  <2> QED BY <1>3, <2>1 DEF Effects, Born, Ended, Decided, Gained, Lost, TypeOK
<1>4. CASE o = wobj[w]
  <2>1. qwrap'[o] = NoWrap /\ ~Attrs(o)' /\ (Attrs(o) <=> dict[w])
    BY <1>1, <1>2, <1>4, SentinelAssumption DEF Attrs, TypeOK
  <2>2. dict[w] => native[o] = 0 /\ ~floating[o]
    BY <1>4, SoleOwner
  <2>3. qwrap'[o] \notin Reached'
    BY <2>1, RootsReached, SentinelAssumption
  <2>4. dict[w] => ~Used(o) /\ ~Used(o)'
    BY <1>1, <1>4, <2>2, <2>3 DEF Used
  <2>5. ClassOf(o) # NoClass
    BY <1>1, <1>4, SentinelAssumption DEF ClassOf, TypeOK
  <2> QED BY <2>1, <2>4, <2>5 DEF Effects, Born, Ended, Decided, Gained, Lost, TypeOK
<1> QED BY <1>3, <1>4

\* An object gets a wrapper w that Python or its creator holds.
LEMMA RegisterEffects ==
  ASSUME IInv, IInv', NEW w \in Wraps, NEW p \in Objs, NEW o \in Objs,
         qwrap' = [qwrap EXCEPT ![p] = w], qwrap[p] = NoWrap,
         \A q \in Objs : qwrap[q] # w, w \in Roots', gref'[p] > 0,
         gref[p] > 0 => ~dict'[w],
         \A v \in Wraps \ {w} : dict'[v] = dict[v] /\ wclass'[v] = wclass[v],
         \A q \in Objs : q # p => gref'[q] = gref[q],
         iclass' = iclass
  PROVE  Effects(o)
<1> USE DEF IInv
<1>1. \A q \in Objs : qwrap[q] # NoWrap => qwrap[q] \in Wraps \ {w}
  BY DEF TypeOK
<1>2. CASE o # p
  <2>1. (Attrs(o)' <=> Attrs(o)) /\ ClassOf(o)' = ClassOf(o)
    BY <1>1, <1>2 DEF Attrs, ClassOf, TypeOK
  <2> QED BY <1>2, <2>1 DEF Effects, Born, Ended, Decided, Gained, Lost, TypeOK
<1>3. CASE o = p
  <2>1. qwrap'[o] = w /\ w # NoWrap
    BY <1>3, SentinelAssumption DEF TypeOK
  <2>2. Used(o)'
    BY <2>1, RootsReached DEF Used
  <2>3. ~Attrs(o) /\ (gref[o] > 0 => ~Attrs(o)')
    BY <1>3, <2>1 DEF Attrs
  <2> QED BY <1>3, <2>1, <2>2, <2>3 DEF Effects, Born, Ended, Decided, Gained, Lost, TypeOK
<1> QED BY <1>2, <1>3

-----------------------------------------------------------------------------
(* Every step *)

\* Native code, and the wrappers it makes or asks for.
LEMMA ObjStepEffects ==
  ASSUME IInv, IInv', NEW p \in Objs, ObjStep(p), NEW o \in Objs
  PROVE  Effects(o)
<1> USE DEF IInv
<1>1. ASSUME NEW fl \in BOOLEAN, NativeNew(p, fl)
      PROVE  Effects(o)
  <2>1. /\ UNCHANGED <<qwrap, iclass, wclass, dict>>
        /\ gref[p] = 0 /\ gref' = [gref EXCEPT ![p] = 1]
        /\ native' = [native EXCEPT ![p] = 1 - B(fl)]
        /\ floating' = [floating EXCEPT ![p] = fl]
    BY <1>1 DEF NativeNew, wvars
  <2>2. CASE o # p
    BY <2>1, <2>2, SteadyEffects DEF TypeOK
  <2>3. CASE o = p
    <3>1. native'[o] > 0 \/ floating'[o]
      BY <2>1, <2>3 DEF B, TypeOK
    <3>2. Used(o)'
      BY <3>1 DEF Used
    <3>3. (Attrs(o)' <=> Attrs(o)) /\ gref[o] = 0 /\ gref'[o] = 1
      BY <2>1, <2>3 DEF Attrs, TypeOK
    <3> QED BY <3>2, <3>3 DEF Effects, Born, Ended, Decided, Gained, Lost
  <2> QED BY <2>2, <2>3
<1>2. CASE NativeRef(p)
  <2>1. gref[p] > 0 /\ gref' = [gref EXCEPT ![p] = gref[p] + 1]
    BY <1>2, Unregistered DEF NativeRef
  <2>2. gref[o] = 0 <=> gref'[o] = 0
    BY <2>1 DEF TypeOK
  <2> QED BY <1>2, <2>2, SteadyEffects DEF NativeRef
<1>3. CASE NativeSink(p)
  BY <1>3, SteadyEffects DEF NativeSink, wvars
<1>4. CASE NativeUnref(p)
  <2>1. native[p] >= 1
    BY <1>4 DEF NativeUnref, Pinned, TypeOK
  <2>2. gref[p] \in Nat /\ native[p] \in Nat /\ B(floating[p]) \in Nat
    BY DEF TypeOK, B
  <2>3. gref[p] >= 1
    BY <2>1, <2>2, CountsNat DEF RefsOwned
  <2>4. gref[p] = 1 => qwrap[p] = NoWrap
    BY <2>1, <2>2, Bound, Unregistered, SentinelAssumption
  <2> QED BY <1>4, <2>3, <2>4, DropEffects DEF NativeUnref
<1>5. ASSUME NEW steal \in BOOLEAN, WrapAgain(p, steal)
      PROVE  Effects(o)
  <2>1. qwrap[p] \in Wraps /\ wobj[qwrap[p]] = p
    BY <1>5, Unregistered DEF WrapAgain
  <2>2. steal => gref[p] >= 2
    <3>1. steal => native[p] >= 1
      BY <1>5 DEF WrapAgain, Pinned, TypeOK
    <3>2. gref[p] \in Nat /\ native[p] \in Nat /\ B(floating[p]) \in Nat
      BY DEF TypeOK, B
    <3> QED BY <2>1, <3>1, <3>2, Bound, SentinelAssumption
  <2>3. gref' = [gref EXCEPT ![p] = gref[p] - B(steal)] /\ gref[p] > 0
    BY <1>5, Unregistered DEF WrapAgain
  <2>4. gref[o] = 0 <=> gref'[o] = 0
    BY <2>2, <2>3 DEF TypeOK, B
  <2> QED BY <1>5, <2>4, SteadyEffects DEF WrapAgain
<1>6. ASSUME NEW w \in Wraps, NEW steal \in BOOLEAN, WrapNew(p, w, steal)
      PROVE  Effects(o)
  <2>1. /\ qwrap' = [qwrap EXCEPT ![p] = w] /\ qwrap[p] = NoWrap /\ wst[w] = "free"
        /\ gref' = [gref EXCEPT ![p] = gref[p] + B(AddsRef(p, steal))]
        /\ wst' = [wst EXCEPT ![w] = "live"] /\ held' = [held EXCEPT ![w] = 1]
        /\ UNCHANGED <<iclass, dict, inCall>>
        /\ \A v \in Wraps \ {w} : wclass'[v] = wclass[v]
    BY <1>6 DEF WrapNew, Register, TypeOK
  <2>2. gref[p] > 0
    BY <1>6, Unregistered DEF WrapNew
  <2>3. gref'[p] > 0 /\ \A q \in Objs : q # p => gref'[q] = gref[q]
    BY <2>1, <2>2 DEF TypeOK, B
  <2>4. w \in Roots'
    BY <2>1 DEF Roots, Live, TypeOK
  <2>5. ~dict'[w] /\ ~Live(w)
    BY <2>1 DEF Shape, Live
  <2>6. \A q \in Objs : qwrap[q] # w
    BY <2>5, Unregistered
  <2> QED BY <2>1, <2>3, <2>4, <2>5, <2>6, RegisterEffects
<1>7. ASSUME NEW w \in Wraps, NEW how, Construct(w, p, how)
      PROVE  Effects(o)
  <2>1. /\ qwrap' = [qwrap EXCEPT ![p] = w] /\ gref[p] = 0
        /\ Live(w) /\ held[w] > 0 /\ wobj[w] = NoObj
        /\ gref' = [gref EXCEPT ![p] = 1 + B(how = "owned")]
        /\ UNCHANGED <<iclass, dict, wclass, held, inCall, wst>>
    BY <1>7 DEF Construct, Register
  <2>2. gref'[p] > 0 /\ \A q \in Objs : q # p => gref'[q] = gref[q]
    BY <2>1 DEF TypeOK, B
  <2>3. w \in Roots'
    BY <2>1 DEF Roots, Live, TypeOK
  <2>4. \A q \in Objs : qwrap[q] # w
    BY <2>1, Unregistered
  <2>5. qwrap[p] = NoWrap
    BY <2>1, Bound, Unregistered
  <2>6. ~(gref[p] > 0) /\ \A v \in Wraps \ {w} : dict'[v] = dict[v] /\ wclass'[v] = wclass[v]
    BY <2>1
  <2> QED BY <2>1, <2>2, <2>3, <2>4, <2>5, <2>6, RegisterEffects
<1>8. ASSUME NEW w \in Wraps, NEW d \in BOOLEAN, NEW fl \in BOOLEAN, GNew(p, w, d, fl)
      PROVE  Effects(o)
  <2>1. /\ qwrap' = [qwrap EXCEPT ![p] = w] /\ gref[p] = 0 /\ wst[w] = "free"
        /\ gref' = [gref EXCEPT ![p] = 2 - B(fl)]
        /\ wst' = [wst EXCEPT ![w] = "live"] /\ wfloat' = [wfloat EXCEPT ![w] = TRUE]
        /\ UNCHANGED iclass
        /\ \A v \in Wraps \ {w} : dict'[v] = dict[v] /\ wclass'[v] = wclass[v]
    BY <1>8 DEF GNew, Register, TypeOK
  <2>2. gref'[p] > 0 /\ \A q \in Objs : q # p => gref'[q] = gref[q]
    BY <2>1 DEF TypeOK, B
  <2>3. w \in Roots'
    BY <2>1 DEF Roots, Live, TypeOK
  <2>4. \A q \in Objs : qwrap[q] # w
    BY <2>1, Unregistered DEF Live
  <2>5. qwrap[p] = NoWrap
    BY <2>1, Bound, Unregistered
  <2>6. ~(gref[p] > 0) /\ \A v \in Wraps \ {w} : dict'[v] = dict[v] /\ wclass'[v] = wclass[v]
    BY <2>1
  <2> QED BY <2>1, <2>2, <2>3, <2>4, <2>5, <2>6, RegisterEffects
<1> QED BY <1>1, <1>2, <1>3, <1>4, <1>5, <1>6, <1>7, <1>8 DEF ObjStep

\* The Python program, the notifications and the death of wrappers.
LEMMA WrapStepEffects ==
  ASSUME IInv, IInv', NEW w \in Wraps, WrapStep(w), NEW o \in Objs
  PROVE  Effects(o)
<1> USE DEF IInv
<1>1. ASSUME NEW c \in Classes, Alloc(w, c)
      PROVE  Effects(o)
  <2>1. /\ UNCHANGED <<gref, qwrap, iclass, dict>> /\ ~Live(w)
        /\ wclass' = [wclass EXCEPT ![w] = c]
    BY <1>1 DEF Alloc, gvars, Live
  <2>2. qwrap[o] # w /\ (qwrap[o] # NoWrap => qwrap[o] \in Wraps)
    BY <2>1, Unregistered
  <2>3. (Attrs(o)' <=> Attrs(o)) /\ ClassOf(o)' = ClassOf(o)
    BY <2>1, <2>2 DEF Attrs, ClassOf, TypeOK
  <2> QED BY <2>1, <2>3 DEF Effects, Born, Ended, Decided, Gained, Lost, TypeOK
<1>2. ASSUME NEW new, SetAttr(w, new)
      PROVE  Effects(o)
  <2>1. /\ dict' = [dict EXCEPT ![w] = TRUE] /\ Live(w) /\ held[w] > 0
        /\ UNCHANGED <<gref, qwrap, iclass, wclass, held, inCall, wst>>
    BY <1>2 DEF SetAttr
  <2>2. w \in Roots /\ w \in Roots'
    BY <2>1 DEF Roots, Live, TypeOK
  <2>3. qwrap[o] = w => Used(o) /\ Used(o)'
    BY <2>1, <2>2, RootsReached DEF Used
  <2>4. qwrap[o] # w => (Attrs(o)' <=> Attrs(o))
    BY <2>1, Unregistered DEF Attrs, TypeOK
  <2>5. qwrap[o] = w => Attrs(o)'
    BY <2>1, SentinelAssumption DEF Attrs, TypeOK
  <2>6. ClassOf(o)' = ClassOf(o)
    BY <2>1 DEF ClassOf
  <2> QED BY <2>1, <2>3, <2>4, <2>5, <2>6 DEF Effects, Born, Ended, Decided, Gained, Lost, TypeOK
<1>3. CASE \/ Incref(w) \/ Decref(w) \/ BeginCall(w) \/ EndCall(w)
           \/ NotifyUp(w) \/ NotifyDown(w)
  <2>1. UNCHANGED <<gref, qwrap, iclass, wclass, dict>>
    BY <1>3 DEF Incref, Decref, BeginCall, EndCall, NotifyUp, NotifyDown, gvars
  <2> QED BY <2>1, SteadyEffects
<1>4. CASE PassBorrowed(w)
  <2>1. gref[wobj[w]] = 1 /\ gref' = [gref EXCEPT ![wobj[w]] = 2]
    BY <1>4 DEF PassBorrowed
  <2>2. gref[o] = 0 <=> gref'[o] = 0
    BY <2>1 DEF TypeOK
  <2> QED BY <1>4, <2>2, SteadyEffects DEF PassBorrowed
<1>5. CASE BeginDealloc(w)
  <2>1. /\ Live(w) /\ pyref[w] = 0 /\ wobj[w] # NoObj /\ Unregister(w)
        /\ iclass' = [iclass EXCEPT ![wobj[w]] = Recorded(w)]
        /\ UNCHANGED <<gref, native, floating, wclass, dict>>
    BY <1>5 DEF BeginDealloc
  <2>2. Quiet(w) /\ Share(w) = 0
    BY <2>1, Unreferenced, CountsNat
  <2>3. \A v \in Wraps : w \notin refs[v]
    BY <2>1, Referred
  <2>4. dict[w] => w \notin Roots
    <3>1. dict[w] => native[wobj[w]] = 0 /\ ~floating[wobj[w]]
      BY <2>1, <2>2, SoleOwner
    <3>2. held[w] + inCall[w] = 0 /\ ~wfloat[w]
      BY <2>2 DEF Quiet
    <3> QED BY <3>1, <3>2 DEF Roots
  <2>5. dict[w] => w \notin Reached
    BY <2>3, <2>4, AloneUnreached
  <2>6. o # wobj[w] => iclass'[o] = iclass[o]
    BY <2>1 DEF TypeOK
  <2> QED BY <2>1, <2>2, <2>5, <2>6, UnregisterEffects
<1>6. CASE GcClear(w)
  <2>1. /\ w \in trash /\ wobj[w] # NoObj /\ Unregister(w)
        /\ UNCHANGED <<gref, native, floating, iclass, wclass, dict>>
    BY <1>6 DEF GcClear
  <2>2. Live(w) /\ Share(w) = 0
    BY <2>1 DEF Trash
  <2>3. dict[w] => w \notin Reached
    BY <2>1, DyingUnreached
  <2> QED BY <2>1, <2>2, <2>3, UnregisterEffects
<1>7. CASE DeallocUnbound(w) \/ GcClearUnbound(w)
  <2>1. /\ UNCHANGED <<gref, qwrap, iclass, wclass>> /\ wobj[w] = NoObj
        /\ dict' = [dict EXCEPT ![w] = FALSE]
    BY <1>7 DEF DeallocUnbound, GcClearUnbound, gvars
  <2>2. qwrap[o] # w
    BY <2>1, Unregistered
  <2>3. (Attrs(o)' <=> Attrs(o)) /\ ClassOf(o)' = ClassOf(o)
    BY <2>1, <2>2, Unregistered DEF Attrs, ClassOf, TypeOK
  <2> QED BY <2>1, <2>3 DEF Effects, Born, Ended, Decided, Gained, Lost, TypeOK
<1>8. CASE Finish(w)
  <2> DEFINE p == wobj[w]
  <2>1. p \in Objs /\ p # NoObj /\ gref[p] >= 1 /\ ~Live(w)
    BY <1>8, Bound DEF Finish, Shape, TypeOK, Live
  <2>2. /\ DropRef(p) /\ dict' = [dict EXCEPT ![w] = FALSE]
        /\ UNCHANGED <<wclass, qwrap>>
    BY <1>8 DEF Finish
  <2>3. \A q \in Objs : qwrap[q] # w /\ (qwrap[q] # NoWrap => qwrap[q] \in Wraps)
    BY <2>1, Unregistered
  <2>4. \A q \in Objs : qwrap[q] # NoWrap => dict'[qwrap[q]] = dict[qwrap[q]]
    BY <2>2, <2>3 DEF TypeOK
  <2>5. qwrap[p] # NoWrap => gref[p] >= 2
    BY <2>1, <2>3, TwoOwners, Unregistered
  <2>6. gref[p] = 1 => qwrap[p] = NoWrap
    BY <2>5
  <2> HIDE DEF p
  <2> QED BY <2>1, <2>2, <2>4, <2>6, DropEffects
<1> QED BY <1>1, <1>2, <1>3, <1>4, <1>5, <1>6, <1>7, <1>8, WrapStep(w) DEF WrapStep

\* The start of a collection records classes of objects that have a wrapper.
LEMMA GcStartEffects ==
  ASSUME IInv, IInv', NEW S \in SUBSET Wraps, GcStart(S), NEW o \in Objs
  PROVE  Effects(o)
<1> USE DEF IInv
<1>1. UNCHANGED <<gref, qwrap, wclass, dict>> /\ iclass' = Traversed
  BY DEF GcStart, wvars
<1>2. qwrap[o] = NoWrap => iclass'[o] = iclass[o]
  <2>1. qwrap[o] = NoWrap => ~\E w \in Owners(o) : Live(w)
    BY SentinelAssumption DEF OneWrapper, Owners
  <2> QED BY <1>1, <2>1 DEF Traversed
<1>3. (Attrs(o)' <=> Attrs(o)) /\ ClassOf(o)' = ClassOf(o)
  BY <1>1, <1>2 DEF Attrs, ClassOf
<1> QED BY <1>1, <1>3 DEF Effects, Born, Ended, Decided, Gained, Lost, TypeOK

-----------------------------------------------------------------------------
(* The refinement *)

\* An address without an object has nothing that ObjectPromise speaks of.
Unborn ==
  \A o \in Objs : gref[o] = 0 => ClassOf(o) = NoClass /\ ~Attrs(o) /\ ~Used(o)

LEMMA NothingUnborn ==
  ASSUME IInv, Classy
  PROVE  Unborn
<1> SUFFICES ASSUME NEW o \in Objs, gref[o] = 0
    PROVE  ClassOf(o) = NoClass /\ ~Attrs(o) /\ ~Used(o)
  BY DEF Unborn
<1>1. native[o] = 0 /\ ~floating[o] /\ qwrap[o] = NoWrap
  BY Bound, Unregistered DEF IInv
<1>2. NoWrap \notin Reached
  BY RootsReached, SentinelAssumption
<1> QED BY <1>1, <1>2 DEF ClassOf, Classy, Attrs, Used

\* Every step of the wrappers is, for every object, a step that ObjectPromise allows
\* or none.
LEMMA PromiseStep ==
  ASSUME IInv, IInv', Classy, Unborn, Unborn', [Next]_vars, NEW o \in Objs
  PROVE  Promise(o)!Next \/ UNCHANGED Promise(o)!pvars
<1>1. CASE UNCHANGED vars
  <2>1. Roots' = Roots /\ Reached' = Reached
    BY <1>1 DEF vars, Roots, Reached, Live
  <2> QED BY <1>1, <2>1 DEF vars, Promise!pvars, ClassOf, Used
<1>2. CASE Next
  <2>1. Effects(o)
    <3>1. ASSUME NEW p \in Objs, ObjStep(p) PROVE Effects(o)
      BY <3>1, ObjStepEffects
    <3>2. ASSUME NEW w \in Wraps, WrapStep(w) PROVE Effects(o)
      BY <3>2, WrapStepEffects
    <3>3. ASSUME NEW S \in SUBSET Wraps, GcStart(S) PROVE Effects(o)
      BY <3>3, GcStartEffects
    <3> QED BY <1>2, <3>1, <3>2, <3>3 DEF Next
  <2>2. /\ gref[o] \in Nat /\ gref'[o] \in Nat
        /\ ClassOf(o) \in Classes \cup {NoClass} /\ ClassOf(o)' \in Classes \cup {NoClass}
    BY DEF IInv, TypeOK, ClassOf
  <2>3. gref[o] > 0 /\ gref'[o] > 0 /\ ClassOf(o) # NoClass => ClassOf(o)' = ClassOf(o)
    BY <1>2, ClassStep
  <2>4. CASE gref[o] = 0 /\ gref'[o] = 0
    <3>1. (gref'[o] > 0) = (gref[o] > 0)
      BY <2>4
    <3>2. ClassOf(o)' = ClassOf(o)
      BY <2>4 DEF Unborn
    <3>3. ~Attrs(o)' /\ ~Attrs(o) /\ ~Used(o)' /\ ~Used(o)
      BY <2>4 DEF Unborn
    <3>4. Attrs(o)' = Attrs(o) /\ Used(o)' = Used(o)
      BY <3>3 DEF Attrs, Used
    <3> QED BY <3>1, <3>2, <3>4 DEF Promise!pvars, Attrs
  <2>5. CASE gref[o] = 0 /\ gref'[o] > 0
    <3>1. Attrs(o)' \in BOOLEAN
      BY DEF Attrs, IInv, TypeOK
    <3> QED BY <2>1, <2>2, <2>5, <3>1
            DEF Effects, Born, Attrs, Promise!Next, Promise!Create
  <2>6. CASE gref[o] > 0 /\ gref'[o] = 0
    BY <2>1, <2>6 DEF Effects, Ended, Attrs, Unborn, Promise!Next, Promise!Die
  <2>7. CASE gref[o] > 0 /\ gref'[o] > 0
    <3>1. CASE ClassOf(o)' # ClassOf(o)
      <4>1. Attrs(o)' = Attrs(o) /\ Used(o)' /\ ClassOf(o) = NoClass /\ ClassOf(o)' \in Classes
        BY <2>1, <2>2, <2>3, <2>7, <3>1 DEF Effects, Decided, Attrs
      <4> QED BY <2>7, <4>1 DEF Attrs, Promise!Next, Promise!Wrap
    <3>2. CASE ClassOf(o)' = ClassOf(o)
      <4>1. CASE ~Attrs(o) /\ Attrs(o)'
        <5>1. Used(o) /\ Used(o)'
          BY <2>1, <2>7, <4>1 DEF Effects, Gained
        <5> QED BY <2>7, <3>2, <4>1, <5>1 DEF Attrs, Promise!Next, Promise!SetAttr
      <4>2. CASE Attrs(o) /\ ~Attrs(o)'
        <5>1. ~Used(o) /\ ~Used(o)'
          BY <2>1, <2>7, <4>2 DEF Effects, Lost
        <5>2. Used(o)' = Used(o) /\ (gref'[o] > 0) = (gref[o] > 0)
          BY <2>7, <5>1 DEF Used
        <5> QED BY <2>7, <3>2, <4>2, <5>1, <5>2 DEF Attrs, Promise!Next, Promise!Forget
      <4>3. CASE Attrs(o)' <=> Attrs(o)
        <5>1. CASE Used(o) /\ ~Used(o)'
          BY <2>7, <3>2, <4>3, <5>1 DEF Attrs, Promise!Next, Promise!Release
        <5>2. CASE ~Used(o) /\ Used(o)'
          BY <2>7, <3>2, <4>3, <5>2 DEF Attrs, Promise!Next, Promise!Resurrect
        <5>3. CASE Used(o)' <=> Used(o)
          BY <2>7, <3>2, <4>3, <5>3 DEF Attrs, Used, Promise!pvars
        <5> QED BY <5>1, <5>2, <5>3
      <4> QED BY <4>1, <4>2, <4>3
    <3> QED BY <3>1, <3>2
  <2> QED BY <2>2, <2>4, <2>5, <2>6, <2>7
<1> QED BY <1>1, <1>2

\* Wrappers and their two reference counts implement ObjectPromise, for every object:
\* whoever can use an object finds its class and its attributes as they were, however
\* often its wrapper went and came back.
THEOREM KeepsPromiseAlways ==
  ASSUME ~RewrapTrash
  PROVE  Spec => KeepsPromise
<1>1. Init => \A o \in Objs : Promise(o)!Init
  <2> SUFFICES ASSUME Init, NEW o \in Objs PROVE Promise(o)!Init
    OBVIOUS
  <2>1. gref[o] = 0 /\ qwrap[o] = NoWrap /\ iclass[o] = NoClass
    BY DEF Init
  <2>2. ~Used(o)
    BY RootsReached, SentinelAssumption DEF Init, Used
  <2> QED BY <2>1, <2>2 DEF Promise!Init, ClassOf
<1>2. Init => Classy
  BY DEF Init, Classy
<1>3. IInv /\ Classy /\ [Next]_vars => Classy'
  <2>1. CASE Next
    BY <2>1, ClassStep
  <2>2. CASE UNCHANGED vars
    BY <2>2 DEF vars, Classy, Live
  <2> QED BY <2>1, <2>2
<1>4. IInv /\ Classy => Unborn
  BY NothingUnborn
<1>5. IInv /\ IInv' /\ Classy /\ Unborn /\ Unborn' /\ [Next]_vars
        => \A o \in Objs : Promise(o)!Next \/ UNCHANGED Promise(o)!pvars
  BY PromiseStep
<1> QED BY <1>1, <1>2, <1>3, <1>4, <1>5, Invariance, PTL DEF Spec, KeepsPromise
=============================================================================
