---------------------------- MODULE ClosuresProofs ----------------------------
(***************************************************************************)
(* Machine-checked facts about Closures, for any number of objects,        *)
(* closures, callbacks and threads: the list of an object's closures, the  *)
(* references they own and what an emission finds stay right as long as    *)
(* the end of an emission does not overlap with other uses of the list     *)
(* (Overlap).                                                              *)
(***************************************************************************)
EXTENDS Closures, FiniteSetTheorems, WellFoundedInduction, TLAPS

-----------------------------------------------------------------------------
(* The inductive invariant *)

\* A list has been read, and nobody has changed it since.
Read(s, list) == IsInjective(s) /\ ToSet(s) = ToSet(list)

\* What an emission has in each of its states.
Emissions ==
  \A t \in Threads :
    /\ tst[t] = "idle" <=> tobj[t] = NoObj
    /\ tcl[t] # NoClosure <=> tst[t] \in {"marshal", "call", "unwatch", "invalidate"}
    /\ tcl[t] # NoClosure => cobj[tcl[t]] = tobj[t] /\ tcl[t] # adding

\* Nobody else has the closure whose last reference an emission has dropped.
Ending ==
  \A t \in Threads : tst[t] \in {"unwatch", "invalidate"} =>
    tcl[t] \notin conn /\ \A u \in Threads \ {t} : tcl[u] # tcl[t]

\* A list is taken by one thread at a time.
Reading ==
  \A t \in Threads : tst[t] = "unwatch" =>
    /\ adding = NoClosure /\ \A u \in Threads \ {t} : tst[u] # "unwatch"
    /\ Read(seen[t], closures[tobj[t]])

Adding == adding # NoClosure => /\ Valid(adding) /\ adding \notin conn
                                /\ Read(addseen, closures[cobj[adding]])

\* A closure that is free has let go of everything.
Vacant ==
  \A c \in Closures : /\ Valid(c) <=> callback[c] # NoFunc
                      /\ ~Valid(c) => keeps[c] = {} /\ c \notin conn

ClosuresInv ==
  /\ TypeOK /\ ListExact /\ RefsOwned
  /\ Emissions /\ Ending /\ Reading /\ Adding /\ Vacant
-----------------------------------------------------------------------------
(* Lists.  Induction over their length goes by sets of numbers. *)

LEMMA NumbersFrom0 ==
  ASSUME NEW T \in SUBSET Nat, 0 \in T, \A n \in T : n + 1 \in T
  PROVE  T = Nat
<1> SUFFICES ASSUME Nat \ T # {}
             PROVE  FALSE
  OBVIOUS
<1>1. PICK R : R = OpToRel(<, Nat)
  OBVIOUS
<1>2. PICK n \in Nat \ T : \A m \in Nat \ T : ~(<<m, n>> \in R)
  BY <1>1, NatLessThanWellFounded, WFMin
<1>3. \A m \in Nat : m < n => <<m, n>> \in R
  BY <1>1 DEF OpToRel
<1>4. n # 0 /\ n - 1 \in Nat /\ n - 1 < n
  BY <1>2
<1>5. n - 1 \in T
  BY <1>2, <1>3, <1>4
<1>6. n = (n - 1) + 1
  BY <1>2
<1> QED BY <1>2, <1>5, <1>6

\* g tells what is left of each prefix of a list of length n.
Rests(list, S, n, g) ==
  g = [i \in 0 .. n |-> IF i = 0 THEN <<>> ELSE IF list[i] \in S THEN g[i - 1] ELSE Append(g[i - 1], list[i])]

LEMMA RestsExist ==
  ASSUME NEW list, NEW S, NEW n \in Nat
  PROVE  \E g : Rests(list, S, n, g)
<1> DEFINE T == {k \in Nat : \E g : Rests(list, S, k, g)}
<1>1. 0 \in T
  <2>1. PICK g : g = [i \in 0 .. 0 |-> <<>>]
    OBVIOUS
  <2>2. g = [i \in 0 .. 0 |-> IF i = 0 THEN <<>> ELSE IF list[i] \in S THEN g[i - 1] ELSE Append(g[i - 1], list[i])]
    BY <2>1
  <2> QED BY <2>2 DEF Rests
<1>2. ASSUME NEW k \in T PROVE k + 1 \in T
  <2>1. PICK g : Rests(list, S, k, g)
    OBVIOUS
  <2>2. PICK last : last = IF list[k + 1] \in S THEN g[k] ELSE Append(g[k], list[k + 1])
    OBVIOUS
  <2>3. PICK h : h = [i \in 0 .. k + 1 |-> IF i = k + 1 THEN last ELSE g[i]]
    OBVIOUS
  <2>4. ASSUME NEW i \in 0 .. k + 1
        PROVE  h[i] = IF i = 0 THEN <<>> ELSE IF list[i] \in S THEN h[i - 1] ELSE Append(h[i - 1], list[i])
    <3>1. CASE i = k + 1
      BY <2>2, <2>3, <3>1
    <3>2. CASE i \in 0 .. k
      <4>1. h[i] = g[i] /\ (i # 0 => h[i - 1] = g[i - 1])
        BY <2>3, <3>2
      <4>2. g[i] = IF i = 0 THEN <<>> ELSE IF list[i] \in S THEN g[i - 1] ELSE Append(g[i - 1], list[i])
        BY <2>1, <3>2 DEF Rests
      <4> QED BY <4>1, <4>2
    <3> QED BY <3>1, <3>2
  <2>5. Rests(list, S, k + 1, h)
    BY <2>3, <2>4 DEF Rests
  <2> QED BY <2>5
<1> HIDE DEF T
<1>3. T = Nat
  <2>1. T \in SUBSET Nat
    BY DEF T
  <2> QED BY <1>1, <1>2, <2>1, NumbersFrom0
<1> QED BY <1>3 DEF T

LEMMA ListFacts ==
  ASSUME NEW C, NEW s \in Seq(C)
  PROVE  /\ ToSet(s) = {s[i] : i \in 1 .. Len(s)} /\ ToSet(s) \subseteq C
         /\ IsInjective(s) <=> \A i, j \in 1 .. Len(s) : s[i] = s[j] => i = j
         /\ \A x \in C : /\ Append(s, x) \in Seq(C) /\ ToSet(Append(s, x)) = ToSet(s) \cup {x}
                         /\ IsInjective(s) /\ x \notin ToSet(s) => IsInjective(Append(s, x))
<1>1. DOMAIN s = 1 .. Len(s) /\ \A i \in 1 .. Len(s) : s[i] \in C
  OBVIOUS
<1>2. ToSet(s) = {s[i] : i \in 1 .. Len(s)} /\ ToSet(s) \subseteq C
  BY <1>1 DEF ToSet
<1>3. IsInjective(s) <=> \A i, j \in 1 .. Len(s) : s[i] = s[j] => i = j
  BY <1>1 DEF IsInjective
<1>4. ASSUME NEW x \in C
      PROVE  /\ Append(s, x) \in Seq(C) /\ ToSet(Append(s, x)) = ToSet(s) \cup {x}
             /\ IsInjective(s) /\ x \notin ToSet(s) => IsInjective(Append(s, x))
  <2>1. PICK a : a = Append(s, x)
    OBVIOUS
  <2>2. PICK n \in Nat : n = Len(s)
    OBVIOUS
  <2>3. a \in Seq(C) /\ Len(a) = n + 1 /\ DOMAIN a = 1 .. n + 1 /\ a[n + 1] = x /\ \A i \in 1 .. n : a[i] = s[i]
    BY <2>1, <2>2
  <2>4. ToSet(a) = ToSet(s) \cup {x}
    <3>1. \A i \in 1 .. n + 1 : i \in 1 .. n \/ i = n + 1
      BY <2>2
    <3>2. ToSet(a) \subseteq ToSet(s) \cup {x}
      BY <1>2, <2>2, <2>3, <3>1 DEF ToSet
    <3>3. x \in ToSet(a)
      BY <2>2, <2>3 DEF ToSet
    <3>4. \A i \in 1 .. n : s[i] \in ToSet(a)
      BY <2>2, <2>3 DEF ToSet
    <3> QED BY <1>2, <2>2, <3>2, <3>3, <3>4
  <2>5. IsInjective(s) /\ x \notin ToSet(s) => IsInjective(a)
    BY <1>2, <1>3, <2>2, <2>3 DEF IsInjective
  <2> QED BY <2>1, <2>3, <2>4, <2>5
<1> QED BY <1>2, <1>3, <1>4

LEMMA EmptyList ==
  ASSUME NEW C
  PROVE  <<>> \in Seq(C) /\ ToSet(<<>>) = {} /\ IsInjective(<<>>)
<1>0. <<>> \in Seq(C) /\ Len(<<>>) = 0
  OBVIOUS
<1>1. PICK s \in Seq(C) : s = <<>> /\ Len(s) = 0
  BY <1>0
<1>2. 1 .. Len(s) = {}
  BY <1>1
<1>3. ToSet(s) = {} /\ IsInjective(s)
  BY <1>2, ListFacts
<1> QED BY <1>1, <1>3

LEMMA WithoutFacts ==
  ASSUME NEW C, NEW list \in Seq(C), NEW S
  PROVE  /\ Without(list, S) \in Seq(C)
         /\ ToSet(Without(list, S)) = ToSet(list) \ S
         /\ IsInjective(list) => IsInjective(Without(list, S))
<1>1. PICK n \in Nat : n = Len(list)
  OBVIOUS
<1>2. PICK g : Rests(list, S, n, g) /\ Without(list, S) = g[n]
  <2>1. \E g : Rests(list, S, n, g)
    BY RestsExist
  <2> DEFINE rest == CHOOSE g : Rests(list, S, n, g)
  <2>2. Rests(list, S, n, rest)
    BY <2>1
  <2>3. Without(list, S) = rest[n]
    BY <1>1 DEF Without, Rests
  <2> HIDE DEF rest
  <2> QED BY <2>2, <2>3
<1> DEFINE Prefix(k) == {list[j] : j \in 1 .. k}
           Left(k) == /\ g[k] \in Seq(C) /\ ToSet(g[k]) = Prefix(k) \ S
                      /\ IsInjective(list) => IsInjective(g[k])
           T == {k \in Nat : k <= n => Left(k)}
<1>3. 0 \in T
  <2>1. g[0] = <<>> /\ Prefix(0) = {}
    BY <1>2 DEF Rests
  <2> QED BY <2>1, EmptyList
<1>4. ASSUME NEW k \in T PROVE k + 1 \in T
  <2> SUFFICES ASSUME k + 1 <= n
               PROVE  Left(k + 1)
    OBVIOUS
  <2>1. Left(k) /\ list[k + 1] \in C /\ k + 1 \in 0 .. n /\ k \in Nat
    BY <1>1
  <2>2. g[k + 1] = IF list[k + 1] \in S THEN g[k] ELSE Append(g[k], list[k + 1])
    <3>1. g[k + 1] = IF k + 1 = 0 THEN <<>>
                     ELSE IF list[k + 1] \in S THEN g[(k + 1) - 1] ELSE Append(g[(k + 1) - 1], list[k + 1])
      BY <1>2, <2>1 DEF Rests
    <3>2. k + 1 # 0 /\ (k + 1) - 1 = k
      BY <2>1
    <3> QED BY <3>1, <3>2
  <2>3. Prefix(k + 1) = Prefix(k) \cup {list[k + 1]}
    BY <2>1
  <2>4. CASE list[k + 1] \in S
    BY <2>1, <2>2, <2>3, <2>4
  <2>5. CASE list[k + 1] \notin S
    <3>1. PICK s \in Seq(C), x \in C : s = g[k] /\ x = list[k + 1] /\ g[k + 1] = Append(s, x)
      BY <2>1, <2>2, <2>5
    <3>2. ToSet(Append(s, x)) = ToSet(s) \cup {x}
      BY ListFacts
    <3>3. ToSet(g[k + 1]) = Prefix(k + 1) \ S
      BY <2>1, <2>3, <2>5, <3>1, <3>2
    <3>4. ASSUME IsInjective(list) PROVE IsInjective(g[k + 1])
      <4>1. x \notin Prefix(k)
        <5>1. DOMAIN list = 1 .. n /\ k + 1 \in 1 .. n
          BY <1>1, <2>1
        <5> QED BY <3>1, <3>4, <5>1 DEF IsInjective
      <4>2. x \notin ToSet(s) /\ IsInjective(s)
        BY <2>1, <3>1, <3>4, <4>1
      <4> QED BY <3>1, <4>2, ListFacts
    <3> QED BY <3>1, <3>3, <3>4
  <2> QED BY <2>4, <2>5
<1>5. n \in T
  <2>1. T \in SUBSET Nat
    OBVIOUS
  <2> HIDE DEF T
  <2> QED BY <1>3, <1>4, <2>1, NumbersFrom0
<1>6. Prefix(n) = ToSet(list)
  BY <1>1 DEF ToSet
<1> QED BY <1>2, <1>5, <1>6

LEMMA UnwatchedFacts ==
  ASSUME NEW C, NEW list \in Seq(C), NEW c, IsInjective(list)
  PROVE  /\ Unwatched(c, list) \in Seq(C) /\ IsInjective(Unwatched(c, list))
         /\ ToSet(Unwatched(c, list)) = ToSet(list) \ {c}
<1>1. CASE \E i \in 1 .. Len(list) : list[i] = c
  <2>1. PICK n \in Nat : n = Len(list)
    OBVIOUS
  <2>2. PICK k \in 1 .. n : list[k] = c
    BY <1>1, <2>1
  <2>3. \A i, j \in 1 .. n : list[i] = list[j] => i = j
    BY <2>1, ListFacts
  <2>4. {i \in 1 .. n : list[i] = c} = {k}
    BY <2>2, <2>3
  <2>5. Min({k}) = k
    BY DEF Min
  <2>6. Unwatched(c, list) = RemoveAt(list, Min({k}))
    BY <1>1, <2>1, <2>4 DEF Unwatched, RemoveFirst, SelectInSeq
  <2>7. PICK a : a = Unwatched(c, list)
    OBVIOUS
  <2>8. PICK p, q : p = SubSeq(list, 1, k - 1) /\ q = SubSeq(list, k + 1, n)
    OBVIOUS
  <2>9. /\ p \in Seq(C) /\ Len(p) = k - 1 /\ \A i \in 1 .. k - 1 : p[i] = list[i]
        /\ q \in Seq(C) /\ Len(q) = n - k /\ \A i \in 1 .. n - k : q[i] = list[k + i]
    <3>1. p \in Seq(C) /\ Len(p) = k - 1 /\ \A i \in 1 .. k - 1 : p[i] = list[i]
      BY <2>1, <2>2, <2>8
    <3>2. q \in Seq(C) /\ Len(q) = n - k
      BY <2>1, <2>2, <2>8
    <3>3. \A i \in 1 .. n - k : q[i] = list[k + 1 + i - 1]
      BY <2>1, <2>2, <2>8
    <3> QED BY <2>1, <2>2, <3>1, <3>2, <3>3
  <2>10. a = p \o q
    BY <2>1, <2>5, <2>6, <2>7, <2>8 DEF RemoveAt
  <2>11. /\ a \in Seq(C) /\ Len(a) = n - 1
         /\ \A i \in 1 .. n - 1 : a[i] = IF i < k THEN list[i] ELSE list[i + 1]
    <3>1. a \in Seq(C) /\ Len(a) = n - 1
      BY <2>1, <2>2, <2>9, <2>10
    <3>2. \A i \in 1 .. n - 1 : i < k => a[i] = p[i]
      BY <2>1, <2>2, <2>9, <2>10
    <3>3. \A i \in 1 .. n - 1 : ~(i < k) => i - (k - 1) \in 1 .. n - k /\ a[i] = q[i - (k - 1)]
      BY <2>1, <2>2, <2>9, <2>10
    <3> QED BY <2>1, <2>2, <2>9, <3>1, <3>2, <3>3
  <2>12. \A i, j \in 1 .. n - 1 : a[i] = a[j] => i = j
    BY <2>2, <2>3, <2>11
  <2>13. ToSet(a) \subseteq ToSet(list) \ {c}
    <3>1. ASSUME NEW i \in 1 .. n - 1 PROVE \E j \in 1 .. n : j # k /\ a[i] = list[j]
      <4>1. CASE i < k
        BY <2>11, <4>1
      <4>2. CASE ~(i < k)
        BY <2>2, <2>11, <4>2
      <4> QED BY <4>1, <4>2
    <3>2. ToSet(list) = {list[j] : j \in 1 .. n}
      BY <2>1, ListFacts
    <3>3. ToSet(a) = {a[i] : i \in 1 .. n - 1}
      BY <2>11, ListFacts
    <3>4. ASSUME NEW i \in 1 .. n - 1 PROVE a[i] \in ToSet(list) /\ a[i] # c
      <4>1. PICK j \in 1 .. n : j # k /\ a[i] = list[j]
        BY <3>1
      <4> QED BY <2>2, <2>3, <3>2, <4>1
    <3> QED BY <3>3, <3>4
  <2>14. ToSet(list) \ {c} \subseteq ToSet(a)
    <3>0. ToSet(list) = {list[j] : j \in 1 .. n} /\ ToSet(a) = {a[i] : i \in 1 .. n - 1}
      BY <2>1, <2>11, ListFacts
    <3>1. ASSUME NEW j \in 1 .. n, j # k PROVE \E i \in 1 .. n - 1 : a[i] = list[j]
      <4>1. CASE j < k
        BY <2>2, <2>11, <4>1
      <4>2. CASE j > k
        <5>1. j - 1 \in 1 .. n - 1 /\ ~(j - 1 < k) /\ (j - 1) + 1 = j
          BY <2>2, <4>2
        <5> QED BY <2>11, <5>1
      <4> QED BY <3>1, <4>1, <4>2
    <3> QED BY <2>2, <3>0, <3>1
  <2>15. IsInjective(a)
    BY <2>11, <2>12, ListFacts
  <2> QED BY <2>7, <2>11, <2>13, <2>14, <2>15
<1>2. CASE ~\E i \in 1 .. Len(list) : list[i] = c
  BY <1>2, ListFacts DEF Unwatched, RemoveFirst
<1> QED BY <1>1, <1>2

\* g_slist_prepend.
LEMMA WatchedFacts ==
  ASSUME NEW C, NEW list \in Seq(C), NEW c \in C
  PROVE  /\ Watched(c, list) \in Seq(C) /\ ToSet(Watched(c, list)) = ToSet(list) \cup {c}
         /\ IsInjective(list) /\ c \notin ToSet(list) => IsInjective(Watched(c, list))
<1>1. PICK n \in Nat : n = Len(list)
  OBVIOUS
<1>2. PICK a : a = Watched(c, list)
  OBVIOUS
<1>3. /\ a \in Seq(C) /\ Len(a) = n + 1 /\ a[1] = c /\ \A i \in 2 .. n + 1 : a[i] = list[i - 1]
  BY <1>1, <1>2 DEF Watched
<1>4. \A i \in 1 .. n : a[i + 1] = list[i]
  BY <1>1, <1>3
<1>5. ToSet(a) = ToSet(list) \cup {c}
  <2>1. ToSet(a) \subseteq ToSet(list) \cup {c}
    <3>1. ASSUME NEW i \in 1 .. n + 1 PROVE a[i] = c \/ \E j \in 1 .. n : a[i] = list[j]
      <4>1. i = 1 \/ (i \in 2 .. n + 1 /\ i - 1 \in 1 .. n)
        BY <1>1
      <4> QED BY <1>3, <4>1
    <3> QED BY <1>1, <1>3, <3>1, ListFacts
  <2>2. c \in ToSet(a)
    <3>1. 1 \in 1 .. Len(a)
      BY <1>1, <1>3
    <3> QED BY <1>3, <3>1, ListFacts
  <2>3. \A i \in 1 .. n : list[i] \in ToSet(a)
    <3>1. \A i \in 1 .. n : i + 1 \in 1 .. Len(a)
      BY <1>1, <1>3
    <3>2. ToSet(a) = {a[i] : i \in 1 .. Len(a)}
      BY <1>3, ListFacts
    <3> QED BY <1>4, <3>1, <3>2
  <2> QED BY <1>1, <2>1, <2>2, <2>3, ListFacts
<1>6. ASSUME IsInjective(list), c \notin ToSet(list) PROVE IsInjective(a)
  <2>1. \A i, j \in 1 .. n : list[i] = list[j] => i = j
    BY <1>1, <1>6, ListFacts
  <2>2. \A i \in 1 .. n : list[i] # c
    BY <1>1, <1>6, ListFacts
  <2>3. ASSUME NEW i \in 1 .. n + 1, NEW j \in 1 .. n + 1, a[i] = a[j] PROVE i = j
    <3>1. i = 1 \/ (i \in 2 .. n + 1 /\ i - 1 \in 1 .. n)
      BY <1>1
    <3>2. j = 1 \/ (j \in 2 .. n + 1 /\ j - 1 \in 1 .. n)
      BY <1>1
    <3> QED BY <1>3, <2>1, <2>2, <2>3, <3>1, <3>2
  <2> QED BY <1>3, <2>3, ListFacts
<1> QED BY <1>2, <1>3, <1>5, <1>6

-----------------------------------------------------------------------------
(* Counting *)

\* The closures that own a reference on the wrapper of o.
Holders(o) == {c \in Closures : Valid(c) /\ o \in keeps[c]}

LEMMA Counts ==
  ASSUME NEW S \in SUBSET Closures
  PROVE  IsFiniteSet(S) /\ Cardinality(S) \in Nat /\ (Cardinality(S) = 0 <=> S = {})
BY FiniteAssumption, FS_Subset, FS_CardinalityType, FS_EmptySet

\* RefsOwned, by holders.
LEMMA OwnedHolders ==
  RefsOwned <=> \A o \in Objs : wref[o] = B(held[o]) + Cardinality(Holders(o)) /\ (wref[o] > 0 => wrap[o])
BY DEF RefsOwned, Holders

\* pyg_closure_invalidate releases no more than closures own.
LEMMA ReleasedHolders ==
  ASSUME ClosuresInv, NEW S \in SUBSET Closures, \A c \in S : Valid(c), NEW o \in Objs
  PROVE  /\ wref[o] - Released(S, o) = B(held[o]) + Cardinality(Holders(o) \ {c \in S : o \in keeps[c]})
         /\ wref[o] - Released(S, o) \in Nat /\ wref[o] - Released(S, o) <= wref[o]
         /\ (held[o] => wref[o] - Released(S, o) > 0)
<1> DEFINE R == {c \in S : o \in keeps[c]}
<1>1. Released(S, o) = Cardinality(R) /\ wref[o] = B(held[o]) + Cardinality(Holders(o))
  BY OwnedHolders DEF Released, ClosuresInv
<1>2. R \subseteq Holders(o)
  BY DEF Holders
<1>4. IsFiniteSet(Holders(o)) /\ Cardinality(Holders(o)) \in Nat
  BY Counts DEF Holders
<1>5. Holders(o) \cap R = R
  BY <1>2
<1>6. Cardinality(Holders(o) \ R) = Cardinality(Holders(o)) - Cardinality(R)
  <2> HIDE DEF R
  <2>1. Cardinality(Holders(o) \ R) = Cardinality(Holders(o)) - Cardinality(Holders(o) \cap R)
    BY <1>4, FS_Difference
  <2> QED BY <1>5, <2>1
<1>7. Cardinality(R) \in Nat /\ Cardinality(Holders(o) \ R) \in Nat
  BY Counts DEF Holders
<1>8. B(held[o]) \in Nat /\ (held[o] => B(held[o]) > 0)
  BY DEF B
<1> QED BY <1>1, <1>4, <1>6, <1>7, <1>8

\* Closures that are freed release exactly what they hold.
LEMMA FreedHolders ==
  ASSUME ClosuresInv, NEW S \in SUBSET Closures, \A c \in S : Valid(c), Freed(S),
         keeps' = [c \in Closures |-> IF c \in S THEN {} ELSE keeps[c]]
  PROVE  \A o \in Objs : /\ wref'[o] = B(held[o]) + Cardinality(Holders(o)') /\ wref'[o] \in Nat
                         /\ wref'[o] <= wref[o] /\ (held[o] => wref'[o] > 0)
<1> SUFFICES ASSUME NEW o \in Objs
             PROVE  /\ wref'[o] = B(held[o]) + Cardinality(Holders(o)') /\ wref'[o] \in Nat
                    /\ wref'[o] <= wref[o] /\ (held[o] => wref'[o] > 0)
  OBVIOUS
<1>1. wref'[o] = wref[o] - Released(S, o)
  BY DEF Freed
<1>2. Holders(o)' = Holders(o) \ {c \in S : o \in keeps[c]}
  BY DEF Holders, Valid, Freed
<1> QED BY <1>1, <1>2, ReleasedHolders

-----------------------------------------------------------------------------
(* What a step does *)

\* The closures with a valid list, in the words of TypeOK and ListExact.
LEMMA Listed ==
  ASSUME ClosuresInv, NEW o \in Objs
  PROVE  /\ closures[o] \in Seq(Closures) /\ IsInjective(closures[o])
         /\ ToSet(closures[o]) =
              {c \in Closures : cobj[c] = o /\ c # adding /\ \A t \in Threads : tcl[t] = c => tst[t] # "invalidate"}
         /\ ClosuresOf(o) = {c \in Closures : cobj[c] = o}
<1>1. closures[o] \in Seq(Closures) /\ IsInjective(closures[o])
  BY DEF ClosuresInv, TypeOK, ListExact
<1>2. ToSet(closures[o]) =
        {c \in Closures : cobj[c] = o /\ c # adding /\ \A t \in Threads : tcl[t] = c => tst[t] # "invalidate"}
  BY DEF ClosuresInv, ListExact
<1> QED BY <1>1, <1>2 DEF ClosuresOf

\* Closures that nobody uses are taken off the lists and freed.
LEMMA GoneStep ==
  ASSUME ClosuresInv, adding = NoClosure, NEW S \in SUBSET Closures, \A c \in S : Valid(c) /\ ~InUse(c),
         \A t \in Threads : tst[t] = "unwatch" => \A c \in S : cobj[c] # tobj[t],
         closures' \in [Objs -> Seq(Closures)],
         \A o \in Objs : IsInjective(closures'[o]) /\ ToSet(closures'[o]) = ToSet(closures[o]) \ S,
         cobj' = [c \in Closures |-> IF c \in S THEN NoObj ELSE cobj[c]],
         callback' = [c \in Closures |-> IF c \in S THEN NoFunc ELSE callback[c]],
         \A c \in Closures : keeps'[c] \subseteq keeps[c] /\ (c \in S => keeps'[c] = {}),
         conn' \subseteq conn, conn' \cap S = {}, UNCHANGED <<tcl, seen, adding, addseen>>,
         tobj' \in [Threads -> Objs \cup {NoObj}],
         \A t \in Threads : \/ tst'[t] = tst[t] /\ tobj'[t] = tobj[t]
                            \/ tst[t] = "leave" /\ tst'[t] = "idle" /\ tobj'[t] = NoObj
  PROVE  /\ ListExact' /\ Emissions' /\ Ending' /\ Reading' /\ Adding' /\ Vacant'
         /\ conn' \subseteq Closures
         /\ cobj' \in [Closures -> Objs \cup {NoObj}] /\ callback' \in [Closures -> Funcs \cup {NoFunc}]
<1> USE DEF ClosuresInv
<1>2. /\ cobj' \in [Closures -> Objs \cup {NoObj}] /\ callback' \in [Closures -> Funcs \cup {NoFunc}]
      /\ conn' \subseteq Closures
  BY DEF TypeOK
<1>3. \A o \in Objs : IsInjective(closures'[o]) /\ ToSet(closures'[o]) = ToSet(closures[o]) \ S
  OBVIOUS
<1>4. \A t \in Threads : tcl[t] # NoClosure => /\ tcl[t] \in Closures /\ tcl[t] \notin S
                                               /\ tst'[t] = tst[t] /\ tobj'[t] = tobj[t]
  BY DEF InUse, TypeOK, Emissions
<1>5. ListExact'
  <2>1. ASSUME NEW o \in Objs
        PROVE  ToSet(closures'[o]) =
                 {c \in Closures : cobj'[c] = o /\ c # adding' /\ \A t \in Threads : tcl'[t] = c => tst'[t] # "invalidate"}
    <3>1. ASSUME NEW c \in Closures
          PROVE  (\A t \in Threads : tcl'[t] = c => tst'[t] # "invalidate")
                   <=> (\A t \in Threads : tcl[t] = c => tst[t] # "invalidate")
      BY <1>4, SentinelAssumption
    <3>2. ASSUME NEW c \in Closures PROVE cobj'[c] = o <=> cobj[c] = o /\ c \notin S
      BY SentinelAssumption
    <3> QED BY <1>3, <3>1, <3>2, Listed
  <2> QED BY <1>3, <2>1 DEF ListExact
<1>6. Emissions'
  <2>1. ASSUME NEW t \in Threads
        PROVE  (/\ tst[t] = "idle" <=> tobj[t] = NoObj
                /\ tcl[t] # NoClosure <=> tst[t] \in {"marshal", "call", "unwatch", "invalidate"}
                /\ tcl[t] # NoClosure => cobj[tcl[t]] = tobj[t] /\ tcl[t] # adding)'
    BY <1>4 DEF Emissions
  <2> QED BY <2>1 DEF Emissions
<1>7. Ending'
  <2>1. ASSUME NEW t \in Threads, tst'[t] \in {"unwatch", "invalidate"}
        PROVE  tst[t] = tst'[t]
    BY <2>1
  <2> QED BY <2>1 DEF Ending
<1>8. Reading'
  <2>1. ASSUME NEW t \in Threads, tst'[t] = "unwatch"
        PROVE  /\ adding = NoClosure /\ \A u \in Threads \ {t} : tst'[u] # "unwatch"
               /\ Read(seen[t], closures'[tobj'[t]])
    <3>1. tst[t] = "unwatch" /\ tobj'[t] = tobj[t]
      BY <2>1
    <3>2. tcl[t] # NoClosure /\ tobj[t] \in Objs /\ tcl[t] \in Closures
      BY <3>1 DEF Emissions, TypeOK
    <3>3. \A c \in ToSet(closures[tobj[t]]) : c \notin S
      BY <3>1, <3>2, Listed
    <3>4. ToSet(closures'[tobj[t]]) = ToSet(closures[tobj[t]])
      BY <1>3, <3>2, <3>3
    <3> QED BY <3>1, <3>4 DEF Reading, Read
  <2> QED BY <2>1 DEF Reading
<1>9. Adding' /\ Vacant'
  BY <1>2 DEF Adding, Vacant, Valid, TypeOK
<1> QED BY <1>2, <1>5, <1>6, <1>7, <1>8, <1>9

LEMMA ListsWithout ==
  ASSUME ClosuresInv, NEW S, closures' = [o \in Objs |-> Without(closures[o], S)]
  PROVE  /\ closures' \in [Objs -> Seq(Closures)]
         /\ \A o \in Objs : IsInjective(closures'[o]) /\ ToSet(closures'[o]) = ToSet(closures[o]) \ S
BY Listed, WithoutFacts

\* The closures' part of the invariant, next to what happens to objects and wrappers.
Lists == ListExact /\ Emissions /\ Ending /\ Reading /\ Adding /\ Vacant
ListTypes ==
  /\ closures \in [Objs -> Seq(Closures)] /\ cobj \in [Closures -> Objs \cup {NoObj}]
  /\ callback \in [Closures -> Funcs \cup {NoFunc}] /\ keeps \in [Closures -> SUBSET Objs]
  /\ unbound \subseteq Closures /\ conn \subseteq Closures
ThreadTypes ==
  /\ tst \in [Threads -> {"idle", "marshal", "call", "unwatch", "invalidate", "leave"}]
  /\ tobj \in [Threads -> Objs \cup {NoObj}] /\ tcl \in [Threads -> Closures \cup {NoClosure}]
  /\ seen \in [Threads -> Seq(Closures)]
  /\ adding \in Closures \cup {NoClosure} /\ addseen \in Seq(Closures)
ObjTypes ==
  /\ native \in [Objs -> BOOLEAN] /\ wrap \in [Objs -> BOOLEAN]
  /\ held \in [Objs -> BOOLEAN] /\ dict \in [Objs -> BOOLEAN] /\ wref \in [Objs -> Nat]

LEMMA Parts ==
  ClosuresInv <=> Lists /\ ListTypes /\ ThreadTypes /\ ObjTypes /\ RefsOwned
BY DEF ClosuresInv, Lists, ListTypes, ThreadTypes, ObjTypes, TypeOK

LEMMA SameLists ==
  ASSUME ClosuresInv, UNCHANGED <<closures, cobj, callback, keeps, unbound, conn, tvars, avars>>
  PROVE  Lists' /\ ListTypes' /\ ThreadTypes' /\ \A o : Holders(o)' = Holders(o)
<1> USE DEF Lists, tvars, avars
<1>1. ListExact' /\ Emissions' /\ Ending'
  BY DEF ClosuresInv, ListExact, Emissions, Ending
<1>2. Reading' /\ Adding' /\ Vacant'
  BY DEF ClosuresInv, Reading, Adding, Vacant, Valid
<1>3. ListTypes' /\ ThreadTypes'
  BY DEF ClosuresInv, TypeOK, ListTypes, ThreadTypes
<1>4. \A o : Holders(o)' = Holders(o)
  BY DEF Holders, Valid
<1> QED BY <1>1, <1>2, <1>3, <1>4

\* g_closure_invalidate, or the last reference goes, of closures that nobody uses.
LEMMA FreedStep ==
  ASSUME ClosuresInv, adding = NoClosure, NEW S \in SUBSET Closures, \A c \in S : Valid(c) /\ ~InUse(c),
         \A t \in Threads : tst[t] = "unwatch" => \A c \in S : cobj[c] # tobj[t],
         closures' = [o \in Objs |-> Without(closures[o], S)], Freed(S),
         keeps' = [c \in Closures |-> IF c \in S THEN {} ELSE keeps[c]], unbound' = unbound \ S,
         conn' \subseteq conn, conn' \cap S = {}, UNCHANGED <<tcl, seen, adding, addseen>>,
         tobj' \in [Threads -> Objs \cup {NoObj}],
         \A t \in Threads : \/ tst'[t] = tst[t] /\ tobj'[t] = tobj[t]
                            \/ tst[t] = "leave" /\ tst'[t] = "idle" /\ tobj'[t] = NoObj
  PROVE  /\ Lists' /\ ListTypes' /\ wref' \in [Objs -> Nat]
         /\ \A o \in Objs : /\ wref'[o] = B(held[o]) + Cardinality(Holders(o)')
                            /\ wref'[o] <= wref[o] /\ (held[o] => wref'[o] > 0)
<1>1. /\ closures' \in [Objs -> Seq(Closures)]
      /\ \A o \in Objs : IsInjective(closures'[o]) /\ ToSet(closures'[o]) = ToSet(closures[o]) \ S
  BY ListsWithout
<1>2. \A c \in Closures : keeps'[c] \subseteq keeps[c] /\ (c \in S => keeps'[c] = {})
  OBVIOUS
<1>3. /\ cobj' = [c \in Closures |-> IF c \in S THEN NoObj ELSE cobj[c]]
      /\ callback' = [c \in Closures |-> IF c \in S THEN NoFunc ELSE callback[c]]
      /\ wref' = [o \in Objs |-> wref[o] - Released(S, o)]
  BY DEF Freed
<1>4. /\ ListExact' /\ Emissions' /\ Ending' /\ Reading' /\ Adding' /\ Vacant'
      /\ conn' \subseteq Closures
      /\ cobj' \in [Closures -> Objs \cup {NoObj}] /\ callback' \in [Closures -> Funcs \cup {NoFunc}]
  BY <1>1, <1>2, <1>3, GoneStep
<1>5. \A o \in Objs : /\ wref'[o] = B(held[o]) + Cardinality(Holders(o)') /\ wref'[o] \in Nat
                      /\ wref'[o] <= wref[o] /\ (held[o] => wref'[o] > 0)
  BY FreedHolders
<1>6. ListTypes'
  BY <1>1, <1>4 DEF ClosuresInv, TypeOK, ListTypes
<1>7. wref' \in [Objs -> Nat]
  BY <1>3, <1>5
<1> QED BY <1>4, <1>5, <1>6, <1>7 DEF Lists

\* A reference on o goes, and o with it if it was the last one.
LEMMA UnrefStep ==
  ASSUME ClosuresInv, GilFree, NEW o \in Objs, NEW last \in BOOLEAN, Unref(o, last),
         last => \A t \in Threads : tobj[t] = o => tst[t] = "leave",
         UNCHANGED <<tcl, seen, adding, addseen>>,
         tobj' \in [Threads -> Objs \cup {NoObj}],
         \A t \in Threads : \/ tst'[t] = tst[t] /\ tobj'[t] = tobj[t]
                            \/ tst[t] = "leave" /\ tst'[t] = "idle" /\ tobj'[t] = NoObj
  PROVE  /\ Lists' /\ ListTypes' /\ wref' \in [Objs -> Nat]
         /\ \A p \in Objs : /\ wref'[p] = B(held[p]) + Cardinality(Holders(p)')
                            /\ wref'[p] <= wref[p] /\ (held[p] => wref'[p] > 0)
<1>1. CASE last
  <2>1. PICK S \in SUBSET Closures : S = ClosuresOf(o) /\ S = {c \in Closures : cobj[c] = o}
    BY Listed
  <2>2. Invalidate(S)
    BY <1>1, <2>1 DEF Unref
  <2>3. \A c \in S : Valid(c) /\ cobj[c] = o
    BY <2>1, SentinelAssumption DEF Valid
  <2>4. ASSUME NEW c \in S PROVE ~InUse(c)
    <3>1. \A t \in Threads : tcl[t] = c => tcl[t] # NoClosure /\ tobj[t] = o
      BY <2>1, <2>3, <2>4, SentinelAssumption DEF ClosuresInv, Emissions
    <3> QED BY <1>1, <3>1 DEF InUse, ClosuresInv, Emissions
  <2>5. \A t \in Threads : tst[t] = "unwatch" => \A c \in S : cobj[c] # tobj[t]
    BY <1>1, <2>3
  <2>6. conn' = conn \ S
    BY <2>2 DEF Invalidate
  <2>7. conn' \subseteq conn /\ conn' \cap S = {}
    BY <2>6
  <2> QED BY <2>2, <2>3, <2>4, <2>5, <2>7, FreedStep DEF Invalidate, GilFree
<1>2. CASE ~last
  <2>1. UNCHANGED <<wref, closures, cobj, callback, keeps, unbound, conn>>
    BY <1>2 DEF Unref, cvars
  <2>2. /\ closures' \in [Objs -> Seq(Closures)]
        /\ \A p \in Objs : IsInjective(closures'[p]) /\ ToSet(closures'[p]) = ToSet(closures[p]) \ {}
    BY <2>1, Listed DEF ClosuresInv, TypeOK
  <2>3. /\ cobj' = [c \in Closures |-> IF c \in {} THEN NoObj ELSE cobj[c]]
        /\ callback' = [c \in Closures |-> IF c \in {} THEN NoFunc ELSE callback[c]]
        /\ conn' \subseteq conn /\ conn' \cap {} = {}
        /\ \A c \in Closures : keeps'[c] \subseteq keeps[c] /\ (c \in {} => keeps'[c] = {})
    BY <2>1 DEF ClosuresInv, TypeOK
  <2>4. /\ ListExact' /\ Emissions' /\ Ending' /\ Reading' /\ Adding' /\ Vacant'
    BY <2>2, <2>3, GoneStep DEF GilFree
  <2>5. ListTypes' /\ wref' \in [Objs -> Nat]
    BY <2>1 DEF ClosuresInv, TypeOK, ListTypes
  <2>6. \A p : Holders(p)' = Holders(p)
    BY <2>1 DEF Holders, Valid
  <2>7. \A p \in Objs : /\ wref'[p] = B(held[p]) + Cardinality(Holders(p)')
                        /\ wref'[p] <= wref[p] /\ (held[p] => wref'[p] > 0)
    <3> SUFFICES ASSUME NEW p \in Objs
                 PROVE  /\ wref'[p] = B(held[p]) + Cardinality(Holders(p)')
                        /\ wref'[p] <= wref[p] /\ (held[p] => wref'[p] > 0)
      OBVIOUS
    <3>1. wref[p] = B(held[p]) + Cardinality(Holders(p)) /\ wref[p] \in Nat
      BY OwnedHolders DEF ClosuresInv, TypeOK
    <3>2. Cardinality(Holders(p)) \in Nat
      BY Counts DEF Holders
    <3> QED BY <2>1, <2>6, <3>1, <3>2 DEF B
  <2> QED BY <2>4, <2>5, <2>7 DEF Lists
<1> QED BY <1>1, <1>2

-----------------------------------------------------------------------------
(* Objects and wrappers *)

LEMMA NewStep ==
  ASSUME ClosuresInv, NEW o \in Objs, NEW py \in BOOLEAN, New(o, py)
  PROVE  ClosuresInv'
<1>1. Lists' /\ ListTypes' /\ ThreadTypes' /\ \A p : Holders(p)' = Holders(p)
  BY SameLists DEF New
<1>2. ObjTypes'
  BY DEF New, ClosuresInv, TypeOK, ObjTypes, B
<1>3. wref[o] = 0 /\ ~held[o] /\ Cardinality(Holders(o)) = 0
  <2>1. wref[o] = B(held[o]) + Cardinality(Holders(o)) /\ wref[o] \in Nat /\ ~(wref[o] > 0)
    BY OwnedHolders DEF ClosuresInv, TypeOK, New, Exists
  <2>2. Cardinality(Holders(o)) \in Nat
    BY Counts DEF Holders
  <2> QED BY <2>1, <2>2 DEF B
<1>4. RefsOwned'
  <2>1. ASSUME NEW p \in Objs
        PROVE  wref'[p] = B(held'[p]) + Cardinality(Holders(p)') /\ (wref'[p] > 0 => wrap'[p])
    <3>1. CASE p = o
      <4>1. wref'[o] = B(py) /\ held'[o] = py /\ wrap'[o] = py
        BY DEF New, ClosuresInv, TypeOK
      <4> QED BY <1>1, <1>3, <3>1, <4>1 DEF B
    <3>2. CASE p # o
      <4>1. wref'[p] = wref[p] /\ held'[p] = held[p] /\ wrap'[p] = wrap[p]
        BY <3>2 DEF New, ClosuresInv, TypeOK
      <4>2. wref[p] = B(held[p]) + Cardinality(Holders(p)) /\ (wref[p] > 0 => wrap[p])
        BY OwnedHolders DEF ClosuresInv
      <4> QED BY <1>1, <4>1, <4>2
    <3> QED BY <3>1, <3>2
  <2> QED BY <2>1 DEF RefsOwned, Holders
<1> QED BY <1>1, <1>2, <1>4, Parts DEF ClosuresInv, TypeOK, Lists, ListTypes, ThreadTypes, ObjTypes

\* A variable comes to refer to the wrapper of o, or no longer does.
LEMMA VariableStep ==
  ASSUME ClosuresInv, NEW o \in Objs, GetWrapper(o) \/ Drop(o)
  PROVE  ClosuresInv'
<1>1. Lists' /\ ListTypes' /\ ThreadTypes' /\ \A p : Holders(p)' = Holders(p)
  BY SameLists DEF GetWrapper, Drop
<1>2. wref[o] = B(held[o]) + Cardinality(Holders(o)) /\ (wref[o] > 0 => wrap[o]) /\ wref[o] \in Nat
      /\ Cardinality(Holders(o)) \in Nat /\ held[o] \in BOOLEAN
  BY OwnedHolders, Counts DEF ClosuresInv, TypeOK, Holders
<1>3. /\ wref'[o] = B(held'[o]) + Cardinality(Holders(o)) /\ (wref'[o] > 0 => wrap'[o]) /\ wref'[o] \in Nat
      /\ wref' = [wref EXCEPT ![o] = wref'[o]]
  <2>1. CASE GetWrapper(o)
    <3>1. ~held[o] /\ held'[o] = TRUE /\ wrap'[o] = TRUE /\ wref' = [wref EXCEPT ![o] = wref[o] + 1]
      BY <2>1 DEF GetWrapper, ClosuresInv, TypeOK
    <3>2. wref'[o] = wref[o] + 1
      BY <3>1 DEF ClosuresInv, TypeOK
    <3>3. B(held[o]) = 0 /\ B(held'[o]) = 1
      BY <3>1 DEF B
    <3>4. wref'[o] = B(held'[o]) + Cardinality(Holders(o)) /\ wref'[o] \in Nat
      BY <1>2, <3>2, <3>3
    <3>5. wref' = [wref EXCEPT ![o] = wref'[o]]
      BY <3>1, <3>2
    <3> QED BY <3>1, <3>4, <3>5
  <2>2. CASE Drop(o)
    <3>1. held[o] = TRUE /\ held'[o] = FALSE /\ wrap'[o] = wrap[o] /\ wref' = [wref EXCEPT ![o] = wref[o] - 1]
      BY <1>2, <2>2 DEF Drop, ClosuresInv, TypeOK
    <3>2. wref'[o] = wref[o] - 1
      BY <3>1 DEF ClosuresInv, TypeOK
    <3>3. B(held[o]) = 1 /\ B(held'[o]) = 0
      BY <3>1 DEF B
    <3>4. wref'[o] = B(held'[o]) + Cardinality(Holders(o)) /\ wref'[o] \in Nat /\ wref[o] > 0
      BY <1>2, <3>2, <3>3
    <3>5. wref' = [wref EXCEPT ![o] = wref'[o]]
      BY <3>1, <3>2
    <3>6. wrap[o]
      BY <1>2, <3>4
    <3> QED BY <3>1, <3>4, <3>5, <3>6
  <2> QED BY <2>1, <2>2
<1>4. ObjTypes'
  <2>1. wref' \in [Objs -> Nat]
    BY <1>3 DEF ClosuresInv, TypeOK
  <2> QED BY <2>1 DEF GetWrapper, Drop, ClosuresInv, TypeOK, ObjTypes
<1>5. RefsOwned'
  <2>1. ASSUME NEW p \in Objs
        PROVE  wref'[p] = B(held'[p]) + Cardinality(Holders(p)') /\ (wref'[p] > 0 => wrap'[p])
    <3>1. CASE p = o
      BY <1>1, <1>3, <3>1
    <3>2. CASE p # o
      <4>1. wref'[p] = wref[p] /\ held'[p] = held[p] /\ wrap'[p] = wrap[p]
        BY <3>2 DEF GetWrapper, Drop, ClosuresInv, TypeOK
      <4>2. wref[p] = B(held[p]) + Cardinality(Holders(p)) /\ (wref[p] > 0 => wrap[p])
        BY OwnedHolders DEF ClosuresInv
      <4> QED BY <1>1, <4>1, <4>2
    <3> QED BY <3>1, <3>2
  <2> QED BY <2>1 DEF RefsOwned, Holders
<1> QED BY <1>1, <1>4, <1>5 DEF ClosuresInv, TypeOK, Lists, ListTypes, ThreadTypes, ObjTypes

LEMMA QuietStep ==
  ASSUME ClosuresInv, UNCHANGED <<closures, cobj, callback, keeps, unbound, conn, tvars, avars, wref, held, wrap>>,
         ObjTypes'
  PROVE  ClosuresInv'
<1>1. Lists' /\ ListTypes' /\ ThreadTypes' /\ \A p : Holders(p)' = Holders(p)
  BY SameLists
<1>2. RefsOwned'
  BY <1>1, OwnedHolders DEF ClosuresInv, RefsOwned, Holders
<1> QED BY <1>1, <1>2 DEF ClosuresInv, TypeOK, Lists, ListTypes, ThreadTypes, ObjTypes

LEMMA SetAttrStep ==
  ASSUME ClosuresInv, NEW o \in Objs, SetAttr(o) \/ NativeRef(o)
  PROVE  ClosuresInv'
<1>1. ObjTypes'
  BY DEF SetAttr, NativeRef, ClosuresInv, TypeOK, ObjTypes, cvars
<1> QED BY <1>1, QuietStep DEF SetAttr, NativeRef, cvars

\* The wrapper goes, or native code's reference, and perhaps the object.
LEMMA DeallocStep ==
  ASSUME ClosuresInv, NEW o \in Objs, Dealloc(o) \/ NativeUnref(o)
  PROVE  ClosuresInv'
<1>1. UNCHANGED <<held, tvars, avars>> /\ GilFree
  BY DEF Dealloc, NativeUnref
<1>2. /\ tobj' \in [Threads -> Objs \cup {NoObj}]
      /\ \A t \in Threads : tst'[t] = tst[t] /\ tobj'[t] = tobj[t]
  BY <1>1 DEF tvars, ClosuresInv, TypeOK
<1>3. PICK last \in BOOLEAN : Unref(o, last) /\ (last => \A t \in Threads : tobj[t] # o)
  <2>1. CASE Dealloc(o)
    BY <2>1 DEF Dealloc, Shared, Emitting
  <2>2. CASE NativeUnref(o)
    BY <2>2 DEF NativeUnref, Emitting
  <2> QED BY <2>1, <2>2
<1>4. /\ Lists' /\ ListTypes' /\ wref' \in [Objs -> Nat]
      /\ \A p \in Objs : /\ wref'[p] = B(held[p]) + Cardinality(Holders(p)')
                         /\ wref'[p] <= wref[p] /\ (held[p] => wref'[p] > 0)
  BY <1>1, <1>2, <1>3, UnrefStep DEF tvars, avars
<1>5. \A p \in Objs : wref'[p] > 0 => wrap'[p]
  <2>1. ASSUME NEW p \in Objs, wref'[p] > 0 PROVE wrap'[p]
    <3>1. wref[p] > 0 /\ wrap[p]
      BY <1>4, <2>1, OwnedHolders DEF ClosuresInv, TypeOK
    <3>2. CASE Dealloc(o)
      <4>1. p # o
        BY <3>1, <3>2 DEF Dealloc, RefCount, B, ClosuresInv, TypeOK
      <4> QED BY <3>1, <3>2, <4>1 DEF Dealloc, ClosuresInv, TypeOK
    <3>3. CASE NativeUnref(o)
      BY <3>1, <3>3 DEF NativeUnref
    <3> QED BY <3>2, <3>3
  <2> QED BY <2>1
<1>6. ObjTypes'
  BY <1>4 DEF Dealloc, NativeUnref, ClosuresInv, TypeOK, ObjTypes
<1>7. ThreadTypes'
  BY <1>1 DEF tvars, avars, ClosuresInv, TypeOK, ThreadTypes
<1>8. RefsOwned'
  BY <1>1, <1>4, <1>5 DEF RefsOwned, Holders
<1> QED BY <1>4, <1>6, <1>7, <1>8 DEF ClosuresInv, TypeOK, Lists, ListTypes, ThreadTypes, ObjTypes

-----------------------------------------------------------------------------
(* Handlers *)

\* A new closure takes its references, and the list has been read.
LEMMA BeginConnectStep ==
  ASSUME ClosuresInv, ~Overlap, NEW o \in Objs, NEW c \in Closures, NEW f \in Funcs, NEW K \in SUBSET Objs,
         BeginConnect(o, c, f, K)
  PROVE  ClosuresInv'
<1> USE DEF ClosuresInv
<1>1. /\ adding = NoClosure /\ c # NoClosure /\ cobj[c] = NoObj /\ \A p \in K : held[p]
      /\ \A t \in Threads : tst[t] # "unwatch"
      /\ cobj' = [cobj EXCEPT ![c] = o] /\ callback' = [callback EXCEPT ![c] = f]
      /\ keeps' = [keeps EXCEPT ![c] = K] /\ wref' = [p \in Objs |-> wref[p] + B(p \in K)]
      /\ adding' = c /\ addseen' = closures[o]
      /\ UNCHANGED <<native, wrap, held, dict, closures, unbound, conn, tst, tobj, tcl, seen>>
  BY SentinelAssumption DEF BeginConnect, GilFree, Alone, Valid, ovars, tvars
<1>2. /\ cobj'[c] = o /\ callback'[c] = f /\ keeps'[c] = K /\ o # NoObj /\ f # NoFunc
      /\ \A d \in Closures : d # c => cobj'[d] = cobj[d] /\ callback'[d] = callback[d] /\ keeps'[d] = keeps[d]
  BY <1>1, SentinelAssumption DEF TypeOK
<1>3. \A t \in Threads : tcl[t] # c
  <2>1. ASSUME NEW t \in Threads, tcl[t] = c PROVE FALSE
    <3>1. tobj[t] = NoObj /\ tst[t] = "idle"
      BY <1>1, <2>1 DEF Emissions
    <3> QED BY <1>1, <2>1, <3>1 DEF Emissions
  <2> QED BY <2>1
<1>4. c \notin conn /\ keeps[c] = {}
  BY <1>1 DEF Vacant, Valid
<1>5. ListTypes' /\ ThreadTypes'
  BY <1>1 DEF TypeOK, ListTypes, ThreadTypes
<1>6. ListExact'
  <2>1. ASSUME NEW p \in Objs
        PROVE  ToSet(closures[p]) =
                 {d \in Closures : cobj'[d] = p /\ d # adding' /\ \A t \in Threads : tcl[t] = d => tst[t] # "invalidate"}
    <3>1. \A d \in Closures : d # c => (cobj'[d] = p /\ d # adding' <=> cobj[d] = p /\ d # adding)
      BY <1>1, <1>2, SentinelAssumption
    <3>2. c \notin ToSet(closures[p])
      BY <1>1, Listed, SentinelAssumption
    <3>3. adding' = c /\ \A d \in Closures : d \in ToSet(closures[p]) <=>
            cobj[d] = p /\ d # adding /\ \A t \in Threads : tcl[t] = d => tst[t] # "invalidate"
      BY <1>1, Listed
    <3>4. ASSUME NEW d \in Closures
          PROVE  d \in ToSet(closures[p]) <=>
                   cobj'[d] = p /\ d # adding' /\ \A t \in Threads : tcl[t] = d => tst[t] # "invalidate"
      <4>1. CASE d = c
        BY <3>2, <3>3, <4>1
      <4>2. CASE d # c
        BY <3>1, <3>3, <4>2
      <4> QED BY <4>1, <4>2
    <3>5. ToSet(closures[p]) \subseteq Closures
      BY Listed
    <3> QED BY <3>4, <3>5
  <2> QED BY <1>1, <2>1, Listed DEF ListExact
<1>7. Emissions' /\ Ending' /\ Reading'
  <2>1. Emissions'
    <3>1. ASSUME NEW t \in Threads
          PROVE  (/\ tst[t] = "idle" <=> tobj[t] = NoObj
                  /\ tcl[t] # NoClosure <=> tst[t] \in {"marshal", "call", "unwatch", "invalidate"}
                  /\ tcl[t] # NoClosure => cobj[tcl[t]] = tobj[t] /\ tcl[t] # adding)'
      BY <1>1, <1>2, <1>3 DEF Emissions, TypeOK
    <3> QED BY <3>1 DEF Emissions
  <2> QED BY <1>1, <2>1 DEF Ending, Reading
<1>8. Adding'
  BY <1>1, <1>2, <1>4, Listed DEF Adding, Valid, Read
<1>9. Vacant'
  BY <1>1, <1>2, <1>4 DEF Vacant, Valid
<1>10. ASSUME NEW p \in Objs
       PROVE  wref'[p] = B(held[p]) + Cardinality(Holders(p)') /\ (wref'[p] > 0 => wrap[p]) /\ wref'[p] \in Nat
  <2>1. wref[p] = B(held[p]) + Cardinality(Holders(p)) /\ (wref[p] > 0 => wrap[p]) /\ wref[p] \in Nat
        /\ Cardinality(Holders(p)) \in Nat /\ B(held[p]) \in Nat /\ (held[p] => B(held[p]) = 1)
        /\ IsFiniteSet(Holders(p))
    BY OwnedHolders, Counts DEF TypeOK, Holders, B
  <2>2. c \notin Holders(p)
    BY <1>1 DEF Holders, Valid
  <2>3. CASE p \in K
    <3>1. Holders(p)' = Holders(p) \cup {c}
      BY <1>2, <2>3 DEF Holders, Valid
    <3>2. Cardinality(Holders(p) \cup {c}) = Cardinality(Holders(p)) + 1
      BY <2>1, <2>2, FS_AddElement
    <3>3. PICK n \in Nat, h \in Nat : n = wref[p] /\ h = Cardinality(Holders(p))
      BY <2>1
    <3>4. n = 1 + h /\ B(held[p]) = 1 /\ wrap[p]
      BY <1>1, <2>1, <2>3, <3>3
    <3>5. wref'[p] = n + 1 /\ Cardinality(Holders(p)') = h + 1
      BY <1>1, <2>3, <3>1, <3>2, <3>3 DEF B
    <3>6. n + 1 = 1 + (h + 1) /\ n + 1 \in Nat
      BY <3>4
    <3> QED BY <3>4, <3>5, <3>6
  <2>4. CASE p \notin K
    <3>1. Holders(p)' = Holders(p)
      BY <1>2, <2>2, <2>4 DEF Holders, Valid
    <3>2. wref'[p] = wref[p]
      BY <1>1, <2>1, <2>4 DEF B
    <3> QED BY <2>1, <3>1, <3>2
  <2> QED BY <2>3, <2>4
<1>11. RefsOwned' /\ ObjTypes'
  <2>1. wref' \in [Objs -> Nat]
    BY <1>1, <1>10
  <2> QED BY <1>1, <1>10, <2>1 DEF RefsOwned, Holders, ObjTypes, TypeOK
<1> QED BY <1>5, <1>6, <1>7, <1>8, <1>9, <1>11 DEF TypeOK, ListTypes, ThreadTypes, ObjTypes

\* The new closure is put on the list that has been read.
LEMMA EndConnectStep ==
  ASSUME ClosuresInv, EndConnect
  PROVE  ClosuresInv'
<1> USE DEF ClosuresInv
<1>1. PICK c, o : c = adding /\ o = cobj[c]
  OBVIOUS
<1>2. /\ c \in Closures /\ c # NoClosure /\ o \in Objs /\ c \notin conn
      /\ Read(addseen, closures[o]) /\ addseen \in Seq(Closures)
      /\ \A t \in Threads : tst[t] # "unwatch" /\ tcl[t] # c
  BY <1>1 DEF EndConnect, TypeOK, Adding, Valid, Reading, Emissions
<1>3. /\ closures' = [closures EXCEPT ![o] = Watched(c, addseen)]
      /\ conn' = conn \cup {c} /\ adding' = NoClosure /\ addseen' = <<>>
      /\ UNCHANGED <<native, wrap, held, dict, wref, cobj, callback, keeps, unbound, tst, tobj, tcl, seen>>
  BY <1>1 DEF EndConnect, ovars, tvars
<1>4. /\ Watched(c, addseen) \in Seq(Closures) /\ IsInjective(Watched(c, addseen))
      /\ ToSet(Watched(c, addseen)) = ToSet(closures[o]) \cup {c}
  BY <1>1, <1>2, Listed, WatchedFacts DEF Read
<1>5. ListTypes' /\ ThreadTypes' /\ ObjTypes'
  <2>1. <<>> \in Seq(Closures)
    BY EmptyList
  <2> QED BY <1>2, <1>3, <1>4, <2>1 DEF TypeOK, ListTypes, ThreadTypes, ObjTypes
<1>6. ListExact'
  <2>1. ASSUME NEW p \in Objs
        PROVE  /\ IsInjective(closures'[p])
               /\ ToSet(closures'[p]) =
                    {d \in Closures : cobj[d] = p /\ d # adding' /\ \A t \in Threads : tcl[t] = d => tst[t] # "invalidate"}
    <3>1. \A d \in Closures : d # adding'
      BY <1>3, SentinelAssumption
    <3>2. CASE p = o
      <4>1. closures'[p] = Watched(c, addseen)
        BY <1>3, <3>2 DEF TypeOK
      <4> QED BY <1>1, <1>2, <1>4, <3>1, <3>2, <4>1, Listed
    <3>3. CASE p # o
      <4>1. closures'[p] = closures[p]
        BY <1>3, <3>3 DEF TypeOK
      <4> QED BY <1>1, <3>1, <3>3, <4>1, Listed
    <3> QED BY <3>2, <3>3
  <2> QED BY <1>3, <2>1 DEF ListExact
<1>7. Emissions' /\ Ending'
  <2>1. Emissions'
    BY <1>3 DEF Emissions
  <2> QED BY <1>2, <1>3, <2>1 DEF Ending
<1>8. Reading' /\ Adding' /\ Vacant'
  BY <1>1, <1>2, <1>3 DEF Reading, Adding, Vacant, Valid, EndConnect
<1>9. RefsOwned'
  BY <1>3 DEF RefsOwned, Valid
<1> QED BY <1>5, <1>6, <1>7, <1>8, <1>9 DEF TypeOK, ListTypes, ThreadTypes, ObjTypes

\* Handlers are disconnected; their closures go unless emissions use them.
LEMMA DisconnectAllStep ==
  ASSUME ClosuresInv, ~Overlap, GilFree, Alone, NEW S \in SUBSET Closures, \A c \in S : c \in conn,
         DisconnectAll(S), UNCHANGED <<ovars, tvars, avars>>
  PROVE  ClosuresInv'
<1> USE DEF ClosuresInv
<1>1. PICK gone \in SUBSET Closures : gone = {c \in S : ~InUse(c)}
  OBVIOUS
<1>2. \A c \in gone : Valid(c) /\ ~InUse(c)
  BY <1>1 DEF Vacant
<1>3. /\ closures' = [o \in Objs |-> Without(closures[o], gone)] /\ Freed(gone)
      /\ keeps' = [c \in Closures |-> IF c \in gone THEN {} ELSE keeps[c]]
      /\ unbound' = unbound \ gone /\ conn' = conn \ S
  BY <1>1 DEF DisconnectAll
<1>4. conn' \subseteq conn /\ conn' \cap gone = {}
  BY <1>1, <1>3
<1>5. UNCHANGED <<native, wrap, held, dict, tst, tobj, tcl, seen, adding, addseen>>
  BY DEF ovars, tvars, avars
<1>6. /\ tobj' \in [Threads -> Objs \cup {NoObj}]
      /\ \A t \in Threads : tst'[t] = tst[t] /\ tobj'[t] = tobj[t] /\ tst[t] # "unwatch"
  BY <1>5 DEF TypeOK, Alone
<1>7. /\ Lists' /\ ListTypes' /\ wref' \in [Objs -> Nat]
      /\ \A o \in Objs : /\ wref'[o] = B(held[o]) + Cardinality(Holders(o)')
                         /\ wref'[o] <= wref[o] /\ (held[o] => wref'[o] > 0)
  <2>1. adding = NoClosure /\ UNCHANGED <<tcl, seen, adding, addseen>>
    BY <1>5 DEF GilFree
  <2> QED BY <1>2, <1>3, <1>4, <1>6, <2>1, FreedStep
<1>8. \A o \in Objs : wref'[o] > 0 => wrap[o]
  BY <1>7, OwnedHolders DEF TypeOK
<1>9. ObjTypes' /\ ThreadTypes'
  BY <1>5, <1>7 DEF TypeOK, ObjTypes, ThreadTypes
<1>10. RefsOwned'
  BY <1>5, <1>7, <1>8 DEF RefsOwned, Holders
<1> QED BY <1>7, <1>9, <1>10 DEF TypeOK, Lists, ListTypes, ThreadTypes, ObjTypes

LEMMA DisconnectStep ==
  ASSUME ClosuresInv, ~Overlap,
         \/ \E c \in Closures : Disconnect(c)
         \/ \E o \in Objs, f \in Funcs : DisconnectByFunc(o, f)
         \/ \E o \in Objs : Dispose(o)
  PROVE  ClosuresInv'
<1>1. \A c \in conn : c \in Closures
  BY DEF ClosuresInv, TypeOK
<1>2. ASSUME NEW c \in Closures, Disconnect(c) PROVE ClosuresInv'
  <2>1. PICK S \in SUBSET Closures : S = {c}
    BY <1>2
  <2> QED BY <1>2, <2>1, DisconnectAllStep DEF Disconnect
<1>3. ASSUME NEW o \in Objs, NEW f \in Funcs, DisconnectByFunc(o, f) PROVE ClosuresInv'
  <2>1. PICK S \in SUBSET Closures : S = {FromPyfunc(o, f)}
    BY <1>1, <1>3 DEF DisconnectByFunc
  <2> QED BY <1>3, <2>1, DisconnectAllStep DEF DisconnectByFunc
<1>4. ASSUME NEW o \in Objs, Dispose(o) PROVE ClosuresInv'
  <2>1. PICK S \in SUBSET Closures : S = {c \in conn : cobj[c] = o}
    BY <1>1
  <2> QED BY <1>4, <2>1, DisconnectAllStep DEF Dispose
<1> QED BY <1>2, <1>3, <1>4

-----------------------------------------------------------------------------
(* Emissions *)

\* A step that only concerns what threads do.
LEMMA PassStep ==
  ASSUME ClosuresInv, UNCHANGED <<ovars, cvars, avars>>,
         ThreadTypes', Emissions', Ending', Reading',
         \A c \in Closures : (\A t \in Threads : tcl'[t] = c => tst'[t] # "invalidate")
                               <=> (\A t \in Threads : tcl[t] = c => tst[t] # "invalidate")
  PROVE  ClosuresInv'
<1> USE DEF ClosuresInv
<1>1. UNCHANGED <<native, wrap, held, dict, wref, closures, cobj, callback, keeps, unbound, conn, adding, addseen>>
  BY DEF ovars, cvars, avars
<1>2. ListExact'
  <2>1. ASSUME NEW o \in Objs
        PROVE  ToSet(closures'[o]) =
                 {c \in Closures : cobj'[c] = o /\ c # adding' /\ \A t \in Threads : tcl'[t] = c => tst'[t] # "invalidate"}
    BY <1>1, Listed
  <2>2. \A o \in Objs : IsInjective(closures'[o])
    BY <1>1, Listed
  <2> QED BY <2>1, <2>2 DEF ListExact
<1>3. RefsOwned' /\ Adding' /\ Vacant'
  BY <1>1 DEF RefsOwned, Adding, Vacant, Valid
<1>4. ListTypes' /\ ObjTypes'
  BY <1>1 DEF TypeOK, ListTypes, ObjTypes
<1> QED BY <1>2, <1>3, <1>4 DEF TypeOK, ListTypes, ThreadTypes, ObjTypes

LEMMA EmitStep ==
  ASSUME ClosuresInv, NEW t \in Threads, NEW o \in Objs, NEW c \in Closures, Emit(t, o, c)
  PROVE  ClosuresInv'
<1> USE DEF ClosuresInv
<1>1. /\ UNCHANGED <<ovars, cvars, avars>> /\ tst[t] = "idle" /\ c \in conn /\ cobj[c] = o
      /\ tst' = [tst EXCEPT ![t] = "marshal"] /\ tobj' = [tobj EXCEPT ![t] = o]
      /\ tcl' = [tcl EXCEPT ![t] = c] /\ seen' = seen
      /\ UNCHANGED <<closures, cobj, conn, adding>>
  BY DEF Emit, cvars, avars
<1>2. /\ tst'[t] = "marshal" /\ tobj'[t] = o /\ tcl'[t] = c /\ c # NoClosure /\ o # NoObj /\ c # adding
      /\ \A u \in Threads \ {t} : tst'[u] = tst[u] /\ tobj'[u] = tobj[u] /\ tcl'[u] = tcl[u]
  BY <1>1, SentinelAssumption DEF TypeOK, Adding
<1>3. ThreadTypes'
  BY <1>1 DEF avars, TypeOK, ThreadTypes
<1>4. Emissions'
  <2>1. ASSUME NEW u \in Threads
        PROVE  (/\ tst[u] = "idle" <=> tobj[u] = NoObj
                /\ tcl[u] # NoClosure <=> tst[u] \in {"marshal", "call", "unwatch", "invalidate"}
                /\ tcl[u] # NoClosure => cobj[tcl[u]] = tobj[u] /\ tcl[u] # adding)'
    <3>1. CASE u = t
      BY <1>1, <1>2, <3>1
    <3>2. CASE u # t
      BY <1>1, <1>2, <3>2 DEF Emissions
    <3> QED BY <3>1, <3>2
  <2> QED BY <2>1 DEF Emissions
<1>5. Ending'
  <2>1. ASSUME NEW u \in Threads, tst'[u] \in {"unwatch", "invalidate"}
        PROVE  tcl'[u] \notin conn' /\ \A w \in Threads \ {u} : tcl'[w] # tcl'[u]
    <3>1. u # t /\ tst[u] \in {"unwatch", "invalidate"} /\ tcl'[u] = tcl[u]
      BY <1>2, <2>1
    <3>2. tcl[u] \notin conn /\ \A w \in Threads \ {u} : tcl[w] # tcl[u]
      BY <3>1 DEF Ending
    <3> QED BY <1>1, <1>2, <3>1, <3>2
  <2> QED BY <2>1 DEF Ending
<1>6. Reading'
  BY <1>1, <1>2 DEF Reading
<1>7. ASSUME NEW d \in Closures
      PROVE  (\A u \in Threads : tcl'[u] = d => tst'[u] # "invalidate")
               <=> (\A u \in Threads : tcl[u] = d => tst[u] # "invalidate")
  BY <1>1, <1>2
<1> QED BY <1>1, <1>3, <1>4, <1>5, <1>6, <1>7, PassStep

LEMMA MarshalStep ==
  ASSUME ClosuresInv, NEW t \in Threads, Marshal(t)
  PROVE  ClosuresInv'
<1> USE DEF ClosuresInv
<1>1. /\ UNCHANGED <<ovars, cvars, avars>> /\ tst[t] = "marshal" /\ tst' = [tst EXCEPT ![t] = "call"]
      /\ UNCHANGED <<closures, cobj, conn, adding, tobj, tcl, seen>>
  BY DEF Marshal, cvars, avars
<1>2. tst'[t] = "call" /\ \A u \in Threads \ {t} : tst'[u] = tst[u]
  BY <1>1 DEF TypeOK
<1>3. ThreadTypes'
  BY <1>1 DEF avars, TypeOK, ThreadTypes
<1>4. Emissions'
  <2>1. ASSUME NEW u \in Threads
        PROVE  (/\ tst[u] = "idle" <=> tobj[u] = NoObj
                /\ tcl[u] # NoClosure <=> tst[u] \in {"marshal", "call", "unwatch", "invalidate"}
                /\ tcl[u] # NoClosure => cobj[tcl[u]] = tobj[u] /\ tcl[u] # adding)'
    <3>1. CASE u = t
      BY <1>1, <1>2, <3>1 DEF Emissions
    <3>2. CASE u # t
      BY <1>1, <1>2, <3>2 DEF Emissions
    <3> QED BY <3>1, <3>2
  <2> QED BY <2>1 DEF Emissions
<1>5. Ending' /\ Reading'
  BY <1>1, <1>2 DEF Ending, Reading
<1>6. ASSUME NEW d \in Closures
      PROVE  (\A u \in Threads : tcl'[u] = d => tst'[u] # "invalidate")
               <=> (\A u \in Threads : tcl[u] = d => tst[u] # "invalidate")
  BY <1>1, <1>2
<1> QED BY <1>1, <1>3, <1>4, <1>5, <1>6, PassStep

LEMMA ReturnStep ==
  ASSUME ClosuresInv, ~Overlap, NEW t \in Threads, Return(t)
  PROVE  ClosuresInv'
<1> USE DEF ClosuresInv
<1>1. PICK c, last : c = tcl[t] /\ last = (c \notin conn /\ \A u \in Threads \ {t} : tcl[u] # c)
  OBVIOUS
<1>2. /\ UNCHANGED <<ovars, cvars, avars>> /\ tst[t] = "call"
      /\ tst' = [tst EXCEPT ![t] = IF last THEN "unwatch" ELSE "leave"]
      /\ tcl' = [tcl EXCEPT ![t] = IF last THEN c ELSE NoClosure]
      /\ seen' = [seen EXCEPT ![t] = IF last THEN closures[tobj[t]] ELSE <<>>]
      /\ UNCHANGED <<closures, cobj, conn, adding, tobj>>
  BY <1>1 DEF Return, cvars, avars
<1>3. /\ \A u \in Threads \ {t} : tst'[u] = tst[u] /\ tcl'[u] = tcl[u] /\ seen'[u] = seen[u]
      /\ c # NoClosure /\ c \in Closures /\ tobj[t] \in Objs /\ cobj[c] = tobj[t] /\ c # adding
  BY <1>1, <1>2 DEF TypeOK, Emissions
<1>4. CASE last
  <2>0. adding = NoClosure /\ \A u \in Threads : tst[u] # "unwatch"
    BY <1>1, <1>4 DEF Return, GilFree, Alone
  <2>1. tst'[t] = "unwatch" /\ tcl' = tcl /\ seen'[t] = closures[tobj[t]]
    BY <1>1, <1>2, <1>4 DEF TypeOK
  <2>2. ThreadTypes'
    <3>1. closures[tobj[t]] \in Seq(Closures)
      BY <1>3, Listed
    <3>2. tst' \in [Threads -> {"idle", "marshal", "call", "unwatch", "invalidate", "leave"}]
      BY <1>2 DEF TypeOK
    <3>3. seen' \in [Threads -> Seq(Closures)]
      BY <1>2, <1>4, <3>1 DEF TypeOK
    <3> QED BY <1>2, <2>1, <3>2, <3>3 DEF avars, TypeOK, ThreadTypes
  <2>3. Emissions'
    <3>1. ASSUME NEW u \in Threads
          PROVE  (/\ tst[u] = "idle" <=> tobj[u] = NoObj
                  /\ tcl[u] # NoClosure <=> tst[u] \in {"marshal", "call", "unwatch", "invalidate"}
                  /\ tcl[u] # NoClosure => cobj[tcl[u]] = tobj[u] /\ tcl[u] # adding)'
      <4>1. CASE u = t
        BY <1>2, <2>1, <4>1 DEF Emissions
      <4>2. CASE u # t
        BY <1>2, <1>3, <2>1, <4>2 DEF Emissions
      <4> QED BY <4>1, <4>2
    <3> QED BY <3>1 DEF Emissions
  <2>4. Ending'
    <3>1. ASSUME NEW u \in Threads, tst'[u] \in {"unwatch", "invalidate"}
          PROVE  tcl[u] \notin conn /\ \A w \in Threads \ {u} : tcl[w] # tcl[u]
      <4>1. CASE u = t
        BY <1>1, <1>4, <4>1
      <4>2. CASE u # t
        BY <1>3, <3>1, <4>2 DEF Ending
      <4> QED BY <4>1, <4>2
    <3> QED BY <1>2, <2>1, <3>1 DEF Ending
  <2>5. Reading'
    <3>1. IsInjective(closures[tobj[t]])
      BY <1>3, Listed
    <3> QED BY <1>2, <1>3, <2>0, <2>1, <3>1 DEF Reading, Read
  <2>6. ASSUME NEW d \in Closures
        PROVE  (\A u \in Threads : tcl'[u] = d => tst'[u] # "invalidate")
                 <=> (\A u \in Threads : tcl[u] = d => tst[u] # "invalidate")
    BY <1>2, <1>3, <2>1
  <2> QED BY <1>2, <2>2, <2>3, <2>4, <2>5, <2>6, PassStep
<1>5. CASE ~last
  <2>1. tst'[t] = "leave" /\ tcl'[t] = NoClosure
    BY <1>2, <1>5 DEF TypeOK
  <2>2. ThreadTypes'
    <3>1. <<>> \in Seq(Closures)
      BY EmptyList
    <3>2. /\ tst' \in [Threads -> {"idle", "marshal", "call", "unwatch", "invalidate", "leave"}]
          /\ tcl' \in [Threads -> Closures \cup {NoClosure}]
      BY <1>2, <1>5 DEF TypeOK
    <3>3. seen' \in [Threads -> Seq(Closures)]
      BY <1>2, <1>5, <3>1 DEF TypeOK
    <3> QED BY <1>2, <3>2, <3>3 DEF avars, TypeOK, ThreadTypes
  <2>3. Emissions'
    <3>1. ASSUME NEW u \in Threads
          PROVE  (/\ tst[u] = "idle" <=> tobj[u] = NoObj
                  /\ tcl[u] # NoClosure <=> tst[u] \in {"marshal", "call", "unwatch", "invalidate"}
                  /\ tcl[u] # NoClosure => cobj[tcl[u]] = tobj[u] /\ tcl[u] # adding)'
      <4>1. CASE u = t
        BY <1>2, <2>1, <4>1 DEF Emissions
      <4>2. CASE u # t
        BY <1>2, <1>3, <4>2 DEF Emissions
      <4> QED BY <4>1, <4>2
    <3> QED BY <3>1 DEF Emissions
  <2>4. Ending'
    <3>1. ASSUME NEW u \in Threads, tst'[u] \in {"unwatch", "invalidate"}
          PROVE  tcl'[u] \notin conn' /\ \A w \in Threads \ {u} : tcl'[w] # tcl'[u]
      <4>1. u # t /\ tst[u] \in {"unwatch", "invalidate"} /\ tcl'[u] = tcl[u]
        BY <1>3, <2>1, <3>1
      <4>2. tcl[u] \notin conn /\ (\A w \in Threads \ {u} : tcl[w] # tcl[u]) /\ tcl[u] # NoClosure
        BY <4>1 DEF Ending, Emissions
      <4> QED BY <1>2, <1>3, <2>1, <4>1, <4>2
    <3> QED BY <3>1 DEF Ending
  <2>5. Reading'
    BY <1>2, <1>3, <2>1 DEF Reading
  <2>6. ASSUME NEW d \in Closures
        PROVE  (\A u \in Threads : tcl'[u] = d => tst'[u] # "invalidate")
                 <=> (\A u \in Threads : tcl[u] = d => tst[u] # "invalidate")
    BY <1>2, <1>3, <2>1, SentinelAssumption
  <2> QED BY <1>2, <2>2, <2>3, <2>4, <2>5, <2>6, PassStep
<1>6. last \in BOOLEAN
  BY <1>1
<1> QED BY <1>4, <1>5, <1>6

\* The closure goes off the list that has been read, which nobody has changed since.
LEMMA UnwatchStep ==
  ASSUME ClosuresInv, NEW t \in Threads, Unwatch(t)
  PROVE  ClosuresInv'
<1> USE DEF ClosuresInv
<1>1. PICK c, o, list : c = tcl[t] /\ o = tobj[t] /\ list = Unwatched(c, seen[t])
  OBVIOUS
<1>2. /\ tst[t] = "unwatch" /\ tst' = [tst EXCEPT ![t] = "invalidate"]
      /\ seen' = [seen EXCEPT ![t] = <<>>] /\ closures' = [closures EXCEPT ![o] = list]
      /\ UNCHANGED <<native, wrap, held, dict, wref, cobj, callback, keeps, unbound, conn, tobj, tcl, adding, addseen>>
  BY <1>1 DEF Unwatch, ovars, avars
<1>3. /\ c \in Closures /\ c # NoClosure /\ o \in Objs /\ cobj[c] = o /\ adding = NoClosure
      /\ Read(seen[t], closures[o]) /\ c \notin conn
      /\ \A u \in Threads \ {t} : tcl[u] # c /\ tst[u] # "unwatch"
  BY <1>1, <1>2 DEF TypeOK, Emissions, Ending, Reading
<1>4. list \in Seq(Closures) /\ IsInjective(list) /\ ToSet(list) = ToSet(closures[o]) \ {c}
  BY <1>1, <1>3, UnwatchedFacts DEF Read, TypeOK
<1>5. tst'[t] = "invalidate" /\ \A u \in Threads \ {t} : tst'[u] = tst[u]
  BY <1>2 DEF TypeOK
<1>6. ListTypes' /\ ThreadTypes' /\ ObjTypes'
  <2>1. <<>> \in Seq(Closures)
    BY EmptyList
  <2>2. tst' \in [Threads -> {"idle", "marshal", "call", "unwatch", "invalidate", "leave"}]
    BY <1>2 DEF TypeOK
  <2>3. seen' \in [Threads -> Seq(Closures)] /\ closures' \in [Objs -> Seq(Closures)]
    BY <1>2, <1>3, <1>4, <2>1 DEF TypeOK
  <2> QED BY <1>2, <2>2, <2>3 DEF TypeOK, ListTypes, ThreadTypes, ObjTypes
<1>7. ListExact'
  <2>1. ASSUME NEW d \in Closures, d # c
        PROVE  (\A u \in Threads : tcl[u] = d => tst'[u] # "invalidate")
                 <=> (\A u \in Threads : tcl[u] = d => tst[u] # "invalidate")
    BY <1>1, <1>5, <2>1
  <2>2. ASSUME NEW p \in Objs
        PROVE  /\ IsInjective(closures'[p])
               /\ ToSet(closures'[p]) =
                    {d \in Closures : cobj[d] = p /\ d # adding /\ \A u \in Threads : tcl[u] = d => tst'[u] # "invalidate"}
    <3>1. CASE p = o
      <4>1. closures'[p] = list
        BY <1>2, <3>1 DEF TypeOK
      <4> QED BY <1>1, <1>4, <1>5, <2>1, <3>1, <4>1, Listed
    <3>2. CASE p # o
      <4>1. closures'[p] = closures[p]
        BY <1>2, <3>2 DEF TypeOK
      <4> QED BY <1>3, <2>1, <3>2, <4>1, Listed
    <3> QED BY <3>1, <3>2
  <2> QED BY <1>2, <2>2 DEF ListExact
<1>8. Emissions' /\ Ending' /\ Reading'
  <2>1. Emissions'
    BY <1>2, <1>5 DEF Emissions
  <2>2. Ending'
    BY <1>1, <1>2, <1>3, <1>5 DEF Ending
  <2>3. \A u \in Threads : tst'[u] # "unwatch"
    BY <1>3, <1>5
  <2> QED BY <2>1, <2>2, <2>3 DEF Reading
<1>9. RefsOwned' /\ Adding' /\ Vacant'
  BY <1>2, <1>3 DEF RefsOwned, Adding, Vacant, Valid
<1> QED BY <1>6, <1>7, <1>8, <1>9 DEF TypeOK, ListTypes, ThreadTypes, ObjTypes

\* The closure, which is on no list, is freed.
LEMMA InvalidatedStep ==
  ASSUME ClosuresInv, NEW t \in Threads, Invalidated(t)
  PROVE  ClosuresInv'
<1> USE DEF ClosuresInv
<1>1. PICK c : c = tcl[t]
  OBVIOUS
<1>2. /\ tst[t] = "invalidate" /\ tst' = [tst EXCEPT ![t] = "leave"]
      /\ tcl' = [tcl EXCEPT ![t] = NoClosure] /\ Freed({c})
      /\ keeps' = [keeps EXCEPT ![c] = {}] /\ unbound' = unbound \ {c} /\ adding = NoClosure
      /\ UNCHANGED <<native, wrap, held, dict, closures, conn, tobj, seen, adding, addseen>>
  BY <1>1 DEF Invalidated, GilFree, ovars, avars
<1>3. /\ c \in Closures /\ c # NoClosure /\ Valid(c) /\ c \notin conn
      /\ \A u \in Threads \ {t} : tcl[u] # c
  BY <1>1, <1>2 DEF TypeOK, Emissions, Ending, Valid
<1>4. /\ tst'[t] = "leave" /\ tcl'[t] = NoClosure
      /\ \A u \in Threads \ {t} : tst'[u] = tst[u] /\ tcl'[u] = tcl[u]
  BY <1>2 DEF TypeOK
<1>5. /\ cobj' = [d \in Closures |-> IF d = c THEN NoObj ELSE cobj[d]]
      /\ callback' = [d \in Closures |-> IF d = c THEN NoFunc ELSE callback[d]]
      /\ keeps' = [d \in Closures |-> IF d = c THEN {} ELSE keeps[d]]
  BY <1>2 DEF Freed, TypeOK
<1>6. /\ wref' \in [Objs -> Nat]
      /\ \A o \in Objs : wref'[o] = B(held[o]) + Cardinality(Holders(o)') /\ wref'[o] <= wref[o]
  <2>1. PICK S \in SUBSET Closures : S = {c}
    BY <1>3
  <2>2. (\A d \in S : Valid(d)) /\ Freed(S) /\ keeps' = [d \in Closures |-> IF d \in S THEN {} ELSE keeps[d]]
    BY <1>2, <1>3, <1>5, <2>1
  <2>3. \A o \in Objs : /\ wref'[o] = B(held[o]) + Cardinality(Holders(o)') /\ wref'[o] \in Nat
                        /\ wref'[o] <= wref[o]
    BY <2>2, FreedHolders
  <2>4. wref' = [o \in Objs |-> wref[o] - Released(S, o)]
    BY <2>2 DEF Freed
  <2> QED BY <2>3, <2>4
<1>7. ListTypes' /\ ThreadTypes' /\ ObjTypes'
  <2>1. /\ tst' \in [Threads -> {"idle", "marshal", "call", "unwatch", "invalidate", "leave"}]
        /\ tcl' \in [Threads -> Closures \cup {NoClosure}]
    BY <1>2 DEF TypeOK
  <2>2. /\ cobj' \in [Closures -> Objs \cup {NoObj}] /\ callback' \in [Closures -> Funcs \cup {NoFunc}]
        /\ keeps' \in [Closures -> SUBSET Objs]
    BY <1>5 DEF TypeOK
  <2> QED BY <1>2, <1>6, <2>1, <2>2 DEF TypeOK, ListTypes, ThreadTypes, ObjTypes
<1>8. ListExact'
  <2>1. ASSUME NEW d \in Closures, d # c
        PROVE  (\A u \in Threads : tcl'[u] = d => tst'[u] # "invalidate")
                 <=> (\A u \in Threads : tcl[u] = d => tst[u] # "invalidate")
    BY <1>1, <1>4, <2>1, SentinelAssumption
  <2>2. ASSUME NEW p \in Objs
        PROVE  ToSet(closures[p]) =
                 {d \in Closures : cobj'[d] = p /\ d # adding /\ \A u \in Threads : tcl'[u] = d => tst'[u] # "invalidate"}
    <3>1. c \notin ToSet(closures[p]) /\ cobj'[c] # p
      BY <1>1, <1>2, <1>3, <1>5, Listed, SentinelAssumption
    <3>2. \A d \in Closures : d # c => cobj'[d] = cobj[d]
      BY <1>5
    <3> QED BY <2>1, <3>1, <3>2, Listed
  <2> QED BY <1>2, <2>2, Listed DEF ListExact
<1>9. Emissions'
  <2>1. ASSUME NEW u \in Threads
        PROVE  (/\ tst[u] = "idle" <=> tobj[u] = NoObj
                /\ tcl[u] # NoClosure <=> tst[u] \in {"marshal", "call", "unwatch", "invalidate"}
                /\ tcl[u] # NoClosure => cobj[tcl[u]] = tobj[u] /\ tcl[u] # adding)'
    <3>1. CASE u = t
      BY <1>2, <1>4, <3>1 DEF Emissions
    <3>2. CASE u # t
      BY <1>2, <1>3, <1>4, <1>5, <3>2 DEF Emissions, TypeOK
    <3> QED BY <3>1, <3>2
  <2> QED BY <2>1 DEF Emissions
<1>10. Ending' /\ Reading'
  <2>1. ASSUME NEW u \in Threads, tst'[u] \in {"unwatch", "invalidate"}
        PROVE  tcl'[u] \notin conn' /\ \A w \in Threads \ {u} : tcl'[w] # tcl'[u]
    <3>1. u # t /\ tst[u] \in {"unwatch", "invalidate"} /\ tcl'[u] = tcl[u]
      BY <1>4, <2>1
    <3>2. tcl[u] \notin conn /\ (\A w \in Threads \ {u} : tcl[w] # tcl[u]) /\ tcl[u] # NoClosure
      BY <3>1 DEF Ending, Emissions
    <3> QED BY <1>2, <1>4, <3>1, <3>2
  <2> QED BY <1>2, <1>4, <2>1 DEF Ending, Reading
<1>11. Adding' /\ Vacant'
  BY <1>2, <1>3, <1>5, SentinelAssumption DEF Adding, Vacant, Valid
<1>12. RefsOwned'
  <2>1. \A o \in Objs : wref'[o] > 0 => wrap[o]
    BY <1>6, OwnedHolders DEF TypeOK
  <2> QED BY <1>2, <1>6, <2>1 DEF RefsOwned, Holders
<1> QED BY <1>7, <1>8, <1>9, <1>10, <1>11, <1>12 DEF TypeOK, ListTypes, ThreadTypes, ObjTypes

LEMMA LeaveStep ==
  ASSUME ClosuresInv, NEW t \in Threads, Leave(t)
  PROVE  ClosuresInv'
<1> USE DEF ClosuresInv
<1>1. PICK o, last : /\ o = tobj[t] /\ Unref(o, last) /\ last \in BOOLEAN
                     /\ last => \A u \in Threads \ {t} : tobj[u] # o
  BY DEF Leave
<1>2. /\ tst[t] = "leave" /\ tst' = [tst EXCEPT ![t] = "idle"] /\ tobj' = [tobj EXCEPT ![t] = NoObj]
      /\ GilFree /\ UNCHANGED <<native, wrap, held, dict, tcl, seen, adding, addseen>>
  BY DEF Leave, ovars, avars
<1>3. o \in Objs
  BY <1>1, <1>2 DEF Emissions, TypeOK
<1>4. /\ tobj' \in [Threads -> Objs \cup {NoObj}]
      /\ \A u \in Threads : \/ tst'[u] = tst[u] /\ tobj'[u] = tobj[u]
                            \/ tst[u] = "leave" /\ tst'[u] = "idle" /\ tobj'[u] = NoObj
  BY <1>2 DEF TypeOK
<1>5. last => \A u \in Threads : tobj[u] = o => tst[u] = "leave"
  BY <1>1, <1>2
<1>6. /\ Lists' /\ ListTypes' /\ wref' \in [Objs -> Nat]
      /\ \A p \in Objs : wref'[p] = B(held[p]) + Cardinality(Holders(p)') /\ wref'[p] <= wref[p]
  BY <1>1, <1>2, <1>3, <1>4, <1>5, UnrefStep
<1>7. ThreadTypes' /\ ObjTypes'
  <2>1. tst' \in [Threads -> {"idle", "marshal", "call", "unwatch", "invalidate", "leave"}]
    BY <1>2 DEF TypeOK
  <2> QED BY <1>2, <1>4, <1>6, <2>1 DEF TypeOK, ThreadTypes, ObjTypes
<1>8. RefsOwned'
  <2>1. \A p \in Objs : wref'[p] > 0 => wrap[p]
    BY <1>6, OwnedHolders DEF TypeOK
  <2> QED BY <1>2, <1>6, <2>1 DEF RefsOwned, Holders
<1> QED BY <1>6, <1>7, <1>8 DEF TypeOK, Lists, ListTypes, ThreadTypes, ObjTypes

-----------------------------------------------------------------------------
(* Garbage collection *)

\* No variable refers to a wrapper that the collector clears: what the lists
\* report is at most what all closures own.
LEMMA GarbageUnheld ==
  ASSUME ClosuresInv, NEW S \in SUBSET Objs, Garbage(S), NEW o \in S
  PROVE  ~held[o]
<1> USE DEF ClosuresInv
<1>1. Visited(S, o) \subseteq Holders(o)
  <2>1. ASSUME NEW p \in S, NEW c \in ToSet(closures[p]) PROVE c \in Closures /\ Valid(c)
    BY Listed, SentinelAssumption DEF Valid
  <2> QED BY <2>1 DEF Visited, Holders
<1>2. /\ IsFiniteSet(Holders(o)) /\ Cardinality(Holders(o)) \in Nat
      /\ Cardinality(Visited(S, o)) \in Nat
  BY <1>1, Counts DEF Holders
<1>3. Cardinality(Visited(S, o)) <= Cardinality(Holders(o))
  BY <1>1, <1>2, FS_Subset
<1>4. PICK b \in Nat : wref[o] + b = Cardinality(Visited(S, o))
  <2>1. RefCount(o) = Cardinality(Visited(S, o))
    BY DEF Garbage
  <2>2. B(wrap[o] /\ dict[o] /\ Shared(o)) \in Nat
    BY DEF B
  <2> QED BY <2>1, <2>2 DEF RefCount
<1>5. wref[o] = B(held[o]) + Cardinality(Holders(o))
  BY OwnedHolders
<1>6. B(held[o]) = 0 \/ B(held[o]) = 1
  BY DEF B
<1>7. B(held[o]) = 0
  BY <1>2, <1>3, <1>4, <1>5, <1>6
<1> QED BY <1>7 DEF B

LEMMA GcClearStep ==
  ASSUME ClosuresInv, ~Overlap, NEW S \in SUBSET Objs, GcClear(S)
  PROVE  ClosuresInv'
<1> USE DEF ClosuresInv
<1>1. PICK gone : gone = UNION {ClosuresOf(o) : o \in {p \in S : ~Shared(p)}}
  OBVIOUS
<1>2. PICK left : left = {c \in Closures \ gone : keeps[c] \cap S # {}}
  OBVIOUS
<1>3. /\ adding = NoClosure /\ (\A t \in Threads : tst[t] # "unwatch") /\ Garbage(S)
      /\ wrap' = [o \in Objs |-> wrap[o] /\ o \notin S]
      /\ dict' = [o \in Objs |-> dict[o] /\ o \notin S]
      /\ closures' = [o \in Objs |-> Without(closures[o], gone)]
      /\ cobj' = [c \in Closures |-> IF c \in gone THEN NoObj ELSE cobj[c]]
      /\ callback' = [c \in Closures |-> IF c \in gone THEN NoFunc ELSE callback[c]]
      /\ keeps' = [c \in Closures |-> IF c \in gone THEN {} ELSE keeps[c] \ S]
      /\ wref' = [o \in Objs |-> IF o \in S THEN 0 ELSE wref[o] - Released(gone, o)]
      /\ unbound' = (unbound \ gone) \cup left /\ conn' = conn \ gone
      /\ UNCHANGED <<native, held, tst, tobj, tcl, seen, adding, addseen>>
  BY <1>1, <1>2 DEF GcClear, GilFree, Alone, tvars, avars
<1>4. gone \in SUBSET Closures /\ \A c \in gone : cobj[c] \in S /\ ~Shared(cobj[c])
  BY <1>1, Listed
<1>5. \A c \in gone : Valid(c) /\ ~InUse(c)
  <2>1. ASSUME NEW c \in gone PROVE Valid(c)
    BY <1>4, SentinelAssumption DEF Valid
  <2>2. ASSUME NEW c \in gone, NEW t \in Threads, tcl[t] = c PROVE FALSE
    <3>1. tobj[t] = cobj[c]
      BY <1>4, <2>2, SentinelAssumption DEF Emissions
    <3> QED BY <1>4, <3>1 DEF Shared, Emitting
  <2> QED BY <2>1, <2>2 DEF InUse
<1>6. Lists' /\ ListTypes'
  <2>1. /\ closures' \in [Objs -> Seq(Closures)]
        /\ \A o \in Objs : IsInjective(closures'[o]) /\ ToSet(closures'[o]) = ToSet(closures[o]) \ gone
    BY <1>3, ListsWithout
  <2>2. \A c \in Closures : keeps'[c] \subseteq keeps[c] /\ (c \in gone => keeps'[c] = {})
    BY <1>3
  <2>3. conn' \subseteq conn /\ conn' \cap gone = {}
    BY <1>3
  <2>4. /\ tobj' \in [Threads -> Objs \cup {NoObj}]
        /\ \A t \in Threads : tst'[t] = tst[t] /\ tobj'[t] = tobj[t]
    BY <1>3 DEF TypeOK
  <2>5. /\ ListExact' /\ Emissions' /\ Ending' /\ Reading' /\ Adding' /\ Vacant'
        /\ conn' \subseteq Closures
        /\ cobj' \in [Closures -> Objs \cup {NoObj}] /\ callback' \in [Closures -> Funcs \cup {NoFunc}]
    BY <1>3, <1>4, <1>5, <2>1, <2>2, <2>3, <2>4, GoneStep
  <2>6. keeps' \in [Closures -> SUBSET Objs] /\ unbound' \subseteq Closures
    BY <1>2, <1>3 DEF TypeOK
  <2> QED BY <2>1, <2>5, <2>6 DEF Lists, ListTypes
<1>7. ASSUME NEW o \in Objs
      PROVE  /\ wref'[o] = B(held[o]) + Cardinality(Holders(o)') /\ wref'[o] \in Nat
             /\ wref'[o] > 0 => wrap'[o]
  <2>1. CASE o \in S
    <3>1. wref'[o] = 0 /\ B(held[o]) = 0
      BY <1>3, <2>1, GarbageUnheld DEF B
    <3>2. Holders(o)' = {}
      BY <1>3, <2>1 DEF Holders
    <3>3. Cardinality(Holders(o)') = 0
      BY <3>2, FS_EmptySet
    <3> QED BY <3>1, <3>3
  <2>2. CASE o \notin S
    <3>1. wref'[o] = wref[o] - Released(gone, o) /\ wrap'[o] = wrap[o]
      BY <1>3, <2>2 DEF TypeOK
    <3>2. Holders(o)' = Holders(o) \ {c \in gone : o \in keeps[c]}
      BY <1>3, <1>4, <2>2 DEF Holders, Valid
    <3>3. /\ wref[o] - Released(gone, o) = B(held[o]) + Cardinality(Holders(o) \ {c \in gone : o \in keeps[c]})
          /\ wref[o] - Released(gone, o) \in Nat /\ wref[o] - Released(gone, o) <= wref[o]
      BY <1>4, <1>5, ReleasedHolders
    <3>4. wref'[o] = B(held[o]) + Cardinality(Holders(o)') /\ wref'[o] \in Nat /\ wref'[o] <= wref[o]
      BY <3>1, <3>2, <3>3
    <3>5. wref'[o] > 0 => wref[o] > 0
      BY <3>4 DEF TypeOK
    <3> QED BY <3>1, <3>4, <3>5, OwnedHolders
  <2> QED BY <2>1, <2>2
<1>8. ThreadTypes' /\ ObjTypes' /\ RefsOwned'
  <2>1. ThreadTypes'
    BY <1>3 DEF TypeOK, ThreadTypes
  <2>2. wref' \in [Objs -> Nat]
    BY <1>3, <1>7
  <2>3. ObjTypes'
    BY <1>3, <2>2 DEF TypeOK, ObjTypes
  <2>4. RefsOwned'
    BY <1>3, <1>7 DEF RefsOwned, Holders
  <2> QED BY <2>1, <2>3, <2>4
<1> QED BY <1>6, <1>8 DEF TypeOK, Lists, ListTypes, ThreadTypes, ObjTypes

-----------------------------------------------------------------------------
(* The theorems *)

LEMMA EmptyInit ==
  ASSUME Init
  PROVE  ClosuresInv
<1>1. <<>> \in Seq(Closures) /\ ToSet(<<>>) = {} /\ IsInjective(<<>>)
  BY EmptyList
<1>2. TypeOK
  BY <1>1 DEF Init, TypeOK
<1>3. ListExact
  BY <1>1, SentinelAssumption DEF Init, ListExact
<1>4. RefsOwned
  <2>1. ASSUME NEW o \in Objs PROVE {c \in Closures : Valid(c) /\ o \in keeps[c]} = {}
    BY DEF Init, Valid
  <2>2. \A o \in Objs : wref[o] = 0 /\ B(held[o]) = 0
    BY DEF Init, B
  <2> QED BY <2>1, <2>2, FS_EmptySet DEF RefsOwned
<1>5. Emissions /\ Ending /\ Reading /\ Adding /\ Vacant
  BY DEF Init, Emissions, Ending, Reading, Adding, Vacant, Valid
<1> QED BY <1>2, <1>3, <1>4, <1>5 DEF ClosuresInv

LEMMA NextStep ==
  ASSUME ClosuresInv, ~Overlap, Next
  PROVE  ClosuresInv'
<1>1. ASSUME NEW o \in Objs, ObjStep(o) PROVE ClosuresInv'
  BY <1>1, NewStep, VariableStep, SetAttrStep, DeallocStep, BeginConnectStep, DisconnectStep DEF ObjStep
<1>2. ASSUME NEW t \in Threads, ThreadStep(t) PROVE ClosuresInv'
  BY <1>2, EmitStep, MarshalStep, ReturnStep, UnwatchStep, InvalidatedStep, LeaveStep DEF ThreadStep
<1>3. ASSUME NEW c \in Closures, Disconnect(c) PROVE ClosuresInv'
  BY <1>3, DisconnectStep
<1>4. ASSUME NEW S \in SUBSET Objs, GcClear(S) PROVE ClosuresInv'
  BY <1>4, GcClearStep
<1> QED BY <1>1, <1>2, <1>3, <1>4, EndConnectStep DEF Next

\* The invariant is inductive.
THEOREM ClosuresInvariance == ~Overlap /\ Spec => []ClosuresInv
<1> SUFFICES ASSUME ~Overlap
             PROVE  Spec => []ClosuresInv
  OBVIOUS
<1>1. ClosuresInv /\ [Next]_vars => ClosuresInv'
  <2>1. ASSUME ClosuresInv, UNCHANGED vars PROVE ClosuresInv'
    <3>1. UNCHANGED <<closures, cobj, callback, keeps, unbound, conn, tvars, avars, wref, held, wrap>> /\ ObjTypes'
      BY <2>1 DEF vars, tvars, avars, ClosuresInv, TypeOK, ObjTypes
    <3> QED BY <2>1, <3>1, QuietStep
  <2> QED BY <2>1, NextStep
<1> QED BY <1>1, EmptyInit, PTL DEF Spec

\* No reference on a wrapper is released that was not taken.
THEOREM TypeOKAlways == ~Overlap /\ Spec => []TypeOK
<1>1. ClosuresInv => TypeOK
  BY DEF ClosuresInv
<1> QED BY <1>1, ClosuresInvariance, PTL

\* The list of an object's closures has each closure that was connected on it,
\* once, and none that is freed: pygobject_watch_closure and
\* pygobject_unwatch_closure lose none, whoever connects, disconnects and emits.
THEOREM ListExactAlways == ~Overlap /\ Spec => []ListExact
<1>1. ClosuresInv => ListExact
  BY DEF ClosuresInv
<1> QED BY <1>1, ClosuresInvariance, PTL

\* pyg_closure_invalidate releases what pyg_closure_new took, once, and the
\* collector clears no wrapper that a variable refers to.
THEOREM RefsOwnedAlways == ~Overlap /\ Spec => []RefsOwned
<1>1. ClosuresInv => RefsOwned
  BY DEF ClosuresInv
<1> QED BY <1>1, ClosuresInvariance, PTL

\* A marshaller that gets the GIL finds its callback, its closure and its object.
THEOREM CallbackThereAlways == ~Overlap /\ Spec => []CallbackThere
<1>1. ASSUME ClosuresInv PROVE CallbackThere
  <2>1. ASSUME NEW t \in Threads, tst[t] \in {"marshal", "call"}
        PROVE  callback[tcl[t]] # NoFunc /\ cobj[tcl[t]] = tobj[t] /\ Exists(tobj[t])
    <3>1. tcl[t] # NoClosure /\ tcl[t] \in Closures /\ cobj[tcl[t]] = tobj[t] /\ tobj[t] # NoObj
      BY <1>1, <2>1 DEF ClosuresInv, TypeOK, Emissions
    <3>2. callback[tcl[t]] # NoFunc
      BY <1>1, <3>1 DEF ClosuresInv, Vacant, Valid
    <3> QED BY <3>1, <3>2 DEF Exists, Shared, Emitting
  <2> QED BY <2>1 DEF CallbackThere
<1> QED BY <1>1, ClosuresInvariance, PTL
=============================================================================
