------------------------ MODULE NativeClosureProofs ------------------------
(***************************************************************************)
(* Machine-checked facts about the lifetimes of NativeClosure, for any     *)
(* number of threads and closures, any depth of calls and any signatures:  *)
(* what the handlers convert does not matter to when a closure is freed.   *)
(***************************************************************************)
EXTENDS NativeClosure, TLAPS

-----------------------------------------------------------------------------
(* The inductive invariant *)

\* Place i of the stack of thread t has a frame.
On(t, i) == t \in Threads /\ i \in 1 .. Len(stack[t])
F(t, i) == stack[t][i]

Records == [state : {"unused", "live", "freed"}, function : BOOLEAN, refs : 0 .. 1,
            callable : BOOLEAN, calls : 0 .. program.calls]
IsSequence(s) == \E S : s \in Seq(S)
\* A frame is a record; of what it converts nothing is said.
IsFrame(f) == f = [k |-> f.k, c |-> f.c, pc |-> f.pc, got |-> f.got, memory |-> f.memory, result |-> f.result]
Stacked ==
  /\ stack = [t \in Threads |-> stack[t]]
  /\ \A t \in Threads : IsSequence(stack[t])
  /\ \A t, i : On(t, i) => IsFrame(F(t, i)) /\ F(t, i).c \in Closure
Typed ==
  /\ program \in Programs /\ closure \in [Closure -> Records] /\ async_free_list \in Seq(Closure)
  /\ Stacked

\* What a frame says of its closure.
InvokeFrame(f) ==
  f.k = "invoke" /\ \/ f.pc = "native" /\ (Scope(f.c) = "call" => closure[f.c].callable)
                    \/ f.pc \in {"final", "free"} /\ Scope(f.c) = "call" /\ ~closure[f.c].callable
HandleFrame(f) ==
  f.k = "handle" /\ \/ f.pc \in {"enter", "python", "end"} /\ (closure[f.c].callable <=> Scope(f.c) # "async")
                    \/ f.pc \in {"final", "list"} /\ Scope(f.c) = "async" /\ ~closure[f.c].callable
FreeFrame(f) ==
  f.k = "free" /\ f.pc \in {"final", "free"} /\ Scope(f.c) = "notified" /\ ~closure[f.c].callable
Framed(c) ==
  \A t, i : On(t, i) /\ F(t, i).c = c =>
    /\ InvokeFrame(F(t, i)) \/ HandleFrame(F(t, i)) \/ FreeFrame(F(t, i))
    /\ closure[c].state # "unused" /\ (ComesBack(F(t, i)) => closure[c].state = "live")

\* A closure is made once, destroyed once, and called once if it is async.
Once(c) ==
  \A t, i, u, j : On(t, i) /\ On(u, j) /\ F(t, i).c = c /\ F(u, j).c = c /\ F(t, i).k = F(u, j).k =>
    (t = u /\ i = j) \/ (F(t, i).k = "handle" /\ Scope(c) # "async")

\* What a closure owns goes with its state.
Needed(c) == closure[c].callable \/ \E t, i : On(t, i) /\ F(t, i).c = c /\ Needs(F(t, i))
Handled(c) == \E t, i : On(t, i) /\ F(t, i).c = c /\ F(t, i).k = "handle"
Owned(c) ==
  /\ closure[c].callable => closure[c].state = "live"
  /\ closure[c].refs = 1 <=> Needed(c)
  /\ closure[c].function <=> IF Scope(c) = "async" THEN closure[c].callable \/ Handled(c)
                             ELSE closure[c].state = "live"

\* A live closure is one that native code may call, that a frame comes back to, or that is on the list.
OnList(c) == c \in Range(async_free_list)
Accounted(c) ==
  closure[c].state = "live" => \/ closure[c].callable \/ OnList(c)
                               \/ \E t, i : On(t, i) /\ F(t, i).c = c /\ ComesBack(F(t, i))
\* What is on the list is over.
Listed(c) ==
  OnList(c) => Scope(c) = "async" /\ closure[c].state = "live" /\ ~closure[c].callable /\ ~Handled(c)

Sound(c) == Framed(c) /\ Once(c) /\ Owned(c) /\ Accounted(c) /\ Listed(c)
Inv == Typed /\ IsInjective(async_free_list) /\ \A c \in Closure : Sound(c)

-----------------------------------------------------------------------------
(* Stacks: what Push, Becomes and Pop do, place by place *)

Pushed(t, n, f) ==
  /\ ~On(t, n) /\ On(t, n)' /\ F(t, n)' = f
  /\ \A u, i : On(u, i)' <=> On(u, i) \/ (u = t /\ i = n)
  /\ \A u, i : On(u, i) => F(u, i)' = F(u, i)
Popped(t, n) ==
  /\ On(t, n) /\ ~On(t, n)' /\ F(t, n) = Top(t)
  /\ \A u, i : On(u, i)' <=> On(u, i) /\ ~(u = t /\ i = n)
  /\ \A u, i : On(u, i)' => F(u, i)' = F(u, i)
Changed(t, n, f) ==
  /\ On(t, n) /\ F(t, n) = Top(t) /\ F(t, n)' = f
  /\ \A u, i : On(u, i)' <=> On(u, i)
  /\ \A u, i : On(u, i) /\ ~(u = t /\ i = n) => F(u, i)' = F(u, i)

\* The step is in no frame of closure d.
SameFrames(d) ==
  \A u, i : /\ On(u, i)' /\ F(u, i)'.c = d <=> On(u, i) /\ F(u, i).c = d
            /\ On(u, i) /\ F(u, i).c = d => F(u, i)' = F(u, i)

LEMMA SameProgram ==
  ASSUME program' = program
  PROVE  Closure' = Closure /\ Records' = Records /\ \A c : Scope(c)' = Scope(c)
BY DEF Closure, Records, Scope

LEMMA Stacks ==
  ASSUME Typed, NEW t \in Threads
  PROVE  IsSequence(stack[t]) /\ Len(stack[t]) \in Nat
BY DEF Typed, Stacked, IsSequence

LEMMA PushPlaces ==
  ASSUME Typed, program' = program, NEW t \in Threads, NEW f, IsFrame(f), f.c \in Closure, Push(t, f)
  PROVE  (\E n : Pushed(t, n, f)) /\ Stacked' /\ \A d : d # f.c => SameFrames(d)
<1>1. PICK S : stack[t] \in Seq(S)
  BY Stacks DEF IsSequence
<1>n. PICK n : n = Len(stack[t]) + 1
  OBVIOUS
<1>2. stack'[t] = Append(stack[t], f) /\ \A u \in Threads \ {t} : stack'[u] = stack[u]
  BY DEF Push, Typed, Stacked
<1>3. /\ Append(stack[t], f) \in Seq(S \cup {f}) /\ Len(Append(stack[t], f)) = n
      /\ Append(stack[t], f)[n] = f
      /\ \A i \in 1 .. Len(stack[t]) : Append(stack[t], f)[i] = stack[t][i]
  BY <1>1, <1>n
<1>4. ~On(t, n) /\ On(t, n)' /\ F(t, n)' = f
  BY <1>1, <1>n, <1>2, <1>3 DEF On, F
<1>5. \A u, i : On(u, i)' <=> On(u, i) \/ (u = t /\ i = n)
  BY <1>1, <1>n, <1>2, <1>3 DEF On
<1>6. \A u, i : On(u, i) => F(u, i)' = F(u, i)
  BY <1>1, <1>n, <1>2, <1>3 DEF On, F
<1>7. stack' = [u \in Threads |-> stack'[u]]
  BY DEF Push, Typed, Stacked
<1>8. \A u \in Threads : IsSequence(stack'[u])
  BY <1>1, <1>n, <1>2, <1>3 DEF Typed, Stacked, IsSequence
<1>9. Pushed(t, n, f)
  BY <1>4, <1>5, <1>6 DEF Pushed
<1>10. Stacked'
  BY <1>7, <1>8, <1>9, SameProgram DEF Pushed, Typed, Stacked, IsFrame
<1>11. \A d : d # f.c => SameFrames(d)
  BY <1>9 DEF Pushed, SameFrames
<1> QED BY <1>9, <1>10, <1>11

LEMMA PopPlaces ==
  ASSUME Typed, program' = program, NEW t \in Threads, Busy(t), Pop(t)
  PROVE  (\E n : Popped(t, n)) /\ Stacked' /\ \A d : d # Top(t).c => SameFrames(d)
<1>1. PICK S : stack[t] \in Seq(S)
  BY Stacks DEF IsSequence
<1>n. PICK n : n = Len(stack[t]) /\ n \in Nat \ {0}
  BY <1>1 DEF Busy
<1>2. stack'[t] = Front(stack[t]) /\ \A u \in Threads \ {t} : stack'[u] = stack[u]
  BY DEF Pop, Typed, Stacked
<1>3. /\ Front(stack[t]) \in Seq(S) /\ Len(Front(stack[t])) = n - 1
      /\ \A i \in 1 .. n - 1 : Front(stack[t])[i] = stack[t][i]
  BY <1>1, <1>n DEF Front
<1>4. On(t, n) /\ ~On(t, n)' /\ F(t, n) = Top(t)
  BY <1>1, <1>n, <1>2, <1>3 DEF On, F, Top, Last
<1>5. \A u, i : On(u, i)' <=> On(u, i) /\ ~(u = t /\ i = n)
  BY <1>1, <1>n, <1>2, <1>3 DEF On
<1>6. \A u, i : On(u, i)' => F(u, i)' = F(u, i)
  BY <1>1, <1>n, <1>2, <1>3 DEF On, F
<1>7. stack' = [u \in Threads |-> stack'[u]]
  BY DEF Pop, Typed, Stacked
<1>8. \A u \in Threads : IsSequence(stack'[u])
  BY <1>1, <1>n, <1>2, <1>3 DEF Typed, Stacked, IsSequence
<1>9. Popped(t, n)
  BY <1>4, <1>5, <1>6 DEF Popped
<1>10. Stacked'
  BY <1>7, <1>8, <1>9, SameProgram DEF Popped, Typed, Stacked, IsFrame
<1>11. \A d : d # Top(t).c => SameFrames(d)
  BY <1>9 DEF Popped, SameFrames
<1> QED BY <1>9, <1>10, <1>11

LEMMA BecomesPlaces ==
  ASSUME Typed, program' = program, NEW t \in Threads, NEW f, IsFrame(f), f.c = Top(t).c,
         Busy(t), Becomes(t, f)
  PROVE  /\ \E n : Changed(t, n, f)
         /\ Stacked' /\ IsFrame(Top(t)) /\ Top(t).c \in Closure /\ \A d : d # Top(t).c => SameFrames(d)
<1> DEFINE s == Front(stack[t])
<1>1. PICK S : stack[t] \in Seq(S)
  BY Stacks DEF IsSequence
<1>n. PICK n : n = Len(stack[t]) /\ n \in Nat \ {0}
  BY <1>1 DEF Busy
<1>2. stack'[t] = Append(s, f) /\ \A u \in Threads \ {t} : stack'[u] = stack[u]
  BY DEF Becomes, Typed, Stacked
<1>3. /\ s \in Seq(S) /\ Len(s) = n - 1
      /\ \A i \in 1 .. n - 1 : s[i] = stack[t][i]
  BY <1>1, <1>n DEF Front
<1>a. /\ Append(s, f) \in Seq(S \cup {f}) /\ Len(Append(s, f)) = n
      /\ Append(s, f)[n] = f /\ \A i \in 1 .. n - 1 : Append(s, f)[i] = stack[t][i]
  <2> HIDE DEF s
  <2> QED BY <1>n, <1>3
<1> HIDE DEF s
<1>4. On(t, n) /\ F(t, n) = Top(t) /\ F(t, n)' = f
  BY <1>1, <1>n, <1>2, <1>a DEF On, F, Top, Last
<1>5. \A u, i : On(u, i)' <=> On(u, i)
  BY <1>1, <1>n, <1>2, <1>a DEF On
<1>6. \A u, i : On(u, i) /\ ~(u = t /\ i = n) => F(u, i)' = F(u, i)
  <2>1. ASSUME NEW i, On(t, i), i # n
        PROVE  F(t, i)' = F(t, i)
    <3>1. i \in 1 .. n - 1
      BY <2>1, <1>n DEF On
    <3> QED BY <3>1, <1>2, <1>a DEF F
  <2>2. ASSUME NEW u \in Threads \ {t}, NEW i
        PROVE  F(u, i)' = F(u, i)
    BY <1>2 DEF F
  <2> QED BY <2>1, <2>2 DEF On
<1>7. stack' = [u \in Threads |-> stack'[u]]
  BY DEF Becomes, Typed, Stacked
<1>8. \A u \in Threads : IsSequence(stack'[u])
  BY <1>1, <1>n, <1>2, <1>a DEF Typed, Stacked, IsSequence
<1>9. Changed(t, n, f)
  BY <1>4, <1>5, <1>6 DEF Changed
<1>10. Stacked'
  BY <1>7, <1>8, <1>9, SameProgram DEF Changed, Typed, Stacked, IsFrame
<1>11. \A d : d # Top(t).c => SameFrames(d)
  BY <1>9 DEF Changed, SameFrames
<1> QED BY <1>9, <1>10, <1>11 DEF Changed, Typed, Stacked

\* A step that changes neither a closure, its frames nor the list keeps what holds of it.
LEMMA OtherClosures ==
  ASSUME Inv, program' = program, NEW d \in Closure, closure'[d] = closure[d],
         SameFrames(d), OnList(d)' <=> OnList(d)
  PROVE  Sound(d)'
<1> USE DEF Inv, Sound
<1>1. \A u, i : On(u, i)' /\ F(u, i)'.c = d <=> On(u, i) /\ F(u, i).c = d
  BY DEF SameFrames
<1>2. \A u, i : On(u, i) /\ F(u, i).c = d => F(u, i)' = F(u, i)
  BY DEF SameFrames
<1>3. \A c : Scope(c)' = Scope(c)
  BY SameProgram
<1>4. Framed(d)'
  <2> SUFFICES ASSUME NEW u, NEW i, On(u, i), F(u, i).c = d, F(u, i)' = F(u, i)
               PROVE  (/\ InvokeFrame(F(u, i)) \/ HandleFrame(F(u, i)) \/ FreeFrame(F(u, i))
                       /\ closure[d].state # "unused" /\ (ComesBack(F(u, i)) => closure[d].state = "live"))'
    BY <1>1, <1>2 DEF Framed
  <2> QED BY <1>3 DEF Framed, InvokeFrame, HandleFrame, FreeFrame, ComesBack
<1>5. Once(d)'
  BY <1>1, <1>2, <1>3 DEF Once
<1>6. Handled(d)' = Handled(d) /\ Needed(d)' = Needed(d)
  BY <1>1, <1>2 DEF Handled, Needed, Needs
<1>7. Owned(d)' /\ Listed(d)'
  BY <1>3, <1>6 DEF Owned, Listed
<1>8. Accounted(d)'
  BY <1>1, <1>2, <1>3 DEF Accounted, ComesBack
<1> QED BY <1>4, <1>5, <1>7, <1>8

LEMMA OneClosure ==
  ASSUME Inv, program' = program, NEW c \in Closure, closure' \in [Closure -> Records],
         \A d \in Closure \ {c} : closure'[d] = closure[d] /\ SameFrames(d) /\ (OnList(d)' <=> OnList(d)),
         Stacked', async_free_list' \in Seq(Closure), IsInjective(async_free_list'), Sound(c)'
  PROVE  Inv'
<1>1. \A d \in Closure \ {c} : Sound(d)'
  BY OtherClosures
<1>2. Typed'
  BY SameProgram DEF Inv, Typed
<1> QED BY <1>1, <1>2, SameProgram DEF Inv

LEMMA ScopeValues ==
  ASSUME Typed
  PROVE  /\ program.calls \in Nat
         /\ \A c \in Closure : Scope(c) \in {"call", "async", "notified"}
BY ProgramsAssumption DEF Typed, Closure, Scope

-----------------------------------------------------------------------------
(* What a step does *)

LEMMA InitInv == Init => Inv
<1> SUFFICES ASSUME Init PROVE Inv
  OBVIOUS
<1>1. \A t, i : ~On(t, i)
  BY DEF Init, On
<1>2. \A c : ~OnList(c)
  BY DEF Init, Range, OnList
<1>3. Typed
  <2>1. program.calls \in Nat
    BY ProgramsAssumption DEF Init
  <2>2. closure \in [Closure -> Records]
    BY <2>1 DEF Init, Records, Fresh
  <2>3. \A t \in Threads : stack[t] \in Seq({})
    BY DEF Init
  <2> QED BY <1>1, <2>2, <2>3 DEF Init, Typed, Stacked, IsSequence
<1>4. \A c \in Closure : Framed(c) /\ Once(c) /\ Listed(c)
  BY <1>1, <1>2 DEF Framed, Once, Listed
<1>5. \A c \in Closure : Owned(c) /\ Accounted(c)
  BY <1>1 DEF Init, Owned, Accounted, Fresh, Needed, Handled
<1>6. IsInjective(async_free_list)
  BY DEF Init, IsInjective
<1> QED BY <1>3, <1>4, <1>5, <1>6 DEF Inv, Sound

\* _pygi_make_native_closure, with the closures on async_free_list that it frees.
LEMMA InvokeStep ==
  ASSUME Inv, NEW t \in Threads, NEW c \in Closure, Invoke(t, c)
  PROVE  Inv'
<1> USE DEF Inv, Sound
<1> DEFINE f == Frame("invoke", c, "native")
<1>1. /\ f.k = "invoke" /\ f.c = c /\ f.pc = "native" /\ IsFrame(f)
  BY DEF Frame, IsFrame
<1> HIDE DEF f
<1>2. /\ \E n : Pushed(t, n, f)
      /\ Stacked' /\ \A d : d # c => SameFrames(d)
  BY <1>1, PushPlaces DEF Invoke, f
<1>3. closure[c].state = "unused"
  BY DEF Invoke, NextClosure
<1>4. \A u, i : On(u, i) => F(u, i).c # c
  BY <1>3 DEF Framed
<1>5. ~OnList(c)
  BY <1>3 DEF Listed
<1>6. ASSUME NEW d \in Closure, OnList(d)
      PROVE  closure'[d] = [closure[d] EXCEPT !.state = "freed"]
  <2>1. d # c
    BY <1>5, <1>6
  <2>2. ~closure[d].function /\ closure[d].state = "live"
    BY <1>6 DEF Listed, Owned
  <2>3. closure'[d] = Free(closure[d])
    BY <1>6, <2>1 DEF Invoke, MakeNativeClosure, OnList
  <2>4. closure[d] \in Records
    BY DEF Typed
  <2> QED BY <2>2, <2>3, <2>4 DEF Free, Release, Forgets, Drops, Records
<1>7. \A d \in Closure : d # c /\ ~OnList(d) => closure'[d] = closure[d]
  BY DEF Invoke, MakeNativeClosure, OnList
<1>8. closure'[c] = [state |-> "live", function |-> TRUE, refs |-> 1, callable |-> TRUE, calls |-> 0]
  BY <1>5 DEF Invoke, MakeNativeClosure, OnList
<1>9. program' = program /\ async_free_list' = << >> /\ \A d : ~OnList(d)'
  BY DEF Invoke, MakeNativeClosure, EmptyList, Range, OnList
<1>10. Typed'
  <2>1. closure' = [d \in Closure |-> closure'[d]]
    BY DEF Invoke, MakeNativeClosure
  <2>2. closure'[c] \in Records
    BY <1>8, ScopeValues DEF Records
  <2>3. \A d \in Closure : closure'[d] \in Records
    <3>1. ASSUME NEW d \in Closure, OnList(d)
          PROVE  closure'[d] \in Records
      <4>1. closure[d] \in Records /\ closure'[d] = [closure[d] EXCEPT !.state = "freed"]
        BY <1>6, <3>1 DEF Typed
      <4> QED BY <4>1 DEF Records
    <3>2. ASSUME NEW d \in Closure, d # c, ~OnList(d)
          PROVE  closure'[d] \in Records
      BY <1>7, <3>2 DEF Typed
    <3> QED BY <2>2, <3>1, <3>2
  <2> QED BY <1>2, <1>9, <2>1, <2>3, SameProgram DEF Typed
<1>11. Sound(c)'
  <2>1. PICK n : Pushed(t, n, f)
    BY <1>2
  <2>2. \A u, i : On(u, i)' /\ F(u, i)'.c = c <=> u = t /\ i = n
    BY <1>1, <1>4, <2>1 DEF Pushed
  <2>3. Framed(c)' /\ Once(c)'
    BY <1>1, <1>8, <2>1, <2>2 DEF Framed, Once, InvokeFrame, ComesBack, Pushed
  <2>4. Owned(c)' /\ Accounted(c)' /\ Listed(c)'
    BY <1>1, <1>8, <1>9, <2>1, <2>2 DEF Owned, Needed, Handled, Accounted, Listed
  <2> QED BY <2>3, <2>4
<1>12. ASSUME NEW d \in Closure, OnList(d)
       PROVE  Sound(d)'
  <2>1. d # c /\ closure'[d] = [closure[d] EXCEPT !.state = "freed"] /\ closure[d] \in Records
    BY <1>5, <1>6, <1>12 DEF Typed
  <2>2. \A u, i : /\ On(u, i)' /\ F(u, i)'.c = d <=> On(u, i) /\ F(u, i).c = d
                  /\ On(u, i) /\ F(u, i).c = d => F(u, i)' = F(u, i)
    BY <1>2, <2>1 DEF SameFrames
  <2>3. Scope(d) = "async" /\ ~closure[d].callable /\ ~Handled(d) /\ Scope(d)' = "async"
    BY <1>9, <1>12, SameProgram DEF Listed
  <2>4. \A u, i : On(u, i) /\ F(u, i).c = d => InvokeFrame(F(u, i)) /\ ~ComesBack(F(u, i))
    BY <2>3 DEF Framed, Handled, HandleFrame, FreeFrame, ComesBack, InvokeFrame
  <2>5. Framed(d)'
    BY <2>1, <2>2, <2>3, <2>4 DEF Framed, InvokeFrame, ComesBack, Records
  <2>6. Once(d)'
    BY <2>2, <2>3 DEF Once
  <2>7. Owned(d)' /\ Accounted(d)' /\ Listed(d)'
    <3>1. Handled(d)' = Handled(d) /\ Needed(d)' = Needed(d)
      BY <2>1, <2>2 DEF Handled, Needed, Needs, Records
    <3> QED BY <1>9, <2>1, <2>3, <3>1 DEF Owned, Accounted, Listed, Records
  <2> QED BY <2>5, <2>6, <2>7
<1>13. ASSUME NEW d \in Closure, d # c, ~OnList(d)
       PROVE  Sound(d)'
  BY <1>2, <1>7, <1>9, <1>13, OtherClosures
<1>14. IsInjective(async_free_list')
  BY <1>9 DEF IsInjective
<1> QED BY <1>9, <1>10, <1>11, <1>12, <1>13, <1>14, SameProgram

\* Native code calls the closure, an async one for the only time.
LEMMA CallsStep ==
  ASSUME Inv, NEW t \in Threads, NEW c \in Closure, Calls(t, c)
  PROVE  Inv'
<1> USE DEF Inv, Sound
<1> DEFINE f == Frame("handle", c, "enter")
<1>1. f.k = "handle" /\ f.c = c /\ f.pc = "enter" /\ IsFrame(f)
  BY DEF Frame, IsFrame
<1> HIDE DEF f
<1>2. /\ \E n : Pushed(t, n, f)
      /\ Stacked' /\ \A d : d # c => SameFrames(d)
  BY <1>1, PushPlaces DEF Calls, f
<1>3. closure[c] \in Records /\ closure[c].callable /\ closure[c].calls < program.calls
  BY DEF Calls, Typed
<1>4. /\ closure' = [closure EXCEPT ![c].calls = @ + 1, ![c].callable = Scope(c) # "async"]
      /\ program' = program /\ async_free_list' = async_free_list
  BY DEF Calls
<1>5. /\ closure'[c] \in Records /\ (closure'[c].callable <=> Scope(c) # "async")
      /\ closure'[c].state = closure[c].state /\ closure'[c].function = closure[c].function
      /\ closure'[c].refs = closure[c].refs
  <2>1. closure \in [Closure -> Records]
    BY DEF Typed
  <2>2. closure'[c] = [[closure[c] EXCEPT !.calls = @ + 1] EXCEPT !.callable = Scope(c) # "async"]
    BY <1>4, <2>1
  <2>3. (closure[c].calls + 1) \in 0 .. program.calls /\ (Scope(c) # "async") \in BOOLEAN
    BY <1>3, ScopeValues DEF Records
  <2> QED BY <1>3, <2>2, <2>3 DEF Records
<1>6. closure' \in [Closure -> Records] /\ \A d \in Closure \ {c} : closure'[d] = closure[d]
  BY <1>4, <1>5 DEF Typed
<1>7. Sound(c)'
  <2>1. PICK n : Pushed(t, n, f)
    BY <1>2
  <2>2. \A d : Scope(d)' = Scope(d) /\ (OnList(d)' <=> OnList(d))
    BY <1>4, SameProgram DEF OnList
  <2>3. closure[c].state = "live" /\ closure[c].function /\ closure[c].refs = 1 /\ ~OnList(c)
    BY <1>3 DEF Owned, Needed, Listed
  <2>4. Scope(c) = "async" => ~Handled(c)
    BY <1>3, <2>3 DEF Handled, Framed, InvokeFrame, HandleFrame, FreeFrame
  <2>5. Framed(c)'
    <3> SUFFICES ASSUME NEW u, NEW i, On(u, i)', F(u, i)'.c = c
                 PROVE  (InvokeFrame(F(u, i)) \/ HandleFrame(F(u, i)) \/ FreeFrame(F(u, i)))'
      BY <1>5, <2>3 DEF Framed
    <3>1. CASE u = t /\ i = n
      BY <1>1, <1>5, <2>1, <2>2, <3>1 DEF HandleFrame, Pushed
    <3>2. CASE ~(u = t /\ i = n)
      <4>1. On(u, i) /\ F(u, i)' = F(u, i) /\ F(u, i).c = c
        BY <2>1, <3>2 DEF Pushed
      <4>2. InvokeFrame(F(u, i)) \/ (HandleFrame(F(u, i)) /\ Scope(c) # "async")
        BY <1>3, <2>4, <4>1 DEF Framed, FreeFrame, Handled, HandleFrame
      <4> QED BY <1>3, <1>5, <2>2, <4>1, <4>2 DEF InvokeFrame, HandleFrame
    <3> QED BY <3>1, <3>2
  <2>6. Once(c)'
    BY <1>1, <2>1, <2>2, <2>4 DEF Once, Pushed, Handled
  <2>7. Handled(c)' /\ Needed(c)'
    BY <1>1, <2>1 DEF Handled, Needed, Needs, Pushed
  <2>8. Owned(c)' /\ Accounted(c)' /\ Listed(c)'
    <3>1. \E u, i : On(u, i)' /\ F(u, i)'.c = c /\ ComesBack(F(u, i))'
      BY <1>1, <2>1 DEF ComesBack, Pushed
    <3> QED BY <1>3, <1>5, <2>2, <2>3, <2>7, <3>1 DEF Owned, Accounted, Listed
  <2> QED BY <2>5, <2>6, <2>8
<1> QED BY <1>2, <1>4, <1>6, <1>7, OneClosure DEF OnList, Typed

\* A frame that goes on, in a step that leaves the closures alone: arguments are converted, the
\* function returns, or a finalizer does.
LEMMA GoesOn ==
  ASSUME Inv, NEW t \in Threads, Busy(t), NEW f, IsFrame(f), f.c = Top(t).c, f.k = Top(t).k,
         Becomes(t, f), UNCHANGED <<program, closure, async_free_list>>,
         Needs(f) <=> Needs(Top(t)),
         InvokeFrame(f) \/ HandleFrame(f) \/ FreeFrame(f)
  PROVE  Inv'
<1> USE DEF Inv, Sound
<1>c. PICK c : c = Top(t).c
  OBVIOUS
<1>1. /\ \E n : Changed(t, n, f)
      /\ Stacked' /\ c \in Closure /\ \A d : d # c => SameFrames(d)
  BY <1>c, BecomesPlaces
<1>2. PICK n : Changed(t, n, f)
  BY <1>1
<1>3. \A d : Scope(d)' = Scope(d) /\ (OnList(d)' <=> OnList(d))
  BY SameProgram DEF OnList
<1>4. /\ \A u, i : On(u, i)' /\ F(u, i)'.c = c <=> On(u, i) /\ F(u, i).c = c
      /\ \A u, i : On(u, i) => F(u, i)' = F(u, i) \/ (F(u, i)' = f /\ F(u, i) = Top(t))
      /\ \A u, i : On(u, i) => F(u, i)'.k = F(u, i).k
  BY <1>c, <1>2 DEF Changed
<1>5. Sound(c)'
  <2>1. Framed(c)'
    <3> SUFFICES ASSUME NEW u, NEW i, On(u, i), F(u, i).c = c
                 PROVE  (/\ InvokeFrame(F(u, i)) \/ HandleFrame(F(u, i)) \/ FreeFrame(F(u, i))
                         /\ closure[c].state # "unused" /\ (ComesBack(F(u, i)) => closure[c].state = "live"))'
      BY <1>4 DEF Framed
    <3>1. /\ closure[c].state # "unused" /\ (ComesBack(F(u, i)) => closure[c].state = "live")
          /\ InvokeFrame(F(u, i)) \/ HandleFrame(F(u, i)) \/ FreeFrame(F(u, i))
      BY <1>1 DEF Framed
    <3>2. ComesBack(F(u, i))' = ComesBack(F(u, i))
      BY <1>3, <1>4 DEF ComesBack
    <3>3. (InvokeFrame(F(u, i)) \/ HandleFrame(F(u, i)) \/ FreeFrame(F(u, i)))'
      BY <1>3, <1>4, <3>1 DEF InvokeFrame, HandleFrame, FreeFrame
    <3> QED BY <3>1, <3>2, <3>3
  <2>2. Once(c)'
    BY <1>1, <1>3, <1>4 DEF Once
  <2>3. Handled(c)' = Handled(c) /\ Needed(c)' = Needed(c)
    BY <1>4 DEF Handled, Needed, Needs
  <2>4. \A u, i : On(u, i) => ComesBack(F(u, i))' = ComesBack(F(u, i))
    BY <1>3, <1>4 DEF ComesBack
  <2>5. Owned(c)' /\ Accounted(c)' /\ Listed(c)'
    BY <1>1, <1>3, <1>4, <2>3, <2>4 DEF Owned, Accounted, Listed
  <2> QED BY <2>1, <2>2, <2>5
<1> QED BY <1>1, <1>3, <1>5, OneClosure DEF Typed

\* The frame on top, and what holds of it.
LEMMA OnTop ==
  ASSUME Typed, NEW t \in Threads, Busy(t)
  PROVE  \E i : On(t, i) /\ F(t, i) = Top(t) /\ IsFrame(Top(t)) /\ Top(t).c \in Closure
<1>1. PICK S : stack[t] \in Seq(S)
  BY Stacks DEF IsSequence
<1>2. Len(stack[t]) \in 1 .. Len(stack[t])
  BY <1>1 DEF Busy
<1> QED BY <1>2 DEF On, F, Top, Last, Typed, Stacked

LEMMA TopFits ==
  ASSUME Inv, NEW t \in Threads, Busy(t)
  PROVE  /\ IsFrame(Top(t)) /\ Top(t).c \in Closure
         /\ InvokeFrame(Top(t)) \/ HandleFrame(Top(t)) \/ FreeFrame(Top(t))
         /\ ComesBack(Top(t)) => closure[Top(t).c].state = "live"
BY OnTop DEF Inv, Sound, Framed

\* The arguments are converted, and Python called if they could be.
LEMMA EnterStep ==
  ASSUME Inv, NEW t \in Threads, Enter(t)
  PROVE  Inv'
<1>1. PICK f : f = [Top(t) EXCEPT !.pc = IF ConvertArguments.ok THEN "python" ELSE "end", !.got = ConvertArguments]
  OBVIOUS
<1>2. Busy(t) /\ Becomes(t, f) /\ Top(t).k = "handle" /\ Top(t).pc = "enter"
  BY <1>1 DEF Enter, At
<1>3. IsFrame(Top(t)) /\ HandleFrame(Top(t))
  BY <1>2, TopFits DEF InvokeFrame, FreeFrame
<1>4. f.k = Top(t).k /\ f.c = Top(t).c /\ f.pc \in {"python", "end"} /\ IsFrame(f)
  BY <1>1, <1>3 DEF IsFrame
<1>5. HandleFrame(f) /\ Needs(f) /\ Needs(Top(t))
  BY <1>2, <1>3, <1>4 DEF HandleFrame, Needs
<1> QED BY <1>2, <1>4, <1>5, GoesOn DEF Enter

\* The Python function returns, or raises.
LEMMA ReturnsStep ==
  ASSUME Inv, NEW t \in Threads, NEW r, Returns(t, r)
  PROVE  Inv'
<1>1. PICK f : f = [Top(t) EXCEPT !.pc = "end", !.result = r,
                                  !.memory = IF r = Raised THEN @ ELSE SetOutArguments(r, @)]
  OBVIOUS
<1>2. Busy(t) /\ Becomes(t, f) /\ Top(t).k = "handle" /\ Top(t).pc = "python"
  BY <1>1 DEF Returns, At
<1>3. IsFrame(Top(t)) /\ HandleFrame(Top(t))
  BY <1>2, TopFits DEF InvokeFrame, FreeFrame
<1>4. f.k = Top(t).k /\ f.c = Top(t).c /\ f.pc = "end" /\ IsFrame(f)
  BY <1>1, <1>3 DEF IsFrame
<1>5. HandleFrame(f) /\ Needs(f) /\ Needs(Top(t))
  BY <1>2, <1>3, <1>4 DEF HandleFrame, Needs
<1> QED BY <1>2, <1>4, <1>5, GoesOn DEF Returns

LEMMA FinalizerEndsStep ==
  ASSUME Inv, NEW t \in Threads, FinalizerEnds(t)
  PROVE  Inv'
<1>1. PICK f : f = [Top(t) EXCEPT !.pc = IF Top(t).k = "handle" THEN "list" ELSE "free"]
  OBVIOUS
<1>2. Busy(t) /\ Becomes(t, f) /\ Top(t).pc = "final"
  BY <1>1 DEF FinalizerEnds, Goto
<1>3. IsFrame(Top(t)) /\ (InvokeFrame(Top(t)) \/ HandleFrame(Top(t)) \/ FreeFrame(Top(t)))
  BY <1>2, TopFits
<1>4. /\ f.k = Top(t).k /\ f.c = Top(t).c /\ f.pc = (IF Top(t).k = "handle" THEN "list" ELSE "free")
      /\ IsFrame(f)
  BY <1>1, <1>3 DEF IsFrame
<1>5. InvokeFrame(f) \/ HandleFrame(f) \/ FreeFrame(f)
  BY <1>2, <1>3, <1>4 DEF InvokeFrame, HandleFrame, FreeFrame
<1>6. ~Needs(f) /\ ~Needs(Top(t))
  BY <1>2, <1>4 DEF Needs
<1> QED BY <1>2, <1>4, <1>5, <1>6, GoesOn DEF FinalizerEnds

\* The closure lets go of its function.
LEMMA DropsRecord ==
  ASSUME Typed, NEW c \in Closure, NEW x \in Records, x.function, x.refs = 1
  PROVE  Drops(x) \in Records /\ Drops(x) = [x EXCEPT !.refs = 0]
<1>1. Drops(x) = [x EXCEPT !.refs = 0]
  BY DEF Drops, Records
<1> QED BY <1>1 DEF Records

\* The native function returns: a closure of scope "call" is over.
LEMMA InvokeReturnsStep ==
  ASSUME Inv, NEW t \in Threads, InvokeReturns(t)
  PROVE  Inv'
<1> USE DEF Inv, Sound
<1>1. PICK c : c = Top(t).c
  OBVIOUS
<1>2. Busy(t) /\ Top(t).k = "invoke" /\ Top(t).pc = "native" /\ program' = program /\ async_free_list' = async_free_list
  BY DEF InvokeReturns, At
<1>3. c \in Closure /\ IsFrame(Top(t)) /\ InvokeFrame(Top(t)) /\ closure[c] \in Records
  BY <1>1, <1>2, TopFits DEF HandleFrame, FreeFrame, Typed
<1>4. \A d : Scope(d)' = Scope(d) /\ (OnList(d)' <=> OnList(d))
  BY <1>2, SameProgram DEF OnList
<1>5. CASE Scope(c) = "call"
  <2>1. PICK f : (\E pc \in {"final", "free"} : f = [Top(t) EXCEPT !.pc = pc]) /\ Becomes(t, f)
    BY <1>1, <1>5 DEF InvokeReturns, Finalizer, Goto
  <2>2. f.k = "invoke" /\ f.c = c /\ f.pc \in {"final", "free"} /\ IsFrame(f)
    BY <1>1, <1>2, <1>3, <2>1 DEF IsFrame
  <2>3. /\ \E n : Changed(t, n, f)
        /\ Stacked' /\ \A d : d # c => SameFrames(d)
    BY <1>1, <1>2, <2>1, <2>2, BecomesPlaces
  <2>4. PICK n : Changed(t, n, f)
    BY <2>3
  <2>5. \A u, i : On(u, i) /\ F(u, i).c = c => u = t /\ i = n
    <3>1. Frames(c) = {Top(t)}
      BY <1>1, <1>5 DEF InvokeReturns
    <3>2. \A u, i : On(u, i) /\ F(u, i).c = c => F(u, i) \in Frames(c)
      BY DEF On, F, Frames, Range, Typed, Stacked, IsSequence
    <3>3. \A u, i : On(u, i) /\ F(u, i).c = c => F(u, i).k = "invoke"
      BY <1>2, <3>1, <3>2
    <3> QED BY <1>1, <1>2, <1>3, <2>4, <3>3 DEF Once, Changed
  <2>6. closure[c].callable /\ closure[c].state = "live" /\ closure[c].function /\ closure[c].refs = 1
    BY <1>1, <1>2, <1>3, <1>5 DEF InvokeFrame, Owned, Needed
  <2>7. closure'[c] = [closure[c] EXCEPT !.callable = FALSE, !.refs = 0] /\ closure'[c] \in Records
    <3>1. [closure[c] EXCEPT !.callable = FALSE] \in Records
      BY <1>3 DEF Records
    <3>2. closure'[c] = Drops([closure[c] EXCEPT !.callable = FALSE])
      BY <1>1, <1>3, <1>5 DEF InvokeReturns, Typed
    <3>3. PICK x : x = [closure[c] EXCEPT !.callable = FALSE]
      OBVIOUS
    <3>4. x \in Records /\ x.function /\ x.refs = 1
      BY <1>3, <2>6, <3>1, <3>3 DEF Records
    <3>5. closure'[c] = [x EXCEPT !.refs = 0] /\ closure'[c] \in Records
      BY <3>2, <1>3, <3>3, <3>4, DropsRecord
    <3> QED BY <3>3, <3>5
  <2>8. /\ ~closure'[c].callable /\ closure'[c].refs = 0
        /\ closure'[c].state = "live" /\ closure'[c].function
    BY <1>3, <2>6, <2>7 DEF Records
  <2>9. closure' \in [Closure -> Records] /\ \A d \in Closure \ {c} : closure'[d] = closure[d]
    BY <1>1, <1>5, <2>7 DEF InvokeReturns, Typed
  <2>10. Sound(c)'
    <3>1. \A u, i : On(u, i)' /\ F(u, i)'.c = c <=> u = t /\ i = n
      BY <2>2, <2>4, <2>5 DEF Changed
    <3>2. F(t, n)' = f
      BY <2>4 DEF Changed
    <3>3. Framed(c)' /\ Once(c)'
      BY <1>4, <1>5, <2>2, <2>8, <3>1, <3>2 DEF Framed, Once, InvokeFrame
    <3>4. ComesBack(F(t, n))' /\ ~Needed(c)'
      BY <1>4, <1>5, <2>2, <2>8, <3>1, <3>2 DEF ComesBack, Needed, Needs
    <3>5. ~OnList(c)
      BY <1>3, <1>5 DEF Listed
    <3> QED BY <1>4, <1>5, <2>8, <3>1, <3>3, <3>4, <3>5 DEF Owned, Accounted, Listed
  <2> QED BY <1>2, <1>3, <1>4, <2>3, <2>9, <2>10, OneClosure DEF Typed
<1>6. CASE Scope(c) # "call"
  <2>1. Pop(t) /\ closure' = closure
    BY <1>1, <1>6 DEF InvokeReturns
  <2>2. /\ \E n : Popped(t, n)
        /\ Stacked' /\ \A d : d # c => SameFrames(d)
    BY <1>1, <1>2, <2>1, PopPlaces
  <2>3. PICK n : Popped(t, n)
    BY <2>2
  <2>4. Sound(c)'
    <3>1. \A u, i : On(u, i)' => On(u, i) /\ F(u, i)' = F(u, i)
      BY <2>3 DEF Popped
    <3>2. \A u, i : On(u, i) /\ F(u, i).k # "invoke" => On(u, i)'
      BY <1>2, <2>3 DEF Popped
    <3>3. Framed(c)'
      BY <1>3, <1>4, <2>1, <3>1 DEF Framed, InvokeFrame, HandleFrame, FreeFrame, ComesBack
    <3>4. Once(c)'
      BY <1>3, <1>4, <3>1 DEF Once
    <3>5. Handled(c)' = Handled(c) /\ Needed(c)' = Needed(c)
      BY <2>1, <3>1, <3>2 DEF Handled, Needed, Needs
    <3>6. Owned(c)' /\ Listed(c)' /\ Accounted(c)'
      BY <1>3, <1>4, <1>6, <2>1, <3>1, <3>2, <3>5 DEF Owned, Listed, Accounted, ComesBack
    <3> QED BY <3>3, <3>4, <3>6
  <2> QED BY <1>2, <1>3, <1>4, <2>1, <2>2, <2>4, OneClosure DEF Typed
<1> QED BY <1>5, <1>6

\* The end of _pygi_closure_handle: an async closure drops its function, and is not on the list yet.
LEMMA HandleEndsStep ==
  ASSUME Inv, NEW t \in Threads, HandleEnds(t)
  PROVE  Inv'
<1> USE DEF Inv, Sound
<1>1. PICK c : c = Top(t).c
  OBVIOUS
<1>2. Busy(t) /\ Top(t).k = "handle" /\ Top(t).pc = "end" /\ program' = program /\ async_free_list' = async_free_list
  BY DEF HandleEnds, At, ListsLater
<1>3. c \in Closure /\ IsFrame(Top(t)) /\ HandleFrame(Top(t)) /\ closure[c] \in Records /\ closure[c].state = "live"
  BY <1>1, <1>2, TopFits DEF InvokeFrame, FreeFrame, Typed, ComesBack
<1>4. \A d : Scope(d)' = Scope(d) /\ (OnList(d)' <=> OnList(d))
  BY <1>2, SameProgram DEF OnList
<1>5. CASE Scope(c) = "async"
  <2>1. PICK f : (\E pc \in {"final", "list"} : f = [Top(t) EXCEPT !.pc = pc]) /\ Becomes(t, f)
    BY <1>1, <1>5 DEF HandleEnds, Finalizer, Goto
  <2>2. f.k = "handle" /\ f.c = c /\ f.pc \in {"final", "list"} /\ IsFrame(f)
    BY <1>1, <1>2, <1>3, <2>1 DEF IsFrame
  <2>3. /\ \E n : Changed(t, n, f)
        /\ Stacked' /\ \A d : d # c => SameFrames(d)
    BY <1>1, <1>2, <2>1, <2>2, BecomesPlaces
  <2>4. PICK n : Changed(t, n, f)
    BY <2>3
  <2>5. On(t, n) /\ F(t, n).c = c /\ F(t, n).k = "handle" /\ Needs(F(t, n))
    BY <1>1, <1>2, <2>4 DEF Changed, Needs
  <2>6. ~closure[c].callable /\ closure[c].function /\ closure[c].refs = 1 /\ ~OnList(c)
    BY <1>1, <1>2, <1>3, <1>5, <2>5 DEF HandleFrame, Owned, Needed, Handled, Listed
  <2>7. closure'[c] = [closure[c] EXCEPT !.refs = 0] /\ closure'[c] \in Records
    <3>1. closure'[c] = Drops(closure[c])
      BY <1>1, <1>3, <1>5 DEF HandleEnds, DropsData, Typed
    <3> QED BY <1>3, <2>6, <3>1, DropsRecord
  <2>8. /\ ~closure'[c].callable /\ closure'[c].refs = 0
        /\ closure'[c].state = "live" /\ closure'[c].function
    BY <1>3, <2>6, <2>7 DEF Records
  <2>9. closure' \in [Closure -> Records] /\ \A d \in Closure \ {c} : closure'[d] = closure[d]
    BY <1>1, <1>5, <2>7 DEF HandleEnds, Typed
  <2>10. Sound(c)'
    <3>1. \A u, i : On(u, i)' /\ F(u, i)'.c = c <=> On(u, i) /\ F(u, i).c = c
      BY <2>2, <2>4, <2>5 DEF Changed
    <3>2. /\ F(t, n)' = f
          /\ \A u, i : On(u, i) /\ ~(u = t /\ i = n) => F(u, i)' = F(u, i)
          /\ \A u, i : On(u, i) => F(u, i)'.k = F(u, i).k
      BY <2>2, <2>4, <2>5 DEF Changed
    <3>3. Once(c)'
      BY <1>3, <1>4, <3>1, <3>2 DEF Once
    <3>4. \A u, i : On(u, i) /\ F(u, i).c = c /\ ~(u = t /\ i = n) => InvokeFrame(F(u, i))
      <4> SUFFICES ASSUME NEW u, NEW i, On(u, i), F(u, i).c = c, ~(u = t /\ i = n)
                   PROVE  InvokeFrame(F(u, i))
        OBVIOUS
      <4>1. F(u, i).k # "handle"
        BY <1>3, <1>5, <2>5 DEF Once
      <4>2. InvokeFrame(F(u, i)) \/ HandleFrame(F(u, i)) \/ FreeFrame(F(u, i))
        BY <1>3 DEF Framed
      <4> QED BY <1>5, <4>1, <4>2 DEF HandleFrame, FreeFrame
    <3>5. Framed(c)'
      <4> SUFFICES ASSUME NEW u, NEW i, On(u, i), F(u, i).c = c
                   PROVE  (InvokeFrame(F(u, i)) \/ HandleFrame(F(u, i)) \/ FreeFrame(F(u, i)))'
        BY <2>8, <3>1 DEF Framed
      <4>1. CASE u = t /\ i = n
        BY <1>4, <1>5, <2>2, <2>8, <3>2, <4>1 DEF HandleFrame
      <4>2. CASE ~(u = t /\ i = n)
        BY <1>4, <1>5, <3>2, <3>4, <4>2 DEF InvokeFrame
      <4> QED BY <4>1, <4>2
    <3>6. ~Needed(c)' /\ Handled(c)'
      BY <2>2, <2>5, <2>8, <3>1, <3>2, <3>4 DEF Needed, Needs, Handled, InvokeFrame
    <3>7. ComesBack(F(t, n))'
      BY <2>2, <3>2 DEF ComesBack
    <3> QED BY <1>4, <1>5, <2>5, <2>6, <2>8, <3>1, <3>3, <3>5, <3>6, <3>7 DEF Owned, Accounted, Listed
  <2> QED BY <1>2, <1>3, <1>4, <2>3, <2>9, <2>10, OneClosure DEF Typed
<1>6. CASE Scope(c) # "async"
  <2>1. Pop(t) /\ closure' = closure
    BY <1>1, <1>6 DEF HandleEnds
  <2>2. /\ \E n : Popped(t, n)
        /\ Stacked' /\ \A d : d # c => SameFrames(d)
    BY <1>1, <1>2, <2>1, PopPlaces
  <2>3. PICK n : Popped(t, n)
    BY <2>2
  <2>4. closure[c].callable
    BY <1>1, <1>2, <1>3, <1>6 DEF HandleFrame
  <2>5. Sound(c)'
    <3>1. \A u, i : On(u, i)' => On(u, i) /\ F(u, i)' = F(u, i)
      BY <2>3 DEF Popped
    <3>2. Framed(c)'
      BY <1>3, <1>4, <2>1, <3>1 DEF Framed, InvokeFrame, HandleFrame, FreeFrame, ComesBack
    <3>3. Once(c)'
      BY <1>3, <1>4, <3>1 DEF Once
    <3>4. Owned(c)' /\ Listed(c)' /\ Accounted(c)'
      BY <1>3, <1>4, <1>6, <2>1, <2>4, <3>1 DEF Owned, Listed, Accounted, Needed
    <3> QED BY <3>2, <3>3, <3>4
  <2> QED BY <1>2, <1>3, <1>4, <2>1, <2>2, <2>5, OneClosure DEF Typed
<1> QED BY <1>5, <1>6

\* A closure is put on the list, where it was not.
LEMMA PutOnList ==
  ASSUME Inv, NEW c \in Closure, ~OnList(c), async_free_list' = <<c>> \o async_free_list
  PROVE  /\ async_free_list' \in Seq(Closure) /\ IsInjective(async_free_list')
         /\ \A d : OnList(d)' <=> OnList(d) \/ d = c
<1>1. async_free_list \in Seq(Closure) /\ IsInjective(async_free_list)
  BY DEF Inv, Typed
<1>2. /\ async_free_list' \in Seq(Closure) /\ Len(async_free_list') = Len(async_free_list) + 1
      /\ async_free_list'[1] = c
      /\ \A i \in 1 .. Len(async_free_list) : async_free_list'[i + 1] = async_free_list[i]
  BY <1>1
<1>3. /\ DOMAIN async_free_list = 1 .. Len(async_free_list)
      /\ DOMAIN async_free_list' = 1 .. Len(async_free_list) + 1
      /\ Len(async_free_list) \in Nat
  BY <1>1, <1>2
<1>4. \A i \in DOMAIN async_free_list' : i # 1 => i - 1 \in DOMAIN async_free_list /\ async_free_list'[i] = async_free_list[i - 1]
  <2> SUFFICES ASSUME NEW i \in DOMAIN async_free_list', i # 1
               PROVE  i - 1 \in DOMAIN async_free_list /\ async_free_list'[i] = async_free_list[i - 1]
    OBVIOUS
  <2>1. i - 1 \in 1 .. Len(async_free_list) /\ (i - 1) + 1 = i
    BY <1>3
  <2>2. async_free_list'[(i - 1) + 1] = async_free_list[i - 1]
    BY <1>2, <2>1
  <2> QED BY <1>3, <2>1, <2>2
<1>5. \A i \in DOMAIN async_free_list : async_free_list[i] # c
  BY DEF OnList, Range
<1>6. IsInjective(async_free_list')
  <2> SUFFICES ASSUME NEW i \in DOMAIN async_free_list', NEW j \in DOMAIN async_free_list',
                      async_free_list'[i] = async_free_list'[j]
               PROVE  i = j
    BY DEF IsInjective
  <2>1. i = 1 <=> j = 1
    BY <1>2, <1>4, <1>5
  <2>2. CASE i # 1
    <3>1. i - 1 \in DOMAIN async_free_list /\ j - 1 \in DOMAIN async_free_list
      BY <1>4, <2>1, <2>2
    <3>2. async_free_list'[i] = async_free_list[i - 1] /\ async_free_list'[j] = async_free_list[j - 1]
      BY <1>4, <2>1, <2>2
    <3>3. i - 1 = j - 1
      BY <1>1, <3>1, <3>2 DEF IsInjective
    <3> QED BY <1>3, <3>3
  <2> QED BY <2>1, <2>2
<1>7. ASSUME NEW d
      PROVE  OnList(d)' <=> OnList(d) \/ d = c
  <2>1. ASSUME OnList(d)'
        PROVE  OnList(d) \/ d = c
    <3>1. PICK i \in DOMAIN async_free_list' : async_free_list'[i] = d
      BY <2>1 DEF OnList, Range
    <3> QED BY <1>2, <1>4, <3>1 DEF OnList, Range
  <2>2. ASSUME OnList(d)
        PROVE  OnList(d)'
    <3>1. PICK i \in DOMAIN async_free_list : async_free_list[i] = d
      BY <2>2 DEF OnList, Range
    <3>2. i + 1 \in DOMAIN async_free_list' /\ async_free_list'[i + 1] = d
      BY <1>2, <1>3, <3>1
    <3> QED BY <3>2 DEF OnList, Range
  <2>3. 1 \in DOMAIN async_free_list'
    BY <1>3
  <2>4. OnList(c)'
    BY <1>2, <2>3 DEF OnList, Range
  <2> QED BY <2>1, <2>2, <2>4
<1> QED BY <1>2, <1>6, <1>7

\* The last thing that _pygi_closure_handle does: the async closure is on the list.
LEMMA HandleListsStep ==
  ASSUME Inv, NEW t \in Threads, HandleLists(t)
  PROVE  Inv'
<1> USE DEF Inv, Sound
<1>1. PICK c : c = Top(t).c
  OBVIOUS
<1>2. Busy(t) /\ Top(t).k = "handle" /\ Top(t).pc = "list" /\ program' = program
  BY DEF HandleLists, At
<1>3. c \in Closure /\ IsFrame(Top(t)) /\ HandleFrame(Top(t)) /\ closure[c] \in Records /\ closure[c].state = "live"
  BY <1>1, <1>2, TopFits DEF InvokeFrame, FreeFrame, Typed, ComesBack
<1>4. Scope(c) = "async" /\ ~closure[c].callable /\ \A d : Scope(d)' = Scope(d)
  BY <1>1, <1>2, <1>3, SameProgram DEF HandleFrame
<1>5. /\ \E n : Popped(t, n)
      /\ Stacked' /\ \A d : d # c => SameFrames(d)
  BY <1>1, <1>2, PopPlaces DEF HandleLists
<1>6. PICK n : Popped(t, n)
  BY <1>5
<1>7. On(t, n) /\ F(t, n) = Top(t) /\ \A u, i : On(u, i)' <=> On(u, i) /\ ~(u = t /\ i = n)
  BY <1>6 DEF Popped
<1>8. ~OnList(c)
  BY <1>1, <1>2, <1>3, <1>7 DEF Listed, Handled
<1>9. async_free_list' = <<c>> \o async_free_list
  BY <1>1, <1>8 DEF HandleLists, OnList
<1>10. /\ async_free_list' \in Seq(Closure) /\ IsInjective(async_free_list')
       /\ \A d : OnList(d)' <=> OnList(d) \/ d = c
  BY <1>3, <1>8, <1>9, PutOnList
<1>11. closure'[c] = [closure[c] EXCEPT !.function = FALSE] /\ closure'[c] \in Records
  <2>1. closure'[c] = [closure[c] EXCEPT !.function = FALSE]
    BY <1>1, <1>3 DEF HandleLists, Forgets, Typed
  <2> QED BY <1>3, <2>1 DEF Records
<1>12. /\ ~closure'[c].callable /\ closure'[c].refs = closure[c].refs
       /\ closure'[c].state = "live" /\ ~closure'[c].function
  BY <1>3, <1>4, <1>11 DEF Records
<1>13. closure' \in [Closure -> Records] /\ \A d \in Closure \ {c} : closure'[d] = closure[d]
  BY <1>1, <1>11 DEF HandleLists, Typed
<1>14. Sound(c)'
  <2>1. \A u, i : On(u, i)' => On(u, i) /\ F(u, i)' = F(u, i)
    BY <1>6 DEF Popped
  <2>2. \A u, i : On(u, i)' /\ F(u, i).c = c => InvokeFrame(F(u, i)) /\ F(u, i).k = "invoke"
    BY <1>1, <1>2, <1>3, <1>4, <1>7 DEF Framed, Once, FreeFrame, HandleFrame, InvokeFrame
  <2>3. ~Handled(c)' /\ ~Needed(c)' /\ ~Needed(c)
    <3>1. ~Handled(c)'
      BY <2>1, <2>2 DEF Handled
    <3>2. ~Needed(c)'
      BY <1>12, <2>1, <2>2 DEF Needed, Needs
    <3>3. ~Needed(c)
      BY <1>1, <1>2, <1>4, <1>7, <2>2 DEF Needed, Needs
    <3> QED BY <3>1, <3>2, <3>3
  <2>4. Framed(c)'
    BY <1>3, <1>4, <1>12, <2>1, <2>2 DEF Framed, InvokeFrame
  <2>5. Once(c)'
    BY <1>3, <1>4, <2>1 DEF Once
  <2> QED BY <1>3, <1>4, <1>10, <1>12, <2>3, <2>4, <2>5 DEF Owned, Accounted, Listed
<1> QED BY <1>2, <1>3, <1>5, <1>10, <1>13, <1>14, OneClosure

\* The destroy notification of a closure, which nobody is in.
LEMMA DestroyStep ==
  ASSUME Inv, NEW t \in Threads, NEW c \in Closure, Destroy(t, c)
  PROVE  Inv'
<1> USE DEF Inv, Sound
<1>1. PICK f : (\E pc \in {"final", "free"} : f = Frame("free", c, pc)) /\ Push(t, f)
  BY DEF Destroy, Finalizer
<1>2. f.k = "free" /\ f.c = c /\ f.pc \in {"final", "free"} /\ IsFrame(f)
  BY <1>1 DEF Frame, IsFrame
<1>3. /\ program' = program /\ async_free_list' = async_free_list /\ closure[c] \in Records
      /\ closure[c].callable /\ Scope(c) = "notified"
  BY DEF Destroy, Typed
<1>4. \A d : Scope(d)' = Scope(d) /\ (OnList(d)' <=> OnList(d))
  BY <1>3, SameProgram DEF OnList
<1>5. closure[c].state = "live" /\ closure[c].function /\ closure[c].refs = 1 /\ ~OnList(c)
  BY <1>3 DEF Owned, Needed, Listed
<1>6. /\ \E n : Pushed(t, n, f)
      /\ Stacked' /\ \A d : d # c => SameFrames(d)
  BY <1>1, <1>2, <1>3, PushPlaces
<1>7. PICK n : Pushed(t, n, f)
  BY <1>6
<1>8. \A u, i : On(u, i) /\ F(u, i).c = c => InvokeFrame(F(u, i)) /\ F(u, i).k = "invoke"
  <2>1. \A u, i : On(u, i) /\ F(u, i).c = c => F(u, i) \in Frames(c)
    BY DEF On, F, Frames, Range, Typed, Stacked, IsSequence
  <2>2. \A u, i : On(u, i) /\ F(u, i).c = c => F(u, i).k = "invoke"
    BY <2>1 DEF Destroy
  <2> QED BY <2>2 DEF Framed, HandleFrame, FreeFrame
<1>9. closure'[c] = [closure[c] EXCEPT !.callable = FALSE, !.refs = 0] /\ closure'[c] \in Records
  <2>1. [closure[c] EXCEPT !.callable = FALSE] \in Records
    BY <1>3 DEF Records
  <2>2. closure'[c] = Drops([closure[c] EXCEPT !.callable = FALSE])
    BY DEF Destroy, Typed
  <2>3. PICK x : x = [closure[c] EXCEPT !.callable = FALSE]
    OBVIOUS
  <2>4. x \in Records /\ x.function /\ x.refs = 1
    BY <1>3, <1>5, <2>1, <2>3 DEF Records
  <2>5. closure'[c] = [x EXCEPT !.refs = 0] /\ closure'[c] \in Records
    BY <2>2, <1>3, <2>3, <2>4, DropsRecord
  <2> QED BY <2>3, <2>5
<1>10. /\ ~closure'[c].callable /\ closure'[c].refs = 0
       /\ closure'[c].state = "live" /\ closure'[c].function
  BY <1>3, <1>5, <1>9 DEF Records
<1>11. closure' \in [Closure -> Records] /\ \A d \in Closure \ {c} : closure'[d] = closure[d]
  BY <1>9 DEF Destroy, Typed
<1>12. Sound(c)'
  <2>1. /\ F(t, n)' = f /\ On(t, n)'
        /\ \A u, i : On(u, i)' => (u = t /\ i = n) \/ (On(u, i) /\ F(u, i)' = F(u, i))
    BY <1>7 DEF Pushed
  <2>2. Framed(c)'
    <3> SUFFICES ASSUME NEW u, NEW i, On(u, i)', F(u, i)'.c = c
                 PROVE  (InvokeFrame(F(u, i)) \/ HandleFrame(F(u, i)) \/ FreeFrame(F(u, i)))'
      BY <1>10 DEF Framed
    <3>1. CASE u = t /\ i = n
      BY <1>2, <1>3, <1>4, <1>10, <2>1, <3>1 DEF FreeFrame
    <3>2. CASE ~(u = t /\ i = n)
      BY <1>3, <1>4, <1>8, <2>1, <3>2 DEF InvokeFrame
    <3> QED BY <3>1, <3>2
  <2>3. Once(c)'
    BY <1>2, <1>4, <1>8, <2>1 DEF Once
  <2>4. ~Needed(c)' /\ ComesBack(F(t, n))' /\ F(t, n)'.c = c
    BY <1>2, <1>8, <1>10, <2>1 DEF Needed, Needs, ComesBack
  <2> QED BY <1>3, <1>4, <1>5, <1>10, <2>1, <2>2, <2>3, <2>4 DEF Owned, Accounted, Listed
<1> QED BY <1>3, <1>4, <1>6, <1>11, <1>12, OneClosure DEF Typed

\* _pygi_invoke_closure_free ends, for a closure of scope "call" or one that was destroyed.
LEMMA FreesStep ==
  ASSUME Inv, NEW t \in Threads, Frees(t)
  PROVE  Inv'
<1> USE DEF Inv, Sound
<1>1. PICK c : c = Top(t).c
  OBVIOUS
<1>2. Busy(t) /\ Top(t).pc = "free" /\ program' = program /\ async_free_list' = async_free_list
  BY DEF Frees
<1>3. /\ c \in Closure /\ IsFrame(Top(t)) /\ closure[c] \in Records
      /\ \/ Top(t).k = "invoke" /\ InvokeFrame(Top(t)) /\ Scope(c) = "call"
         \/ Top(t).k = "free" /\ FreeFrame(Top(t)) /\ Scope(c) = "notified"
  BY <1>1, <1>2, TopFits DEF InvokeFrame, HandleFrame, FreeFrame, Typed
<1>4. ~closure[c].callable /\ closure[c].state = "live"
  BY <1>1, <1>2, <1>3, TopFits DEF InvokeFrame, FreeFrame, ComesBack
<1>5. \A d : Scope(d)' = Scope(d) /\ (OnList(d)' <=> OnList(d))
  BY <1>2, SameProgram DEF OnList
<1>6. /\ \E n : Popped(t, n)
      /\ Stacked' /\ \A d : d # c => SameFrames(d)
  BY <1>1, <1>2, PopPlaces DEF Frees
<1>7. PICK n : Popped(t, n)
  BY <1>6
<1>8. On(t, n) /\ F(t, n) = Top(t) /\ \A u, i : On(u, i)' <=> On(u, i) /\ ~(u = t /\ i = n)
  BY <1>7 DEF Popped
<1>9. \A u, i : On(u, i)' => On(u, i) /\ F(u, i)' = F(u, i)
  BY <1>7 DEF Popped
\* The other frames are invocations that the closure was passed to and that do not come back to it.
<1>10. \A u, i : On(u, i)' /\ F(u, i).c = c => InvokeFrame(F(u, i)) /\ Scope(c) = "notified" /\ F(u, i).k = "invoke"
  BY <1>1, <1>3, <1>4, <1>8 DEF Framed, Once, FreeFrame, HandleFrame, InvokeFrame
<1>11. closure'[c] = [closure[c] EXCEPT !.function = FALSE, !.state = "freed"] /\ closure'[c] \in Records
  <2>1. closure'[c] = Release(Forgets(closure[c]))
    BY <1>1, <1>3 DEF Frees, Typed
  <2>2. closure'[c] = [closure[c] EXCEPT !.function = FALSE, !.state = "freed"]
    BY <1>3, <1>4, <2>1 DEF Release, Forgets, Records
  <2> QED BY <1>3, <2>2 DEF Records
<1>12. /\ ~closure'[c].callable /\ closure'[c].refs = closure[c].refs
       /\ closure'[c].state = "freed" /\ ~closure'[c].function
  BY <1>3, <1>4, <1>11 DEF Records
<1>13. closure' \in [Closure -> Records] /\ \A d \in Closure \ {c} : closure'[d] = closure[d]
  BY <1>1, <1>11 DEF Frees, Typed
<1>14. Sound(c)'
  <2>1. Framed(c)'
    BY <1>5, <1>9, <1>10, <1>12 DEF Framed, InvokeFrame, ComesBack
  <2>2. Once(c)'
    BY <1>3, <1>5, <1>9 DEF Once
  <2>3. ~Needed(c)' /\ ~Needed(c)
    <3>1. ~Needed(c)'
      BY <1>9, <1>10, <1>12 DEF Needed, Needs
    <3>2. ~Needed(c)
      BY <1>1, <1>3, <1>4, <1>8, <1>10 DEF Needed, Needs
    <3> QED BY <3>1, <3>2
  <2>4. ~OnList(c)
    BY <1>3 DEF Listed
  <2> QED BY <1>3, <1>5, <1>12, <2>1, <2>2, <2>3, <2>4 DEF Owned, Accounted, Listed
<1> QED BY <1>2, <1>3, <1>5, <1>6, <1>13, <1>14, OneClosure DEF Typed

LEMMA StutterStep ==
  ASSUME Inv, UNCHANGED vars
  PROVE  Inv'
<1>1. \A c \in Closure : Sound(c)'
  <2> SUFFICES ASSUME NEW c \in Closure PROVE Sound(c)'
    OBVIOUS
  <2>1. SameFrames(c) /\ (OnList(c)' <=> OnList(c))
    BY DEF vars, SameFrames, On, F, OnList
  <2> QED BY <2>1, OtherClosures DEF vars
<1>2. Typed'
  BY SameProgram DEF vars, Inv, Typed, Stacked, On, F
<1> QED BY <1>1, <1>2, SameProgram DEF Inv, vars

LEMMA NextInv ==
  ASSUME Inv, [Next]_vars
  PROVE  Inv'
<1>1. ASSUME NEW t \in Threads, NEW c \in Closure, Invoke(t, c) \/ Calls(t, c) \/ Destroy(t, c)
      PROVE  Inv'
  BY <1>1, InvokeStep, CallsStep, DestroyStep
<1>2. ASSUME NEW t \in Threads, NEW r \in program.results, Returns(t, r)
      PROVE  Inv'
  BY <1>2, ReturnsStep
<1>3. ASSUME NEW t \in Threads,
             InvokeReturns(t) \/ Enter(t) \/ HandleEnds(t) \/ HandleLists(t) \/ FinalizerEnds(t) \/ Frees(t)
      PROVE  Inv'
  BY <1>3, InvokeReturnsStep, EnterStep, HandleEndsStep, HandleListsStep, FinalizerEndsStep, FreesStep
<1> QED BY <1>1, <1>2, <1>3, StutterStep DEF Next, Step

-----------------------------------------------------------------------------
(* The theorems *)

\* The inductive invariant.
THEOREM LifetimeInvariance == Spec => []Inv
BY InitInv, NextInv, PTL DEF Spec

\* A frame is in Frames(c) if it is at some place.
LEMMA FramePlaces ==
  ASSUME Typed, NEW c
  PROVE  \A f : f \in Frames(c) <=> \E t, i : On(t, i) /\ F(t, i).c = c /\ F(t, i) = f
<1> SUFFICES ASSUME NEW f
             PROVE  f \in Frames(c) <=> \E t, i : On(t, i) /\ F(t, i).c = c /\ F(t, i) = f
  OBVIOUS
<1>1. \A t \in Threads : f \in Range(stack[t]) <=> \E i : On(t, i) /\ F(t, i) = f
  BY DEF Typed, Stacked, IsSequence, On, F, Range
<1>2. \A t, i : On(t, i) => t \in Threads
  BY DEF On
<1> QED BY <1>1, <1>2 DEF Frames

\* Every closure owns its function once or not at all, is freed once, and is on the list only if it
\* is async, whatever the threads do; a frame is one of those the code has.
THEOREM TypeOKAlways == Spec => []TypeOK
<1>1. Inv => TypeOK
  <2> SUFFICES ASSUME Inv PROVE TypeOK
    OBVIOUS
  <2>1. \A c \in Closure : closure[c] \in Records
    BY DEF Inv, Typed
  <2>2. Range(async_free_list) \subseteq {c \in Closure : Scope(c) = "async"}
    <3>1. \A c : OnList(c) => c \in Closure
      BY DEF Inv, Typed, OnList, Range
    <3> QED BY <3>1 DEF Inv, Sound, Listed, OnList
  <2>3. ASSUME NEW t \in Threads, NEW f \in Range(stack[t])
        PROVE  /\ f.k \in {"invoke", "handle", "free"} /\ f.c \in Closure
               /\ f.pc \in {"native", "enter", "python", "end", "final", "list", "free"}
    <3>1. PICK i : On(t, i) /\ F(t, i) = f
      BY DEF Inv, Typed, Stacked, IsSequence, On, F, Range
    <3>2. f.c \in Closure
      BY <3>1 DEF Inv, Typed, Stacked
    <3> QED BY <3>1, <3>2 DEF Inv, Sound, Framed, InvokeFrame, HandleFrame, FreeFrame
  <2> QED BY <2>1, <2>2, <2>3 DEF TypeOK, Records
<1> QED BY <1>1, LifetimeInvariance, PTL

\* No closure is freed while native code may call it or a frame comes back to it: whichever thread
\* makes a closure and frees those on the list, and whatever a finalizer does at the end of a call.
THEOREM NeverFreedInUseAlways == Spec => []NeverFreedInUse
<1>1. Inv => NeverFreedInUse
  <2> SUFFICES ASSUME Inv, NEW c \in Closure, InUse(c) PROVE closure[c].state = "live"
    BY DEF NeverFreedInUse
  <2> QED BY FramePlaces DEF Inv, Sound, Owned, Framed, InUse
<1> QED BY <1>1, LifetimeInvariance, PTL

\* The Python function is held exactly as long as native code may call the closure or a call of it
\* has not ended.
THEOREM FunctionHeldAlways == Spec => []FunctionHeld
<1>1. Inv => FunctionHeld
  <2> SUFFICES ASSUME Inv, NEW c \in Closure
               PROVE  closure[c].refs = IF closure[c].callable \/ (\E f \in Frames(c) : Needs(f)) THEN 1 ELSE 0
    BY DEF FunctionHeld
  <2>1. closure[c].refs \in 0 .. 1
    BY DEF Inv, Typed, Records
  <2>2. Needed(c) <=> closure[c].callable \/ (\E f \in Frames(c) : Needs(f))
    BY FramePlaces DEF Inv, Needed
  <2> QED BY <2>1, <2>2 DEF Inv, Sound, Owned
<1> QED BY <1>1, LifetimeInvariance, PTL

\* What waits to be freed is on the list, once, and nothing else is: no async closure is leaked, and
\* none is freed twice.
THEOREM EndedAreListedAlways == Spec => []EndedAreListed
<1>1. Inv => EndedAreListed
  <2> SUFFICES ASSUME Inv PROVE EndedAreListed
    OBVIOUS
  <2>1. ASSUME NEW c
        PROVE  OnList(c) <=> c \in Closure /\ closure[c].state = "live" /\ ~InUse(c)
    <3>1. ASSUME OnList(c)
          PROVE  c \in Closure /\ closure[c].state = "live" /\ ~InUse(c)
      <4>1. c \in Closure
        BY <3>1 DEF Inv, Typed, OnList, Range
      <4>2. Scope(c) = "async" /\ closure[c].state = "live" /\ ~closure[c].callable /\ ~Handled(c)
        BY <3>1, <4>1 DEF Inv, Sound, Listed
      <4>3. \A t, i : On(t, i) /\ F(t, i).c = c => F(t, i).k = "invoke" /\ ~ComesBack(F(t, i))
        BY <4>1, <4>2 DEF Inv, Sound, Framed, InvokeFrame, HandleFrame, FreeFrame, Handled, ComesBack
      <4> QED BY <4>1, <4>2, <4>3, FramePlaces DEF Inv, InUse
    <3>2. ASSUME c \in Closure, closure[c].state = "live", ~InUse(c)
          PROVE  OnList(c)
      BY <3>2, FramePlaces DEF Inv, Sound, Accounted, InUse
    <3> QED BY <3>1, <3>2
  <2> QED BY <2>1 DEF EndedAreListed, Inv, OnList
<1> QED BY <1>1, LifetimeInvariance, PTL
=============================================================================
