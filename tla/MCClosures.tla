------------------------------ MODULE MCClosures ------------------------------
(* Instances of Closures for TLC. *)
EXTENDS Closures

Symmetry == Permutations(Objs) \cup Permutations(Closures) \cup Permutations(Threads)

\* For the liveness run: native code owns, and threads emit signals on, one of the
\* objects only; the other ones are in its reach through handlers.
Outer == CHOOSE o \in Objs : TRUE
OuterOnly == \A o \in Objs \ {Outer} : ~native'[o] /\ \A t \in Threads : tobj'[t] # o
MCFairSpec == Init /\ [][Next /\ OuterOnly]_vars /\ Fairness
=============================================================================
