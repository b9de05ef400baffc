------------------------------ MODULE MCWrapper ------------------------------
(* Wrapper on small instances: symmetric sets of objects and wrappers. *)
EXTENDS Wrapper, TLC

Symmetry == Permutations(Objs) \cup Permutations(Wraps)
=============================================================================
