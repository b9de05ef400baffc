------------------------------ MODULE Cleanup ------------------------------
(***************************************************************************)
(* Which parts of an argument its cleanup function gives back              *)
(* (pygi-marshal-cleanup.c).  "processed" and "failed" are the function's  *)
(* was_processed and the state's failed.                                   *)
(***************************************************************************)
EXTENDS ArgTypes

(***************************************************************************)
(* An argument that went from Python to C.  "v" is the Python value: the   *)
(* cleanup of a GValue looks at what it was made from.                     *)
(***************************************************************************)
ScalarFromFrees(e, processed, failed, v) ==
  CASE e.tag \in {"utf8", "filename"} -> processed
    [] e.tag = "object" -> processed /\ failed /\ e.transfer = "everything"
    [] e.tag = "callback" -> processed /\ e.scope = "call"
    [] e.tag = "gvalue" -> processed /\ v.py # "gvalue"
    [] e.tag = "foreign" -> processed /\ failed
    [] OTHER -> FALSE

\* _wrap_c_array: how many items of a C array are known.
WrapLength(e, v) ==
  LET nulls == {k \in DOMAIN v.items : v.items[k].py = "none"}
  IN  CASE e.fixed >= 0 -> e.fixed
        [] e.fixed < 0 /\ e.zero /\ nulls # {} -> Min(nulls) - 1
        [] e.fixed < 0 /\ e.len < 0 /\ ~e.zero -> 0
        [] OTHER -> Len(v.items)
KnownItems(e, v) == IF e.tag = "array" /\ e.atype = "C" THEN WrapLength(e, v) ELSE Len(v.items)

FromItemFreed(e, k, processed, failed, v) ==
  /\ processed
  /\ k <= KnownItems(e, v)
  /\ ScalarFromFrees(ItemCache(e), TRUE, failed, v.items[k])

\* Mutants: an array is freed although it was given away; a list stays after a failure.
FromArrayAlways(e, processed, failed) == processed
FromListKept(e, processed, failed) == processed /\ e.transfer # "everything"
\* A C array is freed unless it was given away, another one also after a failure.
FromArrayFreed(e, processed, failed) ==
  processed /\ (e.transfer = "nothing" \/ (failed /\ e.atype # "C"))
\* Lists and hash tables stay only if they were given away with their items.
FromListFreed(e, processed, failed) == processed /\ (failed \/ e.transfer # "everything")
FromHashFreed(e, processed, failed) == processed /\ (failed \/ e.transfer # "everything")

FromPyFrees(e, part, processed, failed, v) ==
  CASE part # Data -> FromItemFreed(e, part, processed, failed, v)
    [] part = Data /\ e.tag = "array" -> FromArrayFreed(e, processed, failed)
    [] part = Data /\ e.tag \in {"glist", "gslist"} -> FromListFreed(e, processed, failed)
    [] part = Data /\ e.tag = "ghash" -> FromHashFreed(e, processed, failed)
    [] OTHER -> ScalarFromFrees(e, processed, failed, v)

-----------------------------------------------------------------------------
(***************************************************************************)
(* A value that went from C to Python.                                     *)
(***************************************************************************)
\* Mutant: a string that has become a Python string is not freed.
ScalarToUnprocessed(e, processed) ==
  ~processed /\ e.transfer = "everything" /\ HasToCleanup(e.tag)
ScalarToFrees(e, processed) ==
  CASE e.tag \in {"utf8", "filename"} -> e.transfer = "everything"
    [] e.tag \in {"object", "foreign"} -> ~processed /\ e.transfer = "everything"
    [] OTHER -> FALSE

Transferred(e) == e.transfer \in {"everything", "container"}
ToArrayFreed(e, part, processed) ==
  Transferred(e) /\ (part = Data \/ ScalarToFrees(ItemCache(e), processed))
ToListFreed(e, part, processed) ==
  IF part = Data THEN e.transfer = "everything"
  ELSE Transferred(e) /\ ScalarToFrees(ItemCache(e), processed)
\* The table frees its keys and values itself.
ToHashFreed(e) == e.transfer = "everything"

ToPyFrees(e, part, processed) ==
  CASE e.tag = "array" -> ToArrayFreed(e, part, processed)
    [] e.tag \in {"glist", "gslist"} -> ToListFreed(e, part, processed)
    [] e.tag = "ghash" -> ToHashFreed(e)
    [] OTHER -> ScalarToFrees(e, processed)

\* _cleanup_caller_allocates: what was allocated for the callee to fill in belongs to
\* the Python value afterwards, but for a GValue, which has been converted.
CallerFrees(e, processed) == ~processed \/ e.tag = "gvalue"
=============================================================================
