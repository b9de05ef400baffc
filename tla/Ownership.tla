----------------------------- MODULE Ownership -----------------------------
(***************************************************************************)
(* Who has to give back what.  The cleanup is right for some callables and *)
(* not for others: each clause here names an annotation that it gets       *)
(* wrong, and the theorems about the ledger of Invoke have these as their  *)
(* hypotheses.                                                             *)
(***************************************************************************)
EXTENDS Invoke

Copies == {"utf8", "filename", "gvalue"}
Lists == {"glist", "gslist", "ghash"}
Containers == {"array", "glist", "gslist", "ghash"}
Wrapped == {"object", "boxed", "struct"}

(***************************************************************************)
(* Nothing is freed that has been given away.  What is copied, or made for *)
(* the call, is freed after it, given away or not; a list that is given    *)
(* away without its items is freed, and so are copies in a container that  *)
(* is given away.  A hash table frees the items that wrappers have taken   *)
(* over; a return value that is skipped is not what is freed for it.  An    *)
(* item is a container's.                                                  *)
(***************************************************************************)
KeptOrGiven(a) ==
  /\ a.tag \in Copies \cup {"callback"} => a.transfer = "nothing"
  /\ a.tag \in Lists => a.transfer # "container"
  /\ a.tag \in Containers /\ a.transfer = "everything" => a.item \notin Copies
Careful(s) ==
  /\ \A i \in ArgsOf(s) : WayOf(s, i) = "from" => KeptOrGiven(ArgOf(s, i))
  /\ \A i \in ArgsOf(s) \cup {-1} :
       LET a == ArgOf(s, i)
       IN  /\ a.tag \notin Containers => ~OwnedTag(a.item)
           /\ a.tag = "ghash" /\ a.transfer = "everything" => a.item \notin Wrapped
  /\ s.skip /\ HasToCleanup(s.ret.tag) => s.ret.transfer # "everything"
AllCareful == \A s \in Sigs : Careful(s)

\* The items of a C array that the callee gives back have a Python form.
Convertible(a, cv) == a.tag = "array" /\ a.atype = "C" => cv.n < 0 \/ cv.k = "null" \/ a.item = "uint8"
ItemsConvert ==
  \A s \in Sigs : \A i \in ArgsOf(s) \cup {-1} : \A cv \in Outputs(ArgOf(s, i)) : Convertible(ArgOf(s, i), cv)

\* A value that the callee gives back is of a kind, has so many items, and a field for the argument it comes for.
OutputsOK ==
  \A s \in Sigs : \A i \in ArgsOf(s) \cup {-1} : \A cv \in Outputs(ArgOf(s, i)) :
    {"k", "n", "items", "of"} \subseteq DOMAIN cv /\ cv.n \in Int /\ cv.items \in Nat

(***************************************************************************)
(* Everything is given back.  The items of a C array are found again, if   *)
(* their number is known; a reference on a boxed item, which the container *)
(* would have given away, is not given back when the call fails.           *)
(***************************************************************************)
Findable(a) ==
  a.tag = "array" /\ a.atype = "C" /\ a.item \in Copies /\ a.transfer # "everything" =>
    a.fixed \in Int /\ (a.fixed >= 0 \/ a.len >= 0 \/ a.zero)
Recoverable(s) ==
  \A i \in ArgsOf(s) :
    WayOf(s, i) = "from" =>
      LET a == ArgOf(s, i)
      IN  Findable(a) /\ (a.tag \in Containers /\ a.transfer = "everything" => a.item # "boxed")
AllRecoverable == \A s \in Sigs : Recoverable(s)

(***************************************************************************)
(* Nothing of the caller's is left when the call has succeeded.  What goes *)
(* both ways is not looked at again, unless it is a C array that stays     *)
(* ours; of what the caller allocates only a boxed value and a GValue have *)
(* an owner afterwards; containers given away without their items, foreign *)
(* structures and containers in containers are nobody's, and so is a       *)
(* return value that is skipped.  The value of a length is not looked at.  *)
(***************************************************************************)
StaysOurs(e) == e.tag = "array" /\ e.atype = "C" /\ e.transfer = "nothing"
TidyIn(s, i) ==
  LET a == ArgOf(s, i)
  IN  /\ FromPython(WayOf(s, i)) =>
           Findable(a) /\ (a.tag = "array" => a.transfer \in {"nothing", "container", "everything"})
      /\ WayOf(s, i) = "both" /\ a.tag \in Copies \cup Containers => a.transfer = "everything" \/ StaysOurs(a)
      /\ WayOf(s, i) = "to" /\ a.caller /\ a.tag \in Interfaces \cup {"array"} => a.tag \in {"boxed", "gvalue"}
TidyOut(s, i) ==
  LET a == ArgOf(s, i)
  IN  ToPython(WayOf(s, i)) =>
        /\ a.transfer = "container" => ~OwnedTag(a.tag) \/ a.tag = "array"
        /\ a.transfer = "everything" =>
             a.tag # "foreign" /\ (a.tag \in Containers \ {"ghash"} => a.item \notin Containers \cup {"foreign"})
        /\ HasLengthArg(s, i) => ~OwnedTag(ArgOf(s, LengthAt(s, i)).tag)
Tidy(s) ==
  /\ \A i \in ArgsOf(s) : TidyIn(s, i)
  /\ \A i \in ArgsOf(s) \cup {-1} : TidyOut(s, i)
  /\ s.skip /\ OwnedTag(s.ret.tag) => s.ret.transfer \notin {"everything", "container"}
AllTidy == \A s \in Sigs : Tidy(s)

\* A GValue is not passed for one, no None in an array that ends with NULL, bytes only as bytes.
PlainFor(e) ==
  \A v \in Inputs(e) :
    /\ e.tag = "gvalue" => v.py # "gvalue"
    /\ \A k \in DOMAIN v.items : /\ e.item = "gvalue" => v.items[k].py # "gvalue"
                                 /\ e.tag = "array" /\ e.zero => v.items[k].py # "none"
    /\ e.tag = "array" /\ v.py = "bytes" => e.item = "uint8"
PlainValues == \A e : PlainFor(e)
=============================================================================
