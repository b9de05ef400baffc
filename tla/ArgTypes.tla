------------------------------ MODULE ArgTypes ------------------------------
(***************************************************************************)
(* What the cache of a callable and the marshallers share: the types of    *)
(* arguments and the entry the cache keeps of one (PyGIArgCache).          *)
(***************************************************************************)
EXTENDS Integers, SequencesExt, FiniteSetsExt

(***************************************************************************)
(* What the introspection data says of an argument (or of the return       *)
(* value).  "len", "closure" and "destroy" are -1 or the argument, in the  *)
(* numbering of the introspection data, that holds the length of an array, *)
(* the user data or the destroy notification of a callback.  "tag" names   *)
(* the type tag, or the kind of interface for interface types; "unknown"   *)
(* is an interface whose Python type cannot be imported.                   *)
(***************************************************************************)
IntTags == {"int8", "uint8", "int16", "uint16", "int32", "uint32", "int64", "uint64"}
Interfaces == {"object", "boxed", "gvalue", "struct", "foreign", "enum", "flags",
               "callback", "unknown"}

\* A zeroed PyGIArgCache.
Blank ==
  [meta |-> "parent", dir |-> "to", tag |-> "void", transfer |-> "nothing",
   py |-> 0, c |-> 0, caller |-> FALSE, none |-> FALSE, named |-> FALSE,
   from |-> FALSE, to |-> FALSE, fromClean |-> FALSE, toClean |-> FALSE,
   len |-> -1, ud |-> -1, destroy |-> -1, scope |-> "call", item |-> "void",
   atype |-> "C", fixed |-> -1, zero |-> FALSE]

\* A function of one argument, and a function on top of another.
Only(x, y) == [z \in {x} |-> y]
f ++ g == [z \in DOMAIN f \cup DOMAIN g |-> IF z \in DOMAIN f THEN f[z] ELSE g[z]]

\* What an argument may hold that somebody has to give back: a string, a container or
\* a reference, and the items of a container, which are numbered from 1.
Data == 0

IsMethod(ftype) == ftype \in {"method", "vfunc"}
Offset(ftype) == IF IsMethod(ftype) THEN 1 ELSE 0
FromPython(dir) == dir \in {"from", "both"}
ToPython(dir) == dir \in {"to", "both"}

\* The types without a cleanup function, whose set-up only names a marshaller.
HasFromCleanup(tag) ==
  tag \in {"utf8", "filename", "array", "glist", "gslist", "ghash", "object",
           "callback", "gvalue", "foreign"}
HasToCleanup(tag) ==
  tag \in {"utf8", "filename", "array", "glist", "gslist", "ghash", "object", "foreign"}

\* The items of a container that is transferred without them stay where they are.
ItemTransfer(transfer) == IF transfer = "container" THEN "nothing" ELSE transfer
ItemCache(e) ==
  [Blank EXCEPT !.tag = e.item, !.transfer = ItemTransfer(e.transfer), !.dir = e.dir,
                !.from = FromPython(e.dir), !.to = ToPython(e.dir),
                !.fromClean = FromPython(e.dir) /\ HasFromCleanup(e.item),
                !.toClean = ToPython(e.dir) /\ HasToCleanup(e.item)]
=============================================================================
