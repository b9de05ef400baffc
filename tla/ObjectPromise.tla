---------------------------- MODULE ObjectPromise ----------------------------
(***************************************************************************)
(* What PyGObject promises about one GObject, in the terms of somebody who *)
(* writes Python and knows nothing of wrappers and toggle references: as   *)
(* long as the object can be used, from Python or by native code, its      *)
(* class stays the same and no attribute set on it is lost, whether or not *)
(* Python holds a reference of its own in the meantime.                    *)
(***************************************************************************)
CONSTANTS Classes, NoClass

VARIABLES
  alive,  \* the GObject exists
  class,  \* the Python class of its instances, once that is decided
  attrs,  \* it has instance attributes
  used    \* Python or native code can reach it

pvars == <<alive, class, attrs, used>>

Init == ~alive /\ class = NoClass /\ ~attrs /\ ~used

\* An object appears, used by its creator.
Create ==
  /\ ~alive /\ alive' /\ used'
  /\ class' \in Classes \cup {NoClass} /\ attrs' \in BOOLEAN

\* Its first wrapper decides its class.
Wrap ==
  /\ alive /\ alive' /\ class = NoClass /\ class' \in Classes
  /\ UNCHANGED attrs /\ used'

SetAttr == alive /\ used /\ attrs' /\ UNCHANGED <<alive, class, used>>

\* Its last user goes, or running its dispose brings one back.
Release == used /\ ~used' /\ UNCHANGED <<alive, class, attrs>>
Resurrect == alive /\ ~used /\ used' /\ UNCHANGED <<alive, class, attrs>>

\* Only what nobody can use loses its attributes; the object may outlive them
\* for a moment.
Forget == alive /\ ~used /\ attrs /\ ~attrs' /\ UNCHANGED <<alive, class, used>>

\* The end.  An object with attributes has forgotten them before.
Die == alive /\ ~alive' /\ ~attrs /\ ~attrs' /\ class' = NoClass /\ ~used'

Next ==
  \/ Create \/ Wrap \/ SetAttr \/ Release \/ Resurrect \/ Forget \/ Die

Spec == Init /\ [][Next]_pvars
=============================================================================
