------------------------------ MODULE MCObject ------------------------------
(***************************************************************************)
(* A GObject as a Python program sees it: its class, its construction,     *)
(* its accessors and weak references on it.  The four share no state, so   *)
(* a behaviour is about one of them.                                       *)
(***************************************************************************)
EXTENDS MCAccessors, Construction, WeakRef, Registration

VARIABLE part
objectvars == <<part, vars, birthvars, deathvars, regvars>>

\* A native class, a class written in Python, and one derived from another such class.
MCLevels == [c \in Classes |-> CASE c = "native" -> 0 [] c = "python" -> 1 [] c = "derived" -> 2]

\* GObject, Gio and Gtk, a GType that no typelib describes and one written in Python.
MCParents == [object |-> << >>, action |-> << >>, application |-> <<"object">>,
              gtkapplication |-> <<"application", "action">>,
              hidden |-> <<"gtkapplication">>, own |-> <<"application">>]
MCSpace == [object |-> "GObject", action |-> "Gio", application |-> "Gio", gtkapplication |-> "Gtk",
            hidden |-> NoSpace, own |-> NoSpace]
MCOverrides == [GObject |-> <<"object">>, Gio |-> <<"action", "application">>, Gtk |-> << >>]
MCDepends == [GObject |-> {}, Gio |-> {"GObject"}, Gtk |-> {"Gio", "GObject"}]

\* Nothing to access while another part is at work.
NoAccess == [(CHOOSE w \in Worlds : TRUE) EXCEPT !.plan = [t \in Threads |-> << >>]]

ObjectInit ==
  /\ part \in {"classes", "construction", "accessors", "weak references"}
  /\ BirthInit /\ DeathInit /\ RegInit
  /\ IF part = "accessors" THEN Init
     ELSE /\ world = NoAccess /\ stored = << >> /\ given = << >> /\ gil = Nobody /\ lock = "free"
          /\ frozen = 0 /\ exc = << >> /\ th = [t \in Threads |-> Idle(1)]
          /\ saw = [t \in Threads |-> Nothing] /\ lost = {}

Accesses(Do) == part = "accessors" /\ Do /\ UNCHANGED <<part, birthvars, deathvars, regvars>>
ObjectNext ==
  \/ Accesses(Next)
  \/ part = "construction" /\ BirthNext /\ UNCHANGED <<part, vars, deathvars, regvars>>
  \/ part = "weak references" /\ DeathNext /\ UNCHANGED <<part, vars, birthvars, regvars>>
  \/ part = "classes" /\ RegNext /\ UNCHANGED <<part, vars, birthvars, deathvars>>

\* The fairness of Accessors: every thread gets the GIL and goes on, and native code returns.
ObjectSpec ==
  /\ ObjectInit /\ [][ObjectNext]_objectvars
  /\ \A t \in Threads : WF_objectvars(Accesses(Step(t)))
  /\ WF_objectvars(Accesses(NativeCalls))

\* The type invariants of the four.
TypesOK == BirthTypeOK /\ DeathTypeOK /\ RegTypeOK /\ (part = "accessors" => TypeOK)
=============================================================================
