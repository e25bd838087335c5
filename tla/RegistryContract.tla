-------------------------- MODULE RegistryContract --------------------------
(***************************************************************************)
(* What a Registry promises (registry.go, request.go), without its lock    *)
(* and its loops: requests may come at any time, but the phases of a       *)
(* Configure are barriers.  Arguments are parsed only when every request   *)
(* that is complete has been examined by PreWalk, and OnStart callbacks    *)
(* run only when every request known by then has been filled, each once.   *)
(* Registry implements this specification.                                 *)
(***************************************************************************)
EXTENDS Naturals

VARIABLES
  known,      \* how many requests have been registered
  open,       \* those that are still being registered
  examined,   \* those that PreWalk has been through
  done,       \* those filled in this pass
  phase       \* where Configure is

vars == <<known, open, examined, done, phase>>

Known == 1..known

Init ==
  /\ known = 0
  /\ open = {} /\ examined = {} /\ done = {}
  /\ phase = "rest"

(* One request at a time is being registered. *)
Register ==
  /\ open = {}
  /\ known' = known + 1
  /\ open' = {known + 1}
  /\ UNCHANGED <<examined, done, phase>>

(* While Configure collects requests, either side may examine a new one;   *)
(* from then on it is the one who registers it.  Parsing may fail with it. *)
Registered ==
  /\ open # {}
  /\ open' = {}
  /\ examined' \in IF phase \in {"rest", "collecting"}
                   THEN {examined, examined \cup open} ELSE {examined \cup open}
  /\ phase' \in IF phase = "parsing" THEN {"parsing", "rest"} ELSE {phase}
  /\ UNCHANGED <<known, done>>

Begin ==
  /\ phase = "rest"
  /\ phase' = "collecting"
  /\ done' = {}
  /\ UNCHANGED <<known, open, examined>>

Examine(r) ==
  /\ phase = "collecting"
  /\ examined' = examined \cup {r}
  /\ phase' \in {"collecting", "rest"}
  /\ UNCHANGED <<known, open, done>>

(* The two barriers. *)
Enter(next, ready) ==
  /\ ready
  /\ phase' = next
  /\ UNCHANGED <<known, open, examined, done>>

BeginParse == phase = "collecting" /\ Enter("parsing", Known \ open \subseteq examined)
BeginFill  == phase = "parsing" /\ Enter("filling", Known \ open \subseteq examined)
Start      == phase = "filling" /\ Enter("started", open = {} /\ done = Known)

(* A request is filled once, after it was examined. *)
FillOne(r) ==
  /\ phase = "filling"
  /\ r \in examined \ done
  /\ done' = done \cup {r}
  /\ UNCHANGED <<known, open, examined, phase>>

(* Configure returns, from its callbacks or with an error. *)
Return == phase # "rest" /\ Enter("rest", TRUE)

Next ==
  \/ Register \/ Registered
  \/ Begin \/ BeginParse \/ BeginFill \/ Start \/ Return
  \/ \E r \in Known : Examine(r) \/ FillOne(r)

Spec == Init /\ [][Next]_vars
=============================================================================
