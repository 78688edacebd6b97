------------------------------ MODULE HookSpec ------------------------------
(***************************************************************************)
(* What funchook promises its client, with no pages, entries or protection *)
(* calls: the calls of each target are routed either to the program's own  *)
(* code or to the hook of an engaged handle.  A handle is engaged from the *)
(* moment it may divert a target until it diverts none, and only a handle  *)
(* that is not engaged is destroyed.                                       *)
(***************************************************************************)
CONSTANTS Handles, NoHandle, Targets

VARIABLES
  alive,    \* the handles that exist
  engaged,  \* the handles that may divert targets
  route     \* the handle each target is diverted to, or NoHandle

specVars == <<alive, engaged, route>>

SpecInit ==
  /\ alive = {}
  /\ engaged = {}
  /\ route = [t \in Targets |-> NoHandle]

CreateHandle(h) ==
  /\ h \notin alive
  /\ alive' = alive \cup {h}
  /\ UNCHANGED <<engaged, route>>

\* The start of an install.
Engage(h) ==
  /\ h \in alive
  /\ engaged' = engaged \cup {h}
  /\ UNCHANGED <<alive, route>>

\* One target is diverted to an engaged handle, or given back to the one it
\* was diverted to before, or to the program.
Reroute(t, h) ==
  /\ h \in engaged \cup {NoHandle}
  /\ route' = [route EXCEPT ![t] = h]
  /\ UNCHANGED <<alive, engaged>>

\* The end of an uninstall.
Disengage(h) ==
  /\ \A t \in Targets : route[t] # h
  /\ engaged' = engaged \ {h}
  /\ UNCHANGED <<alive, route>>

DestroyHandle(h) ==
  /\ h \in alive \ engaged
  /\ alive' = alive \ {h}
  /\ UNCHANGED <<engaged, route>>

SpecNext ==
  \/ \E h \in Handles : CreateHandle(h) \/ Engage(h) \/ Disengage(h) \/ DestroyHandle(h)
  \/ \E t \in Targets, h \in Handles \cup {NoHandle} : Reroute(t, h)

HookSpecification == SpecInit /\ [][SpecNext]_specVars
=============================================================================
