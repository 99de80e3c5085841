------------------------------ MODULE Inspect ------------------------------
(***************************************************************************)
(* The commands that look at a container or signal it: state (state.cpp),  *)
(* list (list.cpp, one round of its loop) and kill (kill.cpp).             *)
(***************************************************************************)
EXTENDS Commands

\* list takes the lock only of containers that exist.
ListExists(p) ==
  /\ pc[p] = "exists" /\ cmd[p] = "list"
  /\ IF exists
     THEN Goto(p, "open") /\ UNCHANGED stateVars
     ELSE Leave(p, "ok")
  /\ UNCHANGED <<hostVars, go, report, ran>>

InspectLoad(p) ==
  /\ cmd[p] \in {"state", "list"}
  /\ LoadAndCheck(p)

\* kill believes the saved status; it does not call check_status().
KillLoad(p) ==
  /\ cmd[p] = "kill"
  /\ LoadThen(p, IF Live(json.status) THEN "kill" ELSE "return")

\* The signal kills the process, or it does not: that is the user's choice
\* of signal.
KillSend(p) ==
  /\ pc[p] = "kill"
  /\ \/ Kill(mem[p].of)
     \/ UNCHANGED <<stateVars, hostVars>>
  /\ Goto(p, "return")
  /\ UNCHANGED <<go, report, ran>>

InspectStep(p) ==
  \/ ListExists(p) \/ InspectLoad(p) \/ KillLoad(p) \/ KillSend(p)
=============================================================================
