----------------------------- MODULE Lifecycle -----------------------------
(***************************************************************************)
(* What ocijail promises its caller of the containers that carry one id,   *)
(* one after the other: the status that state and list report, the process *)
(* that is behind it, and nothing of locks, files, jails and handshakes.   *)
(* Ocijail implements it.                                                  *)
(***************************************************************************)

CONSTANT Container   \* the containers that may ever get the id

VARIABLES phase,     \* phase[c]: what is recorded of container c
          process    \* process[c]: its process

vars == <<phase, process>>

Phase   == {"none", "created", "running", "stopped", "removed"}
Process == {"none", "waiting", "user", "dead"}

LifecycleTypeOK ==
  /\ phase \in [Container -> Phase]
  /\ process \in [Container -> Process]

Init ==
  /\ phase = [c \in Container |-> "none"]
  /\ process = [c \in Container |-> "none"]

\* Nothing of c is left, or nothing has been made of it yet.
Absent(c) ==
  phase[c] \in {"none", "removed"} /\ process[c] \in {"none", "dead"}

-----------------------------------------------------------------------------
\* A process is made for a new container only if no other container holds
\* the id.
Fork(c) ==
  /\ process[c] = "none"
  /\ \A d \in Container : Absent(d)
  /\ process' = [process EXCEPT ![c] = "waiting"]
  /\ UNCHANGED phase

\* From here the caller sees the container.
Record(c) ==
  /\ phase[c] = "none" /\ process[c] # "none"
  /\ phase' = [phase EXCEPT ![c] = "created"]
  /\ UNCHANGED process

Start(c) ==
  /\ phase[c] = "created"
  /\ phase' = [phase EXCEPT ![c] = "running"]
  /\ UNCHANGED process

\* The user's command runs in a container that has been started, only.
Exec(c) ==
  /\ phase[c] = "running" /\ process[c] = "waiting"
  /\ process' = [process EXCEPT ![c] = "user"]
  /\ UNCHANGED phase

Die(c) ==
  /\ process[c] \in {"waiting", "user"}
  /\ process' = [process EXCEPT ![c] = "dead"]
  /\ UNCHANGED phase

\* That the process has gone may be noticed at any time, or never.
Stop(c) ==
  /\ phase[c] \in {"created", "running"} /\ process[c] = "dead"
  /\ phase' = [phase EXCEPT ![c] = "stopped"]
  /\ UNCHANGED process

\* Whoever deletes a container, or cleans up after it, has its process dead.
Remove(c) ==
  /\ phase[c] \in {"created", "running", "stopped"} /\ process[c] = "dead"
  /\ phase' = [phase EXCEPT ![c] = "removed"]
  /\ UNCHANGED process

Next ==
  \E c \in Container :
    \/ Fork(c) \/ Record(c) \/ Start(c) \/ Exec(c) \/ Die(c) \/ Stop(c)
    \/ Remove(c)

Spec == Init /\ [][Next]_vars
=============================================================================
