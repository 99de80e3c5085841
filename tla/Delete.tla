------------------------------- MODULE Delete -------------------------------
(***************************************************************************)
(* ocijail delete, with and without --force (delete.cpp).                  *)
(***************************************************************************)
EXTENDS Commands

\* Without a state.json the directory is removed without the lock.
DeleteExists(p) ==
  /\ pc[p] = "exists" /\ IsDelete(p)
  /\ Goto(p, IF exists THEN "open" ELSE "rm")
  /\ UNCHANGED <<stateVars, hostVars, go, report, ran>>

DeleteLoad(p) ==
  /\ IsDelete(p)
  /\ LoadAndCheck(p)


\* A stopped container is deleted, a created one is killed first, and so is
\* a running one with --force.  jail::find(int) then makes a jail object of
\* the jid in the state, without asking the kernel for it.
DeleteDecide(p) ==
  /\ pc[p] = "decide"
  /\ \/ /\ mem[p].status = "stopped"
        /\ UNCHANGED <<stateVars, hostVars>>
        /\ Goto(p, "remove_jail") /\ UNCHANGED <<go, report, ran>>
     \/ /\ \/ mem[p].status = "created"
           \/ mem[p].status = "running" /\ cmd[p] = "delete_force"
        /\ Kill(mem[p].of)
        /\ Goto(p, "remove_jail") /\ UNCHANGED <<go, report, ran>>
     \/ /\ mem[p].status = "running" /\ cmd[p] = "delete"
        /\ Throw(p)

DeletePoststop(p) ==
  /\ pc[p] = "poststop"
  /\ RunHooks(p, p, "poststop")
  /\ Goto(p, "rm")
  /\ UNCHANGED <<hostVars, go, report>>

DeleteStep(p) ==
  \/ DeleteExists(p) \/ DeleteLoad(p) \/ DeleteDecide(p)
  \/ DeletePoststop(p)
=============================================================================
