-------------------------------- MODULE Exec --------------------------------
(***************************************************************************)
(* ocijail exec (exec.cpp): runs a further process in the container.  With *)
(* --detach it forks one, over a socket pair like that of create, and      *)
(* waits for its status; without, it becomes that process itself.  The     *)
(* container's lock is held until both of the two that share it have gone  *)
(* or called execve().  The status of the container is not looked at.      *)
(***************************************************************************)
EXTENDS Commands

Detached(p) == cmd[p] = "exec_detached"

ExecLoad(p) ==
  /\ IsExec(p)
  /\ LoadThen(p, "exec_fork")

\* fork() if detached.  Its failure, -1, is taken for a pid, and the parent
\* goes on.  The jail has not been looked at: jail::find(int) asks nothing.
ExecFork(p) ==
  /\ pc[p] = "exec_fork"
  /\ \/ xchild' = [xchild EXCEPT ![p] = "pre_start"]
     \/ "fork" \in Faults /\ Detached(p)
        /\ xchild' = [xchild EXCEPT ![p] = "dead"]
  /\ Goto(p, IF Detached(p) THEN "exec_signal" ELSE "exec_run")
  /\ UNCHANGED <<stateVars, jail, mounted, child, pipeVars, go, report, ran>>

\* The parent's byte to the child.
ExecSignal(p) ==
  /\ pc[p] = "exec_signal"
  /\ go' = [go EXCEPT ![p] = TRUE]
  /\ Goto(p, "exec_await")
  /\ UNCHANGED <<stateVars, hostVars, report, ran>>

\* Mutant of ExecAwait: the parent unlocks before it exits.
ExecAwaitUnlock(p) ==
  /\ pc[p] = "exec_await"
  /\ report[p] # "none"
  /\ Leave(p, IF report[p] = "ok" THEN "ok" ELSE "error")
  /\ UNCHANGED <<hostVars, go, report, ran>>

\* read() of the child's status, then exit() with it: no destructor runs, and
\* the lock goes now only if the child has given up its share.
ExecAwait(p) ==
  /\ pc[p] = "exec_await"
  /\ report[p] # "none"
  /\ End(p, IF report[p] = "ok" THEN "ok" ELSE "error")
  /\ IF xchild[p] \in Preparing THEN UNCHANGED stateVars ELSE ReleaseLock(p)
  /\ UNCHANGED <<hostVars, go, report, ran>>

\* An exec that was to become the process went with the jail.
ExecKilled(p) ==
  /\ pc[p] = "exec_run" /\ xchild[p] = "dead"
  /\ Leave(p, "crashed")
  /\ UNCHANGED <<hostVars, go, report, ran>>

ExecStep(p) ==
  \/ ExecLoad(p) \/ ExecFork(p) \/ ExecSignal(p) \/ ExecAwait(p)
  \/ ExecKilled(p)

-----------------------------------------------------------------------------
(* The process that is to run the command.                                 *)

XGoto(p, l) ==
  /\ xchild' = [xchild EXCEPT ![p] = l]
  /\ UNCHANGED <<jail, mounted, child, pipeVars>>

\* An exception leaves run(), in the forked child as in exec itself.
XThrow(p) ==
  /\ XGoto(p, "dead")
  /\ ReleaseLock(p)
  /\ IF Detached(p) THEN UNCHANGED ctlVars ELSE End(p, "error")

\* process::pre_start(): setsid(), or the console hand-off.
XPreStart(p) ==
  /\ xchild[p] = "pre_start"
  /\ \/ /\ XGoto(p, IF Detached(p) THEN "wait_parent" ELSE "attach")
        /\ UNCHANGED <<stateVars, ctlVars>>
     \/ "pre_start" \in Faults /\ XThrow(p)
  /\ UNCHANGED <<go, report, ran>>

XWaitParent(p) ==
  /\ xchild[p] = "wait_parent"
  /\ go[p]
  /\ go' = [go EXCEPT ![p] = FALSE]
  /\ XGoto(p, "attach")
  /\ UNCHANGED <<stateVars, ctlVars, report, ran>>

\* jail_attach() and process::validate() are in a try block if detached.
XAttach(p) ==
  /\ xchild[p] = "attach"
  /\ \/ jail = mem[p].of /\ XGoto(p, "validate")
        /\ UNCHANGED <<stateVars, ctlVars>>
     \/ jail # mem[p].of /\ Detached(p) /\ XGoto(p, "refused")
        /\ UNCHANGED <<stateVars, ctlVars>>
     \/ jail # mem[p].of /\ ~Detached(p) /\ XThrow(p)
  /\ UNCHANGED <<go, report, ran>>

XValidate(p) ==
  /\ xchild[p] = "validate"
  /\ \/ XGoto(p, IF Detached(p) THEN "valid" ELSE "exec")
        /\ UNCHANGED <<stateVars, ctlVars>>
     \/ "validate" \in Faults /\ Detached(p) /\ XGoto(p, "invalid")
        /\ UNCHANGED <<stateVars, ctlVars>>
     \/ "validate" \in Faults /\ ~Detached(p) /\ XThrow(p)
  /\ UNCHANGED <<go, report, ran>>

\* The status byte; the child exits if it is not zero.  That closes its share
\* of the lock file.
XReport(p) ==
  /\ \/ /\ xchild[p] = "valid"
        /\ FirstReport(p, "ok")
        /\ XGoto(p, "exec")
        /\ UNCHANGED stateVars
     \/ /\ xchild[p] \in {"invalid", "refused"}
        /\ FirstReport(p, "failed")
        /\ XGoto(p, "dead")
        /\ IF pc[p] = "done" THEN ReleaseLock(p) ELSE UNCHANGED stateVars
  /\ UNCHANGED <<ctlVars, go, ran>>

\* process::exec() throws if it cannot change to the working directory.
\* execve() closes the lock file, which has the close-on-exec flag by then;
\* an exec that did not fork is no command of ocijail any more.
XExec(p) ==
  /\ xchild[p] = "exec"
  /\ \/ /\ XGoto(p, "running")
        /\ IF Detached(p) THEN UNCHANGED ctlVars ELSE End(p, "ok")
        /\ IF Detached(p) /\ pc[p] # "done"
           THEN UNCHANGED stateVars
           ELSE ReleaseLock(p)
     \/ "validate" \in Faults /\ XThrow(p)
  /\ UNCHANGED <<go, report, ran>>

XStep(p) ==
  \/ XPreStart(p) \/ XWaitParent(p) \/ XAttach(p) \/ XValidate(p)
  \/ XReport(p) \/ XExec(p)

\* The user's process ends.
XExit(p) ==
  /\ xchild[p] = "running"
  /\ XGoto(p, "dead")
  /\ UNCHANGED <<stateVars, ctlVars, go, report, ran>>
=============================================================================
