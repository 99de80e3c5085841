------------------------------- MODULE Create -------------------------------
(***************************************************************************)
(* ocijail create (create.cpp): the parent sets the container up and       *)
(* forks; parent and container process then run concurrently, over a       *)
(* socket pair (go, report) and the FIFO start_wait.                       *)
(***************************************************************************)
EXTENDS Commands

(* The parent.                                                             *)

\* The exists() check, the checks of the configuration, and the fields that
\* state_ starts with.  None of it is under the lock.
CreateCheck(p) ==
  /\ pc[p] = "check" /\ cmd[p] = "create"
  /\ \/ /\ ~exists
        /\ SetStatus(p, p, "created")
        /\ Goto(p, "rm")
        /\ UNCHANGED <<dirVars, fd, holder, hostVars, go, report, ran>>
     \/ (exists \/ "config" \in Faults) /\ Throw(p)

CreateDirectory(p) ==
  /\ pc[p] = "mkdir"
  /\ create_directories
  /\ Goto(p, "open")
  /\ UNCHANGED <<hostVars, go, report, ran>>

\* The volumes, and the read-only alias of the root, which is mounted on a
\* directory made in the state directory.  An exception leaves the state
\* directory, and what has been mounted, behind.
CreateMount(p) ==
  /\ pc[p] = "mount"
  /\ \/ /\ p \in ReadonlyRoots => dir
        /\ mount_volumes(p)
        /\ Goto(p, "jail")
        /\ UNCHANGED stateVars
     \/ /\ \/ /\ "mount" \in Faults /\ (p \in ReadonlyRoots => dir)
              /\ mount_volumes_fails(p)
           \/ p \in ReadonlyRoots /\ ~dir /\ UNCHANGED mounted
        /\ Leave(p, "error")
  /\ UNCHANGED <<jail, xchild, child, pipeVars, go, report, ran>>

CreateJail(p) ==
  /\ pc[p] = "jail"
  /\ \/ /\ jail_create(p)
        /\ Goto(p, "mkfifo")
        /\ UNCHANGED <<stateVars, mounted, child, xchild, pipeVars, go, report,
                       ran>>
     \/ (jail # NoProc \/ "jail" \in Faults) /\ Throw(p)

CreateFifo(p) ==
  /\ pc[p] = "mkfifo"
  /\ \/ /\ mkfifo(p) /\ Goto(p, "fork")
        /\ UNCHANGED <<hostVars, go, report, ran>>
     \/ (~dir \/ fifoFile # NoProc) /\ Throw(p)

\* A fork() that fails returns -1, which the code takes for a pid.
Fork(p) ==
  /\ pc[p] = "fork"
  /\ \/ child' = [child EXCEPT ![p] = "pre_start"]
     \/ "fork" \in Faults /\ child' = [child EXCEPT ![p] = "unborn"]
  /\ Goto(p, "save")
  /\ UNCHANGED <<stateVars, jail, xchild, mounted, pipeVars, go, report, ran>>

CreateRuntime(p) ==
  /\ pc[p] = "createRuntime"
  /\ RunHooks(p, p, "createRuntime")
  /\ Goto(p, "unlock")
  /\ UNCHANGED <<hostVars, go, report>>

CreateUnlock(p) ==
  /\ pc[p] = "unlock"
  /\ ReleaseLock(p)
  /\ Goto(p, "signal")
  /\ UNCHANGED <<hostVars, go, report, ran>>

\* Mutant of CreateSignal: the byte for the child is not written.
CreateSignalNot(p) ==
  /\ pc[p] = "signal"
  /\ Goto(p, "await")
  /\ UNCHANGED <<stateVars, hostVars, go, report, ran>>

CreateSignal(p) ==
  /\ pc[p] = "signal"
  /\ go' = [go EXCEPT ![p] = TRUE]
  /\ Goto(p, "await")
  /\ UNCHANGED <<stateVars, hostVars, report, ran>>

\* Mutant of CreateAwait: the parent does not wait for the status.
CreateAwaitNot(p) ==
  /\ pc[p] = "await"
  /\ \/ report[p] # "failed" /\ End(p, "ok")
     \/ report[p] = "failed" /\ Goto(p, "remove_jail")
  /\ UNCHANGED <<stateVars, hostVars, go, report, ran>>

\* read() of the status byte.  The parent has its own copy of the child's
\* end of the socket, so the child's death is no end of file.
CreateAwait(p) ==
  /\ pc[p] = "await"
  /\ \/ report[p] = "ok" /\ End(p, "ok")
     \/ report[p] = "failed" /\ Goto(p, "remove_jail")
  /\ UNCHANGED <<stateVars, hostVars, go, report, ran>>

CreateStep(p) ==
  \/ CreateCheck(p) \/ CreateDirectory(p) \/ CreateMount(p) \/ CreateJail(p)
  \/ CreateFifo(p) \/ Fork(p) \/ CreateRuntime(p) \/ CreateUnlock(p)
  \/ CreateSignal(p) \/ CreateAwait(p)

-----------------------------------------------------------------------------
(* The child, which becomes the container process.                         *)

ChildGoto(c, l) ==
  /\ child' = [child EXCEPT ![c] = l]
  /\ UNCHANGED <<jail, xchild, mounted, pipeVars>>

\* An exception outside the try block unwinds the child's copy of run().
ChildThrow(c) ==
  /\ ChildExit(c)
  /\ ReleaseLock(c)
  /\ UNCHANGED <<jail, xchild, mounted>>

\* process::pre_start() throws if the console socket cannot be used.
ChildPreStart(c) ==
  /\ child[c] = "pre_start"
  /\ \/ ChildGoto(c, "open_fifo") /\ UNCHANGED stateVars
     \/ "pre_start" \in Faults /\ ChildThrow(c)
  /\ UNCHANGED <<ctlVars, go, report, ran>>

ChildOpenFifo(c) ==
  /\ child[c] = "open_fifo"
  /\ \/ /\ OpenFifo(c)
        /\ child' = [child EXCEPT ![c] = "wait_parent"]
        /\ UNCHANGED <<stateVars, jail, xchild, mounted>>
     \/ fifoFile = NoProc /\ ChildThrow(c)
  /\ UNCHANGED <<ctlVars, go, report, ran>>

\* Mutant of ChildWaitParent: the child does not wait for its parent.
ChildWaitParentNot(c) ==
  /\ child[c] = "wait_parent"
  /\ ChildGoto(c, "createContainer")
  /\ UNCHANGED <<stateVars, ctlVars, go, report, ran>>

ChildWaitParent(c) ==
  /\ child[c] = "wait_parent"
  /\ go[c]
  /\ go' = [go EXCEPT ![c] = FALSE]
  /\ ChildGoto(c, "createContainer")
  /\ UNCHANGED <<stateVars, ctlVars, report, ran>>

\* chdir() to the rootfs, then the hooks.  If chdir() fails there are none.
\* A createContainer hook whose execve() fails unwinds to the catch block of
\* the process that forked it: it reports a failure in the child's place,
\* and the child goes on.
ChildHooks(c) ==
  /\ child[c] = "createContainer"
  /\ \/ /\ ran' = ran \cup {<<"createContainer", mem[c].of, c>>}
        /\ ChildGoto(c, "attach")
        /\ \/ UNCHANGED report
           \/ "hook" \in Faults /\ FirstReport(c, "failed")
     \/ /\ "validate" \in Faults
        /\ ChildGoto(c, "refused")
        /\ UNCHANGED <<report, ran>>
  /\ UNCHANGED <<stateVars, ctlVars, go>>

ChildAttach(c) ==
  /\ child[c] = "attach"
  /\ ChildGoto(c, IF jail = c THEN "validate" ELSE "refused")
  /\ UNCHANGED <<stateVars, ctlVars, go, report, ran>>

ChildValidate(c) ==
  /\ child[c] = "validate"
  /\ \/ ChildGoto(c, "valid")
     \/ "validate" \in Faults /\ ChildGoto(c, "invalid")
  /\ UNCHANGED <<stateVars, ctlVars, go, report, ran>>

\* The child writes its status byte, and stops here if it is not zero.
ChildReport(c) ==
  /\ \/ /\ child[c] = "valid"
        /\ FirstReport(c, "ok")
        /\ ChildGoto(c, "wait_start")
     \/ /\ child[c] \in {"invalid", "refused"}
        /\ FirstReport(c, "failed")
        /\ ChildExit(c)
        /\ UNCHANGED <<jail, xchild, mounted>>
  /\ UNCHANGED <<stateVars, ctlVars, go, ran>>

\* Mutant of ChildWaitStart: the FIFO is open with O_NONBLOCK.
ChildWaitStartNot(c) ==
  /\ child[c] = "wait_start"
  /\ CloseFifo(c)
  /\ child' = [child EXCEPT ![c] = "startContainer"]
  /\ UNCHANGED <<stateVars, jail, xchild, mounted, ctlVars, go, report, ran>>

\* read() of the start FIFO, blocking, takes one byte; then close().
ChildWaitStart(c) ==
  /\ child[c] = "wait_start"
  /\ LET f == fifoFd[c] IN
     \E b \in fifo[f] :
       /\ fifoFd' = [fifoFd EXCEPT ![c] = NoProc]
       /\ fifo' = [fifo EXCEPT ![f] =
                     IF \E r \in Proc \ {c} : fifoFd[r] = f
                     THEN @ \ {b} ELSE {}]
  /\ child' = [child EXCEPT ![c] = "startContainer"]
  /\ UNCHANGED <<stateVars, jail, xchild, mounted, ctlVars, go, report, ran>>

ChildStartHooks(c) ==
  /\ child[c] = "startContainer"
  /\ RunHooks(c, c, "startContainer")
  /\ ChildGoto(c, "exec")
  /\ UNCHANGED <<ctlVars, go, report>>

ChildExec(c) ==
  /\ child[c] = "exec"
  /\ ChildGoto(c, "running")
  /\ UNCHANGED <<stateVars, ctlVars, go, report, ran>>

ChildStep(c) ==
  \/ ChildPreStart(c) \/ ChildOpenFifo(c) \/ ChildWaitParent(c)
  \/ ChildHooks(c) \/ ChildAttach(c) \/ ChildValidate(c) \/ ChildReport(c)
  \/ ChildWaitStart(c) \/ ChildStartHooks(c) \/ ChildExec(c)

-----------------------------------------------------------------------------
(* The container process once it belongs to the user and to init.          *)

\* The command of the bundle ends, or its execve() never succeeded.
ProcessExit(c) ==
  /\ child[c] = "running"
  /\ ChildExit(c)
  /\ UNCHANGED <<stateVars, jail, xchild, mounted, ctlVars, go, report, ran>>

\* The parent never waits for its child; init does once the parent is gone.
Reap(c) ==
  /\ child[c] = "zombie" /\ pc[c] = "done"
  /\ ChildGoto(c, "gone")
  /\ UNCHANGED <<stateVars, ctlVars, go, report, ran>>
=============================================================================
