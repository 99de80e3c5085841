--------------------------- MODULE CleanupProofs ---------------------------
(***************************************************************************)
(* Theorems about what is left behind, for every set of invocations, every *)
(* set of commands and faults, and whatever overlaps with a create:        *)
(*   - a create that fails after its fork leaves no jail, no process in    *)
(*     one, and no volume that could be unmounted (FailedCreateGone);      *)
(*   - a delete that succeeds leaves neither the jail, nor a process of    *)
(*     the container, nor its volumes (DeleteComplete);                    *)
(*   - a state.json that cannot be parsed has somebody who is writing it,  *)
(*     or who was killed while he did (TornHasWriter);                     *)
(*   - when create returns success, the container process is at its own    *)
(*     start FIFO, which it has open, or further (CreatedWaits).           *)
(* They rest on the invariants of OcijailProofs.                           *)
(***************************************************************************)
EXTENDS OcijailProofs

-----------------------------------------------------------------------------
(* Failed creates.                                                         *)

\* The cleanup of a create that has forked, from the removal of the jail to
\* its end.
Cleaning(c) ==
  /\ cmd[c] = "create" /\ child[c] # "none"
  /\ \/ pc[c] \in {"unmount", "rm", "unlink"}
     \/ pc[c] = "done" /\ out[c] = "error"

\* The jail does not come back, and neither do the volumes, once they are
\* unmounted, if they can be.
CleanedInv ==
  \A c \in Proc :
    Cleaning(c) =>
      /\ jail # c
      /\ pc[c] # "unmount" /\ c \in mounted
         => Faults \cap {"unmount", "unmount_root"} # {}

\* A step at which nothing that CleanedInv is about gets worse.
Calm ==
  /\ jail' \in {jail, NoProc} /\ mounted' \subseteq mounted
  /\ \A c \in Proc : Cleaning(c)' =>
       Cleaning(c) /\ (pc[c] = "unmount" => pc'[c] = "unmount")

\* Such a step preserves CleanedInv.
LEMMA Calmed ==
  ASSUME CleanedInv, Calm
  PROVE  CleanedInv'
BY RuntimeStateAssumption DEF CleanedInv, Calm

\* Every step preserves CleanedInv: RemoveJail comes first, and only a create
\* that has not forked yet makes a jail or mounts volumes.
LEMMA CleanedStep ==
  ASSUME ControlTypes, ControlTypes', Control, Recorded, CleanedInv,
         CommandsTypeOK, [Next]_vars
  PROVE  CleanedInv'
<1> USE RuntimeStateAssumption DEF ControlTypes, Control, CreatePcs,
     OtherPcs, CommandsTypeOK, ExecPcs, PreFork, Calm, Cleaning, Goto, Throw,
     Leave, End, hostVars, ctlVars, pipeVars, ChildGoto, XGoto, XThrow,
     IsExec, Detached, Preparing, XOutside, XInJail
<1>1. ASSUME NEW p \in Proc, CommonStep(p) PROVE CleanedInv'
  <2>1. CASE Open(p)
    <3>1. Calm  BY <2>1 DEF Open
    <3> QED  BY <3>1, Calmed
  <2>2. CASE Flock(p)
    <3>1. Calm  BY <2>2 DEF Flock, TakeLock
    <3> QED  BY <3>1, Calmed
  <2>3. CASE LoadFails(p)
    <3>1. Calm  BY <2>3 DEF LoadFails
    <3> QED  BY <3>1, Calmed
  <2>4. CASE SaveBegin(p)
    <3>1. Calm  BY <2>4 DEF SaveBegin
    <3> QED  BY <3>1, Calmed
  <2>5. CASE SaveEnd(p)
    <3>1. Calm  BY <2>5 DEF SaveEnd, AfterSave, IsDelete
    <3> QED  BY <3>1, Calmed
  <2>6. CASE RemoveJail(p)  BY <2>6 DEF RemoveJail, jail_remove, ChildExit,
       InJail, Recorded, CleanedInv
  <2>7. CASE Unmount(p)  BY <2>7 DEF Unmount, unmount_volumes,
       unmount_volumes_fails, IsDelete, Recorded, CleanedInv
  <2>8. CASE RemoveBegin(p)
    <3>1. Calm  BY <2>8 DEF RemoveBegin, AfterRemove
    <3> QED  BY <3>1, Calmed
  <2>9. CASE RemoveNext(p)
    <3>1. Calm  BY <2>9 DEF RemoveNext
    <3> QED  BY <3>1, Calmed
  <2>10. CASE RemoveEnd(p)
    <3>1. Calm  BY <2>10 DEF RemoveEnd, RemoveDir, AfterRemove
    <3> QED  BY <3>1, Calmed
  <2>11. CASE Return(p)
    <3>1. Calm  BY <2>11 DEF Return
    <3> QED  BY <3>1, Calmed
  <2>12. CASE RemoveThrows(p)
    <3>1. Calm  BY <2>12 DEF RemoveThrows
    <3> QED  BY <3>1, Calmed
  <2> QED  BY <1>1, <2>1, <2>2, <2>3, <2>4, <2>5, <2>6, <2>7, <2>8, <2>9,
       <2>10, <2>11, <2>12 DEF CommonStep
<1>2. ASSUME NEW p \in Proc, CreateStep(p) PROVE CleanedInv'
  <2>1. CASE CreateCheck(p)
    <3>1. Calm  BY <2>1 DEF CreateCheck
    <3> QED  BY <3>1, Calmed
  <2>2. CASE CreateDirectory(p)
    <3>1. Calm  BY <2>2 DEF CreateDirectory
    <3> QED  BY <3>1, Calmed
  <2>3. CASE CreateMount(p)  BY <2>3 DEF CreateMount, mount_volumes,
       mount_volumes_fails, CleanedInv
  <2>4. CASE CreateJail(p)  BY <2>4 DEF CreateJail, jail_create, CleanedInv
  <2>5. CASE CreateFifo(p)
    <3>1. Calm  BY <2>5 DEF CreateFifo
    <3> QED  BY <3>1, Calmed
  <2>6. CASE Fork(p)
    <3>1. Calm  BY <2>6 DEF Fork
    <3> QED  BY <3>1, Calmed
  <2>7. CASE CreateRuntime(p)
    <3>1. Calm  BY <2>7 DEF CreateRuntime
    <3> QED  BY <3>1, Calmed
  <2>8. CASE CreateUnlock(p)
    <3>1. Calm  BY <2>8 DEF CreateUnlock
    <3> QED  BY <3>1, Calmed
  <2>9. CASE CreateSignal(p)
    <3>1. Calm  BY <2>9 DEF CreateSignal
    <3> QED  BY <3>1, Calmed
  <2>10. CASE CreateAwait(p)
    <3>1. Calm  BY <2>10 DEF CreateAwait
    <3> QED  BY <3>1, Calmed
  <2> QED  BY <1>2, <2>1, <2>2, <2>3, <2>4, <2>5, <2>6, <2>7, <2>8, <2>9,
       <2>10 DEF CreateStep
<1>3. ASSUME NEW p \in Proc, StartStep(p) PROVE CleanedInv'
  <2>1. CASE StartLoad(p)
    <3>1. Calm  BY <2>1 DEF StartLoad
    <3> QED  BY <3>1, Calmed
  <2>2. CASE StartPrestart(p)
    <3>1. Calm  BY <2>2 DEF StartPrestart
    <3> QED  BY <3>1, Calmed
  <2>3. CASE StartOpenFifo(p)
    <3>1. Calm  BY <2>3 DEF StartOpenFifo
    <3> QED  BY <3>1, Calmed
  <2>4. CASE StartWriteFifo(p)
    <3>1. Calm  BY <2>4 DEF StartWriteFifo
    <3> QED  BY <3>1, Calmed
  <2>5. CASE StartCloseFifo(p)
    <3>1. Calm  BY <2>5 DEF StartCloseFifo
    <3> QED  BY <3>1, Calmed
  <2>6. CASE StartPoststart(p)
    <3>1. Calm  BY <2>6 DEF StartPoststart
    <3> QED  BY <3>1, Calmed
  <2> QED  BY <1>3, <2>1, <2>2, <2>3, <2>4, <2>5, <2>6 DEF StartStep
<1>4. ASSUME NEW p \in Proc, InspectStep(p) PROVE CleanedInv'
  <2>1. CASE ListExists(p)
    <3>1. Calm  BY <2>1 DEF ListExists
    <3> QED  BY <3>1, Calmed
  <2>2. CASE InspectLoad(p)
    <3>1. Calm  BY <2>2 DEF InspectLoad, LoadAndCheck, AfterSave
    <3> QED  BY <3>1, Calmed
  <2>3. CASE KillLoad(p)
    <3>1. Calm  BY <2>3 DEF KillLoad, LoadThen
    <3> QED  BY <3>1, Calmed
  <2>4. CASE KillSend(p)
    <3>1. Calm  BY <2>4 DEF KillSend, Kill, KillProcess, ChildExit, Alive,
          Outside, InJail
    <3> QED  BY <3>1, Calmed
  <2> QED  BY <1>4, <2>1, <2>2, <2>3, <2>4 DEF InspectStep
<1>5. ASSUME NEW p \in Proc, DeleteStep(p) PROVE CleanedInv'
  <2>1. CASE DeleteExists(p)
    <3>1. Calm  BY <2>1 DEF DeleteExists, IsDelete
    <3> QED  BY <3>1, Calmed
  <2>2. CASE DeleteLoad(p)
    <3>1. Calm  BY <2>2 DEF DeleteLoad, LoadAndCheck, IsDelete, AfterSave
    <3> QED  BY <3>1, Calmed
  <2>3. CASE DeleteDecide(p)
    <3>1. Calm  BY <2>3 DEF DeleteDecide, Kill, KillProcess, ChildExit, Alive,
          Outside, InJail
    <3> QED  BY <3>1, Calmed
  <2>4. CASE DeletePoststop(p)
    <3>1. Calm  BY <2>4 DEF DeletePoststop
    <3> QED  BY <3>1, Calmed
  <2> QED  BY <1>5, <2>1, <2>2, <2>3, <2>4 DEF DeleteStep
<1>6. ASSUME NEW p \in Proc, ChildStep(p) PROVE CleanedInv'
  <2>1. CASE ChildPreStart(p)
    <3>1. Calm  BY <2>1 DEF ChildPreStart, ChildThrow, ChildExit
    <3> QED  BY <3>1, Calmed
  <2>2. CASE ChildOpenFifo(p)
    <3>1. Calm  BY <2>2 DEF ChildOpenFifo, ChildThrow, ChildExit
    <3> QED  BY <3>1, Calmed
  <2>3. CASE ChildWaitParent(p)
    <3>1. Calm  BY <2>3 DEF ChildWaitParent
    <3> QED  BY <3>1, Calmed
  <2>4. CASE ChildHooks(p)
    <3>1. Calm  BY <2>4 DEF ChildHooks
    <3> QED  BY <3>1, Calmed
  <2>5. CASE ChildAttach(p)
    <3>1. Calm  BY <2>5 DEF ChildAttach
    <3> QED  BY <3>1, Calmed
  <2>6. CASE ChildValidate(p)
    <3>1. Calm  BY <2>6 DEF ChildValidate
    <3> QED  BY <3>1, Calmed
  <2>7. CASE ChildReport(p)
    <3>1. Calm  BY <2>7 DEF ChildReport, ChildExit
    <3> QED  BY <3>1, Calmed
  <2>8. CASE ChildWaitStart(p)
    <3>1. Calm  BY <2>8 DEF ChildWaitStart
    <3> QED  BY <3>1, Calmed
  <2>9. CASE ChildStartHooks(p)
    <3>1. Calm  BY <2>9 DEF ChildStartHooks
    <3> QED  BY <3>1, Calmed
  <2>10. CASE ChildExec(p)
    <3>1. Calm  BY <2>10 DEF ChildExec
    <3> QED  BY <3>1, Calmed
  <2> QED  BY <1>6, <2>1, <2>2, <2>3, <2>4, <2>5, <2>6, <2>7, <2>8, <2>9,
       <2>10 DEF ChildStep
<1>7. ASSUME NEW p \in Proc, NEW c \in Cmds, Invoke(p, c) PROVE CleanedInv'
  <2>1. Calm  BY <1>7 DEF Invoke
  <2> QED  BY <2>1, Calmed
<1>8. ASSUME NEW p \in Proc, Crash(p) PROVE CleanedInv'
  <2>1. Calm  BY <1>8 DEF Crash, InFlight
  <2> QED  BY <2>1, Calmed
<1>9. ASSUME NEW p \in Proc, ProcessExit(p) PROVE CleanedInv'
  <2>1. Calm  BY <1>9 DEF ProcessExit, ChildExit
  <2> QED  BY <2>1, Calmed
<1>10. ASSUME NEW p \in Proc, Reap(p) PROVE CleanedInv'
  <2>1. Calm  BY <1>10 DEF Reap
  <2> QED  BY <2>1, Calmed
<1>11. ASSUME NEW p \in Proc, ExecStep(p) PROVE CleanedInv'
  <2>1. CASE ExecLoad(p)
    <3>1. Calm  BY <2>1 DEF ExecLoad, LoadThen, IsExec
    <3> QED  BY <3>1, Calmed
  <2>2. CASE ExecFork(p)
    <3>1. Calm  BY <2>2 DEF ExecFork, IsExec
    <3> QED  BY <3>1, Calmed
  <2>3. CASE ExecSignal(p)
    <3>1. Calm  BY <2>3 DEF ExecSignal
    <3> QED  BY <3>1, Calmed
  <2>4. CASE ExecAwait(p)
    <3>1. Calm  BY <2>4 DEF ExecAwait
    <3> QED  BY <3>1, Calmed
  <2>5. CASE ExecKilled(p)
    <3>1. Calm  BY <2>5 DEF ExecKilled
    <3> QED  BY <3>1, Calmed
  <2> QED  BY <1>11, <2>1, <2>2, <2>3, <2>4, <2>5 DEF ExecStep
<1>12. ASSUME NEW p \in Proc, XStep(p) PROVE CleanedInv'
  <2>1. CASE XPreStart(p)
    <3>1. Calm  BY <2>1 DEF XPreStart
    <3> QED  BY <3>1, Calmed
  <2>2. CASE XWaitParent(p)
    <3>1. Calm  BY <2>2 DEF XWaitParent
    <3> QED  BY <3>1, Calmed
  <2>3. CASE XAttach(p)
    <3>1. Calm  BY <2>3 DEF XAttach
    <3> QED  BY <3>1, Calmed
  <2>4. CASE XValidate(p)
    <3>1. Calm  BY <2>4 DEF XValidate
    <3> QED  BY <3>1, Calmed
  <2>5. CASE XReport(p)
    <3>1. Calm  BY <2>5 DEF XReport
    <3> QED  BY <3>1, Calmed
  <2>6. CASE XExec(p)
    <3>1. Calm  BY <2>6 DEF XExec
    <3> QED  BY <3>1, Calmed
  <2> QED  BY <1>12, <2>1, <2>2, <2>3, <2>4, <2>5, <2>6 DEF XStep
<1>13. ASSUME NEW p \in Proc, XExit(p) PROVE CleanedInv'
  <2>1. Calm  BY <1>13 DEF XExit
  <2> QED  BY <2>1, Calmed
<1>14. CASE UNCHANGED vars
  <2>1. Calm  BY <1>14 DEF vars, stateVars, dirVars, hostVars, ctlVars
  <2> QED  BY <2>1, Calmed
<1> QED  BY <1>1, <1>2, <1>3, <1>4, <1>5, <1>6, <1>7, <1>8, <1>9, <1>10,
       <1>11, <1>12, <1>13, <1>14 DEF Next, Step

\* FailedCreateGone holds of every instance.
THEOREM FailedCreateGoneAlways == Spec => []FailedCreateGone
<1>1. Init => KnownForked /\ Recorded /\ JailInv /\ CleanedInv
  BY RuntimeStateAssumption
     DEF Init, StateInit, HostInit, CommandsInit, KnownForked, Recorded,
         JailInv, CleanedInv, Cleaning, InJail, XInJail, exists, NoFile, NoMem
<1>2. /\ ControlTypes /\ ControlTypes' /\ Control /\ TypeOK
      /\ KnownForked /\ Recorded /\ JailInv /\ CleanedInv /\ [Next]_vars
      => KnownForked' /\ Recorded' /\ JailInv' /\ CleanedInv'
  BY KnownForkedStep, RecordedStep, JailStep, CleanedStep DEF TypeOK
<1>3. JailInv /\ CleanedInv => FailedCreateGone
  BY DEF JailInv, CleanedInv, Cleaning, FailedCreateGone
<1> QED  BY <1>1, <1>2, <1>3, ControlInvariant, TypeCorrect, PTL DEF Spec

-----------------------------------------------------------------------------
(* Deletes.                                                                *)

\* The delete of a container, from the point where its process is dead, or
\* was never born.
Deleting(p) ==
  /\ IsDelete(p) /\ mem[p].of # NoProc
  /\ \/ pc[p] \in {"remove_jail", "unmount", "poststop", "rm", "unlink"}
     \/ Returned(p)

\* The container process of c is not there, and will not be.
NoChild(c) == child[c] \in Dead \cup {"unborn"}

\* Steps of other commands that lead to a success, and those at which a
\* command other than create has not loaded the state.
OthersOnly == {"prestart", "open_fifo", "write_fifo", "close_fifo",
               "poststart", "kill", "return"}
Unloaded   == {"idle", "exists", "open", "flock", "load"}

\* The process stays dead; the jail, once removed, stays away, and so do the
\* volumes, once unmounted.  A read-only root that could not be unmounted keeps
\* the directory that it is mounted in, and the delete from its end.
DeletedInv ==
  /\ Blocked => dir
  /\ \A p \in Proc :
       /\ pc[p] \in OthersOnly => ~IsDelete(p) /\ cmd[p] # "create"
       /\ pc[p] = "decide" => IsDelete(p)
       /\ pc[p] \in Unloaded /\ cmd[p] # "create" => mem[p].of = NoProc
       /\ Deleting(p) =>
            /\ NoChild(mem[p].of)
            /\ pc[p] # "remove_jail" => jail # mem[p].of
            /\ pc[p] \notin {"remove_jail", "unmount"}
               /\ mem[p].of \in mounted
               => /\ mem[p].of \in ReadonlyRoots /\ pc[p] # "done"
                  /\ "unmount_root" \in Faults

\* A step at which nothing that DeletedInv is about gets worse.
DeletedCalm ==
  /\ jail' \in {jail, NoProc} /\ mounted' \subseteq mounted
  /\ dir => dir'
  /\ \A c \in Proc : NoChild(c) => NoChild(c)'
  /\ \A p \in Proc :
       /\ pc'[p] \in OthersOnly => ~IsDelete(p)' /\ cmd'[p] # "create"
       /\ pc'[p] = "decide" => IsDelete(p)'
       /\ pc'[p] \in Unloaded /\ cmd'[p] # "create" => mem'[p].of = NoProc
       /\ Deleting(p)' =>
            /\ Deleting(p) /\ mem'[p].of = mem[p].of
            /\ pc[p] = "remove_jail" => pc'[p] = "remove_jail"
            /\ pc[p] = "unmount" => pc'[p] = "unmount"
            /\ pc[p] = "done" <=> pc'[p] = "done"

\* Such a step preserves DeletedInv.
LEMMA DeletedCalmed ==
  ASSUME ControlTypes, ControlTypes', DeletedInv, DeletedCalm
  PROVE  DeletedInv'
BY RuntimeStateAssumption
   DEF DeletedInv, DeletedCalm, ControlTypes, MemType, ProcOrNone, Deleting,
       Blocked

\* Every step preserves DeletedInv: the signal comes before the removal of
\* the jail, and that before the unmounting.
LEMMA DeletedStep ==
  ASSUME ControlTypes, ControlTypes', Control, KnownForked, Recorded,
         StoppedInv, DeletedInv, HostTypeOK, CommandsTypeOK, [Next]_vars
  PROVE  DeletedInv'
<1> USE RuntimeStateAssumption DEF ControlTypes, MemType, JsonType,
     ProcOrNone, CommandsTypeOK, HostTypeOK, Control, CreatePcs, OtherPcs,
     ExecPcs, PreFork, DeletedCalm, DeletedInv, Deleting, OthersOnly,
     Unloaded, Returned, IsDelete, Goto, Throw, Leave, End, ReleaseLock,
     hostVars, stateVars, dirVars, ctlVars, pipeVars, ChildGoto, XGoto,
     XThrow, IsExec, Detached, Preparing, XOutside, XInJail, NoChild
<1>1. ASSUME NEW p \in Proc, CommonStep(p) PROVE DeletedInv'
  <2>1. CASE Open(p)
    <3>1. DeletedCalm  BY <2>1 DEF Open, OpenLock
    <3> QED  BY <3>1, DeletedCalmed
  <2>2. CASE Flock(p)
    <3>1. DeletedCalm  BY <2>2 DEF Flock, TakeLock
    <3> QED  BY <3>1, DeletedCalmed
  <2>3. CASE LoadFails(p)
    <3>1. DeletedCalm  BY <2>3 DEF LoadFails
    <3> QED  BY <3>1, DeletedCalmed
  <2>4. CASE SaveBegin(p)
    <3>1. DeletedCalm  BY <2>4 DEF SaveBegin, Truncate
    <3> QED  BY <3>1, DeletedCalmed
  <2>5. CASE SaveEnd(p)
    <3>1. DeletedCalm  BY <2>5 DEF SaveEnd, Write, AfterSave
    <3> QED  BY <3>1, DeletedCalmed
  <2>6. CASE RemoveJail(p)  BY <2>6 DEF RemoveJail, jail_remove, ChildExit,
       InJail, Dead, Blocked
  <2>7. CASE Unmount(p)  BY <2>7 DEF Unmount, unmount_volumes,
       unmount_volumes_fails, Blocked
  <2>8. CASE RemoveBegin(p)
    <3>1. CASE ListDir(p) /\ Goto(p, "unlink") /\ UNCHANGED hostVars
      <4>1. DeletedCalm  BY <2>8, <3>1 DEF RemoveBegin, ListDir
      <4> QED  BY <4>1, DeletedCalmed
    <3>2. CASE ~dir /\ AfterRemove(p) /\ UNCHANGED <<dirVars, mem, hostVars>>
      BY <2>8, <3>2 DEF RemoveBegin, AfterRemove, Blocked
    <3> QED  BY <2>8, <3>1, <3>2 DEF RemoveBegin
  <2>9. CASE RemoveNext(p)
    <3>1. DeletedCalm  BY <2>9 DEF RemoveNext, Unlink
    <3> QED  BY <3>1, DeletedCalmed
  <2>10. CASE RemoveEnd(p)
    BY <2>10 DEF RemoveEnd, RemoveDir, AfterRemove, Blocked
  <2>11. CASE Return(p)
    <3>1. DeletedCalm  BY <2>11 DEF Return
    <3> QED  BY <3>1, DeletedCalmed
  <2>12. CASE RemoveThrows(p)
    <3>1. DeletedCalm  BY <2>12 DEF RemoveThrows
    <3> QED  BY <3>1, DeletedCalmed
  <2> QED  BY <1>1, <2>1, <2>2, <2>3, <2>4, <2>5, <2>6, <2>7, <2>8, <2>9,
       <2>10, <2>11, <2>12 DEF CommonStep
<1>2. ASSUME NEW p \in Proc, CreateStep(p) PROVE DeletedInv'
  <2>1. CASE CreateCheck(p)
    <3>1. DeletedCalm  BY <2>1 DEF CreateCheck, SetStatus
    <3> QED  BY <3>1, DeletedCalmed
  <2>2. CASE CreateDirectory(p)
    <3>1. DeletedCalm  BY <2>2 DEF CreateDirectory, create_directories
    <3> QED  BY <3>1, DeletedCalmed
  <2>3. CASE CreateMount(p)
    <3>1. /\ UNCHANGED <<dir, jail, child, mem, cmd>>
          /\ mounted' \subseteq mounted \cup {p}
          /\ p \in ReadonlyRoots /\ ~dir => mounted' = mounted
      BY <2>3 DEF CreateMount, mount_volumes, mount_volumes_fails
    <3>2. /\ pc[p] = "mount" /\ child[p] = "none" /\ cmd[p] = "create"
          /\ \A q \in Proc \ {p} : pc'[q] = pc[q] /\ out'[q] = out[q]
          /\ pc'[p] \in {"jail", "done"}
      BY <2>3 DEF CreateMount
    <3> QED  BY <3>1, <3>2 DEF Blocked, Dead
  <2>4. CASE CreateJail(p)  BY <2>4 DEF CreateJail, jail_create, Dead, Blocked
  <2>5. CASE CreateFifo(p)
    <3>1. DeletedCalm  BY <2>5 DEF CreateFifo, mkfifo
    <3> QED  BY <3>1, DeletedCalmed
  <2>6. CASE Fork(p)
    <3>1. DeletedCalm  BY <2>6 DEF Fork, Dead
    <3> QED  BY <3>1, DeletedCalmed
  <2>7. CASE CreateRuntime(p)
    <3>1. DeletedCalm  BY <2>7 DEF CreateRuntime, RunHooks
    <3> QED  BY <3>1, DeletedCalmed
  <2>8. CASE CreateUnlock(p)
    <3>1. DeletedCalm  BY <2>8 DEF CreateUnlock
    <3> QED  BY <3>1, DeletedCalmed
  <2>9. CASE CreateSignal(p)
    <3>1. DeletedCalm  BY <2>9 DEF CreateSignal
    <3> QED  BY <3>1, DeletedCalmed
  <2>10. CASE CreateAwait(p)
    <3>1. DeletedCalm  BY <2>10 DEF CreateAwait
    <3> QED  BY <3>1, DeletedCalmed
  <2> QED  BY <1>2, <2>1, <2>2, <2>3, <2>4, <2>5, <2>6, <2>7, <2>8, <2>9,
       <2>10 DEF CreateStep
<1>3. ASSUME NEW p \in Proc, StartStep(p) PROVE DeletedInv'
  <2>1. CASE StartLoad(p)
    <3>1. DeletedCalm  BY <2>1 DEF StartLoad, SetStatus
    <3> QED  BY <3>1, DeletedCalmed
  <2>2. CASE StartPrestart(p)
    <3>1. DeletedCalm  BY <2>2 DEF StartPrestart, RunHooks
    <3> QED  BY <3>1, DeletedCalmed
  <2>3. CASE StartOpenFifo(p)
    <3>1. DeletedCalm  BY <2>3 DEF StartOpenFifo
    <3> QED  BY <3>1, DeletedCalmed
  <2>4. CASE StartWriteFifo(p)
    <3>1. DeletedCalm  BY <2>4 DEF StartWriteFifo
    <3> QED  BY <3>1, DeletedCalmed
  <2>5. CASE StartCloseFifo(p)
    <3>1. DeletedCalm  BY <2>5 DEF StartCloseFifo
    <3> QED  BY <3>1, DeletedCalmed
  <2>6. CASE StartPoststart(p)
    <3>1. DeletedCalm  BY <2>6 DEF StartPoststart, RunHooks
    <3> QED  BY <3>1, DeletedCalmed
  <2> QED  BY <1>3, <2>1, <2>2, <2>3, <2>4, <2>5, <2>6 DEF StartStep
<1>4. ASSUME NEW p \in Proc, InspectStep(p) PROVE DeletedInv'
  <2>1. CASE ListExists(p)
    <3>1. DeletedCalm  BY <2>1 DEF ListExists
    <3> QED  BY <3>1, DeletedCalmed
  <2>2. CASE InspectLoad(p)
    <3>1. DeletedCalm  BY <2>2 DEF InspectLoad, LoadAndCheck, SetStatus,
          AfterSave
    <3> QED  BY <3>1, DeletedCalmed
  <2>3. CASE KillLoad(p)
    <3>1. DeletedCalm  BY <2>3 DEF KillLoad, LoadThen, load, SetStatus
    <3> QED  BY <3>1, DeletedCalmed
  <2>4. CASE KillSend(p)
    <3>1. DeletedCalm  BY <2>4 DEF KillSend, Kill, KillProcess, ChildExit, Dead
    <3> QED  BY <3>1, DeletedCalmed
  <2> QED  BY <1>4, <2>1, <2>2, <2>3, <2>4 DEF InspectStep
<1>5. ASSUME NEW p \in Proc, DeleteStep(p) PROVE DeletedInv'
  <2>1. CASE DeleteExists(p)
    <3>1. DeletedCalm  BY <2>1 DEF DeleteExists
    <3> QED  BY <3>1, DeletedCalmed
  <2>2. CASE DeleteLoad(p)
    <3>1. DeletedCalm  BY <2>2 DEF DeleteLoad, LoadAndCheck, SetStatus,
          AfterSave
    <3> QED  BY <3>1, DeletedCalmed
  <2>3. CASE DeleteDecide(p)
    <3> USE <2>3 DEF DeleteDecide
    <3>1. mem[p].of \in Proc /\ child[mem[p].of] # "none"
      BY DEF Recorded, KnownForked, Unforked
    <3>2. \A c \in Proc : NoChild(c) => NoChild(c)'
      BY DEF Kill, KillProcess, ChildExit, Dead
    <3>3. IsDelete(p) /\ pc'[p] = "remove_jail" => NoChild(mem[p].of)'
      BY <3>1
         DEF Kill, KillProcess, ChildExit, Alive, ChildPcs, Dead, StoppedInv
    <3>4. UNCHANGED <<jail, mounted, mem, cmd, dir>>
      BY DEF Kill, KillProcess
    <3>5. \A q \in Proc \ {p} : pc'[q] = pc[q] /\ out'[q] = out[q]
      OBVIOUS
    <3>6. pc[p] = "decide" /\ (pc'[p] = "remove_jail" \/ out'[p] = "error")
      OBVIOUS
    <3>7. pc'[p] \in {"remove_jail", "done"}
      OBVIOUS
    <3> QED  BY <3>1, <3>2, <3>3, <3>4, <3>5, <3>6, <3>7 DEF Blocked
  <2>4. CASE DeletePoststop(p)
    <3>1. DeletedCalm  BY <2>4 DEF DeletePoststop, RunHooks
    <3> QED  BY <3>1, DeletedCalmed
  <2> QED  BY <1>5, <2>1, <2>2, <2>3, <2>4 DEF DeleteStep
<1>6. ASSUME NEW p \in Proc, ChildStep(p) PROVE DeletedInv'
  <2>1. CASE ChildPreStart(p)
    <3>1. DeletedCalm  BY <2>1 DEF ChildPreStart, ChildThrow, ChildExit, Dead
    <3> QED  BY <3>1, DeletedCalmed
  <2>2. CASE ChildOpenFifo(p)
    <3>1. DeletedCalm  BY <2>2 DEF ChildOpenFifo, ChildThrow, ChildExit, Dead
    <3> QED  BY <3>1, DeletedCalmed
  <2>3. CASE ChildWaitParent(p)
    <3>1. DeletedCalm  BY <2>3 DEF ChildWaitParent, Dead
    <3> QED  BY <3>1, DeletedCalmed
  <2>4. CASE ChildHooks(p)
    <3>1. DeletedCalm  BY <2>4 DEF ChildHooks, Dead
    <3> QED  BY <3>1, DeletedCalmed
  <2>5. CASE ChildAttach(p)
    <3>1. DeletedCalm  BY <2>5 DEF ChildAttach, Dead
    <3> QED  BY <3>1, DeletedCalmed
  <2>6. CASE ChildValidate(p)
    <3>1. DeletedCalm  BY <2>6 DEF ChildValidate, Dead
    <3> QED  BY <3>1, DeletedCalmed
  <2>7. CASE ChildReport(p)
    <3>1. DeletedCalm  BY <2>7 DEF ChildReport, ChildThrow, ChildExit, Dead
    <3> QED  BY <3>1, DeletedCalmed
  <2>8. CASE ChildWaitStart(p)
    <3>1. DeletedCalm  BY <2>8 DEF ChildWaitStart, Dead
    <3> QED  BY <3>1, DeletedCalmed
  <2>9. CASE ChildStartHooks(p)
    <3>1. DeletedCalm  BY <2>9 DEF ChildStartHooks, RunHooks, InJail, Dead
    <3> QED  BY <3>1, DeletedCalmed
  <2>10. CASE ChildExec(p)
    <3>1. DeletedCalm  BY <2>10 DEF ChildExec, Dead
    <3> QED  BY <3>1, DeletedCalmed
  <2> QED  BY <1>6, <2>1, <2>2, <2>3, <2>4, <2>5, <2>6, <2>7, <2>8, <2>9,
       <2>10 DEF ChildStep
<1>7. ASSUME NEW p \in Proc, NEW c \in Cmds, Invoke(p, c) PROVE DeletedInv'
  <2>1. DeletedCalm  BY <1>7 DEF Invoke, InFlight
  <2> QED  BY <2>1, DeletedCalmed
<1>8. ASSUME NEW p \in Proc, Crash(p) PROVE DeletedInv'
  <2>1. DeletedCalm  BY <1>8 DEF Crash, SharesLock, InFlight, CloseFifo
  <2> QED  BY <2>1, DeletedCalmed
<1>9. ASSUME NEW p \in Proc, ProcessExit(p) PROVE DeletedInv'
  <2>1. DeletedCalm  BY <1>9 DEF ProcessExit, ChildExit, Dead
  <2> QED  BY <2>1, DeletedCalmed
<1>10. ASSUME NEW p \in Proc, Reap(p) PROVE DeletedInv'
  <2>1. DeletedCalm  BY <1>10 DEF Reap, Dead
  <2> QED  BY <2>1, DeletedCalmed
<1>11. ASSUME NEW p \in Proc, ExecStep(p) PROVE DeletedInv'
  <2>1. CASE ExecLoad(p)
    <3>1. DeletedCalm  BY <2>1 DEF ExecLoad, LoadThen, load, SetStatus
    <3> QED  BY <3>1, DeletedCalmed
  <2>2. CASE ExecFork(p)
    <3>1. DeletedCalm  BY <2>2 DEF ExecFork
    <3> QED  BY <3>1, DeletedCalmed
  <2>3. CASE ExecSignal(p)
    <3>1. DeletedCalm  BY <2>3 DEF ExecSignal
    <3> QED  BY <3>1, DeletedCalmed
  <2>4. CASE ExecAwait(p)
    <3>1. DeletedCalm  BY <2>4, SMTT(30) DEF ExecAwait
    <3> QED  BY <3>1, DeletedCalmed
  <2>5. CASE ExecKilled(p)
    <3>1. DeletedCalm  BY <2>5 DEF ExecKilled
    <3> QED  BY <3>1, DeletedCalmed
  <2> QED  BY <1>11, <2>1, <2>2, <2>3, <2>4, <2>5 DEF ExecStep
<1>12. ASSUME NEW p \in Proc, XStep(p) PROVE DeletedInv'
  <2>1. CASE XPreStart(p)
    <3>1. DeletedCalm  BY <2>1 DEF XPreStart
    <3> QED  BY <3>1, DeletedCalmed
  <2>2. CASE XWaitParent(p)
    <3>1. DeletedCalm  BY <2>2 DEF XWaitParent
    <3> QED  BY <3>1, DeletedCalmed
  <2>3. CASE XAttach(p)
    <3>1. DeletedCalm  BY <2>3 DEF XAttach
    <3> QED  BY <3>1, DeletedCalmed
  <2>4. CASE XValidate(p)
    <3>1. DeletedCalm  BY <2>4 DEF XValidate
    <3> QED  BY <3>1, DeletedCalmed
  <2>5. CASE XReport(p)
    <3>1. DeletedCalm  BY <2>5 DEF XReport
    <3> QED  BY <3>1, DeletedCalmed
  <2>6. CASE XExec(p)
    <3>1. DeletedCalm  BY <2>6 DEF XExec
    <3> QED  BY <3>1, DeletedCalmed
  <2> QED  BY <1>12, <2>1, <2>2, <2>3, <2>4, <2>5, <2>6 DEF XStep
<1>13. ASSUME NEW p \in Proc, XExit(p) PROVE DeletedInv'
  <2>1. DeletedCalm  BY <1>13 DEF XExit
  <2> QED  BY <2>1, DeletedCalmed
<1>14. CASE UNCHANGED vars
  <2>1. DeletedCalm  BY <1>14 DEF vars, stateVars, dirVars, hostVars, ctlVars
  <2> QED  BY <2>1, DeletedCalmed
<1> QED  BY <1>1, <1>2, <1>3, <1>4, <1>5, <1>6, <1>7, <1>8, <1>9, <1>10,
       <1>11, <1>12, <1>13, <1>14 DEF Next, Step

\* DeleteComplete holds of every instance.
THEOREM DeleteCompleteAlways == Spec => []DeleteComplete
<1>1. Init => KnownForked /\ Recorded /\ JailInv /\ StoppedInv /\ DeletedInv
  BY RuntimeStateAssumption
     DEF Init, StateInit, HostInit, CommandsInit, KnownForked, Recorded,
         JailInv, StoppedInv, DeletedInv, Deleting, IsDelete, OthersOnly,
         Blocked, InJail, XInJail, exists, NoFile, NoMem
<1>2. /\ ControlTypes /\ ControlTypes' /\ Control /\ TypeOK
      /\ KnownForked /\ Recorded /\ JailInv /\ StoppedInv /\ DeletedInv
      /\ [Next]_vars
      => KnownForked' /\ Recorded' /\ JailInv' /\ StoppedInv' /\ DeletedInv'
  BY KnownForkedStep, RecordedStep, JailStep, StoppedStep, DeletedStep
     DEF TypeOK
<1>3. ControlTypes /\ JailInv /\ DeletedInv => DeleteComplete
  BY DEF ControlTypes, MemType, ProcOrNone, JailInv, DeletedInv, Deleting,
         NoChild, DeleteComplete, Returned, Alive, Outside, InJail, Dead
<1> QED  BY <1>1, <1>2, <1>3, ControlInvariant, TypeCorrect, PTL DEF Spec

-----------------------------------------------------------------------------
(* Torn files.                                                             *)

\* A torn file exists, and whoever is killed takes no further step.
TornInv ==
  /\ TornHasWriter
  /\ json.torn => json.ino \in Proc
  /\ \A p \in Proc : out[p] = "crashed" => pc[p] = "done"

\* A step that leaves state.json alone, and at which nobody who writes it
\* stops but by being killed.
TornCalm ==
  /\ json' = json
  /\ \A q \in Proc :
       /\ mem'[q].out = mem[q].out
       /\ pc[q] = "write" => pc'[q] = "write" \/ out'[q] = "crashed"
       /\ out[q] = "crashed" => out'[q] = "crashed"
       /\ out'[q] = "crashed" => pc'[q] = "done"

\* Such a step preserves TornInv.
LEMMA TornCalmed ==
  ASSUME TornInv, TornCalm
  PROVE  TornInv'
BY DEF TornInv, TornHasWriter, TornCalm

\* Every step preserves TornInv: only the first half of a save() tears the
\* file, and its writer mends it or is killed.
LEMMA TornStep ==
  ASSUME ControlTypes, ControlTypes', Control, TornInv, [Next]_vars,
         CommandsTypeOK
  PROVE  TornInv'
<1> USE RuntimeStateAssumption DEF ControlTypes, MemType, JsonType,
     CommandsTypeOK, Control, ExecPcs, TornCalm, TornInv, TornHasWriter,
     exists, NoFile, Goto, Throw, Leave, End, ReleaseLock, stateVars,
     dirVars, ctlVars, ChildGoto, XGoto, XThrow, IsExec, Detached, Preparing,
     XOutside, XInJail
<1>1. ASSUME NEW p \in Proc, CommonStep(p) PROVE TornInv'
  <2>1. CASE Open(p)
    <3>1. TornCalm  BY <2>1 DEF Open, OpenLock
    <3> QED  BY <3>1, TornCalmed
  <2>2. CASE Flock(p)
    <3>1. TornCalm  BY <2>2 DEF Flock, TakeLock
    <3> QED  BY <3>1, TornCalmed
  <2>3. CASE LoadFails(p)
    <3>1. TornCalm  BY <2>3 DEF LoadFails
    <3> QED  BY <3>1, TornCalmed
  <2>4. CASE SaveBegin(p)
    <3>1. /\ pc'[p] = "write" /\ out' = out
          /\ \A q \in Proc \ {p} : pc'[q] = pc[q] /\ mem'[q] = mem[q]
          /\ mem'[p].out = json'.ino
      BY <2>4 DEF SaveBegin, Truncate
    <3>2. \A q \in Proc : out[q] = "crashed" => pc[q] = "done" /\ q # p
      BY <2>4 DEF SaveBegin
    <3>3. json' = json \/ (json'.torn /\ json'.ino \in Proc)
      BY <2>4 DEF SaveBegin, Truncate, ProcOrNone
    <3> QED  BY <3>1, <3>2, <3>3
  <2>5. CASE SaveEnd(p)  BY <2>5 DEF SaveEnd, Write, AfterSave, IsDelete
  <2>6. CASE RemoveJail(p)
    <3>1. TornCalm  BY <2>6 DEF RemoveJail
    <3> QED  BY <3>1, TornCalmed
  <2>7. CASE Unmount(p)
    <3>1. TornCalm  BY <2>7 DEF Unmount
    <3> QED  BY <3>1, TornCalmed
  <2>8. CASE RemoveBegin(p)
    <3>1. TornCalm  BY <2>8 DEF RemoveBegin, AfterRemove, ListDir
    <3> QED  BY <3>1, TornCalmed
  <2>9. CASE RemoveNext(p)  BY <2>9 DEF RemoveNext, Unlink
  <2>10. CASE RemoveEnd(p)
    <3>1. TornCalm  BY <2>10 DEF RemoveEnd, RemoveDir, AfterRemove
    <3> QED  BY <3>1, TornCalmed
  <2>11. CASE Return(p)
    <3>1. TornCalm  BY <2>11 DEF Return
    <3> QED  BY <3>1, TornCalmed
  <2>12. CASE RemoveThrows(p)
    <3>1. TornCalm  BY <2>12 DEF RemoveThrows
    <3> QED  BY <3>1, TornCalmed
  <2> QED  BY <1>1, <2>1, <2>2, <2>3, <2>4, <2>5, <2>6, <2>7, <2>8, <2>9,
       <2>10, <2>11, <2>12 DEF CommonStep
<1>2. ASSUME NEW p \in Proc, CreateStep(p) PROVE TornInv'
  <2>1. CASE CreateCheck(p)
    <3>1. TornCalm  BY <2>1 DEF CreateCheck, SetStatus
    <3> QED  BY <3>1, TornCalmed
  <2>2. CASE CreateDirectory(p)
    <3>1. TornCalm  BY <2>2 DEF CreateDirectory, create_directories
    <3> QED  BY <3>1, TornCalmed
  <2>3. CASE CreateMount(p)
    <3>1. TornCalm  BY <2>3 DEF CreateMount
    <3> QED  BY <3>1, TornCalmed
  <2>4. CASE CreateJail(p)
    <3>1. TornCalm  BY <2>4 DEF CreateJail
    <3> QED  BY <3>1, TornCalmed
  <2>5. CASE CreateFifo(p)
    <3>1. TornCalm  BY <2>5 DEF CreateFifo, mkfifo
    <3> QED  BY <3>1, TornCalmed
  <2>6. CASE Fork(p)
    <3>1. TornCalm  BY <2>6 DEF Fork
    <3> QED  BY <3>1, TornCalmed
  <2>7. CASE CreateRuntime(p)
    <3>1. TornCalm  BY <2>7 DEF CreateRuntime, RunHooks
    <3> QED  BY <3>1, TornCalmed
  <2>8. CASE CreateUnlock(p)
    <3>1. TornCalm  BY <2>8 DEF CreateUnlock
    <3> QED  BY <3>1, TornCalmed
  <2>9. CASE CreateSignal(p)
    <3>1. TornCalm  BY <2>9 DEF CreateSignal
    <3> QED  BY <3>1, TornCalmed
  <2>10. CASE CreateAwait(p)
    <3>1. TornCalm  BY <2>10 DEF CreateAwait
    <3> QED  BY <3>1, TornCalmed
  <2> QED  BY <1>2, <2>1, <2>2, <2>3, <2>4, <2>5, <2>6, <2>7, <2>8, <2>9,
       <2>10 DEF CreateStep
<1>3. ASSUME NEW p \in Proc, StartStep(p) PROVE TornInv'
  <2>1. CASE StartLoad(p)
    <3>1. TornCalm  BY <2>1 DEF StartLoad, SetStatus
    <3> QED  BY <3>1, TornCalmed
  <2>2. CASE StartPrestart(p)
    <3>1. TornCalm  BY <2>2 DEF StartPrestart, RunHooks
    <3> QED  BY <3>1, TornCalmed
  <2>3. CASE StartOpenFifo(p)
    <3>1. TornCalm  BY <2>3 DEF StartOpenFifo
    <3> QED  BY <3>1, TornCalmed
  <2>4. CASE StartWriteFifo(p)
    <3>1. TornCalm  BY <2>4 DEF StartWriteFifo
    <3> QED  BY <3>1, TornCalmed
  <2>5. CASE StartCloseFifo(p)
    <3>1. TornCalm  BY <2>5 DEF StartCloseFifo
    <3> QED  BY <3>1, TornCalmed
  <2>6. CASE StartPoststart(p)
    <3>1. TornCalm  BY <2>6 DEF StartPoststart, RunHooks
    <3> QED  BY <3>1, TornCalmed
  <2> QED  BY <1>3, <2>1, <2>2, <2>3, <2>4, <2>5, <2>6 DEF StartStep
<1>4. ASSUME NEW p \in Proc, InspectStep(p) PROVE TornInv'
  <2>1. CASE ListExists(p)
    <3>1. TornCalm  BY <2>1 DEF ListExists
    <3> QED  BY <3>1, TornCalmed
  <2>2. CASE InspectLoad(p)
    <3>1. TornCalm  BY <2>2 DEF InspectLoad, LoadAndCheck, SetStatus,
          AfterSave
    <3> QED  BY <3>1, TornCalmed
  <2>3. CASE KillLoad(p)
    <3>1. TornCalm  BY <2>3 DEF KillLoad, LoadThen, load, SetStatus
    <3> QED  BY <3>1, TornCalmed
  <2>4. CASE KillSend(p)
    <3>1. TornCalm  BY <2>4 DEF KillSend, Kill
    <3> QED  BY <3>1, TornCalmed
  <2> QED  BY <1>4, <2>1, <2>2, <2>3, <2>4 DEF InspectStep
<1>5. ASSUME NEW p \in Proc, DeleteStep(p) PROVE TornInv'
  <2>1. CASE DeleteExists(p)
    <3>1. TornCalm  BY <2>1 DEF DeleteExists
    <3> QED  BY <3>1, TornCalmed
  <2>2. CASE DeleteLoad(p)
    <3>1. TornCalm  BY <2>2 DEF DeleteLoad, LoadAndCheck, SetStatus,
          AfterSave
    <3> QED  BY <3>1, TornCalmed
  <2>3. CASE DeleteDecide(p)
    <3>1. TornCalm  BY <2>3 DEF DeleteDecide, Kill
    <3> QED  BY <3>1, TornCalmed
  <2>4. CASE DeletePoststop(p)
    <3>1. TornCalm  BY <2>4 DEF DeletePoststop, RunHooks
    <3> QED  BY <3>1, TornCalmed
  <2> QED  BY <1>5, <2>1, <2>2, <2>3, <2>4 DEF DeleteStep
<1>6. ASSUME NEW p \in Proc, ChildStep(p) PROVE TornInv'
  <2>1. CASE ChildPreStart(p)
    <3>1. TornCalm  BY <2>1 DEF ChildPreStart, ChildThrow
    <3> QED  BY <3>1, TornCalmed
  <2>2. CASE ChildOpenFifo(p)
    <3>1. TornCalm  BY <2>2 DEF ChildOpenFifo, ChildThrow
    <3> QED  BY <3>1, TornCalmed
  <2>3. CASE ChildWaitParent(p)
    <3>1. TornCalm  BY <2>3 DEF ChildWaitParent
    <3> QED  BY <3>1, TornCalmed
  <2>4. CASE ChildHooks(p)
    <3>1. TornCalm  BY <2>4 DEF ChildHooks
    <3> QED  BY <3>1, TornCalmed
  <2>5. CASE ChildAttach(p)
    <3>1. TornCalm  BY <2>5 DEF ChildAttach
    <3> QED  BY <3>1, TornCalmed
  <2>6. CASE ChildValidate(p)
    <3>1. TornCalm  BY <2>6 DEF ChildValidate
    <3> QED  BY <3>1, TornCalmed
  <2>7. CASE ChildReport(p)
    <3>1. TornCalm  BY <2>7 DEF ChildReport
    <3> QED  BY <3>1, TornCalmed
  <2>8. CASE ChildWaitStart(p)
    <3>1. TornCalm  BY <2>8 DEF ChildWaitStart
    <3> QED  BY <3>1, TornCalmed
  <2>9. CASE ChildStartHooks(p)
    <3>1. TornCalm  BY <2>9 DEF ChildStartHooks, RunHooks
    <3> QED  BY <3>1, TornCalmed
  <2>10. CASE ChildExec(p)
    <3>1. TornCalm  BY <2>10 DEF ChildExec
    <3> QED  BY <3>1, TornCalmed
  <2> QED  BY <1>6, <2>1, <2>2, <2>3, <2>4, <2>5, <2>6, <2>7, <2>8, <2>9,
       <2>10 DEF ChildStep
<1>7. ASSUME NEW p \in Proc, NEW c \in Cmds, Invoke(p, c) PROVE TornInv'
  <2>1. TornCalm  BY <1>7 DEF Invoke
  <2> QED  BY <2>1, TornCalmed
<1>8. ASSUME NEW p \in Proc, Crash(p) PROVE TornInv'
  <2>1. TornCalm  BY <1>8 DEF Crash, SharesLock, InFlight
  <2> QED  BY <2>1, TornCalmed
<1>9. ASSUME NEW p \in Proc, ProcessExit(p) PROVE TornInv'
  <2>1. TornCalm  BY <1>9 DEF ProcessExit
  <2> QED  BY <2>1, TornCalmed
<1>10. ASSUME NEW p \in Proc, Reap(p) PROVE TornInv'
  <2>1. TornCalm  BY <1>10 DEF Reap
  <2> QED  BY <2>1, TornCalmed
<1>11. ASSUME NEW p \in Proc, ExecStep(p) PROVE TornInv'
  <2>1. CASE ExecLoad(p)
    <3>1. TornCalm  BY <2>1 DEF ExecLoad, LoadThen, load, SetStatus
    <3> QED  BY <3>1, TornCalmed
  <2>2. CASE ExecFork(p)
    <3>1. TornCalm  BY <2>2 DEF ExecFork, IsExec
    <3> QED  BY <3>1, TornCalmed
  <2>3. CASE ExecSignal(p)
    <3>1. TornCalm  BY <2>3 DEF ExecSignal
    <3> QED  BY <3>1, TornCalmed
  <2>4. CASE ExecAwait(p)
    <3>1. TornCalm  BY <2>4 DEF ExecAwait
    <3> QED  BY <3>1, TornCalmed
  <2>5. CASE ExecKilled(p)
    <3>1. TornCalm  BY <2>5 DEF ExecKilled
    <3> QED  BY <3>1, TornCalmed
  <2> QED  BY <1>11, <2>1, <2>2, <2>3, <2>4, <2>5 DEF ExecStep
<1>12. ASSUME NEW p \in Proc, XStep(p) PROVE TornInv'
  <2>1. CASE XPreStart(p)
    <3>1. TornCalm  BY <2>1 DEF XPreStart
    <3> QED  BY <3>1, TornCalmed
  <2>2. CASE XWaitParent(p)
    <3>1. TornCalm  BY <2>2 DEF XWaitParent
    <3> QED  BY <3>1, TornCalmed
  <2>3. CASE XAttach(p)
    <3>1. TornCalm  BY <2>3, SMTT(60) DEF XAttach
    <3> QED  BY <3>1, TornCalmed
  <2>4. CASE XValidate(p)
    <3>1. TornCalm  BY <2>4, SMTT(30) DEF XValidate
    <3> QED  BY <3>1, TornCalmed
  <2>5. CASE XReport(p)
    <3>1. TornCalm  BY <2>5 DEF XReport
    <3> QED  BY <3>1, TornCalmed
  <2>6. CASE XExec(p)
    <3>1. TornCalm  BY <2>6 DEF XExec
    <3> QED  BY <3>1, TornCalmed
  <2> QED  BY <1>12, <2>1, <2>2, <2>3, <2>4, <2>5, <2>6 DEF XStep
<1>13. ASSUME NEW p \in Proc, XExit(p) PROVE TornInv'
  <2>1. TornCalm  BY <1>13 DEF XExit
  <2> QED  BY <2>1, TornCalmed
<1>14. CASE UNCHANGED vars
  <2>1. TornCalm  BY <1>14 DEF vars, stateVars, dirVars, hostVars, ctlVars
  <2> QED  BY <2>1, TornCalmed
<1> QED  BY <1>1, <1>2, <1>3, <1>4, <1>5, <1>6, <1>7, <1>8, <1>9, <1>10,
       <1>11, <1>12, <1>13, <1>14 DEF Next, Step

\* TornHasWriter holds of every instance.
THEOREM TornHasWriterAlways == Spec => []TornHasWriter
<1>1. Init => TornInv
  BY DEF Init, StateInit, CommandsInit, TornInv, TornHasWriter, NoFile
<1>2. /\ ControlTypes /\ ControlTypes' /\ Control /\ TypeOK
      /\ TornInv /\ [Next]_vars
      => TornInv'
  BY TornStep DEF TypeOK
<1>3. TornInv => TornHasWriter
  BY DEF TornInv
<1> QED  BY <1>1, <1>2, <1>3, ControlInvariant, TypeCorrect, PTL DEF Spec

-----------------------------------------------------------------------------
(* The handshake of create with its child.                                 *)

\* The container process before it opens the FIFO, while it has it open, and
\* from the point where it has reported success.
BeforeFifo == {"pre_start", "open_fifo"}
AtFifo     == {"wait_parent", "createContainer", "attach", "validate",
               "valid", "wait_start"}
Reported   == {"wait_start", "startContainer", "exec", "running"} \cup Dead

\* The jail comes before the FIFO and stays until the child has opened it, so
\* the name start_wait denotes the child's own FIFO, or nothing; success is
\* reported by a child at its FIFO, failure by one that has been there.
WaitInv ==
  \A c \in Proc :
    /\ pc[c] \in {"mkfifo", "fork"} \/ child[c] \in BeforeFifo => jail = c
    /\ pc[c] = "fork" \/ child[c] \in BeforeFifo => fifoFile \in {NoProc, c}
    /\ child[c] \in AtFifo => fifoFd[c] = c
    /\ pc[c] = "idle" => report[c] = "none"
    /\ pc[c] = "remove_jail" => cmd[c] = "create" \/ IsDelete(c)
    /\ cmd[c] = "create" =>
         /\ report[c] = "ok" => child[c] \in Reported
         /\ pc[c] = "remove_jail" \/ report[c] = "failed"
            => child[c] \notin {"none"} \cup BeforeFifo
         /\ Returned(c) => report[c] = "ok"

\* A step at which nothing that WaitInv is about gets worse.
WaitCalm ==
  /\ jail' = jail /\ fifoFile' \in {fifoFile, NoProc}
  /\ \A c \in Proc :
       /\ pc'[c] \in {"mkfifo", "fork", "idle"} => pc'[c] = pc[c]
       /\ child'[c] \in BeforeFifo => child[c] \in BeforeFifo
       /\ child'[c] \in AtFifo => child[c] \in AtFifo /\ fifoFd'[c] = fifoFd[c]
       /\ child'[c] = "none" => child[c] = "none"
       /\ pc'[c] = "idle" => report'[c] = report[c]
       /\ pc'[c] = "remove_jail" => cmd'[c] = "create" \/ IsDelete(c)'
       /\ cmd'[c] = "create" =>
            /\ report'[c] = report[c]
            /\ report[c] # "none" => cmd[c] = "create"
            /\ pc'[c] = "remove_jail" =>
                 cmd[c] = "create" /\ pc[c] = "remove_jail"
            /\ child[c] \in Reported => child'[c] \in Reported
            /\ Returned(c)' => cmd[c] = "create" /\ Returned(c)

\* Such a step preserves WaitInv.
LEMMA WaitCalmed ==
  ASSUME WaitInv, WaitCalm
  PROVE  WaitInv'
BY DEF WaitInv, WaitCalm

\* Every step preserves WaitInv.
LEMMA WaitStep ==
  ASSUME ControlTypes, ControlTypes', Control, Recorded, DeletedInv, WaitInv,
         HostTypeOK, CommandsTypeOK, [Next]_vars
  PROVE  WaitInv'
<1> USE RuntimeStateAssumption DEF ControlTypes, MemType, ProcOrNone,
     CommandsTypeOK, HostTypeOK, Control, CreatePcs, OtherPcs, ExecPcs,
     PreFork, IsDelete, WaitCalm, WaitInv, BeforeFifo, AtFifo, Reported,
     Dead, Returned, Goto, Throw, Leave, End, ReleaseLock, hostVars,
     stateVars, dirVars, ctlVars, pipeVars, ChildGoto, XGoto, XThrow, IsExec,
     Detached, Preparing, XOutside, XInJail
<1>1. ASSUME NEW p \in Proc, CommonStep(p) PROVE WaitInv'
  <2>1. CASE Open(p)
    <3>1. WaitCalm  BY <2>1 DEF Open, OpenLock
    <3> QED  BY <3>1, WaitCalmed
  <2>2. CASE Flock(p)
    <3>1. WaitCalm  BY <2>2 DEF Flock, TakeLock
    <3> QED  BY <3>1, WaitCalmed
  <2>3. CASE LoadFails(p)
    <3>1. WaitCalm  BY <2>3 DEF LoadFails
    <3> QED  BY <3>1, WaitCalmed
  <2>4. CASE SaveBegin(p)
    <3>1. WaitCalm  BY <2>4 DEF SaveBegin, Truncate
    <3> QED  BY <3>1, WaitCalmed
  <2>5. CASE SaveEnd(p)
    <3>1. WaitCalm  BY <2>5 DEF SaveEnd, Write, AfterSave
    <3> QED  BY <3>1, WaitCalmed
  <2>6. CASE RemoveJail(p)
    <3> USE <2>6 DEF RemoveJail
    <3>1. pc[p] = "remove_jail" /\ pc'[p] = "unmount" /\ fifoFile' = fifoFile
      OBVIOUS
    <3>2. /\ UNCHANGED <<cmd, out, mem, report>>
          /\ \A c \in Proc \ {p} : pc'[c] = pc[c]
      OBVIOUS
    <3>3. ASSUME NEW c \in Proc, jail = c, mem[p].of = c
          PROVE  pc[c] \notin {"mkfifo", "fork"} /\ child[c] \notin BeforeFifo
      <4>1. CASE cmd[p] = "create"
        BY <3>1, <3>3, <4>1 DEF Recorded
      <4>2. CASE IsDelete(p)
        BY <3>1, <3>3, <4>2 DEF DeletedInv, Deleting, NoChild
      <4> QED  BY <3>1, <4>1, <4>2
    <3>4. jail' = jail \/ (jail = mem[p].of /\ jail' = NoProc)
      BY DEF jail_remove
    <3>5. \A c \in Proc :
            \/ child'[c] = child[c] /\ fifoFd'[c] = fifoFd[c]
            \/ child'[c] = "zombie" /\ child[c] \in InJail
      BY DEF jail_remove, ChildExit, CloseFifo
    <3> QED  BY <3>1, <3>2, <3>3, <3>4, <3>5 DEF InJail
  <2>7. CASE Unmount(p)
    <3>1. WaitCalm  BY <2>7 DEF Unmount
    <3> QED  BY <3>1, WaitCalmed
  <2>8. CASE RemoveBegin(p)
    <3>1. WaitCalm  BY <2>8 DEF RemoveBegin, AfterRemove, ListDir
    <3> QED  BY <3>1, WaitCalmed
  <2>9. CASE RemoveNext(p)
    <3>1. WaitCalm  BY <2>9 DEF RemoveNext, Unlink
    <3> QED  BY <3>1, WaitCalmed
  <2>10. CASE RemoveEnd(p)
    <3>1. WaitCalm  BY <2>10 DEF RemoveEnd, RemoveDir, AfterRemove
    <3> QED  BY <3>1, WaitCalmed
  <2>11. CASE Return(p)
    <3>1. WaitCalm  BY <2>11 DEF Return, DeletedInv, OthersOnly
    <3> QED  BY <3>1, WaitCalmed
  <2>12. CASE RemoveThrows(p)
    <3>1. WaitCalm  BY <2>12 DEF RemoveThrows
    <3> QED  BY <3>1, WaitCalmed
  <2> QED  BY <1>1, <2>1, <2>2, <2>3, <2>4, <2>5, <2>6, <2>7, <2>8, <2>9,
       <2>10, <2>11, <2>12 DEF CommonStep
<1>2. ASSUME NEW p \in Proc, CreateStep(p) PROVE WaitInv'
  <2>1. CASE CreateCheck(p)
    <3>1. WaitCalm  BY <2>1 DEF CreateCheck
    <3> QED  BY <3>1, WaitCalmed
  <2>2. CASE CreateDirectory(p)
    <3>1. WaitCalm  BY <2>2 DEF CreateDirectory, create_directories
    <3> QED  BY <3>1, WaitCalmed
  <2>3. CASE CreateMount(p)
    <3>1. WaitCalm  BY <2>3 DEF CreateMount
    <3> QED  BY <3>1, WaitCalmed
  <2>4. CASE CreateJail(p)  BY <2>4 DEF CreateJail, jail_create
  <2>5. CASE CreateFifo(p)  BY <2>5 DEF CreateFifo, mkfifo
  <2>6. CASE Fork(p)  BY <2>6 DEF Fork
  <2>7. CASE CreateRuntime(p)
    <3>1. WaitCalm  BY <2>7 DEF CreateRuntime, RunHooks
    <3> QED  BY <3>1, WaitCalmed
  <2>8. CASE CreateUnlock(p)
    <3>1. WaitCalm  BY <2>8 DEF CreateUnlock
    <3> QED  BY <3>1, WaitCalmed
  <2>9. CASE CreateSignal(p)
    <3>1. WaitCalm  BY <2>9 DEF CreateSignal
    <3> QED  BY <3>1, WaitCalmed
  <2>10. CASE CreateAwait(p)  BY <2>10 DEF CreateAwait
  <2> QED  BY <1>2, <2>1, <2>2, <2>3, <2>4, <2>5, <2>6, <2>7, <2>8, <2>9,
       <2>10 DEF CreateStep
<1>3. ASSUME NEW p \in Proc, StartStep(p) PROVE WaitInv'
  <2>1. CASE StartLoad(p)
    <3>1. WaitCalm  BY <2>1 DEF StartLoad
    <3> QED  BY <3>1, WaitCalmed
  <2>2. CASE StartPrestart(p)
    <3>1. WaitCalm  BY <2>2 DEF StartPrestart, RunHooks
    <3> QED  BY <3>1, WaitCalmed
  <2>3. CASE StartOpenFifo(p)
    <3>1. WaitCalm  BY <2>3 DEF StartOpenFifo, OpenFifo
    <3> QED  BY <3>1, WaitCalmed
  <2>4. CASE StartWriteFifo(p)
    <3>1. WaitCalm  BY <2>4 DEF StartWriteFifo
    <3> QED  BY <3>1, WaitCalmed
  <2>5. CASE StartCloseFifo(p)
    <3>1. WaitCalm  BY <2>5 DEF StartCloseFifo, CloseFifo, DeletedInv,
          OthersOnly
    <3> QED  BY <3>1, WaitCalmed
  <2>6. CASE StartPoststart(p)
    <3>1. WaitCalm  BY <2>6 DEF StartPoststart, RunHooks
    <3> QED  BY <3>1, WaitCalmed
  <2> QED  BY <1>3, <2>1, <2>2, <2>3, <2>4, <2>5, <2>6 DEF StartStep
<1>4. ASSUME NEW p \in Proc, InspectStep(p) PROVE WaitInv'
  <2>1. CASE ListExists(p)
    <3>1. WaitCalm  BY <2>1 DEF ListExists
    <3> QED  BY <3>1, WaitCalmed
  <2>2. CASE InspectLoad(p)
    <3>1. WaitCalm  BY <2>2 DEF InspectLoad, LoadAndCheck, AfterSave
    <3> QED  BY <3>1, WaitCalmed
  <2>3. CASE KillLoad(p)
    <3>1. WaitCalm  BY <2>3 DEF KillLoad, LoadThen, load
    <3> QED  BY <3>1, WaitCalmed
  <2>4. CASE KillSend(p)
    <3>1. WaitCalm  BY <2>4 DEF KillSend, Kill, KillProcess, ChildExit,
          CloseFifo, Alive
    <3> QED  BY <3>1, WaitCalmed
  <2> QED  BY <1>4, <2>1, <2>2, <2>3, <2>4 DEF InspectStep
<1>5. ASSUME NEW p \in Proc, DeleteStep(p) PROVE WaitInv'
  <2>1. CASE DeleteExists(p)
    <3>1. WaitCalm  BY <2>1 DEF DeleteExists
    <3> QED  BY <3>1, WaitCalmed
  <2>2. CASE DeleteLoad(p)
    <3>1. WaitCalm  BY <2>2 DEF DeleteLoad, LoadAndCheck, AfterSave
    <3> QED  BY <3>1, WaitCalmed
  <2>3. CASE DeleteDecide(p)
    <3>1. WaitCalm  BY <2>3 DEF DeleteDecide, Kill, KillProcess, ChildExit,
          CloseFifo, Alive, DeletedInv
    <3> QED  BY <3>1, WaitCalmed
  <2>4. CASE DeletePoststop(p)
    <3>1. WaitCalm  BY <2>4 DEF DeletePoststop, RunHooks
    <3> QED  BY <3>1, WaitCalmed
  <2> QED  BY <1>5, <2>1, <2>2, <2>3, <2>4 DEF DeleteStep
<1>6. ASSUME NEW p \in Proc, ChildStep(p) PROVE WaitInv'
  <2>1. CASE ChildPreStart(p)
    <3>1. WaitCalm  BY <2>1 DEF ChildPreStart, ChildThrow, ChildExit,
          CloseFifo
    <3> QED  BY <3>1, WaitCalmed
  <2>2. CASE ChildOpenFifo(p)  BY <2>2 DEF ChildOpenFifo, OpenFifo,
       ChildThrow, ChildExit, CloseFifo
  <2>3. CASE ChildWaitParent(p)
    <3>1. WaitCalm  BY <2>3 DEF ChildWaitParent
    <3> QED  BY <3>1, WaitCalmed
  <2>4. CASE ChildHooks(p)  BY <2>4 DEF ChildHooks, FirstReport
  <2>5. CASE ChildAttach(p)
    <3>1. WaitCalm  BY <2>5 DEF ChildAttach
    <3> QED  BY <3>1, WaitCalmed
  <2>6. CASE ChildValidate(p)
    <3>1. WaitCalm  BY <2>6 DEF ChildValidate
    <3> QED  BY <3>1, WaitCalmed
  <2>7. CASE ChildReport(p)  BY <2>7 DEF ChildReport, FirstReport, ChildExit,
       CloseFifo
  <2>8. CASE ChildWaitStart(p)
    <3>1. WaitCalm  BY <2>8 DEF ChildWaitStart
    <3> QED  BY <3>1, WaitCalmed
  <2>9. CASE ChildStartHooks(p)
    <3>1. WaitCalm  BY <2>9 DEF ChildStartHooks, RunHooks
    <3> QED  BY <3>1, WaitCalmed
  <2>10. CASE ChildExec(p)
    <3>1. WaitCalm  BY <2>10 DEF ChildExec
    <3> QED  BY <3>1, WaitCalmed
  <2> QED  BY <1>6, <2>1, <2>2, <2>3, <2>4, <2>5, <2>6, <2>7, <2>8, <2>9,
       <2>10 DEF ChildStep
<1>7. ASSUME NEW p \in Proc, NEW c \in Cmds, Invoke(p, c) PROVE WaitInv'
  <2>1. WaitCalm  BY <1>7 DEF Invoke, InFlight
  <2> QED  BY <2>1, WaitCalmed
<1>8. ASSUME NEW p \in Proc, Crash(p) PROVE WaitInv'
  <2>1. WaitCalm  BY <1>8 DEF Crash, SharesLock, InFlight, CloseFifo
  <2> QED  BY <2>1, WaitCalmed
<1>9. ASSUME NEW p \in Proc, ProcessExit(p) PROVE WaitInv'
  <2>1. WaitCalm  BY <1>9 DEF ProcessExit, ChildExit, CloseFifo
  <2> QED  BY <2>1, WaitCalmed
<1>10. ASSUME NEW p \in Proc, Reap(p) PROVE WaitInv'
  <2>1. WaitCalm  BY <1>10 DEF Reap
  <2> QED  BY <2>1, WaitCalmed
<1>11. ASSUME NEW p \in Proc, ExecStep(p) PROVE WaitInv'
  <2>1. CASE ExecLoad(p)
    <3>1. WaitCalm  BY <2>1 DEF ExecLoad, LoadThen, load
    <3> QED  BY <3>1, WaitCalmed
  <2>2. CASE ExecFork(p)
    <3>1. WaitCalm  BY <2>2 DEF ExecFork
    <3> QED  BY <3>1, WaitCalmed
  <2>3. CASE ExecSignal(p)
    <3>1. WaitCalm  BY <2>3 DEF ExecSignal
    <3> QED  BY <3>1, WaitCalmed
  <2>4. CASE ExecAwait(p)
    <3>1. WaitCalm  BY <2>4 DEF ExecAwait
    <3> QED  BY <3>1, WaitCalmed
  <2>5. CASE ExecKilled(p)
    <3>1. WaitCalm  BY <2>5 DEF ExecKilled
    <3> QED  BY <3>1, WaitCalmed
  <2> QED  BY <1>11, <2>1, <2>2, <2>3, <2>4, <2>5 DEF ExecStep
<1>12. ASSUME NEW p \in Proc, XStep(p) PROVE WaitInv'
  <2>1. CASE XPreStart(p)
    <3>1. WaitCalm  BY <2>1 DEF XPreStart
    <3> QED  BY <3>1, WaitCalmed
  <2>2. CASE XWaitParent(p)
    <3>1. WaitCalm  BY <2>2 DEF XWaitParent
    <3> QED  BY <3>1, WaitCalmed
  <2>3. CASE XAttach(p)
    <3>1. WaitCalm  BY <2>3 DEF XAttach
    <3> QED  BY <3>1, WaitCalmed
  <2>4. CASE XValidate(p)
    <3>1. WaitCalm  BY <2>4 DEF XValidate
    <3> QED  BY <3>1, WaitCalmed
  <2>5. CASE XReport(p)
    <3>1. WaitCalm  BY <2>5 DEF XReport, FirstReport
    <3> QED  BY <3>1, WaitCalmed
  <2>6. CASE XExec(p)
    <3>1. WaitCalm  BY <2>6 DEF XExec
    <3> QED  BY <3>1, WaitCalmed
  <2> QED  BY <1>12, <2>1, <2>2, <2>3, <2>4, <2>5, <2>6 DEF XStep
<1>13. ASSUME NEW p \in Proc, XExit(p) PROVE WaitInv'
  <2>1. WaitCalm  BY <1>13 DEF XExit
  <2> QED  BY <2>1, WaitCalmed
<1>14. CASE UNCHANGED vars
  <2>1. WaitCalm  BY <1>14 DEF vars, stateVars, dirVars, hostVars, ctlVars
  <2> QED  BY <2>1, WaitCalmed
<1> QED  BY <1>1, <1>2, <1>3, <1>4, <1>5, <1>6, <1>7, <1>8, <1>9, <1>10,
       <1>11, <1>12, <1>13, <1>14 DEF Next, Step

\* CreatedWaits holds of every instance.
THEOREM CreatedWaitsAlways == Spec => []CreatedWaits
<1>1. Init => KnownForked /\ Recorded /\ StoppedInv /\ DeletedInv /\ WaitInv
  BY RuntimeStateAssumption
     DEF Init, StateInit, HostInit, CommandsInit, KnownForked, Recorded,
         StoppedInv, DeletedInv, Deleting, IsDelete, OthersOnly, Blocked,
         WaitInv,
         BeforeFifo, AtFifo, exists, NoFile, NoMem
<1>2. /\ ControlTypes /\ ControlTypes' /\ Control /\ TypeOK
      /\ KnownForked /\ Recorded /\ StoppedInv /\ DeletedInv /\ WaitInv
      /\ [Next]_vars
      => KnownForked' /\ Recorded' /\ StoppedInv' /\ DeletedInv' /\ WaitInv'
  BY KnownForkedStep, RecordedStep, StoppedStep, DeletedStep, WaitStep
     DEF TypeOK
<1>3. WaitInv => CreatedWaits
  BY DEF WaitInv, CreatedWaits, AtFifo, Reported
<1> QED  BY <1>1, <1>2, <1>3, ControlInvariant, TypeCorrect, PTL DEF Spec
=============================================================================
