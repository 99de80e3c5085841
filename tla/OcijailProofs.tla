--------------------------- MODULE OcijailProofs ---------------------------
(***************************************************************************)
(* Theorems about Ocijail that hold for every set of invocations, every    *)
(* set of commands and faults, and whatever overlaps with a create:        *)
(*   - type correctness;                                                   *)
(*   - a process in a jail has its jail and its volumes (JailedIsMounted);  *)
(*   - a command in its critical section holds the lock (LockHeld), unless *)
(*     the execve() of a hook can fail;                                    *)
(*   - a container recorded as stopped has no process (StoppedIsGone).     *)
(* The invariants need facts on the control of a command, Control; the     *)
(* first also needs that a container that anybody knows of has forked,     *)
(* KnownForked.  Each lemma that a step preserves an invariant has one     *)
(* step per action.                                                        *)
(***************************************************************************)
EXTENDS Ocijail, TLAPS

(* The inductive invariants.                                               *)

\* Steps that only create takes.
CreatePcs == {"check", "mkdir", "mount", "jail", "mkfifo", "fork",
              "createRuntime", "unlock", "signal", "await"}

\* Steps that create never takes.
OtherPcs == {"load", "prestart", "open_fifo", "decide", "poststop"}

\* Steps before a command opens the lock file, and at which it has it open.
Fresh   == {"idle", "check", "exists", "mkdir", "open"}
HasFile == LockedPcs \cup {"flock", "remove_jail", "unmount", "signal",
                           "await"}

\* Steps before create forks, and steps that it takes only after it has.
PreFork == {"idle", "check", "mkdir", "open", "flock", "mount", "jail",
            "mkfifo", "fork"}
Forked  == {"save", "write", "createRuntime", "unlock", "signal", "await",
            "remove_jail", "unmount"}

\* Steps that exec takes once it has a process to look after.
ExecPcs == {"exec_signal", "exec_await", "exec_run"}

\* What the step that p takes next says of its command, its lock file, its
\* child and the process of its exec.
Control ==
  \A p \in Proc :
    /\ pc[p] = "idle" => cmd[p] = "none"
    /\ pc[p] \in CreatePcs => cmd[p] = "create"
    /\ pc[p] \in OtherPcs => cmd[p] # "create"
    /\ pc[p] \in Fresh => fd[p] = NoProc
    /\ pc[p] \in HasFile => fd[p] \in Proc
    /\ pc[p] \in PreFork \/ cmd[p] # "create" => child[p] = "none"
    /\ pc[p] \in {"rm", "unlink"} /\ fd[p] = NoProc => child[p] = "none"
    /\ cmd[p] = "create" /\ pc[p] \in Forked => child[p] # "none"
    /\ pc[p] \in ExecPcs \cup {"exec_fork"} => IsExec(p)
    /\ xchild[p] # "none" => IsExec(p) /\ pc[p] \in ExecPcs \cup {"done"}
    /\ cmd[p] = "exec" /\ xchild[p] \in Preparing => pc[p] = "exec_run"

\* A container that state.json or a command's state_ describes has forked,
\* unless the command is the create that is about to make it.
Unforked(p) == cmd[p] = "create" /\ pc[p] \notin Forked
KnownForked ==
  /\ \A c \in Proc : json.of = c => child[c] # "none"
  /\ \A p, c \in Proc :
       mem[p].of = c => child[c] # "none" \/ (c = p /\ Unforked(p))

\* What a command that has read or made a record works on is a container.
Recorded ==
  /\ exists /\ ~json.torn => json.of \in Proc
  /\ \A p \in Proc :
       /\ cmd[p] = "create" /\ pc[p] \notin {"check", "done"} => mem[p].of = p
       /\ \/ pc[p] \in {"save", "write", "decide", "exec_fork"}
          \/ xchild[p] # "none"
          => mem[p].of \in Proc

\* A jail has its volumes from before it exists until after it is removed.
JailInv ==
  /\ \A c \in Proc : child[c] \in InJail => jail = c
  /\ \A c \in Proc : jail = c \/ pc[c] = "jail" => c \in mounted
  /\ \A p, c \in Proc : pc[p] = "unmount" /\ mem[p].of = c => jail # c
  /\ \A p \in Proc : xchild[p] \in XInJail => jail = mem[p].of

\* A status belongs to a container, and stopped to one whose process is gone.
StoppedInv ==
  /\ json.status # "none" => json.of \in Proc
  /\ json.status = "stopped" => child[json.of] = "gone"
  /\ \A p \in Proc :
       /\ mem[p].status # "none" => mem[p].of \in Proc
       /\ mem[p].status = "stopped" => child[mem[p].of] = "gone"

-----------------------------------------------------------------------------
(* Lemmas on the operators that the steps are built from.                  *)

MemType  == [of: ProcOrNone, status: Status, out: ProcOrNone]
JsonType == [ino: ProcOrNone, of: ProcOrNone, status: Status, torn: BOOLEAN]

\* SetStatus changes whose container p's state_ describes, and no other.
LEMMA SetStatusOf ==
  ASSUME mem \in [Proc -> MemType],
         NEW p \in Proc, NEW c, NEW st, SetStatus(p, c, st)
  PROVE  \A q \in Proc : mem'[q].of = IF q = p THEN c ELSE mem[q].of
BY DEF SetStatus, MemType

\* SetStatus keeps the type of state_.
LEMMA SetStatusType ==
  ASSUME mem \in [Proc -> MemType],
         NEW p \in Proc, NEW c \in ProcOrNone, NEW st \in Status,
         SetStatus(p, c, st)
  PROVE  mem' \in [Proc -> MemType]
BY DEF SetStatus, MemType

\* Reading state.json gives a container, or none, and a status.
LEMMA JsonFields ==
  ASSUME StateTypeOK
  PROVE  json.of \in ProcOrNone /\ json.status \in Status
BY DEF StateTypeOK

\* An unlock keeps the type of the state.
LEMMA ReleaseLockType ==
  ASSUME StateTypeOK, NEW p \in Proc, ReleaseLock(p)
  PROVE  StateTypeOK'
BY DEF StateTypeOK, ReleaseLock, Unlocked, dirVars, ProcOrNone

\* A kill() keeps the type of the state.
LEMMA KillType ==
  ASSUME StateTypeOK, NEW c, Kill(c)
  PROVE  StateTypeOK'
BY ReleaseLockType DEF Kill, StateTypeOK, stateVars, dirVars

\* The first half of save() keeps the type of the state.
LEMMA TruncateType ==
  ASSUME StateTypeOK, NEW p \in Proc, Truncate(p)
  PROVE  StateTypeOK'
<1> USE RuntimeStateAssumption DEF StateTypeOK, ProcOrNone, Status
<1>1. json' \in JsonType
  BY DEF Truncate, exists, NoFile, JsonType
<1>2. mem' \in [Proc -> MemType]
  <2>1. json'.ino \in ProcOrNone  BY <1>1 DEF JsonType
  <2> QED  BY <2>1 DEF Truncate, MemType
<1> QED  BY <1>1, <1>2 DEF Truncate, JsonType, MemType

\* A load() keeps the type of the state, and so does one with check_status().
LEMMA LoadType ==
  ASSUME StateTypeOK, NEW p \in Proc,
         load(p) \/ LoadAndCheck(p)
  PROVE  StateTypeOK'
<1>1. UNCHANGED <<dirVars, fd, holder>>
  BY DEF load, LoadAndCheck
<1>2. PICK st \in Status : SetStatus(p, json.of, st)
  BY JsonFields DEF load, LoadAndCheck, Status
<1>3. mem' \in [Proc -> MemType]
  BY <1>2, JsonFields, SetStatusType DEF StateTypeOK, MemType
<1> QED  BY <1>1, <1>3 DEF StateTypeOK, MemType, dirVars

\* The end of a container process keeps the types of what it touches.
LEMMA ChildExitType ==
  ASSUME HostTypeOK, NEW c \in Proc, ChildExit(c)
  PROVE  /\ child' \in [Proc -> ChildPcs]
         /\ fifo' \in [Proc -> SUBSET Proc]
         /\ fifoFd' \in [Proc -> ProcOrNone]
BY DEF HostTypeOK, ChildExit, CloseFifo, ChildPcs, Dead, ProcOrNone

\* The container process that throws keeps the type of the host.
LEMMA ChildThrowType ==
  ASSUME HostTypeOK, NEW c \in Proc, ChildThrow(c)
  PROVE  HostTypeOK'
BY ChildExitType DEF ChildThrow, HostTypeOK

\* So do the steps of the container process that use its FIFO.
LEMMA ChildFifoType ==
  ASSUME StateTypeOK, HostTypeOK, NEW c \in Proc,
         \/ ChildPreStart(c) \/ ChildOpenFifo(c)
         \/ ChildReport(c) \/ ChildWaitStart(c)
  PROVE  HostTypeOK'
<1>1. CASE ChildPreStart(c)
  <2>1. CASE ChildGoto(c, "open_fifo")
    BY <2>1 DEF ChildGoto, pipeVars, HostTypeOK, ChildPcs, Outside
  <2> QED  BY <1>1, <2>1, ChildThrowType DEF ChildPreStart
<1>2. CASE ChildOpenFifo(c)
  <2>1. CASE /\ OpenFifo(c) /\ UNCHANGED <<jail, xchild, mounted>>
             /\ child' = [child EXCEPT ![c] = "wait_parent"]
    BY <2>1 DEF OpenFifo, StateTypeOK, HostTypeOK, ChildPcs, Outside
  <2> QED  BY <1>2, <2>1, ChildThrowType DEF ChildOpenFifo
<1>3. CASE ChildReport(c)
  <2>1. CASE ChildGoto(c, "wait_start")
    BY <2>1 DEF ChildGoto, pipeVars, HostTypeOK, ChildPcs, InJail
  <2>2. CASE ChildExit(c) /\ UNCHANGED <<jail, xchild, mounted>>
    BY <2>2, ChildExitType DEF HostTypeOK
  <2> QED  BY <1>3, <2>1, <2>2 DEF ChildReport
<1>4. CASE ChildWaitStart(c)
  <2> USE DEF HostTypeOK
  <2> DEFINE f      == fifoFd[c]
             shared == \E r \in Proc \ {c} : fifoFd[r] = f
  <2>1. PICK b \in fifo[f] :
          fifo' = [fifo EXCEPT ![f] = IF shared THEN @ \ {b} ELSE {}]
    BY <1>4 DEF ChildWaitStart
  <2>2. fifo' \in [Proc -> SUBSET Proc]
    <3>1. CASE shared
      <4>1. fifo' = [fifo EXCEPT ![f] = @ \ {b}]  BY <2>1, <3>1
      <4> QED  BY <4>1
    <3>2. CASE ~shared
      <4>1. fifo' = [fifo EXCEPT ![f] = {}]  BY <2>1, <3>2
      <4> QED  BY <4>1
    <3> QED  BY <3>1, <3>2
  <2>3. child' \in [Proc -> ChildPcs] /\ fifoFd' \in [Proc -> ProcOrNone]
    BY <1>4 DEF ChildWaitStart, ChildPcs, InJail, ProcOrNone
  <2> QED  BY <1>4, <2>2, <2>3 DEF ChildWaitStart
<1> QED  BY <1>1, <1>2, <1>3, <1>4

-----------------------------------------------------------------------------
(* Type correctness.                                                       *)

\* Every step keeps the type of the state directory and the locks.
LEMMA StateTypeStep ==
  ASSUME TypeOK, [Next]_vars
  PROVE  StateTypeOK'
<1> USE RuntimeStateAssumption, CommandsAssumption DEF TypeOK, StateTypeOK,
     ProcOrNone, Name, Status, OpenLock, dirVars, TakeLock, exists, SetStatus,
     NoFile, Write, stateVars, ListDir, Entries, AfterRemove, Unlink,
     RemoveDir, create_directories, mkfifo, ChildGoto, InFlight, XGoto,
     XThrow, Leave
<1>1. ASSUME NEW p \in Proc, CommonStep(p) PROVE StateTypeOK'
  <2>1. CASE Open(p)  BY <2>1, ReleaseLockType DEF Open, Throw, Leave
  <2>2. CASE Flock(p)  BY <2>2 DEF Flock
  <2>3. CASE LoadFails(p)  BY <2>3, ReleaseLockType DEF LoadFails, Throw, Leave
  <2>4. CASE SaveBegin(p)  BY <2>4, TruncateType DEF SaveBegin
  <2>5. CASE SaveEnd(p)  BY <2>5 DEF SaveEnd
  <2>6. CASE RemoveJail(p)
    <3>1. holder' \in [Proc -> ProcOrNone]
      BY <2>6 DEF RemoveJail, UnlockedIn
    <3> QED  BY <2>6, <3>1 DEF RemoveJail
  <2>7. CASE Unmount(p)
    BY <2>7 DEF Unmount, Throw, Leave, ReleaseLock, Unlocked
  <2>8. CASE RemoveBegin(p)
    BY <2>8 DEF RemoveBegin, Throw, Leave, ReleaseLock, Unlocked
  <2>9. CASE RemoveNext(p)  BY <2>9 DEF RemoveNext
  <2>10. CASE RemoveEnd(p)
    BY <2>10, ZenonT(60) DEF RemoveEnd, Throw, Leave, ReleaseLock, Unlocked
  <2>11. CASE Return(p)  BY <2>11, ReleaseLockType DEF Return, Leave
  <2>12. CASE RemoveThrows(p)
    BY <2>12, ReleaseLockType DEF RemoveThrows, Throw, Leave
  <2> QED BY <1>1, <2>1, <2>2, <2>3, <2>4, <2>5, <2>6, <2>7, <2>8, <2>9,
       <2>10, <2>11, <2>12 DEF CommonStep
<1>2. ASSUME NEW p \in Proc, CreateStep(p) PROVE StateTypeOK'
  <2>1. CASE CreateCheck(p)
    BY <2>1, ReleaseLockType DEF CreateCheck, Throw, Leave
  <2>2. CASE CreateDirectory(p)  BY <2>2 DEF CreateDirectory
  <2>3. CASE CreateMount(p)  BY <2>3, ReleaseLockType DEF CreateMount, Leave
  <2>4. CASE CreateJail(p)
    BY <2>4, ReleaseLockType DEF CreateJail, Throw, Leave
  <2>5. CASE CreateFifo(p)
    BY <2>5, ReleaseLockType DEF CreateFifo, Throw, Leave
  <2>6. CASE Fork(p)  BY <2>6 DEF Fork
  <2>7. CASE CreateRuntime(p)
    BY <2>7, ReleaseLockType DEF CreateRuntime, RunHooks
  <2>8. CASE CreateUnlock(p)  BY <2>8, ReleaseLockType DEF CreateUnlock
  <2>9. CASE CreateSignal(p)  BY <2>9 DEF CreateSignal
  <2>10. CASE CreateAwait(p)  BY <2>10 DEF CreateAwait
  <2> QED BY <1>2, <2>1, <2>2, <2>3, <2>4, <2>5, <2>6, <2>7, <2>8, <2>9, <2>10
       DEF CreateStep
<1>3. ASSUME NEW p \in Proc, StartStep(p) PROVE StateTypeOK'
  <2>1. CASE StartLoad(p)  BY <2>1, ReleaseLockType DEF StartLoad, Throw, Leave
  <2>2. CASE StartPrestart(p)
    BY <2>2, ReleaseLockType DEF StartPrestart, RunHooks
  <2>3. CASE StartOpenFifo(p)
    BY <2>3, ReleaseLockType DEF StartOpenFifo, Throw, Leave
  <2>4. CASE StartWriteFifo(p)  BY <2>4 DEF StartWriteFifo
  <2>5. CASE StartCloseFifo(p)  BY <2>5 DEF StartCloseFifo
  <2>6. CASE StartPoststart(p)
    BY <2>6, ReleaseLockType DEF StartPoststart, RunHooks
  <2> QED BY <1>3, <2>1, <2>2, <2>3, <2>4, <2>5, <2>6 DEF StartStep
<1>4. ASSUME NEW p \in Proc, InspectStep(p) PROVE StateTypeOK'
  <2>1. CASE ListExists(p)  BY <2>1, ReleaseLockType DEF ListExists, Leave
  <2>2. CASE InspectLoad(p)  BY <2>2, LoadType DEF InspectLoad
  <2>3. CASE KillLoad(p)  BY <2>3, LoadType DEF KillLoad, LoadThen
  <2>4. CASE KillSend(p)  BY <2>4, KillType DEF KillSend
  <2> QED BY <1>4, <2>1, <2>2, <2>3, <2>4 DEF InspectStep
<1>5. ASSUME NEW p \in Proc, DeleteStep(p) PROVE StateTypeOK'
  <2>1. CASE DeleteExists(p)  BY <2>1 DEF DeleteExists
  <2>2. CASE DeleteLoad(p)  BY <2>2, LoadType DEF DeleteLoad
  <2>3. CASE DeleteDecide(p)
    BY <2>3, KillType, ReleaseLockType DEF DeleteDecide, Throw, Leave
  <2>4. CASE DeletePoststop(p)
    BY <2>4, ReleaseLockType DEF DeletePoststop, RunHooks
  <2> QED BY <1>5, <2>1, <2>2, <2>3, <2>4 DEF DeleteStep
<1>6. ASSUME NEW p \in Proc, ChildStep(p) PROVE StateTypeOK'
  <2>1. CASE ChildPreStart(p)
    BY <2>1, ReleaseLockType DEF ChildPreStart, ChildThrow
  <2>2. CASE ChildOpenFifo(p)
    BY <2>2, ReleaseLockType DEF ChildOpenFifo, ChildThrow
  <2>3. CASE ChildWaitParent(p)  BY <2>3 DEF ChildWaitParent
  <2>4. CASE ChildHooks(p)  BY <2>4 DEF ChildHooks
  <2>5. CASE ChildAttach(p)  BY <2>5 DEF ChildAttach
  <2>6. CASE ChildValidate(p)  BY <2>6 DEF ChildValidate
  <2>7. CASE ChildReport(p)  BY <2>7 DEF ChildReport
  <2>8. CASE ChildWaitStart(p)  BY <2>8 DEF ChildWaitStart
  <2>9. CASE ChildStartHooks(p)
    BY <2>9, ReleaseLockType DEF ChildStartHooks, RunHooks
  <2>10. CASE ChildExec(p)  BY <2>10 DEF ChildExec
  <2> QED BY <1>6, <2>1, <2>2, <2>3, <2>4, <2>5, <2>6, <2>7, <2>8, <2>9, <2>10
       DEF ChildStep
<1>7. ASSUME NEW p \in Proc, NEW c \in Cmds, Invoke(p, c) PROVE StateTypeOK'
  BY <1>7 DEF Invoke
<1>8. ASSUME NEW p \in Proc, Crash(p) PROVE StateTypeOK'
  BY <1>8, ReleaseLockType DEF Crash
<1>9. ASSUME NEW p \in Proc, ProcessExit(p) PROVE StateTypeOK'
  BY <1>9 DEF ProcessExit
<1>10. ASSUME NEW p \in Proc, Reap(p) PROVE StateTypeOK'
  BY <1>10 DEF Reap
<1>11. ASSUME NEW p \in Proc, ExecStep(p) PROVE StateTypeOK'
  <2>1. CASE ExecLoad(p)  BY <2>1, LoadType DEF ExecLoad, LoadThen
  <2>2. CASE ExecFork(p)  BY <2>2 DEF ExecFork
  <2>3. CASE ExecSignal(p)  BY <2>3 DEF ExecSignal
  <2>4. CASE ExecAwait(p)  BY <2>4, ReleaseLockType DEF ExecAwait
  <2>5. CASE ExecKilled(p)  BY <2>5, ReleaseLockType DEF ExecKilled
  <2> QED BY <1>11, <2>1, <2>2, <2>3, <2>4, <2>5 DEF ExecStep
<1>12. ASSUME NEW p \in Proc, XStep(p) PROVE StateTypeOK'
  <2>1. CASE XPreStart(p)  BY <2>1, ReleaseLockType DEF XPreStart
  <2>2. CASE XWaitParent(p)  BY <2>2 DEF XWaitParent
  <2>3. CASE XAttach(p)  BY <2>3, ReleaseLockType DEF XAttach
  <2>4. CASE XValidate(p)  BY <2>4, ReleaseLockType DEF XValidate
  <2>5. CASE XReport(p)  BY <2>5, ReleaseLockType DEF XReport
  <2>6. CASE XExec(p)  BY <2>6, ReleaseLockType DEF XExec
  <2> QED BY <1>12, <2>1, <2>2, <2>3, <2>4, <2>5, <2>6 DEF XStep
<1>13. ASSUME NEW p \in Proc, XExit(p) PROVE StateTypeOK'
  BY <1>13 DEF XExit
<1>14. CASE UNCHANGED vars
  BY <1>14 DEF vars, stateVars, dirVars, hostVars, ctlVars
<1> QED BY <1>1, <1>2, <1>3, <1>4, <1>5, <1>6, <1>7, <1>8, <1>9, <1>10, <1>11,
     <1>12, <1>13, <1>14 DEF Next, Step

\* Every step keeps the type of the host's objects.
LEMMA HostTypeStep ==
  ASSUME TypeOK, [Next]_vars
  PROVE  HostTypeOK'
<1> USE RuntimeStateAssumption, CommandsAssumption DEF TypeOK, StateTypeOK,
     HostTypeOK, ProcOrNone, ChildPcs, Outside, InJail, Dead, hostVars, Throw,
     Leave, jail_remove, ChildExit, CloseFifo, pipeVars, RunHooks, OpenFifo,
     LoadAndCheck, LoadThen, Kill, KillProcess, Alive, ChildGoto, ChildThrow,
     InFlight, XGoto, XThrow, XPcs, XOutside, XInJail
<1>1. ASSUME NEW p \in Proc, CommonStep(p) PROVE HostTypeOK'
  <2>1. CASE Open(p)  BY <2>1 DEF Open
  <2>2. CASE Flock(p)  BY <2>2 DEF Flock
  <2>3. CASE LoadFails(p)  BY <2>3 DEF LoadFails
  <2>4. CASE SaveBegin(p)  BY <2>4 DEF SaveBegin
  <2>5. CASE SaveEnd(p)  BY <2>5 DEF SaveEnd
  <2>6. CASE RemoveJail(p)  BY <2>6, ZenonT(60) DEF RemoveJail
  <2>7. CASE Unmount(p)  BY <2>7 DEF Unmount,
                                      unmount_volumes, unmount_volumes_fails
  <2>8. CASE RemoveBegin(p)  BY <2>8 DEF RemoveBegin
  <2>9. CASE RemoveNext(p)  BY <2>9 DEF RemoveNext
  <2>10. CASE RemoveEnd(p)  BY <2>10 DEF RemoveEnd
  <2>11. CASE Return(p)  BY <2>11 DEF Return
  <2>12. CASE RemoveThrows(p)  BY <2>12 DEF RemoveThrows
  <2> QED BY <1>1, <2>1, <2>2, <2>3, <2>4, <2>5, <2>6, <2>7, <2>8, <2>9,
       <2>10, <2>11, <2>12 DEF CommonStep
<1>2. ASSUME NEW p \in Proc, CreateStep(p) PROVE HostTypeOK'
  <2>1. CASE CreateCheck(p)  BY <2>1 DEF CreateCheck
  <2>2. CASE CreateDirectory(p)  BY <2>2 DEF CreateDirectory
  <2>3. CASE CreateMount(p)  BY <2>3 
    DEF CreateMount, mount_volumes, mount_volumes_fails
  <2>4. CASE CreateJail(p)  BY <2>4 DEF CreateJail, jail_create
  <2>5. CASE CreateFifo(p)  BY <2>5 DEF CreateFifo
  <2>6. CASE Fork(p)  BY <2>6 DEF Fork
  <2>7. CASE CreateRuntime(p)  BY <2>7 DEF CreateRuntime
  <2>8. CASE CreateUnlock(p)  BY <2>8 DEF CreateUnlock
  <2>9. CASE CreateSignal(p)  BY <2>9 DEF CreateSignal
  <2>10. CASE CreateAwait(p)  BY <2>10 DEF CreateAwait
  <2> QED BY <1>2, <2>1, <2>2, <2>3, <2>4, <2>5, <2>6, <2>7, <2>8, <2>9, <2>10
       DEF CreateStep
<1>3. ASSUME NEW p \in Proc, StartStep(p) PROVE HostTypeOK'
  <2>1. CASE StartLoad(p)  BY <2>1 DEF StartLoad
  <2>2. CASE StartPrestart(p)  BY <2>2 DEF StartPrestart
  <2>3. CASE StartOpenFifo(p)  BY <2>3 DEF StartOpenFifo
  <2>4. CASE StartWriteFifo(p)  BY <2>4 DEF StartWriteFifo
  <2>5. CASE StartCloseFifo(p)  BY <2>5 DEF StartCloseFifo
  <2>6. CASE StartPoststart(p)  BY <2>6 DEF StartPoststart
  <2> QED BY <1>3, <2>1, <2>2, <2>3, <2>4, <2>5, <2>6 DEF StartStep
<1>4. ASSUME NEW p \in Proc, InspectStep(p) PROVE HostTypeOK'
  <2>1. CASE ListExists(p)  BY <2>1 DEF ListExists
  <2>2. CASE InspectLoad(p)  BY <2>2 DEF InspectLoad
  <2>3. CASE KillLoad(p)  BY <2>3 DEF KillLoad
  <2>4. CASE KillSend(p)  BY <2>4 DEF KillSend
  <2> QED BY <1>4, <2>1, <2>2, <2>3, <2>4 DEF InspectStep
<1>5. ASSUME NEW p \in Proc, DeleteStep(p) PROVE HostTypeOK'
  <2>1. CASE DeleteExists(p)  BY <2>1 DEF DeleteExists
  <2>2. CASE DeleteLoad(p)  BY <2>2 DEF DeleteLoad
  <2>3. CASE DeleteDecide(p)  BY <2>3 DEF DeleteDecide
  <2>4. CASE DeletePoststop(p)  BY <2>4 DEF DeletePoststop
  <2> QED BY <1>5, <2>1, <2>2, <2>3, <2>4 DEF DeleteStep
<1>6. ASSUME NEW p \in Proc, ChildStep(p) PROVE HostTypeOK'
  <2>1. CASE ChildPreStart(p)  BY <2>1, ChildFifoType
  <2>2. CASE ChildOpenFifo(p)  BY <2>2, ChildFifoType
  <2>3. CASE ChildWaitParent(p)  BY <2>3 DEF ChildWaitParent
  <2>4. CASE ChildHooks(p)  BY <2>4 DEF ChildHooks
  <2>5. CASE ChildAttach(p)  BY <2>5 DEF ChildAttach
  <2>6. CASE ChildValidate(p)  BY <2>6 DEF ChildValidate
  <2>7. CASE ChildReport(p)  BY <2>7, ChildFifoType
  <2>8. CASE ChildWaitStart(p)  BY <2>8, ChildFifoType
  <2>9. CASE ChildStartHooks(p)  BY <2>9 DEF ChildStartHooks
  <2>10. CASE ChildExec(p)  BY <2>10 DEF ChildExec
  <2> QED BY <1>6, <2>1, <2>2, <2>3, <2>4, <2>5, <2>6, <2>7, <2>8, <2>9, <2>10
       DEF ChildStep
<1>7. ASSUME NEW p \in Proc, NEW c \in Cmds, Invoke(p, c) PROVE HostTypeOK'
  BY <1>7 DEF Invoke
<1>8. ASSUME NEW p \in Proc, Crash(p) PROVE HostTypeOK'
  BY <1>8 DEF Crash
<1>9. ASSUME NEW p \in Proc, ProcessExit(p) PROVE HostTypeOK'
  BY <1>9 DEF ProcessExit
<1>10. ASSUME NEW p \in Proc, Reap(p) PROVE HostTypeOK'
  BY <1>10 DEF Reap
<1>11. ASSUME NEW p \in Proc, ExecStep(p) PROVE HostTypeOK'
  <2>1. CASE ExecLoad(p)  BY <2>1 DEF ExecLoad
  <2>2. CASE ExecFork(p)  BY <2>2 DEF ExecFork
  <2>3. CASE ExecSignal(p)  BY <2>3 DEF ExecSignal
  <2>4. CASE ExecAwait(p)  BY <2>4 DEF ExecAwait
  <2>5. CASE ExecKilled(p)  BY <2>5 DEF ExecKilled
  <2> QED BY <1>11, <2>1, <2>2, <2>3, <2>4, <2>5 DEF ExecStep
<1>12. ASSUME NEW p \in Proc, XStep(p) PROVE HostTypeOK'
  <2>1. CASE XPreStart(p)  BY <2>1 DEF XPreStart
  <2>2. CASE XWaitParent(p)  BY <2>2 DEF XWaitParent
  <2>3. CASE XAttach(p)  BY <2>3 DEF XAttach
  <2>4. CASE XValidate(p)  BY <2>4 DEF XValidate
  <2>5. CASE XReport(p)  BY <2>5 DEF XReport
  <2>6. CASE XExec(p)  BY <2>6 DEF XExec
  <2> QED BY <1>12, <2>1, <2>2, <2>3, <2>4, <2>5, <2>6 DEF XStep
<1>13. ASSUME NEW p \in Proc, XExit(p) PROVE HostTypeOK'
  BY <1>13 DEF XExit
<1>14. CASE UNCHANGED vars
  BY <1>14 DEF vars, stateVars, dirVars, hostVars, ctlVars
<1> QED BY <1>1, <1>2, <1>3, <1>4, <1>5, <1>6, <1>7, <1>8, <1>9, <1>10, <1>11,
     <1>12, <1>13, <1>14 DEF Next, Step

\* Every step keeps the type of the commands' control and history.
LEMMA CommandsTypeStep ==
  ASSUME TypeOK, [Next]_vars
  PROVE  CommandsTypeOK'
<1> USE RuntimeStateAssumption, CommandsAssumption DEF TypeOK, StateTypeOK,
     CommandsTypeOK, ProcOrNone, Command, Phase, Pcs, LockedPcs, CleanupPcs,
     FreePcs, Goto, Throw, Leave, End, load, AfterSave, IsDelete, AfterRemove,
     ctlVars, RunHooks, LoadAndCheck, Live, LoadThen, FirstReport, InFlight,
     XThrow
<1>1. ASSUME NEW p \in Proc, CommonStep(p) PROVE CommandsTypeOK'
  <2>1. CASE Open(p)  BY <2>1 DEF Open
  <2>2. CASE Flock(p)  BY <2>2 DEF Flock
  <2>3. CASE LoadFails(p)  BY <2>3 DEF LoadFails
  <2>4. CASE SaveBegin(p)  BY <2>4 DEF SaveBegin
  <2>5. CASE SaveEnd(p)  BY <2>5 DEF SaveEnd
  <2>6. CASE RemoveJail(p)  BY <2>6 DEF RemoveJail
  <2>7. CASE Unmount(p)  BY <2>7 DEF Unmount
  <2>8. CASE RemoveBegin(p)  BY <2>8 DEF RemoveBegin
  <2>9. CASE RemoveNext(p)  BY <2>9 DEF RemoveNext
  <2>10. CASE RemoveEnd(p)  BY <2>10 DEF RemoveEnd
  <2>11. CASE Return(p)  BY <2>11 DEF Return
  <2>12. CASE RemoveThrows(p)  BY <2>12 DEF RemoveThrows
  <2> QED BY <1>1, <2>1, <2>2, <2>3, <2>4, <2>5, <2>6, <2>7, <2>8, <2>9,
       <2>10, <2>11, <2>12 DEF CommonStep
<1>2. ASSUME NEW p \in Proc, CreateStep(p) PROVE CommandsTypeOK'
  <2>1. CASE CreateCheck(p)  BY <2>1 DEF CreateCheck
  <2>2. CASE CreateDirectory(p)  BY <2>2 DEF CreateDirectory
  <2>3. CASE CreateMount(p)  BY <2>3 DEF CreateMount
  <2>4. CASE CreateJail(p)  BY <2>4 DEF CreateJail
  <2>5. CASE CreateFifo(p)  BY <2>5 DEF CreateFifo
  <2>6. CASE Fork(p)  BY <2>6 DEF Fork
  <2>7. CASE CreateRuntime(p)  BY <2>7 DEF CreateRuntime
  <2>8. CASE CreateUnlock(p)  BY <2>8 DEF CreateUnlock
  <2>9. CASE CreateSignal(p)  BY <2>9 DEF CreateSignal
  <2>10. CASE CreateAwait(p)  BY <2>10 DEF CreateAwait
  <2> QED BY <1>2, <2>1, <2>2, <2>3, <2>4, <2>5, <2>6, <2>7, <2>8, <2>9, <2>10
       DEF CreateStep
<1>3. ASSUME NEW p \in Proc, StartStep(p) PROVE CommandsTypeOK'
  <2>1. CASE StartLoad(p)  BY <2>1 DEF StartLoad
  <2>2. CASE StartPrestart(p)  BY <2>2 DEF StartPrestart
  <2>3. CASE StartOpenFifo(p)  BY <2>3 DEF StartOpenFifo
  <2>4. CASE StartWriteFifo(p)  BY <2>4 DEF StartWriteFifo
  <2>5. CASE StartCloseFifo(p)  BY <2>5 DEF StartCloseFifo
  <2>6. CASE StartPoststart(p)  BY <2>6 DEF StartPoststart
  <2> QED BY <1>3, <2>1, <2>2, <2>3, <2>4, <2>5, <2>6 DEF StartStep
<1>4. ASSUME NEW p \in Proc, InspectStep(p) PROVE CommandsTypeOK'
  <2>1. CASE ListExists(p)  BY <2>1 DEF ListExists
  <2>2. CASE InspectLoad(p)  BY <2>2 DEF InspectLoad
  <2>3. CASE KillLoad(p)  BY <2>3 DEF KillLoad
  <2>4. CASE KillSend(p)  BY <2>4 DEF KillSend
  <2> QED BY <1>4, <2>1, <2>2, <2>3, <2>4 DEF InspectStep
<1>5. ASSUME NEW p \in Proc, DeleteStep(p) PROVE CommandsTypeOK'
  <2>1. CASE DeleteExists(p)  BY <2>1 DEF DeleteExists
  <2>2. CASE DeleteLoad(p)  BY <2>2 DEF DeleteLoad
  <2>3. CASE DeleteDecide(p)  BY <2>3 DEF DeleteDecide
  <2>4. CASE DeletePoststop(p)  BY <2>4 DEF DeletePoststop
  <2> QED BY <1>5, <2>1, <2>2, <2>3, <2>4 DEF DeleteStep
<1>6. ASSUME NEW p \in Proc, ChildStep(p) PROVE CommandsTypeOK'
  <2>1. CASE ChildPreStart(p)  BY <2>1 DEF ChildPreStart
  <2>2. CASE ChildOpenFifo(p)  BY <2>2 DEF ChildOpenFifo
  <2>3. CASE ChildWaitParent(p)  BY <2>3 DEF ChildWaitParent
  <2>4. CASE ChildHooks(p)  BY <2>4 DEF ChildHooks
  <2>5. CASE ChildAttach(p)  BY <2>5 DEF ChildAttach
  <2>6. CASE ChildValidate(p)  BY <2>6 DEF ChildValidate
  <2>7. CASE ChildReport(p)  BY <2>7 DEF ChildReport
  <2>8. CASE ChildWaitStart(p)  BY <2>8 DEF ChildWaitStart
  <2>9. CASE ChildStartHooks(p)  BY <2>9 DEF ChildStartHooks
  <2>10. CASE ChildExec(p)  BY <2>10 DEF ChildExec
  <2> QED BY <1>6, <2>1, <2>2, <2>3, <2>4, <2>5, <2>6, <2>7, <2>8, <2>9, <2>10
       DEF ChildStep
<1>7. ASSUME NEW p \in Proc, NEW c \in Cmds, Invoke(p, c) PROVE CommandsTypeOK'
  BY <1>7 DEF Invoke
<1>8. ASSUME NEW p \in Proc, Crash(p) PROVE CommandsTypeOK'
  BY <1>8 DEF Crash
<1>9. ASSUME NEW p \in Proc, ProcessExit(p) PROVE CommandsTypeOK'
  BY <1>9 DEF ProcessExit
<1>10. ASSUME NEW p \in Proc, Reap(p) PROVE CommandsTypeOK'
  BY <1>10 DEF Reap
<1>11. ASSUME NEW p \in Proc, ExecStep(p) PROVE CommandsTypeOK'
  <2>1. CASE ExecLoad(p)  BY <2>1 DEF ExecLoad
  <2>2. CASE ExecFork(p)  BY <2>2 DEF ExecFork
  <2>3. CASE ExecSignal(p)  BY <2>3 DEF ExecSignal
  <2>4. CASE ExecAwait(p)  BY <2>4 DEF ExecAwait
  <2>5. CASE ExecKilled(p)  BY <2>5 DEF ExecKilled
  <2> QED BY <1>11, <2>1, <2>2, <2>3, <2>4, <2>5 DEF ExecStep
<1>12. ASSUME NEW p \in Proc, XStep(p) PROVE CommandsTypeOK'
  <2>1. CASE XPreStart(p)  BY <2>1 DEF XPreStart
  <2>2. CASE XWaitParent(p)  BY <2>2 DEF XWaitParent
  <2>3. CASE XAttach(p)  BY <2>3 DEF XAttach
  <2>4. CASE XValidate(p)  BY <2>4 DEF XValidate
  <2>5. CASE XReport(p)  BY <2>5 DEF XReport
  <2>6. CASE XExec(p)  BY <2>6, SMTT(30) DEF XExec
  <2> QED BY <1>12, <2>1, <2>2, <2>3, <2>4, <2>5, <2>6 DEF XStep
<1>13. ASSUME NEW p \in Proc, XExit(p) PROVE CommandsTypeOK'
  BY <1>13 DEF XExit
<1>14. CASE UNCHANGED vars
  BY <1>14 DEF vars, stateVars, dirVars, hostVars, ctlVars
<1> QED BY <1>1, <1>2, <1>3, <1>4, <1>5, <1>6, <1>7, <1>8, <1>9, <1>10, <1>11,
     <1>12, <1>13, <1>14 DEF Next, Step

\* TypeOK, the type invariant that the runs check, holds of every instance.
THEOREM TypeCorrect == Spec => []TypeOK
<1>1. Init => TypeOK
  <2> SUFFICES ASSUME Init PROVE TypeOK
    OBVIOUS
  <2>1. StateTypeOK
    BY DEF Init, StateInit, StateTypeOK, ProcOrNone, Status, NoFile, NoMem
  <2>2. HostTypeOK
    BY DEF Init, HostInit, HostTypeOK, ProcOrNone, ChildPcs, XPcs
  <2>3. CommandsTypeOK
    BY DEF Init, CommandsInit, CommandsTypeOK, Pcs, FreePcs
  <2> QED  BY <2>1, <2>2, <2>3 DEF TypeOK
<1>2. TypeOK /\ [Next]_vars => TypeOK'
  BY StateTypeStep, HostTypeStep, CommandsTypeStep DEF TypeOK
<1> QED  BY <1>1, <1>2, PTL DEF Spec

-----------------------------------------------------------------------------
(* The control of a command.                                               *)

\* The part of TypeOK that the lemmas below use.
ControlTypes ==
  /\ pc \in [Proc -> Pcs]
  /\ cmd \in [Proc -> Command \cup {"none"}]
  /\ child \in [Proc -> ChildPcs]
  /\ fd \in [Proc -> ProcOrNone]
  /\ holder \in [Proc -> ProcOrNone]
  /\ mem \in [Proc -> MemType]
  /\ json \in JsonType
  /\ jail \in ProcOrNone
  /\ mounted \subseteq Proc
  /\ xchild \in [Proc -> XPcs]

\* TypeOK gives the types that the proof about JailInv needs.
LEMMA TypesOfControl == TypeOK => ControlTypes
BY DEF TypeOK, StateTypeOK, HostTypeOK, CommandsTypeOK, ControlTypes, MemType,
       JsonType

\* Every step preserves Control.
LEMMA ControlStep ==
  ASSUME ControlTypes, ControlTypes', Control, [Next]_vars
  PROVE  Control'
<1> USE RuntimeStateAssumption, CommandsAssumption DEF ControlTypes, MemType,
     JsonType, ProcOrNone, Control, CreatePcs, OtherPcs, Fresh, HasFile,
     PreFork, Forked, LockedPcs, IsDelete, OpenLock, Goto, hostVars, Throw,
     Leave, End, ReleaseLock, dirVars, TakeLock, load, Truncate, Write,
     AfterSave, jail_remove, InJail, ChildExit, stateVars, pipeVars, ListDir,
     AfterRemove, Unlink, ctlVars, RemoveDir, create_directories, mkfifo,
     RunHooks, LoadAndCheck, LoadThen, Kill, KillProcess, Alive, Outside,
     ChildGoto, ChildThrow, InFlight, XGoto, XThrow, IsExec, Detached,
     ExecPcs, Preparing, XOutside, XInJail
<1>1. ASSUME NEW p \in Proc, CommonStep(p) PROVE Control'
  <2>1. CASE Open(p)  BY <2>1 DEF Open
  <2>2. CASE Flock(p)  BY <2>2 DEF Flock
  <2>3. CASE LoadFails(p)  BY <2>3 DEF LoadFails
  <2>4. CASE SaveBegin(p)  BY <2>4 DEF SaveBegin
  <2>5. CASE SaveEnd(p)  BY <2>5 DEF SaveEnd
  <2>6. CASE RemoveJail(p)  BY <2>6 DEF RemoveJail
  <2>7. CASE Unmount(p)  BY <2>7 DEF Unmount
  <2>8. CASE RemoveBegin(p)  BY <2>8 DEF RemoveBegin
  <2>9. CASE RemoveNext(p)  BY <2>9 DEF RemoveNext
  <2>10. CASE RemoveEnd(p)  BY <2>10 DEF RemoveEnd
  <2>11. CASE Return(p)  BY <2>11 DEF Return
  <2>12. CASE RemoveThrows(p)  BY <2>12 DEF RemoveThrows
  <2> QED BY <1>1, <2>1, <2>2, <2>3, <2>4, <2>5, <2>6, <2>7, <2>8, <2>9,
       <2>10, <2>11, <2>12 DEF CommonStep
<1>2. ASSUME NEW p \in Proc, CreateStep(p) PROVE Control'
  <2>1. CASE CreateCheck(p)  BY <2>1 DEF CreateCheck
  <2>2. CASE CreateDirectory(p)  BY <2>2 DEF CreateDirectory
  <2>3. CASE CreateMount(p)  BY <2>3 DEF CreateMount
  <2>4. CASE CreateJail(p)  BY <2>4 DEF CreateJail
  <2>5. CASE CreateFifo(p)  BY <2>5 DEF CreateFifo
  <2>6. CASE Fork(p)  BY <2>6 DEF Fork
  <2>7. CASE CreateRuntime(p)  BY <2>7 DEF CreateRuntime
  <2>8. CASE CreateUnlock(p)  BY <2>8 DEF CreateUnlock
  <2>9. CASE CreateSignal(p)  BY <2>9 DEF CreateSignal
  <2>10. CASE CreateAwait(p)  BY <2>10 DEF CreateAwait
  <2> QED BY <1>2, <2>1, <2>2, <2>3, <2>4, <2>5, <2>6, <2>7, <2>8, <2>9, <2>10
       DEF CreateStep
<1>3. ASSUME NEW p \in Proc, StartStep(p) PROVE Control'
  <2>1. CASE StartLoad(p)  BY <2>1 DEF StartLoad
  <2>2. CASE StartPrestart(p)  BY <2>2 DEF StartPrestart
  <2>3. CASE StartOpenFifo(p)  BY <2>3 DEF StartOpenFifo
  <2>4. CASE StartWriteFifo(p)  BY <2>4 DEF StartWriteFifo
  <2>5. CASE StartCloseFifo(p)  BY <2>5 DEF StartCloseFifo
  <2>6. CASE StartPoststart(p)  BY <2>6 DEF StartPoststart
  <2> QED BY <1>3, <2>1, <2>2, <2>3, <2>4, <2>5, <2>6 DEF StartStep
<1>4. ASSUME NEW p \in Proc, InspectStep(p) PROVE Control'
  <2>1. CASE ListExists(p)  BY <2>1 DEF ListExists
  <2>2. CASE InspectLoad(p)  BY <2>2 DEF InspectLoad
  <2>3. CASE KillLoad(p)  BY <2>3 DEF KillLoad
  <2>4. CASE KillSend(p)  BY <2>4 DEF KillSend
  <2> QED BY <1>4, <2>1, <2>2, <2>3, <2>4 DEF InspectStep
<1>5. ASSUME NEW p \in Proc, DeleteStep(p) PROVE Control'
  <2>1. CASE DeleteExists(p)  BY <2>1 DEF DeleteExists
  <2>2. CASE DeleteLoad(p)  BY <2>2 DEF DeleteLoad
  <2>3. CASE DeleteDecide(p)  BY <2>3 DEF DeleteDecide
  <2>4. CASE DeletePoststop(p)  BY <2>4 DEF DeletePoststop
  <2> QED BY <1>5, <2>1, <2>2, <2>3, <2>4 DEF DeleteStep
<1>6. ASSUME NEW p \in Proc, ChildStep(p) PROVE Control'
  <2>1. CASE ChildPreStart(p)  BY <2>1 DEF ChildPreStart
  <2>2. CASE ChildOpenFifo(p)  BY <2>2 DEF ChildOpenFifo
  <2>3. CASE ChildWaitParent(p)  BY <2>3 DEF ChildWaitParent
  <2>4. CASE ChildHooks(p)  BY <2>4 DEF ChildHooks
  <2>5. CASE ChildAttach(p)  BY <2>5 DEF ChildAttach
  <2>6. CASE ChildValidate(p)  BY <2>6 DEF ChildValidate
  <2>7. CASE ChildReport(p)  BY <2>7 DEF ChildReport
  <2>8. CASE ChildWaitStart(p)  BY <2>8 DEF ChildWaitStart
  <2>9. CASE ChildStartHooks(p)  BY <2>9 DEF ChildStartHooks
  <2>10. CASE ChildExec(p)  BY <2>10 DEF ChildExec
  <2> QED BY <1>6, <2>1, <2>2, <2>3, <2>4, <2>5, <2>6, <2>7, <2>8, <2>9, <2>10
       DEF ChildStep
<1>7. ASSUME NEW p \in Proc, NEW c \in Cmds, Invoke(p, c) PROVE Control'
  BY <1>7 DEF Invoke
<1>8. ASSUME NEW p \in Proc, Crash(p) PROVE Control'
  BY <1>8 DEF Crash
<1>9. ASSUME NEW p \in Proc, ProcessExit(p) PROVE Control'
  BY <1>9 DEF ProcessExit
<1>10. ASSUME NEW p \in Proc, Reap(p) PROVE Control'
  BY <1>10 DEF Reap
<1>11. ASSUME NEW p \in Proc, ExecStep(p) PROVE Control'
  <2>1. CASE ExecLoad(p)  BY <2>1 DEF ExecLoad
  <2>2. CASE ExecFork(p)  BY <2>2 DEF ExecFork
  <2>3. CASE ExecSignal(p)  BY <2>3 DEF ExecSignal
  <2>4. CASE ExecAwait(p)  BY <2>4 DEF ExecAwait
  <2>5. CASE ExecKilled(p)  BY <2>5 DEF ExecKilled
  <2> QED BY <1>11, <2>1, <2>2, <2>3, <2>4, <2>5 DEF ExecStep
<1>12. ASSUME NEW p \in Proc, XStep(p) PROVE Control'
  <2>1. CASE XPreStart(p)  BY <2>1 DEF XPreStart
  <2>2. CASE XWaitParent(p)  BY <2>2 DEF XWaitParent
  <2>3. CASE XAttach(p)  BY <2>3 DEF XAttach
  <2>4. CASE XValidate(p)  BY <2>4 DEF XValidate
  <2>5. CASE XReport(p)  BY <2>5 DEF XReport
  <2>6. CASE XExec(p)  BY <2>6 DEF XExec
  <2> QED BY <1>12, <2>1, <2>2, <2>3, <2>4, <2>5, <2>6 DEF XStep
<1>13. ASSUME NEW p \in Proc, XExit(p) PROVE Control'
  BY <1>13 DEF XExit
<1>14. CASE UNCHANGED vars
  BY <1>14 DEF vars, stateVars, dirVars, hostVars, ctlVars
<1> QED BY <1>1, <1>2, <1>3, <1>4, <1>5, <1>6, <1>7, <1>8, <1>9, <1>10, <1>11,
     <1>12, <1>13, <1>14 DEF Next, Step

\* Types and Control are invariants of every instance.
LEMMA ControlInvariant == Spec => [](ControlTypes /\ Control)
<1>1. Init => Control
  <2> SUFFICES ASSUME Init, NEW p \in Proc
               PROVE  Control!(p)
    BY DEF Control
  <2>1. /\ pc[p] = "idle" /\ cmd[p] = "none"
        /\ fd[p] = NoProc /\ child[p] = "none" /\ xchild[p] = "none"
    BY DEF Init, StateInit, HostInit, CommandsInit
  <2> QED
    BY <2>1 DEF CreatePcs, HasFile, LockedPcs, Forked, ExecPcs, Preparing,
                XOutside, XInJail
<1>2. ControlTypes /\ ControlTypes' /\ Control /\ [Next]_vars => Control'
  BY ControlStep
<1> QED  BY <1>1, <1>2, TypeCorrect, TypesOfControl, PTL DEF Spec

-----------------------------------------------------------------------------
(* A process in a jail has its jail and its volumes.                       *)

\* What the steps that fill state_ with a container do: that of a load()
\* comes from a state.json that can be read, that of create is its own.
LEMMA Fill ==
  ASSUME ControlTypes, NEW p \in Proc,
         LoadAndCheck(p) \/ StartLoad(p) \/ CreateCheck(p)
  PROVE  /\ UNCHANGED <<json, child, xchild, jail, mounted, cmd>>
         /\ \A q \in Proc \ {p} : pc'[q] = pc[q] /\ mem'[q] = mem[q]
         /\ \/ /\ mem' = mem
               /\ pc'[p] = "done"
            \/ /\ Readable /\ pc[p] = "load"
               /\ pc'[p] \in {"save", AfterSave(p)}
               /\ mem'[p].of = json.of
            \/ /\ pc[p] = "check" /\ pc'[p] = "rm" /\ cmd[p] = "create"
               /\ mem'[p].of = p
<1>1. /\ UNCHANGED <<json, child, xchild, jail, mounted, cmd>>
      /\ \A q \in Proc \ {p} : pc'[q] = pc[q]
  BY DEF LoadAndCheck, StartLoad, CreateCheck, Throw, Leave, End, Goto,
         ReleaseLock, dirVars, hostVars, ControlTypes
<1>2. CASE /\ \E st : SetStatus(p, json.of, st)
           /\ Readable /\ pc[p] = "load"
           /\ Goto(p, "save") \/ Goto(p, AfterSave(p))
  <2>1. \A q \in Proc : mem'[q].of = IF q = p THEN json.of ELSE mem[q].of
    BY <1>2, SetStatusOf DEF ControlTypes
  <2>2. \A q \in Proc \ {p} : mem'[q] = mem[q]
    BY <1>2 DEF SetStatus, ControlTypes
  <2>3. pc'[p] \in {"save", AfterSave(p)}
    BY <1>2 DEF Goto, ControlTypes
  <2> QED  BY <1>1, <1>2, <2>1, <2>2, <2>3
<1>3. CASE /\ SetStatus(p, p, "created") /\ Goto(p, "rm")
           /\ cmd[p] = "create" /\ pc[p] = "check"
  <2>1. \A q \in Proc : mem'[q].of = IF q = p THEN p ELSE mem[q].of
    BY <1>3, SetStatusOf DEF ControlTypes
  <2>2. \A q \in Proc \ {p} : mem'[q] = mem[q]
    BY <1>3 DEF SetStatus, ControlTypes
  <2>3. pc'[p] = "rm"  BY <1>3 DEF Goto, ControlTypes
  <2> QED  BY <1>1, <1>3, <2>1, <2>2, <2>3
<1>4. CASE Throw(p)
  BY <1>1, <1>4
     DEF Throw, Leave, End, ReleaseLock, hostVars, dirVars, ControlTypes
<1> QED  BY <1>2, <1>3, <1>4 DEF LoadAndCheck, StartLoad, CreateCheck

\* They preserve KnownForked.
LEMMA FillKnownForked ==
  ASSUME ControlTypes, KnownForked, NEW p \in Proc,
         LoadAndCheck(p) \/ StartLoad(p) \/ CreateCheck(p)
  PROVE  KnownForked'
BY RuntimeStateAssumption, Fill DEF ControlTypes, KnownForked, Unforked, Forked

\* They preserve Recorded, KillLoad's and ExecLoad's load() apart.
LEMMA FillRecorded ==
  ASSUME ControlTypes, Control, Recorded, NEW p \in Proc,
         LoadAndCheck(p) \/ StartLoad(p) \/ CreateCheck(p)
  PROVE  Recorded'
BY RuntimeStateAssumption, Fill
   DEF ControlTypes, Control, OtherPcs, Recorded, Readable, exists, ExecPcs

\* They preserve JailInv.
LEMMA FillJail ==
  ASSUME ControlTypes, Control, JailInv, NEW p \in Proc,
         LoadAndCheck(p) \/ StartLoad(p) \/ CreateCheck(p)
  PROVE  JailInv'
BY RuntimeStateAssumption, Fill
   DEF ControlTypes, Control, JailInv, XInJail, ExecPcs, AfterSave

\* Every step preserves KnownForked.
LEMMA KnownForkedStep ==
  ASSUME ControlTypes, ControlTypes', Control, KnownForked, [Next]_vars
  PROVE  KnownForked'
<1> USE RuntimeStateAssumption, CommandsAssumption DEF ControlTypes, MemType,
     JsonType, ProcOrNone, Control, KnownForked, Unforked, PreFork, Forked,
     CreatePcs, OpenLock, Goto, hostVars, Throw, Leave,
     End, ReleaseLock, dirVars, TakeLock, load, exists, SetStatus, Truncate,
     NoFile, Write, AfterSave, IsDelete, jail_remove, InJail, ChildExit,
     stateVars, pipeVars, ListDir, AfterRemove, Unlink, ctlVars, RemoveDir,
     create_directories, mkfifo, RunHooks, LoadThen, Kill, KillProcess, Alive,
     Outside, ChildGoto, ChildThrow, InFlight, XGoto, XThrow, SharesLock,
     FirstReport, IsExec, Detached
<1>1. ASSUME NEW p \in Proc, CommonStep(p) PROVE KnownForked'
  <2>1. CASE Open(p)  BY <2>1 DEF Open
  <2>2. CASE Flock(p)  BY <2>2 DEF Flock
  <2>3. CASE LoadFails(p)  BY <2>3 DEF LoadFails
  <2>4. CASE SaveBegin(p)  BY <2>4 DEF SaveBegin
  <2>5. CASE SaveEnd(p)  BY <2>5 DEF SaveEnd
  <2>6. CASE RemoveJail(p)  BY <2>6 DEF RemoveJail
  <2>7. CASE Unmount(p)  BY <2>7 DEF Unmount
  <2>8. CASE RemoveBegin(p)  BY <2>8 DEF RemoveBegin
  <2>9. CASE RemoveNext(p)  BY <2>9 DEF RemoveNext
  <2>10. CASE RemoveEnd(p)  BY <2>10 DEF RemoveEnd
  <2>11. CASE Return(p)  BY <2>11 DEF Return
  <2>12. CASE RemoveThrows(p)  BY <2>12 DEF RemoveThrows
  <2> QED BY <1>1, <2>1, <2>2, <2>3, <2>4, <2>5, <2>6, <2>7, <2>8, <2>9,
       <2>10, <2>11, <2>12 DEF CommonStep
<1>2. ASSUME NEW p \in Proc, CreateStep(p) PROVE KnownForked'
  <2>1. CASE CreateCheck(p)  BY <2>1, FillKnownForked
  <2>2. CASE CreateDirectory(p)  BY <2>2 DEF CreateDirectory
  <2>3. CASE CreateMount(p)  BY <2>3 DEF CreateMount
  <2>4. CASE CreateJail(p)  BY <2>4, SMTT(60) DEF CreateJail
  <2>5. CASE CreateFifo(p)  BY <2>5 DEF CreateFifo
  <2>6. CASE Fork(p)  BY <2>6 DEF Fork
  <2>7. CASE CreateRuntime(p)  BY <2>7 DEF CreateRuntime
  <2>8. CASE CreateUnlock(p)  BY <2>8 DEF CreateUnlock
  <2>9. CASE CreateSignal(p)  BY <2>9 DEF CreateSignal
  <2>10. CASE CreateAwait(p)  BY <2>10 DEF CreateAwait
  <2> QED BY <1>2, <2>1, <2>2, <2>3, <2>4, <2>5, <2>6, <2>7, <2>8, <2>9, <2>10
       DEF CreateStep
<1>3. ASSUME NEW p \in Proc, StartStep(p) PROVE KnownForked'
  <2>1. CASE StartLoad(p)  BY <2>1, FillKnownForked
  <2>2. CASE StartPrestart(p)  BY <2>2 DEF StartPrestart
  <2>3. CASE StartOpenFifo(p)  BY <2>3 DEF StartOpenFifo
  <2>4. CASE StartWriteFifo(p)  BY <2>4 DEF StartWriteFifo
  <2>5. CASE StartCloseFifo(p)  BY <2>5 DEF StartCloseFifo
  <2>6. CASE StartPoststart(p)  BY <2>6 DEF StartPoststart
  <2> QED BY <1>3, <2>1, <2>2, <2>3, <2>4, <2>5, <2>6 DEF StartStep
<1>4. ASSUME NEW p \in Proc, InspectStep(p) PROVE KnownForked'
  <2>1. CASE ListExists(p)  BY <2>1, SMTT(60) DEF ListExists
  <2>2. CASE InspectLoad(p)  BY <2>2, FillKnownForked DEF InspectLoad
  <2>3. CASE KillLoad(p)  BY <2>3 DEF KillLoad
  <2>4. CASE KillSend(p)  BY <2>4 DEF KillSend
  <2> QED BY <1>4, <2>1, <2>2, <2>3, <2>4 DEF InspectStep
<1>5. ASSUME NEW p \in Proc, DeleteStep(p) PROVE KnownForked'
  <2>1. CASE DeleteExists(p)  BY <2>1 DEF DeleteExists
  <2>2. CASE DeleteLoad(p)  BY <2>2, FillKnownForked DEF DeleteLoad
  <2>3. CASE DeleteDecide(p)
    <3>1. UNCHANGED <<json, mem, cmd>> /\ pc[p] = "decide"
      BY <2>3 DEF DeleteDecide
    <3>2. pc' \in {[pc EXCEPT ![p] = l] : l \in {"remove_jail", "done"}}
      BY <2>3 DEF DeleteDecide
    <3>3. \A c \in Proc : child'[c] \in {child[c], "zombie"}
      BY <2>3 DEF DeleteDecide
    <3>4. cmd[p] # "create"
      BY <3>1 DEF OtherPcs
    <3> QED  BY <3>1, <3>2, <3>3, <3>4
  <2>4. CASE DeletePoststop(p)  BY <2>4 DEF DeletePoststop
  <2> QED BY <1>5, <2>1, <2>2, <2>3, <2>4 DEF DeleteStep
<1>6. ASSUME NEW p \in Proc, ChildStep(p) PROVE KnownForked'
  <2>1. CASE ChildPreStart(p)  BY <2>1 DEF ChildPreStart
  <2>2. CASE ChildOpenFifo(p)  BY <2>2, SMTT(60) DEF ChildOpenFifo
  <2>3. CASE ChildWaitParent(p)  BY <2>3 DEF ChildWaitParent
  <2>4. CASE ChildHooks(p)  BY <2>4 DEF ChildHooks
  <2>5. CASE ChildAttach(p)  BY <2>5 DEF ChildAttach
  <2>6. CASE ChildValidate(p)  BY <2>6 DEF ChildValidate
  <2>7. CASE ChildReport(p)  BY <2>7 DEF ChildReport
  <2>8. CASE ChildWaitStart(p)  BY <2>8 DEF ChildWaitStart
  <2>9. CASE ChildStartHooks(p)  BY <2>9 DEF ChildStartHooks
  <2>10. CASE ChildExec(p)  BY <2>10 DEF ChildExec
  <2> QED BY <1>6, <2>1, <2>2, <2>3, <2>4, <2>5, <2>6, <2>7, <2>8, <2>9, <2>10
       DEF ChildStep
<1>7. ASSUME NEW p \in Proc, NEW c \in Cmds, Invoke(p, c) PROVE KnownForked'
  BY <1>7 DEF Invoke
<1>8. ASSUME NEW p \in Proc, Crash(p) PROVE KnownForked'
  BY <1>8 DEF Crash
<1>9. ASSUME NEW p \in Proc, ProcessExit(p) PROVE KnownForked'
  BY <1>9 DEF ProcessExit
<1>10. ASSUME NEW p \in Proc, Reap(p) PROVE KnownForked'
  BY <1>10 DEF Reap
<1>11. ASSUME NEW p \in Proc, ExecStep(p) PROVE KnownForked'
  <2>1. CASE ExecLoad(p)  BY <2>1 DEF ExecLoad
  <2>2. CASE ExecFork(p)  BY <2>2, SMTT(60) DEF ExecFork
  <2>3. CASE ExecSignal(p)  BY <2>3 DEF ExecSignal
  <2>4. CASE ExecAwait(p)  BY <2>4 DEF ExecAwait
  <2>5. CASE ExecKilled(p)  BY <2>5 DEF ExecKilled
  <2> QED BY <1>11, <2>1, <2>2, <2>3, <2>4, <2>5 DEF ExecStep
<1>12. ASSUME NEW p \in Proc, XStep(p) PROVE KnownForked'
  <2>1. CASE XPreStart(p)  BY <2>1 DEF XPreStart
  <2>2. CASE XWaitParent(p)  BY <2>2 DEF XWaitParent
  <2>3. CASE XAttach(p)  BY <2>3 DEF XAttach
  <2>4. CASE XValidate(p)
    <3>1. UNCHANGED <<json, mem, child, cmd>>
      BY <2>4 DEF XValidate
    <3>2. pc' = pc \/ pc' = [pc EXCEPT ![p] = "done"]
      BY <2>4 DEF XValidate
    <3> QED  BY <3>1, <3>2
  <2>5. CASE XReport(p)  BY <2>5, SMTT(30) DEF XReport
  <2>6. CASE XExec(p)  BY <2>6 DEF XExec
  <2> QED BY <1>12, <2>1, <2>2, <2>3, <2>4, <2>5, <2>6 DEF XStep
<1>13. ASSUME NEW p \in Proc, XExit(p) PROVE KnownForked'
  BY <1>13 DEF XExit
<1>14. CASE UNCHANGED vars
  BY <1>14 DEF vars, stateVars, dirVars, hostVars, ctlVars
<1> QED BY <1>1, <1>2, <1>3, <1>4, <1>5, <1>6, <1>7, <1>8, <1>9, <1>10, <1>11,
     <1>12, <1>13, <1>14 DEF Next, Step

\* Every step preserves Recorded: what a load() returns was written by a
\* command that worked on a container.
LEMMA RecordedStep ==
  ASSUME ControlTypes, ControlTypes', Control, Recorded, [Next]_vars
  PROVE  Recorded'
<1> USE RuntimeStateAssumption, CommandsAssumption DEF ControlTypes, MemType,
     JsonType, ProcOrNone, Control, Recorded, Readable, IsExec, ExecPcs,
     Live, CreatePcs, OtherPcs, OpenLock, Goto, hostVars, Throw,
     Leave, End, ReleaseLock, dirVars, TakeLock, load, exists, SetStatus,
     Truncate, NoFile, Write, AfterSave, IsDelete, jail_remove, InJail,
     ChildExit, stateVars, pipeVars, ListDir, AfterRemove, Unlink, ctlVars,
     RemoveDir, create_directories, mkfifo, RunHooks, LoadThen, Kill,
     KillProcess,
     Alive, Outside, ChildGoto, ChildThrow, InFlight, XGoto, XThrow,
     SharesLock, FirstReport, Detached, Preparing, XInJail, XOutside
<1>1. ASSUME NEW p \in Proc, CommonStep(p) PROVE Recorded'
  <2>1. CASE Open(p)  BY <2>1 DEF Open
  <2>2. CASE Flock(p)  BY <2>2 DEF Flock
  <2>3. CASE LoadFails(p)  BY <2>3 DEF LoadFails
  <2>4. CASE SaveBegin(p)  BY <2>4 DEF SaveBegin
  <2>5. CASE SaveEnd(p)  BY <2>5 DEF SaveEnd
  <2>6. CASE RemoveJail(p)  BY <2>6 DEF RemoveJail
  <2>7. CASE Unmount(p)  BY <2>7 DEF Unmount
  <2>8. CASE RemoveBegin(p)  BY <2>8 DEF RemoveBegin
  <2>9. CASE RemoveNext(p)  BY <2>9 DEF RemoveNext
  <2>10. CASE RemoveEnd(p)  BY <2>10 DEF RemoveEnd
  <2>11. CASE Return(p)  BY <2>11 DEF Return
  <2>12. CASE RemoveThrows(p)  BY <2>12 DEF RemoveThrows
  <2> QED BY <1>1, <2>1, <2>2, <2>3, <2>4, <2>5, <2>6, <2>7, <2>8, <2>9,
       <2>10, <2>11, <2>12 DEF CommonStep
<1>2. ASSUME NEW p \in Proc, CreateStep(p) PROVE Recorded'
  <2>1. CASE CreateCheck(p)  BY <2>1, FillRecorded
  <2>2. CASE CreateDirectory(p)  BY <2>2 DEF CreateDirectory
  <2>3. CASE CreateMount(p)  BY <2>3 DEF CreateMount
  <2>4. CASE CreateJail(p)  BY <2>4 DEF CreateJail
  <2>5. CASE CreateFifo(p)  BY <2>5 DEF CreateFifo
  <2>6. CASE Fork(p)  BY <2>6 DEF Fork
  <2>7. CASE CreateRuntime(p)  BY <2>7 DEF CreateRuntime
  <2>8. CASE CreateUnlock(p)  BY <2>8 DEF CreateUnlock
  <2>9. CASE CreateSignal(p)  BY <2>9 DEF CreateSignal
  <2>10. CASE CreateAwait(p)  BY <2>10 DEF CreateAwait
  <2> QED BY <1>2, <2>1, <2>2, <2>3, <2>4, <2>5, <2>6, <2>7, <2>8, <2>9, <2>10
       DEF CreateStep
<1>3. ASSUME NEW p \in Proc, StartStep(p) PROVE Recorded'
  <2>1. CASE StartLoad(p)  BY <2>1, FillRecorded
  <2>2. CASE StartPrestart(p)  BY <2>2 DEF StartPrestart
  <2>3. CASE StartOpenFifo(p)  BY <2>3 DEF StartOpenFifo
  <2>4. CASE StartWriteFifo(p)  BY <2>4 DEF StartWriteFifo
  <2>5. CASE StartCloseFifo(p)  BY <2>5 DEF StartCloseFifo
  <2>6. CASE StartPoststart(p)  BY <2>6 DEF StartPoststart
  <2> QED BY <1>3, <2>1, <2>2, <2>3, <2>4, <2>5, <2>6 DEF StartStep
<1>4. ASSUME NEW p \in Proc, InspectStep(p) PROVE Recorded'
  <2>1. CASE ListExists(p)  BY <2>1 DEF ListExists
  <2>2. CASE InspectLoad(p)  BY <2>2, FillRecorded DEF InspectLoad
  <2>3. CASE KillLoad(p)  BY <2>3 DEF KillLoad
  <2>4. CASE KillSend(p)  BY <2>4 DEF KillSend
  <2> QED BY <1>4, <2>1, <2>2, <2>3, <2>4 DEF InspectStep
<1>5. ASSUME NEW p \in Proc, DeleteStep(p) PROVE Recorded'
  <2>1. CASE DeleteExists(p)  BY <2>1 DEF DeleteExists
  <2>2. CASE DeleteLoad(p)  BY <2>2, FillRecorded DEF DeleteLoad
  <2>3. CASE DeleteDecide(p)  BY <2>3 DEF DeleteDecide
  <2>4. CASE DeletePoststop(p)  BY <2>4 DEF DeletePoststop
  <2> QED BY <1>5, <2>1, <2>2, <2>3, <2>4 DEF DeleteStep
<1>6. ASSUME NEW p \in Proc, ChildStep(p) PROVE Recorded'
  <2>1. CASE ChildPreStart(p)  BY <2>1 DEF ChildPreStart
  <2>2. CASE ChildOpenFifo(p)  BY <2>2 DEF ChildOpenFifo
  <2>3. CASE ChildWaitParent(p)  BY <2>3 DEF ChildWaitParent
  <2>4. CASE ChildHooks(p)  BY <2>4 DEF ChildHooks
  <2>5. CASE ChildAttach(p)  BY <2>5 DEF ChildAttach
  <2>6. CASE ChildValidate(p)  BY <2>6 DEF ChildValidate
  <2>7. CASE ChildReport(p)  BY <2>7 DEF ChildReport
  <2>8. CASE ChildWaitStart(p)  BY <2>8 DEF ChildWaitStart
  <2>9. CASE ChildStartHooks(p)  BY <2>9 DEF ChildStartHooks
  <2>10. CASE ChildExec(p)  BY <2>10 DEF ChildExec
  <2> QED BY <1>6, <2>1, <2>2, <2>3, <2>4, <2>5, <2>6, <2>7, <2>8, <2>9, <2>10
       DEF ChildStep
<1>7. ASSUME NEW p \in Proc, NEW c \in Cmds, Invoke(p, c) PROVE Recorded'
  BY <1>7 DEF Invoke
<1>8. ASSUME NEW p \in Proc, Crash(p) PROVE Recorded'
  BY <1>8 DEF Crash
<1>9. ASSUME NEW p \in Proc, ProcessExit(p) PROVE Recorded'
  BY <1>9 DEF ProcessExit
<1>10. ASSUME NEW p \in Proc, Reap(p) PROVE Recorded'
  BY <1>10 DEF Reap
<1>11. ASSUME NEW p \in Proc, ExecStep(p) PROVE Recorded'
  <2>1. CASE ExecLoad(p)  BY <2>1 DEF ExecLoad
  <2>2. CASE ExecFork(p)  BY <2>2 DEF ExecFork
  <2>3. CASE ExecSignal(p)  BY <2>3 DEF ExecSignal
  <2>4. CASE ExecAwait(p)  BY <2>4 DEF ExecAwait
  <2>5. CASE ExecKilled(p)  BY <2>5 DEF ExecKilled
  <2> QED BY <1>11, <2>1, <2>2, <2>3, <2>4, <2>5 DEF ExecStep
<1>12. ASSUME NEW p \in Proc, XStep(p) PROVE Recorded'
  <2>1. CASE XPreStart(p)  BY <2>1 DEF XPreStart
  <2>2. CASE XWaitParent(p)  BY <2>2 DEF XWaitParent
  <2>3. CASE XAttach(p)  BY <2>3 DEF XAttach
  <2>4. CASE XValidate(p)  BY <2>4 DEF XValidate
  <2>5. CASE XReport(p)  BY <2>5 DEF XReport
  <2>6. CASE XExec(p)  BY <2>6 DEF XExec
  <2> QED BY <1>12, <2>1, <2>2, <2>3, <2>4, <2>5, <2>6 DEF XStep
<1>13. ASSUME NEW p \in Proc, XExit(p) PROVE Recorded'
  BY <1>13 DEF XExit
<1>14. CASE UNCHANGED vars
  BY <1>14 DEF vars, stateVars, dirVars, hostVars, ctlVars
<1> QED BY <1>1, <1>2, <1>3, <1>4, <1>5, <1>6, <1>7, <1>8, <1>9, <1>10, <1>11,
     <1>12, <1>13, <1>14 DEF Next, Step

\* Every step preserves JailInv.  RemoveJail comes before Unmount, and the
\* volumes of a container whose jail is still to be made have no other
\* command to unmount them: nobody knows of it yet.
LEMMA JailStep ==
  ASSUME ControlTypes, ControlTypes', Control, KnownForked, Recorded, JailInv,
         [Next]_vars
  PROVE  JailInv'
<1> USE RuntimeStateAssumption, CommandsAssumption DEF ControlTypes, MemType,
     JsonType, ProcOrNone, Control, KnownForked, JailInv, CreatePcs,
     OtherPcs, PreFork, Unforked, Forked, InJail, OpenLock, Goto, hostVars,
     Throw, Leave, End, ReleaseLock, dirVars, TakeLock, load, SetStatus,
     Truncate, NoFile, Write, AfterSave, IsDelete, jail_remove, ChildExit,
     stateVars, pipeVars, ListDir, AfterRemove, Unlink, ctlVars, RemoveDir,
     create_directories, mkfifo, RunHooks, LoadThen, Kill, KillProcess, Alive,
     Outside, ChildGoto, ChildThrow, InFlight, Recorded, XGoto, XThrow,
     SharesLock, IsExec, Detached, ExecPcs, Preparing, XOutside, XInJail
<1>1. ASSUME NEW p \in Proc, CommonStep(p) PROVE JailInv'
  <2>1. CASE Open(p)  BY <2>1 DEF Open
  <2>2. CASE Flock(p)  BY <2>2 DEF Flock
  <2>3. CASE LoadFails(p)  BY <2>3 DEF LoadFails
  <2>4. CASE SaveBegin(p)  BY <2>4 DEF SaveBegin
  <2>5. CASE SaveEnd(p)  BY <2>5 DEF SaveEnd
  <2>6. CASE RemoveJail(p)  BY <2>6 DEF RemoveJail
  <2>7. CASE Unmount(p)  BY <2>7 DEF Unmount,
                                      unmount_volumes, unmount_volumes_fails
  <2>8. CASE RemoveBegin(p)  BY <2>8 DEF RemoveBegin
  <2>9. CASE RemoveNext(p)  BY <2>9 DEF RemoveNext
  <2>10. CASE RemoveEnd(p)  BY <2>10 DEF RemoveEnd
  <2>11. CASE Return(p)  BY <2>11 DEF Return
  <2>12. CASE RemoveThrows(p)  BY <2>12 DEF RemoveThrows
  <2> QED BY <1>1, <2>1, <2>2, <2>3, <2>4, <2>5, <2>6, <2>7, <2>8, <2>9,
       <2>10, <2>11, <2>12 DEF CommonStep
<1>2. ASSUME NEW p \in Proc, CreateStep(p) PROVE JailInv'
  <2>1. CASE CreateCheck(p)  BY <2>1, FillJail
  <2>2. CASE CreateDirectory(p)  BY <2>2 DEF CreateDirectory
  <2>3. CASE CreateMount(p)  BY <2>3 DEF CreateMount, mount_volumes,
  mount_volumes_fails
  <2>4. CASE CreateJail(p)  BY <2>4, SMTT(30) DEF CreateJail, jail_create
  <2>5. CASE CreateFifo(p)  BY <2>5 DEF CreateFifo
  <2>6. CASE Fork(p)  BY <2>6 DEF Fork
  <2>7. CASE CreateRuntime(p)  BY <2>7 DEF CreateRuntime
  <2>8. CASE CreateUnlock(p)  BY <2>8 DEF CreateUnlock
  <2>9. CASE CreateSignal(p)  BY <2>9 DEF CreateSignal
  <2>10. CASE CreateAwait(p)  BY <2>10 DEF CreateAwait
  <2> QED BY <1>2, <2>1, <2>2, <2>3, <2>4, <2>5, <2>6, <2>7, <2>8, <2>9, <2>10
       DEF CreateStep
<1>3. ASSUME NEW p \in Proc, StartStep(p) PROVE JailInv'
  <2>1. CASE StartLoad(p)  BY <2>1, FillJail
  <2>2. CASE StartPrestart(p)  BY <2>2 DEF StartPrestart
  <2>3. CASE StartOpenFifo(p)  BY <2>3 DEF StartOpenFifo
  <2>4. CASE StartWriteFifo(p)  BY <2>4 DEF StartWriteFifo
  <2>5. CASE StartCloseFifo(p)  BY <2>5 DEF StartCloseFifo
  <2>6. CASE StartPoststart(p)  BY <2>6 DEF StartPoststart
  <2> QED BY <1>3, <2>1, <2>2, <2>3, <2>4, <2>5, <2>6 DEF StartStep
<1>4. ASSUME NEW p \in Proc, InspectStep(p) PROVE JailInv'
  <2>1. CASE ListExists(p)  BY <2>1 DEF ListExists
  <2>2. CASE InspectLoad(p)  BY <2>2, FillJail DEF InspectLoad
  <2>3. CASE KillLoad(p)  BY <2>3 DEF KillLoad
  <2>4. CASE KillSend(p)  BY <2>4 DEF KillSend
  <2> QED BY <1>4, <2>1, <2>2, <2>3, <2>4 DEF InspectStep
<1>5. ASSUME NEW p \in Proc, DeleteStep(p) PROVE JailInv'
  <2>1. CASE DeleteExists(p)  BY <2>1 DEF DeleteExists
  <2>2. CASE DeleteLoad(p)  BY <2>2, FillJail DEF DeleteLoad
  <2>3. CASE DeleteDecide(p)  BY <2>3 DEF DeleteDecide
  <2>4. CASE DeletePoststop(p)  BY <2>4 DEF DeletePoststop
  <2> QED BY <1>5, <2>1, <2>2, <2>3, <2>4 DEF DeleteStep
<1>6. ASSUME NEW p \in Proc, ChildStep(p) PROVE JailInv'
  <2>1. CASE ChildPreStart(p)  BY <2>1 DEF ChildPreStart
  <2>2. CASE ChildOpenFifo(p)  BY <2>2 DEF ChildOpenFifo
  <2>3. CASE ChildWaitParent(p)  BY <2>3 DEF ChildWaitParent
  <2>4. CASE ChildHooks(p)  BY <2>4 DEF ChildHooks
  <2>5. CASE ChildAttach(p)  BY <2>5 DEF ChildAttach
  <2>6. CASE ChildValidate(p)  BY <2>6 DEF ChildValidate
  <2>7. CASE ChildReport(p)  BY <2>7 DEF ChildReport
  <2>8. CASE ChildWaitStart(p)  BY <2>8 DEF ChildWaitStart
  <2>9. CASE ChildStartHooks(p)  BY <2>9 DEF ChildStartHooks
  <2>10. CASE ChildExec(p)  BY <2>10 DEF ChildExec
  <2> QED BY <1>6, <2>1, <2>2, <2>3, <2>4, <2>5, <2>6, <2>7, <2>8, <2>9, <2>10
       DEF ChildStep
<1>7. ASSUME NEW p \in Proc, NEW c \in Cmds, Invoke(p, c) PROVE JailInv'
  BY <1>7 DEF Invoke
<1>8. ASSUME NEW p \in Proc, Crash(p) PROVE JailInv'
  BY <1>8 DEF Crash
<1>9. ASSUME NEW p \in Proc, ProcessExit(p) PROVE JailInv'
  BY <1>9 DEF ProcessExit
<1>10. ASSUME NEW p \in Proc, Reap(p) PROVE JailInv'
  BY <1>10 DEF Reap
<1>11. ASSUME NEW p \in Proc, ExecStep(p) PROVE JailInv'
  <2>1. CASE ExecLoad(p)  BY <2>1 DEF ExecLoad
  <2>2. CASE ExecFork(p)  BY <2>2 DEF ExecFork
  <2>3. CASE ExecSignal(p)  BY <2>3 DEF ExecSignal
  <2>4. CASE ExecAwait(p)  BY <2>4 DEF ExecAwait
  <2>5. CASE ExecKilled(p)  BY <2>5 DEF ExecKilled
  <2> QED BY <1>11, <2>1, <2>2, <2>3, <2>4, <2>5 DEF ExecStep
<1>12. ASSUME NEW p \in Proc, XStep(p) PROVE JailInv'
  <2>1. CASE XPreStart(p)  BY <2>1 DEF XPreStart
  <2>2. CASE XWaitParent(p)  BY <2>2 DEF XWaitParent
  <2>3. CASE XAttach(p)  BY <2>3 DEF XAttach
  <2>4. CASE XValidate(p)  BY <2>4 DEF XValidate
  <2>5. CASE XReport(p)  BY <2>5 DEF XReport
  <2>6. CASE XExec(p)  BY <2>6 DEF XExec
  <2> QED BY <1>12, <2>1, <2>2, <2>3, <2>4, <2>5, <2>6 DEF XStep
<1>13. ASSUME NEW p \in Proc, XExit(p) PROVE JailInv'
  BY <1>13 DEF XExit
<1>14. CASE UNCHANGED vars
  BY <1>14 DEF vars, stateVars, dirVars, hostVars, ctlVars
<1> QED BY <1>1, <1>2, <1>3, <1>4, <1>5, <1>6, <1>7, <1>8, <1>9, <1>10, <1>11,
     <1>12, <1>13, <1>14 DEF Next, Step

\* JailedIsMounted holds of every instance, overlapping creates, crashes and
\* failures included: the mounts of a container outlive its processes.
THEOREM JailedIsMountedAlways == Spec => []JailedIsMounted
<1>1. Init => KnownForked /\ Recorded /\ JailInv
  BY RuntimeStateAssumption
     DEF Init, StateInit, HostInit, CommandsInit, KnownForked, Recorded,
         JailInv, InJail, XInJail, exists, NoFile, NoMem
<1>2. /\ ControlTypes /\ ControlTypes' /\ Control
      /\ KnownForked /\ Recorded /\ JailInv /\ [Next]_vars
      => KnownForked' /\ Recorded' /\ JailInv'
  BY KnownForkedStep, RecordedStep, JailStep
<1>3. ControlTypes /\ Control /\ Recorded /\ JailInv => JailedIsMounted
  BY DEF Control, Recorded, JailInv, JailedIsMounted, ControlTypes, XInJail
<1> QED  BY <1>1, <1>2, <1>3, ControlInvariant, PTL DEF Spec

-----------------------------------------------------------------------------
(* The lock.                                                               *)

\* Every step preserves LockHeld: flock() never takes a lock that is held, an
\* unlock only frees the unlocker's own open, and a child that throws is dead.
LEMMA LockStep ==
  ASSUME ControlTypes, ControlTypes', Control, LockHeld,
         "hook" \notin Faults, [Next]_vars
  PROVE  LockHeld'
<1> USE RuntimeStateAssumption, CommandsAssumption DEF ControlTypes, MemType,
     JsonType, ProcOrNone, Control, LockHeld, Critical, HasFile, Fresh,
     CreatePcs, OtherPcs, PreFork, LockedPcs, CleanupPcs, Dead,
     IsDelete, OpenLock, Goto, hostVars, Throw, Leave, End, ReleaseLock,
     Unlocked, dirVars, TakeLock, load, Truncate, Write, AfterSave,
     jail_remove, InJail, ChildExit, stateVars, pipeVars, ListDir,
     AfterRemove, Unlink, ctlVars, RemoveDir, create_directories, mkfifo,
     RunHooks, LoadAndCheck, LoadThen, Kill, KillProcess, Alive, Outside,
     ChildGoto, ChildThrow, InFlight, XGoto, XThrow, SharesLock, IsExec,
     Detached, ExecPcs, Preparing, XOutside, XInJail
<1>1. ASSUME NEW p \in Proc, CommonStep(p) PROVE LockHeld'
  <2>1. CASE Open(p)
    <3>1. pc[p] \notin ExecPcs \cup {"done"} /\ xchild[p] = "none"
      BY <2>1 DEF Open
    <3>2. CASE OpenLock(p) /\ Goto(p, "flock") /\ UNCHANGED hostVars
      <4>1. \A q \in Proc \ {p} : fd'[q] = fd[q] /\ pc'[q] = pc[q]
        BY <3>2
      <4>2. pc'[p] = "flock"  BY <3>2
      <4>3. UNCHANGED <<holder, child, xchild, cmd>>  BY <3>2
      <4> QED  BY <3>1, <4>1, <4>2, <4>3
    <3>3. CASE Throw(p)  BY <3>1, <3>3
    <3> QED  BY <2>1, <3>2, <3>3 DEF Open
  <2>2. CASE Flock(p)  BY <2>2 DEF Flock
  <2>3. CASE LoadFails(p)  BY <2>3 DEF LoadFails
  <2>4. CASE SaveBegin(p)  BY <2>4 DEF SaveBegin
  <2>5. CASE SaveEnd(p)  BY <2>5 DEF SaveEnd
  <2>6. CASE RemoveJail(p)
    <3>1. \A i \in Proc : holder'[i] # holder[i] =>
            holder[i] \in Orphaned(mem[p].of) /\ jail = mem[p].of
      BY <2>6 DEF RemoveJail, UnlockedIn
    <3>2. \A q \in Orphaned(mem[p].of) :
            jail = mem[p].of => xchild'[q] = "dead"
      BY <2>6 DEF RemoveJail, Orphaned
    <3>3. \A q \in Proc : /\ child'[q] \notin Dead => child[q] \notin Dead
                          /\ xchild'[q] \in {xchild[q], "dead"}
      BY <2>6 DEF RemoveJail
    <3>4. /\ pc' = [pc EXCEPT ![p] = "unmount"] /\ cmd' = cmd /\ fd' = fd
          /\ pc[p] = "remove_jail"
      BY <2>6 DEF RemoveJail
    <3> QED  BY <3>1, <3>2, <3>3, <3>4
  <2>7. CASE Unmount(p)  BY <2>7 DEF Unmount
  <2>8. CASE RemoveBegin(p)  BY <2>8 DEF RemoveBegin
  <2>9. CASE RemoveNext(p)  BY <2>9 DEF RemoveNext
  <2>10. CASE RemoveEnd(p)  BY <2>10 DEF RemoveEnd
  <2>11. CASE Return(p)  BY <2>11 DEF Return
  <2>12. CASE RemoveThrows(p)  BY <2>12 DEF RemoveThrows
  <2> QED BY <1>1, <2>1, <2>2, <2>3, <2>4, <2>5, <2>6, <2>7, <2>8, <2>9,
       <2>10, <2>11, <2>12 DEF CommonStep
<1>2. ASSUME NEW p \in Proc, CreateStep(p) PROVE LockHeld'
  <2>1. CASE CreateCheck(p)  BY <2>1 DEF CreateCheck
  <2>2. CASE CreateDirectory(p)  BY <2>2 DEF CreateDirectory
  <2>3. CASE CreateMount(p)  BY <2>3 DEF CreateMount
  <2>4. CASE CreateJail(p)  BY <2>4 DEF CreateJail
  <2>5. CASE CreateFifo(p)  BY <2>5 DEF CreateFifo
  <2>6. CASE Fork(p)  BY <2>6 DEF Fork
  <2>7. CASE CreateRuntime(p)  BY <2>7 DEF CreateRuntime
  <2>8. CASE CreateUnlock(p)  BY <2>8 DEF CreateUnlock
  <2>9. CASE CreateSignal(p)  BY <2>9 DEF CreateSignal
  <2>10. CASE CreateAwait(p)  BY <2>10 DEF CreateAwait
  <2> QED BY <1>2, <2>1, <2>2, <2>3, <2>4, <2>5, <2>6, <2>7, <2>8, <2>9, <2>10
       DEF CreateStep
<1>3. ASSUME NEW p \in Proc, StartStep(p) PROVE LockHeld'
  <2>1. CASE StartLoad(p)  BY <2>1 DEF StartLoad
  <2>2. CASE StartPrestart(p)  BY <2>2 DEF StartPrestart
  <2>3. CASE StartOpenFifo(p)  BY <2>3 DEF StartOpenFifo
  <2>4. CASE StartWriteFifo(p)  BY <2>4 DEF StartWriteFifo
  <2>5. CASE StartCloseFifo(p)  BY <2>5 DEF StartCloseFifo
  <2>6. CASE StartPoststart(p)  BY <2>6 DEF StartPoststart
  <2> QED BY <1>3, <2>1, <2>2, <2>3, <2>4, <2>5, <2>6 DEF StartStep
<1>4. ASSUME NEW p \in Proc, InspectStep(p) PROVE LockHeld'
  <2>1. CASE ListExists(p)  BY <2>1 DEF ListExists
  <2>2. CASE InspectLoad(p)  BY <2>2 DEF InspectLoad
  <2>3. CASE KillLoad(p)  BY <2>3 DEF KillLoad
  <2>4. CASE KillSend(p)  BY <2>4 DEF KillSend
  <2> QED BY <1>4, <2>1, <2>2, <2>3, <2>4 DEF InspectStep
<1>5. ASSUME NEW p \in Proc, DeleteStep(p) PROVE LockHeld'
  <2>1. CASE DeleteExists(p)  BY <2>1 DEF DeleteExists
  <2>2. CASE DeleteLoad(p)  BY <2>2 DEF DeleteLoad
  <2>3. CASE DeleteDecide(p)  BY <2>3 DEF DeleteDecide
  <2>4. CASE DeletePoststop(p)  BY <2>4 DEF DeletePoststop
  <2> QED BY <1>5, <2>1, <2>2, <2>3, <2>4 DEF DeleteStep
<1>6. ASSUME NEW p \in Proc, ChildStep(p) PROVE LockHeld'
  <2>1. CASE ChildPreStart(p)  BY <2>1 DEF ChildPreStart
  <2>2. CASE ChildOpenFifo(p)  BY <2>2 DEF ChildOpenFifo
  <2>3. CASE ChildWaitParent(p)  BY <2>3 DEF ChildWaitParent
  <2>4. CASE ChildHooks(p)  BY <2>4 DEF ChildHooks
  <2>5. CASE ChildAttach(p)  BY <2>5 DEF ChildAttach
  <2>6. CASE ChildValidate(p)  BY <2>6 DEF ChildValidate
  <2>7. CASE ChildReport(p)  BY <2>7 DEF ChildReport
  <2>8. CASE ChildWaitStart(p)  BY <2>8 DEF ChildWaitStart
  <2>9. CASE ChildStartHooks(p)  BY <2>9 DEF ChildStartHooks
  <2>10. CASE ChildExec(p)  BY <2>10 DEF ChildExec
  <2> QED BY <1>6, <2>1, <2>2, <2>3, <2>4, <2>5, <2>6, <2>7, <2>8, <2>9, <2>10
       DEF ChildStep
<1>7. ASSUME NEW p \in Proc, NEW c \in Cmds, Invoke(p, c) PROVE LockHeld'
  BY <1>7 DEF Invoke
<1>8. ASSUME NEW p \in Proc, Crash(p) PROVE LockHeld'
  BY <1>8 DEF Crash
<1>9. ASSUME NEW p \in Proc, ProcessExit(p) PROVE LockHeld'
  BY <1>9 DEF ProcessExit
<1>10. ASSUME NEW p \in Proc, Reap(p) PROVE LockHeld'
  BY <1>10 DEF Reap
<1>11. ASSUME NEW p \in Proc, ExecStep(p) PROVE LockHeld'
  <2>1. CASE ExecLoad(p)  BY <2>1 DEF ExecLoad
  <2>2. CASE ExecFork(p)  BY <2>2 DEF ExecFork
  <2>3. CASE ExecSignal(p)  BY <2>3 DEF ExecSignal
  <2>4. CASE ExecAwait(p)  BY <2>4 DEF ExecAwait
  <2>5. CASE ExecKilled(p)  BY <2>5 DEF ExecKilled
  <2> QED BY <1>11, <2>1, <2>2, <2>3, <2>4, <2>5 DEF ExecStep
<1>12. ASSUME NEW p \in Proc, XStep(p) PROVE LockHeld'
  <2>1. CASE XPreStart(p)  BY <2>1 DEF XPreStart
  <2>2. CASE XWaitParent(p)  BY <2>2 DEF XWaitParent
  <2>3. CASE XAttach(p)  BY <2>3 DEF XAttach
  <2>4. CASE XValidate(p)  BY <2>4 DEF XValidate
  <2>5. CASE XReport(p)  BY <2>5 DEF XReport
  <2>6. CASE XExec(p)  BY <2>6 DEF XExec
  <2> QED BY <1>12, <2>1, <2>2, <2>3, <2>4, <2>5, <2>6 DEF XStep
<1>13. ASSUME NEW p \in Proc, XExit(p) PROVE LockHeld'
  BY <1>13 DEF XExit
<1>14. CASE UNCHANGED vars
  BY <1>14 DEF vars, stateVars, dirVars, hostVars, ctlVars
<1> QED BY <1>1, <1>2, <1>3, <1>4, <1>5, <1>6, <1>7, <1>8, <1>9, <1>10, <1>11,
     <1>12, <1>13, <1>14 DEF Next, Step

\* LockHeld holds of every instance in which hooks can be executed, whatever
\* else fails and even though lock files are unlinked and made anew.
THEOREM LockHeldAlways ==
  ASSUME "hook" \notin Faults
  PROVE  Spec => []LockHeld
<1>1. Init => LockHeld
  BY DEF Init, StateInit, HostInit, CommandsInit, LockHeld, Critical,
         LockedPcs, CleanupPcs, Preparing, XOutside, XInJail
<1>2. /\ ControlTypes /\ ControlTypes' /\ Control
      /\ LockHeld /\ [Next]_vars
      => LockHeld'
  BY LockStep
<1> QED  BY <1>1, <1>2, ControlInvariant, PTL DEF Spec
-----------------------------------------------------------------------------
(* The stopped containers.                                                 *)

\* Every step preserves StoppedInv: only check_status() makes a container
\* stopped, and a process that is gone does not come back.
LEMMA StoppedStep ==
  ASSUME ControlTypes, ControlTypes', Control, StoppedInv, [Next]_vars
  PROVE  StoppedInv'
<1> USE RuntimeStateAssumption, CommandsAssumption DEF ControlTypes, MemType,
     JsonType, ProcOrNone, Control, StoppedInv, CreatePcs, OtherPcs, Dead,
     Live, Status, PreFork, InJail, OpenLock, Goto, hostVars, Throw, Leave,
     End, ReleaseLock, dirVars, TakeLock, load, SetStatus, Truncate, NoFile,
     Write, AfterSave, IsDelete, jail_remove, ChildExit, stateVars, pipeVars,
     ListDir, AfterRemove, Unlink, ctlVars, RemoveDir, create_directories,
     mkfifo, RunHooks, LoadAndCheck, LoadThen, Kill, KillProcess, Alive,
     Outside, ChildGoto, ChildThrow, InFlight, XGoto, XThrow, SharesLock
<1>1. ASSUME NEW p \in Proc, CommonStep(p) PROVE StoppedInv'
  <2>1. CASE Open(p)  BY <2>1 DEF Open
  <2>2. CASE Flock(p)  BY <2>2 DEF Flock
  <2>3. CASE LoadFails(p)  BY <2>3 DEF LoadFails
  <2>4. CASE SaveBegin(p)  BY <2>4 DEF SaveBegin
  <2>5. CASE SaveEnd(p)  BY <2>5 DEF SaveEnd
  <2>6. CASE RemoveJail(p)  BY <2>6 DEF RemoveJail
  <2>7. CASE Unmount(p)  BY <2>7 DEF Unmount
  <2>8. CASE RemoveBegin(p)  BY <2>8 DEF RemoveBegin
  <2>9. CASE RemoveNext(p)  BY <2>9 DEF RemoveNext
  <2>10. CASE RemoveEnd(p)  BY <2>10 DEF RemoveEnd
  <2>11. CASE Return(p)  BY <2>11 DEF Return
  <2>12. CASE RemoveThrows(p)  BY <2>12 DEF RemoveThrows
  <2> QED BY <1>1, <2>1, <2>2, <2>3, <2>4, <2>5, <2>6, <2>7, <2>8, <2>9,
       <2>10, <2>11, <2>12 DEF CommonStep
<1>2. ASSUME NEW p \in Proc, CreateStep(p) PROVE StoppedInv'
  <2>1. CASE CreateCheck(p)
    <3>1. CASE SetStatus(p, p, "created") /\ UNCHANGED <<json, child>>
      <4>1. mem'[p].of = p /\ mem'[p].status = "created"
        BY <3>1
      <4>2. \A q \in Proc \ {p} : mem'[q] = mem[q]
        BY <3>1
      <4> QED  BY <3>1, <4>1, <4>2
    <3>2. CASE UNCHANGED <<json, mem, child>>
      BY <3>2
    <3> QED  BY <2>1, <3>1, <3>2 DEF CreateCheck
  <2>2. CASE CreateDirectory(p)  BY <2>2 DEF CreateDirectory
  <2>3. CASE CreateMount(p)  BY <2>3 DEF CreateMount
  <2>4. CASE CreateJail(p)  BY <2>4 DEF CreateJail
  <2>5. CASE CreateFifo(p)  BY <2>5 DEF CreateFifo
  <2>6. CASE Fork(p)  BY <2>6 DEF Fork
  <2>7. CASE CreateRuntime(p)  BY <2>7 DEF CreateRuntime
  <2>8. CASE CreateUnlock(p)  BY <2>8 DEF CreateUnlock
  <2>9. CASE CreateSignal(p)  BY <2>9 DEF CreateSignal
  <2>10. CASE CreateAwait(p)  BY <2>10 DEF CreateAwait
  <2> QED BY <1>2, <2>1, <2>2, <2>3, <2>4, <2>5, <2>6, <2>7, <2>8, <2>9, <2>10
       DEF CreateStep
<1>3. ASSUME NEW p \in Proc, StartStep(p) PROVE StoppedInv'
  <2>1. CASE StartLoad(p)  BY <2>1 DEF StartLoad
  <2>2. CASE StartPrestart(p)  BY <2>2 DEF StartPrestart
  <2>3. CASE StartOpenFifo(p)  BY <2>3 DEF StartOpenFifo
  <2>4. CASE StartWriteFifo(p)  BY <2>4 DEF StartWriteFifo
  <2>5. CASE StartCloseFifo(p)  BY <2>5 DEF StartCloseFifo
  <2>6. CASE StartPoststart(p)  BY <2>6 DEF StartPoststart
  <2> QED BY <1>3, <2>1, <2>2, <2>3, <2>4, <2>5, <2>6 DEF StartStep
<1>4. ASSUME NEW p \in Proc, InspectStep(p) PROVE StoppedInv'
  <2>1. CASE ListExists(p)  BY <2>1 DEF ListExists
  <2>2. CASE InspectLoad(p)  BY <2>2 DEF InspectLoad
  <2>3. CASE KillLoad(p)  BY <2>3 DEF KillLoad
  <2>4. CASE KillSend(p)  BY <2>4 DEF KillSend
  <2> QED BY <1>4, <2>1, <2>2, <2>3, <2>4 DEF InspectStep
<1>5. ASSUME NEW p \in Proc, DeleteStep(p) PROVE StoppedInv'
  <2>1. CASE DeleteExists(p)  BY <2>1 DEF DeleteExists
  <2>2. CASE DeleteLoad(p)  BY <2>2 DEF DeleteLoad
  <2>3. CASE DeleteDecide(p)  BY <2>3 DEF DeleteDecide
  <2>4. CASE DeletePoststop(p)  BY <2>4 DEF DeletePoststop
  <2> QED BY <1>5, <2>1, <2>2, <2>3, <2>4 DEF DeleteStep
<1>6. ASSUME NEW p \in Proc, ChildStep(p) PROVE StoppedInv'
  <2>1. CASE ChildPreStart(p)  BY <2>1 DEF ChildPreStart
  <2>2. CASE ChildOpenFifo(p)  BY <2>2 DEF ChildOpenFifo
  <2>3. CASE ChildWaitParent(p)  BY <2>3 DEF ChildWaitParent
  <2>4. CASE ChildHooks(p)  BY <2>4 DEF ChildHooks
  <2>5. CASE ChildAttach(p)  BY <2>5 DEF ChildAttach
  <2>6. CASE ChildValidate(p)  BY <2>6 DEF ChildValidate
  <2>7. CASE ChildReport(p)  BY <2>7 DEF ChildReport
  <2>8. CASE ChildWaitStart(p)  BY <2>8 DEF ChildWaitStart
  <2>9. CASE ChildStartHooks(p)  BY <2>9 DEF ChildStartHooks
  <2>10. CASE ChildExec(p)  BY <2>10 DEF ChildExec
  <2> QED BY <1>6, <2>1, <2>2, <2>3, <2>4, <2>5, <2>6, <2>7, <2>8, <2>9, <2>10
       DEF ChildStep
<1>7. ASSUME NEW p \in Proc, NEW c \in Cmds, Invoke(p, c) PROVE StoppedInv'
  BY <1>7 DEF Invoke
<1>8. ASSUME NEW p \in Proc, Crash(p) PROVE StoppedInv'
  BY <1>8 DEF Crash
<1>9. ASSUME NEW p \in Proc, ProcessExit(p) PROVE StoppedInv'
  BY <1>9 DEF ProcessExit
<1>10. ASSUME NEW p \in Proc, Reap(p) PROVE StoppedInv'
  BY <1>10 DEF Reap
<1>11. ASSUME NEW p \in Proc, ExecStep(p) PROVE StoppedInv'
  <2>1. CASE ExecLoad(p)  BY <2>1 DEF ExecLoad
  <2>2. CASE ExecFork(p)  BY <2>2 DEF ExecFork
  <2>3. CASE ExecSignal(p)  BY <2>3 DEF ExecSignal
  <2>4. CASE ExecAwait(p)  BY <2>4 DEF ExecAwait
  <2>5. CASE ExecKilled(p)  BY <2>5 DEF ExecKilled
  <2> QED BY <1>11, <2>1, <2>2, <2>3, <2>4, <2>5 DEF ExecStep
<1>12. ASSUME NEW p \in Proc, XStep(p) PROVE StoppedInv'
  <2>1. CASE XPreStart(p)  BY <2>1 DEF XPreStart
  <2>2. CASE XWaitParent(p)  BY <2>2 DEF XWaitParent
  <2>3. CASE XAttach(p)  BY <2>3 DEF XAttach
  <2>4. CASE XValidate(p)  BY <2>4 DEF XValidate
  <2>5. CASE XReport(p)  BY <2>5 DEF XReport
  <2>6. CASE XExec(p)  BY <2>6 DEF XExec
  <2> QED BY <1>12, <2>1, <2>2, <2>3, <2>4, <2>5, <2>6 DEF XStep
<1>13. ASSUME NEW p \in Proc, XExit(p) PROVE StoppedInv'
  BY <1>13 DEF XExit
<1>14. CASE UNCHANGED vars
  BY <1>14 DEF vars, stateVars, dirVars, hostVars, ctlVars
<1> QED BY <1>1, <1>2, <1>3, <1>4, <1>5, <1>6, <1>7, <1>8, <1>9, <1>10, <1>11,
     <1>12, <1>13, <1>14 DEF Next, Step

\* StoppedIsGone holds of every instance: a save of an old state_ may undo
\* much, but what it records as stopped has no process.
THEOREM StoppedIsGoneAlways == Spec => []StoppedIsGone
<1>1. Init => StoppedInv
  BY DEF Init, StateInit, StoppedInv, NoFile, NoMem
<1>2. /\ ControlTypes /\ ControlTypes' /\ Control
      /\ StoppedInv /\ [Next]_vars
      => StoppedInv'
  BY StoppedStep
<1>3. StoppedInv => StoppedIsGone
  BY DEF StoppedInv, StoppedIsGone
<1> QED  BY <1>1, <1>2, <1>3, ControlInvariant, PTL DEF Spec
=============================================================================
