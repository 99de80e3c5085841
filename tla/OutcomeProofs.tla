--------------------------- MODULE OutcomeProofs ---------------------------
(***************************************************************************)
(* Theorems about what the commands come to, for every set of invocations  *)
(* and commands, if nothing overlaps with a create (Overlap = {}):         *)
(*   - the hooks of a container run in the order of their phases, unless   *)
(*     a command is killed or unmounting fails (HookOrder);                *)
(*   - a start that has returned success has been heard, or can still be,  *)
(*     unless a command is killed (NoLostStart);                           *)
(*   - once nobody is in flight a container is all there or has left       *)
(*     nothing, if none of the system calls fails that make or remove its  *)
(*     parts (Settled);                                                    *)
(*   - then no remove_all() meets a mounted root either (RemovesUnmounted).*)
(***************************************************************************)
EXTENDS RefinementProofs

\* The container process has run its createContainer hooks.
PastHooks == {"attach", "validate", "valid", "invalid", "wait_start"}
               \cup Started

\* The steps from which a create ends.
EndsAt(c) ==
  \/ pc[c] \in {"done"} \cup PreFork
  \/ pc[c] = "rm" /\ ~dir
  \/ pc[c] = "unlink" /\ (listing[c] = {} \/ Blocked)
  \/ pc[c] = "await" /\ report[c] = "ok"
  \/ pc[c] = "unmount" /\ "unmount" \in Faults
  \/ "crash" \in Faults

\* What a step may do to the handshake of create c with its child, and to
\* the end of create and start c.
ChildHands(c) ==
  /\ go'[c] => go[c] \/ pc[c] \in {"signal", "exec_signal"}
  /\ child'[c] = "createContainer" => child[c] = "createContainer" \/ go[c]
  /\ child'[c] \in PastHooks =>
       child[c] \in PastHooks \/ <<"createContainer", mem[c].of, c>> \in ran'
  /\ child'[c] = "wait_start" => child[c] \in {"valid", "wait_start"}
  /\ cmd[c] = "create" /\ report'[c] = "ok" =>
       report[c] = "ok" \/ child[c] = "valid"
  /\ cmd[c] = "create" /\ report[c] = "ok" => report'[c] = "ok"
Ends(c) ==
  /\ cmd[c] = "create" /\ pc'[c] = "done" => EndsAt(c)
  /\ cmd[c] = "start" /\ Returned(c)' => Returned(c) \/ pc[c] = "return"
Bytes(c) ==
  /\ pc'[c] = "close_fifo" =>
       \/ pc[c] = "close_fifo"
       \/ pc[c] = "write_fifo" /\ c \in fifo'[fifoFd[c]] /\ child' = child
  /\ \/ fifo[c] \subseteq fifo'[c]
     \/ \A r \in Proc : fifoFd'[r] # c
     \/ \E r \in Proc : /\ fifoFd[r] = c /\ child[r] = "wait_start"
                        /\ child'[r] # "wait_start"

\* The hooks that the container process runs, and the step at which it does.
ChildPhase == {"createContainer", "startContainer"}
ChildRuns ==
  /\ ran \subseteq ran'
  /\ \A phase \in ChildPhase, c, q \in Proc :
       <<phase, c, q>> \in ran' =>
         \/ <<phase, c, q>> \in ran
         \/ child[q] = phase /\ mem[q].of = c

HandMoves ==
  /\ \A c \in Proc : ChildHands(c) /\ Ends(c) /\ Bytes(c)
  /\ ChildRuns

\* A step that leaves all this alone.
HandCalm ==
  /\ UNCHANGED <<child, fifo, fifoFd>> /\ ChildRuns
  /\ \A c \in Proc : /\ go'[c] => go[c] \/ pc[c] = "exec_signal"
                     /\ cmd[c] = "create" => report'[c] = report[c]
                     /\ pc'[c] = "close_fifo" => pc[c] = "close_fifo"
                     /\ Ends(c)

\* Such a step is one of HandMoves.
LEMMA HandCalmed ==
  ASSUME HandCalm
  PROVE  HandMoves
BY DEF HandCalm, HandMoves, ChildHands, Bytes

\* A step at which the container process of c ends.
HandExit(c) ==
  /\ child[c] # "none" /\ ChildExit(c) /\ UNCHANGED <<ran, go>>
  /\ \A q \in Proc :
       /\ cmd[q] = "create" => (report'[q] = "ok" <=> report[q] = "ok")
       /\ pc'[q] = "close_fifo" => pc[q] = "close_fifo"
       /\ Ends(q)

\* Such a step is one of HandMoves, too.
LEMMA HandExited ==
  ASSUME ControlTypes, HostTypeOK, NEW c \in Proc, HandExit(c)
  PROVE  HandMoves
<1> USE DEF ControlTypes, HostTypeOK, HandExit
<1>1. /\ child' = [child EXCEPT ![c] = "zombie"]
      /\ fifoFd' = [fifoFd EXCEPT ![c] = NoProc]
      /\ \A f \in Proc :
           fifo'[f] = IF \E r \in Proc \ {c} : fifoFd[r] = f
                      THEN fifo[f] ELSE {}
  BY DEF ChildExit, CloseFifo
<1>2. \A q \in Proc : ChildHands(q)
  BY <1>1 DEF ChildHands, PastHooks, Started
<1>3. ASSUME NEW f \in Proc
      PROVE  fifo[f] \subseteq fifo'[f] \/ \A r \in Proc : fifoFd'[r] # f
  BY <1>1, RuntimeStateAssumption
<1>4. \A q \in Proc : Bytes(q)
  BY <1>3 DEF Bytes
<1>5. ChildRuns
  BY DEF ChildRuns
<1> QED  BY <1>2, <1>4, <1>5 DEF HandMoves

\* And so is every other.
LEMMA HandSteps ==
  ASSUME ControlTypes, Control, HostTypeOK, CommandsTypeOK, Recorded, Roles,
         UsingInv, ByteInv, [Next]_vars
  PROVE  HandMoves
<1> USE RuntimeStateAssumption DEF ControlTypes, MemType, ProcOrNone,
     CommandsTypeOK, HostTypeOK, Control, CreatePcs, OtherPcs, ExecPcs,
     PreFork, IsDelete, HandCalm, Ends,
     EndsAt, ChildRuns, ChildPhase, PastHooks, Returned, Alive, Started,
     Dead, Goto, Throw, Leave, End, ReleaseLock, hostVars,
     stateVars, dirVars, ctlVars, pipeVars, ChildGoto, XGoto, XThrow, IsExec,
     Detached, InJail, Outside
<1>1. ASSUME NEW p \in Proc, CommonStep(p) PROVE HandMoves
  <2>1. CASE Open(p)
    <3>1. HandCalm  BY <2>1 DEF Open, OpenLock
    <3> QED  BY <3>1, HandCalmed
  <2>2. CASE Flock(p)
    <3>1. HandCalm  BY <2>2 DEF Flock, TakeLock
    <3> QED  BY <3>1, HandCalmed
  <2>3. CASE LoadFails(p)
    <3>1. HandCalm  BY <2>3 DEF LoadFails
    <3> QED  BY <3>1, HandCalmed
  <2>4. CASE SaveBegin(p)
    <3>1. HandCalm  BY <2>4 DEF SaveBegin, Truncate
    <3> QED  BY <3>1, HandCalmed
  <2>5. CASE SaveEnd(p)
    <3>1. HandCalm  BY <2>5 DEF SaveEnd, Write, AfterSave
    <3> QED  BY <3>1, HandCalmed
  <2>6. CASE RemoveJail(p)
    <3>1. CASE jail = mem[p].of /\ child[mem[p].of] \in InJail
      <4>1. mem[p].of \in Proc
        BY <2>6 DEF RemoveJail, Roles, CleanupPcs, Recorded, UsingInv, Using,
                    Uses, HasLoaded, InFlight
      <4>2. PICK c \in Proc : c = mem[p].of  BY <4>1
      <4>3. HandExit(c)
        BY <2>6, <3>1, <4>2 DEF RemoveJail, jail_remove, HandExit
      <4> QED  BY <4>3, HandExited
    <3>2. CASE ~(jail = mem[p].of /\ child[mem[p].of] \in InJail)
      BY <2>6, <3>2, SMTT(30)
         DEF RemoveJail, jail_remove, HandMoves, ChildHands, Bytes
    <3> QED  BY <3>1, <3>2
  <2>7. CASE Unmount(p)
    <3>1. HandCalm  BY <2>7 DEF Unmount, Roles, CleanupPcs
    <3> QED  BY <3>1, HandCalmed
  <2>8. CASE RemoveBegin(p)
    <3>1. HandCalm
      BY <2>8, SMTT(30)
         DEF RemoveBegin, ListDir, AfterRemove, Roles, CleanupPcs
    <3> QED  BY <3>1, HandCalmed
  <2>9. CASE RemoveNext(p)
    <3>1. HandCalm  BY <2>9 DEF RemoveNext, Unlink
    <3> QED  BY <3>1, HandCalmed
  <2>10. CASE RemoveEnd(p)
    <3>1. HandCalm
      BY <2>10, SMTT(30)
         DEF RemoveEnd, RemoveDir, AfterRemove, Roles, CleanupPcs
    <3> QED  BY <3>1, HandCalmed
  <2>11. CASE Return(p)
    <3>1. HandCalm  BY <2>11 DEF Return, Roles
    <3> QED  BY <3>1, HandCalmed
  <2>12. CASE RemoveThrows(p)
    <3>1. HandCalm  BY <2>12 DEF RemoveThrows
    <3> QED  BY <3>1, HandCalmed
  <2> QED
    BY <1>1, <2>1, <2>2, <2>3, <2>4, <2>5, <2>6, <2>7, <2>8, <2>9, <2>10,
       <2>11, <2>12
       DEF CommonStep
<1>2. ASSUME NEW p \in Proc, CreateStep(p) PROVE HandMoves
  <2>1. CASE CreateCheck(p)
    <3>1. HandCalm  BY <2>1 DEF CreateCheck, SetStatus
    <3> QED  BY <3>1, HandCalmed
  <2>2. CASE CreateDirectory(p)
    <3>1. HandCalm  BY <2>2 DEF CreateDirectory, create_directories
    <3> QED  BY <3>1, HandCalmed
  <2>3. CASE CreateMount(p)
    <3>1. HandCalm  BY <2>3 DEF CreateMount
    <3> QED  BY <3>1, HandCalmed
  <2>4. CASE CreateJail(p)
    <3>1. HandCalm  BY <2>4 DEF CreateJail, jail_create
    <3> QED  BY <3>1, HandCalmed
  <2>5. CASE CreateFifo(p)
    <3>1. HandCalm  BY <2>5 DEF CreateFifo, mkfifo
    <3> QED  BY <3>1, HandCalmed
  <2>6. CASE Fork(p)
    BY <2>6, SMTT(30) DEF Fork, HandMoves, ChildHands, Bytes
  <2>7. CASE CreateRuntime(p)
    <3>1. HandCalm  BY <2>7 DEF CreateRuntime, RunHooks
    <3> QED  BY <3>1, HandCalmed
  <2>8. CASE CreateUnlock(p)
    <3>1. HandCalm  BY <2>8 DEF CreateUnlock
    <3> QED  BY <3>1, HandCalmed
  <2>9. CASE CreateSignal(p)
    BY <2>9, SMTT(30) DEF CreateSignal, HandMoves, ChildHands, Bytes
  <2>10. CASE CreateAwait(p)
    <3>1. HandCalm  BY <2>10 DEF CreateAwait
    <3> QED  BY <3>1, HandCalmed
  <2> QED  BY <1>2, <2>1, <2>2, <2>3, <2>4, <2>5, <2>6, <2>7, <2>8, <2>9, <2>10
       DEF CreateStep
<1>3. ASSUME NEW p \in Proc, StartStep(p) PROVE HandMoves
  <2>1. CASE StartLoad(p)
    <3>1. HandCalm  BY <2>1 DEF StartLoad, SetStatus
    <3> QED  BY <3>1, HandCalmed
  <2>2. CASE StartPrestart(p)
    <3>1. HandCalm  BY <2>2 DEF StartPrestart, RunHooks
    <3> QED  BY <3>1, HandCalmed
  <2>3. CASE StartOpenFifo(p)
    BY <2>3, SMTT(30) DEF StartOpenFifo, OpenFifo, HandMoves, ChildHands, Bytes
  <2>4. CASE StartWriteFifo(p)
    <3>1. fifoFd[p] \in Proc  BY <2>4 DEF StartWriteFifo, ByteInv
    <3>2. /\ pc' = [pc EXCEPT ![p] = "close_fifo"] /\ pc[p] = "write_fifo"
          /\ fifo' = [fifo EXCEPT ![fifoFd[p]] = @ \cup {p}]
          /\ UNCHANGED <<cmd, out, child, fifoFd, go, report, ran>>
      BY <2>4 DEF StartWriteFifo
    <3>3. \A c \in Proc : ChildHands(c) /\ Ends(c)
      BY <3>2 DEF ChildHands
    <3>4. \A c \in Proc : Bytes(c)
      BY <3>1, <3>2 DEF Bytes
    <3>5. ChildRuns  BY <3>2
    <3> QED  BY <3>3, <3>4, <3>5 DEF HandMoves
  <2>5. CASE StartCloseFifo(p)
    BY <2>5, SMTT(30)
       DEF StartCloseFifo, CloseFifo, HandMoves, ChildHands, Bytes
  <2>6. CASE StartPoststart(p)
    <3>1. HandCalm  BY <2>6 DEF StartPoststart, RunHooks
    <3> QED  BY <3>1, HandCalmed
  <2> QED  BY <1>3, <2>1, <2>2, <2>3, <2>4, <2>5, <2>6
       DEF StartStep
<1>4. ASSUME NEW p \in Proc, InspectStep(p) PROVE HandMoves
  <2>1. CASE ListExists(p)
    <3>1. HandCalm  BY <2>1 DEF ListExists
    <3> QED  BY <3>1, HandCalmed
  <2>2. CASE InspectLoad(p)
    <3>1. HandCalm  BY <2>2 DEF InspectLoad, LoadAndCheck, SetStatus, AfterSave
    <3> QED  BY <3>1, HandCalmed
  <2>3. CASE KillLoad(p)
    <3>1. HandCalm  BY <2>3 DEF KillLoad, LoadThen, load, SetStatus
    <3> QED  BY <3>1, HandCalmed
  <2>4. CASE KillSend(p)
    <3>1. CASE mem[p].of \in Proc /\ ChildExit(mem[p].of) /\ Alive(mem[p].of)
      <4>1. PICK c \in Proc : c = mem[p].of  BY <3>1
      <4>2. HandExit(c)
        BY <2>4, <3>1, <4>1 DEF KillSend, Kill, KillProcess, HandExit
      <4> QED  BY <4>2, HandExited
    <3>2. CASE UNCHANGED hostVars
      <4>1. HandCalm  BY <2>4, <3>2 DEF KillSend, Kill
      <4> QED  BY <4>1, HandCalmed
    <3> QED  BY <2>4, <3>1, <3>2 DEF KillSend, Kill, KillProcess
  <2> QED  BY <1>4, <2>1, <2>2, <2>3, <2>4
       DEF InspectStep
<1>5. ASSUME NEW p \in Proc, DeleteStep(p) PROVE HandMoves
  <2>1. CASE DeleteExists(p)
    <3>1. HandCalm  BY <2>1 DEF DeleteExists
    <3> QED  BY <3>1, HandCalmed
  <2>2. CASE DeleteLoad(p)
    <3>1. HandCalm  BY <2>2 DEF DeleteLoad, LoadAndCheck, SetStatus, AfterSave
    <3> QED  BY <3>1, HandCalmed
  <2>3. CASE DeleteDecide(p)
    <3>1. CASE mem[p].of \in Proc /\ ChildExit(mem[p].of) /\ Alive(mem[p].of)
               /\ KillProcess(mem[p].of)
      <4>1. PICK c \in Proc : c = mem[p].of  BY <3>1
      <4>2. HandExit(c)
        BY <2>3, <3>1, <4>1 DEF DeleteDecide, Kill, KillProcess, HandExit
      <4> QED  BY <4>2, HandExited
    <3>2. CASE UNCHANGED hostVars
      <4>1. HandCalm  BY <2>3, <3>2 DEF DeleteDecide, Kill
      <4> QED  BY <4>1, HandCalmed
    <3> QED  BY <2>3, <3>1, <3>2 DEF DeleteDecide, Kill, KillProcess
  <2>4. CASE DeletePoststop(p)
    <3>1. HandCalm  BY <2>4 DEF DeletePoststop, RunHooks
    <3> QED  BY <3>1, HandCalmed
  <2> QED  BY <1>5, <2>1, <2>2, <2>3, <2>4
       DEF DeleteStep
<1>6. ASSUME NEW p \in Proc, ChildStep(p) PROVE HandMoves
  <2>1. CASE ChildPreStart(p)
    <3>1. CASE ChildThrow(p)
      <4>1. HandExit(p)
        BY <2>1, <3>1 DEF ChildPreStart, ChildThrow, HandExit
      <4> QED  BY <4>1, HandExited
    <3>2. CASE ~ChildThrow(p)
      BY <2>1, <3>2, SMTT(30) DEF ChildPreStart, HandMoves, ChildHands, Bytes
    <3> QED  BY <3>1, <3>2
  <2>2. CASE ChildOpenFifo(p)
    <3>1. CASE ChildThrow(p)
      <4>1. HandExit(p)
        BY <2>2, <3>1 DEF ChildOpenFifo, ChildThrow, HandExit
      <4> QED  BY <4>1, HandExited
    <3>2. CASE ~ChildThrow(p)
      BY <2>2, <3>2, SMTT(30)
         DEF ChildOpenFifo, OpenFifo, HandMoves, ChildHands, Bytes
    <3> QED  BY <3>1, <3>2
  <2>3. CASE ChildWaitParent(p)
    <3>1. /\ child[p] = "wait_parent" /\ go[p]
          /\ child' = [child EXCEPT ![p] = "createContainer"]
          /\ \A c \in Proc : go'[c] => go[c]
          /\ UNCHANGED <<pc, cmd, out, fifo, fifoFd, report, ran>>
      BY <2>3 DEF ChildWaitParent
    <3>2. \A c \in Proc : ChildHands(c) /\ Ends(c) /\ Bytes(c)
      BY <3>1 DEF ChildHands, Bytes
    <3>3. ChildRuns  BY <3>1
    <3> QED  BY <3>2, <3>3 DEF HandMoves
  <2>4. CASE ChildHooks(p)
    <3>1. /\ child[p] = "createContainer"
          /\ child' = [child EXCEPT ![p] = child'[p]]
          /\ UNCHANGED <<pc, cmd, out, fifo, fifoFd, go>>
          /\ \A c \in Proc : report'[c] = "ok" <=> report[c] = "ok"
          /\ \/ /\ child'[p] = "attach"
                /\ ran' = ran \cup {<<"createContainer", mem[p].of, p>>}
             \/ child'[p] = "refused" /\ ran' = ran
      BY <2>4 DEF ChildHooks, FirstReport
    <3>2. \A c \in Proc : ChildHands(c)
      BY <3>1 DEF ChildHands
    <3>3. \A c \in Proc : Ends(c) /\ Bytes(c)
      BY <3>1 DEF Bytes
    <3>4. ChildRuns  BY <3>1
    <3> QED  BY <3>2, <3>3, <3>4 DEF HandMoves
  <2>5. CASE ChildAttach(p)
    <3>1. /\ child[p] = "attach"
          /\ child' = [child EXCEPT ![p] = child'[p]]
          /\ child'[p] \in {"validate", "refused"}
          /\ UNCHANGED <<pc, cmd, out, fifo, fifoFd, go, report, ran>>
      BY <2>5 DEF ChildAttach
    <3>2. \A c \in Proc : ChildHands(c) /\ Ends(c) /\ Bytes(c)
      BY <3>1 DEF ChildHands, Bytes
    <3>3. ChildRuns  BY <3>1
    <3> QED  BY <3>2, <3>3 DEF HandMoves
  <2>6. CASE ChildValidate(p)
    <3>1. /\ child[p] = "validate"
          /\ child' = [child EXCEPT ![p] = child'[p]]
          /\ child'[p] \in {"valid", "invalid"}
          /\ UNCHANGED <<pc, cmd, out, fifo, fifoFd, go, report, ran>>
      BY <2>6 DEF ChildValidate
    <3>2. \A c \in Proc : ChildHands(c) /\ Ends(c) /\ Bytes(c)
      BY <3>1 DEF ChildHands, Bytes
    <3>3. ChildRuns  BY <3>1
    <3> QED  BY <3>2, <3>3 DEF HandMoves
  <2>7. CASE ChildReport(p)
    <3>1. CASE ChildExit(p)
      <4>1. \A q \in Proc : report'[q] = "ok" <=> report[q] = "ok"
        BY <2>7, <3>1 DEF ChildReport, FirstReport, ChildExit
      <4>2. HandExit(p)
        BY <2>7, <3>1, <4>1 DEF ChildReport, HandExit
      <4> QED  BY <4>2, HandExited
    <3>2. CASE ~ChildExit(p)
      <4>1. /\ child[p] = "valid"
            /\ child' = [child EXCEPT ![p] = "wait_start"]
            /\ report' = [report EXCEPT ![p] = report'[p]]
            /\ report[p] = "ok" => report'[p] = "ok"
            /\ UNCHANGED <<pc, cmd, out, fifo, fifoFd, go, ran>>
        BY <2>7, <3>2 DEF ChildReport, FirstReport
      <4>2. \A c \in Proc : ChildHands(c) /\ Ends(c) /\ Bytes(c)
        BY <4>1 DEF ChildHands, Bytes
      <4>3. ChildRuns  BY <4>1
      <4> QED  BY <4>2, <4>3 DEF HandMoves
    <3> QED  BY <3>1, <3>2
  <2>8. CASE ChildWaitStart(p)
    <3>1. /\ child[p] = "wait_start" /\ fifo[fifoFd[p]] # {}
          /\ child' = [child EXCEPT ![p] = "startContainer"]
          /\ fifoFd' = [fifoFd EXCEPT ![p] = NoProc]
          /\ fifo' = [fifo EXCEPT ![fifoFd[p]] = fifo'[fifoFd[p]]]
          /\ UNCHANGED <<pc, cmd, out, go, report, ran>>
      BY <2>8 DEF ChildWaitStart
    <3>2. \A c \in Proc : ChildHands(c) /\ Ends(c)
      BY <3>1 DEF ChildHands
    <3>3. \A c \in Proc : Bytes(c)
      BY <3>1 DEF Bytes
    <3>4. ChildRuns  BY <3>1
    <3> QED  BY <3>2, <3>3, <3>4 DEF HandMoves
  <2>9. CASE ChildStartHooks(p)
    <3>1. /\ child[p] = "startContainer"
          /\ child' = [child EXCEPT ![p] = "exec"]
          /\ UNCHANGED <<pc, cmd, out, fifo, fifoFd, go, report>>
          /\ ran' = ran \cup {<<"startContainer", mem[p].of, p>>}
      BY <2>9 DEF ChildStartHooks, RunHooks
    <3>2. \A c \in Proc : ChildHands(c) /\ Ends(c) /\ Bytes(c)
      BY <3>1 DEF ChildHands, Bytes
    <3>3. ChildRuns  BY <3>1
    <3> QED  BY <3>2, <3>3 DEF HandMoves
  <2>10. CASE ChildExec(p)
    <3>1. /\ child[p] = "exec"
          /\ child' = [child EXCEPT ![p] = child'[p]]
          /\ child'[p] \in {"running"}
          /\ UNCHANGED <<pc, cmd, out, fifo, fifoFd, go, report, ran>>
      BY <2>10 DEF ChildExec
    <3>2. \A c \in Proc : ChildHands(c) /\ Ends(c) /\ Bytes(c)
      BY <3>1 DEF ChildHands, Bytes
    <3>3. ChildRuns  BY <3>1
    <3> QED  BY <3>2, <3>3 DEF HandMoves
  <2> QED  BY <1>6, <2>1, <2>2, <2>3, <2>4, <2>5, <2>6, <2>7, <2>8, <2>9, <2>10
       DEF ChildStep
<1>7. ASSUME NEW p \in Proc, ExecStep(p) PROVE HandMoves
  <2>1. CASE ExecLoad(p)
    <3>1. HandCalm  BY <2>1 DEF ExecLoad, LoadThen, load, SetStatus
    <3> QED  BY <3>1, HandCalmed
  <2>2. CASE ExecFork(p)
    <3>1. HandCalm  BY <2>2 DEF ExecFork
    <3> QED  BY <3>1, HandCalmed
  <2>3. CASE ExecSignal(p)
    <3>1. HandCalm  BY <2>3 DEF ExecSignal
    <3> QED  BY <3>1, HandCalmed
  <2>4. CASE ExecAwait(p)
    <3>1. HandCalm  BY <2>4 DEF ExecAwait
    <3> QED  BY <3>1, HandCalmed
  <2>5. CASE ExecKilled(p)
    <3>1. HandCalm  BY <2>5 DEF ExecKilled
    <3> QED  BY <3>1, HandCalmed
  <2> QED  BY <1>7, <2>1, <2>2, <2>3, <2>4, <2>5
       DEF ExecStep
<1>8. ASSUME NEW p \in Proc, XStep(p) PROVE HandMoves
  <2>1. CASE XPreStart(p)
    <3>1. HandCalm  BY <2>1 DEF XPreStart
    <3> QED  BY <3>1, HandCalmed
  <2>2. CASE XWaitParent(p)
    <3>1. HandCalm  BY <2>2 DEF XWaitParent
    <3> QED  BY <3>1, HandCalmed
  <2>3. CASE XAttach(p)
    <3>1. HandCalm  BY <2>3 DEF XAttach
    <3> QED  BY <3>1, HandCalmed
  <2>4. CASE XValidate(p)
    <3>1. HandCalm  BY <2>4 DEF XValidate
    <3> QED  BY <3>1, HandCalmed
  <2>5. CASE XReport(p)
    <3>1. HandCalm  BY <2>5 DEF XReport, FirstReport
    <3> QED  BY <3>1, HandCalmed
  <2>6. CASE XExec(p)
    <3>1. HandCalm  BY <2>6 DEF XExec
    <3> QED  BY <3>1, HandCalmed
  <2> QED  BY <1>8, <2>1, <2>2, <2>3, <2>4, <2>5, <2>6
       DEF XStep
<1>9. ASSUME NEW p \in Proc, NEW c \in Cmds, Invoke(p, c) PROVE HandMoves
  <2>1. HandCalm  BY <1>9 DEF Invoke
  <2> QED  BY <2>1, HandCalmed
<1>10. ASSUME NEW p \in Proc, Crash(p) PROVE HandMoves
  <2>1. /\ pc' = [pc EXCEPT ![p] = "done"]
        /\ out' = [out EXCEPT ![p] = "crashed"]
        /\ "crash" \in Faults /\ UNCHANGED <<child, go, report, ran, cmd>>
    BY <1>10 DEF Crash
  <2>2. CASE cmd[p] = "start"
    <3>1. \A f \in Proc :
            fifo[f] \subseteq fifo'[f] \/ \A r \in Proc : fifoFd'[r] # f
      BY <1>10, <2>2 DEF Crash, CloseFifo
    <3>2. \A c \in Proc : ChildHands(c) /\ Ends(c)
      BY <2>1 DEF ChildHands
    <3>3. \A c \in Proc : Bytes(c)
      BY <2>1, <3>1 DEF Bytes
    <3>4. ChildRuns  BY <2>1
    <3> QED  BY <3>2, <3>3, <3>4 DEF HandMoves
  <2>3. CASE cmd[p] # "start"
    <3>1. HandCalm  BY <1>10, <2>1, <2>3 DEF Crash
    <3> QED  BY <3>1, HandCalmed
  <2> QED  BY <2>2, <2>3
<1>11. ASSUME NEW p \in Proc, ProcessExit(p) PROVE HandMoves
  <2>1. HandExit(p)  BY <1>11 DEF ProcessExit, HandExit
  <2> QED  BY <2>1, HandExited
<1>12. ASSUME NEW p \in Proc, XExit(p) PROVE HandMoves
  <2>1. HandCalm  BY <1>12 DEF XExit
  <2> QED  BY <2>1, HandCalmed
<1>13. ASSUME NEW p \in Proc, Reap(p) PROVE HandMoves
  <2>1. /\ child[p] = "zombie" /\ child' = [child EXCEPT ![p] = "gone"]
        /\ UNCHANGED <<pc, cmd, out, fifo, fifoFd, go, report, ran>>
    BY <1>13 DEF Reap
  <2>2. \A c \in Proc : ChildHands(c) /\ Ends(c) /\ Bytes(c)
    BY <2>1 DEF ChildHands, Bytes
  <2>3. ChildRuns  BY <2>1
  <2> QED  BY <2>2, <2>3 DEF HandMoves
<1>14. CASE UNCHANGED vars
  <2>1. HandCalm  BY <1>14 DEF vars
  <2> QED  BY <2>1, HandCalmed
<1> QED  BY <1>1, <1>2, <1>3, <1>4, <1>5, <1>6, <1>7, <1>8, <1>9, <1>10,
       <1>11, <1>12, <1>13, <1>14 DEF Next, Step

-----------------------------------------------------------------------------
(* The order of the hooks.                                                 *)

\* What each side of the handshake has done by the time the other goes on;
\* and a container process is that of the container its state_ describes.
HandInv ==
  \A c \in Proc :
    /\ \/ ~IsExec(c) /\ go[c]
       \/ child[c] = "createContainer" \/ RunsHook("createContainer", c)
       => RunsHook("createRuntime", c)
    /\ child[c] \in PastHooks \/ (cmd[c] = "create" /\ report[c] = "ok")
       => RunsHook("createContainer", c)
    /\ RunsHook("startContainer", c) => RunsHook("prestart", c)
    /\ child[c] # "none" => mem[c].of = c

\* Every step preserves HandInv.
LEMMA HandStep ==
  ASSUME ControlTypes, ControlTypes', Control, Roles, Recorded, WaitInv,
         MarkInv, StartBeforeRun, HandInv, HostMoves, HandMoves, Kinds
  PROVE  HandInv'
<1> USE RuntimeStateAssumption DEF ControlTypes
<1>1. \A c \in Proc, phase \in Phase : RunsHook(phase, c)
        => RunsHook(phase, c)'
  BY DEF HandMoves, ChildRuns, RunsHook
<1>2. ASSUME NEW p \in Proc, Kind(p), NEW c \in Proc
      PROVE  /\ \/ ~IsExec(c)' /\ go'[c]
                \/ child'[c] = "createContainer"
                \/ RunsHook("createContainer", c)'
                => RunsHook("createRuntime", c)'
             /\ child'[c] \in PastHooks
                \/ (cmd'[c] = "create" /\ report'[c] = "ok")
                => RunsHook("createContainer", c)'
             /\ RunsHook("startContainer", c)' => RunsHook("prestart", c)'
             /\ child'[c] # "none" => mem'[c].of = c
  <2>1. cmd' = cmd /\ IsExec(c)' = IsExec(c)
    BY <1>2, KindFlight DEF IsExec
  <2>2. ChildHands(c) /\ ChildRuns  BY DEF HandMoves
  <2>3. ASSUME NEW phase \in ChildPhase, RunsHook(phase, c)'
        PROVE  RunsHook(phase, c) \/ child[c] = phase
    <3>1. PICK q \in Proc : <<phase, c, q>> \in ran'  BY <2>3 DEF RunsHook
    <3>2. <<phase, c, q>> \in ran \/ (child[q] = phase /\ mem[q].of = c)
      BY <2>2, <3>1 DEF ChildRuns
    <3>3. child[q] = phase => mem[q].of = q
      BY <2>3 DEF HandInv, ChildPhase
    <3> QED  BY <3>2, <3>3 DEF RunsHook
  <2>4. child[c] # "none" => cmd[c] = "create" /\ ~IsExec(c)
    BY DEF Control, IsExec
  <2>5. ASSUME go'[c] /\ ~IsExec(c) PROVE RunsHook("createRuntime", c)'
    <3>1. go[c] \/ pc[c] = "signal"
      BY <2>2, <2>5 DEF ChildHands, Control, ExecPcs
    <3>2. CASE go[c]
      BY <1>1, <2>5, <3>2 DEF HandInv, Phase
    <3>3. CASE pc[c] = "signal"
      BY <1>1, <3>3 DEF MarkInv, Phase, Control, CreatePcs
    <3> QED  BY <3>1, <3>2, <3>3
  <2>6. child'[c] = "createContainer" => RunsHook("createRuntime", c)'
    <3>1. child'[c] = "createContainer" => Alive(c)'
      BY DEF Alive, Outside
    <3>2. Alive(c)' => Alive(c) \/ pc[c] = "fork"
      BY DEF HostMoves, ProcessMoves
    <3>3. child'[c] = "createContainer" => ~IsExec(c)
      BY <2>4, <3>1, <3>2
         DEF Alive, Outside, InJail, Control, CreatePcs, IsExec
    <3>4. child'[c] = "createContainer" => RunsHook("createRuntime", c)
      BY <2>2, <3>3 DEF HandInv, ChildHands
    <3> QED  BY <1>1, <3>4 DEF Phase
  <2>7. RunsHook("createContainer", c)' => RunsHook("createRuntime", c)'
    <3>1. RunsHook("createContainer", c)' => RunsHook("createRuntime", c)
      <4>1. RunsHook("createContainer", c)' =>
              RunsHook("createContainer", c) \/ child[c] = "createContainer"
        BY <2>3 DEF ChildPhase
      <4> QED  BY <4>1 DEF HandInv
    <3> QED  BY <1>1, <3>1 DEF Phase
  <2>8. child'[c] \in PastHooks => RunsHook("createContainer", c)'
    <3>1. child'[c] \in PastHooks => Alive(c)'
      BY DEF Alive, Outside, InJail, PastHooks, Started
    <3>2. Alive(c)' => Alive(c) \/ pc[c] = "fork"
      BY DEF HostMoves, ProcessMoves
    <3>3. child'[c] \in PastHooks => mem[c].of = c
      BY <3>1, <3>2
         DEF Alive, Outside, InJail, Control, CreatePcs, Recorded, HandInv
    <3>4. child'[c] \in PastHooks =>
            child[c] \in PastHooks \/ <<"createContainer", c, c>> \in ran'
      BY <2>2, <3>3 DEF ChildHands
    <3>5. child[c] \in PastHooks => RunsHook("createContainer", c)
      BY DEF HandInv
    <3> QED  BY <1>1, <3>4, <3>5 DEF Phase, RunsHook
  <2>9. cmd[c] = "create" /\ report'[c] = "ok"
        => RunsHook("createContainer", c)'
    BY <1>1, <2>2 DEF ChildHands, HandInv, Phase, PastHooks
  <2>10. RunsHook("startContainer", c)' => RunsHook("prestart", c)'
    BY <1>1, <2>3 DEF HandInv, Phase, ChildPhase, StartBeforeRun
  <2>11. child'[c] # "none" => mem'[c].of = c
    <3>1. CASE child[c] # "none"
      <4>1. pc[c] \notin {"load", "check"}
        BY <2>4, <3>1 DEF Control, OtherPcs, PreFork
      <4> QED  BY <1>2, <3>1, <4>1, Describes DEF HandInv, Loads, Checks
    <3>2. CASE child[c] = "none" /\ child'[c] # "none"
      <4>1. pc[c] = "fork"
        BY <3>2 DEF HostMoves, ProcessMoves, Alive, ChildPcs, Outside, InJail,
                    Dead
      <4>2. mem[c].of = c
        BY <4>1 DEF Control, CreatePcs, Recorded
      <4> QED  BY <1>2, <4>1, <4>2, Describes DEF Loads, Checks
    <3> QED  BY <3>1, <3>2
  <2> QED  BY <2>1, <2>5, <2>6, <2>7, <2>8, <2>9, <2>10, <2>11
<1>3. ASSUME NEW p \in Proc, Begins(p) PROVE HandInv'
  <2>1. /\ pc[p] = "idle" /\ cmd[p] = "none" /\ report[p] = "none"
        /\ cmd' = [cmd EXCEPT ![p] = cmd'[p]]
        /\ UNCHANGED <<stateVars, child, go, report, ran>>
    BY <1>3 DEF Begins, Invoke, Control, WaitInv, hostVars
  <2>2. ASSUME NEW c \in Proc, ~IsExec(c)', go[c] PROVE ~IsExec(c)
    BY <2>1, <2>2 DEF IsExec
  <2>3. \A phase \in Phase, c \in Proc :
          RunsHook(phase, c)' <=> RunsHook(phase, c)
    BY <2>1 DEF RunsHook
  <2>4. \A c \in Proc : cmd'[c] = "create" /\ report[c] = "ok"
                         => cmd[c] = "create"
    BY <2>1
  <2> QED  BY <2>1, <2>2, <2>3, <2>4 DEF HandInv, stateVars, Phase
<1>4. CASE UNCHANGED vars
  BY <1>4 DEF vars, stateVars, hostVars, ctlVars, HandInv, IsExec, RunsHook
<1> QED  BY <1>2, <1>3, <1>4 DEF Kinds, HandInv

\* A create that unlinks the state directory has state.json ahead of it, as
\* long as that is there.
RemovingInv ==
  \A c \in Proc :
    cmd[c] = "create" /\ pc[c] = "unlink" /\ exists
      => "state.json" \in listing[c]

\* Every step preserves RemovingInv: nobody else makes a file.
LEMMA RemovingStep ==
  ASSUME ControlTypes, ControlTypes', Control, Roles, Serial, RemovingInv,
         listing \in [Proc -> SUBSET Name], Kinds
  PROVE  RemovingInv'
<1> USE RuntimeStateAssumption DEF ControlTypes, InFlight
<1>1. ASSUME NEW p \in Proc, Kind(p), NEW c \in Proc, cmd'[c] = "create",
             pc'[c] = "unlink", exists'
      PROVE  "state.json" \in listing'[c]
  <2>1. cmd[c] = "create" /\ InFlight(c)
    BY <1>1, KindFlight
  <2>2. CASE p # c
    <3>1. pc[p] \in {"idle", "done"}  BY <2>1, <2>2 DEF Serial
    <3>2. UNCHANGED record /\ pc'[c] = pc[c]
      BY <1>1, <2>2, <3>1 DEF Kind, Passes, Hooks, Opens, Locks, Loads,
           Truncates, Writes, Lists, Unlinks, Empties, Checks, MakesDir,
           OnlyMoves
    <3> QED  BY <1>1, <2>1, <3>2 DEF RemovingInv, record, exists
  <2>3. CASE p = c /\ Passes(p)
    BY <1>1, <2>1, <2>3 DEF Passes, Moves, CreateMoves, StartMoves,
         DeleteMoves, ExecMoves, record, RemovingInv, exists, IsDelete, IsExec
  <2>4. CASE p = c /\ Lists(p)
    BY <1>1, <2>4 DEF Lists, ListDir, exists, Entries, Name
  <2>5. CASE p = c /\ Unlinks(p)
    BY <1>1, <2>1, <2>5 DEF Unlinks, Unlink, exists, RemovingInv, NoFile
  <2>6. CASE p = c /\ ~Passes(p) /\ ~Lists(p) /\ ~Unlinks(p)
    BY <1>1, <2>1, <2>6 DEF Kind, Hooks, Opens, Locks, Loads, Truncates,
         Writes, Empties, Checks, MakesDir, AfterSave, IsDelete
  <2> QED  BY <2>2, <2>3, <2>4, <2>5, <2>6
<1>2. ASSUME NEW p \in Proc, Begins(p) PROVE RemovingInv'
  BY <1>2 DEF Begins, Invoke, RemovingInv, stateVars, dirVars, exists
<1>3. CASE UNCHANGED vars
  BY <1>3 DEF vars, stateVars, dirVars, ctlVars, RemovingInv, exists
<1> QED  BY <1>1, <1>2, <1>3 DEF Kinds, RemovingInv

\* If unmounting works, remove_all() can only throw in a create that has no
\* state.json: the root is one that an earlier create has left.
LEMMA CleanupGoes ==
  ASSUME Faults \cap {"unmount", "unmount_root"} = {}, Control, KnownForked,
         MakingInv, MountedInv, CleanedInv, NEW c \in Proc, cmd[c] = "create",
         InFlight(c), pc[c] = "unlink", Blocked
  PROVE  ~exists
<1>1. child[c] # "none" => c \notin mounted
  BY DEF CleanedInv, Cleaning
<1>2. fd[c] # NoProc => c \in mounted
  BY DEF MountedInv, Blocked
<1>3. fd[c] # NoProc /\ exists => child[c] # "none"
  BY DEF MakingInv, Makes, MadeBy, KnownForked
<1>4. fd[c] = NoProc => ~exists
  BY DEF MakingInv, Makes
<1> QED  BY <1>1, <1>2, <1>3, <1>4

\* A create that ends before its container process has run its createContainer
\* hooks leaves no record to load, and nobody has loaded one.
OrphanInv ==
  \A c \in Proc :
    /\ cmd[c] = "create" /\ pc[c] = "done" /\ ~RunsHook("createContainer", c)
       => /\ json.of # c
          /\ \A q \in Proc : Using(q) => mem[q].of # c
    /\ RunsHook("prestart", c) \/ Removed(c) => RunsHook("createContainer", c)

\* Every step preserves OrphanInv, unless it kills a create or lets it fail
\* while it cleans up.
LEMMA OrphanStep ==
  ASSUME Faults \cap {"crash", "unmount", "unmount_root"} = {},
         ControlTypes, ControlTypes', Control, KnownForked, Roles, Recorded,
         Serial, DeletedInv, FileInv, MakingInv, UsingInv, MountedInv,
         CleanedInv, HandInv, RemovingInv, OrphanInv, HandMoves, Kinds
  PROVE  OrphanInv'
<1> USE RuntimeStateAssumption DEF ControlTypes
<1>1. \A c \in Proc : RunsHook("createContainer", c)
                        => RunsHook("createContainer", c)'
  BY DEF HandMoves, ChildRuns, RunsHook
<1>2. ASSUME NEW p \in Proc, Kind(p), NEW c \in Proc,
             cmd'[c] = "create", pc'[c] = "done",
             ~RunsHook("createContainer", c)'
      PROVE  /\ json'.of # c
             /\ \A q \in Proc : Using(q)' => mem'[q].of # c
  <2>1. /\ cmd' = cmd /\ cmd[c] = "create" /\ OnlyMoves(p)
        /\ ~RunsHook("createContainer", c)
        /\ \A q \in Proc : Using(q)' => Using(q)
    BY <1>1, <1>2, KindFlight DEF Using
  <2>2. CASE pc[c] = "done"
    <3>1. json.of # c /\ \A q \in Proc : Using(q) => mem[q].of # c
      BY <2>1, <2>2 DEF OrphanInv
    <3>2. Writes(p) => mem[p].of # c
      <4>1. CASE cmd[p] = "create"
        BY <2>2, <4>1 DEF Writes, Recorded
      <4>2. CASE cmd[p] # "create"
        BY <3>1, <4>2 DEF Writes, Using, InFlight
      <4> QED  BY <4>1, <4>2
    <3>3. json'.of # c
      BY <1>2, <3>1, <3>2, Describes
    <3>4. ASSUME NEW q \in Proc, Using(q)' PROVE mem'[q].of # c
      BY <1>2, <2>1, <3>1, <3>4, Describes DEF Checks, Using
    <3> QED  BY <3>3, <3>4
  <2>3. CASE pc[c] # "done"
    <3>1. c = p  BY <1>2, <2>1, <2>3 DEF OnlyMoves
    <3>2. InFlight(c)  BY <2>1, <2>3 DEF InFlight, Control
    <3>3. \A q \in Proc : ~Using(q)
      BY <2>1, <3>2 DEF Serial, Using
    <3>4. EndsAt(c)  BY <1>2, <2>1 DEF HandMoves, Ends
    <3>5. ~exists => json.of # c  BY DEF FileInv, NoFile
    <3>6. json.of # c
      <4>1. CASE pc[c] \in PreFork
        BY <4>1 DEF Control, KnownForked
      <4>2. CASE pc[c] = "rm" /\ ~dir
        BY <3>5, <4>2 DEF FileInv
      <4>3. CASE pc[c] = "unlink" /\ listing[c] = {}
        BY <2>1, <3>5, <4>3 DEF RemovingInv
      <4>4. CASE pc[c] = "unlink" /\ Blocked
        BY <2>1, <3>2, <3>5, <4>4, CleanupGoes
      <4>5. ~(pc[c] = "await" /\ report[c] = "ok")
        BY <2>1 DEF HandInv
      <4> QED  BY <2>3, <3>4, <4>1, <4>2, <4>3, <4>4, <4>5 DEF EndsAt
    <3>7. ~Writes(p)
      BY <1>2, <2>1, <3>1 DEF Writes, AfterSave
    <3>8. json'.of # c  BY <1>2, <3>6, <3>7, Describes
    <3> QED  BY <2>1, <3>3, <3>8
  <2> QED  BY <2>2, <2>3
<1>3. ASSUME NEW p \in Proc, Kind(p), NEW c \in Proc,
             NEW phase \in {"prestart", "poststop"}, RunsHook(phase, c)'
      PROVE  RunsHook("createContainer", c)'
  <2>1. RunsHook(phase, c) \/ (pc[p] = phase /\ mem[p].of = c)
    BY <1>3, KindHooks
  <2>2. CASE RunsHook(phase, c)
    BY <1>1, <2>2 DEF OrphanInv, Removed
  <2>3. CASE pc[p] = phase /\ mem[p].of = c
    <3>1. Using(p)
      BY <2>3 DEF Using, InFlight, Control, OtherPcs
    <3>2. child[c] # "none"
      BY <2>3, <3>1 DEF KnownForked, Unforked, Using
    <3>3. cmd[c] = "create" /\ pc[c] # "idle"
      BY <3>2 DEF Control, PreFork
    <3>4. pc[c] = "done"
      BY <3>1, <3>3 DEF Serial, Using, InFlight
    <3> QED  BY <1>1, <2>3, <3>1, <3>3, <3>4 DEF OrphanInv
  <2> QED  BY <2>1, <2>2, <2>3
<1>4. ASSUME NEW p \in Proc, Begins(p) PROVE OrphanInv'
  <2>1. /\ pc[p] = "idle" /\ cmd[p] = "none" /\ mem[p].of = NoProc
        /\ cmd' = [cmd EXCEPT ![p] = cmd'[p]]
        /\ pc' = [pc EXCEPT ![p] = pc'[p]] /\ pc'[p] # "done"
        /\ UNCHANGED <<json, mem, ran>>
    BY <1>4 DEF Begins, Invoke, Control, DeletedInv, Unloaded, stateVars,
                dirVars
  <2>2. \A q \in Proc : Using(q)' => Using(q) \/ q = p
    BY <2>1 DEF Using, InFlight
  <2>3. \A c \in Proc, phase \in Phase :
          RunsHook(phase, c)' <=> RunsHook(phase, c)
    BY <2>1 DEF RunsHook
  <2> QED  BY <2>1, <2>2, <2>3 DEF OrphanInv, Removed, Phase
<1>5. CASE UNCHANGED vars
  BY <1>5 DEF vars, stateVars, dirVars, ctlVars, OrphanInv, Using, InFlight,
              RunsHook, Removed
<1>6. ASSUME NEW p \in Proc, Kind(p) PROVE OrphanInv'
  <2>1. \A c \in Proc : RunsHook("prestart", c)' \/ Removed(c)'
                          => RunsHook("createContainer", c)'
    BY <1>3, <1>6 DEF Removed
  <2>2. ASSUME NEW c \in Proc, cmd'[c] = "create", pc'[c] = "done",
               ~RunsHook("createContainer", c)'
        PROVE  /\ json'.of # c
               /\ \A q \in Proc : Using(q)' => mem'[q].of # c
    BY <1>2, <1>6, <2>2
  <2> QED  BY <2>1, <2>2 DEF OrphanInv
<1> QED  BY <1>4, <1>5, <1>6 DEF Kinds

-----------------------------------------------------------------------------
(* The theorem about the hooks.                                            *)

\* What holds of every instance in which nothing overlaps with a create.
OutcomeInv ==
  ContainerInv /\ JailInv /\ CleanedInv /\ MarkInv /\ HandInv /\ RemovingInv

\* It is an invariant of all of them.
LEMMA OutcomeInvariant ==
  ASSUME Overlap = {}
  PROVE  Spec => []OutcomeInv
<1> USE RuntimeStateAssumption
<1>1. Init => JailInv /\ CleanedInv /\ MarkInv /\ HandInv /\ RemovingInv
  BY DEF Init, StateInit, HostInit, CommandsInit, JailInv, CleanedInv,
         Cleaning, MarkInv, CleanUp, RunsHook, HandInv, RemovingInv, PastHooks,
         Started, InJail, XInJail
<1>2. OutcomeInv /\ ContainerInv' /\ [Next]_vars => OutcomeInv'
  <2> SUFFICES ASSUME OutcomeInv, ContainerInv', [Next]_vars
               PROVE  OutcomeInv'
    OBVIOUS
  <2> USE DEF OutcomeInv, ContainerInv, OnlyOnceInv, LockingInv
  <2>1. Kinds  BY StepKinds DEF TypeOK
  <2>2. HostMoves  BY HostSteps DEF TypeOK
  <2>3. HandMoves  BY HandSteps DEF TypeOK
  <2>4. JailInv' /\ CleanedInv'  BY JailStep, CleanedStep DEF TypeOK
  <2>5. MarkInv'  BY <2>1, MarkStep
  <2>6. HandInv'  BY <2>1, <2>2, <2>3, HandStep
  <2>7. RemovingInv'  BY <2>1, RemovingStep DEF StateTypeOK
  <2> QED  BY <2>4, <2>5, <2>6, <2>7
<1> QED  BY <1>1, <1>2, ContainerInvariant, PTL DEF Spec, OutcomeInv

\* HookOrder holds of every instance in which nothing overlaps with a create
\* and neither a killed command nor a volume that cannot be unmounted leaves
\* a half made container behind: the hooks of a container run in the order of
\* their phases, also when some of them cannot be executed.
THEOREM HookOrderAlways ==
  ASSUME Overlap = {}, Faults \cap {"crash", "unmount", "unmount_root"} = {}
  PROVE  Spec => []HookOrder
<1> USE RuntimeStateAssumption
<1>1. Init => OrphanInv
  BY DEF Init, StateInit, HostInit, CommandsInit, OrphanInv, RunsHook, Removed
<1>2. OutcomeInv /\ OrphanInv /\ [Next]_vars /\ OutcomeInv' => OrphanInv'
  <2> SUFFICES ASSUME OutcomeInv, OrphanInv, [Next]_vars, OutcomeInv'
               PROVE  OrphanInv'
    OBVIOUS
  <2> USE DEF OutcomeInv, ContainerInv, OnlyOnceInv, LockingInv
  <2>1. Kinds  BY StepKinds DEF TypeOK
  <2>2. HandMoves  BY HandSteps DEF TypeOK
  <2> QED  BY <2>1, <2>2, OrphanStep
<1>3. OutcomeInv /\ OrphanInv => HookOrder
  BY DEF OutcomeInv, HandInv, OrphanInv, HookOrder, Removed
<1> QED  BY <1>1, <1>2, <1>3, OutcomeInvariant, PTL DEF Spec

-----------------------------------------------------------------------------
(* The byte of start.                                                      *)

\* A create that has ended has been told of the success of its child, or it
\* has had no child, or it has removed the jail.
ToldInv ==
  \A c \in Proc :
    cmd[c] = "create" /\ pc[c] = "done" =>
      report[c] = "ok" \/ child[c] = "none" \/ jail # c

\* Every step preserves ToldInv, unless it kills a create.
LEMMA ToldStep ==
  ASSUME "crash" \notin Faults, ControlTypes, ControlTypes', Control,
         CleanedInv, ToldInv, HandMoves, HostMoves, Kinds
  PROVE  ToldInv'
<1> USE RuntimeStateAssumption DEF ControlTypes
<1>1. ASSUME NEW p \in Proc, Kind(p), NEW c \in Proc,
             cmd'[c] = "create", pc'[c] = "done"
      PROVE  report'[c] = "ok" \/ child'[c] = "none" \/ jail' # c
  <2>1. cmd[c] = "create"  BY <1>1, KindFlight
  <2>2. report[c] = "ok" => report'[c] = "ok"
    BY <2>1 DEF HandMoves, ChildHands
  <2>3. child[c] = "none" => child'[c] = "none"
    <3>1. Alive(c)' => Alive(c)
      BY <1>1 DEF HostMoves, ProcessMoves
    <3>2. child[c] = "none" => child'[c] \notin Dead
      BY DEF HostMoves, ProcessMoves
    <3>3. child[c] = "none" => child'[c] # "unborn"
      BY <1>1 DEF HostMoves, ProcessMoves
    <3> QED  BY <3>1, <3>2, <3>3 DEF Alive, ChildPcs, Outside, InJail
  <2>4. jail # c /\ pc[c] # "jail" => jail' # c
    BY DEF Kinds, Lasting
  <2>5. CASE pc[c] = "done"
    BY <2>1, <2>2, <2>3, <2>4, <2>5 DEF ToldInv
  <2>6. CASE pc[c] # "done"
    <3>1. EndsAt(c)  BY <1>1, <2>1 DEF HandMoves, Ends
    <3>2. CASE pc[c] \in PreFork
      BY <2>3, <3>2 DEF Control
    <3>3. CASE pc[c] = "await" /\ report[c] = "ok"
      BY <2>2, <3>3
    <3>4. CASE pc[c] \in {"rm", "unlink", "unmount"}
      <4>1. child[c] = "none" \/ Cleaning(c)
        BY <2>1, <3>4 DEF Cleaning
      <4>2. child[c] = "none" \/ jail # c
        BY <4>1 DEF CleanedInv
      <4> QED  BY <2>3, <2>4, <3>4, <4>2
    <3> QED  BY <2>6, <3>1, <3>2, <3>3, <3>4 DEF EndsAt
  <2> QED  BY <2>5, <2>6
<1>2. ASSUME NEW p \in Proc, Begins(p) PROVE ToldInv'
  <2>1. /\ cmd' = [cmd EXCEPT ![p] = cmd'[p]]
        /\ pc' = [pc EXCEPT ![p] = pc'[p]] /\ pc'[p] # "done"
        /\ UNCHANGED <<report, child, jail>>
    BY <1>2 DEF Begins, Invoke, hostVars
  <2> QED  BY <2>1 DEF ToldInv
<1>3. CASE UNCHANGED vars
  BY <1>3 DEF vars, hostVars, ctlVars, ToldInv
<1> QED  BY <1>1, <1>2, <1>3 DEF Kinds, ToldInv

\* Start q has written its byte, and nobody but the container process has
\* read it, or can read it.
Delivers(q) ==
  /\ cmd[q] = "start"
  /\ pc[q] \in {"close_fifo", "poststart", "return"} \/ Returned(q)
DeliveredInv ==
  \A q \in Proc : Delivers(q) =>
    /\ mem[q].of \in Proc /\ RunsHook("prestart", mem[q].of)
    /\ child[mem[q].of] = "wait_start" => q \in fifo[mem[q].of]

\* A container that has been started no longer has to report.
LEMMA StartedReported ==
  ASSUME Control, JailInv, WaitInv, MakingInv, ToldInv,
         NEW c \in Proc, RunsHook("prestart", c)
  PROVE  child[c] # "valid"
<1> SUFFICES ASSUME child[c] = "valid" PROVE FALSE
  OBVIOUS
<1>1. cmd[c] = "create" /\ pc[c] # "idle" /\ jail = c
  BY DEF Control, JailInv, InJail, PreFork
<1>2. report[c] # "ok"
  BY <1>1 DEF WaitInv, Reported, Dead
<1>3. pc[c] # "done"  BY <1>1, <1>2 DEF ToldInv
<1> QED  BY <1>1, <1>3 DEF MakingInv, Makes, InFlight

\* The byte stays in the FIFO for as long as the container process waits.
LEMMA ByteStays ==
  ASSUME WaitInv, WaitInv', NEW c \in Proc, Bytes(c),
         child[c] = "wait_start", child'[c] = "wait_start"
  PROVE  fifo[c] \subseteq fifo'[c]
<1>1. fifoFd'[c] = c  BY DEF WaitInv, AtFifo
<1>2. \A r \in Proc : child[r] = "wait_start" => fifoFd[r] = r
  BY DEF WaitInv, AtFifo
<1> QED  BY <1>1, <1>2 DEF Bytes

\* Every step preserves DeliveredInv.
LEMMA DeliveredStep ==
  ASSUME ControlTypes, ControlTypes', Control, JailInv, WaitInv, WaitInv',
         MakingInv, ByteInv, ToldInv, DeliveredInv, HandMoves, Kinds
  PROVE  DeliveredInv'
<1> USE RuntimeStateAssumption DEF ControlTypes
<1>1. ASSUME NEW p \in Proc, Kind(p), NEW q \in Proc, Delivers(q)'
      PROVE  /\ mem'[q].of \in Proc /\ RunsHook("prestart", mem[q].of)'
             /\ child'[mem'[q].of] = "wait_start" => q \in fifo'[mem'[q].of]
  <2>1. cmd' = cmd /\ cmd[q] = "start" /\ OnlyMoves(p)
    BY <1>1, KindFlight DEF Delivers
  <2>2. CASE Delivers(q)
    <3>1. mem'[q].of = mem[q].of
      BY <1>1, <2>2, Describes DEF Delivers, Returned, Loads, Checks
    <3>2. PICK c \in Proc : c = mem[q].of
      BY <2>2 DEF DeliveredInv
    <3>3. /\ RunsHook("prestart", c)
          /\ child[c] = "wait_start" => q \in fifo[c]
      BY <2>2, <3>2 DEF DeliveredInv
    <3>4. RunsHook("prestart", c)'
      BY <1>1, <3>3, KindHooks DEF RunsHook
    <3>5. child'[c] = "wait_start" => child[c] = "wait_start"
      BY <3>3, StartedReported DEF HandMoves, ChildHands
    <3>6. child'[c] = "wait_start" => q \in fifo'[c]
      BY <3>3, <3>5, ByteStays DEF HandMoves
    <3> QED  BY <3>1, <3>2, <3>4, <3>6
  <2>3. CASE ~Delivers(q)
    <3>1. ~Returned(q)'
      BY <2>1, <2>3 DEF Delivers, HandMoves, Ends
    <3>2. /\ pc'[q] \in {"close_fifo", "poststart", "return"}
          /\ pc[q] \notin {"close_fifo", "poststart", "return"}
      BY <1>1, <2>1, <2>3, <3>1 DEF Delivers
    <3>3. q = p  BY <2>1, <3>2 DEF OnlyMoves
    <3>4. pc'[q] = "close_fifo"
      BY <1>1, <2>1, <3>2, <3>3
         DEF Kind, Passes, Hooks, Opens, Locks, Loads, Truncates, Writes,
             Lists, Unlinks, Empties, Checks, MakesDir, Moves, StartMoves,
             AfterSave, IsDelete, IsExec
    <3>5. /\ pc[q] = "write_fifo" /\ q \in fifo'[fifoFd[q]]
          /\ child' = child
      BY <3>2, <3>4 DEF HandMoves, Bytes
    <3>6. /\ fifoFd[q] = mem[q].of /\ fifoFd[q] # NoProc
          /\ RunsHook("prestart", mem[q].of)
      BY <2>1, <3>5 DEF ByteInv, StartPcs
    <3>7. mem[q].of \in Proc
      BY <3>6 DEF MemType, ProcOrNone
    <3>8. mem'[q].of = mem[q].of
      BY <1>1, <3>5, Describes DEF Loads, Checks
    <3>9. PICK c \in Proc : c = mem[q].of  BY <3>7
    <3>10. RunsHook("prestart", c)'
      BY <1>1, <3>6, <3>9, KindHooks DEF RunsHook
    <3> QED  BY <3>5, <3>6, <3>8, <3>9, <3>10
  <2> QED  BY <2>2, <2>3
<1>2. ASSUME NEW p \in Proc, Begins(p) PROVE DeliveredInv'
  <2>1. /\ cmd' = [cmd EXCEPT ![p] = cmd'[p]] /\ out' = out
        /\ pc' = [pc EXCEPT ![p] = pc'[p]]
        /\ pc'[p] \in {"check", "exists", "open"}
        /\ UNCHANGED <<mem, ran, child, fifo>>
    BY <1>2 DEF Begins, Invoke, hostVars, stateVars
  <2>2. \A q \in Proc : Delivers(q)' => Delivers(q)
    BY <2>1 DEF Delivers, Returned
  <2> QED  BY <2>1, <2>2 DEF DeliveredInv, RunsHook
<1>3. CASE UNCHANGED vars
  BY <1>3 DEF vars, hostVars, stateVars, ctlVars, DeliveredInv, Delivers,
              Returned, RunsHook
<1> QED  BY <1>1, <1>2, <1>3 DEF Kinds, DeliveredInv

\* NoLostStart holds of every instance in which nothing overlaps with a
\* create and no command is killed: the byte of a start that has returned
\* success is in the FIFO of the container process until that has read it.
THEOREM NoLostStartAlways ==
  ASSUME Overlap = {}, "crash" \notin Faults
  PROVE  Spec => []NoLostStart
<1> USE RuntimeStateAssumption
<1>1. Init => ToldInv /\ DeliveredInv
  BY DEF Init, StateInit, HostInit, CommandsInit, ToldInv, DeliveredInv,
         Delivers, Returned
<1>2. OutcomeInv /\ ToldInv /\ DeliveredInv /\ [Next]_vars /\ OutcomeInv'
      => ToldInv' /\ DeliveredInv'
  <2> SUFFICES ASSUME OutcomeInv, ToldInv, DeliveredInv, [Next]_vars,
                      OutcomeInv'
               PROVE  ToldInv' /\ DeliveredInv'
    OBVIOUS
  <2> USE DEF OutcomeInv, ContainerInv, OnlyOnceInv, LockingInv
  <2>1. Kinds  BY StepKinds DEF TypeOK
  <2>2. HandMoves /\ HostMoves  BY HandSteps, HostSteps DEF TypeOK
  <2> QED  BY <2>1, <2>2, ToldStep, DeliveredStep
<1>3. OutcomeInv /\ DeliveredInv => NoLostStart
  <2> SUFFICES ASSUME OutcomeInv, DeliveredInv, NEW q \in Proc,
                      cmd[q] = "start", Returned(q),
                      child[mem[q].of] = "wait_start"
               PROVE  fifo[fifoFd[mem[q].of]] # {}
    BY DEF NoLostStart
  <2>1. mem[q].of \in Proc /\ q \in fifo[mem[q].of]
    BY DEF DeliveredInv, Delivers
  <2>2. fifoFd[mem[q].of] = mem[q].of
    BY <2>1 DEF OutcomeInv, ContainerInv, OnlyOnceInv, LockingInv, WaitInv,
                AtFifo
  <2> QED  BY <2>1, <2>2
<1> QED  BY <1>1, <1>2, <1>3, OutcomeInvariant, PTL DEF Spec

-----------------------------------------------------------------------------
(* The parts of a container.                                               *)

\* No system call fails that makes or removes a part of a container, and no
\* command is killed.
MildFaults == {"config", "validate", "pre_start"}

\* What keeps a command from ending with a part made or half removed.
StopMoves(c) ==
  pc'[c] = "done" =>
    /\ pc[c] \notin {"fork", "unmount", "poststop", "write"}
    /\ pc[c] = "jail" => jail # NoProc
    /\ pc[c] = "mkfifo" => ~dir \/ fifoFile # NoProc

\* An exec has a process that is not in the jail yet only as long as it is in
\* flight and has not been told how that process fares.
OutsideMoves(p) ==
  /\ xchild'[p] \in XOutside =>
       /\ \/ xchild[p] \in XOutside
          \/ xchild[p] = "none" /\ IsExec(p) /\ InFlight(p)'
       /\ InFlight(p) => InFlight(p)' \/ report[p] # "none"
       /\ report'[p] = report[p]
  /\ IsExec(p) /\ xchild'[p] = "none" =>
       xchild[p] = "none" /\ report'[p] = report[p]

PlaceMoves ==
  /\ \A c \in Proc :
       /\ StopMoves(c) /\ OutsideMoves(c)
       /\ c \in mounted' =>
            c \in mounted \/ (pc[c] = "mount" /\ pc'[c] = "jail")
       /\ pc[c] = "unmount" /\ pc'[c] # "unmount" => mem[c].of \notin mounted'
       /\ pc[c] = "jail" /\ pc'[c] = "mkfifo" => jail' = c
  /\ \/ jail' = jail
     \/ jail = NoProc /\ \E c \in Proc : /\ pc[c] = "jail" /\ jail' = c
                                         /\ pc'[c] = "mkfifo"
     \/ /\ jail' = NoProc
        /\ \E p \in Proc : /\ pc[p] = "remove_jail" /\ pc'[p] = "unmount"
                           /\ jail = mem[p].of
  /\ \/ fifoFile' = fifoFile
     \/ \E c \in Proc : /\ pc[c] = "mkfifo" /\ pc'[c] = "fork"
                        /\ fifoFile' = c /\ dir'
     \/ fifoFile' = NoProc /\ \E p \in Proc : pc[p] = "unlink"

\* A step that leaves all this alone.
PlaceQuiet ==
  /\ UNCHANGED <<jail, mounted, fifoFile>>
  /\ \A c \in Proc : /\ StopMoves(c) /\ OutsideMoves(c)
                     /\ pc[c] = "unmount" => pc'[c] = "unmount"
                     /\ pc[c] = "jail" => pc'[c] # "mkfifo"

\* Such a step is one of PlaceMoves.
LEMMA PlaceQuieted ==
  ASSUME PlaceQuiet
  PROVE  PlaceMoves
BY DEF PlaceQuiet, PlaceMoves

\* And so is every other.
LEMMA PlaceSteps ==
  ASSUME Faults \subseteq MildFaults,
         ControlTypes, Control, HostTypeOK, CommandsTypeOK, Roles, [Next]_vars
  PROVE  PlaceMoves
<1> USE RuntimeStateAssumption DEF ControlTypes, CommandsTypeOK, HostTypeOK,
     Control, CreatePcs, OtherPcs, ExecPcs, IsDelete, IsExec, InFlight,
     MildFaults, PlaceQuiet, StopMoves, OutsideMoves, XOutside, XInJail,
     Preparing, Goto, Throw, Leave, End, ReleaseLock, hostVars, stateVars,
     dirVars, ctlVars, pipeVars, ChildGoto, XGoto, XThrow, Detached
<1>1. ASSUME NEW p \in Proc, CommonStep(p) PROVE PlaceMoves
  <2>1. CASE Open(p)
    <3>1. PlaceQuiet
      BY <2>1 DEF Open, OpenLock
    <3> QED  BY <3>1, PlaceQuieted
  <2>2. CASE Flock(p)
    <3>1. PlaceQuiet
      BY <2>2 DEF Flock, TakeLock
    <3> QED  BY <3>1, PlaceQuieted
  <2>3. CASE LoadFails(p)
    <3>1. PlaceQuiet
      BY <2>3 DEF LoadFails
    <3> QED  BY <3>1, PlaceQuieted
  <2>4. CASE SaveBegin(p)
    <3>1. PlaceQuiet
      BY <2>4 DEF SaveBegin, Truncate
    <3> QED  BY <3>1, PlaceQuieted
  <2>5. CASE SaveEnd(p)
    <3>1. PlaceQuiet
      BY <2>5 DEF SaveEnd, Write, AfterSave
    <3> QED  BY <3>1, PlaceQuieted
  <2>6. CASE RemoveJail(p)
    BY <2>6, SMTT(30) DEF RemoveJail, jail_remove, PlaceMoves
  <2>7. CASE Unmount(p)
    BY <2>7, SMTT(30) DEF Unmount, unmount_volumes, unmount_volumes_fails,
        PlaceMoves
  <2>8. CASE RemoveBegin(p)
    <3>1. PlaceQuiet
      BY <2>8 DEF RemoveBegin, ListDir, AfterRemove
    <3> QED  BY <3>1, PlaceQuieted
  <2>9. CASE RemoveNext(p)
    BY <2>9, SMTT(30) DEF RemoveNext, Unlink, PlaceMoves
  <2>10. CASE RemoveEnd(p)
    <3>1. PlaceQuiet
      BY <2>10 DEF RemoveEnd, RemoveDir, AfterRemove
    <3> QED  BY <3>1, PlaceQuieted
  <2>11. CASE Return(p)
    <3>1. PlaceQuiet
      BY <2>11 DEF Return
    <3> QED  BY <3>1, PlaceQuieted
  <2>12. CASE RemoveThrows(p)
    <3>1. PlaceQuiet
      BY <2>12 DEF RemoveThrows
    <3> QED  BY <3>1, PlaceQuieted
  <2> QED BY <1>1, <2>1, <2>2, <2>3, <2>4, <2>5, <2>6, <2>7, <2>8, <2>9,
      <2>10, <2>11, <2>12 DEF CommonStep
<1>2. ASSUME NEW p \in Proc, CreateStep(p) PROVE PlaceMoves
  <2>1. CASE CreateCheck(p)
    <3>1. PlaceQuiet
      BY <2>1 DEF CreateCheck, SetStatus
    <3> QED  BY <3>1, PlaceQuieted
  <2>2. CASE CreateDirectory(p)
    <3>1. PlaceQuiet
      BY <2>2 DEF CreateDirectory, create_directories
    <3> QED  BY <3>1, PlaceQuieted
  <2>3. CASE CreateMount(p)
    BY <2>3, SMTT(30) DEF CreateMount, mount_volumes, mount_volumes_fails,
        PlaceMoves
  <2>4. CASE CreateJail(p)
    BY <2>4, SMTT(30) DEF CreateJail, jail_create, PlaceMoves
  <2>5. CASE CreateFifo(p)
    BY <2>5, SMTT(30) DEF CreateFifo, mkfifo, PlaceMoves
  <2>6. CASE Fork(p)
    <3>1. PlaceQuiet
      BY <2>6 DEF Fork
    <3> QED  BY <3>1, PlaceQuieted
  <2>7. CASE CreateRuntime(p)
    <3>1. PlaceQuiet
      BY <2>7 DEF CreateRuntime, RunHooks
    <3> QED  BY <3>1, PlaceQuieted
  <2>8. CASE CreateUnlock(p)
    <3>1. PlaceQuiet
      BY <2>8 DEF CreateUnlock
    <3> QED  BY <3>1, PlaceQuieted
  <2>9. CASE CreateSignal(p)
    <3>1. PlaceQuiet
      BY <2>9 DEF CreateSignal
    <3> QED  BY <3>1, PlaceQuieted
  <2>10. CASE CreateAwait(p)
    <3>1. PlaceQuiet
      BY <2>10 DEF CreateAwait
    <3> QED  BY <3>1, PlaceQuieted
  <2> QED BY <1>2, <2>1, <2>2, <2>3, <2>4, <2>5, <2>6, <2>7, <2>8, <2>9,
      <2>10 DEF CreateStep
<1>3. ASSUME NEW p \in Proc, StartStep(p) PROVE PlaceMoves
  <2>1. CASE StartLoad(p)
    <3>1. PlaceQuiet
      BY <2>1 DEF StartLoad, SetStatus
    <3> QED  BY <3>1, PlaceQuieted
  <2>2. CASE StartPrestart(p)
    <3>1. PlaceQuiet
      BY <2>2 DEF StartPrestart, RunHooks
    <3> QED  BY <3>1, PlaceQuieted
  <2>3. CASE StartOpenFifo(p)
    <3>1. PlaceQuiet
      BY <2>3 DEF StartOpenFifo, OpenFifo
    <3> QED  BY <3>1, PlaceQuieted
  <2>4. CASE StartWriteFifo(p)
    <3>1. PlaceQuiet
      BY <2>4 DEF StartWriteFifo
    <3> QED  BY <3>1, PlaceQuieted
  <2>5. CASE StartCloseFifo(p)
    <3>1. PlaceQuiet
      BY <2>5 DEF StartCloseFifo, CloseFifo
    <3> QED  BY <3>1, PlaceQuieted
  <2>6. CASE StartPoststart(p)
    <3>1. PlaceQuiet
      BY <2>6 DEF StartPoststart, RunHooks
    <3> QED  BY <3>1, PlaceQuieted
  <2> QED BY <1>3, <2>1, <2>2, <2>3, <2>4, <2>5, <2>6 DEF StartStep
<1>4. ASSUME NEW p \in Proc, InspectStep(p) PROVE PlaceMoves
  <2>1. CASE ListExists(p)
    <3>1. PlaceQuiet
      BY <2>1 DEF ListExists
    <3> QED  BY <3>1, PlaceQuieted
  <2>2. CASE InspectLoad(p)
    <3>1. PlaceQuiet
      BY <2>2 DEF InspectLoad, LoadAndCheck, SetStatus, AfterSave
    <3> QED  BY <3>1, PlaceQuieted
  <2>3. CASE KillLoad(p)
    <3>1. PlaceQuiet
      BY <2>3 DEF KillLoad, LoadThen, load, SetStatus
    <3> QED  BY <3>1, PlaceQuieted
  <2>4. CASE KillSend(p)
    <3>1. PlaceQuiet
      BY <2>4 DEF KillSend, Kill, KillProcess, ChildExit, CloseFifo
    <3> QED  BY <3>1, PlaceQuieted
  <2> QED BY <1>4, <2>1, <2>2, <2>3, <2>4 DEF InspectStep
<1>5. ASSUME NEW p \in Proc, DeleteStep(p) PROVE PlaceMoves
  <2>1. CASE DeleteExists(p)
    <3>1. PlaceQuiet
      BY <2>1 DEF DeleteExists
    <3> QED  BY <3>1, PlaceQuieted
  <2>2. CASE DeleteLoad(p)
    <3>1. PlaceQuiet
      BY <2>2 DEF DeleteLoad, LoadAndCheck, SetStatus, AfterSave
    <3> QED  BY <3>1, PlaceQuieted
  <2>3. CASE DeleteDecide(p)
    <3>1. PlaceQuiet
      BY <2>3 DEF DeleteDecide, Kill, KillProcess, ChildExit, CloseFifo
    <3> QED  BY <3>1, PlaceQuieted
  <2>4. CASE DeletePoststop(p)
    <3>1. PlaceQuiet
      BY <2>4 DEF DeletePoststop, RunHooks
    <3> QED  BY <3>1, PlaceQuieted
  <2> QED BY <1>5, <2>1, <2>2, <2>3, <2>4 DEF DeleteStep
<1>6. ASSUME NEW p \in Proc, ChildStep(p) PROVE PlaceMoves
  <2>1. CASE ChildPreStart(p)
    <3>1. PlaceQuiet
      BY <2>1 DEF ChildPreStart, ChildThrow, ChildExit, CloseFifo
    <3> QED  BY <3>1, PlaceQuieted
  <2>2. CASE ChildOpenFifo(p)
    <3>1. PlaceQuiet
      BY <2>2 DEF ChildOpenFifo, ChildThrow, ChildExit, CloseFifo, OpenFifo
    <3> QED  BY <3>1, PlaceQuieted
  <2>3. CASE ChildWaitParent(p)
    <3>1. PlaceQuiet
      BY <2>3 DEF ChildWaitParent
    <3> QED  BY <3>1, PlaceQuieted
  <2>4. CASE ChildHooks(p)
    <3>1. PlaceQuiet
      BY <2>4 DEF ChildHooks, FirstReport
    <3> QED  BY <3>1, PlaceQuieted
  <2>5. CASE ChildAttach(p)
    <3>1. PlaceQuiet
      BY <2>5 DEF ChildAttach
    <3> QED  BY <3>1, PlaceQuieted
  <2>6. CASE ChildValidate(p)
    <3>1. PlaceQuiet
      BY <2>6 DEF ChildValidate
    <3> QED  BY <3>1, PlaceQuieted
  <2>7. CASE ChildReport(p)
    <3>1. PlaceQuiet
      BY <2>7 DEF ChildReport, FirstReport, ChildExit, CloseFifo
    <3> QED  BY <3>1, PlaceQuieted
  <2>8. CASE ChildWaitStart(p)
    <3>1. PlaceQuiet
      BY <2>8 DEF ChildWaitStart
    <3> QED  BY <3>1, PlaceQuieted
  <2>9. CASE ChildStartHooks(p)
    <3>1. PlaceQuiet
      BY <2>9 DEF ChildStartHooks, RunHooks
    <3> QED  BY <3>1, PlaceQuieted
  <2>10. CASE ChildExec(p)
    <3>1. PlaceQuiet
      BY <2>10 DEF ChildExec
    <3> QED  BY <3>1, PlaceQuieted
  <2> QED BY <1>6, <2>1, <2>2, <2>3, <2>4, <2>5, <2>6, <2>7, <2>8, <2>9,
      <2>10 DEF ChildStep
<1>7. ASSUME NEW p \in Proc, ExecStep(p) PROVE PlaceMoves
  <2>1. CASE ExecLoad(p)
    <3>1. PlaceQuiet
      BY <2>1 DEF ExecLoad, LoadThen, load, SetStatus
    <3> QED  BY <3>1, PlaceQuieted
  <2>2. CASE ExecFork(p)
    BY <2>2, SMTT(30) DEF ExecFork, PlaceMoves
  <2>3. CASE ExecSignal(p)
    <3>1. PlaceQuiet
      BY <2>3 DEF ExecSignal
    <3> QED  BY <3>1, PlaceQuieted
  <2>4. CASE ExecAwait(p)
    <3>1. PlaceQuiet
      BY <2>4 DEF ExecAwait
    <3> QED  BY <3>1, PlaceQuieted
  <2>5. CASE ExecKilled(p)
    <3>1. PlaceQuiet
      BY <2>5 DEF ExecKilled
    <3> QED  BY <3>1, PlaceQuieted
  <2> QED BY <1>7, <2>1, <2>2, <2>3, <2>4, <2>5 DEF ExecStep
<1>8. ASSUME NEW p \in Proc, XStep(p) PROVE PlaceMoves
  <2>1. CASE XPreStart(p)
    <3>1. PlaceQuiet
      BY <2>1 DEF XPreStart
    <3> QED  BY <3>1, PlaceQuieted
  <2>2. CASE XWaitParent(p)
    <3>1. PlaceQuiet
      BY <2>2 DEF XWaitParent
    <3> QED  BY <3>1, PlaceQuieted
  <2>3. CASE XAttach(p)
    <3>1. PlaceQuiet
      BY <2>3 DEF XAttach
    <3> QED  BY <3>1, PlaceQuieted
  <2>4. CASE XValidate(p)
    <3>1. PlaceQuiet
      BY <2>4 DEF XValidate
    <3> QED  BY <3>1, PlaceQuieted
  <2>5. CASE XReport(p)
    <3>1. PlaceQuiet
      BY <2>5 DEF XReport, FirstReport
    <3> QED  BY <3>1, PlaceQuieted
  <2>6. CASE XExec(p)
    <3>1. PlaceQuiet
      BY <2>6 DEF XExec
    <3> QED  BY <3>1, PlaceQuieted
  <2> QED BY <1>8, <2>1, <2>2, <2>3, <2>4, <2>5, <2>6 DEF XStep
<1>9. ASSUME NEW p \in Proc, NEW c \in Cmds, Invoke(p, c) PROVE PlaceMoves
  <2>1. PlaceQuiet  BY <1>9 DEF Invoke
  <2> QED  BY <2>1, PlaceQuieted
<1>10. ASSUME NEW p \in Proc PROVE ~Crash(p)
  BY DEF Crash
<1>11. ASSUME NEW p \in Proc, ProcessExit(p) PROVE PlaceMoves
  <2>1. PlaceQuiet  BY <1>11 DEF ProcessExit, ChildExit, CloseFifo
  <2> QED  BY <2>1, PlaceQuieted
<1>12. ASSUME NEW p \in Proc, XExit(p) PROVE PlaceMoves
  <2>1. PlaceQuiet  BY <1>12 DEF XExit
  <2> QED  BY <2>1, PlaceQuieted
<1>13. ASSUME NEW p \in Proc, Reap(p) PROVE PlaceMoves
  <2>1. PlaceQuiet  BY <1>13 DEF Reap
  <2> QED  BY <2>1, PlaceQuieted
<1>14. CASE UNCHANGED vars
  <2>1. PlaceQuiet  BY <1>14 DEF vars
  <2> QED  BY <2>1, PlaceQuieted
<1> QED  BY <1>1, <1>2, <1>3, <1>4, <1>5, <1>6, <1>7, <1>8, <1>9, <1>10,
       <1>11, <1>12, <1>13, <1>14 DEF Next, Step

\* A container that create has recorded and no delete has got to remove.
Standing(c) == Original /\ json.ino = c /\ ~Removed(c)

\* The steps at which a create has a jail.
JailedPcs == {"mkfifo", "fork", "save", "write", "createRuntime", "unlock",
              "signal", "await", "remove_jail"}

\* The FIFO is in the directory; the stream of a save() is open in it only.
DirInv == fifoFile # NoProc => dir
StreamInv == \A p \in Proc : mem[p].out # NoProc => pc[p] = "write"

\* What a create that is under way has made.
PartsInv ==
  \A c \in Proc : cmd[c] = "create" =>
    /\ pc[c] = "check" => json.ino # c
    /\ pc[c] \in {"mkdir", "open", "flock", "mount", "jail", "mkfifo"}
       => fifoFile = NoProc
    /\ pc[c] \in {"flock", "mount", "jail", "unmount"} \cup JailedPcs
       => lockFile # NoProc
    /\ pc[c] \in JailedPcs => jail = c
    /\ pc[c] \in JailedPcs \ {"mkfifo"} => fifoFile = c

\* What it leaves behind when it succeeds, until a delete takes it away.
StandInv ==
  \A c \in Proc : Standing(c) /\ pc[c] = "done" =>
    /\ lockFile # NoProc /\ fifoFile = c
    /\ \/ jail = c
       \/ \E q \in Proc : /\ IsDelete(q) /\ mem[q].of = c
                          /\ pc[q] \in {"unmount", "poststop"}

\* Whose the jail and the volumes are.
OwnedInv ==
  /\ jail \in Proc =>
       \/ cmd[jail] = "create" /\ pc[jail] \in JailedPcs
       \/ pc[jail] = "done" /\ Standing(jail)
  /\ \A c \in mounted :
       \/ cmd[c] = "create" /\ pc[c] \in {"jail", "unmount"} \cup JailedPcs
       \/ pc[c] = "done" /\ Standing(c)

\* The process of an exec is outside the jail only while the exec waits.
OutsideInv ==
  \A p \in Proc :
    /\ xchild[p] \in XOutside => InFlight(p) /\ report[p] = "none"
    /\ IsExec(p) /\ xchild[p] = "none" => report[p] = "none"

PlaceInv ==
  DirInv /\ StreamInv /\ PartsInv /\ StandInv /\ OwnedInv /\ OutsideInv

\* A new command changes none of it.
LEMMA PlaceBegins ==
  ASSUME ControlTypes, ControlTypes', Control, FileInv, WaitInv, PlaceInv,
         NEW p \in Proc, Begins(p)
  PROVE  PlaceInv'
<1> USE RuntimeStateAssumption DEF ControlTypes, PlaceInv
<1>1. /\ pc[p] = "idle" /\ cmd[p] = "none" /\ report[p] = "none"
      /\ cmd' = [cmd EXCEPT ![p] = cmd'[p]]
      /\ pc' = [pc EXCEPT ![p] = pc'[p]]
      /\ pc'[p] \in {"check", "exists", "open"}
      /\ cmd'[p] = "create" => pc'[p] = "check"
      /\ UNCHANGED <<dir, json, lockFile, fifoFile, mem, jail, mounted,
                     xchild, report, ran>>
  BY DEF Begins, Invoke, Control, WaitInv, stateVars, dirVars, hostVars
<1>2. json.ino # p
  BY <1>1 DEF FileInv, exists
<1>3. \A c \in Proc : Standing(c)' <=> Standing(c)
  <2>1. exists => json.ino \in Proc
    BY DEF exists, JsonType, ProcOrNone
  <2> QED
    BY <1>1, <1>2, <2>1 DEF Standing, Original, exists, Removed, RunsHook
<1>4. DirInv' /\ StreamInv'
  BY <1>1 DEF DirInv, StreamInv
<1>5. PartsInv'
  BY <1>1, <1>2 DEF PartsInv, JailedPcs
<1>6. StandInv'
  <2> SUFFICES ASSUME NEW c \in Proc, Standing(c), pc[c] = "done"
               PROVE  /\ lockFile # NoProc /\ fifoFile = c
                      /\ \/ jail = c
                         \/ \E q \in Proc :
                              /\ IsDelete(q)' /\ mem[q].of = c
                              /\ pc'[q] \in {"unmount", "poststop"}
    BY <1>1, <1>3 DEF StandInv
  <2>1. CASE jail = c
    BY <2>1 DEF StandInv
  <2>2. CASE jail # c
    <3>1. PICK q \in Proc : /\ IsDelete(q) /\ mem[q].of = c
                            /\ pc[q] \in {"unmount", "poststop"}
      BY <2>2 DEF StandInv
    <3>2. q # p  BY <1>1, <3>1
    <3>3. IsDelete(q)' /\ pc'[q] = pc[q]
      BY <1>1, <3>1, <3>2 DEF IsDelete
    <3> QED  BY <3>1, <3>3 DEF StandInv
  <2> QED  BY <2>1, <2>2
<1>7. OwnedInv'
  BY <1>1, <1>3 DEF OwnedInv, JailedPcs
<1>8. OutsideInv'
  <2>1. xchild[p] = "none"
    BY <1>1 DEF Control, ExecPcs
  <2>2. \A q \in Proc : InFlight(q) => InFlight(q)'
    BY <1>1 DEF InFlight
  <2> QED  BY <1>1, <2>1, <2>2 DEF OutsideInv, IsExec, XOutside
<1> QED  BY <1>4, <1>5, <1>6, <1>7, <1>8

\* The steps of a create.
CreateWays ==
  CreateMoves \cup
  {<<"check", "rm">>, <<"rm", "unlink">>, <<"rm", "mkdir">>,
   <<"unlink", "mkdir">>, <<"mkdir", "open">>, <<"open", "flock">>,
   <<"flock", "mount">>, <<"save", "write">>, <<"write", "createRuntime">>}

\* While a create is in flight nobody else does anything to the files.
LEMMA CreateGoes ==
  ASSUME ControlTypes, Control, Roles, Serial, NEW p \in Proc, Kind(p),
         NEW c \in Proc, cmd[c] = "create", InFlight(c)
  PROVE  /\ \/ pc'[c] \in {pc[c], "done"}
            \/ <<pc[c], pc'[c]>> \in CreateWays
         /\ \/ lockFile' = lockFile
            \/ pc[c] = "unlink" /\ pc'[c] = "unlink"
            \/ pc[c] = "open" /\ pc'[c] = "flock"
         /\ pc[c] = "open" /\ pc'[c] = "flock" => lockFile' # NoProc
         /\ pc[c] # "mkdir" /\ pc'[c] = "mkdir" =>
              ~dir \/ (fifoFile = NoProc /\ fifoFile' = NoProc)
         /\ \/ json' = json
            \/ pc[c] \in {"unlink", "save", "write"} /\ pc'[c] # "done"
<1> USE RuntimeStateAssumption DEF ControlTypes, InFlight
<1>1. CASE p # c
  <2>1. pc[p] \in {"idle", "done"}  BY <1>1 DEF Serial
  <2>2. Passes(p)
    BY <2>1 DEF Kind, Hooks, Opens, Locks, Loads, Truncates, Writes, Lists,
                Unlinks, Empties, Checks, MakesDir
  <2> QED  BY <1>1, <2>2 DEF Passes, OnlyMoves, record
<1>2. CASE p = c /\ Passes(p)
  BY <1>2 DEF Passes, Moves, record, CreateWays, CreateMoves, IsDelete,
              IsExec
<1>3. CASE p = c /\ (Opens(p) \/ Locks(p))
  BY <1>3 DEF Opens, OpenLock, Locks, record, CreateWays
<1>4. CASE p = c /\ (Truncates(p) \/ Writes(p))
  <2>1. CASE Truncates(p)
    BY <1>4, <2>1 DEF Truncates, Truncate, CreateWays
  <2>2. CASE Writes(p)
    <3>1. pc[p] = "write" /\ pc'[p] = "createRuntime"
      BY <1>4, <2>2 DEF Writes, AfterSave, IsDelete
    <3>2. lockFile' = lockFile  BY <2>2 DEF Writes, Write
    <3> QED  BY <1>4, <3>1, <3>2 DEF CreateWays
  <2> QED  BY <1>4, <2>1, <2>2
<1>5. CASE p = c /\ (Lists(p) \/ Unlinks(p) \/ Empties(p))
  BY <1>5 DEF Lists, ListDir, Unlinks, Unlink, Empties, RemoveDir, Entries,
              Name, CreateWays
<1>6. CASE p = c /\ (Checks(p) \/ MakesDir(p))
  BY <1>6 DEF Checks, MakesDir, create_directories, dirVars, CreateWays
<1>7. CASE p = c /\ (Loads(p) \/ Hooks(p, "prestart", "open_fifo")
                      \/ Hooks(p, "poststop", "rm"))
  BY <1>7 DEF Loads, Hooks, Control, OtherPcs
<1> QED  BY <1>1, <1>2, <1>3, <1>4, <1>5, <1>6, <1>7 DEF Kind

\* What happens meanwhile to the FIFO and the jail.
LEMMA CreateParts ==
  ASSUME Control, Serial, PlaceMoves,
         NEW c \in Proc, cmd[c] = "create", InFlight(c)
  PROVE  /\ \/ fifoFile' = fifoFile
            \/ pc[c] = "mkfifo" /\ pc'[c] = "fork" /\ fifoFile' = c
            \/ pc[c] = "unlink" /\ fifoFile' = NoProc
         /\ \/ jail' = jail
            \/ pc[c] = "jail" /\ pc'[c] = "mkfifo" /\ jail' = c
            \/ pc[c] = "remove_jail" /\ pc'[c] = "unmount" /\ jail' = NoProc
<1>1. ASSUME NEW q \in Proc,
             pc[q] \in {"mkfifo", "unlink", "jail", "remove_jail"}
      PROVE  q = c
  BY <1>1 DEF Serial, InFlight
<1> QED  BY <1>1 DEF PlaceMoves

\* Every step of a command preserves DirInv: rmdir() finds the FIFO.
LEMMA DirStep ==
  ASSUME DirInv, PlaceMoves, NEW p \in Proc, Kind(p)
  PROVE  DirInv'
<1>1. \/ dir' = dir \/ dir' = TRUE
      \/ Entries = {} /\ UNCHANGED fifoFile
  BY DEF Kind, Passes, Hooks, Opens, OpenLock, Locks, Loads, Truncates,
         Truncate, Writes, Write, Lists, ListDir, Unlinks, Unlink, Empties,
         RemoveDir, Checks, MakesDir, create_directories, record, dirVars
<1>2. Entries = {} => fifoFile = NoProc
  BY DEF Entries, Name
<1> QED  BY <1>1, <1>2 DEF DirInv, PlaceMoves

\* Every step of a command preserves StreamInv: nobody is killed in save().
LEMMA StreamStep ==
  ASSUME ControlTypes, ControlTypes', StreamInv, PlaceMoves,
         NEW p \in Proc, Kind(p)
  PROVE  StreamInv'
<1> USE DEF ControlTypes, MemType
<1>1. ASSUME NEW q \in Proc, mem'[q].out # NoProc, pc'[q] # "write"
      PROVE  FALSE
  <2>1. CASE Writes(p) /\ q = p
    BY <1>1, <2>1 DEF Writes, Write
  <2>2. CASE ~(Writes(p) /\ q = p) /\ ~Truncates(p)
    <3>1. mem'[q].out = mem[q].out
      <4>1. CASE q # p  BY <4>1, KindFlight
      <4>2. CASE q = p /\ (Loads(p) \/ Checks(p))
        BY <4>2 DEF Loads, Checks, SetStatus
      <4>3. CASE q = p /\ ~Loads(p) /\ ~Checks(p)
        <5>1. mem' = mem
          BY <2>2, <4>3
             DEF Kind, Passes, Hooks, Opens, OpenLock, Locks, Lists, ListDir,
                 Unlinks, Unlink, Empties, RemoveDir, MakesDir,
                 create_directories, record
        <5> QED  BY <5>1
      <4> QED  BY <4>1, <4>2, <4>3
    <3>2. pc[q] = "write"  BY <1>1, <3>1 DEF StreamInv
    <3>3. pc'[q] = "done"
      BY <1>1, <2>2, <3>2
         DEF Kind, Passes, OnlyMoves, Moves, CreateMoves, StartMoves,
             DeleteMoves, ExecMoves, Hooks, Opens, Locks, Loads, Writes,
             Lists, Unlinks, Empties, Checks, MakesDir
    <3> QED  BY <3>2, <3>3 DEF PlaceMoves, StopMoves
  <2>3. CASE Truncates(p)
    BY <1>1, <2>3 DEF Truncates, Truncate, OnlyMoves, StreamInv
  <2> QED  BY <2>1, <2>2, <2>3
<1> QED  BY <1>1 DEF StreamInv

\* Every step of a command preserves PartsInv: a create has the place to
\* itself.
LEMMA PartsStep ==
  ASSUME ControlTypes, ControlTypes', Control, Roles, Serial, DirInv,
         PartsInv, PlaceMoves, FileMoves, NEW p \in Proc, Kind(p)
  PROVE  PartsInv'
<1> USE RuntimeStateAssumption DEF ControlTypes
<1> SUFFICES ASSUME NEW c \in Proc, cmd'[c] = "create"
    PROVE  /\ pc'[c] = "check" => json'.ino # c
           /\ pc'[c] \in {"mkdir", "open", "flock", "mount", "jail", "mkfifo"}
              => fifoFile' = NoProc
           /\ pc'[c] \in {"flock", "mount", "jail", "unmount"} \cup JailedPcs
              => lockFile' # NoProc
           /\ pc'[c] \in JailedPcs => jail' = c
           /\ pc'[c] \in JailedPcs \ {"mkfifo"} => fifoFile' = c
  BY DEF PartsInv
<1>1. cmd[c] = "create" /\ (InFlight(c)' => InFlight(c))
  BY KindFlight
<1>2. CASE ~InFlight(c)
  BY <1>1, <1>2 DEF InFlight, JailedPcs
<1>3. CASE InFlight(c)
  <2>1. /\ \/ pc'[c] \in {pc[c], "done"}
           \/ <<pc[c], pc'[c]>> \in CreateWays
        /\ \/ lockFile' = lockFile
           \/ pc[c] = "unlink" /\ pc'[c] = "unlink"
           \/ pc[c] = "open" /\ pc'[c] = "flock"
        /\ pc[c] = "open" /\ pc'[c] = "flock" => lockFile' # NoProc
        /\ pc[c] # "mkdir" /\ pc'[c] = "mkdir" =>
             ~dir \/ (fifoFile = NoProc /\ fifoFile' = NoProc)
        /\ \/ json' = json
           \/ pc[c] \in {"unlink", "save", "write"}
    BY <1>1, <1>3, CreateGoes
  <2>2. /\ \/ fifoFile' = fifoFile
           \/ pc[c] = "mkfifo" /\ pc'[c] = "fork" /\ fifoFile' = c
           \/ pc[c] = "unlink" /\ fifoFile' = NoProc
        /\ \/ jail' = jail
           \/ pc[c] = "jail" /\ pc'[c] = "mkfifo" /\ jail' = c
           \/ pc[c] = "remove_jail" /\ pc'[c] = "unmount" /\ jail' = NoProc
    BY <1>1, <1>3, CreateParts
  <2>3. /\ pc[c] = "jail" /\ pc'[c] = "mkfifo" => jail' = c
        /\ pc[c] = "mkfifo" /\ pc'[c] = "fork" => fifoFile' = c
    BY DEF PlaceMoves, FileMoves
  <2>4. pc'[c] = "check" => json'.ino # c
    BY <1>1, <2>1 DEF PartsInv, CreateWays, CreateMoves
  <2>5. pc'[c] \in {"mkdir", "open", "flock", "mount", "jail", "mkfifo"}
        => fifoFile' = NoProc
    BY <1>1, <2>1, <2>2 DEF PartsInv, DirInv, CreateWays, CreateMoves
  <2>6. pc'[c] \in {"flock", "mount", "jail", "unmount"} \cup JailedPcs
        => lockFile' # NoProc
    BY <1>1, <2>1 DEF PartsInv, JailedPcs, CreateWays, CreateMoves
  <2>7. pc'[c] \in JailedPcs => jail' = c
    BY <1>1, <2>1, <2>2, <2>3
       DEF PartsInv, JailedPcs, CreateWays, CreateMoves
  <2>8. pc'[c] \in JailedPcs \ {"mkfifo"} => fifoFile' = c
    BY <1>1, <2>1, <2>2, <2>3
       DEF PartsInv, JailedPcs, CreateWays, CreateMoves
  <2> QED  BY <2>4, <2>5, <2>6, <2>7, <2>8
<1> QED  BY <1>2, <1>3

\* Every step of a command preserves OutsideInv.
LEMMA OutsideStep ==
  ASSUME ControlTypes, OutsideInv, PlaceMoves, NEW p \in Proc, Kind(p)
  PROVE  OutsideInv'
<1>1. cmd' = cmd  BY KindFlight
<1> QED  BY <1>1 DEF OutsideInv, PlaceMoves, OutsideMoves, IsExec, XOutside

\* The record that there is while a create is under way is its own.
LEMMA CreateRecords ==
  ASSUME ControlTypes, Control, Roles, MakingInv, exists,
         NEW p \in Proc, cmd[p] = "create", InFlight(p)
  PROVE  json.ino = p \/ pc[p] = "check"
<1> USE DEF ControlTypes
<1>1. Makes(p)  BY DEF MakingInv
<1>2. pc[p] \notin OtherPcs \cup ExecPcs \cup StartPcs
                     \cup {"exists", "kill", "return", "exec_fork"}
  BY DEF Control, Roles, IsDelete, IsExec
<1>3. pc[p] \in {"check", "rm", "unlink", "mkdir", "write", "createRuntime",
                  "unlock", "signal", "await", "remove_jail", "unmount"}
                 \cup Locking
  BY <1>2 DEF InFlight, Pcs, LockedPcs, CleanupPcs, FreePcs, OtherPcs,
              ExecPcs, StartPcs, Locking
<1> QED  BY <1>1, <1>3 DEF Makes, MadeBy, Locking

\* A save() makes a file only if there is none.
LEMMA InoMoves ==
  ASSUME ControlTypes, NEW p \in Proc, Kind(p)
  PROVE  json'.ino \in {json.ino, NoProc, p}
<1> USE DEF ControlTypes, JsonType
<1>1. CASE Truncates(p)
  BY <1>1, Truncated
<1>2. CASE Writes(p)
  BY <1>2 DEF Writes, Write
<1>3. CASE Unlinks(p)
  BY <1>3 DEF Unlinks, Unlink, NoFile
<1>4. CASE ~Truncates(p) /\ ~Writes(p) /\ ~Unlinks(p)
  <2>1. json' = json
    BY <1>4 DEF Kind, Passes, Hooks, Opens, OpenLock, Locks, Loads, Lists,
                ListDir, Empties, RemoveDir, Checks, MakesDir,
                create_directories, record, dirVars
  <2> QED  BY <2>1
<1> QED  BY <1>1, <1>2, <1>3, <1>4

\* A container that stands does so until its poststop hooks are run, and no
\* other comes to stand once its create has ended.
LEMMA StandingMoves ==
  ASSUME ControlTypes, ControlTypes', Control, Roles, Recorded, Serial,
         FileInv, MakingInv, UsingInv, NEW p \in Proc, Kind(p),
         NEW c \in Proc, pc[c] = "done"
  PROVE  /\ Standing(c)' => Standing(c)
         /\ Standing(c) /\ ~Removed(c)' => Standing(c)'
         /\ Standing(c) /\ lockFile # NoProc => lockFile' = lockFile
<1> USE RuntimeStateAssumption DEF Standing
<1>1. cmd' = cmd /\ (Removed(c) => Removed(c)')
  BY KindFlight, KindHooks
<1>2. CASE cmd[p] = "create" /\ InFlight(p)
  <2>1. c # p  BY <1>2 DEF InFlight
  <2>2. exists /\ json.ino = c => json' = json /\ lockFile' = lockFile
    BY <1>2, <2>1, CreateRecords, CreateGoes
  <2>3. exists' /\ json'.ino = c => exists /\ json.ino = c
    BY <2>1, InoMoves DEF exists
  <2> QED  BY <1>1, <2>2, <2>3 DEF Original, exists
<1>3. CASE ~(cmd[p] = "create" /\ InFlight(p))
  BY <1>1, <1>3, OriginalStep
<1> QED  BY <1>2, <1>3

\* A create that ends in success leaves a container that stands.
LEMMA CreateStands ==
  ASSUME Faults \subseteq MildFaults,
         ControlTypes, ControlTypes', Control, KnownForked, Roles, Serial,
         FileInv, MakingInv, MountedInv, CleanedInv, RemovingInv, PartsInv,
         HandMoves, PlaceMoves, NEW p \in Proc, Kind(p),
         NEW c \in Proc, cmd[c] = "create", InFlight(c), pc'[c] = "done"
  PROVE  /\ Standing(c)' => pc[c] = "await"
         /\ pc[c] \in JailedPcs => Standing(c)' /\ pc[c] = "await"
<1> USE RuntimeStateAssumption DEF ControlTypes, Standing
<1>1. json' = json /\ cmd' = cmd
  BY CreateGoes, KindFlight
<1>2. EndsAt(c) /\ StopMoves(c) /\ Makes(c)
  BY DEF HandMoves, Ends, PlaceMoves, MakingInv
<1>3. pc[c] \in PreFork \cup {"rm", "unlink", "await"}
  BY <1>2 DEF EndsAt, MildFaults, InFlight
<1>4. Standing(c)' => exists /\ json.ino = c
  BY <1>1 DEF Original, exists
<1>5. Standing(c)' => pc[c] \notin PreFork
  BY <1>2, <1>4 DEF PreFork, PartsInv, InFlight, Makes, Locking
<1>6. Standing(c)' => pc[c] \notin {"rm", "unlink"}
  <2>1. pc[c] = "rm" => ~dir \/ "crash" \in Faults
    BY <1>2 DEF EndsAt, PreFork
  <2>2. pc[c] = "unlink" /\ Blocked => ~exists
    BY CleanupGoes DEF MildFaults
  <2>3. pc[c] = "unlink" /\ ~Blocked =>
          listing[c] = {} \/ "crash" \in Faults
    BY <1>2 DEF EndsAt, PreFork
  <2> QED
    BY <1>4, <2>1, <2>2, <2>3 DEF FileInv, RemovingInv, MildFaults
<1>7. pc[c] \in JailedPcs => pc[c] = "await"
  <2>1. pc[c] # "fork"  BY <1>2 DEF StopMoves
  <2>2. pc[c] # "mkfifo"
    BY <1>2 DEF StopMoves, Makes, Locking, PartsInv
  <2> QED  BY <1>3, <2>1, <2>2 DEF JailedPcs, PreFork
<1>8. ASSUME pc[c] = "await" PROVE Standing(c)'
  <2>1. MadeBy(c) /\ ~Removed(c)  BY <1>2, <1>8 DEF Makes
  <2>2. ~Removed(c)'
    <3>1. pc[p] # "poststop"
      BY <1>8 DEF Serial, InFlight, Roles, IsDelete
    <3> QED  BY <2>1, <3>1, KindHooks DEF Removed
  <2> QED  BY <1>1, <2>1, <2>2 DEF MadeBy, Original, exists
<1> QED  BY <1>3, <1>5, <1>6, <1>7, <1>8

\* How a delete gets from the volumes to the end of the poststop hooks.
LEMMA DeleteGoes ==
  ASSUME ControlTypes, Control, PlaceMoves, NEW p \in Proc, Kind(p),
         NEW q \in Proc, IsDelete(q), pc[q] \in {"unmount", "poststop"}
  PROVE  \/ pc'[q] \in {"unmount", "poststop"}
         \/ pc'[q] = "rm" /\ <<"poststop", mem[q].of, q>> \in ran'
<1>1. CASE p # q
  BY <1>1, KindFlight DEF OnlyMoves
<1>2. CASE p = q /\ Passes(p)
  <2>1. pc'[q] # "done"  BY DEF PlaceMoves, StopMoves
  <2> QED
    BY <1>2, <2>1
       DEF Passes, Moves, DeleteMoves, ExecMoves, IsDelete, IsExec
<1>3. CASE p = q /\ ~Passes(p)
  BY <1>3 DEF Kind, Hooks, Opens, Locks, Loads, Truncates, Writes, Lists,
              Unlinks, Empties, Checks, MakesDir
<1> QED  BY <1>1, <1>2, <1>3

\* While a container stands no remove_all() is under way.
LEMMA StandsUnlinked ==
  ASSUME ControlTypes, Control, Roles, MakingInv, UsingInv,
         NEW c \in Proc, Standing(c), pc[c] = "done"
  PROVE  /\ \A d \in Proc : cmd[d] = "create" /\ InFlight(d)
                             => pc[d] = "check"
         /\ \A r \in Proc : pc[r] # "unlink"
<1> USE RuntimeStateAssumption DEF Standing
<1>1. ASSUME NEW d \in Proc, cmd[d] = "create", InFlight(d)
      PROVE  pc[d] = "check"
  BY <1>1, CreateRecords DEF Original, InFlight
<1>2. ASSUME NEW r \in Proc, pc[r] = "unlink" PROVE FALSE
  <2>1. Using(r)  BY <1>1, <1>2 DEF Using, InFlight
  <2>2. HasEnded(r) /\ fd[r] # NoProc
    BY <1>2, <2>1 DEF UsingInv, Uses
  <2>3. mem[r].of = c
    BY <1>2, <2>1, <2>2 DEF UsingInv, Uses, HasLoaded
  <2> QED  BY <1>2, <2>2, <2>3 DEF HasEnded, Removed, RunsHook
<1> QED  BY <1>1, <1>2

\* So nobody unlinks its FIFO.
LEMMA FifoStays ==
  ASSUME ControlTypes, Control, Roles, MakingInv, UsingInv, PlaceMoves,
         NEW c \in Proc, Standing(c), pc[c] = "done"
  PROVE  fifoFile' = fifoFile
<1>1. \A d \in Proc : pc[d] # "mkfifo"
  BY StandsUnlinked DEF Control, CreatePcs, InFlight
<1> QED  BY <1>1, StandsUnlinked DEF PlaceMoves

\* Every step of a command preserves StandInv.
LEMMA StandStep ==
  ASSUME Faults \subseteq MildFaults,
         ControlTypes, ControlTypes', Control, KnownForked, Roles, Recorded,
         Serial, FileInv, MakingInv, UsingInv, MountedInv, CleanedInv,
         RemovingInv, PartsInv, StandInv, HandMoves, PlaceMoves,
         NEW p \in Proc, Kind(p)
  PROVE  StandInv'
<1> USE RuntimeStateAssumption DEF ControlTypes
<1> SUFFICES ASSUME NEW c \in Proc, Standing(c)', pc'[c] = "done"
    PROVE  /\ lockFile' # NoProc /\ fifoFile' = c
           /\ \/ jail' = c
              \/ \E q \in Proc : /\ IsDelete(q)' /\ mem'[q].of = c
                                 /\ pc'[q] \in {"unmount", "poststop"}
  BY DEF StandInv
<1>1. cmd' = cmd  BY KindFlight
<1>2. CASE pc[c] = "done"
  <2>1. Standing(c) /\ (lockFile # NoProc => lockFile' = lockFile)
    BY <1>2, StandingMoves
  <2>2. fifoFile' = fifoFile  BY <1>2, <2>1, FifoStays
  <2>3. ASSUME NEW q \in Proc, IsDelete(q),
               pc[q] \in {"remove_jail", "unmount", "poststop"}
        PROVE  IsDelete(q)' /\ mem'[q].of = mem[q].of
    BY <1>1, <2>3, Describes DEF IsDelete, Loads, Checks
  <2>4. CASE jail = c
    <3>1. CASE jail' = jail  BY <2>1, <2>2, <2>4, <3>1, <1>2 DEF StandInv
    <3>2. CASE jail' # jail
      <4>1. PICK r \in Proc : /\ pc[r] = "remove_jail" /\ pc'[r] = "unmount"
                              /\ jail = mem[r].of
        BY <2>4, <3>2 DEF PlaceMoves
      <4>2. IsDelete(r)
        BY <1>2, <2>4, <4>1 DEF Roles, CleanupPcs, Recorded
      <4> QED  BY <1>2, <2>1, <2>2, <2>3, <2>4, <4>1, <4>2 DEF StandInv
    <3> QED  BY <3>1, <3>2
  <2>5. CASE jail # c
    <3>1. PICK q \in Proc : /\ IsDelete(q) /\ mem[q].of = c
                            /\ pc[q] \in {"unmount", "poststop"}
      BY <1>2, <2>1, <2>5 DEF StandInv
    <3>2. <<"poststop", c, q>> \notin ran'
      BY DEF Standing, Removed, RunsHook
    <3>3. pc'[q] \in {"unmount", "poststop"}
      BY <3>1, <3>2, DeleteGoes
    <3> QED  BY <1>2, <2>1, <2>2, <2>3, <3>1, <3>3 DEF StandInv
  <2> QED  BY <2>4, <2>5
<1>3. CASE pc[c] # "done"
  <2>1. cmd[c] = "create" /\ InFlight(c)
    BY <1>1, <1>3 DEF Standing, Original, InFlight, Control
  <2>2. pc[c] = "await"  BY <2>1, CreateStands
  <2>3. lockFile # NoProc /\ jail = c /\ fifoFile = c
    BY <2>1, <2>2 DEF PartsInv, JailedPcs
  <2>4. lockFile' = lockFile  BY <2>1, <2>2, CreateGoes
  <2>5. fifoFile' = fifoFile /\ jail' = jail
    BY <2>1, <2>2, CreateParts
  <2> QED  BY <2>3, <2>4, <2>5
<1> QED  BY <1>2, <1>3

\* What becomes of a create that has a jail.
LEMMA JailedStays ==
  ASSUME Faults \subseteq MildFaults,
         ControlTypes, ControlTypes', Control, KnownForked, Roles, Serial,
         FileInv, MakingInv, MountedInv, CleanedInv, RemovingInv, PartsInv,
         HandMoves, PlaceMoves, NEW p \in Proc, Kind(p),
         NEW c \in Proc, cmd[c] = "create", pc[c] \in JailedPcs
  PROVE  \/ pc'[c] \in JailedPcs \cup {"unmount"}
         \/ pc'[c] = "done" /\ Standing(c)'
<1>1. InFlight(c)  BY DEF InFlight, JailedPcs
<1>2. pc'[c] = "done" => Standing(c)'  BY <1>1, CreateStands
<1>3. pc'[c] \in {pc[c], "done"} \/ <<pc[c], pc'[c]>> \in CreateWays
  BY <1>1, CreateGoes
<1> QED  BY <1>2, <1>3 DEF CreateWays, CreateMoves, JailedPcs

\* Every step of a command preserves OwnedInv.
LEMMA OwnedStep ==
  ASSUME Faults \subseteq MildFaults,
         ControlTypes, ControlTypes', Control, KnownForked, Roles, Recorded,
         Recorded', Serial, JailInv', DeletedInv, FileInv, MakingInv, UsingInv,
         MountedInv, CleanedInv, EndedInv', RemovingInv, PartsInv, OwnedInv,
         HandMoves, PlaceMoves, NEW p \in Proc, Kind(p)
  PROVE  OwnedInv'
<1> USE RuntimeStateAssumption DEF ControlTypes
<1>1. cmd' = cmd  BY KindFlight
<1>2. \A c \in Proc : pc[c] = "done" => pc'[c] = "done"
  BY KindFlight DEF InFlight
<1>3. ASSUME NEW c \in Proc, jail' = c
      PROVE  \/ cmd'[c] = "create" /\ pc'[c] \in JailedPcs
             \/ pc'[c] = "done" /\ Standing(c)'
  <2>1. CASE jail' = jail /\ cmd[c] = "create" /\ pc[c] \in JailedPcs
    <3>1. pc'[c] # "unmount"
      BY <1>1, <1>3, <2>1 DEF JailInv, Recorded
    <3> QED  BY <1>1, <2>1, <3>1, JailedStays
  <2>2. CASE jail' = jail /\ pc[c] = "done" /\ Standing(c)
    <3>1. ~Removed(c)'  BY <1>3 DEF EndedInv
    <3> QED  BY <1>2, <2>2, <3>1, StandingMoves
  <2>3. CASE jail' # jail
    BY <1>1, <1>3, <2>3 DEF PlaceMoves, Control, CreatePcs, JailedPcs
  <2> QED  BY <1>3, <2>1, <2>2, <2>3 DEF OwnedInv
<1>4. ASSUME NEW c \in mounted'
      PROVE  \/ /\ cmd'[c] = "create"
                /\ pc'[c] \in {"jail", "unmount"} \cup JailedPcs
             \/ pc'[c] = "done" /\ Standing(c)'
  <2> c \in Proc  OBVIOUS
  <2>1. CASE c \in mounted /\ cmd[c] = "create" /\ pc[c] \in JailedPcs
    BY <1>1, <2>1, JailedStays
  <2>2. CASE c \in mounted /\ cmd[c] = "create" /\ pc[c] = "jail"
    <3>1. InFlight(c)  BY <2>2 DEF InFlight
    <3>2. jail = NoProc
      <4>1. CASE jail \in Proc /\ pc[jail] \in JailedPcs
        BY <2>2, <3>1, <4>1 DEF Serial, InFlight, JailedPcs
      <4>2. ~exists
        BY <2>2, <3>1 DEF MakingInv, Makes, Locking
      <4> QED  BY <4>1, <4>2 DEF OwnedInv, Standing, Original, ProcOrNone
    <3>3. pc'[c] # "done"
      BY <2>2, <3>2 DEF PlaceMoves, StopMoves
    <3>4. pc'[c] = pc[c] \/ <<pc[c], pc'[c]>> \in CreateWays
      BY <2>2, <3>1, <3>3, CreateGoes
    <3> QED  BY <1>1, <2>2, <3>4 DEF CreateWays, CreateMoves, JailedPcs
  <2>3. CASE c \in mounted /\ cmd[c] = "create" /\ pc[c] = "unmount"
    <3>1. mem[c].of = c  BY <2>3 DEF Recorded
    <3> QED  BY <1>1, <2>3, <3>1 DEF PlaceMoves
  <2>4. CASE c \in mounted /\ pc[c] = "done" /\ Standing(c)
    <3>1. ASSUME Removed(c)' PROVE FALSE
      <4>1. pc[p] = "poststop" /\ mem[p].of = c
        BY <2>4, <3>1, KindHooks DEF Standing, Removed
      <4>2. Deleting(p)
        BY <4>1 DEF Deleting, Roles
      <4> QED  BY <2>4, <4>1, <4>2 DEF DeletedInv, MildFaults
    <3> QED  BY <1>2, <2>4, <3>1, StandingMoves
  <2>5. CASE c \notin mounted
    BY <1>1, <2>5 DEF PlaceMoves, Control, CreatePcs
  <2> QED  BY <2>1, <2>2, <2>3, <2>4, <2>5 DEF OwnedInv
<1> QED  BY <1>3, <1>4 DEF OwnedInv

\* Every step preserves PlaceInv.
LEMMA PlaceStep ==
  ASSUME Faults \subseteq MildFaults,
         ControlTypes, ControlTypes', Control, KnownForked, Roles, Recorded,
         Recorded', Serial, JailInv', WaitInv, DeletedInv, FileInv, MakingInv,
         UsingInv, MountedInv, CleanedInv, EndedInv', RemovingInv, PlaceInv,
         HandMoves, PlaceMoves, FileMoves, Kinds
  PROVE  PlaceInv'
<1>1. ASSUME NEW p \in Proc, Kind(p) PROVE PlaceInv'
  <2> USE DEF PlaceInv
  <2>1. DirInv' /\ StreamInv'  BY <1>1, DirStep, StreamStep
  <2>2. PartsInv'  BY <1>1, PartsStep
  <2>3. StandInv'  BY <1>1, StandStep
  <2>4. OwnedInv'  BY <1>1, OwnedStep
  <2>5. OutsideInv'  BY <1>1, OutsideStep
  <2> QED  BY <2>1, <2>2, <2>3, <2>4, <2>5
<1>2. ASSUME NEW p \in Proc, Begins(p) PROVE PlaceInv'
  BY <1>2, PlaceBegins
<1>3. CASE UNCHANGED vars
  <2>1. DirInv' /\ StreamInv' /\ PartsInv' /\ OutsideInv'
    BY <1>3 DEF vars, stateVars, dirVars, ctlVars, hostVars, PlaceInv, DirInv,
                StreamInv, PartsInv, OutsideInv, InFlight, IsExec
  <2>2. StandInv' /\ OwnedInv'
    BY <1>3 DEF vars, stateVars, dirVars, ctlVars, hostVars, PlaceInv,
                StandInv, OwnedInv, IsDelete, Standing, Original, exists,
                Removed, RunsHook
  <2> QED  BY <2>1, <2>2 DEF PlaceInv
<1> QED  BY <1>1, <1>2, <1>3 DEF Kinds

\* What PlaceInv says once nobody is in flight.
LEMMA AtRest ==
  ASSUME ControlTypes, Control, Recorded, TornInv, FileInv, JailInv, AliveInv,
         PlaceInv
  PROVE  Settled
<1> USE RuntimeStateAssumption DEF ControlTypes, PlaceInv
<1> SUFFICES ASSUME \A p \in Proc : ~InFlight(p)
    PROVE  IF exists /\ ~Removed(json.of)
           THEN /\ Readable /\ lockFile # NoProc /\ fifoFile = json.of
                /\ jail = json.of /\ mounted = {json.of}
           ELSE /\ jail = NoProc /\ mounted = {}
                /\ \A c \in Proc : /\ ~Alive(c)
                                   /\ xchild[c] \in {"none", "dead"}
  BY DEF Settled
<1>1. \A p \in Proc : pc[p] \in {"idle", "done"}
  BY DEF InFlight
<1>2. ~json.torn
  BY <1>1 DEF TornInv, TornHasWriter, StreamInv
<1>3. exists => Readable /\ json.of \in Proc
  BY <1>2 DEF Readable, FileInv, Recorded
<1>4. \A c \in Proc : Standing(c) =>
        exists /\ json.of = c /\ json.ino = c /\ ~Removed(json.of)
  BY <1>3 DEF Standing, Original, FileInv
<1>5. jail \in Proc => Standing(jail)
  BY <1>1 DEF OwnedInv, JailedPcs
<1>6. \A c \in mounted : Standing(c)
  BY <1>1 DEF OwnedInv, JailedPcs
<1>7. CASE exists /\ ~Removed(json.of)
  <2>1. PICK c \in Proc : c = json.of  BY <1>3, <1>7
  <2>2. Standing(c) /\ json.ino = c
    BY <1>7, <2>1 DEF Standing, FileInv, Original
  <2>3. pc[c] = "done"
    BY <1>1, <1>7, <2>2 DEF FileInv
  <2>4. lockFile # NoProc /\ fifoFile = c /\ jail = c
    BY <1>1, <2>2, <2>3 DEF StandInv
  <2>5. c \in mounted  BY <2>4 DEF JailInv
  <2>6. \A d \in mounted : d = c  BY <1>4, <1>6, <2>1
  <2> QED  BY <1>3, <1>7, <2>1, <2>4, <2>5, <2>6
<1>8. CASE ~(exists /\ ~Removed(json.of))
  <2>1. jail \notin Proc /\ mounted = {}
    BY <1>4, <1>5, <1>6, <1>8
  <2>2. jail = NoProc  BY <2>1 DEF ProcOrNone
  <2>3. \A c \in Proc : ~Alive(c)  BY <2>1 DEF AliveInv
  <2>4. \A c \in Proc : xchild[c] # "none" => mem[c].of \in Proc
    BY DEF Recorded
  <2>5. \A c \in Proc : xchild[c] \notin XInJail \cup XOutside
    BY <2>1, <2>4 DEF JailInv, OutsideInv, XInJail
  <2>6. \A c \in Proc : xchild[c] \in {"none", "dead"}
    BY <2>5 DEF XPcs
  <2> QED  BY <1>8, <2>1, <2>2, <2>3, <2>6
<1> QED  BY <1>7, <1>8

\* PlaceInv holds of every instance in which nothing overlaps with a create
\* and none of the system calls fails that make or remove a part of the
\* container.
LEMMA PlaceInvariant ==
  ASSUME Overlap = {}, Faults \subseteq MildFaults
  PROVE  Spec => [](OutcomeInv /\ RefineInv /\ PlaceInv)
<1> USE RuntimeStateAssumption
<1>1. Init => PlaceInv
  BY DEF Init, StateInit, HostInit, CommandsInit, PlaceInv, DirInv, StreamInv,
         NoMem, PartsInv, JailedPcs, StandInv, Standing, Original, exists,
         NoFile, OwnedInv, OutsideInv, XOutside
<1>2. OutcomeInv /\ RefineInv /\ PlaceInv /\ [Next]_vars /\ OutcomeInv'
      => PlaceInv'
  <2> SUFFICES ASSUME OutcomeInv, RefineInv, PlaceInv, [Next]_vars,
                      OutcomeInv'
               PROVE  PlaceInv'
    OBVIOUS
  <2> USE DEF OutcomeInv, ContainerInv, OnlyOnceInv, LockingInv
  <2>1. Kinds  BY StepKinds DEF TypeOK
  <2>2. HandMoves /\ FileMoves
    BY HandSteps, HostSteps DEF TypeOK, HostMoves
  <2>3. PlaceMoves  BY PlaceSteps DEF TypeOK
  <2> QED  BY <2>1, <2>2, <2>3, PlaceStep
<1>3. Spec => []RefineInv
  BY RefineInvariant DEF MildFaults
<1> QED  BY <1>1, <1>2, <1>3, OutcomeInvariant, PTL DEF Spec

\* Settled holds of every such instance: however the commands race, once they
\* have all ended there is a whole container or nothing of it.
THEOREM SettledAlways ==
  ASSUME Overlap = {}, Faults \subseteq MildFaults
  PROVE  Spec => []Settled
<1>1. OutcomeInv /\ RefineInv /\ PlaceInv => Settled
  BY AtRest DEF OutcomeInv, RefineInv, ContainerInv, OnlyOnceInv, LockingInv
<1> QED  BY <1>1, PlaceInvariant, PTL

\* And so does RemovesUnmounted: no remove_all(), be it that of a delete, the
\* one with which create begins or that of its cleanup, gets to a directory in
\* which a read-only root and the volumes below it are mounted.
THEOREM RemovesUnmountedAlways ==
  ASSUME Overlap = {}, Faults \subseteq MildFaults
  PROVE  Spec => []RemovesUnmounted
<1>1. OutcomeInv /\ RefineInv /\ PlaceInv => RemovesUnmounted
  <2> SUFFICES ASSUME OutcomeInv, PlaceInv, NEW p \in Proc, pc[p] = "unlink",
                      NEW c \in mounted
               PROVE  FALSE
    BY DEF RemovesUnmounted, Blocked
  <2> USE DEF OutcomeInv, ContainerInv, OnlyOnceInv, LockingInv, PlaceInv
  <2>1. c \in Proc  BY DEF ControlTypes
  <2>2. CASE cmd[c] = "create" /\ pc[c] \in {"jail", "unmount"} \cup JailedPcs
    BY <2>1, <2>2 DEF Serial, InFlight, JailedPcs
  <2>3. CASE pc[c] = "done" /\ Standing(c)
    BY <2>1, <2>3, StandsUnlinked
  <2> QED  BY <2>2, <2>3 DEF OwnedInv
<1> QED  BY <1>1, PlaceInvariant, PTL
=============================================================================
