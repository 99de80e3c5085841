-------------------------- MODULE RefinementProofs --------------------------
(***************************************************************************)
(* Theorem that the commands implement Lifecycle, for every set of         *)
(* invocations and commands, if nothing overlaps with a create             *)
(* (Overlap = {}), every hook can be executed and fork() does not fail     *)
(* ({"hook", "fork"} disjoint from Faults).  If a hook cannot be executed, *)
(* create may take a container for failed whose process goes on (see       *)
(* FailedChildStops), and clean up around it; if fork() fails, what is     *)
(* recorded as created has no process.                                     *)
(* A step changes either what is recorded of the containers or what their  *)
(* processes do (Apart), and the two halves of the argument follow that.   *)
(***************************************************************************)
EXTENDS ContainerProofs

\* The create of c cleans up.
CleanUp(c) ==
  /\ cmd[c] = "create"
  /\ \/ pc[c] \in {"remove_jail", "unmount"}
     \/ pc[c] \in {"rm", "unlink"} /\ fd[c] # NoProc

\* The jail is that of the only container process there may be; the process
\* is dead when create learns that it has failed.
AliveInv ==
  \A c \in Proc :
    /\ Alive(c) => jail = c
    /\ cmd[c] = "create" /\ report[c] = "failed" => child[c] \in Dead
    /\ CleanUp(c) => child[c] \in Dead

\* If fork() works, nothing is recorded without a process.
Born == \A c \in Proc : child[c] # "unborn"

\* Nobody deletes a container whose process is alive.
RemovedDead == \A c \in Proc : Removed(c) => child[c] \in Dead

\* A container that has been started is recorded as running while it lives.
RunningInv ==
  /\ \A q \in Proc : pc[q] \in StartPcs => mem[q].status = "running"
  /\ \A c \in Proc : RunsHook("prestart", c) /\ Alive(c) =>
       json.of = c /\ json.status = "running"

\* The createRuntime hooks tell a container that create has recorded from
\* one that it has not.
MarkInv ==
  \A c \in Proc :
    /\ RunsHook("createRuntime", c) =>
         pc[c] \in {"unlock", "signal", "await", "done"} \/ CleanUp(c)
    /\ \/ pc[c] \in {"unlock", "signal", "await"} /\ cmd[c] = "create"
       \/ CleanUp(c)
       => RunsHook("createRuntime", c)

-----------------------------------------------------------------------------
(* Each is preserved by every step.                                        *)

\* How a create gets to its cleanup.
LEMMA CleanUpBefore ==
  ASSUME ControlTypes, ControlTypes', Control, Roles, MakingInv,
         NEW c \in Proc, CleanUp(c)', Kinds
  PROVE  CleanUp(c) \/ (cmd[c] = "create" /\ pc[c] = "await"
                        /\ pc'[c] = "remove_jail" /\ report[c] = "failed")
<1>1. ASSUME NEW p \in Proc, Kind(p) PROVE CleanUp(c) \/
        (cmd[c] = "create" /\ pc[c] = "await"
         /\ pc'[c] = "remove_jail" /\ report[c] = "failed")
  <2>1. cmd' = cmd /\ OnlyMoves(p) /\ \A q \in Proc \ {p} : fd'[q] = fd[q]
    BY <1>1, KindFlight
  <2>2. CASE c # p
    BY <2>1, <2>2 DEF CleanUp, OnlyMoves
  <2>3. CASE c = p /\ Passes(p)
    BY <2>1, <2>3 DEF CleanUp, Passes, Moves, CreateMoves, StartMoves,
         DeleteMoves, ExecMoves, record, IsDelete, IsExec
  <2>4. CASE c = p /\ ~Passes(p)
    <3>1. cmd[p] = "create"  BY <2>1, <2>4 DEF CleanUp
    <3>2. pc'[p] \in {"remove_jail", "unmount", "rm", "unlink"}
      BY <2>4 DEF CleanUp
    <3>3. Lists(p) \/ Unlinks(p) \/ Checks(p)
      BY <1>1, <2>4, <3>1, <3>2
         DEF Kind, Hooks, Opens, Locks, Loads, Truncates, Writes, Lists,
             Unlinks, Empties, Checks, MakesDir, AfterSave, ControlTypes,
             Roles, StartPcs, IsDelete, Control, OtherPcs
    <3>4. fd' = fd
      BY <3>3 DEF Lists, ListDir, Unlinks, Unlink, Checks
    <3> QED  BY <2>4, <3>1, <3>3, <3>4
             DEF CleanUp, Lists, Unlinks, Checks, Control, Fresh
  <2> QED  BY <2>2, <2>3, <2>4
<1>2. ASSUME NEW p \in Proc, Begins(p) PROVE CleanUp(c)
  <2>1. /\ \A q \in Proc \ {p} : pc'[q] = pc[q] /\ cmd'[q] = cmd[q]
        /\ pc'[p] \in {"check", "exists", "open"} /\ fd' = fd
    BY <1>2 DEF Begins, Invoke, stateVars, ControlTypes
  <2> QED  BY <2>1 DEF CleanUp
<1>3. CASE UNCHANGED vars
  BY <1>3 DEF CleanUp, vars, stateVars, ctlVars
<1> QED  BY <1>1, <1>2, <1>3 DEF Kinds

\* Every step preserves AliveInv.
LEMMA AliveStep ==
  ASSUME Overlap = {}, "hook" \notin Faults, Born,
         ControlTypes, ControlTypes', Control, Roles, Recorded, Serial,
         DeletedInv, WaitInv, MakingInv, UsingInv, AliveInv, HostMoves, Kinds
  PROVE  AliveInv'
<1> USE RuntimeStateAssumption
<1> SUFFICES ASSUME NEW c \in Proc
             PROVE  /\ Alive(c)' => jail' = c
                    /\ cmd'[c] = "create" /\ report'[c] = "failed"
                         => child'[c] \in Dead
                    /\ CleanUp(c)' => child'[c] \in Dead
  BY DEF AliveInv
<1>1. child[c] \in Dead => child'[c] \in Dead
  BY DEF HostMoves, ProcessMoves
<1>2. ASSUME Alive(c)' PROVE jail' = c
  <2>1. jail = c
    BY <1>2 DEF HostMoves, ProcessMoves, AliveInv, WaitInv
  <2>2. ASSUME NEW r \in Proc, pc[r] = "remove_jail", mem[r].of = c
        PROVE  FALSE
    <3>1. child[c] \notin Dead
      BY <1>1, <1>2 DEF Alive, Outside, InJail, Dead
    <3>2. Alive(c) \/ pc[c] = "fork"
      BY <1>2 DEF HostMoves, ProcessMoves
    <3>3. CASE cmd[r] = "create"
      <4>1. r = c  BY <2>2, <3>3 DEF Recorded
      <4> QED  BY <2>2, <3>1, <3>3, <4>1 DEF AliveInv, CleanUp
    <3>4. CASE cmd[r] # "create"
      BY <2>2, <3>1, <3>4 DEF Roles, CleanupPcs, DeletedInv, Deleting,
         NoChild, Born
    <3> QED  BY <3>3, <3>4
  <2> QED  BY <2>1, <2>2 DEF HostMoves, JailMoves
<1>3. ASSUME cmd'[c] = "create", report'[c] = "failed"
      PROVE  child'[c] \in Dead
  <2>1. CASE cmd[c] = "create"
    BY <1>1, <1>3, <2>1 DEF HostMoves, ProcessMoves, AliveInv
  <2>2. CASE cmd[c] # "create"
    <3>1. PICK p \in Proc : Begins(p)
      BY <1>3, <2>2, KindFlight DEF Kinds, vars, ctlVars
    <3>2. p = c
      BY <1>3, <2>2, <3>1 DEF Begins, Invoke, ControlTypes
    <3>3. report'[c] = report[c] /\ pc[c] = "idle"
      BY <3>1, <3>2 DEF Begins, Invoke
    <3> QED  BY <1>3, <3>3 DEF WaitInv
  <2> QED  BY <2>1, <2>2
<1>4. CleanUp(c)' => child'[c] \in Dead
  BY <1>1, CleanUpBefore DEF AliveInv
<1> QED  BY <1>2, <1>3, <1>4

\* Every step preserves RemovedDead: a delete comes to the poststop hooks
\* only after it has found the process dead, or killed it.
LEMMA DeadStep ==
  ASSUME ControlTypes, Roles, DeletedInv, UsingInv, RemovedDead, HostMoves,
         Kinds, Born
  PROVE  RemovedDead'
<1> USE RuntimeStateAssumption
<1> SUFFICES ASSUME NEW c \in Proc, Removed(c)' PROVE child'[c] \in Dead
  BY DEF RemovedDead
<1>1. CASE Removed(c)
  BY <1>1 DEF RemovedDead, HostMoves, ProcessMoves
<1>2. CASE ~Removed(c)
  <2>1. PICK p \in Proc : Kind(p)
    BY <1>2 DEF Kinds, Begins, Invoke, vars, Removed, RunsHook
  <2>2. pc[p] = "poststop" /\ mem[p].of = c
    BY <1>2, <2>1, KindHooks DEF Removed
  <2>3. child[c] \in Dead
    BY <2>2 DEF Roles, DeletedInv, Deleting, NoChild, Born
  <2> QED  BY <2>3 DEF HostMoves, ProcessMoves
<1> QED  BY <1>1, <1>2

\* A create in flight, and a step of it, leave a started container alone:
\* there is none.
LEMMA CreateKeeps ==
  ASSUME ControlTypes, Control, Recorded, FileInv, MakingInv,
         NEW p \in Proc, Kind(p), cmd[p] = "create", InFlight(p),
         json.of \in Proc, json.status = "running"
  PROVE  json' = json
<1> USE RuntimeStateAssumption DEF exists
<1>1. exists
  BY DEF FileInv, NoFile
<1>2. Makes(p)
  BY DEF MakingInv
<1>3. ~MadeBy(p)
  BY DEF MadeBy
<1>4. ~Truncates(p) /\ ~Writes(p)
  BY <1>1, <1>2 DEF Truncates, Writes, Makes, Locking
<1>5. ~Unlinks(p)
  BY <1>1, <1>2, <1>3 DEF Unlinks, Makes
<1> QED
  BY <1>4, <1>5
     DEF Kind, Passes, record, Hooks, stateVars, dirVars, Opens, OpenLock,
         Locks, Loads, Lists, ListDir, Empties, RemoveDir, Checks, MakesDir,
         create_directories

\* Every step preserves RunningInv: as long as the process is alive no delete
\* has got to unlinking the file, and nobody saves that it has stopped.
LEMMA RunningStep ==
  ASSUME ControlTypes, ControlTypes', Control, Roles, Recorded, StoppedInv',
         FileInv, MakingInv, MakingInv', UsingInv, CurrentInv, RemovedDead,
         RunningInv, HostMoves, Kinds
  PROVE  RunningInv'
<1> USE RuntimeStateAssumption
<1>1. ASSUME NEW p \in Proc, Kind(p), NEW q \in Proc, pc'[q] \in StartPcs
      PROVE  mem'[q].status = "running"
  <2>1. \/ pc[q] \in StartPcs
        \/ p = q /\ Writes(p) /\ cmd[p] = "start"
    BY <1>1, KindFlight
       DEF Kind, Passes, Moves, CreateMoves, StartMoves, DeleteMoves,
           ExecMoves, OnlyMoves, Hooks, Opens, Locks, Loads, Truncates,
           Writes, Lists, Unlinks, Empties, Checks, MakesDir, AfterSave,
           StartPcs, ControlTypes
  <2>2. mem'[q].status = mem[q].status
    BY <1>1, <2>1, Describes DEF StartPcs, Loads, Checks, Writes
  <2>3. CASE pc[q] \in StartPcs
    BY <2>2, <2>3 DEF RunningInv
  <2>4. CASE p = q /\ Writes(p) /\ cmd[p] = "start"
    BY <2>2, <2>4, Written
  <2> QED  BY <2>1, <2>3, <2>4
<1>2. ASSUME NEW p \in Proc, Kind(p), NEW c \in Proc,
             RunsHook("prestart", c)', Alive(c)'
      PROVE  json'.of = c /\ json'.status = "running"
  <2>1. OnlyMoves(p) /\ cmd' = cmd  BY <1>2, KindFlight
  <2>2. Alive(c)
    <3>1. ASSUME pc[c] = "fork", pc'[c] = "save" PROVE FALSE
      BY <1>2, <2>1, <3>1 DEF MakingInv, Makes, InFlight, Control, CreatePcs
    <3> QED  BY <1>2, <3>1 DEF HostMoves, ProcessMoves
  <2>3. ~Removed(c)
    BY <2>2 DEF RemovedDead, Alive, Outside, InJail, Dead
  <2>4. CASE RunsHook("prestart", c)
    <3>1. json.of = c /\ json.status = "running"
      BY <2>2, <2>4 DEF RunningInv
    <3>2. Original /\ json.ino = c
      BY <2>3, <3>1 DEF FileInv, exists, NoFile
    <3>3. CASE cmd[p] = "create" /\ InFlight(p)
      BY <1>2, <3>1, <3>3, CreateKeeps
    <3>4. CASE cmd[p] = "create" => ~InFlight(p)
      <4>1. json'.of = c
        BY <1>2, <2>3, <3>1, <3>2, <3>4, OriginalStep
      <4>2. CASE ~Writes(p)
        BY <1>2, <3>1, <4>1, <4>2, StatusKept
      <4>3. CASE Writes(p)
        <5>1. json'.status # "stopped"
          BY <1>2, <4>1 DEF StoppedInv, Alive, Outside, InJail
        <5>2. cmd[p] # "create"
          BY <3>4, <4>3 DEF Writes, InFlight
        <5> QED  BY <3>1, <4>1, <4>3, <5>1, <5>2, Written
      <4> QED  BY <4>2, <4>3
    <3> QED  BY <3>3, <3>4
  <2>5. CASE ~RunsHook("prestart", c)
    <3>1. pc[p] = "prestart" /\ mem[p].of = c
      BY <1>2, <2>5, KindHooks
    <3>2. Using(p) /\ HasLoaded(p) /\ Relies(p)
      BY <3>1 DEF Roles, StartPcs, Using, InFlight, HasLoaded, Relies,
                  Critical, LockedPcs, HadHooks, Control, ExecPcs, IsExec
    <3>3. json.of = c
      BY <2>3, <3>1, <3>2, OnOriginal
    <3>4. json.status = "running"
      BY <2>3, <3>1, <3>2 DEF CurrentInv, RunningInv, StartPcs
    <3>5. Hooks(p, "prestart", "open_fifo")
      BY <1>2, <2>5, <3>1
         DEF Kind, Hooks, Opens, Locks, Loads, Truncates, Writes, Lists,
             Unlinks, Empties, Checks, MakesDir, Passes, HooksAsBefore,
             RunsHook
    <3>6. json' = json
      BY <3>5 DEF Hooks, record
    <3> QED  BY <3>3, <3>4, <3>6
  <2> QED  BY <2>4, <2>5
<1>3. ASSUME NEW p \in Proc, Begins(p) PROVE RunningInv'
  <2>1. /\ UNCHANGED <<mem, json, ran, child>>
        /\ \A q \in Proc \ {p} : pc'[q] = pc[q]
        /\ pc'[p] \in {"check", "exists", "open"}
    BY <1>3 DEF Begins, Invoke, stateVars, dirVars, hostVars, ControlTypes
  <2> QED  BY <2>1 DEF RunningInv, StartPcs, RunsHook, Alive
<1>4. CASE UNCHANGED vars
  BY <1>4 DEF RunningInv, RunsHook, Alive, vars, stateVars, dirVars, hostVars,
       ctlVars
<1> QED  BY <1>1, <1>2, <1>3, <1>4 DEF Kinds, RunningInv

\* The createRuntime hooks of c run when create c is there, only.
LEMMA MarkMoves ==
  ASSUME ControlTypes, Control, Recorded, NEW p \in Proc, Kind(p),
         NEW c \in Proc
  PROVE  RunsHook("createRuntime", c)' <=>
           \/ RunsHook("createRuntime", c)
           \/ /\ c = p /\ Passes(p) /\ cmd[p] = "create"
              /\ pc[p] = "createRuntime" /\ pc'[p] = "unlock"
<1>1. CASE Passes(p)
  <2>1. pc[p] = "createRuntime" => mem[p].of = p /\ cmd[p] = "create"
    BY DEF Control, CreatePcs, Recorded
  <2> QED  BY <1>1, <2>1 DEF Passes, RuntimeHooks, RunsHook
<1>2. CASE ~Passes(p)
  <2>1. \E phase \in {"prestart", "poststop"} :
          ran' = ran \/ ran' = ran \cup {<<phase, mem[p].of, p>>}
    BY <1>2 DEF Kind, Hooks, Opens, Locks, Loads, Truncates, Writes, Lists,
         Unlinks, Empties, Checks, MakesDir
  <2> QED  BY <1>2, <2>1 DEF RunsHook
<1> QED  BY <1>1, <1>2

\* Every step preserves MarkInv.
LEMMA MarkStep ==
  ASSUME ControlTypes, ControlTypes', Control, Roles, Recorded, MakingInv,
         MarkInv, Kinds
  PROVE  MarkInv'
<1>1. ASSUME NEW p \in Proc, Kind(p), NEW c \in Proc
      PROVE  /\ RunsHook("createRuntime", c)' =>
                  \/ pc'[c] \in {"unlock", "signal", "await", "done"}
                  \/ CleanUp(c)'
             /\ \/ /\ pc'[c] \in {"unlock", "signal", "await"}
                   /\ cmd'[c] = "create"
                \/ CleanUp(c)'
                => RunsHook("createRuntime", c)'
  <2>1. cmd' = cmd /\ OnlyMoves(p) /\ \A q \in Proc \ {p} : fd'[q] = fd[q]
    BY <1>1, KindFlight
  <2>2. Kinds  BY <1>1 DEF Kinds
  <2>3. CleanUp(c)' => RunsHook("createRuntime", c)
    BY <2>2, CleanUpBefore DEF MarkInv
  <2>4. CASE c # p
    <3>1. RunsHook("createRuntime", c)' <=> RunsHook("createRuntime", c)
      BY <1>1, <2>4, MarkMoves
    <3> QED  BY <2>1, <2>3, <2>4, <3>1 DEF MarkInv, OnlyMoves, CleanUp
  <2>5. CASE c = p /\ Passes(p)
    <3>1. \/ pc'[p] = pc[p] \/ pc'[p] = "done"
          \/ cmd[p] = "create" /\ <<pc[p], pc'[p]>> \in CreateMoves
          \/ /\ cmd[p] = "create" /\ fd[p] = NoProc
             /\ pc[p] = "rm" /\ pc'[p] = "mkdir"
          \/ cmd[p] # "create" /\ pc[p] # "done"
      BY <2>5 DEF Passes, Moves, IsDelete, IsExec, StartMoves, DeleteMoves,
                  ExecMoves
    <3>2. fd' = fd  BY <2>5 DEF Passes, record
    <3>3. pc[p] \in {"unlock", "signal", "await"} => cmd[p] = "create"
      BY DEF Control, CreatePcs
    <3>4. cmd[p] # "create" => ~RunsHook("createRuntime", p) \/ pc[p] = "done"
      BY <3>3 DEF MarkInv, CleanUp
    <3>5. CASE RunsHook("createRuntime", p)
      <4>1. RunsHook("createRuntime", p)'
        BY <1>1, <3>5, MarkMoves
      <4>2. pc[p] \in {"unlock", "signal", "await", "done"} \/ CleanUp(p)
        BY <3>5 DEF MarkInv
      <4>3. CASE pc[p] = "done"
        BY <2>5, <3>1, <4>1, <4>3 DEF CreateMoves
      <4>4. CASE pc[p] # "done"
        <5>1. cmd[p] = "create" /\ pc[p] # "createRuntime"
          BY <3>4, <3>5, <4>2, <4>4 DEF CleanUp
        <5>2. CleanUp(p) \/ pc[p] \notin {"rm", "unlink"}
          BY <4>2
        <5>3. \/ pc'[p] \in {"unlock", "signal", "await", "done",
                              "remove_jail", "unmount"}
              \/ pc'[p] \in {"rm", "unlink"} /\ fd[p] # NoProc
          BY <3>1, <3>5, <4>2, <4>4, <5>1, <5>2, RuntimeStateAssumption
             DEF CleanUp, CreateMoves, Control, HasFile
        <5> QED  BY <2>1, <2>5, <3>2, <4>1, <5>1, <5>3 DEF CleanUp
      <4> QED  BY <4>3, <4>4
    <3>6. CASE ~RunsHook("createRuntime", p)
      <4>1. ~CleanUp(p)'  BY <2>3, <2>5, <3>6
      <4>2. pc[p] \notin {"unlock", "signal", "await"}
        BY <3>3, <3>6 DEF MarkInv
      <4>3. pc[p] = "createRuntime" /\ pc'[p] = "unlock"
            => cmd[p] = "create"
        BY DEF Control, CreatePcs
      <4>4. pc'[p] \in {"unlock", "signal", "await"} /\ cmd[p] = "create"
            => pc[p] = "createRuntime" /\ pc'[p] = "unlock"
        BY <3>1, <4>2 DEF CreateMoves
      <4>5. RunsHook("createRuntime", p)' =>
              pc[p] = "createRuntime" /\ pc'[p] = "unlock"
        BY <1>1, <3>6, MarkMoves
      <4>6. pc[p] = "createRuntime" /\ pc'[p] = "unlock" =>
              RunsHook("createRuntime", p)'
        BY <1>1, <2>5, <4>3, MarkMoves
      <4> QED  BY <2>1, <2>5, <4>1, <4>4, <4>5, <4>6
    <3> QED  BY <3>5, <3>6
  <2>6. CASE c = p /\ ~Passes(p)
    <3>1. RunsHook("createRuntime", p)' <=> RunsHook("createRuntime", p)
      BY <1>1, <2>6, MarkMoves
    <3>2. pc'[p] \notin {"unlock", "signal", "await"}
      BY <1>1, <2>1, <2>6
         DEF Kind, Hooks, Opens, Locks, Loads, Truncates, Writes, Lists,
             Unlinks, Empties, Checks, MakesDir, AfterSave, ControlTypes
    <3>3. ASSUME RunsHook("createRuntime", p)
          PROVE  pc'[p] = "done" \/ CleanUp(p)'
      <4>1. pc[p] \in {"unlock", "signal", "await", "done"} \/ CleanUp(p)
        BY <3>3 DEF MarkInv
      <4>2. Lists(p) \/ Unlinks(p) \/ Empties(p)
        BY <1>1, <2>6, <4>1
           DEF CleanUp, Kind, Hooks, Opens, Locks, Loads, Truncates, Writes,
               Checks, MakesDir
      <4>3. CleanUp(p) /\ fd' = fd
        BY <4>1, <4>2 DEF Lists, ListDir, Unlinks, Unlink, Empties
      <4> QED  BY <2>1, <4>2, <4>3
               DEF CleanUp, Lists, Unlinks, Empties, ControlTypes
    <3> QED  BY <2>3, <2>6, <3>1, <3>2, <3>3
  <2> QED  BY <2>4, <2>5, <2>6
<1>2. ASSUME NEW p \in Proc, Begins(p) PROVE MarkInv'
  <2>1. /\ UNCHANGED <<fd, ran>>
        /\ \A q \in Proc \ {p} : pc'[q] = pc[q] /\ cmd'[q] = cmd[q]
        /\ pc[p] = "idle" /\ pc'[p] \in {"check", "exists", "open"}
    BY <1>2 DEF Begins, Invoke, stateVars, dirVars, hostVars, ControlTypes
  <2> QED  BY <2>1 DEF MarkInv, CleanUp, RunsHook
<1>3. CASE UNCHANGED vars
  BY <1>3 DEF MarkInv, CleanUp, RunsHook, vars, stateVars, ctlVars
<1> QED  BY <1>1, <1>2, <1>3 DEF Kinds, MarkInv

-----------------------------------------------------------------------------
(* The mapping, case by case.                                              *)

\* PhaseOf, by what is recorded of the container.
LEMMA Phases ==
  ASSUME NEW c \in Proc
  PROVE  /\ Removed(c) => PhaseOf(c) = "removed"
         /\ ~Removed(c) /\ json.of = c => PhaseOf(c) = json.status
         /\ ~Removed(c) /\ json.of # c =>
              PhaseOf(c) = IF RunsHook("createRuntime", c) THEN "removed"
                                                           ELSE "none"
BY DEF PhaseOf

\* The same of the phase in the next state.
LEMMA PhasesNext ==
  ASSUME NEW c \in Proc
  PROVE  /\ Removed(c)' => PhaseOf(c)' = "removed"
         /\ ~Removed(c)' /\ json'.of = c => PhaseOf(c)' = json'.status
         /\ ~Removed(c)' /\ json'.of # c =>
              PhaseOf(c)' = IF RunsHook("createRuntime", c)' THEN "removed"
                                                             ELSE "none"
BY DEF PhaseOf

\* ProcessOf, by the step at which the container process is.
LEMMA Processes ==
  ASSUME NEW c \in Proc
  PROVE  /\ child[c] = "none" => ProcessOf(c) = "none"
         /\ child[c] = "running" => ProcessOf(c) = "user"
         /\ child[c] \in Dead => ProcessOf(c) = "dead"
         /\ Alive(c) /\ child[c] # "running" => ProcessOf(c) = "waiting"
BY DEF ProcessOf, Alive, Outside, InJail, Dead

\* The same of the process in the next state.
LEMMA ProcessesNext ==
  ASSUME NEW c \in Proc
  PROVE  /\ child'[c] = "none" => ProcessOf(c)' = "none"
         /\ child'[c] = "running" => ProcessOf(c)' = "user"
         /\ child'[c] \in Dead => ProcessOf(c)' = "dead"
         /\ Alive(c)' /\ child'[c] # "running" => ProcessOf(c)' = "waiting"
BY DEF ProcessOf, Alive, Outside, InJail, Dead

\* A step that changes the phase, or the process, of c at most.
PhaseBecomes(c, st) ==
  \A d \in Proc : PhaseOf(d)' = IF d = c THEN st ELSE PhaseOf(d)
ProcessBecomes(c, st) ==
  \A d \in Proc : ProcessOf(d)' = IF d = c THEN st ELSE ProcessOf(d)
PhasesKept    == \A d \in Proc : PhaseOf(d)' = PhaseOf(d)
ProcessesKept == \A d \in Proc : ProcessOf(d)' = ProcessOf(d)

\* A step that keeps both is a stutter of Lifecycle.
LEMMA Stutters ==
  ASSUME PhasesKept, ProcessesKept
  PROVE  UNCHANGED Promise!vars
BY DEF PhasesKept, ProcessesKept, Promise!vars

\* A change of one phase that is a step of Lifecycle: Record, Start, Stop or
\* Remove.
LEMMA PhaseSteps ==
  ASSUME NEW c \in Proc, NEW st, PhaseBecomes(c, st), ProcessesKept,
         \/ /\ PhaseOf(c) = "none" /\ ProcessOf(c) # "none"
            /\ st = "created"
         \/ PhaseOf(c) = "created" /\ st = "running"
         \/ /\ PhaseOf(c) \in {"created", "running"} /\ ProcessOf(c) = "dead"
            /\ st = "stopped"
         \/ /\ PhaseOf(c) \in {"created", "running", "stopped"}
            /\ ProcessOf(c) = "dead" /\ st = "removed"
  PROVE  Promise!Next
<1>1. /\ [d \in Proc |-> PhaseOf(d)]'
           = [[d \in Proc |-> PhaseOf(d)] EXCEPT ![c] = st]
      /\ UNCHANGED [d \in Proc |-> ProcessOf(d)]
  BY DEF PhaseBecomes, ProcessesKept
<1>2. /\ [d \in Proc |-> PhaseOf(d)][c] = PhaseOf(c)
      /\ [d \in Proc |-> ProcessOf(d)][c] = ProcessOf(c)
  OBVIOUS
<1>3. \/ Promise!Record(c) \/ Promise!Start(c) \/ Promise!Stop(c)
      \/ Promise!Remove(c)
  BY <1>1, <1>2
     DEF Promise!Record, Promise!Start, Promise!Stop, Promise!Remove
<1> QED  BY <1>3 DEF Promise!Next

\* A change of one process that is a step of Lifecycle: Fork, Exec or Die.
LEMMA ProcessSteps ==
  ASSUME NEW c \in Proc, NEW st, PhasesKept, ProcessBecomes(c, st),
         \/ /\ ProcessOf(c) = "none" /\ st = "waiting"
            /\ \A d \in Proc : /\ PhaseOf(d) \in {"none", "removed"}
                               /\ ProcessOf(d) \in {"none", "dead"}
         \/ /\ PhaseOf(c) = "running" /\ ProcessOf(c) = "waiting"
            /\ st = "user"
         \/ ProcessOf(c) \in {"waiting", "user"} /\ st = "dead"
  PROVE  Promise!Next
<1>1. /\ [d \in Proc |-> ProcessOf(d)]'
           = [[d \in Proc |-> ProcessOf(d)] EXCEPT ![c] = st]
      /\ UNCHANGED [d \in Proc |-> PhaseOf(d)]
  BY DEF ProcessBecomes, PhasesKept
<1>2. \A d \in Proc : /\ [e \in Proc |-> PhaseOf(e)][d] = PhaseOf(d)
                      /\ [e \in Proc |-> ProcessOf(e)][d] = ProcessOf(d)
  OBVIOUS
<1>3. Promise!Fork(c) \/ Promise!Exec(c) \/ Promise!Die(c)
  BY <1>1, <1>2
     DEF Promise!Fork, Promise!Absent, Promise!Exec, Promise!Die
<1> QED  BY <1>3 DEF Promise!Next

-----------------------------------------------------------------------------
(* The steps.                                                              *)

\* All that the mapping rests on.
RefineInv ==
  /\ ContainerInv /\ Born /\ AliveInv /\ RemovedDead /\ RunningInv /\ MarkInv

\* What does not touch the record, nor the hooks that mark its changes,
\* changes no phase.
LEMMA PhasesStay ==
  ASSUME json'.of = json.of, json'.status = json.status,
         \A c \in Proc :
           /\ Removed(c)' <=> Removed(c)
           /\ RunsHook("createRuntime", c)' <=> RunsHook("createRuntime", c)
  PROVE  PhasesKept
BY Phases, PhasesNext DEF PhasesKept

\* What does not touch a container process changes no process.
LEMMA ProcessesStay ==
  ASSUME child' = child
  PROVE  ProcessesKept
BY DEF ProcessesKept, ProcessOf, Alive

\* A fork finds the id free: nothing is recorded, nobody is alive.
LEMMA ForkIsFree ==
  ASSUME RefineInv, NEW c \in Proc, pc[c] = "fork", NEW d \in Proc
  PROVE  /\ PhaseOf(d) \in {"none", "removed"}
         /\ ProcessOf(d) \in {"none", "dead"}
<1> USE RuntimeStateAssumption
     DEF RefineInv, ContainerInv, OnlyOnceInv, LockingInv
<1>1. json.of = NoProc
  BY DEF Control, CreatePcs, InFlight, MakingInv, Makes, Locking, FileInv,
         NoFile
<1>2. ~Alive(d)
  BY DEF AliveInv, WaitInv, Control, PreFork, Alive, Outside, InJail
<1>3. child[d] \in {"none"} \cup Dead
  BY <1>2 DEF ControlTypes, ChildPcs, Alive, Born
<1> QED  BY <1>1, <1>3, Phases, Processes

\* A step at which the process of c does something is one of Lifecycle's, or
\* none that shows.
LEMMA ProcessHalf ==
  ASSUME RefineInv, Born', ControlTypes', HostMoves, Kinds, PhasesKept,
         NEW c \in Proc, child' = [child EXCEPT ![c] = child'[c]]
  PROVE  Promise!Next \/ UNCHANGED Promise!vars
<1> USE DEF RefineInv, ContainerInv, OnlyOnceInv, LockingInv
<1>1. /\ ProcessMoves(c)
      /\ child[c] \in ChildPcs \ {"unborn"}
      /\ child'[c] \in ChildPcs \ {"unborn"}
  BY DEF HostMoves, ControlTypes, Born
<1>2. \A d \in Proc \ {c} : child'[d] = child[d]
  BY DEF ControlTypes
<1>3. \A d \in Proc \ {c} : ProcessOf(d)' = ProcessOf(d)
  BY <1>2 DEF ProcessOf, Alive
<1>4. ASSUME NEW st, ProcessOf(c)' = st PROVE ProcessBecomes(c, st)
  BY <1>3, <1>4 DEF ProcessBecomes
<1>5. CASE child[c] = "none"
  <2>1. CASE child'[c] = "none"
    <3>1. ProcessesKept
      BY <1>3, <1>5, <2>1, Processes, ProcessesNext DEF ProcessesKept
    <3> QED  BY <3>1, Stutters
  <2>2. CASE child'[c] # "none"
    <3>1. Alive(c)' /\ child'[c] # "running" /\ pc[c] = "fork"
      BY <1>1, <1>5, <2>2
         DEF ProcessMoves, Alive, ChildPcs, Outside, InJail, Dead
    <3>2. ProcessOf(c) = "none" /\ ProcessBecomes(c, "waiting")
      BY <1>4, <1>5, <3>1, Processes, ProcessesNext
    <3> QED  BY <3>1, <3>2, ForkIsFree, ProcessSteps
  <2> QED  BY <2>1, <2>2
<1>6. CASE child[c] \in Dead
  <2>1. child'[c] \in Dead  BY <1>1, <1>6 DEF ProcessMoves
  <2>2. ProcessesKept
    BY <1>3, <1>6, <2>1, Processes, ProcessesNext DEF ProcessesKept
  <2> QED  BY <2>2, Stutters
<1>7. CASE Alive(c)
  <2>1. child'[c] # "none"
    BY <1>7 DEF Kinds, Lasting, Alive, Outside, InJail
  <2>2. ProcessOf(c) = IF child[c] = "running" THEN "user" ELSE "waiting"
    BY <1>7, Processes
  <2>3. CASE child'[c] \in Dead
    <3>1. ProcessBecomes(c, "dead")
      BY <1>4, <2>3, ProcessesNext
    <3> QED  BY <2>2, <3>1, ProcessSteps
  <2>4. CASE child'[c] \notin Dead /\ (child'[c] = "running"
                                       <=> child[c] = "running")
    <3>1. Alive(c)'  BY <1>1, <2>1, <2>4 DEF ChildPcs, Alive
    <3>2. ProcessesKept
      BY <1>3, <2>2, <2>4, <3>1, ProcessesNext DEF ProcessesKept
    <3> QED  BY <3>2, Stutters
  <2>5. CASE child'[c] = "running" /\ child[c] # "running"
    <3>1. child[c] = "exec"
      BY <1>1, <2>5 DEF ProcessMoves
    <3>2. RunsHook("prestart", c)
      BY <3>1 DEF StartBeforeRun
    <3>3. json.of = c /\ json.status = "running"
      BY <1>7, <3>2 DEF RunningInv
    <3>4. ~Removed(c)
      BY <3>1 DEF RemovedDead, Dead
    <3>5. PhaseOf(c) = "running" /\ ProcessOf(c) = "waiting"
      BY <2>2, <2>5, <3>3, <3>4, Phases
    <3>6. ProcessBecomes(c, "user")
      BY <1>4, <2>5, ProcessesNext
    <3> QED  BY <3>5, <3>6, ProcessSteps
  <2> QED  BY <1>1, <2>3, <2>4, <2>5 DEF ProcessMoves
<1> QED  BY <1>1, <1>5, <1>6, <1>7 DEF ChildPcs, Alive

\* The second half of a save() records a container, starts it or stops it;
\* of a container that has been removed, it shows nothing.
LEMMA WriteHalf ==
  ASSUME RefineInv, ControlTypes', ProcessesKept, NEW p \in Proc, Writes(p)
  PROVE  Promise!Next \/ UNCHANGED Promise!vars
<1> USE RuntimeStateAssumption
     DEF RefineInv, ContainerInv, OnlyOnceInv, LockingInv
<1> DEFINE c == mem[p].of
<1>1. c \in Proc /\ ran' = ran /\ pc[p] = "write" /\ InFlight(p)
  BY Written DEF Writes, InFlight
<1>2. \A d \in Proc :
        /\ Removed(d)' <=> Removed(d)
        /\ RunsHook("createRuntime", d)' <=> RunsHook("createRuntime", d)
  BY <1>1 DEF Removed, RunsHook
<1>3. CASE json' = json
  <2>1. PhasesKept  BY <1>2, <1>3, PhasesStay
  <2> QED  BY <2>1, Stutters
<1>4. CASE json' # json
  <2>1. /\ exists /\ json.ino = mem[p].out
        /\ json'.of = c /\ json'.status = mem[p].status
    BY <1>4, Written
  <2>2. CASE cmd[p] = "create"
    <3>1. c = p /\ mem[p].status = "created" /\ json.of = NoProc
      BY <2>2, Written
    <3>2. ~Removed(c) /\ ~RunsHook("createRuntime", c)
      BY <1>1, <2>2, <3>1 DEF MakingInv, Makes, MarkInv, CleanUp
    <3>3. PhaseOf(c) = "none" /\ PhaseBecomes(c, "created")
      BY <1>1, <1>2, <2>1, <3>1, <3>2, Phases, PhasesNext DEF PhaseBecomes
    <3>4. child[c] \in ChildPcs \ {"none", "unborn"}
      BY <1>1, <2>2, <3>1 DEF Control, Forked, ControlTypes, Born
    <3>5. ProcessOf(c) # "none"
      BY <1>1, <3>4, Processes DEF Alive, ChildPcs
    <3> QED  BY <1>1, <3>3, <3>5, PhaseSteps
  <2>3. CASE cmd[p] # "create" /\ Removed(c)
    <3>1. \A d \in Proc \ {c} : json.of = d => Removed(d)
      BY <1>1, <2>1, <2>3, Written DEF FileInv, Original, exists
    <3>2. PhasesKept
      BY <1>1, <1>2, <2>1, <2>3, <3>1, Phases, PhasesNext DEF PhasesKept
    <3> QED  BY <3>2, Stutters
  <2>4. CASE cmd[p] # "create" /\ ~Removed(c)
    <3>1. Original /\ json.of = c
      BY <2>4, Written
    <3>2. PhaseOf(c) = json.status
      BY <1>1, <2>4, <3>1, Phases
    <3>3. PhaseBecomes(c, mem[p].status)
      BY <1>1, <1>2, <2>1, <2>4, <3>1, Phases, PhasesNext DEF PhaseBecomes
    <3>4. json.status \in {"created", "running", "stopped"}
      BY <1>1, <3>1 DEF FileInv, ControlTypes, JsonType, Status
    <3>5. CASE cmd[p] = "start"
      <4>1. mem[p].status = "running" /\ json.status = "created"
        BY <1>1, <2>4, <3>1, <3>5, Written DEF StartInv, Guarded, Saving
      <4> QED  BY <1>1, <3>2, <3>3, <4>1, PhaseSteps
    <3>6. CASE cmd[p] # "start"
      <4>1. mem[p].status = "stopped"
        BY <2>4, <3>6, Written
      <4>2. child[c] \in Dead
        BY <1>1, <4>1 DEF StoppedInv, Dead
      <4>3. ProcessOf(c) = "dead"
        BY <1>1, <4>2, Processes
      <4>4. CASE json.status = "stopped"
        <5>1. PhasesKept
          BY <1>1, <3>2, <3>3, <4>1, <4>4 DEF PhasesKept, PhaseBecomes
        <5> QED  BY <5>1, Stutters
      <4>5. CASE json.status # "stopped"
        BY <1>1, <3>2, <3>3, <3>4, <4>1, <4>3, <4>5, PhaseSteps
      <4> QED  BY <4>4, <4>5
    <3> QED  BY <3>5, <3>6
  <2> QED  BY <2>2, <2>3, <2>4
<1> QED  BY <1>3, <1>4

\* An unlink() of state.json shows only in the cleanup of a create: a delete
\* has run its poststop hooks by then.
LEMMA UnlinkHalf ==
  ASSUME RefineInv, ControlTypes', ProcessesKept, NEW p \in Proc, Unlinks(p)
  PROVE  Promise!Next \/ UNCHANGED Promise!vars
<1> USE RuntimeStateAssumption
     DEF RefineInv, ContainerInv, OnlyOnceInv, LockingInv
<1>1. /\ ran' = ran /\ pc[p] = "unlink" /\ InFlight(p)
      /\ json' = json \/ json' = NoFile
  BY DEF Unlinks, Unlink, InFlight
<1>2. \A d \in Proc :
        /\ Removed(d)' <=> Removed(d)
        /\ RunsHook("createRuntime", d)' <=> RunsHook("createRuntime", d)
  BY <1>1 DEF Removed, RunsHook
<1>3. CASE json' = json
  <2>1. PhasesKept  BY <1>2, <1>3, PhasesStay
  <2> QED  BY <2>1, Stutters
<1>4. CASE json' = NoFile /\ json' # json
  <2>1. json'.of = NoProc /\ exists
    BY <1>4 DEF NoFile, FileInv
  <2>2. CASE cmd[p] = "create"
    <3>1. fd[p] # NoProc /\ MadeBy(p) /\ ~Removed(p)
      BY <1>1, <2>1, <2>2 DEF MakingInv, Makes
    <3>2. json.of = p /\ json.status = "created"
      BY <3>1 DEF MadeBy
    <3>3. CleanUp(p)
      BY <1>1, <2>2, <3>1 DEF CleanUp
    <3>4. RunsHook("createRuntime", p) /\ child[p] \in Dead
      BY <3>3 DEF MarkInv, AliveInv
    <3>5. PhaseOf(p) = "created" /\ ProcessOf(p) = "dead"
      BY <3>1, <3>2, <3>4, Phases, Processes
    <3>6. PhaseBecomes(p, "removed")
      BY <1>2, <2>1, <3>1, <3>2, <3>4, Phases, PhasesNext DEF PhaseBecomes
    <3> QED  BY <3>5, <3>6, PhaseSteps
  <2>3. CASE cmd[p] # "create"
    <3>1. Original => Removed(json.ino) /\ json.of \in {NoProc, json.ino}
      <4>1. Using(p)  BY <1>1, <2>3 DEF Using
      <4>2. Original => HasEnded(p) /\ mem[p].of \in Proc
        BY <1>1, <4>1 DEF UsingInv, Uses, HasLoaded
      <4>3. Original => mem[p].of = json.ino
        BY <4>1, <4>2 DEF UsingInv, Uses
      <4> QED  BY <4>2, <4>3 DEF HasEnded, Removed, RunsHook, FileInv
    <3>2. \A d \in Proc : json.of = d => Removed(d)
      BY <2>1, <3>1 DEF FileInv
    <3>3. PhasesKept
      BY <1>2, <2>1, <3>2, Phases, PhasesNext DEF PhasesKept
    <3> QED  BY <3>3, Stutters
  <2> QED  BY <2>2, <2>3
<1> QED  BY <1>1, <1>3, <1>4

\* The poststop hooks are the end of a container whose process is dead.  If
\* they run again, there is nothing left to end.
LEMMA PoststopHalf ==
  ASSUME RefineInv, ProcessesKept, NEW p \in Proc,
         Hooks(p, "poststop", "rm")
  PROVE  Promise!Next \/ UNCHANGED Promise!vars
<1> USE RuntimeStateAssumption
     DEF RefineInv, ContainerInv, OnlyOnceInv, LockingInv
<1> DEFINE c == mem[p].of
<1>1. /\ pc[p] = "poststop" /\ IsDelete(p) /\ json' = json
      /\ ran' = ran \cup {<<"poststop", c, p>>}
  BY DEF Hooks, Roles, record
<1>2. Using(p) /\ HasLoaded(p) /\ c \in Proc
  BY <1>1 DEF Using, InFlight, IsDelete, HasLoaded, UsingInv, Uses
<1>3. /\ \A d \in Proc : Removed(d)' <=> Removed(d) \/ d = c
      /\ \A d \in Proc :
           RunsHook("createRuntime", d)' <=> RunsHook("createRuntime", d)
  BY <1>1, <1>2 DEF Removed, RunsHook
<1>4. CASE Removed(c)
  <2>1. PhasesKept
    BY <1>1, <1>3, <1>4, PhasesStay
  <2> QED  BY <2>1, Stutters
<1>5. CASE ~Removed(c)
  <2>1. Original /\ json.of = c
    BY <1>2, <1>5, OnOriginal
  <2>2. json.status \in {"created", "running", "stopped"}
    BY <1>2, <2>1 DEF FileInv, ControlTypes, JsonType, Status
  <2>3. child[c] \in Dead
    BY <1>1, <1>2 DEF DeletedInv, Deleting, NoChild, Born
  <2>4. PhaseOf(c) = json.status /\ ProcessOf(c) = "dead"
    BY <1>2, <1>5, <2>1, <2>3, Phases, Processes
  <2>5. PhaseBecomes(c, "removed")
    BY <1>1, <1>2, <1>3, <2>1, Phases, PhasesNext DEF PhaseBecomes
  <2> QED  BY <1>2, <2>2, <2>4, <2>5, PhaseSteps
<1> QED  BY <1>4, <1>5

\* A step at which no process does anything is one of Lifecycle's, or none
\* that shows.
LEMMA PhaseHalf ==
  ASSUME RefineInv, ControlTypes', Kinds, child' = child
  PROVE  Promise!Next \/ UNCHANGED Promise!vars
<1> USE RuntimeStateAssumption
     DEF RefineInv, ContainerInv, OnlyOnceInv, LockingInv
<1>1. ProcessesKept  BY ProcessesStay
<1>2. ASSUME NEW p \in Proc, Kind(p),
             ~Writes(p), ~Unlinks(p), ~Hooks(p, "poststop", "rm")
      PROVE  PhasesKept
  <2>1. json'.of = json.of /\ json'.status = json.status
    <3>1. CASE Truncates(p)
      BY <3>1, Truncated DEF FileInv, NoFile, ControlTypes, JsonType
    <3>2. CASE ~Truncates(p)
      BY <1>2, <3>2
         DEF Kind, Passes, record, Hooks, dirVars, Opens, OpenLock,
             Locks, Loads, Lists, ListDir, Empties, RemoveDir, Checks,
             MakesDir, create_directories
    <3> QED  BY <3>1, <3>2
  <2>2. \A d \in Proc : Removed(d)' <=> Removed(d)
    <3>1. CASE Passes(p)
      BY <3>1 DEF Passes, HooksAsBefore, Removed, RunsHook
    <3>2. CASE ~Passes(p)
      <4>1. ran' = ran \/ ran' = ran \cup {<<"prestart", mem[p].of, p>>}
        BY <1>2, <3>2 DEF Kind, Hooks, Opens, Locks, Loads, Truncates, Lists,
                          Empties, Checks, MakesDir
      <4> QED  BY <4>1 DEF Removed, RunsHook
    <3> QED  BY <3>1, <3>2
  <2>3. CASE \A d \in Proc :
               RunsHook("createRuntime", d)' <=> RunsHook("createRuntime", d)
    BY <2>1, <2>2, <2>3, PhasesStay
  <2>4. CASE /\ Passes(p) /\ cmd[p] = "create" /\ pc[p] = "createRuntime"
             /\ \A d \in Proc \ {p} :
                  RunsHook("createRuntime", d)'
                    <=> RunsHook("createRuntime", d)
    <3>1. json.of = p
      BY <2>4 DEF MakingInv, Makes, InFlight, MadeBy
    <3> QED  BY <2>1, <2>2, <2>4, <3>1, Phases, PhasesNext DEF PhasesKept
  <2> QED  BY <1>2, <2>3, <2>4, MarkMoves
<1>3. ASSUME NEW p \in Proc, Kind(p)
      PROVE  Promise!Next \/ UNCHANGED Promise!vars
  BY <1>1, <1>2, <1>3, WriteHalf, UnlinkHalf, PoststopHalf, Stutters
<1>4. ASSUME UNCHANGED <<json, ran>>
      PROVE  UNCHANGED Promise!vars
  <2>1. PhasesKept  BY <1>4, PhasesStay DEF Removed, RunsHook
  <2> QED  BY <1>1, <2>1, Stutters
<1> QED  BY <1>3, <1>4 DEF Kinds, Begins, Invoke, vars, stateVars, dirVars

-----------------------------------------------------------------------------
(* The theorem.                                                            *)

\* The invariant of the mapping holds of every instance in which nothing
\* overlaps with a create, every hook can be executed, and fork() works.
LEMMA RefineInvariant ==
  ASSUME Overlap = {}, Faults \cap {"hook", "fork"} = {}
  PROVE  Spec => []RefineInv
<1> USE RuntimeStateAssumption
<1>1. Init => Born /\ AliveInv /\ RemovedDead /\ RunningInv /\ MarkInv
  BY DEF Init, StateInit, HostInit, CommandsInit, AliveInv, Alive, Outside,
         InJail, CleanUp, RemovedDead, Removed, RunsHook, RunningInv, StartPcs,
         MarkInv, Born
<1>2. RefineInv /\ ContainerInv' /\ [Next]_vars => RefineInv'
  <2> SUFFICES ASSUME RefineInv, ContainerInv', [Next]_vars
               PROVE  RefineInv'
    OBVIOUS
  <2> USE DEF RefineInv, ContainerInv, OnlyOnceInv, LockingInv
  <2>1. Kinds  BY StepKinds DEF TypeOK
  <2>2. HostMoves  BY HostSteps DEF TypeOK
  <2>3. Born'  BY <2>2 DEF Born, HostMoves, ProcessMoves
  <2>5. AliveInv' /\ RemovedDead'  BY <2>1, <2>2, AliveStep, DeadStep
  <2>4. RunningInv' /\ MarkInv'  BY <2>1, <2>2, RunningStep, MarkStep
  <2> QED  BY <2>3, <2>4, <2>5
<1> QED  BY <1>1, <1>2, ContainerInvariant, PTL DEF Spec, RefineInv

\* ImplementsLifecycle holds of every instance in which nothing overlaps with
\* a create, every hook can be executed, and fork() works: whatever the
\* commands do at the same time, and wherever they are killed, one container
\* holds the id at a time, its command runs only once it is recorded as
\* running, and what is recorded as stopped or removed is dead.
THEOREM ImplementsLifecycleAlways ==
  ASSUME Overlap = {}, Faults \cap {"hook", "fork"} = {}
  PROVE  Spec => ImplementsLifecycle
<1>1. Init => Promise!Init
  <2> SUFFICES ASSUME Init PROVE Promise!Init
    OBVIOUS
  <2>1. \A c \in Proc : PhaseOf(c) = "none" /\ ProcessOf(c) = "none"
    BY RuntimeStateAssumption, Phases, Processes
       DEF Init, StateInit, HostInit, CommandsInit, NoFile, Removed, RunsHook
  <2> QED  BY <2>1 DEF Promise!Init
<1>2. RefineInv /\ RefineInv' /\ [Next]_vars => [Promise!Next]_(Promise!vars)
  <2> SUFFICES ASSUME RefineInv, RefineInv', [Next]_vars
               PROVE  Promise!Next \/ UNCHANGED Promise!vars
    OBVIOUS
  <2> USE DEF RefineInv, ContainerInv, OnlyOnceInv, LockingInv
  <2>1. Kinds  BY StepKinds DEF TypeOK
  <2>2. HostMoves  BY HostSteps DEF TypeOK
  <2>3. CASE child' = child
    BY <2>1, <2>3, PhaseHalf
  <2>4. CASE /\ json' = json
             /\ \A phase \in Marks, c, q \in Proc :
                  <<phase, c, q>> \in ran' <=> <<phase, c, q>> \in ran
             /\ \E c \in Proc : child' = [child EXCEPT ![c] = child'[c]]
    <3>1. \A c \in Proc :
            /\ Removed(c)' <=> Removed(c)
            /\ RunsHook("createRuntime", c)' <=> RunsHook("createRuntime", c)
      BY <2>4 DEF Marks, Removed, RunsHook
    <3>2. PhasesKept  BY <2>4, <3>1, PhasesStay
    <3> QED  BY <2>1, <2>2, <2>4, <3>2, ProcessHalf
  <2> QED  BY <2>2, <2>3, <2>4 DEF HostMoves, Apart
<1> QED  BY <1>1, <1>2, RefineInvariant, PTL
         DEF Spec, ImplementsLifecycle, Promise!Spec
=============================================================================
