-------------------------- MODULE ExclusionProofs --------------------------
(***************************************************************************)
(* Theorems about what the lock of a container is for, for every set of    *)
(* invocations, commands and faults, if nothing overlaps with a create     *)
(* (Overlap = {}):                                                         *)
(*   - what a command in its critical section has loaded is what           *)
(*     state.json says, until a delete removes it (LoadedIsCurrent);       *)
(*   - the poststop hooks of a container run once for all those who have   *)
(*     come to it through one lock file (PoststopOnce).                    *)
(* The lock is an inode, and a delete may unlink its name while others     *)
(* hold or wait for it.  The argument therefore is that the file that      *)
(* create made (Original) keeps its lock file until a delete of it has run *)
(* the poststop hooks (Removed), so that two commands which keep a lock    *)
(* keep the same one, and are one.                                         *)
(*                                                                         *)
(* The module begins with lemmas on what a step does to the record of a    *)
(* container, to its lock and to the history of the hooks, whichever of    *)
(* the sixty actions it is an instance of: one of fourteen kinds (Kinds).  *)
(* The invariants here and in the modules that extend this one are about   *)
(* those variables, and their proofs go through the kinds instead of the   *)
(* actions.                                                                *)
(***************************************************************************)
EXTENDS CleanupProofs

\* Steps that start takes once it has saved the state.
StartPcs == {"prestart", "open_fifo", "write_fifo", "close_fifo",
             "poststart"}

\* Which command is at which step, beyond what Control says.
Roles ==
  \A p \in Proc :
    /\ pc[p] \in StartPcs => cmd[p] = "start"
    /\ pc[p] \in {"decide", "poststop"} => IsDelete(p)
    /\ pc[p] \in CleanupPcs => cmd[p] = "create" \/ IsDelete(p)
    /\ pc[p] \in {"save", "write"} =>
         cmd[p] \notin {"none", "kill", "exec", "exec_detached"}
    /\ pc[p] = "exec_fork" => IsExec(p)
    /\ pc[p] = "exists" => IsDelete(p) \/ cmd[p] = "list"
    /\ pc[p] = "kill" => cmd[p] = "kill"
    /\ pc[p] = "return" => cmd[p] # "create" /\ ~IsDelete(p)
    /\ pc[p] # "idle" => cmd[p] # "none"

-----------------------------------------------------------------------------
(* The kinds of steps.                                                     *)

\* What only Invoke, the lock, load(), save() and remove_all() change.
record == <<dir, json, lockFile, listing, fd, mem, cmd>>

\* Every step of every command leaves these alone but for its own p.
OnlyMoves(p) == \A q \in Proc \ {p} : pc'[q] = pc[q]

\* A container has no second process, and no second jail, and nobody but its
\* create mounts anything for it; who is dead stays dead.
Lasting ==
  \A q \in Proc : /\ child[q] # "none" => child'[q] # "none"
                  /\ xchild[q] = "dead" => xchild'[q] = "dead"
                  /\ jail' = q => jail = q \/ pc[q] = "jail"
                  /\ q \in mounted' =>
                       \/ q \in mounted
                       \/ /\ cmd[q] = "create" /\ pc[q] = "mount"
                          /\ q \in ReadonlyRoots => dir

\* No prestart or poststop hook runs.
HooksAsBefore ==
  \A phase \in {"prestart", "poststop"}, c, q \in Proc :
    <<phase, c, q>> \in ran' <=> <<phase, c, q>> \in ran

\* The createRuntime hooks run when create is there, and only then.
RuntimeHooks(p) ==
  \A c, q \in Proc :
    <<"createRuntime", c, q>> \in ran' <=>
      \/ <<"createRuntime", c, q>> \in ran
      \/ /\ pc[p] = "createRuntime" /\ pc'[p] = "unlock"
         /\ p = q /\ c = mem[p].of

\* The steps between which nothing happens to the record.
CreateMoves ==
  {<<"mount", "jail">>, <<"jail", "mkfifo">>, <<"mkfifo", "fork">>,
   <<"fork", "save">>, <<"createRuntime", "unlock">>, <<"unlock", "signal">>,
   <<"signal", "await">>, <<"await", "remove_jail">>,
   <<"remove_jail", "unmount">>, <<"unmount", "rm">>}
StartMoves ==
  {<<"open_fifo", "write_fifo">>, <<"write_fifo", "close_fifo">>,
   <<"close_fifo", "poststart">>, <<"poststart", "return">>}
DeleteMoves ==
  {<<"exists", "open">>, <<"decide", "remove_jail">>,
   <<"remove_jail", "unmount">>, <<"unmount", "poststop">>}
ExecMoves ==
  {<<"exec_fork", "exec_signal">>, <<"exec_fork", "exec_run">>,
   <<"exec_signal", "exec_await">>}

Moves(p) ==
  \/ pc'[p] = pc[p]
  \/ /\ pc[p] # "idle" /\ pc'[p] = "done"
     /\ \/ "crash" \in Faults
        \/ pc[p] = "rm" /\ ~dir
        \/ pc[p] = "unlink" /\ (listing[p] = {} \/ Blocked)
        \/ pc[p] \notin {"rm", "unlink"}
  \/ /\ cmd[p] = "create" /\ <<pc[p], pc'[p]>> \in CreateMoves
     /\ pc[p] = "await" => report[p] = "failed"
  \/ /\ cmd[p] = "create" /\ fd[p] = NoProc /\ ~dir
     /\ pc[p] = "rm" /\ pc'[p] = "mkdir"
  \/ cmd[p] = "start" /\ <<pc[p], pc'[p]>> \in StartMoves
  \/ IsDelete(p) /\ <<pc[p], pc'[p]>> \in DeleteMoves
  \/ IsDelete(p) /\ ~exists /\ pc[p] = "exists" /\ pc'[p] = "rm"
  \/ IsExec(p) /\ <<pc[p], pc'[p]>> \in ExecMoves
  \/ cmd[p] = "list" /\ pc[p] = "exists" /\ pc'[p] = "open"
  \/ cmd[p] = "kill" /\ pc[p] = "kill" /\ pc'[p] = "return"

\* p's open of the lock file is unlocked at its end, by create or a child of
\* create or exec, or by a hook.  That of a command which has ended goes with
\* its child, whoever kills that.
MayUnlock(p) ==
  \A i \in Proc :
    \/ holder'[i] = holder[i]
    \/ /\ holder[i] = p
       /\ \/ pc'[p] = "done" \/ cmd[p] = "create" \/ xchild'[p] = "dead"
          \/ HadHooks(p)'
    \/ holder[i] \in Proc /\ pc[holder[i]] = "done"

Passes(p) ==
  /\ UNCHANGED record
  /\ OnlyMoves(p) /\ Moves(p) /\ MayUnlock(p) /\ HooksAsBefore
  /\ RuntimeHooks(p)

\* The prestart and the poststop hooks.
Hooks(p, phase, next) ==
  /\ UNCHANGED record
  /\ OnlyMoves(p) /\ pc[p] = phase /\ pc'[p] = next /\ MayUnlock(p)
  /\ ran' = ran \cup {<<phase, mem[p].of, p>>}

\* The open of the lock file, and flock().
Opens(p) ==
  /\ pc[p] = "open" /\ pc'[p] = "flock" /\ OnlyMoves(p)
  /\ OpenLock(p) /\ UNCHANGED <<cmd, ran>>

Locks(p) ==
  /\ pc[p] = "flock" /\ OnlyMoves(p)
  /\ pc'[p] = IF cmd[p] = "create" THEN "mount" ELSE "load"
  /\ holder[fd[p]] = NoProc /\ holder' = [holder EXCEPT ![fd[p]] = p]
  /\ UNCHANGED <<record, ran>>

\* load(): p goes on, or to save() if it has changed state_.
Loads(p) ==
  /\ Readable /\ pc[p] = "load" /\ OnlyMoves(p)
  /\ UNCHANGED <<dirVars, fd, holder, cmd, ran>>
  /\ \/ /\ pc'[p] \in {"exec_fork", "kill", "return", "decide"}
        /\ pc'[p] = "decide" <=> IsDelete(p)
        /\ pc'[p] = "exec_fork" <=> IsExec(p)
        /\ pc'[p] = "kill" => cmd[p] = "kill"
        /\ cmd[p] # "start"
        /\ SetStatus(p, json.of, json.status)
     \/ /\ cmd[p] = "start" /\ json.status = "created"
        /\ pc'[p] = "save" /\ SetStatus(p, json.of, "running")
     \/ /\ cmd[p] \notin {"none", "start", "kill", "exec", "exec_detached"}
        /\ pc'[p] = "save" /\ SetStatus(p, json.of, "stopped")

\* The two halves of save().
Truncates(p) ==
  /\ pc[p] = "save" /\ pc'[p] = "write" /\ OnlyMoves(p)
  /\ Truncate(p) /\ UNCHANGED <<cmd, ran>>

Writes(p) ==
  /\ pc[p] = "write" /\ pc'[p] = AfterSave(p) /\ OnlyMoves(p)
  /\ Write(p) /\ UNCHANGED <<cmd, ran>>

\* The steps of remove_all().
Lists(p) ==
  /\ pc[p] = "rm" /\ pc'[p] = "unlink" /\ OnlyMoves(p)
  /\ ListDir(p) /\ UNCHANGED <<cmd, ran>>

Unlinks(p) ==
  /\ pc[p] = "unlink" /\ Unlink(p) /\ UNCHANGED <<pc, cmd, ran>>

Empties(p) ==
  /\ pc[p] = "unlink" /\ RemoveDir(p) /\ OnlyMoves(p) /\ ~Blocked
  /\ IF cmd[p] = "create" /\ fd[p] = NoProc
     THEN pc'[p] = "mkdir" /\ holder' = holder
     ELSE pc'[p] = "done" /\ holder' = Unlocked(p)
  /\ UNCHANGED <<fd, cmd, ran>>

\* What create does before it locks.
Checks(p) ==
  /\ pc[p] = "check" /\ pc'[p] = "rm" /\ cmd[p] = "create" /\ ~exists
  /\ OnlyMoves(p) /\ SetStatus(p, p, "created")
  /\ UNCHANGED <<dirVars, fd, holder, cmd, ran>>

MakesDir(p) ==
  /\ pc[p] = "mkdir" /\ pc'[p] = "open" /\ OnlyMoves(p)
  /\ create_directories /\ UNCHANGED <<cmd, ran>>

Kind(p) ==
  \/ Passes(p) \/ Hooks(p, "prestart", "open_fifo")
  \/ Hooks(p, "poststop", "rm") \/ Opens(p) \/ Locks(p) \/ Loads(p)
  \/ Truncates(p) \/ Writes(p) \/ Lists(p) \/ Unlinks(p) \/ Empties(p)
  \/ Checks(p) \/ MakesDir(p)

\* Invoke, and the steps that nobody takes.
Begins(p) ==
  \E c \in Cmds : Invoke(p, c)

Kinds ==
  /\ Lasting
  /\ \/ \E p \in Proc : Kind(p) \/ Begins(p)
     \/ UNCHANGED vars

\* What a step in which p does nothing to the record has to show.
LEMMA Passing ==
  ASSUME NEW p \in Proc, Passes(p), Lasting
  PROVE  Kinds
BY DEF Kinds, Kind

\* Every step is of one of the kinds.
LEMMA StepKinds ==
  ASSUME ControlTypes, ControlTypes', Control, Roles, CommandsTypeOK,
         HostTypeOK, [Next]_vars
  PROVE  Kinds
<1> USE RuntimeStateAssumption DEF ControlTypes, MemType, ProcOrNone,
     CommandsTypeOK, HostTypeOK, Control, CreatePcs, OtherPcs, ExecPcs,
     Roles, StartPcs, CleanupPcs, IsDelete, IsExec, PreFork, Fresh,
     Passes, OnlyMoves, Moves, MayUnlock, HooksAsBefore, RuntimeHooks, Lasting,
     HadHooks,
     CreateMoves, StartMoves, DeleteMoves, ExecMoves, record,
     Goto, Throw, Leave, End, ReleaseLock, hostVars, stateVars, dirVars,
     ctlVars, pipeVars, ChildGoto, XGoto, XThrow, Detached, Preparing,
     XOutside, XInJail, Outside, InJail, Dead, Unlocked
<1>1. ASSUME NEW p \in Proc, CommonStep(p) PROVE Kinds
  <2>1. CASE Open(p)
    <3>1. CASE OpenLock(p) /\ Goto(p, "flock")
      <4>1. Opens(p) /\ Lasting  BY <2>1, <3>1 DEF Open, Opens, OpenLock
      <4> QED  BY <4>1 DEF Kinds, Kind
    <3>2. CASE ~dir /\ Throw(p)
      <4>1. Passes(p) /\ Lasting  BY <2>1, <3>2 DEF Open
      <4> QED  BY <4>1, Passing
    <3> QED  BY <2>1, <3>1, <3>2 DEF Open
  <2>2. CASE Flock(p)
    <3>1. Locks(p) /\ Lasting
      BY <2>2 DEF Flock, TakeLock, Locks
    <3> QED  BY <3>1 DEF Kinds, Kind
  <2>3. CASE LoadFails(p)
    <3>1. Passes(p) /\ Lasting  BY <2>3 DEF LoadFails
    <3> QED  BY <3>1, Passing
  <2>4. CASE SaveBegin(p)
    <3>1. Truncates(p) /\ Lasting
      BY <2>4 DEF SaveBegin, Truncate, Truncates
    <3> QED  BY <3>1 DEF Kinds, Kind
  <2>5. CASE SaveEnd(p)
    <3>1. Writes(p) /\ Lasting
      BY <2>5 DEF SaveEnd, Write, Writes
    <3> QED  BY <3>1 DEF Kinds, Kind
  <2>6. CASE RemoveJail(p)
    <3>1. MayUnlock(p)
      <4>1. CASE holder' = UnlockedIn(mem[p].of)
        BY <4>1 DEF UnlockedIn, Orphaned
      <4>2. CASE holder' = holder
        BY <4>2
      <4> QED  BY <2>6, <4>1, <4>2 DEF RemoveJail
    <3>2. Lasting
      BY <2>6 DEF RemoveJail, jail_remove, ChildExit, CloseFifo
    <3> HIDE DEF MayUnlock, Lasting
    <3>3. Passes(p)
      BY <2>6, <3>1 DEF RemoveJail
    <3> QED  BY <3>2, <3>3, Passing
  <2>7. CASE Unmount(p)
    <3>1. Passes(p) /\ Lasting  BY <2>7 DEF Unmount, unmount_volumes,
         unmount_volumes_fails
    <3> QED  BY <3>1, Passing
  <2>8. CASE RemoveBegin(p)
    <3>1. CASE ListDir(p) /\ Goto(p, "unlink")
      <4>1. Lists(p) /\ Lasting  BY <2>8, <3>1 DEF RemoveBegin, Lists, ListDir
      <4> QED  BY <4>1 DEF Kinds, Kind
    <3>2. CASE ~dir /\ AfterRemove(p) /\ UNCHANGED <<dirVars, fd, mem>>
      <4>1. Passes(p) /\ Lasting  BY <2>8, <3>2 DEF RemoveBegin, AfterRemove
      <4> QED  BY <4>1, Passing
    <3> QED  BY <2>8, <3>1, <3>2 DEF RemoveBegin
  <2>9. CASE RemoveNext(p)
    <3>1. Unlinks(p) /\ Lasting
      BY <2>9 DEF RemoveNext, Unlink, Unlinks
    <3> QED  BY <3>1 DEF Kinds, Kind
  <2>10. CASE RemoveEnd(p)
    <3>1. CASE RemoveDir(p) /\ AfterRemove(p)
      <4>1. Empties(p) /\ Lasting
        BY <2>10, <3>1 DEF RemoveEnd, Empties, RemoveDir, AfterRemove
      <4> QED  BY <4>1 DEF Kinds, Kind
    <3>2. CASE Throw(p)
      <4>1. Passes(p) /\ Lasting  BY <2>10, <3>2 DEF RemoveEnd
      <4> QED  BY <4>1, Passing
    <3> QED  BY <2>10, <3>1, <3>2 DEF RemoveEnd
  <2>11. CASE Return(p)
    <3>1. Passes(p) /\ Lasting  BY <2>11 DEF Return
    <3> QED  BY <3>1, Passing
  <2>12. CASE RemoveThrows(p)
    <3>1. Passes(p) /\ Lasting  BY <2>12 DEF RemoveThrows
    <3> QED  BY <3>1, Passing
  <2> QED  BY <1>1, <2>1, <2>2, <2>3, <2>4, <2>5, <2>6, <2>7, <2>8, <2>9,
       <2>10, <2>11, <2>12 DEF CommonStep
<1>2. ASSUME NEW p \in Proc, CreateStep(p) PROVE Kinds
  <2>1. CASE CreateCheck(p)
    <3>1. CASE Goto(p, "rm")
      <4>1. Checks(p) /\ Lasting  BY <2>1, <3>1 DEF CreateCheck, Checks
      <4> QED  BY <4>1 DEF Kinds, Kind
    <3>2. CASE Throw(p)
      <4>1. Passes(p) /\ Lasting  BY <2>1, <3>2 DEF CreateCheck
      <4> QED  BY <4>1, Passing
    <3> QED  BY <2>1, <3>1, <3>2 DEF CreateCheck
  <2>2. CASE CreateDirectory(p)
    <3>1. MakesDir(p) /\ Lasting
      BY <2>2 DEF CreateDirectory, create_directories, MakesDir
    <3> QED  BY <3>1 DEF Kinds, Kind
  <2>3. CASE CreateMount(p)
    <3>1. Passes(p) /\ Lasting  BY <2>3 DEF CreateMount, mount_volumes,
         mount_volumes_fails
    <3> QED  BY <3>1, Passing
  <2>4. CASE CreateJail(p)
    <3>1. Passes(p) /\ Lasting  BY <2>4 DEF CreateJail, jail_create
    <3> QED  BY <3>1, Passing
  <2>5. CASE CreateFifo(p)
    <3>1. Passes(p) /\ Lasting  BY <2>5 DEF CreateFifo, mkfifo
    <3> QED  BY <3>1, Passing
  <2>6. CASE Fork(p)
    <3>1. Passes(p) /\ Lasting  BY <2>6 DEF Fork
    <3> QED  BY <3>1, Passing
  <2>7. CASE CreateRuntime(p)
    <3>1. Passes(p) /\ Lasting  BY <2>7 DEF CreateRuntime, RunHooks
    <3> QED  BY <3>1, Passing
  <2>8. CASE CreateUnlock(p)
    <3>1. Passes(p) /\ Lasting  BY <2>8 DEF CreateUnlock
    <3> QED  BY <3>1, Passing
  <2>9. CASE CreateSignal(p)
    <3>1. Passes(p) /\ Lasting  BY <2>9 DEF CreateSignal
    <3> QED  BY <3>1, Passing
  <2>10. CASE CreateAwait(p)
    <3>1. Passes(p) /\ Lasting  BY <2>10 DEF CreateAwait
    <3> QED  BY <3>1, Passing
  <2> QED  BY <1>2, <2>1, <2>2, <2>3, <2>4, <2>5, <2>6, <2>7, <2>8, <2>9, <2>10
       DEF CreateStep
<1>3. ASSUME NEW p \in Proc, StartStep(p) PROVE Kinds
  <2>1. CASE StartLoad(p)
    <3>1. CASE Goto(p, "save")
      <4>1. Loads(p) /\ Lasting  BY <2>1, <3>1 DEF StartLoad, Loads
      <4> QED  BY <4>1 DEF Kinds, Kind
    <3>2. CASE Throw(p)
      <4>1. Passes(p) /\ Lasting  BY <2>1, <3>2 DEF StartLoad
      <4> QED  BY <4>1, Passing
    <3> QED  BY <2>1, <3>1, <3>2 DEF StartLoad
  <2>2. CASE StartPrestart(p)
    <3>1. Hooks(p, "prestart", "open_fifo") /\ Lasting
      BY <2>2 DEF StartPrestart, RunHooks, Hooks
    <3> QED  BY <3>1 DEF Kinds, Kind
  <2>3. CASE StartOpenFifo(p)
    <3>1. Passes(p) /\ Lasting  BY <2>3 DEF StartOpenFifo
    <3> QED  BY <3>1, Passing
  <2>4. CASE StartWriteFifo(p)
    <3>1. Passes(p) /\ Lasting  BY <2>4 DEF StartWriteFifo
    <3> QED  BY <3>1, Passing
  <2>5. CASE StartCloseFifo(p)
    <3>1. Passes(p) /\ Lasting  BY <2>5 DEF StartCloseFifo
    <3> QED  BY <3>1, Passing
  <2>6. CASE StartPoststart(p)
    <3>1. Passes(p) /\ Lasting  BY <2>6 DEF StartPoststart, RunHooks
    <3> QED  BY <3>1, Passing
  <2> QED  BY <1>3, <2>1, <2>2, <2>3, <2>4, <2>5, <2>6 DEF StartStep
<1>4. ASSUME NEW p \in Proc, InspectStep(p) PROVE Kinds
  <2>1. CASE ListExists(p)
    <3>1. Passes(p) /\ Lasting  BY <2>1 DEF ListExists
    <3> QED  BY <3>1, Passing
  <2>2. CASE InspectLoad(p)
    <3>1. Loads(p) /\ Lasting
      BY <2>2 DEF InspectLoad, LoadAndCheck, AfterSave, Loads
    <3> QED  BY <3>1 DEF Kinds, Kind
  <2>3. CASE KillLoad(p)
    <3>1. Loads(p) /\ Lasting
      BY <2>3 DEF KillLoad, LoadThen, load, Loads
    <3> QED  BY <3>1 DEF Kinds, Kind
  <2>4. CASE KillSend(p)
    <3>1. Passes(p) /\ Lasting  BY <2>4 DEF KillSend, Kill, KillProcess,
         ChildExit, CloseFifo
    <3> QED  BY <3>1, Passing
  <2> QED  BY <1>4, <2>1, <2>2, <2>3, <2>4 DEF InspectStep
<1>5. ASSUME NEW p \in Proc, DeleteStep(p) PROVE Kinds
  <2>1. CASE DeleteExists(p)
    <3>1. Passes(p) /\ Lasting  BY <2>1 DEF DeleteExists
    <3> QED  BY <3>1, Passing
  <2>2. CASE DeleteLoad(p)
    <3>1. Loads(p) /\ Lasting
      BY <2>2 DEF DeleteLoad, LoadAndCheck, AfterSave, Loads
    <3> QED  BY <3>1 DEF Kinds, Kind
  <2>3. CASE DeleteDecide(p)
    <3>1. Passes(p) /\ Lasting  BY <2>3 DEF DeleteDecide, Kill, KillProcess,
         ChildExit, CloseFifo
    <3> QED  BY <3>1, Passing
  <2>4. CASE DeletePoststop(p)
    <3>1. Hooks(p, "poststop", "rm") /\ Lasting
      BY <2>4 DEF DeletePoststop, RunHooks, Hooks
    <3> QED  BY <3>1 DEF Kinds, Kind
  <2> QED  BY <1>5, <2>1, <2>2, <2>3, <2>4 DEF DeleteStep
<1>6. ASSUME NEW p \in Proc, ChildStep(p) PROVE Kinds
  <2>1. CASE ChildPreStart(p)
    <3>1. Passes(p) /\ Lasting  BY <2>1 DEF ChildPreStart, ChildThrow,
         ChildExit
    <3> QED  BY <3>1, Passing
  <2>2. CASE ChildOpenFifo(p)
    <3>1. Passes(p) /\ Lasting  BY <2>2 DEF ChildOpenFifo, ChildThrow,
         ChildExit
    <3> QED  BY <3>1, Passing
  <2>3. CASE ChildWaitParent(p)
    <3>1. Passes(p) /\ Lasting  BY <2>3 DEF ChildWaitParent
    <3> QED  BY <3>1, Passing
  <2>4. CASE ChildHooks(p)
    <3>1. Passes(p) /\ Lasting  BY <2>4 DEF ChildHooks
    <3> QED  BY <3>1, Passing
  <2>5. CASE ChildAttach(p)
    <3>1. Passes(p) /\ Lasting  BY <2>5 DEF ChildAttach
    <3> QED  BY <3>1, Passing
  <2>6. CASE ChildValidate(p)
    <3>1. Passes(p) /\ Lasting  BY <2>6 DEF ChildValidate
    <3> QED  BY <3>1, Passing
  <2>7. CASE ChildReport(p)
    <3>1. Passes(p) /\ Lasting  BY <2>7 DEF ChildReport, ChildExit
    <3> QED  BY <3>1, Passing
  <2>8. CASE ChildWaitStart(p)
    <3>1. Passes(p) /\ Lasting  BY <2>8 DEF ChildWaitStart
    <3> QED  BY <3>1, Passing
  <2>9. CASE ChildStartHooks(p)
    <3>1. Passes(p) /\ Lasting  BY <2>9 DEF ChildStartHooks, RunHooks
    <3> QED  BY <3>1, Passing
  <2>10. CASE ChildExec(p)
    <3>1. Passes(p) /\ Lasting  BY <2>10 DEF ChildExec
    <3> QED  BY <3>1, Passing
  <2> QED  BY <1>6, <2>1, <2>2, <2>3, <2>4, <2>5, <2>6, <2>7, <2>8, <2>9, <2>10
       DEF ChildStep
<1>7. ASSUME NEW p \in Proc, ExecStep(p) PROVE Kinds
  <2>1. CASE ExecLoad(p)
    <3>1. Loads(p) /\ Lasting
      BY <2>1 DEF ExecLoad, LoadThen, load, Loads
    <3> QED  BY <3>1 DEF Kinds, Kind
  <2>2. CASE ExecFork(p)
    <3>1. Passes(p) /\ Lasting  BY <2>2, SMTT(30) DEF ExecFork
    <3> QED  BY <3>1, Passing
  <2>3. CASE ExecSignal(p)
    <3>1. Passes(p) /\ Lasting  BY <2>3 DEF ExecSignal
    <3> QED  BY <3>1, Passing
  <2>4. CASE ExecAwait(p)
    <3>1. Passes(p) /\ Lasting  BY <2>4 DEF ExecAwait
    <3> QED  BY <3>1, Passing
  <2>5. CASE ExecKilled(p)
    <3>1. Passes(p) /\ Lasting  BY <2>5 DEF ExecKilled
    <3> QED  BY <3>1, Passing
  <2> QED  BY <1>7, <2>1, <2>2, <2>3, <2>4, <2>5 DEF ExecStep
<1>8. ASSUME NEW p \in Proc, XStep(p) PROVE Kinds
  <2>1. CASE XPreStart(p)
    <3>1. Passes(p) /\ Lasting  BY <2>1 DEF XPreStart
    <3> QED  BY <3>1, Passing
  <2>2. CASE XWaitParent(p)
    <3>1. Passes(p) /\ Lasting  BY <2>2 DEF XWaitParent
    <3> QED  BY <3>1, Passing
  <2>3. CASE XAttach(p)
    <3>1. Passes(p) /\ Lasting  BY <2>3 DEF XAttach
    <3> QED  BY <3>1, Passing
  <2>4. CASE XValidate(p)
    <3>1. Passes(p) /\ Lasting  BY <2>4 DEF XValidate
    <3> QED  BY <3>1, Passing
  <2>5. CASE XReport(p)
    <3>1. Passes(p) /\ Lasting  BY <2>5 DEF XReport
    <3> QED  BY <3>1, Passing
  <2>6. CASE XExec(p)
    <3>1. Passes(p) /\ Lasting  BY <2>6 DEF XExec
    <3> QED  BY <3>1, Passing
  <2> QED  BY <1>8, <2>1, <2>2, <2>3, <2>4, <2>5, <2>6 DEF XStep
<1>9. ASSUME NEW p \in Proc, NEW c \in Cmds, Invoke(p, c) PROVE Kinds
  <2>1. Lasting  BY <1>9 DEF Invoke
  <2> QED  BY <1>9, <2>1 DEF Kinds, Begins
<1>10. ASSUME NEW p \in Proc, Crash(p) PROVE Kinds
  <2>1. Passes(p) /\ Lasting  BY <1>10 DEF Crash, InFlight
  <2> QED  BY <2>1, Passing
<1>11. ASSUME NEW p \in Proc, ProcessExit(p) PROVE Kinds
  <2>1. Passes(p) /\ Lasting  BY <1>11 DEF ProcessExit, ChildExit
  <2> QED  BY <2>1, Passing
<1>12. ASSUME NEW p \in Proc, XExit(p) PROVE Kinds
  <2>1. Passes(p) /\ Lasting  BY <1>12 DEF XExit
  <2> QED  BY <2>1, Passing
<1>13. ASSUME NEW p \in Proc, Reap(p) PROVE Kinds
  <2>1. Passes(p) /\ Lasting  BY <1>13 DEF Reap
  <2> QED  BY <2>1, Passing
<1>14. CASE UNCHANGED vars
  BY <1>14 DEF vars, Kinds
<1> QED  BY <1>1, <1>2, <1>3, <1>4, <1>5, <1>6, <1>7, <1>8, <1>9, <1>10,
       <1>11, <1>12, <1>13, <1>14 DEF Next, Step

-----------------------------------------------------------------------------
(* What follows from the kinds.                                            *)

\* Every step preserves Roles.
LEMMA RolesStep ==
  ASSUME ControlTypes, ControlTypes', Control, Roles, Kinds
  PROVE  Roles'
<1> USE RuntimeStateAssumption, CommandsAssumption DEF ControlTypes, Roles,
     Control, CreatePcs, OtherPcs, StartPcs, CleanupPcs, IsDelete, IsExec,
     OnlyMoves, record
<1>1. ASSUME NEW p \in Proc, Passes(p) PROVE Roles'
  BY <1>1 DEF Passes, Moves, CreateMoves, StartMoves, DeleteMoves, ExecMoves
<1>2. ASSUME NEW p \in Proc, Begins(p) PROVE Roles'
  BY <1>2 DEF Begins, Invoke, Command
<1>3. ASSUME NEW p \in Proc, Kind(p), ~Passes(p) PROVE Roles'
  BY <1>3 DEF Kind, Hooks, Opens, Locks, Loads, Truncates, Writes, Lists,
       Unlinks, Empties, Checks, MakesDir, AfterSave, OpenLock, Truncate,
       Write,
       ListDir, Unlink, RemoveDir, create_directories
<1>4. CASE UNCHANGED vars
  BY <1>4 DEF vars, ctlVars
<1> QED  BY <1>1, <1>2, <1>3, <1>4 DEF Kinds

\* A command does not change its name, nor does it come back; and it leaves
\* what the others have in memory, and their lock files, alone.
LEMMA KindFlight ==
  ASSUME ControlTypes, NEW p \in Proc, Kind(p)
  PROVE  /\ cmd' = cmd
         /\ \A q \in Proc : pc'[q] = "idle" <=> pc[q] = "idle"
         /\ \A q \in Proc : InFlight(q)' => InFlight(q)
         /\ OnlyMoves(p)
         /\ \A q \in Proc \ {p} : mem'[q] = mem[q] /\ fd'[q] = fd[q]
<1> USE DEF ControlTypes, OnlyMoves, InFlight, record, dirVars
<1>1. CASE Passes(p)
  BY <1>1 DEF Passes, Moves, CreateMoves, StartMoves, DeleteMoves, ExecMoves
<1>2. CASE ~Passes(p)
  BY <1>2 DEF Kind, Hooks, Opens, Locks, Loads, Truncates, Writes, Lists,
       Unlinks, Empties, Checks, MakesDir, AfterSave, OpenLock, Truncate,
       Write,
       ListDir, Unlink, RemoveDir, create_directories, SetStatus
<1> QED  BY <1>1, <1>2

\* The hooks that have run have run.
LEMMA KindHooks ==
  ASSUME NEW p \in Proc, Kind(p)
  PROVE  /\ \A c \in Proc : Removed(c) => Removed(c)'
         /\ \A phase \in {"prestart", "poststop"}, c, q \in Proc :
              <<phase, c, q>> \in ran => <<phase, c, q>> \in ran'
         /\ \A c \in Proc, phase \in {"prestart", "poststop"} :
              RunsHook(phase, c)' => \/ RunsHook(phase, c)
                                     \/ pc[p] = phase /\ mem[p].of = c
BY DEF Kind, Removed, RunsHook, Passes, HooksAsBefore, Hooks, Opens, Locks,
       Loads, Truncates, Writes, Lists, Unlinks, Empties, Checks, MakesDir

\* The poststop hooks run when a delete is there, and only then.
LEMMA PoststopRuns ==
  ASSUME NEW p \in Proc, Kind(p)
  PROVE  \A c, q \in Proc :
           <<"poststop", c, q>> \in ran' <=>
             \/ <<"poststop", c, q>> \in ran
             \/ p = q /\ Hooks(p, "poststop", "rm") /\ mem[p].of = c
<1>1. CASE Hooks(p, "poststop", "rm")
  BY <1>1 DEF Hooks
<1>2. CASE Hooks(p, "prestart", "open_fifo")
  BY <1>2 DEF Hooks
<1>3. CASE Passes(p) /\ ~Hooks(p, "poststop", "rm")
  BY <1>3 DEF Passes, HooksAsBefore
<1>4. CASE /\ ~Passes(p) /\ ~Hooks(p, "prestart", "open_fifo")
           /\ ~Hooks(p, "poststop", "rm")
  BY <1>4 DEF Kind, Opens, Locks, Loads, Truncates, Writes, Lists, Unlinks,
       Empties, Checks, MakesDir
<1> QED  BY <1>1, <1>2, <1>3, <1>4

-----------------------------------------------------------------------------
(* The lock and the poststop hooks.                                        *)

\* Nobody is about while a create is in flight.
Serial ==
  \A p, q \in Proc :
    cmd[p] = "create" /\ InFlight(p) /\ InFlight(q) => p = q

\* What state.json can be: the file of create describes the container of
\* that create; another file, made by a save() in the wake of a delete,
\* describes one that has been removed, and not as created.
FileInv ==
  /\ ~exists => json = NoFile
  /\ exists \/ lockFile # NoProc => dir
  /\ exists => pc[json.ino] # "idle"
  /\ json.of = NoProc <=> json.status = "none"
  /\ exists /\ json.of = NoProc => json.torn
  /\ Original => json.of \in {NoProc, json.ino}
  /\ exists /\ ~Original /\ json.of # NoProc =>
       Removed(json.of) /\ json.status # "created"

\* The hooks of start and delete have run for containers only.
HookedInv ==
  \A c \in Proc :
    RunsHook("prestart", c) \/ Removed(c) => child[c] # "none"

\* A create in flight: where its state.json is.
MadeBy(p) == json = [ino |-> p, of |-> p, status |-> "created",
                     torn |-> FALSE]
Locking == {"open", "flock", "mount", "jail", "mkfifo", "fork", "save"}
Makes(p) ==
  /\ ~RunsHook("prestart", p) /\ ~Removed(p)
  /\ pc[p] # "check" => mem[p].of = p /\ mem[p].status = "created"
  /\ pc[p] \in {"mkdir"} \cup Locking => ~exists
  /\ pc[p] \in {"rm", "unlink"} /\ fd[p] = NoProc => ~exists
  /\ pc[p] \in Locking => dir
  /\ pc[p] = "write" => /\ json.ino = p /\ mem[p].out = p
                        /\ json.of = NoProc
  /\ pc[p] \in {"createRuntime", "unlock", "signal", "await", "remove_jail",
                 "unmount"} => MadeBy(p)
  /\ pc[p] \in {"rm", "unlink"} /\ fd[p] # NoProc /\ exists => MadeBy(p)
MakingInv == \A p \in Proc : cmd[p] = "create" /\ InFlight(p) => Makes(p)

\* Another command in flight.  What it has loaded is the file of create, as
\* long as the container is not removed, and the lock file it has open is the
\* one that has the name.
Using(p) == cmd[p] # "create" /\ InFlight(p)

\* p has loaded the state, or never will.
HasLoaded(p) ==
  /\ pc[p] \notin {"exists", "open", "flock", "load"}
  /\ pc[p] \in {"rm", "unlink"} => fd[p] # NoProc

\* p holds the lock of the file that it has open, and nobody has given it up
\* in its place.
Keeps(p) ==
  /\ Critical(p) /\ cmd[p] # "create" /\ xchild[p] # "dead" /\ ~HadHooks(p)

\* p has run the poststop hooks.
HasEnded(p) == <<"poststop", mem[p].of, p>> \in ran

Uses(p) ==
  /\ HasLoaded(p) => mem[p].of \in Proc
  /\ mem[p].of # NoProc /\ ~Removed(mem[p].of) =>
       Original /\ json.of = mem[p].of
  /\ Original => mem[p].of \in {NoProc, json.ino}
  /\ pc[p] \in {"rm", "unlink"} =>
       IF fd[p] = NoProc THEN ~Original ELSE HasEnded(p)
  /\ Original /\ ~Removed(json.ino) /\ fd[p] # NoProc => fd[p] = lockFile
  /\ Keeps(p) => holder[fd[p]] = p
  /\ pc[p] \in {"save", "write"} =>
       mem[p].status = IF cmd[p] = "start" THEN "running" ELSE "stopped"
  /\ pc[p] = "write" /\ Original => mem[p].out = json.ino
UsingInv == \A p \in Proc : Using(p) => Uses(p)

\* What such a command relies on.
CurrentInv ==
  \A p \in Proc :
    Using(p) /\ Relies(p) /\ ~Removed(mem[p].of)
      => ~json.torn /\ json.status = mem[p].status

\* A read-only root that is mounted, and with it the directory that it is
\* mounted in, belongs to the container that the id has, had last, or gets.
MountedInv ==
  \A d \in mounted \cap ReadonlyRoots :
    /\ json.of \in {NoProc, d}
    /\ \A q \in Proc : Using(q) => mem[q].of \in {NoProc, d}
    /\ \A q \in Proc \ {d} :
         cmd[q] = "create" /\ InFlight(q) =>
           /\ pc[q] \in {"check", "rm", "unlink"}
           /\ pc[q] # "check" => fd[q] = NoProc

\* The container's jail has gone when its poststop hooks run.
EndedInv ==
  \A c \in Proc :
    /\ Removed(c) => jail # c
    /\ \A p \in Proc : <<"poststop", c, p>> \in ran =>
         /\ IsDelete(p) /\ mem[p].of = c /\ fd[p] \in Proc
         /\ pc[p] \in {"rm", "unlink", "done"}

\* Delete p of c, which has run the poststop hooks, has state.json to unlink
\* as long as there is one.  When it has ended, nobody keeps a lock to work on
\* c, and nobody can load c any more.
Finishes(c, p) ==
  /\ pc[p] = "unlink" /\ json.of = c => "state.json" \in listing[p]
  /\ pc[p] = "done" => /\ json.of # c
                       /\ \A q \in Proc : Using(q) /\ Keeps(q) => mem[q].of # c
FinishInv ==
  \A c, p \in Proc :
    <<"poststop", c, p>> \in ran /\ Thorough /\ ~TwoLocks(c) => Finishes(c, p)

-----------------------------------------------------------------------------
(* Each is preserved by every step.                                        *)

\* Only Invoke puts a command in flight.
LEMMA SerialStep ==
  ASSUME Overlap = {}, ControlTypes, Serial, Kinds
  PROVE  Serial'
<1>1. ASSUME NEW p \in Proc, Kind(p) PROVE Serial'
  BY <1>1, KindFlight DEF Serial
<1>2. ASSUME NEW p \in Proc, Begins(p) PROVE Serial'
  BY <1>2 DEF Serial, Begins, Invoke, InFlight, ControlTypes
<1>3. CASE UNCHANGED vars
  BY <1>3 DEF Serial, vars, ctlVars, InFlight
<1> QED  BY <1>1, <1>2, <1>3 DEF Kinds

\* A hook that runs, runs for a container that has forked.
LEMMA HookedStep ==
  ASSUME ControlTypes, KnownForked, Control, Roles, HookedInv, Kinds
  PROVE  HookedInv'
<1>1. ASSUME NEW p \in Proc, Kind(p) PROVE HookedInv'
  <2> SUFFICES ASSUME NEW c \in Proc, RunsHook("prestart", c)' \/ Removed(c)'
               PROVE  child'[c] # "none"
    BY DEF HookedInv
  <2>1. CASE RunsHook("prestart", c) \/ Removed(c)
    BY <2>1 DEF HookedInv, Kinds, Lasting
  <2>2. CASE pc[p] \in {"prestart", "poststop"} /\ mem[p].of = c
    BY <2>2 DEF KnownForked, Unforked, Roles, StartPcs, IsDelete, Kinds,
         Lasting
  <2> QED  BY <1>1, <2>1, <2>2, KindHooks DEF Removed
<1>2. ASSUME NEW p \in Proc, Begins(p) PROVE HookedInv'
  BY <1>2 DEF Begins, Invoke, HookedInv, Removed, RunsHook, hostVars
<1>3. CASE UNCHANGED vars
  BY <1>3 DEF vars, hostVars, HookedInv, Removed, RunsHook
<1> QED  BY <1>1, <1>2, <1>3 DEF Kinds

\* What p writes at the end of save(), and where.
LEMMA Written ==
  ASSUME ControlTypes, Roles, Recorded, MakingInv, UsingInv,
         NEW p \in Proc, Writes(p)
  PROVE  /\ mem[p].of \in Proc
         /\ cmd[p] = "create" =>
              /\ json.ino = p /\ mem[p].out = p /\ mem[p].of = p
              /\ mem[p].status = "created" /\ json.of = NoProc
         /\ cmd[p] # "create" =>
              /\ mem[p].status = IF cmd[p] = "start" THEN "running"
                                                      ELSE "stopped"
              /\ ~Removed(mem[p].of) => Original /\ json.of = mem[p].of
              /\ Original => mem[p].of = json.ino /\ mem[p].out = json.ino
         /\ UNCHANGED <<dir, lockFile, listing, fd, holder, cmd>>
         /\ json' = IF exists /\ json.ino = mem[p].out
                    THEN [ino |-> json.ino, of |-> mem[p].of,
                          status |-> mem[p].status, torn |-> FALSE]
                    ELSE json
         /\ \A q \in Proc : /\ mem'[q].of = mem[q].of
                            /\ mem'[q].status = mem[q].status
                            /\ q # p => mem'[q].out = mem[q].out
<1> USE RuntimeStateAssumption DEF Writes, Write, ControlTypes, MemType
<1>1. mem[p].of \in Proc
  BY DEF Recorded
<1>2. InFlight(p)
  BY DEF InFlight
<1>3. CASE cmd[p] = "create"
  BY <1>1, <1>2, <1>3 DEF MakingInv, Makes
<1>4. CASE cmd[p] # "create"
  BY <1>1, <1>2, <1>4 DEF UsingInv, Uses, Using
<1> QED  BY <1>1, <1>3, <1>4

\* What the first half does: it keeps the file if there is one.
LEMMA Truncated ==
  ASSUME ControlTypes, NEW p \in Proc, Truncates(p)
  PROVE  /\ json' = IF dir
                    THEN IF exists THEN [json EXCEPT !.torn = TRUE]
                         ELSE [ino |-> p, of |-> NoProc, status |-> "none",
                               torn |-> TRUE]
                    ELSE json
         /\ mem'[p].out = json'.ino
         /\ \A q \in Proc : /\ mem'[q].of = mem[q].of
                            /\ mem'[q].status = mem[q].status
                            /\ q # p => mem'[q].out = mem[q].out
         /\ UNCHANGED <<dir, lockFile, listing, fd, holder, cmd>>
<1> USE DEF Truncates, Truncate, ControlTypes, MemType
<1>1. CASE ~dir  BY <1>1
<1>2. CASE dir /\ exists  BY <1>2
<1>3. CASE dir /\ ~exists
  <2> DEFINE new == [NoFile EXCEPT !.ino = p, !.torn = TRUE]
  <2>1. new = [ino |-> p, of |-> NoProc, status |-> "none", torn |-> TRUE]
    <3>1. NoFile \in JsonType /\ p \in ProcOrNone
      BY DEF NoFile, JsonType, ProcOrNone, Status
    <3>2. new \in JsonType /\ new.ino = p /\ new.torn
      BY <3>1 DEF JsonType
    <3>3. new.of = NoFile.of /\ new.status = NoFile.status
      BY <3>1 DEF JsonType
    <3>4. NoFile.of = NoProc /\ NoFile.status = "none"
      BY DEF NoFile
    <3> HIDE DEF new
    <3> QED  BY <3>2, <3>3, <3>4 DEF JsonType
  <2> QED  BY <1>3, <2>1
<1> QED  BY <1>1, <1>2, <1>3

\* Every step preserves FileInv.
LEMMA FileStep ==
  ASSUME ControlTypes, ControlTypes', Control, Roles, Recorded, FileInv,
         MakingInv, UsingInv, Kinds
  PROVE  FileInv'
<1> USE RuntimeStateAssumption DEF ControlTypes, ProcOrNone, exists
<1> DEFINE Same == /\ json' = json /\ (lockFile' = lockFile \/ dir')
                   /\ dir' = dir \/ dir' \/ (~exists /\ lockFile = NoProc)
                   /\ \A q \in Proc :
                        pc[q] # "idle" =>
                          pc'[q] # "idle" /\ (cmd'[q] = cmd[q])
                   /\ \A c \in Proc : Removed(c) => Removed(c)'
<1>1. ASSUME Same PROVE FileInv'
  BY <1>1 DEF FileInv, Original, JsonType
<1>2. ASSUME NEW p \in Proc, Kind(p)
      PROVE  /\ \A q \in Proc : pc'[q] = "idle" <=> pc[q] = "idle"
             /\ \A c \in Proc : Removed(c) => Removed(c)'
             /\ cmd' = cmd
  BY <1>2, KindFlight, KindHooks
<1>3. ASSUME NEW p \in Proc, Kind(p), ~Truncates(p), ~Writes(p), ~Unlinks(p)
      PROVE  FileInv'
  <2>1. CASE Empties(p)
    <3>1. json' = json /\ lockFile' = lockFile
          /\ ~exists /\ lockFile = NoProc
      BY <2>1 DEF Empties, RemoveDir, Entries, Name
    <3> QED  BY <1>1, <1>2, <1>3, <3>1
  <2>2. CASE ~Empties(p)
    <3>1. json' = json /\ (dir' = dir \/ dir')
          /\ (lockFile' = lockFile \/ dir')
      BY <1>3, <2>2 DEF Kind, Passes, Hooks, Opens, Locks, Loads, Lists,
           Checks, MakesDir, OpenLock, ListDir, create_directories, record,
           dirVars
    <3> QED  BY <1>1, <1>2, <1>3, <3>1
  <2> QED  BY <2>1, <2>2
<1>4. ASSUME NEW p \in Proc, Truncates(p) PROVE FileInv'
  <2>1. Kind(p) /\ pc[p] = "save"  BY <1>4 DEF Kind, Truncates
  <2> QED  BY <1>2, <1>4, <2>1, Truncated DEF FileInv, Original, JsonType,
         NoFile
<1>5. ASSUME NEW p \in Proc, Writes(p) PROVE FileInv'
  <2>1. Kind(p)  BY <1>5 DEF Kind
  <2>2. mem[p].status \in {"created", "running", "stopped"}
    BY <1>5, Written
  <2> QED  BY <1>2, <1>5, <2>1, <2>2, Written DEF FileInv, Original, JsonType
<1>6. ASSUME NEW p \in Proc, Unlinks(p) PROVE FileInv'
  <2>1. Kind(p)  BY <1>6 DEF Kind
  <2> QED  BY <1>2, <1>6, <2>1 DEF FileInv, Original, JsonType, NoFile,
         Unlinks, Unlink
<1>7. ASSUME NEW p \in Proc, Begins(p) PROVE FileInv'
  <2>1. Same
    BY <1>7 DEF Begins, Invoke, stateVars, dirVars, Removed, RunsHook
  <2> QED  BY <2>1, <1>1
<1>8. CASE UNCHANGED vars
  <2>1. Same
    BY <1>8 DEF vars, stateVars, dirVars, ctlVars, Removed, RunsHook
  <2> QED  BY <2>1, <1>1
<1> QED  BY <1>3, <1>4, <1>5, <1>6, <1>7, <1>8 DEF Kinds

\* Every step preserves MakingInv.
LEMMA MakingStep ==
  ASSUME Overlap = {}, ControlTypes, ControlTypes', Control, Roles, Recorded,
         Serial, FileInv, HookedInv, MakingInv, UsingInv, Kinds
  PROVE  MakingInv'
<1> USE RuntimeStateAssumption DEF ControlTypes, MemType, InFlight
<1>1. ASSUME NEW p \in Proc, Kind(p), NEW q \in Proc,
             cmd'[q] = "create", InFlight(q)'
      PROVE  Makes(q)'
  <2> USE DEF exists, MadeBy
  <2>1. cmd[q] = "create" /\ InFlight(q) /\ Makes(q)
    BY <1>1, KindFlight DEF MakingInv
  <2>2. ~RunsHook("prestart", q)' /\ ~Removed(q)'
    <3>1. CASE p = q
      BY <1>1, <2>1, <3>1, KindHooks
         DEF Makes, Removed, Roles, StartPcs, IsDelete
    <3>2. CASE p # q
      <4>1. pc[p] \in {"idle", "done"}  BY <2>1, <3>2 DEF Serial
      <4> QED  BY <1>1, <2>1, <4>1, KindHooks DEF Makes, Removed
    <3> QED  BY <3>1, <3>2
  <2>3. CASE p # q
    <3>1. pc[p] \in {"idle", "done"}  BY <2>1, <2>3 DEF Serial
    <3>2. UNCHANGED record /\ pc'[q] = pc[q]
      BY <1>1, <2>3, <3>1 DEF Kind, Passes, Hooks, Opens, Locks, Loads,
           Truncates, Writes, Lists, Unlinks, Empties, Checks, MakesDir,
           OnlyMoves
    <3> QED  BY <2>1, <2>2, <3>2 DEF Makes, record
  <2>4. CASE p = q /\ Passes(q)
    <3>1. UNCHANGED record  BY <2>4 DEF Passes
    <3>2. \/ pc'[q] = pc[q]
          \/ <<pc[q], pc'[q]>> \in CreateMoves
          \/ pc[q] = "rm" /\ pc'[q] = "mkdir" /\ fd[q] = NoProc
      BY <1>1, <2>1, <2>4 DEF Passes, Moves, IsDelete, IsExec
    <3>3. pc[q] # "check" => pc'[q] # "check"
      BY <3>2 DEF CreateMoves
    <3>4. pc[q] # "idle" /\ (pc[q] = "unmount" => fd[q] # NoProc)
      BY <2>1 DEF Control, HasFile
    <3> QED  BY <2>1, <2>2, <3>1, <3>2, <3>3, <3>4 DEF Makes, record,
         CreateMoves, Locking
  <2>5. CASE p = q /\ ~Passes(q)
    <3>1. ~Hooks(q, "prestart", "open_fifo") /\ ~Hooks(q, "poststop", "rm")
          /\ ~Loads(q)
      BY <2>1 DEF Hooks, Loads, Control, OtherPcs
    <3>2. CASE Opens(q)
      BY <2>1, <2>2, <3>2 DEF Makes, Opens, OpenLock, Locking
    <3>3. CASE Locks(q)
      BY <2>1, <2>2, <3>3 DEF Makes, Locks, Locking, record
    <3>4. CASE Truncates(q)
      <4>1. pc[q] = "save" /\ pc'[q] = "write"  BY <3>4 DEF Truncates
      <4>2. ~exists /\ dir /\ mem[q].of = q /\ mem[q].status = "created"
        BY <2>1, <4>1 DEF Makes, Locking
      <4>3. json' = [ino |-> q, of |-> NoProc, status |-> "none",
                     torn |-> TRUE]
        BY <3>4, <4>2, Truncated
      <4>4. mem'[q].of = q /\ mem'[q].status = "created" /\ mem'[q].out = q
        BY <3>4, <4>2, <4>3, Truncated
      <4> QED  BY <2>2, <4>1, <4>3, <4>4 DEF Makes, Locking
    <3>5. CASE Writes(q)
      BY <2>1, <2>2, <3>5, Written DEF Makes, Writes, AfterSave, Locking,
           JsonType
    <3>6. CASE Lists(q)
      BY <2>1, <2>2, <3>6 DEF Makes, Lists, ListDir, Locking
    <3>7. CASE Unlinks(q)
      <4>1. /\ pc[q] = "unlink" /\ pc'[q] = "unlink"
            /\ UNCHANGED <<fd, mem>>
        BY <3>7 DEF Unlinks, Unlink
      <4>2. json' = json \/ json' = NoFile
        BY <3>7 DEF Unlinks, Unlink
      <4> QED  BY <2>1, <2>2, <4>1, <4>2 DEF Makes, Locking, NoFile
    <3>8. CASE Empties(q)
      BY <2>1, <2>2, <3>8 DEF Makes, Empties, RemoveDir, Locking
    <3>9. CASE Checks(q)
      BY <2>1, <2>2, <3>9 DEF Makes, Checks, SetStatus, dirVars, Locking
    <3>10. CASE MakesDir(q)
      BY <2>1, <2>2, <3>10 DEF Makes, MakesDir, create_directories, Locking
    <3> QED  BY <1>1, <2>5, <3>1, <3>2, <3>3, <3>4, <3>5, <3>6, <3>7, <3>8,
         <3>9, <3>10 DEF Kind
  <2> QED  BY <2>3, <2>4, <2>5
<1>2. ASSUME NEW p \in Proc, Begins(p), NEW q \in Proc,
             cmd'[q] = "create", InFlight(q)'
      PROVE  Makes(q)'
  <2>1. UNCHANGED <<stateVars, ran>>
    BY <1>2 DEF Begins, Invoke
  <2>2. CASE p = q
    <3>1. pc'[p] = "check" /\ child[p] = "none"
      BY <1>2, <2>2 DEF Begins, Invoke, Control, PreFork
    <3> QED  BY <2>1, <2>2, <3>1 DEF HookedInv, Makes, Removed, RunsHook,
         Locking
  <2>3. CASE p # q
    <3>1. cmd[q] = "create" /\ InFlight(q) /\ pc'[q] = pc[q]
      BY <1>2, <2>3 DEF Begins, Invoke
    <3> QED  BY <2>1, <3>1 DEF MakingInv, Makes, Removed, RunsHook, MadeBy,
         exists, stateVars, dirVars
  <2> QED  BY <2>2, <2>3
<1>3. CASE UNCHANGED vars
  BY <1>3, ZenonT(60)
     DEF vars, stateVars, dirVars, ctlVars, MakingInv, Makes, MadeBy, Removed,
         RunsHook, exists
<1> QED  BY <1>1, <1>2, <1>3 DEF Kinds, MakingInv

\* A step other than one of a create in flight does not make an original
\* file; and as long as its container is not removed, it leaves the file, and
\* the name of the lock file, in place.
LEMMA OriginalStep ==
  ASSUME ControlTypes, ControlTypes', Control, Roles, Recorded, FileInv,
         MakingInv, UsingInv, NEW p \in Proc, Kind(p),
         cmd[p] = "create" => ~InFlight(p)
  PROVE  /\ Original' => Original /\ json'.ino = json.ino
         /\ Original /\ ~Removed(json.ino) =>
              /\ Original' /\ json'.ino = json.ino
              /\ json'.of = json.of
              /\ lockFile # NoProc => lockFile' = lockFile
              /\ lockFile' = lockFile \/ Opens(p)
              /\ dir'
<1> USE RuntimeStateAssumption DEF ControlTypes, MemType, InFlight, exists,
     ProcOrNone
<1>1. cmd' = cmd  BY KindFlight
<1>2. CASE Truncates(p)
  <2>1. cmd[p] # "create"  BY <1>2 DEF Truncates
  <2> QED  BY <1>1, <1>2, <2>1, Truncated, SMTT(30)
           DEF Original, JsonType, FileInv
<1>3. CASE Writes(p)
  <2>1. cmd[p] # "create"  BY <1>3 DEF Writes
  <2>2. Original => mem[p].of = json.ino
    BY <1>3, <2>1, Written
  <2> QED  BY <1>1, <1>3, <2>1, <2>2, Written
         DEF Original, JsonType, FileInv
<1>4. CASE Unlinks(p)
  <2>1. pc[p] = "unlink" /\ Using(p) /\ Uses(p)
    BY <1>4 DEF Unlinks, Using, UsingInv
  <2>2. json' = json \/ json' = NoFile
    BY <1>4 DEF Unlinks, Unlink
  <2>3. Original => Removed(json.ino)
    BY <2>1 DEF Uses, HasLoaded, HasEnded, Removed, RunsHook
  <2> QED  BY <1>1, <2>2, <2>3 DEF Original, NoFile
<1>5. CASE Empties(p)
  <2>1. json' = json /\ ~exists
    BY <1>5 DEF Empties, RemoveDir, Entries, Name
  <2> QED  BY <1>1, <2>1 DEF Original
<1>6. CASE ~Truncates(p) /\ ~Writes(p) /\ ~Unlinks(p) /\ ~Empties(p)
  <2>1. json' = json /\ (dir' = dir \/ dir')
    BY <1>6 DEF Kind, Passes, Hooks, Opens, Locks, Loads, Lists, Checks,
         MakesDir, OpenLock, ListDir, create_directories, record, dirVars
  <2>2. \/ lockFile' = lockFile
        \/ Opens(p) /\ lockFile = NoProc
    BY <1>6 DEF Kind, Passes, Hooks, Opens, Locks, Loads, Lists, Checks,
         MakesDir, OpenLock, ListDir, create_directories, record, dirVars
  <2> QED  BY <1>1, <2>1, <2>2 DEF Original, FileInv
<1> QED  BY <1>2, <1>3, <1>4, <1>5, <1>6

\* A command keeps a lock since its flock().
LEMMA KeepsBefore ==
  ASSUME ControlTypes, Control, Roles, Lasting, NEW p \in Proc, Kind(p),
         NEW q \in Proc, Using(q), Keeps(q)', ~(p = q /\ Locks(p))
  PROVE  Keeps(q) /\ fd'[q] = fd[q] /\ fd[q] \in Proc
<1> USE DEF ControlTypes, ProcOrNone, Keeps, Critical, HadHooks, IsDelete,
     Using
<1>1. cmd' = cmd /\ (xchild[q] = "dead" => xchild'[q] = "dead")
  BY KindFlight DEF Lasting
<1>2. CASE p # q
  <2>1. pc'[q] = pc[q] /\ fd'[q] = fd[q]
    BY <1>2, KindFlight DEF OnlyMoves
  <2> QED  BY <1>1, <2>1 DEF Control, HasFile
<1>3. CASE p = q /\ Passes(q)
  <2>1. UNCHANGED record  BY <1>3 DEF Passes
  <2>2. fd'[q] = fd[q] /\ pc'[q] \notin {"done", "open"}
    BY <2>1 DEF record, LockedPcs, CleanupPcs
  <2>3. \/ pc'[q] = pc[q]
        \/ cmd[q] = "start" /\ <<pc[q], pc'[q]>> \in StartMoves
        \/ IsDelete(q) /\ <<pc[q], pc'[q]>> \in DeleteMoves
        \/ IsDelete(q) /\ pc[q] = "exists" /\ pc'[q] = "rm"
        \/ IsExec(q) /\ <<pc[q], pc'[q]>> \in ExecMoves
        \/ cmd[q] = "kill" /\ pc[q] = "kill" /\ pc'[q] = "return"
    BY <1>3, <2>2 DEF Passes, Moves
  <2>4. Critical(q)
    BY <1>1, <2>2, <2>3, RuntimeStateAssumption
       DEF StartMoves, DeleteMoves, ExecMoves, LockedPcs, CleanupPcs, Control,
           Fresh, HasFile
  <2>5. ~HadHooks(q)
    <3>1. SUFFICES ASSUME HadHooks(q)  PROVE HadHooks(q)'
      OBVIOUS
    <3>2. pc'[q] = pc[q] \/ <<pc[q], pc'[q]>> \in StartMoves
      BY <2>3, <3>1 DEF DeleteMoves, ExecMoves
    <3>3. pc'[q] = pc[q] \/ cmd[q] = "start"
      BY <2>3, <3>1 DEF DeleteMoves, ExecMoves
    <3> QED  BY <1>1, <3>1, <3>2, <3>3 DEF StartMoves
  <2>6. fd[q] \in Proc
    BY <2>4 DEF Control, HasFile
  <2> QED  BY <1>1, <2>2, <2>4, <2>5, <2>6
<1>4. CASE p = q /\ ~Passes(q)
  <2>1. fd'[q] = fd[q] /\ Critical(q)
    BY <1>3, <1>4 DEF Kind, Hooks, Opens, Locks, Loads, Truncates, Writes,
         Lists, Unlinks, Empties, Checks, MakesDir, OpenLock, Truncate, Write,
         ListDir, Unlink, RemoveDir, create_directories, record, dirVars,
         LockedPcs, CleanupPcs, AfterSave
  <2>2. pc[q] \in {"unlock", "open_fifo", "write_fifo", "close_fifo",
                    "poststart", "rm", "unlink"} =>
          pc'[q] \in {"rm", "unlink", "done", "mkdir"}
    BY <1>4 DEF Kind, Hooks, Opens, Locks, Loads, Truncates, Writes,
         Lists, Unlinks, Empties, Checks, MakesDir
  <2>3. pc[q] # "return"
    BY <1>4 DEF Kind, Hooks, Opens, Locks, Loads, Truncates, Writes,
         Lists, Unlinks, Empties, Checks, MakesDir
  <2> QED  BY <1>1, <2>1, <2>2, <2>3 DEF Control, HasFile, LockedPcs,
         CleanupPcs
<1> QED  BY <1>2, <1>3, <1>4

\* Two commands that keep their locks while the container that create made
\* has not been removed are one: the lock file has kept its name.
LEMMA Exclusion ==
  ASSUME ControlTypes, Control, UsingInv, Original, ~Removed(json.ino),
         NEW p \in Proc, NEW q \in Proc, Using(p), Using(q), Keeps(p), Keeps(q)
  PROVE  p = q
<1>1. fd[p] # NoProc /\ fd[q] # NoProc
  BY RuntimeStateAssumption DEF Keeps, Critical, Control, HasFile
<1> QED  BY <1>1 DEF UsingInv, Uses

\* A load() gives a container, that of the file.
LEMMA Loaded ==
  ASSUME ControlTypes, Recorded, FileInv, NEW p \in Proc, Loads(p)
  PROVE  /\ mem'[p].of = json.of /\ json.of \in Proc
         /\ UNCHANGED <<dir, json, lockFile, listing, fd, holder, cmd, ran>>
         /\ Original => json.of = json.ino
         /\ ~Removed(json.of) => Original
         /\ json.status = "created" => Original
         /\ pc'[p] # "save" => mem'[p].status = json.status
         /\ pc'[p] = "save" =>
              mem'[p].status = IF cmd[p] = "start" THEN "running"
                                                    ELSE "stopped"
<1> USE RuntimeStateAssumption
<1>1. exists /\ ~json.torn /\ json.of \in Proc
  BY DEF Loads, Readable, Recorded
<1>2. UNCHANGED <<dir, json, lockFile, listing, fd, holder, cmd, ran>>
  BY DEF Loads, dirVars
<1>3. /\ mem'[p].of = json.of
      /\ pc'[p] # "save" => mem'[p].status = json.status
      /\ pc'[p] = "save" =>
           mem'[p].status = IF cmd[p] = "start" THEN "running"
                                                 ELSE "stopped"
  BY DEF Loads, SetStatus, ControlTypes, MemType
<1> QED  BY <1>1, <1>2, <1>3 DEF FileInv

\* Every step preserves UsingInv.
LEMMA UsingStep ==
  ASSUME Overlap = {}, ControlTypes, ControlTypes', Control, Control', Roles,
         Recorded, DeletedInv, Serial, FileInv, MakingInv, UsingInv, Kinds
  PROVE  UsingInv'
<1> USE RuntimeStateAssumption DEF ControlTypes, MemType
<1>1. ASSUME NEW p \in Proc, Kind(p), NEW q \in Proc, Using(q)'
      PROVE  Uses(q)'
  <2>1. /\ cmd' = cmd /\ Using(q) /\ Uses(q) /\ OnlyMoves(p)
        /\ p # q => mem'[q] = mem[q] /\ fd'[q] = fd[q] /\ pc'[q] = pc[q]
    BY <1>1, KindFlight DEF Using, UsingInv, OnlyMoves
  <2>2. cmd[p] = "create" => ~InFlight(p)
    BY <2>1 DEF Serial, Using
  <2>3. \A c \in Proc : Removed(c) => Removed(c)'
    BY <1>1, KindHooks
  <2>4. /\ Original' => /\ Original /\ json'.ino = json.ino
                        /\ json.ino \in Proc
        /\ Original /\ ~Removed(json.ino) =>
             /\ Original' /\ json'.ino = json.ino
             /\ json'.of = json.of
             /\ lockFile # NoProc => lockFile' = lockFile
    BY <1>1, <2>2, OriginalStep DEF Original, exists, JsonType, ProcOrNone
  <2>5. CASE p = q /\ Loads(q)
    <3> USE <2>5
    <3>1. /\ pc[q] = "load"
          /\ Keeps(q)' => Keeps(q)
          /\ pc'[q] \notin {"exists", "open", "flock", "load", "write", "rm",
                            "unlink"}
      BY <1>1, <2>1, KeepsBefore DEF Loads, Kinds, Locks
    <3>2. /\ mem'[q].of = json.of /\ json.of \in Proc
          /\ UNCHANGED <<json, lockFile, fd, holder>>
          /\ Original => json.of = json.ino
          /\ ~Removed(json.of) => Original
          /\ pc'[q] = "save" =>
               mem'[q].status = IF cmd[q] = "start" THEN "running"
                                                     ELSE "stopped"
      BY Loaded
    <3>3. mem'[q].of # NoProc /\ ~Removed(mem[q].of)' =>
            Original' /\ json'.of = mem'[q].of
      BY <2>3, <2>4, <3>2 DEF Removed, RunsHook
    <3>4. Original' /\ ~Removed(json.ino)' /\ fd'[q] # NoProc =>
            fd'[q] = lockFile'
      BY <2>1, <2>3, <2>4, <3>2 DEF Uses
    <3>5. Keeps(q)' => holder'[fd'[q]] = q
      BY <2>1, <3>1, <3>2 DEF Uses
    <3>6. Original' => mem'[q].of \in {NoProc, json'.ino}
      BY <2>4, <3>2
    <3> QED  BY <2>1, <3>1, <3>2, <3>3, <3>4, <3>5, <3>6 DEF Uses, HasLoaded
  <2>6. ASSUME ~(p = q /\ Loads(q))
        PROVE  /\ mem'[q].of = mem[q].of
               /\ HasLoaded(q)' => HasLoaded(q)
               /\ pc'[q] \in {"save", "write"} =>
                    pc[q] \in {"save", "write"}
                    /\ mem'[q].status = mem[q].status
    <3>1. CASE p # q
      BY <2>1, <3>1 DEF HasLoaded
    <3>2. CASE p = q /\ Passes(q)
      <4>1. UNCHANGED <<mem, fd>> /\ pc'[q] # "done" /\ Moves(q)
        BY <1>1, <3>2 DEF Passes, record, Using, InFlight
      <4>2. pc[q] = "exists" => fd[q] = NoProc
        BY DEF Control, Fresh
      <4>3. CASE pc'[q] = pc[q]
        BY <4>1, <4>3 DEF HasLoaded
      <4>4. CASE pc'[q] # pc[q]
        BY <2>1, <4>1, <4>2, <4>4 DEF HasLoaded, Moves, StartMoves,
             DeleteMoves, ExecMoves, Using
      <4> QED  BY <4>3, <4>4
    <3>3. CASE p = q /\ ~Passes(q) /\ ~Truncates(q) /\ ~Writes(q)
      BY <1>1, <2>1, <2>6, <3>3 DEF Kind, Hooks, Opens, Locks, Lists, Unlinks,
           Empties, Checks, MakesDir, OpenLock, ListDir, Unlink, RemoveDir,
           create_directories, record, dirVars, HasLoaded, Using, InFlight
    <3>4. CASE p = q /\ Truncates(q)
      BY <3>4, Truncated DEF HasLoaded, Truncates
    <3>5. CASE p = q /\ Writes(q)
      <4>1. pc[q] = "write" /\ pc'[q] \notin {"save", "write"}
        BY <3>5 DEF Writes, AfterSave
      <4> QED  BY <3>5, <4>1, Written DEF HasLoaded
    <3> QED  BY <3>1, <3>2, <3>3, <3>4, <3>5
  <2>7. ASSUME ~(p = q /\ Loads(q))
        PROVE  /\ HasLoaded(q)' => mem'[q].of \in Proc
               /\ mem'[q].of # NoProc /\ ~Removed(mem[q].of)' =>
                    Original' /\ json'.of = mem'[q].of
               /\ Original' => mem'[q].of \in {NoProc, json'.ino}
               /\ pc'[q] \in {"save", "write"} =>
                    mem'[q].status = IF cmd'[q] = "start" THEN "running"
                                                           ELSE "stopped"
    <3>1. mem[q].of \in ProcOrNone  OBVIOUS
    <3> QED  BY <2>1, <2>3, <2>4, <2>6, <2>7, <3>1 DEF Uses, ProcOrNone
  <2>8. ASSUME pc'[q] \in {"rm", "unlink"}
        PROVE  IF fd'[q] = NoProc THEN ~Original' ELSE HasEnded(q)'
    <3>1. CASE pc[q] \in {"rm", "unlink"} /\ fd'[q] = fd[q]
      <4>1. ~(p = q /\ Loads(q))  BY <3>1 DEF Loads
      <4>2. fd[q] # NoProc => mem[q].of \in Proc
        BY <2>1, <3>1 DEF Uses, HasLoaded
      <4>3. HasEnded(q) /\ mem[q].of \in Proc => HasEnded(q)'
        BY <1>1, <2>6, <4>1, KindHooks DEF HasEnded
      <4> QED  BY <2>1, <2>4, <3>1, <4>2, <4>3 DEF Uses
    <3>2. CASE ~(pc[q] \in {"rm", "unlink"} /\ fd'[q] = fd[q])
      <4>1. p = q  BY <2>1, <2>8, <3>2
      <4>2. \/ Passes(q) /\ ~exists /\ pc[q] = "exists"
            \/ Hooks(q, "poststop", "rm")
        BY <1>1, <2>1, <2>8, <3>2, <4>1
           DEF Kind, Passes, Moves, StartMoves, DeleteMoves, ExecMoves, Hooks,
               Opens, Locks, Loads, Truncates, Writes, Lists, Unlinks, Empties,
               Checks, MakesDir, AfterSave, ListDir, Unlink, record, Using,
               IsExec, IsDelete
      <4>3. CASE Passes(q) /\ ~exists /\ pc[q] = "exists"
        <5>1. fd'[q] = NoProc /\ ~Original
          BY <4>3 DEF Passes, record, Control, Fresh, Original
        <5> QED  BY <2>4, <5>1
      <4>4. CASE Hooks(q, "poststop", "rm")
        <5>1. fd'[q] \in Proc /\ mem' = mem
          BY <4>4 DEF Hooks, record, Control, HasFile, LockedPcs
        <5>2. <<"poststop", mem'[q].of, q>> \in ran'
          BY <4>1, <4>4, <5>1 DEF Hooks
        <5> QED  BY <5>1, <5>2 DEF HasEnded
      <4> QED  BY <4>2, <4>3, <4>4
    <3> QED  BY <3>1, <3>2
  <2>9. ASSUME Original', ~Removed(json.ino)', fd'[q] # NoProc
        PROVE  fd'[q] = lockFile'
    <3>1. Original /\ ~Removed(json.ino) /\ json'.ino = json.ino
      BY <2>3, <2>4, <2>9
    <3>2. CASE p = q /\ Opens(q)
      BY <3>2 DEF Opens, OpenLock
    <3>3. CASE ~(p = q /\ Opens(q))
      <4>1. fd'[q] = fd[q]
        BY <1>1, <2>1, <3>3 DEF Kind, Passes, Hooks, Locks, Loads, Truncates,
             Writes, Lists, Unlinks, Empties, Checks, MakesDir, Truncate,
             Write, ListDir, Unlink, RemoveDir, create_directories, record
      <4> QED  BY <2>1, <2>4, <2>9, <3>1, <4>1 DEF Uses
    <3> QED  BY <3>2, <3>3
  <2>10. ASSUME Keeps(q)'
         PROVE  holder'[fd'[q]] = q
    <3>1. CASE p = q /\ Locks(q)
      <4>1. fd[q] \in Proc  BY <3>1 DEF Locks, Control, HasFile
      <4> QED  BY <3>1, <4>1 DEF Locks, record
    <3>2. CASE ~(p = q /\ Locks(q))
      <4>1. Keeps(q) /\ fd'[q] = fd[q] /\ fd[q] \in Proc
        BY <1>1, <2>1, <2>10, <3>2, KeepsBefore DEF Kinds
      <4>2. holder[fd[q]] = q  BY <2>1, <4>1 DEF Uses
      <4>3. \/ holder'[fd[q]] = holder[fd[q]]
            \/ holder' = Unlocked(p) /\ p # q
            \/ Locks(p)
        <5>1. CASE Passes(p) \/ Hooks(p, "prestart", "open_fifo")
                   \/ Hooks(p, "poststop", "rm")
          BY <2>1, <2>10, <4>1, <4>2, <5>1
             DEF Passes, Hooks, MayUnlock, Keeps, Critical, LockedPcs,
                 CleanupPcs, Using, InFlight
        <5>2. CASE ~(Passes(p) \/ Hooks(p, "prestart", "open_fifo")
                     \/ Hooks(p, "poststop", "rm"))
          BY <1>1, <2>1, <2>10, <5>2
             DEF Kind, Opens, Locks, Loads, Truncates, Writes, Lists, Unlinks,
                 Empties, Checks, MakesDir, OpenLock, Truncate, Write, ListDir,
                 Unlink, create_directories, Keeps, Critical, LockedPcs,
                 CleanupPcs, Using
        <5> QED  BY <5>1, <5>2
      <4> QED  BY <4>1, <4>2, <4>3 DEF Unlocked, Locks
    <3> QED  BY <3>1, <3>2
  <2>11. ASSUME pc'[q] = "write", Original'
         PROVE  mem'[q].out = json'.ino
    <3>1. CASE p = q /\ Truncates(q)
      BY <3>1, Truncated
    <3>2. CASE ~(p = q /\ Truncates(q))
      <4>1. pc[q] = "write" /\ mem'[q].out = mem[q].out
        <5>1. CASE p # q  BY <2>1, <2>11, <5>1
        <5>2. CASE p = q
          BY <1>1, <2>1, <2>11, <3>2, <5>2
             DEF Kind, Passes, Moves, StartMoves, DeleteMoves, ExecMoves,
               Hooks, Opens, Locks, Loads, Writes, Lists, Unlinks, Empties,
               Checks, MakesDir, AfterSave, ListDir, Unlink, record, Using
        <5> QED  BY <5>1, <5>2
      <4> QED  BY <2>1, <2>4, <2>11, <4>1 DEF Uses
    <3> QED  BY <3>1, <3>2
  <2>12. CASE ~(p = q /\ Loads(q))
    BY <2>1, <2>4, <2>6, <2>7, <2>8, <2>9, <2>10, <2>11, <2>12 DEF Uses
  <2> QED  BY <2>5, <2>12
<1>2. ASSUME NEW p \in Proc, Begins(p), NEW q \in Proc, Using(q)'
      PROVE  Uses(q)'
  <2>1. UNCHANGED <<stateVars, ran>>
    BY <1>2 DEF Begins, Invoke
  <2>2. Original' <=> Original
    BY <1>2, <2>1 DEF Begins, Invoke, stateVars, dirVars, Original, exists,
         FileInv, JsonType, ProcOrNone
  <2>3. CASE p = q
    <3>1. /\ pc[p] = "idle" /\ pc'[p] \in {"exists", "open"}
      BY <1>2, <2>3 DEF Begins, Invoke, Using
    <3>2. mem[p].of = NoProc /\ fd[p] = NoProc
      BY <3>1 DEF DeletedInv, Unloaded, Control, Fresh
    <3> QED  BY <2>1, <2>3, <3>1, <3>2
         DEF Uses, stateVars, HasLoaded, Keeps, Critical, LockedPcs, CleanupPcs
  <2>4. CASE p # q
    <3>1. Using(q) /\ pc'[q] = pc[q] /\ cmd'[q] = cmd[q] /\ UNCHANGED xchild
      BY <1>2, <2>4 DEF Begins, Invoke, Using, InFlight, hostVars
    <3>2. Uses(q)  BY <3>1 DEF UsingInv
    <3>3. /\ UNCHANGED <<mem, fd, json, lockFile, holder, ran>>
      BY <2>1 DEF stateVars, dirVars
    <3> QED  BY <2>2, <3>1, <3>2, <3>3, ZenonT(60)
         DEF Uses, HasLoaded, HasEnded, Keeps, Critical, HadHooks, IsDelete,
             Removed, RunsHook
  <2> QED  BY <2>3, <2>4
<1>3. CASE UNCHANGED vars
  BY <1>3, ZenonT(60)
     DEF vars, stateVars, dirVars, ctlVars, hostVars, UsingInv, Uses, Using,
         HasLoaded, HasEnded, Keeps, Critical, HadHooks, IsDelete, InFlight,
         Removed, RunsHook, Original, exists
<1> QED  BY <1>1, <1>2, <1>3 DEF Kinds, UsingInv

\* Who is at save(), or at a step that leads to poststop, keeps the lock.
LEMMA Keeping ==
  ASSUME ControlTypes, Control, Roles, NEW p \in Proc, cmd[p] # "create",
         pc[p] \in {"load", "save", "write", "prestart", "remove_jail",
                     "unmount", "poststop"}
  PROVE  Using(p) /\ Keeps(p)
<1>1. fd[p] # NoProc /\ Using(p)
  BY RuntimeStateAssumption DEF Control, HasFile, LockedPcs, Using, InFlight
<1>2. Critical(p) /\ ~HadHooks(p)
  BY <1>1 DEF Critical, HadHooks, LockedPcs, CleanupPcs, Roles
<1>3. xchild[p] # "dead"
  BY DEF Control, ExecPcs
<1> QED  BY <1>1, <1>2, <1>3 DEF Keeps

\* Whose container has not been removed works on the original file.
LEMMA OnOriginal ==
  ASSUME ControlTypes, UsingInv, NEW p \in Proc, Using(p), HasLoaded(p),
         ~Removed(mem[p].of)
  PROVE  Original /\ json.of = mem[p].of /\ json.ino = mem[p].of
BY RuntimeStateAssumption DEF UsingInv, Uses

\* Every step preserves CurrentInv.
LEMMA CurrentStep ==
  ASSUME Overlap = {}, ControlTypes, ControlTypes', Control, Roles, Recorded,
         Serial, FileInv, MakingInv, UsingInv, UsingInv', CurrentInv, Kinds
  PROVE  CurrentInv'
<1> USE RuntimeStateAssumption DEF ControlTypes, MemType
<1>1. ASSUME NEW p \in Proc, Kind(p), NEW q \in Proc, Using(q)', Relies(q)',
             ~Removed(mem[q].of)'
      PROVE  ~json'.torn /\ json'.status = mem'[q].status
  <2>1. /\ cmd' = cmd /\ Using(q) /\ OnlyMoves(p)
        /\ p # q => mem'[q] = mem[q] /\ fd'[q] = fd[q] /\ pc'[q] = pc[q]
        /\ Lasting
    BY <1>1, KindFlight DEF Using, OnlyMoves, Kinds
  <2>2. cmd[p] = "create" => ~InFlight(p)
    BY <2>1 DEF Serial, Using
  <2>3. HasLoaded(q)' /\ Original' /\ mem'[q].of \in Proc
    <3>1. HasLoaded(q)'
      BY <1>1 DEF Relies, Critical, HasLoaded, LockedPcs, CleanupPcs
    <3> QED  BY <1>1, <3>1 DEF UsingInv, Uses
  <2>4. CASE p = q /\ Loads(q)
    <3>1. pc'[q] # "save"  BY <1>1 DEF Relies
    <3>2. ~json.torn  BY <2>4 DEF Loads, Readable
    <3> QED  BY <2>4, <3>1, <3>2, Loaded
  <2>5. CASE p = q /\ Writes(q)
    <3>1. Original
      BY <1>1, <2>2, <2>3, OriginalStep
    <3>2. mem[q].out = json.ino
      BY <2>1, <2>5, <3>1, Written DEF Using
    <3> QED  BY <2>5, <3>1, <3>2, Written DEF Original
  <2>6. CASE p = q /\ ~Loads(q) /\ ~Writes(q)
    <3>1. ~Truncates(q) /\ ~Locks(q)
      BY <1>1, <2>1, <2>6 DEF Truncates, Locks, Relies, Using
    <3>2. ~Unlinks(q)
      <4>1. ASSUME Unlinks(q) PROVE FALSE
        <5>1. mem' = mem /\ pc' = pc /\ UNCHANGED fd /\ pc[q] = "unlink"
          BY <4>1 DEF Unlinks, Unlink
        <5>2. fd[q] # NoProc
          BY <1>1, <5>1 DEF Relies, Critical, LockedPcs
        <5>3. Removed(mem[q].of)
          BY <2>1, <5>1, <5>2 DEF UsingInv, Uses, HasEnded, Removed, RunsHook
        <5>4. ran' = ran  BY <4>1 DEF Unlinks
        <5>5. Removed(mem[q].of)'
          BY <5>1, <5>3, <5>4 DEF Removed, RunsHook
        <5> QED  BY <1>1, <5>5
      <4> QED  BY <4>1
    <3>3. /\ UNCHANGED <<json, mem>>
      BY <1>1, <2>6, <3>1, <3>2 DEF Kind, Passes, Hooks, Opens, Lists, Empties,
           Checks, MakesDir, OpenLock, ListDir, RemoveDir,
           create_directories, record, Using
    <3>4. Relies(q)
      <4>1. Keeps(q)  BY <1>1, <2>1, <3>1, KeepsBefore DEF Keeps, Relies, Using
      <4>2. pc[q] \notin {"load", "mount", "jail", "mkfifo", "fork", "save",
                           "write"}
        BY <1>1, <2>1, <2>6, <3>1 DEF Kind, Passes, Moves, StartMoves,
             DeleteMoves, ExecMoves, Hooks, Opens, Locks, Lists, Unlinks,
             Empties, Checks, MakesDir, Relies, Critical, LockedPcs,
             CleanupPcs, Control, CreatePcs, Using, IsDelete
      <4> QED  BY <4>1, <4>2 DEF Keeps, Relies
    <3>5. ~Removed(mem[q].of)
      BY <1>1, <2>3, <3>3, KindHooks DEF Removed, RunsHook
    <3> QED  BY <2>1, <3>3, <3>4, <3>5 DEF CurrentInv
  <2>7. CASE p # q
    <3>1. Relies(q) /\ Keeps(q) /\ HasLoaded(q)
      BY <1>1, <2>1, <2>3, <2>7
         DEF Relies, Critical, IsDelete, Lasting, HadHooks, HasLoaded, Keeps,
             Using
    <3>2. ~Removed(mem[q].of) /\ mem'[q] = mem[q] /\ mem[q].of \in Proc
      <4>1. mem[q].of \in Proc  BY <2>1, <3>1 DEF UsingInv, Uses
      <4> QED  BY <1>1, <2>1, <2>7, <4>1, KindHooks DEF Removed, RunsHook
    <3>3. ~json.torn /\ json.status = mem[q].status
      BY <2>1, <3>1, <3>2 DEF CurrentInv
    <3>4. Original /\ ~Removed(json.ino)
      BY <2>1, <3>1, <3>2, OnOriginal
    <3>5. ~Truncates(p) /\ ~Writes(p)
      <4>1. ASSUME Truncates(p) \/ Writes(p)  PROVE FALSE
        <5>1. pc[p] \in {"save", "write"} /\ cmd[p] # "create"
          BY <2>2, <4>1 DEF Truncates, Writes, InFlight
        <5> QED  BY <2>1, <2>7, <3>1, <3>4, <5>1, Keeping, Exclusion
      <4> QED  BY <4>1
    <3>6. json' = json
      <4>1. CASE Unlinks(p)
        <5>1. json' = json \/ json' = NoFile
          BY <4>1 DEF Unlinks, Unlink
        <5> QED  BY <2>3, <5>1 DEF Original, exists, NoFile
      <4>2. CASE ~Unlinks(p)
        BY <1>1, <3>5, <4>2 DEF Kind, Passes, Hooks, Opens, Locks, Loads,
             Lists, Empties, Checks, MakesDir, OpenLock, ListDir, RemoveDir,
             create_directories, record, dirVars
      <4> QED  BY <4>1, <4>2
    <3> QED  BY <3>2, <3>3, <3>6
  <2> QED  BY <2>4, <2>5, <2>6, <2>7
<1>2. ASSUME NEW p \in Proc, Begins(p), NEW q \in Proc, Using(q)', Relies(q)',
             ~Removed(mem[q].of)'
      PROVE  ~json'.torn /\ json'.status = mem'[q].status
  <2>1. UNCHANGED <<json, mem, fd, xchild, ran>>
    BY <1>2 DEF Begins, Invoke, stateVars, dirVars, hostVars
  <2>2. p # q
    BY <1>2 DEF Begins, Invoke, Relies, Critical, LockedPcs, CleanupPcs
  <2>3. pc'[q] = pc[q] /\ cmd'[q] = cmd[q]
    BY <1>2, <2>2 DEF Begins, Invoke
  <2>4. Using(q) /\ Relies(q) /\ ~Removed(mem[q].of)
    BY <1>2, <2>1, <2>3 DEF Using, InFlight, Relies, Critical, IsDelete,
         HadHooks, Removed, RunsHook
  <2> QED  BY <2>1, <2>4 DEF CurrentInv
<1>3. CASE UNCHANGED vars
  BY <1>3 DEF vars, stateVars, dirVars, ctlVars, hostVars, CurrentInv, Using,
       InFlight, Relies, Critical, IsDelete, HadHooks, Removed, RunsHook
<1> QED  BY <1>1, <1>2, <1>3 DEF Kinds, CurrentInv

\* What a step does to the container that state.json and p's state_ describe.
LEMMA Describes ==
  ASSUME ControlTypes, NEW p \in Proc, Kind(p)
  PROVE  /\ \/ json'.of \in {json.of, NoProc}
            \/ Writes(p) /\ json'.of = mem[p].of
         /\ \A q \in Proc :
              \/ mem'[q].of = mem[q].of /\ mem'[q].status = mem[q].status
              \/ p = q /\ Loads(p) /\ mem'[q].of = json.of
              \/ p = q /\ Checks(p)
<1> USE DEF ControlTypes, MemType, JsonType, record, dirVars
<1>1. CASE Truncates(p)
  BY <1>1, Truncated
<1>2. CASE Loads(p) \/ Checks(p)
  <2>1. \E st : SetStatus(p, IF Checks(p) THEN p ELSE json.of, st)
    BY <1>2 DEF Loads, Checks
  <2>2. \A q \in Proc : mem'[q].of = IF q # p THEN mem[q].of
                                    ELSE IF Checks(p) THEN p ELSE json.of
    BY <2>1, SetStatusOf
  <2>3. \A q \in Proc \ {p} : mem'[q] = mem[q]
    BY <1>2, KindFlight
  <2> QED  BY <1>2, <2>2, <2>3 DEF Loads, Checks
<1>3. CASE Writes(p)
  BY <1>3 DEF Writes, Write
<1>4. CASE Unlinks(p)
  BY <1>4 DEF Unlinks, Unlink, NoFile
<1>5. CASE /\ ~Truncates(p) /\ ~Loads(p) /\ ~Checks(p) /\ ~Writes(p)
           /\ ~Unlinks(p)
  <2>1. UNCHANGED <<json, mem>>
    BY <1>5 DEF Kind, Passes, Hooks, Opens, Locks, Lists, Empties, MakesDir,
         OpenLock, ListDir, RemoveDir, create_directories
  <2> QED  BY <2>1
<1> QED  BY <1>1, <1>2, <1>3, <1>4, <1>5

-----------------------------------------------------------------------------
(* What is left on the host by a container of the past.                    *)

\* Every step preserves MountedInv: create mounts its root when it is alone
\* and has no state.json yet, and nobody gets past remove_all() while an older
\* one is there.
LEMMA MountedStep ==
  ASSUME Overlap = {}, ControlTypes, ControlTypes', Control, Roles, Recorded,
         DeletedInv, Serial, FileInv, MakingInv, MountedInv, Kinds
  PROVE  MountedInv'
<1> USE RuntimeStateAssumption
<1> SUFFICES ASSUME NEW d \in Proc, d \in mounted', d \in ReadonlyRoots
             PROVE  /\ json'.of \in {NoProc, d}
                    /\ \A q \in Proc : Using(q)' => mem'[q].of \in {NoProc, d}
                    /\ \A q \in Proc \ {d} :
                         cmd'[q] = "create" /\ InFlight(q)' =>
                           /\ pc'[q] \in {"check", "rm", "unlink"}
                           /\ pc'[q] # "check" => fd'[q] = NoProc
  BY CommandsAssumption DEF MountedInv
<1> DEFINE Early(q) == /\ pc[q] \in {"check", "rm", "unlink"}
                       /\ pc[q] # "check" => fd[q] = NoProc
<1>1. CASE d \notin mounted
  <2>1. cmd[d] = "create" /\ pc[d] = "mount" /\ InFlight(d)
    BY <1>1 DEF Kinds, Lasting, InFlight
  <2>2. PICK p \in Proc : Kind(p)
    BY <1>1 DEF Kinds, Begins, Invoke, vars, hostVars
  <2>3. /\ cmd' = cmd
        /\ \A q \in Proc : InFlight(q)' => q = d
    BY <2>1, <2>2, KindFlight DEF Serial
  <2>4. json.of = NoProc /\ ~Writes(p)
    <3>1. ~exists  BY <2>1 DEF MakingInv, Makes, Locking
    <3>2. json.of = NoProc  BY <3>1 DEF FileInv, NoFile
    <3>3. ASSUME Writes(p)  PROVE FALSE
      <4>1. pc[p] = "write"  BY <3>3 DEF Writes
      <4> QED  BY <2>1, <4>1 DEF Serial, InFlight
    <3> QED  BY <3>2, <3>3
  <2>5. json'.of = NoProc
    BY <2>2, <2>4, Describes
  <2> QED  BY <2>1, <2>3, <2>5 DEF Using
<1>2. CASE d \in mounted
  <2>1. /\ json.of \in {NoProc, d} /\ Blocked /\ dir
        /\ \A q \in Proc : Using(q) => mem[q].of \in {NoProc, d}
        /\ \A q \in Proc \ {d} : cmd[q] = "create" /\ InFlight(q) => Early(q)
    BY <1>2 DEF MountedInv, Blocked, DeletedInv
  <2>2. ASSUME NEW p \in Proc, Kind(p)
        PROVE  /\ json'.of \in {NoProc, d}
               /\ \A q \in Proc : Using(q)' => mem'[q].of \in {NoProc, d}
               /\ \A q \in Proc \ {d} :
                    cmd'[q] = "create" /\ InFlight(q)' => Early(q)'
    <3>1. /\ cmd' = cmd
          /\ \A q \in Proc : InFlight(q)' => InFlight(q)
          /\ \A q \in Proc \ {p} : pc'[q] = pc[q] /\ fd'[q] = fd[q]
      BY <2>2, KindFlight DEF OnlyMoves
    <3>2. json'.of \in {NoProc, d}
      <4>1. CASE Writes(p)
        <5>1. CASE cmd[p] = "create"
          <6>1. p = d
            BY <2>1, <4>1, <5>1 DEF Writes, InFlight
          <6>2. mem[p].of = p
            BY <4>1, <5>1 DEF Writes, MakingInv, Makes, InFlight
          <6> QED  BY <2>1, <2>2, <6>1, <6>2, Describes
        <5>2. CASE cmd[p] # "create"
          <6>1. Using(p)  BY <4>1, <5>2 DEF Writes, Using, InFlight
          <6> QED  BY <2>1, <2>2, <6>1, Describes
        <5> QED  BY <5>1, <5>2
      <4>2. CASE ~Writes(p)
        BY <2>1, <2>2, <4>2, Describes
      <4> QED  BY <4>1, <4>2
    <3>3. ASSUME NEW q \in Proc, Using(q)'
          PROVE  mem'[q].of \in {NoProc, d}
      <4>1. Using(q)  BY <3>1, <3>3 DEF Using
      <4>2. ~(p = q /\ Checks(p))  BY <4>1 DEF Checks, Using
      <4> QED  BY <2>1, <2>2, <4>1, <4>2, Describes
    <3>4. ASSUME NEW q \in Proc \ {d}, cmd'[q] = "create", InFlight(q)'
          PROVE  Early(q)'
      <4>1. cmd[q] = "create" /\ Early(q)
        BY <2>1, <3>1, <3>4
      <4>2. CASE q # p
        BY <3>1, <4>1, <4>2
      <4>3. CASE q = p /\ Passes(q)
        BY <2>1, <3>4, <4>1, <4>3
           DEF Passes, Moves, record, CreateMoves, StartMoves, DeleteMoves,
               ExecMoves, IsDelete, IsExec, InFlight
      <4>4. CASE q = p /\ ~Passes(q)
        <5>1. ~Empties(q)
          BY <2>1 DEF Empties
        <5>2. pc[q] = "check" => fd[q] = NoProc
          BY DEF Control, Fresh
        <5> QED  BY <2>2, <4>1, <4>4, <5>1, <5>2
                 DEF Kind, Hooks, Opens, Locks, Loads, Truncates, Writes,
                     Lists, Unlinks, Checks, MakesDir, ListDir, Unlink
      <4> QED  BY <4>2, <4>3, <4>4
    <3> QED  BY <3>2, <3>3, <3>4
  <2>3. ASSUME NEW p \in Proc, Begins(p)
        PROVE  /\ json'.of \in {NoProc, d}
               /\ \A q \in Proc : Using(q)' => mem'[q].of \in {NoProc, d}
               /\ \A q \in Proc \ {d} :
                    cmd'[q] = "create" /\ InFlight(q)' => Early(q)'
    <3>1. /\ UNCHANGED <<json, mem, fd>>
          /\ \A q \in Proc \ {p} : pc'[q] = pc[q] /\ cmd'[q] = cmd[q]
          /\ pc[p] = "idle" /\ pc'[p] \in {"check", "exists", "open"}
          /\ cmd'[p] = "create" => pc'[p] = "check"
      BY <2>3 DEF Begins, Invoke, stateVars, dirVars, ControlTypes
    <3>2. mem[p].of = NoProc
      BY <3>1 DEF DeletedInv, Unloaded, Control
    <3> QED  BY <2>1, <3>1, <3>2 DEF Using, InFlight
  <2>4. CASE UNCHANGED vars
    BY <2>1, <2>4 DEF vars, stateVars, dirVars, ctlVars, Using, InFlight
  <2> QED  BY <2>2, <2>3, <2>4 DEF Kinds
<1> QED  BY <1>1, <1>2

\* A delete whose unmounting has worked does not find a read-only root in the
\* directory.
LEMMA Unblocked ==
  ASSUME ControlTypes, DeletedInv, MountedInv, Thorough,
         NEW p \in Proc, IsDelete(p), mem[p].of # NoProc,
         pc[p] \in {"rm", "unlink"}
  PROVE  ~Blocked
<1>1. mem[p].of \notin mounted
  BY DEF DeletedInv, Deleting, Thorough
<1>2. Using(p)
  BY DEF Using, InFlight, IsDelete
<1> QED  BY <1>1, <1>2, CommandsAssumption DEF MountedInv, Blocked

-----------------------------------------------------------------------------
(* The poststop hooks.                                                     *)

\* Every step preserves EndedInv.
LEMMA EndedStep ==
  ASSUME ControlTypes, ControlTypes', Control, Control', Roles, KnownForked,
         DeletedInv, HookedInv, EndedInv, Kinds
  PROVE  EndedInv'
<1> USE RuntimeStateAssumption DEF ControlTypes, MemType
<1> DEFINE Old(c, q) == <<"poststop", c, q>> \in ran
<1>1. ASSUME NEW p \in Proc, Kind(p) PROVE EndedInv'
  <2>1. /\ cmd' = cmd /\ OnlyMoves(p) /\ Lasting
        /\ \A q \in Proc \ {p} : mem'[q] = mem[q] /\ fd'[q] = fd[q]
    BY <1>1, KindFlight DEF Kinds
  <2>2. CASE Hooks(p, "poststop", "rm")
    <3>1. /\ pc[p] = "poststop" /\ IsDelete(p) /\ pc'[p] = "rm"
          /\ mem' = mem /\ fd' = fd /\ fd[p] \in Proc
          /\ ran' = ran \cup {<<"poststop", mem[p].of, p>>}
      BY <2>2 DEF Hooks, record, Roles, Control, HasFile, LockedPcs
    <3>2. ASSUME NEW c \in Proc, Removed(c)'  PROVE jail' # c
      <4>1. jail # c /\ child[c] # "none"
        <5>1. CASE c = mem[p].of
          BY <3>1, <5>1 DEF DeletedInv, Deleting, KnownForked, Unforked,
               IsDelete
        <5>2. CASE Removed(c)
          BY <5>2 DEF EndedInv, HookedInv
        <5> QED  BY <1>1, <3>1, <3>2, <5>1, <5>2, KindHooks DEF Removed
      <4> QED  BY <2>1, <4>1 DEF Lasting, Control, PreFork
    <3>3. ASSUME NEW c \in Proc, NEW q \in Proc, <<"poststop", c, q>> \in ran'
          PROVE  /\ IsDelete(q)' /\ mem'[q].of = c /\ fd'[q] \in Proc
                 /\ pc'[q] \in {"rm", "unlink", "done"}
      <4>1. CASE q = p
        <5>1. ~Old(c, q)  BY <3>1, <4>1 DEF EndedInv
        <5> QED  BY <2>1, <3>1, <3>3, <4>1, <5>1 DEF IsDelete
      <4>2. CASE q # p
        <5>1. Old(c, q)  BY <3>1, <3>3, <4>2
        <5> QED  BY <2>1, <3>1, <4>2, <5>1 DEF EndedInv, IsDelete, OnlyMoves
      <4> QED  BY <4>1, <4>2
    <3> QED  BY <3>2, <3>3 DEF EndedInv
  <2>3. CASE ~Hooks(p, "poststop", "rm")
    <3>1. \A c, q \in Proc : <<"poststop", c, q>> \in ran' <=> Old(c, q)
      BY <1>1, <2>3, PoststopRuns
    <3>2. ASSUME NEW c \in Proc, Removed(c)'  PROVE jail' # c
      <4>1. Removed(c)  BY <3>1, <3>2 DEF Removed, RunsHook
      <4>2. jail # c /\ child[c] # "none"
        BY <4>1 DEF EndedInv, HookedInv
      <4> QED  BY <2>1, <4>2 DEF Lasting, Control, PreFork
    <3>3. ASSUME NEW c \in Proc, NEW q \in Proc, <<"poststop", c, q>> \in ran'
          PROVE  /\ IsDelete(q)' /\ mem'[q].of = c /\ fd'[q] \in Proc
                 /\ pc'[q] \in {"rm", "unlink", "done"}
      <4>1. /\ IsDelete(q) /\ mem[q].of = c /\ fd[q] \in Proc
            /\ pc[q] \in {"rm", "unlink", "done"}
        BY <3>1, <3>3 DEF EndedInv
      <4>2. CASE q # p
        BY <2>1, <4>1, <4>2 DEF IsDelete, OnlyMoves
      <4>3. CASE q = p /\ Passes(p)
        BY <2>1, <4>1, <4>3 DEF Passes, record, Moves, CreateMoves, StartMoves,
             DeleteMoves, ExecMoves, IsDelete, IsExec
      <4>4. CASE q = p /\ ~Passes(p)
        BY <1>1, <2>1, <4>1, <4>4 DEF Kind, Hooks, Opens, Locks, Loads,
             Truncates, Writes, Lists, Unlinks, Empties, Checks, MakesDir,
             ListDir, Unlink, RemoveDir, IsDelete
      <4> QED  BY <4>2, <4>3, <4>4
    <3> QED  BY <3>2, <3>3 DEF EndedInv
  <2> QED  BY <2>2, <2>3
<1>2. ASSUME NEW p \in Proc, Begins(p) PROVE EndedInv'
  <2>1. UNCHANGED <<jail, mem, fd, ran>>
    BY <1>2 DEF Begins, Invoke, stateVars, hostVars
  <2>2. \A q \in Proc : pc[q] # "idle" => pc'[q] = pc[q] /\ cmd'[q] = cmd[q]
    BY <1>2 DEF Begins, Invoke
  <2> QED  BY <2>1, <2>2 DEF EndedInv, Removed, RunsHook, IsDelete
<1>3. CASE UNCHANGED vars
  BY <1>3 DEF vars, stateVars, ctlVars, hostVars, EndedInv, IsDelete, Removed,
       RunsHook
<1> QED  BY <1>1, <1>2, <1>3 DEF Kinds

\* Who has come to a container through another lock file has done so for good.
LEMMA TwoLocksStay ==
  ASSUME ControlTypes, Control, DeletedInv, NEW p \in Proc, Kind(p),
         NEW c \in Proc, TwoLocks(c)
  PROVE  TwoLocks(c)'
<1> USE RuntimeStateAssumption
<1>1. ASSUME NEW q \in Proc, mem[q].of = c, fd[q] # NoProc
      PROVE  mem'[q].of = c /\ fd'[q] = fd[q]
  <2>1. ~(p = q /\ (Loads(p) \/ Checks(p)))
    <3>1. ~(p = q /\ Checks(p))
      BY <1>1 DEF Checks, Control, Fresh
    <3>2. ~(p = q /\ Loads(p))
      BY <1>1 DEF Loads, DeletedInv, Unloaded, Control, OtherPcs
    <3> QED  BY <3>1, <3>2
  <2>2. mem'[q].of = c
    BY <1>1, <2>1, Describes
  <2>3. fd'[q] = fd[q]
    <3>1. CASE p # q  BY <3>1, KindFlight
    <3>2. CASE p = q
      <4>1. ~Opens(p)
        BY <1>1, <3>2 DEF Opens, Control, Fresh
      <4> QED  BY <4>1 DEF Kind, Passes, Hooks, Locks, Loads, Truncates,
               Writes, Lists, Unlinks, Empties, Checks, MakesDir, Truncate,
               Write, ListDir, Unlink, create_directories, record
    <3> QED  BY <3>1, <3>2
  <2> QED  BY <2>2, <2>3
<1> QED  BY <1>1 DEF TwoLocks

\* Those who keep their locks to work on a container that everybody has come
\* to through the same lock file are one.
LEMMA SameLock ==
  ASSUME ControlTypes, Control, UsingInv, NEW c \in Proc, ~TwoLocks(c),
         NEW p \in Proc, NEW q \in Proc, Using(p), Using(q), Keeps(p),
         Keeps(q), mem[p].of = c, mem[q].of = c
  PROVE  p = q
<1>1. fd[p] # NoProc /\ fd[q] # NoProc
  BY RuntimeStateAssumption DEF Keeps, Critical, Control, HasFile
<1>2. holder[fd[p]] = p /\ holder[fd[q]] = q
  BY DEF UsingInv, Uses
<1> QED  BY <1>1, <1>2 DEF TwoLocks

\* A delete that has run the poststop hooks, and has not ended, keeps its lock
\* if the hooks could be executed.
LEMMA EndingKeeps ==
  ASSUME ControlTypes, Control, EndedInv, Thorough, NEW c \in Proc,
         NEW p \in Proc, <<"poststop", c, p>> \in ran, pc[p] # "done"
  PROVE  /\ Using(p) /\ Keeps(p) /\ mem[p].of = c /\ IsDelete(p)
         /\ fd[p] # NoProc /\ pc[p] \in {"rm", "unlink"}
<1>1. /\ IsDelete(p) /\ mem[p].of = c /\ fd[p] # NoProc
      /\ pc[p] \in {"rm", "unlink"}
  BY RuntimeStateAssumption DEF EndedInv
<1> QED  BY <1>1 DEF Using, InFlight, IsDelete, IsExec, Keeps, Critical,
         CleanupPcs, HadHooks, Thorough, Control

\* In particular nobody but itself saves a state of that container.
LEMMA NobodySaves ==
  ASSUME ControlTypes, Control, Roles, MakingInv, UsingInv, EndedInv,
         FinishInv, Thorough, NEW c \in Proc, ~TwoLocks(c),
         NEW p \in Proc, <<"poststop", c, p>> \in ran,
         NEW q \in Proc, pc[q] \in {"save", "write"}
  PROVE  mem[q].of # c
<1> SUFFICES ASSUME mem[q].of = c  PROVE FALSE
  OBVIOUS
<1>1. cmd[q] # "create"
  <2>1. Removed(c)  BY DEF Removed, RunsHook
  <2> QED  BY <2>1 DEF MakingInv, Makes, InFlight
<1>2. Using(q) /\ Keeps(q)
  BY <1>1, Keeping
<1>3. CASE pc[p] = "done"
  BY <1>2, <1>3 DEF FinishInv, Finishes
<1>4. CASE pc[p] # "done"
  BY <1>2, <1>4, EndingKeeps, SameLock
<1> QED  BY <1>3, <1>4

\* A step of p, which has run the poststop hooks and now ends, leaves no
\* state.json of that container behind.
LEMMA EndsEmpty ==
  ASSUME ControlTypes, Control, DeletedInv, FileInv, UsingInv, MountedInv,
         EndedInv, FinishInv, Thorough, NEW c \in Proc, ~TwoLocks(c),
         NEW p \in Proc, <<"poststop", c, p>> \in ran, Kind(p),
         pc[p] # "done", pc'[p] = "done"
  PROVE  json'.of # c
<1> USE RuntimeStateAssumption
<1>1. IsDelete(p) /\ mem[p].of = c /\ pc[p] \in {"rm", "unlink"}
  BY EndingKeeps
<1>2. ~exists => json.of # c
  BY DEF FileInv, NoFile
<1>3. ~Blocked
  BY <1>1, Unblocked
<1>4. CASE Passes(p)
  <2>1. \/ pc[p] = "rm" /\ ~dir
        \/ pc[p] = "unlink" /\ listing[p] = {}
    BY <1>1, <1>3, <1>4 DEF Passes, Moves, Thorough, CreateMoves, StartMoves,
         DeleteMoves, ExecMoves
  <2>2. json' = json  BY <1>4 DEF Passes, record
  <2> QED  BY <1>2, <2>1, <2>2 DEF FileInv, FinishInv, Finishes
<1>5. CASE ~Passes(p)
  <2>1. Empties(p)
    BY <1>1, <1>5 DEF Kind, Hooks, Opens, Locks, Loads, Truncates, Writes,
         Lists, Unlinks, Checks, MakesDir
  <2>2. json' = json /\ ~exists
    BY <2>1 DEF Empties, RemoveDir, Entries, Name
  <2> QED  BY <1>2, <2>2
<1> QED  BY <1>4, <1>5

\* Every step preserves FinishInv: nobody makes another state.json of the
\* container while p is at it.
LEMMA FinishStep ==
  ASSUME ControlTypes, ControlTypes', Control, Roles, Recorded, DeletedInv,
         FileInv, MakingInv, UsingInv, MountedInv, EndedInv, FinishInv,
         listing \in [Proc -> SUBSET Name], Kinds
  PROVE  FinishInv'
<1> USE RuntimeStateAssumption DEF ControlTypes, MemType
<1>1. ASSUME NEW s \in Proc, Kind(s), NEW c \in Proc, NEW p \in Proc,
             <<"poststop", c, p>> \in ran', Thorough, ~TwoLocks(c)'
      PROVE  Finishes(c, p)'
  <2>1. ~TwoLocks(c)  BY <1>1, TwoLocksStay
  <2>2. CASE <<"poststop", c, p>> \notin ran
    <3>1. Hooks(s, "poststop", "rm") /\ p = s
      BY <1>1, <2>2, PoststopRuns
    <3> QED  BY <3>1 DEF Hooks, Finishes
  <2>3. CASE <<"poststop", c, p>> \in ran
    <3>1. Finishes(c, p)
      BY <1>1, <2>1, <2>3 DEF FinishInv
    <3>2. /\ cmd' = cmd /\ OnlyMoves(s)
          /\ \A q \in Proc : InFlight(q)' => InFlight(q)
      BY <1>1, KindFlight
    <3>3. json'.of = c => json.of = c
      <4>1. ~(Writes(s) /\ mem[s].of = c)
        BY <1>1, <2>1, <2>3, NobodySaves DEF Writes
      <4> QED  BY <1>1, <4>1, Describes
    <3>4. ASSUME pc'[p] = "unlink", json'.of = c
          PROVE  "state.json" \in listing'[p]
      <4>1. exists /\ json.of = c
        BY <3>3, <3>4 DEF FileInv, NoFile
      <4>2. ~Empties(s)
        BY <4>1 DEF Empties, RemoveDir, Entries, Name
      <4>3. CASE Unlinks(s)
        <5>1. pc[p] = "unlink"  BY <3>4, <4>3 DEF Unlinks
        <5>2. PICK n \in listing[s] :
                /\ listing' = [listing EXCEPT ![s] = @ \ {n}]
                /\ json' = IF n = "state.json" THEN NoFile ELSE json
          BY <4>3 DEF Unlinks, Unlink
        <5>3. n # "state.json"
          BY <3>4, <5>2 DEF NoFile
        <5> QED  BY <3>1, <4>1, <5>1, <5>2, <5>3 DEF Finishes
      <4>4. CASE Lists(s)
        <5>1. /\ "state.json" \in Entries
              /\ listing' = [listing EXCEPT ![s] = Entries]
          BY <4>1, <4>4 DEF Lists, ListDir, Entries, Name
        <5>2. CASE p = s  BY <5>1, <5>2
        <5>3. CASE p # s
          BY <3>1, <3>2, <3>4, <4>1, <5>1, <5>3 DEF Finishes, OnlyMoves
        <5> QED  BY <5>2, <5>3
      <4>5. CASE ~Unlinks(s) /\ ~Lists(s)
        <5>1. listing' = listing
          BY <1>1, <4>2, <4>5 DEF Kind, Passes, Hooks, Opens, Locks, Loads,
               Truncates, Writes, Checks, MakesDir, OpenLock, Truncate, Write,
               create_directories, record, dirVars
        <5>2. pc[p] = "unlink"
          <6>1. CASE p # s  BY <3>2, <3>4, <6>1 DEF OnlyMoves
          <6>2. CASE p = s
            BY <1>1, <3>4, <4>2, <4>5, <6>2
               DEF Kind, Passes, Moves, CreateMoves, StartMoves, DeleteMoves,
                   ExecMoves, Hooks, Opens, Locks, Loads, Truncates, Writes,
                   Checks, MakesDir, AfterSave
          <6> QED  BY <6>1, <6>2
        <5> QED  BY <3>1, <4>1, <5>1, <5>2 DEF Finishes
      <4> QED  BY <4>3, <4>4, <4>5
    <3>5. ASSUME pc'[p] = "done"
          PROVE  /\ json'.of # c
                 /\ \A q \in Proc : Using(q)' /\ Keeps(q)' => mem'[q].of # c
      <4>1. CASE pc[p] = "done"
        <5>1. json.of # c  BY <3>1, <4>1 DEF Finishes
        <5>2. ASSUME NEW q \in Proc, Using(q)', Keeps(q)', mem'[q].of = c
              PROVE  FALSE
          <6>1. Using(q)  BY <3>2, <5>2 DEF Using
          <6>2. mem[q].of = c
            <7>1. ~(s = q /\ Checks(s))  BY <6>1 DEF Checks, Using
            <7> QED  BY <1>1, <5>1, <5>2, <7>1, Describes
          <6>3. ~(s = q /\ Locks(s))
            BY <6>1, <6>2 DEF Locks, DeletedInv, Unloaded, Using
          <6>4. Keeps(q)
            BY <1>1, <5>2, <6>1, <6>3, KeepsBefore DEF Kinds
          <6> QED  BY <3>1, <4>1, <6>1, <6>2, <6>4 DEF Finishes
        <5> QED  BY <3>3, <5>1, <5>2
      <4>2. CASE pc[p] # "done"
        <5>1. p = s  BY <3>2, <3>5, <4>2 DEF OnlyMoves
        <5>2. json'.of # c
          BY <1>1, <2>1, <2>3, <3>5, <4>2, <5>1, EndsEmpty
        <5>3. ASSUME NEW q \in Proc, Using(q)', Keeps(q)', mem'[q].of = c
              PROVE  FALSE
          <6>1. q # p  BY <3>5, <5>3 DEF Using, InFlight
          <6>2. Using(q) /\ mem[q].of = c
            BY <1>1, <3>2, <5>1, <5>3, <6>1, KindFlight DEF Using
          <6>3. Keeps(q)
            BY <1>1, <5>1, <5>3, <6>1, <6>2, KeepsBefore DEF Kinds
          <6> QED  BY <1>1, <2>1, <2>3, <4>2, <6>1, <6>2, <6>3, EndingKeeps,
                   SameLock
        <5> QED  BY <5>2, <5>3
      <4> QED  BY <4>1, <4>2
    <3> QED  BY <3>4, <3>5 DEF Finishes
  <2> QED  BY <2>2, <2>3
<1>2. ASSUME NEW s \in Proc, Begins(s), NEW c \in Proc, NEW p \in Proc,
             <<"poststop", c, p>> \in ran', Thorough, ~TwoLocks(c)'
      PROVE  Finishes(c, p)'
  <2>1. UNCHANGED <<json, listing, mem, fd, xchild, ran>>
    BY <1>2 DEF Begins, Invoke, stateVars, dirVars, hostVars
  <2>2. \A q \in Proc \ {s} : pc'[q] = pc[q] /\ cmd'[q] = cmd[q]
    BY <1>2 DEF Begins, Invoke
  <2>3. Finishes(c, p) /\ p # s
    <3>1. <<"poststop", c, p>> \in ran /\ ~TwoLocks(c)
      BY <1>2, <2>1 DEF TwoLocks
    <3>2. pc[s] = "idle"  BY <1>2 DEF Begins, Invoke
    <3> QED  BY <1>2, <3>1, <3>2 DEF FinishInv, EndedInv
  <2>4. pc[s] = "idle" /\ pc'[s] \in {"check", "exists", "open"}
    BY <1>2 DEF Begins, Invoke
  <2>5. ~Keeps(s)'
    BY <2>4 DEF Keeps, Critical, LockedPcs, CleanupPcs
  <2>6. \A q \in Proc \ {s} : Using(q)' /\ Keeps(q)' => Using(q) /\ Keeps(q)
    BY <2>1, <2>2 DEF Using, InFlight, Keeps, Critical, IsDelete, HadHooks
  <2> QED  BY <2>1, <2>2, <2>3, <2>5, <2>6 DEF Finishes
<1>3. CASE UNCHANGED vars
  BY <1>3 DEF vars, stateVars, dirVars, ctlVars, hostVars, FinishInv, Finishes,
       Using, InFlight, Keeps, Critical, IsDelete, HadHooks, TwoLocks
<1> QED  BY <1>1, <1>2, <1>3 DEF Kinds, FinishInv

\* Every step preserves PoststopOnce: a second delete of the container finds
\* the first one at work, or nothing to load.
LEMMA OnceStep ==
  ASSUME ControlTypes, ControlTypes', Control, Roles, DeletedInv, UsingInv,
         EndedInv, EndedInv', FinishInv, PoststopOnce, Kinds
  PROVE  PoststopOnce'
<1>1. ASSUME NEW s \in Proc, Kind(s) PROVE PoststopOnce'
  <2> SUFFICES ASSUME NEW c \in Proc, NEW p \in Proc, NEW q \in Proc,
                      <<"poststop", c, p>> \in ran, s = q,
                      Hooks(q, "poststop", "rm"), mem[q].of = c,
                      Thorough, ~TwoLocks(c)
               PROVE  FALSE
    <3>1. \A c, q \in Proc :
            <<"poststop", c, q>> \in ran' =>
              \/ <<"poststop", c, q>> \in ran
              \/ s = q /\ Hooks(q, "poststop", "rm") /\ mem[q].of = c
      BY <1>1, PoststopRuns
    <3>2. \A c \in Proc : TwoLocks(c) => TwoLocks(c)'
      BY <1>1, TwoLocksStay
    <3> QED  BY <3>1, <3>2 DEF PoststopOnce
  <2>1. pc[q] = "poststop" /\ cmd[q] # "create"
    BY DEF Hooks, Roles, IsDelete
  <2>2. Using(q) /\ Keeps(q)
    BY <2>1, Keeping
  <2>3. CASE pc[p] = "done"
    BY <2>2, <2>3 DEF FinishInv, Finishes
  <2>4. CASE pc[p] # "done"
    BY <2>1, <2>2, <2>4, EndingKeeps, SameLock
  <2> QED  BY <2>3, <2>4
<1>2. CASE UNCHANGED <<ran, mem, fd>>
  BY <1>2 DEF PoststopOnce, TwoLocks
<1> QED  BY <1>1, <1>2 DEF Kinds, Begins, Invoke, vars, stateVars

-----------------------------------------------------------------------------
(* The theorems.                                                           *)

\* All of the above, and what it rests on.
LockingInv ==
  /\ ControlTypes /\ Control /\ TypeOK
  /\ KnownForked /\ Recorded /\ StoppedInv /\ DeletedInv /\ TornInv /\ WaitInv
  /\ Roles /\ Serial /\ FileInv /\ HookedInv /\ MakingInv /\ UsingInv
  /\ CurrentInv /\ MountedInv /\ EndedInv /\ FinishInv /\ PoststopOnce

\* It holds of every instance in which nothing overlaps with a create.
LEMMA LockingInvariant ==
  ASSUME Overlap = {}
  PROVE  Spec => []LockingInv
<1> USE RuntimeStateAssumption
<1>1. Init =>
        /\ KnownForked /\ Recorded /\ StoppedInv /\ DeletedInv /\ TornInv
        /\ WaitInv
  BY DEF Init, StateInit, HostInit, CommandsInit, KnownForked, Recorded,
         StoppedInv, DeletedInv, Deleting, IsDelete, OthersOnly, TornInv,
         TornHasWriter, WaitInv, BeforeFifo, AtFifo, exists, NoFile, NoMem,
         Blocked
<1>2. Init => Roles /\ Serial /\ FileInv /\ HookedInv
  BY DEF Init, StateInit, HostInit, CommandsInit, Roles, StartPcs, CleanupPcs,
         Serial, InFlight, FileInv, Original, exists, NoFile, HookedInv,
         Removed, RunsHook
<1>3. Init => /\ MakingInv /\ UsingInv /\ CurrentInv /\ MountedInv /\ EndedInv
              /\ FinishInv /\ PoststopOnce
  BY DEF Init, StateInit, HostInit, CommandsInit, MakingInv, UsingInv, Using,
         CurrentInv, InFlight, MountedInv, EndedInv, FinishInv, PoststopOnce,
         Removed, RunsHook
<1>4. LockingInv /\ ControlTypes' /\ Control' /\ TypeOK' /\ [Next]_vars
      => LockingInv'
  <2> SUFFICES ASSUME LockingInv, ControlTypes', Control', TypeOK',
                      [Next]_vars
               PROVE  LockingInv'
    OBVIOUS
  <2> USE DEF LockingInv
  <2>1. /\ KnownForked' /\ Recorded' /\ StoppedInv' /\ DeletedInv'
        /\ TornInv' /\ WaitInv'
    BY KnownForkedStep, RecordedStep, StoppedStep, DeletedStep, TornStep,
       WaitStep DEF TypeOK
  <2>2. Kinds  BY StepKinds DEF TypeOK
  <2>3. Roles' /\ Serial' /\ FileInv' /\ HookedInv' /\ MakingInv' /\ UsingInv'
    BY <2>2, RolesStep, SerialStep, FileStep, HookedStep, MakingStep, UsingStep
  <2>4. CurrentInv' /\ MountedInv' /\ EndedInv' /\ FinishInv'
    BY <2>2, <2>3, CurrentStep, MountedStep, EndedStep, FinishStep
       DEF TypeOK, StateTypeOK
  <2>5. PoststopOnce'
    BY <2>2, <2>4, OnceStep
  <2> QED  BY <2>1, <2>3, <2>4, <2>5
<1>5. ControlTypes /\ Control /\ TypeOK /\ Init => LockingInv
  BY <1>1, <1>2, <1>3 DEF LockingInv
<1> QED  BY <1>4, <1>5, ControlInvariant, TypeCorrect, PTL DEF Spec

\* LoadedIsCurrent holds of every instance in which nothing overlaps with a
\* create: no command loses an update of another.
THEOREM LoadedIsCurrentAlways ==
  ASSUME Overlap = {}
  PROVE  Spec => []LoadedIsCurrent
<1>1. LockingInv => LoadedIsCurrent
  <2> SUFFICES ASSUME LockingInv, NEW p \in Proc,
                      Relies(p), ~Removed(mem[p].of)
               PROVE  /\ Readable /\ json.of = mem[p].of
                      /\ json.status = mem[p].status
    BY DEF LoadedIsCurrent
  <2> USE RuntimeStateAssumption DEF LockingInv
  <2>1. InFlight(p) /\ pc[p] \notin {"exists", "open", "flock", "load"}
    BY DEF Relies, Critical, LockedPcs, CleanupPcs, InFlight
  <2>2. CASE cmd[p] = "create"
    <3>1. pc[p] \in {"createRuntime", "unlock"}
      BY <2>2 DEF Relies, Critical, LockedPcs, CleanupPcs, IsDelete, Control,
           OtherPcs, ExecPcs, IsExec, Roles, StartPcs
    <3>2. MadeBy(p) /\ mem[p].of = p /\ mem[p].status = "created"
      BY <2>1, <2>2, <3>1 DEF MakingInv, Makes
    <3> QED  BY <3>2 DEF MadeBy, Readable, exists, FileInv
  <2>3. CASE cmd[p] # "create"
    <3>1. Using(p) /\ HasLoaded(p)
      BY <2>1, <2>3 DEF Using, HasLoaded, Relies, Critical, LockedPcs
    <3>2. Original /\ json.of = mem[p].of
      BY <3>1, OnOriginal
    <3> QED  BY <3>1, <3>2 DEF CurrentInv, Readable, Original, FileInv
  <2> QED  BY <2>2, <2>3
<1> QED  BY <1>1, LockingInvariant, PTL

\* PoststopOnce holds of every instance in which nothing overlaps with a
\* create: a delete that has waited for another one, on the same lock file,
\* finds nothing to load, and does not run the poststop hooks again.  Only one
\* that has opened a newer lock file can, while state.json is still there.
THEOREM PoststopOnceAlways ==
  ASSUME Overlap = {}
  PROVE  Spec => []PoststopOnce
<1>1. LockingInv => PoststopOnce
  BY DEF LockingInv
<1> QED  BY <1>1, LockingInvariant, PTL
=============================================================================
