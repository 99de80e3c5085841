------------------------------ MODULE Commands ------------------------------
(***************************************************************************)
(* What every ocijail command does: it is a process that runs to its end   *)
(* once, takes the container's lock, loads, checks and saves the state,    *)
(* runs hooks (hook.cpp), removes the state directory, and returns, throws *)
(* or is killed.  The steps of one command only are in Create, Start, Exec,*)
(* Inspect and Delete.                                                     *)
(***************************************************************************)
EXTENDS Host

CONSTANTS
  Cmds,      \* the commands that get invoked
  Faults,    \* what may go wrong, see below
  ReadonlyRoots, \* the creates whose bundle has a read-only root
  Overlap    \* the commands that may be in flight while a create is

Command   == {"create", "start", "kill", "state", "list", "delete",
              "delete_force", "exec", "exec_detached"}
FaultKind == {"config",      \* create rejects the bundle's configuration
              "mount",       \* mounting a volume fails
              "jail",        \* jail_set() fails
              "fork",        \* fork() of a container process fails
              "pre_start",   \* the console hand-off throws in the child
              "validate",    \* chdir, attach or the executable check fails
              "hook",        \* execve() of a hook fails
              "unmount",     \* unmounting a volume fails
              "unmount_root",\* unmounting a read-only root fails
              "crash"}       \* a command is killed

ASSUME CommandsAssumption ==
  /\ Cmds \subseteq Command /\ Overlap \subseteq Command
  /\ Faults \subseteq FaultKind /\ ReadonlyRoots \subseteq Proc

VARIABLES
  pc,      \* pc[p]: the step p takes next
  cmd,     \* cmd[p]: the command that p runs
  out,     \* out[p]: how p ended
  go,      \* go[p]: the byte of create or exec p to its child is on its way
  report,  \* report[p]: first byte that came back, "none" while none has
  ran      \* history: <<phase, container, process>> of every hook run

ctlVars == <<pc, cmd, out>>
vars == <<stateVars, hostVars, ctlVars, go, report, ran>>

Phase == {"createRuntime", "createContainer", "prestart", "startContainer",
          "poststart", "poststop"}

\* The steps at which p holds the lock; create calls unlock() itself.
LockedPcs == {"mount", "jail", "mkfifo", "fork", "save", "write",
              "createRuntime", "unlock", "load", "kill", "prestart",
              "open_fifo", "write_fifo", "close_fifo", "poststart", "decide",
              "poststop", "return", "exec_fork", "exec_signal",
              "exec_await", "exec_run"}
\* Steps that create also takes, when it no longer holds the lock.
CleanupPcs == {"remove_jail", "unmount", "rm", "unlink"}
FreePcs == {"idle", "check", "exists", "mkdir", "open", "flock", "signal",
            "await", "done"}
Pcs == LockedPcs \cup CleanupPcs \cup FreePcs

CommandsTypeOK ==
  /\ pc \in [Proc -> Pcs]
  /\ cmd \in [Proc -> Command \cup {"none"}]
  /\ out \in [Proc -> {"none", "ok", "error", "crashed"}]
  /\ go \in [Proc -> BOOLEAN]
  /\ report \in [Proc -> {"none", "ok", "failed"}]
  /\ ran \subseteq Phase \X ProcOrNone \X Proc

CommandsInit ==
  /\ pc = [p \in Proc |-> "idle"]
  /\ cmd = [p \in Proc |-> "none"]
  /\ out = [p \in Proc |-> "none"]
  /\ go = [c \in Proc |-> FALSE]
  /\ report = [c \in Proc |-> "none"]
  /\ ran = {}

InFlight(p)  == pc[p] \notin {"idle", "done"}
IsDelete(p)  == cmd[p] \in {"delete", "delete_force"}
IsExec(p)    == cmd[p] \in {"exec", "exec_detached"}
Returned(p)  == pc[p] = "done" /\ out[p] = "ok"

-----------------------------------------------------------------------------
(* Control.                                                                *)

Goto(p, l) == pc' = [pc EXCEPT ![p] = l] /\ UNCHANGED <<cmd, out>>

End(p, o) ==
  /\ pc' = [pc EXCEPT ![p] = "done"]
  /\ out' = [out EXCEPT ![p] = o]
  /\ UNCHANGED cmd

\* run() returns or an exception leaves it: ~locked_state() unlocks.
Leave(p, o) ==
  /\ End(p, o)
  /\ ReleaseLock(p)

Throw(p) ==
  /\ Leave(p, "error")
  /\ UNCHANGED <<hostVars, go, report, ran>>

\* The step that comes after state_ is saved, or found up to date.
AfterSave(p) ==
  CASE cmd[p] = "create" -> "createRuntime"
    [] cmd[p] = "start"  -> "prestart"
    [] IsDelete(p)         -> "decide"
    [] OTHER             -> "return"

\* Only the first byte that a child reports is ever read.
FirstReport(p, r) ==
  report' = [report EXCEPT ![p] = IF @ = "none" THEN r ELSE @]

-----------------------------------------------------------------------------
(* Hooks.                                                                  *)

\* run_hooks() waits for every hook and ignores how it ended.  The child
\* that was to become the hook unwinds if execve() fails: its copy of the
\* locked_state unlocks the open file it shares with owner.
RunHooks(p, owner, phase) ==
  /\ ran' = ran \cup {<<phase, mem[owner].of, p>>}
  /\ \/ UNCHANGED stateVars
     \/ "hook" \in Faults /\ ReleaseLock(owner)

-----------------------------------------------------------------------------
(* Steps that several commands take.                                       *)

Invoke(p, c) ==
  /\ pc[p] = "idle"
  /\ \A q \in Proc : InFlight(q) =>
       /\ c = "create" => cmd[q] \in Overlap
       /\ cmd[q] = "create" => c \in Overlap
  /\ cmd' = [cmd EXCEPT ![p] = c]
  /\ pc' = [pc EXCEPT ![p] =
              CASE c = "create"                            -> "check"
                [] c \in {"list", "delete", "delete_force"} -> "exists"
                [] OTHER                                   -> "open"]
  /\ UNCHANGED <<stateVars, hostVars, out, go, report, ran>>

\* First half of lock(), and of the O_EXLOCK open in runtime_state::create().
Open(p) ==
  /\ pc[p] = "open"
  /\ \/ OpenLock(p) /\ Goto(p, "flock")
        /\ UNCHANGED <<hostVars, go, report, ran>>
     \/ ~dir /\ Throw(p)

Flock(p) ==
  /\ pc[p] = "flock"
  /\ TakeLock(p)
  /\ Goto(p, IF cmd[p] = "create" THEN "mount" ELSE "load")
  /\ UNCHANGED <<hostVars, go, report, ran>>

\* load() has read json.of's state into state_, and the command goes to l.
LoadThen(p, l) ==
  /\ pc[p] = "load"
  /\ load(p)
  /\ Goto(p, l)
  /\ UNCHANGED <<hostVars, go, report, ran>>

LoadFails(p) ==
  /\ pc[p] = "load"
  /\ ~Readable
  /\ Throw(p)

\* Mutant of LoadAndCheck: a zombie counts as gone.
LoadAndCheckZombie(p) ==
  /\ pc[p] = "load"
  /\ Readable
  /\ IF Live(json.status) /\ child[json.of] \in Dead
     THEN SetStatus(p, json.of, "stopped") /\ Goto(p, "save")
     ELSE SetStatus(p, json.of, json.status) /\ Goto(p, AfterSave(p))
  /\ UNCHANGED <<dirVars, fd, holder, hostVars, go, report, ran>>

\* load() followed by check_status(): a created or running container whose
\* pid has gone is stopped, and saved as such.
LoadAndCheck(p) ==
  /\ pc[p] = "load"
  /\ Readable
  /\ IF Live(json.status) /\ child[json.of] = "gone"
     THEN SetStatus(p, json.of, "stopped") /\ Goto(p, "save")
     ELSE SetStatus(p, json.of, json.status) /\ Goto(p, AfterSave(p))
  /\ UNCHANGED <<dirVars, fd, holder, hostVars, go, report, ran>>

SaveBegin(p) ==
  /\ pc[p] = "save"
  /\ Truncate(p)
  /\ Goto(p, "write")
  /\ UNCHANGED <<hostVars, go, report, ran>>

SaveEnd(p) ==
  /\ pc[p] = "write"
  /\ Write(p)
  /\ Goto(p, AfterSave(p))
  /\ UNCHANGED <<hostVars, go, report, ran>>

\* kill() of the container process.  What it had open is closed: if its
\* create has gone, the lock is free.
Kill(c) ==
  /\ KillProcess(c)
  /\ IF c \in Proc /\ Alive(c) /\ pc[c] = "done"
     THEN ReleaseLock(c)
     ELSE UNCHANGED stateVars

\* Mutant of RemoveJail: the jail and its processes stay.
RemoveJailNot(p) ==
  /\ pc[p] = "remove_jail"
  /\ Goto(p, "unmount")
  /\ UNCHANGED <<hostVars, stateVars, go, report, ran>>

\* The flocks once the processes of exec in c's jail have been killed: those
\* whose exec has gone were the last to have its lock file open.
Orphaned(c) == {q \in Proc : /\ xchild[q] \in XInJail /\ mem[q].of = c
                             /\ pc[q] = "done"}
UnlockedIn(c) ==
  [i \in Proc |-> IF holder[i] \in Orphaned(c) THEN NoProc ELSE holder[i]]

\* jail::remove() of the container's jail; EINVAL, no such jail, is ignored.
RemoveJail(p) ==
  /\ pc[p] = "remove_jail"
  /\ IF jail = mem[p].of
     THEN jail_remove(mem[p].of) /\ holder' = UnlockedIn(mem[p].of)
     ELSE UNCHANGED <<hostVars, holder>>
  /\ Goto(p, "unmount")
  /\ UNCHANGED <<dirVars, fd, mem, go, report, ran>>

\* Mutant of Unmount: the volumes are not unmounted.
UnmountNot(p) ==
  /\ pc[p] = "unmount"
  /\ Goto(p, IF IsDelete(p) THEN "poststop" ELSE "rm")
  /\ UNCHANGED <<stateVars, hostVars, go, report, ran>>

\* unmount_volumes(), then unmount() of a read-only root: its failure, -1,
\* is tested with "> 0" and goes unnoticed.
Unmount(p) ==
  /\ pc[p] = "unmount"
  /\ \/ /\ \/ unmount_volumes(mem[p].of)
           \/ /\ "unmount_root" \in Faults /\ mem[p].of \in ReadonlyRoots
              /\ UNCHANGED mounted
        /\ Goto(p, IF IsDelete(p) THEN "poststop" ELSE "rm")
        /\ UNCHANGED stateVars
     \/ /\ "unmount" \in Faults
        /\ unmount_volumes_fails(mem[p].of)
        /\ Leave(p, "error")
  /\ UNCHANGED <<jail, xchild, child, pipeVars, go, report, ran>>

\* What follows remove_all(): create goes on if it was the call in
\* runtime_state::create(), and exits if it was the cleanup.
AfterRemove(p) ==
  IF cmd[p] = "create"
  THEN IF fd[p] = NoProc
       THEN Goto(p, "mkdir") /\ UNCHANGED holder
       ELSE End(p, "error") /\ holder' = Unlocked(p)
  ELSE End(p, "ok") /\ holder' = Unlocked(p)

RemoveBegin(p) ==
  /\ pc[p] = "rm"
  /\ \/ ListDir(p) /\ Goto(p, "unlink")
     \/ ~dir /\ AfterRemove(p) /\ UNCHANGED <<dirVars, fd, mem>>
  /\ UNCHANGED <<hostVars, go, report, ran>>

RemoveNext(p) ==
  /\ pc[p] = "unlink"
  /\ Unlink(p)
  /\ UNCHANGED <<hostVars, ctlVars, go, report, ran>>

\* The directory also has the entry readonly_root of a container whose root
\* is read-only.  While the alias is mounted there, remove_all() can empty the
\* volumes below it, but not remove it, and throws.
Blocked == mounted \cap ReadonlyRoots # {}

RemoveThrows(p) ==
  /\ pc[p] = "unlink" /\ Blocked
  /\ Throw(p)

\* rmdir() fails if an entry appeared after the directory was read.
RemoveEnd(p) ==
  /\ pc[p] = "unlink" /\ listing[p] = {} /\ ~Blocked
  /\ \/ /\ RemoveDir(p) /\ AfterRemove(p)
        /\ UNCHANGED <<fd, hostVars, go, report, ran>>
     \/ Entries # {} /\ Throw(p)

Return(p) ==
  /\ pc[p] = "return"
  /\ Leave(p, "ok")
  /\ UNCHANGED <<hostVars, go, report, ran>>

\* The flock lasts as long as an open of the same file does: a command that
\* has forked shares its open with its child.
SharesLock(p) ==
  \/ cmd[p] = "create" /\ Alive(p)
  \/ cmd[p] = "exec_detached" /\ xchild[p] \in Preparing

\* A command is killed.  An exec that has not forked is itself the process
\* that enters the jail.
Crash(p) ==
  /\ "crash" \in Faults
  /\ InFlight(p)
  /\ End(p, "crashed")
  /\ IF SharesLock(p) THEN UNCHANGED stateVars ELSE ReleaseLock(p)
  /\ IF cmd[p] = "start" THEN CloseFifo(p) ELSE UNCHANGED pipeVars
  /\ IF cmd[p] = "exec" /\ xchild[p] \in Preparing
     THEN xchild' = [xchild EXCEPT ![p] = "dead"]
     ELSE UNCHANGED xchild
  /\ UNCHANGED <<jail, mounted, child, go, report, ran>>

CommonStep(p) ==
  \/ Open(p) \/ Flock(p) \/ LoadFails(p) \/ SaveBegin(p) \/ SaveEnd(p)
  \/ RemoveJail(p) \/ Unmount(p) \/ RemoveBegin(p) \/ RemoveNext(p)
  \/ RemoveThrows(p) \/ RemoveEnd(p) \/ Return(p)
=============================================================================
