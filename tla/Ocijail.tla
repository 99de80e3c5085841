------------------------------ MODULE Ocijail ------------------------------
(***************************************************************************)
(* The life of one container id under any mix of ocijail commands: the     *)
(* specification that puts the commands, the container process and the     *)
(* host together, and what must be true of it.                             *)
(***************************************************************************)
EXTENDS Create, Start, Exec, Inspect, Delete, Naturals

Init == StateInit /\ HostInit /\ CommandsInit

\* A step that invocation p takes by itself.
Step(p) ==
  CommonStep(p) \/ CreateStep(p) \/ StartStep(p) \/ ExecStep(p)
  \/ InspectStep(p) \/ DeleteStep(p)

Next ==
  \/ \E p \in Proc : Step(p)
  \/ \E p \in Proc : ChildStep(p)
  \/ \E p \in Proc : XStep(p)
  \/ \E p \in Proc, c \in Cmds : Invoke(p, c)
  \/ \E p \in Proc : Crash(p)
  \/ \E p \in Proc : ProcessExit(p)
  \/ \E p \in Proc : XExit(p)
  \/ \E p \in Proc : Reap(p)

Spec == Init /\ [][Next]_vars

\* The scheduler runs every process that can run, and init reaps.  Nobody
\* has to invoke a command, be killed, or end a user's process.
Fairness == \A p \in Proc : WF_vars(Step(p)) /\ WF_vars(ChildStep(p))
                            /\ WF_vars(XStep(p)) /\ WF_vars(Reap(p))

FairSpec == Spec /\ Fairness

-----------------------------------------------------------------------------
(* Vocabulary of the properties.                                           *)

\* p is between the end of flock() and unlock() or ~locked_state().
Critical(p) ==
  \/ pc[p] \in LockedPcs
  \/ pc[p] \in CleanupPcs /\ IsDelete(p) /\ fd[p] # NoProc

\* A hook of p's that could not be executed may have unlocked p's lock file.
HadHooks(p) ==
  /\ "hook" \in Faults
  /\ \/ pc[p] \in {"unlock", "open_fifo", "write_fifo", "close_fifo",
                   "poststart", "rm", "unlink"}
     \/ pc[p] = "return" /\ cmd[p] = "start"

\* p relies on its state_ being what state.json says: it has loaded or saved
\* it, and has not begun to change it.  An exec whose process has ended needs
\* it no more.
Relies(p) ==
  /\ Critical(p)
  /\ pc[p] \notin {"load", "mount", "jail", "mkfifo", "fork", "save", "write"}
  /\ xchild[p] # "dead" /\ ~HadHooks(p)

RunsHook(phase, c) == \E p \in Proc : <<phase, c, p>> \in ran

\* A delete of c has got as far as its remove_all().
Removed(c) == RunsHook("poststop", c)

\* A delete that has begun to remove the directory keeps its lock until it has
\* unlinked state.json.  One that is killed there, whose poststop hook cannot
\* be executed, or that throws as the read-only root is still mounted, does
\* not: it lets one command in through the lock file that it has unlinked and
\* another through the one that comes after.
Thorough == Faults \cap {"hook", "crash", "unmount_root"} = {}

\* Two commands cannot both be at work on c and rely on what they have loaded.
Guarded(c) == ~Removed(c) \/ Thorough

\* Commands have come to container c through different lock files.
TwoLocks(c) ==
  \E p, q \in Proc :
    /\ mem[p].of = c /\ mem[q].of = c
    /\ fd[p] # NoProc /\ fd[q] # NoProc /\ fd[p] # fd[q]

\* state.json is the file that create made, not one that a late save() has
\* made in its place after a delete unlinked it.
Original == exists /\ cmd[json.ino] = "create"

Rank(st) == CASE st = "none"    -> 0
              [] st = "created" -> 1
              [] st = "running" -> 2
              [] st = "stopped" -> 3

-----------------------------------------------------------------------------
(* Invariants.                                                             *)

\* Every variable has its type.
TypeOK == StateTypeOK /\ HostTypeOK /\ CommandsTypeOK

\* A command in its critical section holds the flock of the lock file that
\* it opened, and so does the process of an exec until its execve(), also
\* when the exec that forked it has returned or was killed.  A create or an
\* exec whose child throws does not: the child unlocks the open file that
\* the two share.
LockHeld ==
  \A p \in Proc :
    (Critical(p) \/ xchild[p] \in Preparing)
    /\ child[p] \notin Dead /\ xchild[p] # "dead"
      => fd[p] \in Proc /\ holder[fd[p]] = p

\* Until delete removes the state, what a command in its critical section
\* has read is what state.json says: no update is lost, whoever else runs.
LoadedIsCurrent ==
  \A p \in Proc :
    Relies(p) /\ ~Removed(mem[p].of)
      => Readable /\ json.of = mem[p].of /\ json.status = mem[p].status

\* A container is only recorded as stopped when its process is gone for good.
StoppedIsGone ==
  exists /\ json.status = "stopped" => child[json.of] = "gone"

\* At most one start gets past the "created" check: the prestart hooks run
\* for one start only, also when it races with other starts and deletes.
StartedOnce ==
  \A c, p, q \in Proc :
    <<"prestart", c, p>> \in ran /\ <<"prestart", c, q>> \in ran
    /\ Guarded(c) => p = q

\* Two deletes run the poststop hooks of one container only if somebody has
\* come to it through a second lock file, made when the first delete had
\* unlinked state.lock but not yet state.json: among those who lock the same
\* file, also those who wait for it since before it was unlinked, one does.
PoststopOnce ==
  \A c, p, q \in Proc :
    <<"poststop", c, p>> \in ran /\ <<"poststop", c, q>> \in ran /\ Thorough
      => p = q \/ TwoLocks(c)

\* The hooks of a container run in the order of the phases: createRuntime in
\* the parent, then createContainer in the child, then those of start.
HookOrder ==
  \A c \in Proc :
    /\ RunsHook("createContainer", c) => RunsHook("createRuntime", c)
    /\ RunsHook("prestart", c)        => RunsHook("createContainer", c)
    /\ RunsHook("startContainer", c)  => RunsHook("prestart", c)
    /\ RunsHook("poststop", c)        => RunsHook("createContainer", c)

\* The container process goes on to its command only after a start of that
\* very container has passed its prestart hooks.
StartBeforeRun ==
  \A c \in Proc :
    child[c] \in {"startContainer", "exec", "running"}
      => RunsHook("prestart", c)

\* When create returns success, the container process is at its start FIFO,
\* which it has open, or further.
CreatedWaits ==
  \A c \in Proc :
    cmd[c] = "create" /\ Returned(c) =>
      /\ child[c] \in {"wait_start", "startContainer", "exec", "running"}
                        \cup Dead
      /\ child[c] = "wait_start" => fifoFd[c] = c

\* When start has returned success, the container process has its byte or
\* can still read it.
NoLostStart ==
  \A q \in Proc :
    cmd[q] = "start" /\ Returned(q) /\ child[mem[q].of] = "wait_start"
      => fifo[fifoFd[mem[q].of]] # {}

\* A process, be it the container's or one of exec, is in a jail only while
\* that jail exists and its volumes are mounted: neither delete nor the
\* cleanup of create takes the volumes away from under a live process.
JailedIsMounted ==
  \A c \in Proc :
    /\ child[c] \in InJail   => jail = c /\ c \in mounted
    /\ xchild[c] \in XInJail => jail = mem[c].of /\ jail \in mounted

\* A delete that returns success after loading a container leaves neither
\* its jail, nor a process of it, nor its volumes.  That a read-only root could
\* not be unmounted goes unnoticed where it happens, but not in remove_all().
DeleteComplete ==
  \A p \in Proc :
    IsDelete(p) /\ Returned(p) /\ mem[p].of # NoProc =>
      /\ jail # mem[p].of
      /\ ~Alive(mem[p].of)
      /\ \A q \in Proc : mem[q].of = mem[p].of => xchild[q] \notin XInJail
      /\ mem[p].of \notin mounted

\* A create that returns failure after it has forked leaves no jail, no
\* process in one and, if unmounting works, no volumes.
FailedCreateGone ==
  \A c \in Proc :
    cmd[c] = "create" /\ pc[c] = "done" /\ out[c] = "error"
    /\ child[c] # "none" =>
      /\ jail # c
      /\ child[c] \notin InJail
      /\ c \in mounted => Faults \cap {"unmount", "unmount_root"} # {}

\* A state.json that nobody can parse is one that somebody is writing, or
\* that somebody was writing when he was killed.
TornHasWriter ==
  json.torn =>
    \E p \in Proc :
      /\ mem[p].out = json.ino
      /\ pc[p] = "write" \/ out[p] = "crashed"

\* A command that loads the state finds the file that create made torn only
\* if its writer was killed: the lock keeps it from one that is being written.
\* (A file that a save has made anew in the wake of a delete can be met half
\* written: the delete has unlinked the lock file that would prevent it.)
NoTornLoad ==
  \A p \in Proc :
    pc[p] = "load" /\ json.torn /\ Original /\ Guarded(json.ino) =>
      \E q \in Proc : out[q] = "crashed" /\ mem[q].out = json.ino

\* Once no command is in flight, a container is either all there or has left
\* nothing on the host, whichever commands raced.
Settled ==
  (\A p \in Proc : ~InFlight(p)) =>
    IF exists /\ ~Removed(json.of)
    THEN /\ Readable /\ lockFile # NoProc /\ fifoFile = json.of
         /\ jail = json.of /\ mounted = {json.of}
    ELSE /\ jail = NoProc /\ mounted = {}
         /\ \A c \in Proc : ~Alive(c) /\ xchild[c] \in {"none", "dead"}

\* remove_all() never gets to a state directory in which a read-only root, and
\* the volumes below it, are still mounted: it would empty the volumes.
RemovesUnmounted == \A p \in Proc : pc[p] = "unlink" => ~Blocked

\* A detached exec that waits for the status, and keeps everybody else from
\* the container meanwhile, has a child that can still write it.  There are
\* three ways not to have one: it was never forked, it throws before its try
\* block, or the create of the container, which has failed, removes the jail
\* without the lock.
ExecStatusCanCome ==
  \A p \in Proc :
    pc[p] = "exec_await" =>
      \/ xchild[p] \in Preparing \/ report[p] # "none"
      \/ Faults \cap {"pre_start", "fork"} # {}
      \/ report[mem[p].of] = "failed"

-----------------------------------------------------------------------------
(* Action property.                                                        *)

\* The recorded status of a container only moves forward: created, running,
\* stopped.  In particular a check_status() never undoes a start.
StatusForward ==
  [][json'.of = json.of /\ Guarded(json.of)
       => Rank(json'.status) >= Rank(json.status)]_vars

-----------------------------------------------------------------------------
(* Liveness.                                                               *)

\* Every command comes to its end: nobody waits for ever for the lock, for a
\* byte on the socket pair or for somebody who waits in turn.
AllReturn == \A p \in Proc : InFlight(p) ~> pc[p] = "done"

\* After a start that returned success, the container process gets to its
\* command, unless it is killed.
StartDelivers ==
  \A q, c \in Proc :
    cmd[q] = "start" /\ Returned(q) /\ mem[q].of = c
      ~> child[c] \in {"running"} \cup Dead

-----------------------------------------------------------------------------
(* Refinement.                                                             *)

\* What state.json says of container c.  Once it is removed, or the cleanup
\* of a failed create has unlinked its record, it stays removed.
PhaseOf(c) ==
  CASE Removed(c)                        -> "removed"
    [] ~Removed(c) /\ json.of = c        -> json.status
    [] ~Removed(c) /\ json.of # c        ->
         IF RunsHook("createRuntime", c) THEN "removed" ELSE "none"

ProcessOf(c) ==
  CASE child[c] \in {"none", "unborn"}   -> "none"
    [] child[c] = "running"              -> "user"
    [] child[c] \in Dead                 -> "dead"
    [] Alive(c) /\ child[c] # "running"  -> "waiting"

Promise == INSTANCE Lifecycle WITH
             Container <- Proc,
             phase     <- [c \in Proc |-> PhaseOf(c)],
             process   <- [c \in Proc |-> ProcessOf(c)]

\* The commands together, whatever their interleaving, do what Lifecycle
\* says: one container holds the id at a time, its command runs only once it
\* is recorded as running, and what is recorded as stopped or removed is dead.
ImplementsLifecycle == Promise!Spec

-----------------------------------------------------------------------------
(* What comments of the code say, and what the code does not do.           *)

\* create.cpp:501: "Read back the child's status - this is our exit status."
\* A parent that waits for the status has a child that can still write it.
StatusCanCome ==
  \A c \in Proc : pc[c] = "await" => Alive(c) \/ report[c] # "none"

\* create.cpp:586: "If validate failed, don't wait for a start signal, just
\* stop here."  A container process whose failure create has been told of
\* does not get to wait for start.
FailedChildStops ==
  \A c \in Proc : report[c] = "failed" => child[c] # "wait_start"

\* delete.cpp:35: "If some other process has already deleted the state, just
\* return."  Once a delete has deleted a container and returned, no
\* other one goes on to run the container's poststop hooks again.
HooksNotRepeated ==
  \A p, q \in Proc :
    /\ IsDelete(p) /\ IsDelete(q)
    /\ Returned(q) /\ mem[q].of # NoProc /\ mem[q].of = mem[p].of
    => pc[p] # "poststop"

=============================================================================
