-------------------------------- MODULE Host --------------------------------
(***************************************************************************)
(* What a container owns outside its state directory: the FreeBSD jail     *)
(* (jail.cpp), the volumes mounted on its rootfs (mount.cpp seen as a      *)
(* whole), the pipe behind start_wait, the container process and the       *)
(* processes that exec adds.  These are kernel objects; the module says    *)
(* what the system calls of the commands do to them.                       *)
(*                                                                         *)
(* Container c is the one made by invocation c of create.  Each bundle has *)
(* its own rootfs, so mounted is a set of containers.                      *)
(***************************************************************************)
EXTENDS RuntimeState, FiniteSets

VARIABLES
  jail,      \* the container whose jail exists; jails are named by the id,
             \* so there is at most one.  NoProc: none
  mounted,   \* the containers whose volumes are mounted
  fifo,      \* fifo[f]: the start invocations whose byte is in FIFO f
  fifoFd,    \* fifoFd[q]: the FIFO that start q, or the container process
             \* of create q, has open
  child,     \* child[c]: where the container process of create c is
  xchild     \* xchild[p]: where the process that exec p runs is

hostVars == <<jail, mounted, fifo, fifoFd, child, xchild>>
pipeVars == <<fifo, fifoFd>>

\* Before jail_attach(), in the jail, and no longer running.  A process that
\* was sent SIGKILL takes no more steps of its own and counts as a zombie from
\* there.  A zombie still has its pid: kill(pid, 0) succeeds until the process
\* is reaped.
Outside  == {"pre_start", "open_fifo", "wait_parent", "createContainer",
             "attach", "refused"}
InJail   == {"validate", "valid", "invalid", "wait_start", "startContainer",
             "exec", "running"}
Dead     == {"zombie", "gone"}
\* "unborn": fork() has returned -1, and that is the pid in the state.
ChildPcs == {"none", "unborn"} \cup Outside \cup InJail \cup Dead

Alive(c) == child[c] \in Outside \cup InJail

\* The same for the process of an exec.  Up to its execve() it is Preparing.
XOutside  == {"pre_start", "wait_parent", "attach", "refused"}
XInJail   == {"validate", "valid", "invalid", "exec", "running"}
Preparing == XOutside \cup (XInJail \ {"running"})
XPcs      == XOutside \cup XInJail \cup {"none", "dead"}

HostTypeOK ==
  /\ jail \in ProcOrNone
  /\ mounted \subseteq Proc
  /\ fifo \in [Proc -> SUBSET Proc]
  /\ fifoFd \in [Proc -> ProcOrNone]
  /\ child \in [Proc -> ChildPcs]
  /\ xchild \in [Proc -> XPcs]

HostInit ==
  /\ jail = NoProc
  /\ mounted = {}
  /\ fifo = [f \in Proc |-> {}]
  /\ fifoFd = [q \in Proc |-> NoProc]
  /\ child = [c \in Proc |-> "none"]
  /\ xchild = [p \in Proc |-> "none"]

-----------------------------------------------------------------------------
(* The volumes of a container, seen as one: c is in mounted as soon as one *)
(* of them may be mounted, and until all of them have gone.                *)

mount_volumes(c) == mounted' = mounted \cup {c}

\* mount_volumes() throws with volumes mounted or not: the cleanup in its
\* handler throws at its first line, before it unmounts anything.
mount_volumes_fails(c) == mounted' \in {mounted, mounted \cup {c}}

unmount_volumes(c) == mounted' = mounted \ {c}

\* unmount_volumes() tries every volume, and to remove what it made for
\* them, before it throws what failed first.
unmount_volumes_fails(c) == mounted' \in {mounted, mounted \ {c}}

-----------------------------------------------------------------------------
\* open(start_wait, O_RDWR): never blocks, needs the directory entry.
OpenFifo(q) ==
  /\ fifoFile # NoProc
  /\ fifoFd' = [fifoFd EXCEPT ![q] = fifoFile]
  /\ UNCHANGED fifo

\* close(): when the last descriptor of a FIFO goes, so do its bytes.
CloseFifo(q) ==
  /\ fifoFd' = [fifoFd EXCEPT ![q] = NoProc]
  /\ fifo' = [f \in Proc |->
                IF \E r \in Proc \ {q} : fifoFd[r] = f THEN fifo[f] ELSE {}]

\* The container process ends, whatever the cause.
ChildExit(c) ==
  /\ child' = [child EXCEPT ![c] = "zombie"]
  /\ CloseFifo(c)

\* kill(pid): a signal to a process that has gone (ESRCH) or is a zombie does
\* nothing.  What kill(-1), for a process that was never born, does to the
\* rest of the host is left out.
KillProcess(c) ==
  /\ IF c \in Proc /\ Alive(c)
     THEN ChildExit(c)
     ELSE UNCHANGED <<child, fifo, fifoFd>>
  /\ UNCHANGED <<jail, mounted, xchild>>

\* jail_set(JAIL_CREATE) refuses a name that is in use, and every create of
\* the id asks for the same one, its parent jail being the same.
jail_create(c) == jail = NoProc /\ jail' = c

\* jail_remove() of c's jail kills the processes in it, those of exec too.
jail_remove(c) ==
  /\ jail' = NoProc
  /\ IF child[c] \in InJail
     THEN ChildExit(c)
     ELSE UNCHANGED <<child, fifo, fifoFd>>
  /\ xchild' = [p \in Proc |-> IF xchild[p] \in XInJail /\ mem[p].of = c
                                THEN "dead" ELSE xchild[p]]
  /\ UNCHANGED mounted
=============================================================================
