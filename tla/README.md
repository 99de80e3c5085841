# A verification of ocijail

ocijail is an OCI runtime for FreeBSD: a program that a container engine
(podman, containerd) runs once per operation - `create`, `start`, `kill`,
`delete`, `state`, `list`, `exec` - to manage containers built on jails. There
is no daemon. Two invocations that work on the same container are two
processes, which share nothing but a directory, a lock file and a FIFO. What
can go wrong is therefore what goes wrong between processes: a check made
before a lock, a lock on a file that has been unlinked, a byte written before
anybody reads, a failure half way.

This directory holds a TLA+ model of that, TLC runs that check it on small
instances and proofs that TLAPS checks for every instance.

## The system

| component | source | state | operations | who calls it |
|---|---|---|---|---|
| runtime_state | main.cpp, main.h | directory `<root>/<id>` with `state.json`, `state.lock`, `start_wait` and the mount point `readonly_root`; in memory `state_`, the lock's descriptor | exists, create, lock, unlock, load, save, check_status, remove_all, report | every command |
| create | create.cpp | socket pair with the child, FIFO, the forked process | validate, mount, make the jail, fork, hooks, handshake, cleanup | engine |
| container process | create.cpp (child branch), process.cpp | its descriptors, whether it is in the jail | pre_start, open FIFO, hooks, attach, validate, wait for start, exec | forked by create |
| start | start.cpp | - | status created -> running, hooks, byte into the FIFO | engine |
| kill | kill.cpp | - | signal to the recorded pid | engine |
| delete | delete.cpp | - | kill, remove jail, unmount, poststop hooks, remove directory | engine |
| state, list | state.cpp, list.cpp | - | load, check_status (which may save), print | engine |
| hook | hook.cpp | a forked process per hook | run the hooks of a phase | create, container process, start, delete |
| jail | jail.cpp | the kernel's jails | create, attach, remove (`find(int)` only makes an object) | create, delete, exec |
| mount | mount.cpp | the mount table; in state.json `remove_on_unmount`, `file_mount_supported`; originals in `.save` directories | mount_volumes (once or twice), unmount_volumes, resolve_container_path | create, delete |
| exec | exec.cpp | socket pair with a child; shares the open lock file with it | load, become or fork a process that attaches, validates and calls execve(); detached: handshake | engine |
| tty, features, main_app | tty.cpp, features.cpp, main.cpp | - | pseudo terminal, constant output, options and logging | - |

How they interact: commands of one container exclude each other by
`flock(LOCK_EX)` on `state.lock`; the saved status tells the next command what
the last one did; create and its child exchange one byte each way on a socket
pair; start passes one byte to the child through `start_wait`; delete and the
cleanup of create take away what create made. `delete` unlinks the very file
the others lock.

What is hard, and the properties it asks for (PROJECT.json lists every hazard
with its line):

- *the lock*: it is one inode's, and the name is unlinked by delete and by
  create's `remove_all()`; it belongs to the open file, which forked children
  share and may unlock when an exception unwinds their copy of the stack.
  `LockHeld`, `LoadedIsCurrent`, `StatusForward`, `StartedOnce`.
- *checks before the lock*: `exists()` in create, delete and list.
  `PoststopOnce`, `DeleteComplete`, `Settled`, `HooksNotRepeated`.
- *handshakes*: parent, child and start wait for each other's bytes.
  `AllReturn`, `StartDelivers`, `NoLostStart`, `CreatedWaits`,
  `StartBeforeRun`, `HookOrder`, `StatusCanCome`, `ExecStatusCanCome`.
- *tearing down while alive*: `JailedIsMounted`, `DeleteComplete`,
  `StoppedIsGone`.
- *failure and crash half way*: `FailedCreateGone`, `TornHasWriter`,
  `NoTornLoad`, `FailedChildStops`; and a recursive removal of a directory
  in which a root may be mounted: `RemovesUnmounted`.
- *leaving the root file system as it was*, over mount points made, files
  moved aside and failures at any volume: `MadeIsRecorded`, `OriginalKept`,
  `DeleteRestores`, `StuckForAReason`, `SecondPassCleans`; and never mounting
  outside it, whatever its links say: `InsideRoot`, `ResolveAgrees`.

## The modules

    RuntimeState        state directory, flock, load, save, remove_all
      Host              jail, volumes, FIFO, processes
        Commands        control of a command; steps several commands take
          Create Start Exec Inspect Delete
            Ocijail     the system: Init, Next, fairness, all properties
              Lifecycle       (instantiated) the abstract specification
              MC              symmetry, for TLC
              OcijailProofs   theorems: types, jails, lock, stopped
                CleanupProofs     theorems: failed create, delete, torn files,
                                    create and its child
                  ExclusionProofs   lemmas: the kinds of steps;
                                    theorems: the lock, poststop
                    ContainerProofs   theorems: start, status, save,
                                        container, exec
                      RefinementProofs  theorem: Lifecycle
                        OutcomeProofs     theorems: hooks, start's byte,
                                            what is left at rest
    Mounts              the volumes of one container, in detail
      MCMounts          roots and volumes, for TLC
      ResolutionProofs  theorems: where destinations are
        MountsProofs      theorems: what is made, recorded, moved, put back

Ocijail is of *one container id* and any number of invocations of ocijail,
the elements of `Proc`. Each runs one command once. What an invocation makes -
the lock inode, the FIFO, the container, its jail, its process, its state.json
- is named by that invocation, so that "the second container of this id" needs
no counter. All constants are sets, and nothing in it is numbered.

**RuntimeState.** `dir`, `json`, `lockFile`, `fifoFile` are the directory and
what its three names denote. `fd[p]` is the inode p opened, `holder[i]` the
invocation whose open file has the flock of inode i: opening and locking are
two steps (`OpenLock`, `TakeLock`), as in `runtime_state::lock()`, and between
them the name may be given to another inode. `create()` opens with O_EXLOCK,
which is the same two steps inside one call. `save()` is two steps, `Truncate`
and `Write`; a `load()` in between fails to parse. `remove_all()` looks at no
lock: it lists the directory, unlinks one name at a time in any order, and
removes the directory, which fails if a name has appeared since. A bundle with
a read-only root (`ReadonlyRoots`) has a fourth entry, `readonly_root`, on
which that root and the volumes are mounted; it is a condition of Commands and
not a name: while they are (`Blocked`), `remove_all()` can throw at any point
and cannot succeed. `mem[p]` is
what p's `state_` says of the container and its status, all that any decision
uses.

**Host.** What the kernel keeps. Jails are named by the id, so `jail` is the
container whose jail exists. `mounted` is the set of containers that may have
a volume mounted. `fifo` and `fifoFd` have the FreeBSD behaviour that losing
the last descriptor loses the bytes. `child[c]` is the step of c's container
process, `xchild[p]` that of the process of exec p; a `zombie` still answers
`kill(pid, 0)`, a `gone` one does not, and an `unborn` one, whose fork()
failed, is the pid -1, which always answers. A process that is killed closes
what it has open: if the command that forked it has ended, that frees the lock
(`Kill`, and `UnlockedIn` for the processes of exec that go with a jail).

**Commands, Create, Start, Exec, Inspect, Delete.** One action per step that
another process can see, named after the command; `pc[p]` is the step, and
steps that several commands take (`Open`, `Flock`, `LoadAndCheck`, `SaveBegin`,
`SaveEnd`, `Unmount`, `Remove...`) are shared. `Throw` is any exception that
leaves `run()`: it unlocks. `RunHooks` records in `ran` that the hooks of a
phase ran for a container in a process.

**Delete** goes through the same steps whether or not the container is still
there. `jail::find(int)` (jail.h:30), unlike the lookup by name, does not ask
the kernel, and `remove()` takes a jail that has gone for removed; so neither
delete nor exec has a step that fails for a missing jail before `jail_attach()`
does.

**Exec** has both forms of exec. Detached, it forks over a socket pair as
create does, but never calls unlock(): parent and child share one open lock
file, and the container stays locked until both have closed it - the parent by
exit(), where no destructor runs, the child by execve() or its death. Without
`--detach` the command itself becomes the process; then `pc` is `exec_run` and
`xchild` has the steps.

**Lifecycle** is the abstract specification: of each container only what is
recorded of it (none, created, running, stopped, removed) and its process
(none, waiting, the user's command, dead). A container gets a process only
when no other holds the id; the user's command runs only in a container that
is recorded as running; stopped and removed mean dead. `PhaseOf` and
`ProcessOf` in Ocijail are the refinement mapping: the phase is the status in
state.json until the poststop hooks have run or, for the cleanup of a failed
create, until the record is unlinked, and every step of a command between
those points is a stutter.

**Mounts** opens up what Host has as the one set `mounted`: the volumes of one
container, from create's first call of `mount_volumes()` to the end of the
unmounting. `fs` is the root as a function from paths to directories, files
and links; `mnt` the volumes on it; `recorded` and `supported` are the two
values in the state. A read-only root is mounted in two passes (`Prepare` for
all volumes, `Alias`, `MountVolume` for all through the alias). A file that
the kernel cannot mount is copied, after the original has been moved to a
`.save` directory (`Copied`); the first such file makes the rest be copied
(`tries`). `MountThrows` is the cleanup as it is: it reads
`file_mount_supported` before it does anything. Unmounting goes over the
volumes once, then over `recorded` in descending order (`NextToRemove`), and
stops at the first path it cannot remove. A later delete starts the unmounting
over (`DeleteAgain`), with what is still mounted and recorded then. In between
the container may make files and the mounted file may go away. No lock matters
here: all of it is done by one command at a time, create before its child
exists, or a delete or failed create after the jail is gone.

The constant `Faults` says which failures may happen, `Cmds` which commands
are invoked, and `Overlap` which commands may be in flight while a create is
(two creates overlap if "create" is in it). The code enforces none of it; an
engine that has a lock of its own per container keeps `Overlap = {}`. It is an
assumption about the caller, and the runs say what depends on it. The theorems
of OcijailProofs and CleanupProofs do not assume it. The others do, because of
two things in create.cpp and main.cpp: create unlocks before it has signalled
its child, and `remove_all()`, which a failing create calls as well as delete,
unlinks `state.lock` whoever holds it. So the lock alone does not keep a
create apart from the other commands of its id, and what needs that is false
without the engine's lock (TLC refutes it, as in `lost_start`).

## The runs

The runs of Ocijail use the module MC, the three of Mounts MCMounts.
`CHECK_DEADLOCK FALSE` in all: every command ends, and a state in which all
have is a normal end.

| run | instance | checks | distinct states |
|---|---|---|---|
| alone | 4 invocations, all commands, no fault, read-only roots, no overlap with create | TypeOK, LoadedIsCurrent, StartedOnce, HookOrder, NoLostStart, Settled, DeleteComplete, PoststopOnce, RemovesUnmounted, ExecStatusCanCome, StatusForward | 347,831 |
| overlap | 3 invocations, all commands, read-only roots, every overlap; unmounting may fail | LockHeld, StoppedIsGone, CreatedWaits, JailedIsMounted | 754,963 |
| faults | 3 invocations, all commands, read-only roots; every step of create and exec may fail, fork() too, hooks may not execute; an exec may overlap a create | JailedIsMounted, DeleteComplete, CreatedWaits, FailedCreateGone, StartedOnce | 399,674 |
| liveness | 3 invocations of create start exec (detached) kill state delete, no overlap, fair | AllReturn, StartDelivers | 23,718 |
| promise | 3 invocations of all but state and list, no overlap; all faults of create and exec but hooks and fork(), and commands may be killed | ImplementsLifecycle, JailedIsMounted, StartedOnce, TornHasWriter, NoTornLoad, StartBeforeRun, LoadedIsCurrent | 755,669 |
| mounts | 1 or 2 volumes of 30, 3 roots, read-only or not, file mounts or not, all faults | TypeOK, ResolveAgrees, InsideRoot, MadeIsRecorded, OriginalKept, DeleteRestores, StuckForAReason, SecondPassCleans | 2,072,932 |
| hook_exec | 1 create | FailedChildStops, violated | |
| no_status | 1 create | StatusCanCome, violated | |
| lost_start | 1 create, 1 start, overlapping | NoLostStart, violated | |
| poststop_twice | 1 create, 3 deletes | HooksNotRepeated, violated | |
| failed_mount | as mounts, only mounting may fail | FailedMountCleans, violated | |
| bind_restore | as mounts, no fault | SavedIsRestored, violated | |

Why the bounds are enough. A hazard between commands needs a container (one
create) and the commands that race. Four invocations give one container and
three racers - two deletes and a start, two starts and an exec - or one that
is deleted, another create and one racer. With three, `overlap` has two
creates and a delete, or a create, a start and a delete at once. Invocations
are interchangeable, so the safety runs use symmetry; `liveness` does not.

In Mounts every interaction the code knows is between two volumes: a failure
at the second after the first has been mounted, a directory made for one and
used by the other, two on one destination, the first copy that turns the rest
into copies. The ten destinations have one and two levels to make, an existing
file and its directory, a path through a file, `..` at the root, a link in the
middle and at the end, a link out of the root, one to nothing and two to each
other. `MaxSymlinks` is the kernel's own 32, so that the loop is cut where the
code cuts it. Volumes that are mounted inside other volumes are left out
(`Init`).

What they show:

- With create alone, and no fault, the lock does its job although delete
  unlinks it. The state a command has loaded stays what state.json says
  (`LoadedIsCurrent`), until a delete of that container has got to its
  `remove_all()`. From there a newcomer can create a new `state.lock`, enter,
  and even write `state.json` again, in which case delete fails at rmdir and
  leaves the directory; but jail, process and volumes are gone by then
  (`Settled`). If the newcomer is a delete, nothing stops it: it runs the
  poststop hooks once more (`poststop_twice`). What is left of "once" is
  `PoststopOnce`: it takes two lock files. Of deletes that lock the same file,
  also of those that have waited on it since before it was unlinked, one gets
  to the hooks. With a shared lock in place of the exclusive one two do.
- `remove_all()` is called on a directory in which a read-only root, and the
  volumes below it, may be mounted; then it would empty the volumes. With no
  fault every way to it has unmounted first (`RemovesUnmounted`), and a delete
  that succeeds has (`DeleteComplete`, with faults too, as a mount left there
  makes `remove_all()` throw). A create that fails before its fork leaves the
  root mounted and no state.json, and a delete of that calls `remove_all()` at
  once, in spite of the comment at delete.cpp:37. The runs with a failing mount
  have that, so RemovesUnmounted is not claimed there.
- exec takes part in all of this. Its lock outlives the command that took it,
  as long as its child has not called execve(): a delete that comes in between
  waits, so no process of an exec slips into a jail that delete has already
  looked at (`DeleteComplete`). A parent that would unlock before it exits,
  mutant `ExecAwaitUnlock`, breaks `LockHeld`.
- With every overlap `StoppedIsGone`, `LockHeld`, `CreatedWaits` and
  `JailedIsMounted` still hold, and the theorems say so for any number of
  invocations. `NoLostStart`, `HookOrder` and `LoadedIsCurrent` do not (3
  invocations), nor do `StartedOnce` and `PoststopOnce` with 4: a create that
  has passed `exists()` removes the live state, and with it the lock, of
  another. `StartBeforeRun` and `ExecStatusCanCome` happen to hold with 3,
  but no argument supports them there, so they are checked without overlap.
- A detached exec waits, with the container locked, for a status that its
  child can always still write (`ExecStatusCanCome`), but for a child that
  was never forked or throws before its try block, which the property names.
- One start of a container is enough for every other to be refused
  (`StartedOnce`), and its status only moves forward (`StatusForward`), as
  long as no delete of it was killed inside `remove_all()`, or threw there,
  with `state.lock` unlinked and `state.json` still there: then the next two
  commands lock different files. The properties say so (`Guarded`); without
  that clause TLC finds two starts past the check with 4 invocations and
  crashes.
- A command that saves in the wake of a delete, when the lock it waits for has
  been unlinked under it, makes a new `state.json`, and that one can be read
  while it is half written, with no fault at all (5 invocations). `NoTornLoad`
  is therefore about the file that create made (`Original`), and that one
  only while the lock is in place (`Guarded`).
- Under faults the property list is shorter for reasons in the code. If a
  hook's execve() fails, the forked process unwinds the caller's stack and
  unlocks the lock that it shares: `LockHeld` is lost, and `LoadedIsCurrent`
  exempts what a command does after its hooks (`HadHooks`). What a container
  owes its caller - one start, a child that waits, nothing left after a
  failure or a delete - survives it.
- If a command is killed, state.json may be torn and a child may be left
  waiting, with the lock. A torn file always has a writer, who is at it or was
  killed (`TornHasWriter`), and a command that loads one can only have met the
  second kind (`NoTornLoad`). A process in a jail has its volumes and a
  container is started once, through all of it.
- With every fault but hooks and fork(), crashes included, the commands
  implement Lifecycle (`promise`). With hook faults they do not: a
  createContainer hook that cannot be executed reports the failure in the
  child's place, and create removes the record of a live process
  (`hook_exec`). With overlapping creates they do not either, as above.
- A create that fails before its fork leaves its volumes mounted, and without
  a state.json that would name them. No comment promises otherwise, so no run
  speaks of that, only of the directory that cannot be deleted then;
  `FailedCreateGone` is about failures after the fork.
- The unmounting is exact where it succeeds: the root is what it was, plus
  what the container made (`DeleteRestores`), in spite of made directories
  that two volumes share and of originals moved aside. It is not where two
  volumes have one destination (the second rename overwrites the first
  original), where the mounted file has gone, or for a copied file of type
  bind; the properties name the three. Where it fails, `StuckForAReason` says
  why. A later delete tries again, and succeeds once the reason is gone; both
  properties are about every such attempt.
- `StartedOnce`, `HookOrder` and `PoststopOnce` speak of `ran`, a history
  variable: nothing but them, and PhaseOf, reads it.

Six runs record disagreements between the code and its own comments; their
text is in PROJECT.json under findings. In short: a hook that cannot be
executed speaks for the container process (hook.cpp:167); the parent of a
child that throws early waits for ever (create.cpp:504); a start that comes
between create's unlock and the child's open of the FIFO is lost
(start.cpp:58); the cleanup of a failed first pass over the volumes throws
before it has unmounted any (mount.cpp:514); a file of type bind that was
copied is not restored (mount.cpp:459); and a delete runs the poststop hooks
of a container that another has deleted (delete.cpp:72), against the comment
at delete.cpp:35. The same comment fails in a smaller way: a delete that has
passed `exists()` and then finds the directory gone in `lock()` or `load()`
fails, and does not just return.

Every property of a passing run has a mutant: a definition next to the one it
replaces, named for the mistake, under which TLC finds the property violated.

### Fairness

`liveness` assumes weak fairness of each invocation's own next step, of each
container process's next step, of the next step of each process of an exec,
and of the reaping of zombies by init. That is the kernel's scheduler, which
runs what can run, and nothing more: nobody has to invoke a command, a user's
process need not end, and a `flock()` that waits is only owed progress while
the lock stays free (weak fairness). AllReturn does not starve on it because
invocations are finitely many. The run has no faults: with a crash or a child
that throws AllReturn is false, see no_status; and with overlapping creates it
is false as well, because a kill between create's unlock and the child's
report has the effect of a crash of the child. Exec takes part detached, the
form that waits.

## The proofs

Six modules, each extending the one before, from OcijailProofs to
OutcomeProofs, prove twenty theorems for every set of invocations and
commands: every safety property of Ocijail that a passing run checks, and the
refinement of Lifecycle. ResolutionProofs and MountsProofs prove ten of Mounts,
for every root and every list of volumes: all that its run checks, and what
the resolution of a destination computes. So every invariant and every action
property of a passing run is a theorem.

All have the same shape: an inductive invariant, which TLC has checked on the
small instances before it was proved; a lemma that every step preserves it,
with one step per action or per kind of step; and the theorem, which combines
them. Many actions cannot hurt: a formula such as `Calm` says what a harmless
step does not do, one lemma shows that it preserves the invariant, and most
actions are shown to be calm.

What each theorem of Ocijail assumes of the constants:

| theorem | Overlap | Faults | why |
|---|---|---|---|
| TypeCorrect, JailedIsMountedAlways, StoppedIsGoneAlways, FailedCreateGoneAlways, DeleteCompleteAlways, TornHasWriterAlways, CreatedWaitsAlways | any | any | |
| LockHeldAlways | any | no "hook" | a hook that fails to execute unlocks its parent's lock |
| LoadedIsCurrentAlways, PoststopOnceAlways (whose statement excludes hook, crash and unmount_root), StartedOnceAlways, StatusForwardAlways, NoTornLoadAlways, StartBeforeRunAlways, ExecStatusCanComeAlways | {} | any | a create removes the state, the lock and the jail of others |
| ImplementsLifecycleAlways | {} | no "hook", no "fork" | finding hook_exec: a create can remove the record of a live process; a create whose fork() failed records a container without one |
| HookOrderAlways | {} | no "crash", no "unmount", no "unmount_root" | a create that is killed, or whose unmounting or removal fails, leaves the record of a container that it has given up, and a start runs its hooks |
| NoLostStartAlways | {} | no "crash" | a create that is killed before its child has reported leaves a container that can be started and a child that has yet to open the FIFO |
| SettledAlways, RemovesUnmountedAlways | {} | "config", "validate", "pre_start" only | a mount, jail or unmount that fails, a hook that speaks for the child, or a kill leaves parts of a container behind |

OcijailProofs:

- `TypeCorrect`: Spec => []TypeOK. TypeOK is inductive by itself. The lemmas
  before it say what each operator that several actions use keeps
  (`SetStatusType`, `ReleaseLockType`, `TruncateType`, `LoadType`,
  `ChildExitType`, ...).
- `ControlInvariant`, a lemma the rest stands on: what a `pc` value says of
  the command, its descriptor, its child and its exec process. `CreatePcs` are
  the steps that only create takes, `OtherPcs` those it never takes.
- `JailedIsMountedAlways`: Spec => []JailedIsMounted. JailedIsMounted is not
  inductive. A delete could unmount a container whose jail is just about to be
  made, if it knew of it. The strengthening has three parts. `JailInv`: the
  volumes are there from before the jail is made, and whoever is about to
  unmount has seen the jail go; the process of an exec is in a jail only while
  the container it has loaded has it. `KnownForked`: a container that
  state.json or any command's state describes has forked, unless the command
  is its own create. `Recorded`: which commands have a container in their
  state at all, and create's is its own. Each is preserved by every step,
  proved in this order, each using the ones before.
- `LockHeldAlways`: if "hook" is not in Faults, Spec => []LockHeld. Under
  Control it is inductive: only the holder, its child or exec process that
  dies, and a hook of its own that fails to execute can unlock its open file.
  The assumption is needed: with hook faults TLC finds it violated.
- `StoppedIsGoneAlways`: Spec => []StoppedIsGone. StoppedIsGone speaks of
  state.json; what a command may still save is in its `mem`, so `StoppedInv`
  says the same of every `mem`, and that a status always has its container. A
  process that is gone stays so because, by Control, Fork is the first step
  that its create takes with it.

CleanupProofs:

- `FailedCreateGoneAlways`: Spec => []FailedCreateGone. `CleanedInv`: from
  `RemoveJail` on the jail of a create that has forked does not come back, and
  after `Unmount` only volumes that could not be unmounted are left. No
  process in the jail then follows from JailInv. It needs neither the lock,
  which create no longer has, nor that creates do not overlap.
- `DeleteCompleteAlways`: Spec => []DeleteComplete. `DeletedInv`: from
  `RemoveJail` on the container that a delete has loaded has no jail and no
  live process, and from `Unmount` on no volume, unless that is one that did
  not let go of a read-only root: with it mounted `remove_all()` never gets to
  its end (`Blocked`), so no success is returned. The create of
  that container cannot undo this, as by KnownForked it has forked; an exec
  cannot, as its process is in a jail only while that jail is there.
- `TornHasWriterAlways`: Spec => []TornHasWriter. `TornInv` adds that who is at
  `write` has the inode it has truncated in `mem`, and that an invocation that
  has left `write` without being killed has written; it rests on the lock in
  no way.
- `CreatedWaitsAlways`: Spec => []CreatedWaits. `WaitInv`: while a create has
  made its jail and its child has not opened the FIFO, nobody else can make
  that jail, since they are named by the id; so the name start_wait is the
  child's own FIFO or nothing, and the child opens that or throws. Success is
  only reported by a child that has it open, and create returns success only
  on that report.

ExclusionProofs begins with lemmas about steps, for any Overlap. A step of Next
is one of fourteen kinds (`Kinds`): a `Kind` says what it does to the record,
the locks, the hooks and the flight of the commands, whatever action it is, so
that the invariants below need one case per kind and not one per action.
`Roles` says which commands can be at which step; `KindFlight` who gets in
flight and out of it; `KindHooks` which hooks a step can run.

For its theorems Overlap = {}. The invariant is `LockingInv`:

- `Serial`: a create in flight is in flight alone. That is all that the
  assumption on Overlap is for.
- `FileInv`: the file that create made describes its own container; any
  other file describes one that has been removed. `HookedInv`, `MakingInv`:
  what a create in flight may find and what it has made so far.
- `UsingInv`, the heart of it: of any other command in flight, that what it
  has loaded is what create wrote until the container is removed; that until
  then it has open the very file that is named `state.lock`; and that it
  holds the lock from `flock()` on. It is an invariant of all three at once:
  the lock keeps the file, and the file, being there, keeps its lock's name.
- `CurrentInv` is `LoadedIsCurrent` without its excuses.
- `MountedInv`: a read-only root that is mounted belongs to the container that
  the id has, so that what blocks one delete is not another container's.
- `EndedInv` and `FinishInv`, for PoststopOnce: when the poststop hooks of a
  container run its jail has gone, and the delete that ran them has open the
  lock file through which it came; while no other lock file is in use for the
  container, that delete keeps the lock until it has unlinked state.json, and
  from then on nobody can load the container. Only the lock separates two
  deletes; the jail, which has gone by then, stops neither.

`LoadedIsCurrentAlways` and `PoststopOnceAlways` follow.

ContainerProofs: `OnlyOnceInv` adds `GuardInv`, what becomes of the lock when a
delete has unlinked its name and not yet state.json, if no fault can make it
lose that lock (`Thorough`). There may be a chain of such deletes, each come
through a lock file that the one before has unlinked. Whoever has a lock file
open has either the one that has the name, or that of a delete which is still
there (`Queues`); and each such delete has state.json ahead of it
(`RemovesNext`). So nobody who waits gets to a state that he could load behind
the back of another. `StartInv` adds that a prestart hook that has run has left
a status past "created". From the two `StartedOnceAlways`,
`StatusForwardAlways` (an action property: the proof is about the step of
`Write`) and `NoTornLoadAlways`.

The same module: `HostMoves` says how a step may move the container process,
the FIFO and the exec processes, and one lemma shows every action to be such a
move. `FifoInv`: while the state.json of a container is there, the name
start_wait denotes no FIFO but that container's own. `ByteInv`: a byte in a
FIFO comes from a start that has run its prestart hooks for that very
container. `ExecInv`: a detached exec that waits has a child that prepares, or
a report, or one of the reasons that the property names. From these
`StartBeforeRunAlways` and `ExecStatusCanComeAlways`.

RefinementProofs: `ImplementsLifecycleAlways`, that every step of every command
is a step of Lifecycle or a stutter under the mapping. `AliveInv`: a live
process belongs to the container that state.json describes or to a create in
flight; `RemovedDead`, `RunningInv` and `MarkInv`: a removed container is
dead, one that runs is recorded as running, and the createRuntime hooks mark
the point from which a create has written its record. One lemma per kind of
change maps it to an abstract action; a second removal of a container maps to
a stutter. `Born` is what the assumption on fork() is for: nothing is recorded
without a process. Without the assumption on hooks it is
false: run `hook_exec` shows a create that removes the record of a live
process.

OutcomeProofs, what the commands come to:

- `HandMoves` says what a step may do to the handshake of create and its child,
  to the end of a create and a start, and to the byte in the FIFO; one lemma,
  with a case per action, shows that every step is such a move.
- `HookOrderAlways`: Spec => []HookOrder. `HandInv`: a child goes on only after
  the createRuntime hooks, reports success only past its createContainer
  hooks, and a create has ended well only with that report. `RemovingInv` and
  `OrphanInv`: a start meets only containers whose create has ended, and a
  create that has failed has left no record. The second is where the
  assumption on Faults comes in: a cleanup that has unmounted is not kept from
  unlinking the record by a mounted root (`CleanupGoes`).
- `NoLostStartAlways`: Spec => []NoLostStart. `ToldInv`: a create has ended
  with the success of its child, or has no child, or has removed the jail; so
  a container that a command can load has a child that had the FIFO open when
  its create returned. `DeliveredInv`: from a start's write on the byte stays
  until that child reads it, since a FIFO loses its bytes only with its last
  descriptor (`ByteStays`).
- `SettledAlways`: Spec => []Settled. `PlaceInv` says where every part of a
  container is and who still owes a step on it: the directory and what is in
  it (`DirInv`, `StreamInv`), the parts a create has made so far or a delete
  has yet to remove (`PartsInv`, `OwnedInv`), what stands when neither is at
  work (`StandInv`), and the processes of execs that are not in the jail yet
  (`OutsideInv`). When nobody is in flight, nobody owes anything (`AtRest`).
  The run `alone` checks Settled with no fault; the theorem also has the three
  that end a create or an exec before it makes a part or by an orderly
  cleanup.
- `RemovesUnmountedAlways`: Spec => []RemovesUnmounted, from the same PlaceInv:
  whoever unlinks owes no unmounting any more, and no container stands whose
  root could be mounted (`StandsUnlinked`).

ResolutionProofs, about `resolve_container_path()` in any tree:

- The function calls itself from two places, with a link more or an element
  less, and the prover knows nothing of a function defined by itself until it
  has been shown that there is one. `Recursion` shows that: if what a
  definition says of a call depends on smaller calls only (`WellFounded`; the
  measure is the links that may follow, then the elements that are left), it
  has a solution. It is proved by taking a smallest call for which there is
  none (`Smallest`), which needs no more than that a set of numbers has a
  least element. `Resolution` and `Lookup` apply it to the recursion of the
  code and to `Walk`, the lookup of a kernel: both are functions, they return
  paths, and they return what their bodies say.
- `StaysIn`: whatever set of paths is closed under what `Into` does
  (`Closed`), a resolution that starts in it ends in it. All three uses of it
  are one more such set.
- `ResolvesInRoot`: the paths of the root are closed, so a destination that
  can be resolved is in the root, whatever the tree. That is the comment at
  mount.cpp:194 and the assertion at line 231.
- `ResolvesAsKernel`: the paths with no link on them are closed too
  (`StaysUnlinked`), and from one of these the recursion and the lookup can be
  compared (`Agreement`). `Leads` says that a lookup leads to another over a
  number of links, whatever follows on the path: the recursion works through
  the target of a link before it goes on, the kernel puts the target in front
  of what is left. If the recursion returns a path, the kernel finds the same
  if it may follow enough links; if it returns ELOOP, the kernel gives up as
  well if it may follow fewer than MaxSymlinks.

  There are two cases in between, and `ResolveAgrees` names them. Where a
  destination leads through exactly MAXSYMLINKS links, each in the target of
  the one before, a kernel still follows them and the recursion, which tests
  `depth >= MAXSYMLINKS` (mount.cpp:190), does not. Where it leads through
  more, but not in one another, the recursion follows them, as it counts the
  depth only, and a kernel does not. The runs have the kernel's 32 and meet
  neither.

MountsProofs, whose invariant is `WholeInv`:

- `MountsTypeCorrect`, `MadeIsRecordedAlways`. `RootInv`: everything in the
  root is there for a reason (`Placed`) - it was, or it is recorded, or it is
  an original moved aside, or the container's own; only files of the root as
  it was can be missing; nothing recorded was there before. Every step changes
  the root in one of seven ways (`TreeMoves`: paths are recorded, made, copied
  to, put back, removed, written by the container, or nothing), and one lemma
  per way shows that it keeps RootInv. A later delete (`DeleteAgain`) changes
  nothing in the root and so is the seventh way. None of them makes or removes
  a link, so a destination resolves to the same place throughout (`SameLinks`,
  `Destinations`): this is what the code relies on when it resolves each
  destination again for the second pass and for the unmounting.
- `OriginalKeptAlways`. `OriginalInv`: the original of a file is at its place
  or in its save directory, where no other volume's original can be, as the
  places differ (`SavePathsDiffer`).
- `SecondPassCleansAlways`. `ReadonlyInv`: nothing is copied to a read-only
  root, as the alias cannot be written, so all that the first pass made is
  mount points. `MountedInv` counts: while volumes are unmounted and none has
  failed to be, a place has at most as many volumes on it as volumes with that
  destination are still to come (`CountingKeeps`), whichever of them is on
  top; so none is left at the end.
- `DeleteRestoresAlways`, `StuckForAReasonAlways`. `AsideInv`: a file that was
  moved aside has a volume, still to be unmounted, that puts it back, but for
  the exceptions that the properties name. `RemovedInv`: what is recorded and
  no longer to be removed is gone from the root, and a removal that got stuck
  has its `Reason`. A directory that cannot be removed has a volume on it or
  something directly in it (`ChildBelow`). That is not of the root as it was,
  so it is recorded, a file of the container's or an original; a recorded one
  comes first in the order of removal and is gone (`Blocked`).
- `InsideRootAlways`, `ResolveAgreesAlways`: the theorems on the resolution,
  carried over to every state. That a tree is all in the root is the same
  argument again: a shortest path that is not would be in a directory that is
  (`TreeInRoot`).

Assumptions on the constants, besides those of the table:
`RuntimeStateAssumption` (NoProc is not an invocation) and
`CommandsAssumption` (the sets hold known commands and faults), which TLC
evaluates in every run of MC; and in those of MCMounts:

- `MountsAssumption`: Faults holds known faults, any of them.
- `TreesAssumption`: a root is at first a tree. Neither in it nor in its links
  are the names ".save" and "new", which stand for names that only ocijail and
  the container make (`.save-<id>`, mount.cpp:176).
- `ListsAssumption`: nor are they in the destination of a volume. That a
  destination that can be resolved is then at a place where neither is
  (`ResolvesToPlace`) is the third use of `StaysIn`.

`MaxSymlinks` is any number from 1 on. Only model-checked: AllReturn and
StartDelivers, which are liveness under fairness and out of the prover's reach,
as is ENABLED.

## What is not modelled, and what the model takes as given

- Contents: the configuration, annotations, environment, messages. Rejection
  of a configuration is one fault, before anything is touched.
- A process that has been sent SIGKILL takes no further step of its own, so it
  counts as dead at once; that the kernel needs time to take it down shows only
  in the zombie, which still answers `kill(pid, 0)`. So no property here would
  notice what such a process does while delete, which does not wait for it,
  goes on to take its volumes away.
- The pid -1 of a fork() that failed (create.cpp:478, exec.cpp:81) is saved
  and taken for the container's process, and the parent waits for a status
  that nobody writes; that is modelled. That `kill(-1, SIGKILL)` of a later
  delete or kill signals every process that the caller may signal is not: it
  is outside of what the model has a state for.
- Errors of write(2) in `save()`, on a full disk for instance. The code does
  not look at the stream, and a torn file is left, as by a writer that was
  killed.
- What is below a read-only root that `remove_all()` meets mounted. The model
  has that it throws; that it has then emptied the writable volumes shows only
  in `RemovesUnmounted`, which says that it does not come to it.
- In Mounts the save directory of an original and its record are one step,
  where the code makes the one and then records the other (mount.cpp:424): an
  allocation in between that failed would leave the directory unrecorded.
- Pids and jids are not reused. A later delete of a state whose jail has gone
  calls `jail_remove()` on the recorded number, which by then could be another
  jail's. `check_status()` and kill trust the recorded pid; with
  reuse StoppedIsGone would still hold, but a signal could go astray.
- Mounts leaves out the options of a mount, devfs rules and tmpcopyup,
  volumes inside volumes (the model would need what a volume contains), and
  paths with `.` or a trailing slash. That Ocijail needs no more than
  "something may be mounted" is by the two models' own construction: the
  commands decide nothing on the volumes.
- The container makes files in its root, but no links, so that destinations
  resolve to the same place throughout. If it replaced a directory by a link,
  the unmounting would look for the volume elsewhere; still in the root, as
  `ResolvesInRoot` is about any tree.
- Hooks end, and do not call ocijail; the pipe that carries the state to a
  hook is not modelled. The configuration's time limit is parsed and not used.
- children.max of the parent jail, the only thing that creates of different
  ids share. The read, the comparison and the update (create.cpp:449) are in
  no common critical section, so of two creates that read the same numbers one
  raises the limit by one where two are needed, and the other's
  `jail::create` may fail: that is the fault "jail". Other container ids share
  nothing else.
- Which signal a string names (kill.cpp:32): a pure function of strings; the
  model only asks whether the signal is deadly.
- tty (system calls in a row; its failure is the fault "pre_start"), features
  (a constant document), options and logging.
- A power failure: what a crash of the machine leaves on disk.

## Plan

Done: the composed system with all commands that change a container, the
refinement of its life as a run and as a theorem, the volumes in detail, and
thirty theorems: of the properties of the passing runs only the two
liveness properties have no proof.

What is left:

1. A weaker hypothesis on Overlap: state and list cannot hurt a create.
2. A process that outlives its SIGKILL for a while, so that delete's not
   waiting for it can be checked against the unmounting of its volumes.
3. Volumes inside volumes in Mounts, where the order of the unmounts matters.
4. *ParentJail*: children.max with creates of different ids; it would restate
   the sentence above.
