-------------------------- MODULE ContainerProofs --------------------------
(***************************************************************************)
(* Theorems about who gets to start a container, and about the processes   *)
(* that there are in it, for every set of invocations, commands and        *)
(* faults, if nothing overlaps with a create (Overlap = {}):               *)
(*   - one start only gets to its prestart hooks (StartedOnce);            *)
(*   - the recorded status only moves forward (StatusForward);             *)
(*   - nobody loads a state.json that is being written (NoTornLoad);       *)
(*   - the container process goes on to its command only after a start of  *)
(*     that container has passed its prestart hooks (StartBeforeRun);      *)
(*   - a detached exec that waits for the status of its child, with the    *)
(*     lock held, has one that can still report (ExecStatusCanCome).       *)
(* The first three say more than ExclusionProofs of a container that a     *)
(* delete is removing, if no delete can lose its lock meanwhile (Guarded). *)
(* Of those who then have a lock file open, some wait for a delete that    *)
(* has unlinked its name and is still at work, and the others, who came    *)
(* later, exclude each other; one of these may be the next delete.  For    *)
(* the other two a second summary of what a step does, HostMoves,          *)
(* complements the kinds of ExclusionProofs: it is about the container     *)
(* process, its FIFO and its jail.                                         *)
(***************************************************************************)
EXTENDS ExclusionProofs

-----------------------------------------------------------------------------
(* Who starts a container.                                                 *)

\* Delete a has run the poststop hooks and is in remove_all().
Removing(a) == IsDelete(a) /\ pc[a] \in {"rm", "unlink"} /\ fd[a] # NoProc

\* Such a delete has yet to unlink state.json; until it has unlinked
\* state.lock, its lock file is the one that has the name.
RemovesNext(a) ==
  /\ pc[a] = "unlink" => "state.json" \in listing[a]
  /\ pc[a] = "rm" \/ "state.lock" \in listing[a] => lockFile = fd[a]

\* Whoever has a lock file open has the one that has the name, or that of a
\* delete which is there.
Queues(q) ==
  fd[q] # NoProc =>
    fd[q] = lockFile \/ \E a \in Proc : Removing(a) /\ fd[a] = fd[q]

GuardInv ==
  Thorough /\ Original /\ Removed(json.ino) =>
    /\ \A q \in Proc : Using(q) => Queues(q)
    /\ \A a \in Proc : Removing(a) => RemovesNext(a)

\* q is a command, or a start, that is about to save a state of c, and the
\* latter also until its prestart hooks.
Saving(q, c) ==
  cmd[q] # "create" /\ pc[q] \in {"save", "write"} /\ mem[q].of = c
Starting(q, c) ==
  cmd[q] = "start" /\ pc[q] \in {"save", "write", "prestart"} /\ mem[q].of = c

\* A start that is about to save "running" is the only one to save anything,
\* and nothing has been saved before; no other start gets as far.
StartInv ==
  \A c \in Proc : Guarded(c) =>
    /\ RunsHook("prestart", c) => ~(json.of = c /\ json.status = "created")
    /\ \A q \in Proc : cmd[q] = "start" /\ Saving(q, c) =>
         /\ json.of = c => json.status = "created"
         /\ \A r \in Proc \ {q} : ~Saving(r, c)
    /\ \A q \in Proc : Starting(q, c) =>
         /\ ~RunsHook("prestart", c)
         /\ \A r \in Proc \ {q} : ~Starting(r, c)
         /\ pc[q] = "prestart" => ~(json.of = c /\ json.status = "created")

-----------------------------------------------------------------------------
(* A delete that is under way.                                             *)

\* It keeps its lock, and has what it needs to get to its end.
LEMMA RemovingKeeps ==
  ASSUME ControlTypes, Control, DeletedInv, MountedInv, UsingInv, Thorough,
         Original, NEW a \in Proc, Removing(a)
  PROVE  Using(a) /\ Keeps(a) /\ holder[fd[a]] = a /\ ~Blocked
<1>1. Using(a) /\ Keeps(a)
  BY DEF Removing, Using, InFlight, IsDelete, Keeps, Critical, CleanupPcs,
     HadHooks, Thorough, Control, ExecPcs, IsExec
<1>2. holder[fd[a]] = a /\ mem[a].of # NoProc
  BY <1>1, RuntimeStateAssumption DEF UsingInv, Uses, HasLoaded, Removing
<1>3. ~Blocked
  BY <1>2, Unblocked DEF Removing
<1> QED  BY <1>1, <1>2, <1>3

\* As long as state.json is there, it stays in remove_all().
LEMMA RemovingStays ==
  ASSUME ControlTypes, Control, DeletedInv, FileInv, MountedInv, UsingInv,
         Thorough, Original, NEW a \in Proc, Removing(a), RemovesNext(a),
         NEW p \in Proc, Kind(p)
  PROVE  Removing(a)' /\ fd'[a] = fd[a] /\ (pc'[a] = "rm" => pc[a] = "rm")
<1>1. exists /\ dir /\ ~Blocked
  BY RemovingKeeps DEF Original, FileInv
<1>2. cmd' = cmd
  BY KindFlight
<1>3. CASE p # a
  BY <1>2, <1>3, KindFlight DEF Removing, IsDelete, OnlyMoves
<1>4. CASE p = a /\ Passes(p)
  BY <1>1, <1>4 DEF Removing, RemovesNext, Passes, record, Moves, CreateMoves,
     StartMoves, DeleteMoves, ExecMoves, IsDelete, IsExec, Thorough
<1>5. CASE p = a /\ ~Passes(p)
  <2>1. ~Empties(p)
    BY <1>1 DEF Empties, RemoveDir, Entries, Name
  <2> QED  BY <1>2, <1>5, <2>1 DEF Removing, IsDelete, Kind, Hooks, Opens,
         Locks, Loads, Truncates, Writes, Lists, Unlinks, Checks, MakesDir,
         ListDir, Unlink, ControlTypes
<1> QED  BY <1>3, <1>4, <1>5

\* What a step does to the lock files that have the name.
LEMMA LockNames ==
  ASSUME ControlTypes, NEW p \in Proc, Kind(p), exists
  PROVE  \/ lockFile' = lockFile /\ listing' = listing
         \/ Opens(p) /\ listing' = listing
         \/ Lists(p)
         \/ Unlinks(p)
<1>1. ~Empties(p)
  BY DEF Empties, RemoveDir, Entries, Name
<1> QED  BY <1>1 DEF Kind, Passes, Hooks, Opens, Locks, Loads, Truncates,
       Writes, Checks, MakesDir, OpenLock, Truncate, Write,
       create_directories, record, dirVars

\* Whoever unlinks something while another command is there is such a delete.
LEMMA RemovingUnlinks ==
  ASSUME ControlTypes, Roles, Serial, UsingInv, Original,
         NEW q \in Proc, Using(q), NEW p \in Proc, Unlinks(p)
  PROVE  Removing(p)
<1>1. pc[p] = "unlink" /\ InFlight(p) /\ InFlight(q) /\ cmd[q] # "create"
  BY DEF Unlinks, InFlight, Using
<1>2. IsDelete(p) /\ Using(p)
  BY <1>1 DEF Serial, Roles, CleanupPcs, Using, IsDelete
<1> QED  BY <1>1, <1>2 DEF UsingInv, Uses, Removing

\* A command that is there keeps to its queue.
LEMMA QueuesStep ==
  ASSUME ControlTypes, Control, Roles, Serial, DeletedInv, FileInv, MountedInv,
         UsingInv, Thorough, Original, NEW p \in Proc, Kind(p),
         \A a \in Proc : Removing(a) => RemovesNext(a),
         NEW q \in Proc, Using(q), Queues(q)
  PROVE  Queues(q)'
<1> USE RuntimeStateAssumption DEF ControlTypes
<1>1. ASSUME NEW a \in Proc, Removing(a)  PROVE Removing(a)' /\ fd'[a] = fd[a]
  BY <1>1, RemovingStays
<1>2. CASE Opens(p)
  <2>1. /\ fd'[p] = lockFile' /\ (q # p => fd'[q] = fd[q])
        /\ lockFile # NoProc => lockFile' = lockFile
    BY <1>2 DEF Opens, OpenLock
  <2> QED  BY <1>1, <2>1 DEF Queues
<1>3. CASE ~Opens(p)
  <2>1. fd'[q] = fd[q]
    BY <1>3 DEF Kind, Passes, Hooks, Locks, Loads, Truncates, Writes, Lists,
       Unlinks, Empties, Checks, MakesDir, Truncate, Write, ListDir, Unlink,
       RemoveDir, create_directories, record
  <2>2. CASE lockFile' = lockFile
    BY <1>1, <2>1, <2>2 DEF Queues
  <2>3. CASE lockFile' # lockFile
    <3>1. Unlinks(p)
      BY <1>3, <2>3, LockNames DEF Original, Lists, ListDir
    <3>2. PICK n \in listing[p] :
            lockFile' = IF n = "state.lock" THEN NoProc ELSE lockFile
      BY <3>1 DEF Unlinks, Unlink
    <3>3. Removing(p) /\ lockFile = fd[p]
      BY <2>3, <3>1, <3>2, RemovingUnlinks DEF RemovesNext
    <3> QED  BY <1>1, <2>1, <3>3 DEF Queues
  <2> QED  BY <2>2, <2>3
<1> QED  BY <1>2, <1>3

\* A delete that is there keeps to its order: nobody else unlinks the name of
\* its lock file, as nobody else holds the lock.
LEMMA RemovesStep ==
  ASSUME ControlTypes, Control, Roles, Serial, DeletedInv, FileInv, MountedInv,
         UsingInv, Thorough, Original, Original', NEW p \in Proc, Kind(p),
         \A a \in Proc : Removing(a) => RemovesNext(a),
         listing \in [Proc -> SUBSET Name], NEW a \in Proc, Removing(a)
  PROVE  RemovesNext(a)'
<1> USE RuntimeStateAssumption DEF ControlTypes
<1>1. /\ RemovesNext(a) /\ Removing(a)' /\ fd'[a] = fd[a]
      /\ pc'[a] = "rm" => pc[a] = "rm"
  BY RemovingStays
<1>2. exists /\ "state.json" \in Entries /\ Using(a) /\ holder[fd[a]] = a
  BY RemovingKeeps DEF Original, Entries, Name
<1>3. pc'[a] = pc[a] \/ (p = a /\ Lists(p))
  <2>1. CASE p # a  BY <2>1, KindFlight DEF OnlyMoves
  <2>2. CASE p = a
    BY <1>1, <2>2 DEF Removing, Kind, Passes, Moves, CreateMoves, StartMoves,
       DeleteMoves, ExecMoves, IsDelete, IsExec, Hooks, Opens, Locks, Loads,
       Truncates, Writes, Lists, Unlinks, Empties, Checks, MakesDir
  <2> QED  BY <2>1, <2>2
<1>4. CASE lockFile' = lockFile /\ listing' = listing
  <2>1. ~Lists(p) \/ p # a \/ listing'[a] = Entries
    BY DEF Lists, ListDir
  <2> QED  BY <1>1, <1>2, <1>3, <1>4, <2>1 DEF RemovesNext, Removing, Lists
<1>5. CASE Opens(p)
  BY <1>1, <1>3, <1>5 DEF Opens, OpenLock, RemovesNext, Removing, Lists
<1>6. CASE Lists(p)
  <2>1. lockFile' = lockFile /\ listing' = [listing EXCEPT ![p] = Entries]
    BY <1>6 DEF Lists, ListDir
  <2>2. CASE p = a
    BY <1>1, <1>2, <1>6, <2>1, <2>2 DEF RemovesNext, Lists
  <2>3. CASE p # a
    BY <1>1, <1>3, <2>1, <2>3 DEF RemovesNext
  <2> QED  BY <2>2, <2>3
<1>7. CASE Unlinks(p)
  <2>1. PICK n \in listing[p] :
          /\ listing' = [listing EXCEPT ![p] = @ \ {n}]
          /\ json' = IF n = "state.json" THEN NoFile ELSE json
          /\ lockFile' = IF n = "state.lock" THEN NoProc ELSE lockFile
    BY <1>7 DEF Unlinks, Unlink
  <2>2. n # "state.json" /\ pc'[a] = pc[a] /\ pc[p] = "unlink"
    BY <1>3, <1>7, <2>1 DEF Original, exists, NoFile, Unlinks, Lists
  <2>3. CASE p = a
    BY <1>1, <2>1, <2>2, <2>3 DEF RemovesNext
  <2>4. CASE p # a
    <3>1. Removing(p) /\ RemovesNext(p) /\ holder[fd[p]] = p
      BY <1>2, <1>7, RemovingUnlinks, RemovingKeeps
    <3>2. n = "state.lock" => lockFile = fd[p]
      BY <2>2, <3>1 DEF RemovesNext
    <3>3. n = "state.lock" => lockFile # fd[a]
      BY <1>2, <2>4, <3>1, <3>2
    <3> QED  BY <1>1, <2>1, <2>2, <2>4, <3>3 DEF RemovesNext
  <2> QED  BY <2>3, <2>4
<1> QED  BY <1>2, <1>4, <1>5, <1>6, <1>7, LockNames

\* The poststop hooks put a delete there whose lock file has the name.
LEMMA RemovesFirst ==
  ASSUME ControlTypes, ControlTypes', Control, Roles, DeletedInv, MountedInv,
         UsingInv, GuardInv, Thorough, Original,
         NEW p \in Proc, Hooks(p, "poststop", "rm")
  PROVE  RemovesNext(p)'
<1> USE RuntimeStateAssumption
<1>1. pc[p] = "poststop" /\ cmd[p] # "create"
  BY DEF Hooks, Roles, IsDelete
<1>2. Using(p) /\ Keeps(p) /\ fd[p] # NoProc
  BY <1>1, Keeping DEF Control, HasFile, LockedPcs
<1>3. holder[fd[p]] = p
  BY <1>2 DEF UsingInv, Uses
<1>4. fd[p] = lockFile
  <2>1. CASE ~Removed(json.ino)
    BY <1>2, <2>1 DEF UsingInv, Uses
  <2>2. CASE Removed(json.ino)
    <3>1. ASSUME NEW a \in Proc, Removing(a), fd[a] = fd[p]  PROVE FALSE
      <4>1. holder[fd[a]] = a /\ a # p
        BY <1>1, <3>1, RemovingKeeps DEF Removing
      <4> QED  BY <1>3, <3>1, <4>1
    <3> QED  BY <1>2, <2>2, <3>1 DEF GuardInv, Queues
  <2> QED  BY <2>1, <2>2
<1> QED  BY <1>4 DEF Hooks, record, RemovesNext

\* Every step preserves GuardInv.
LEMMA GuardStep ==
  ASSUME Overlap = {}, ControlTypes, ControlTypes', Control, Control', Roles,
         Recorded, DeletedInv, Serial, FileInv, MountedInv, MakingInv,
         UsingInv, UsingInv', GuardInv,
         listing \in [Proc -> SUBSET Name], Kinds
  PROVE  GuardInv'
<1> USE RuntimeStateAssumption DEF ControlTypes
<1>1. ASSUME NEW p \in Proc, Kind(p), Thorough, Original', Removed(json.ino)'
      PROVE  /\ \A q \in Proc : Using(q)' => Queues(q)'
             /\ \A a \in Proc : Removing(a)' => RemovesNext(a)'
  <2>1. /\ cmd' = cmd
        /\ \A q \in Proc : InFlight(q)' => InFlight(q)
        /\ \A q \in Proc \ {p} : pc'[q] = pc[q] /\ fd'[q] = fd[q]
    BY <1>1, KindFlight DEF OnlyMoves
  <2>2. \A a \in Proc : Removing(a)' => Using(a)
    BY <2>1 DEF Removing, IsDelete, Using, InFlight
  <2>3. CASE cmd[p] = "create" /\ InFlight(p)
    <3>1. \A q \in Proc : ~Using(q)
      BY <2>3 DEF Serial, Using
    <3> QED  BY <2>1, <2>2, <3>1 DEF Using
  <2>4. CASE ~(cmd[p] = "create" /\ InFlight(p))
    <3>1. Original /\ json'.ino = json.ino
      BY <1>1, <2>4, OriginalStep
    <3>2. ASSUME NEW a \in Proc, Removing(a)'
          PROVE  Removing(a) \/ (p = a /\ Hooks(p, "poststop", "rm"))
      <4>1. CASE a # p
        BY <2>1, <3>2, <4>1 DEF Removing, IsDelete
      <4>2. CASE a = p /\ Hooks(p, "prestart", "open_fifo")
        BY <3>2, <4>2 DEF Removing, Hooks
      <4>3. CASE a = p /\ ~Hooks(p, "prestart", "open_fifo")
        <5>1. Using(a) /\ IsDelete(a) /\ pc'[a] \in {"rm", "unlink"}
          BY <2>1, <2>2, <3>2 DEF Removing, IsDelete
        <5>2. CASE Passes(p)
          <6>1. pc[a] \in {"rm", "unlink"}
            BY <3>1, <4>3, <5>1, <5>2
               DEF Passes, Moves, CreateMoves, StartMoves, DeleteMoves,
                   ExecMoves, IsDelete, IsExec, Original
          <6> QED  BY <3>2, <4>3, <5>1, <5>2, <6>1
                   DEF Removing, Passes, record, IsDelete
        <5>3. CASE ~Passes(p)
          BY <1>1, <2>1, <3>2, <4>3, <5>1, <5>3
             DEF Removing, IsDelete, Kind, Hooks, Opens, Locks, Loads,
                 Truncates, Writes, Lists, Unlinks, Empties, Checks, MakesDir,
                 ListDir, Unlink, AfterSave
        <5> QED  BY <5>2, <5>3
      <4> QED  BY <4>1, <4>2, <4>3
    <3>3. CASE ~Removed(json.ino)
      <4>1. Hooks(p, "poststop", "rm")
        <5>1. json.ino \in Proc
          BY <3>1 DEF Original, exists, JsonType, ProcOrNone
        <5>2. PICK q \in Proc : <<"poststop", json.ino, q>> \in ran'
          BY <1>1, <3>1 DEF Removed, RunsHook
        <5>3. <<"poststop", json.ino, q>> \notin ran
          BY <3>3 DEF Removed, RunsHook
        <5> QED  BY <1>1, <5>1, <5>2, <5>3, PoststopRuns
      <4>2. ASSUME NEW a \in Proc  PROVE ~Removing(a)
        <5>1. ASSUME Removing(a)  PROVE Removed(json.ino)
          <6>1. Using(a) BY <5>1 DEF Removing, Using, InFlight, IsDelete
          <6>2. HasEnded(a) /\ mem[a].of = json.ino
            BY <3>1, <5>1, <6>1 DEF Removing, UsingInv, Uses, HasLoaded
          <6> QED  BY <6>2 DEF HasEnded, Removed, RunsHook
        <5> QED  BY <3>3, <5>1
      <4>3. ASSUME NEW q \in Proc, Using(q)  PROVE Queues(q)
        BY <3>1, <3>3, <4>3 DEF Queues, UsingInv, Uses
      <4> QED  BY <1>1, <2>1, <3>1, <3>2, <4>1, <4>2, <4>3, QueuesStep,
             RemovesFirst DEF Using
    <3>4. CASE Removed(json.ino)
      <4>1. /\ \A q \in Proc : Using(q) => Queues(q)
            /\ \A a \in Proc : Removing(a) => RemovesNext(a)
        BY <1>1, <3>1, <3>4 DEF GuardInv
      <4>2. \A q \in Proc : Using(q)' => Queues(q)'
        BY <1>1, <2>1, <3>1, <4>1, QueuesStep DEF Using
      <4>3. \A a \in Proc : Removing(a)' => RemovesNext(a)'
        BY <1>1, <3>1, <3>2, <4>1, RemovesStep, RemovesFirst
      <4> QED  BY <4>2, <4>3
    <3> QED  BY <3>3, <3>4
  <2> QED  BY <2>3, <2>4
<1>2. ASSUME NEW p \in Proc, Begins(p)
      PROVE  GuardInv'
  <2>1. UNCHANGED <<json, lockFile, listing, fd, mem, ran>>
    BY <1>2 DEF Begins, Invoke, stateVars, dirVars
  <2>2. /\ \A q \in Proc \ {p} : pc'[q] = pc[q] /\ cmd'[q] = cmd[q]
        /\ pc[p] = "idle" /\ pc'[p] \in {"check", "exists", "open"}
    BY <1>2 DEF Begins, Invoke
  <2>3. fd[p] = NoProc
    BY <2>2 DEF Control, Fresh
  <2>4. Original' => Original
    BY <2>1, <2>2 DEF Original, exists, FileInv, JsonType, ProcOrNone
  <2>5. \A a \in Proc : Removing(a)' <=> Removing(a)
    BY <2>1, <2>2 DEF Removing, IsDelete
  <2>6. \A q \in Proc : Queues(q) => Queues(q)'
    BY <2>1, <2>5 DEF Queues
  <2>7. \A q \in Proc : Using(q)' => Using(q) \/ fd[q] = NoProc
    BY <2>2, <2>3 DEF Using, InFlight
  <2>8. \A a \in Proc : Removing(a) /\ RemovesNext(a) => RemovesNext(a)'
    BY <2>1, <2>2 DEF RemovesNext, Removing
  <2> QED  BY <2>1, <2>3, <2>4, <2>5, <2>6, <2>7, <2>8
         DEF GuardInv, Queues, Removed, RunsHook
<1>3. CASE UNCHANGED vars
  BY <1>3 DEF vars, stateVars, dirVars, ctlVars, GuardInv, Removing, IsDelete,
       RemovesNext, Queues, Using, InFlight, Original, exists, Removed,
       RunsHook
<1> QED  BY <1>1, <1>2, <1>3 DEF Kinds, GuardInv

-----------------------------------------------------------------------------
(* Starts.                                                                 *)

\* As Exclusion, for a container that a delete may have under way: beside
\* that delete, whoever keeps a lock keeps that of the present lock file.
LEMMA GuardedExclusion ==
  ASSUME ControlTypes, Control, DeletedInv, MountedInv, UsingInv, GuardInv,
         Original, Guarded(json.ino),
         NEW p \in Proc, NEW q \in Proc, Using(p), Using(q), Keeps(p),
         Keeps(q), pc[p] \notin {"rm", "unlink"}, pc[q] \notin {"rm", "unlink"}
  PROVE  p = q
<1> USE RuntimeStateAssumption
<1>1. CASE ~Removed(json.ino)
  BY <1>1, Exclusion
<1>2. CASE Removed(json.ino)
  <2>1. Thorough  BY <1>2 DEF Guarded
  <2>2. fd[p] # NoProc /\ fd[q] # NoProc
    BY DEF Keeps, Critical, Control, HasFile
  <2>3. holder[fd[p]] = p /\ holder[fd[q]] = q
    BY DEF UsingInv, Uses
  <2>4. ASSUME NEW a \in Proc, Removing(a)
        PROVE  fd[a] # fd[p] /\ fd[a] # fd[q]
    <3>1. holder[fd[a]] = a  BY <2>1, <2>4, RemovingKeeps
    <3> QED  BY <2>3, <2>4, <3>1 DEF Removing
  <2>5. fd[p] = lockFile /\ fd[q] = lockFile
    BY <1>2, <2>1, <2>2, <2>4 DEF GuardInv, Queues
  <2> QED  BY <2>3, <2>5
<1> QED  BY <1>1, <1>2

\* A container is not guarded again once it is not.
LEMMA GuardedBefore ==
  ASSUME NEW p \in Proc, Kind(p), NEW c \in Proc, Guarded(c)'
  PROVE  Guarded(c)
BY KindHooks DEF Guarded

\* Only a load() of a file that says "created" makes a start a saver, only a
\* load() makes another command one.
LEMMA SaversBefore ==
  ASSUME ControlTypes, Control, Roles, Recorded, MakingInv, UsingInv,
         NEW p \in Proc, Kind(p), NEW q \in Proc, NEW c \in Proc,
         ~(p = q /\ Loads(p))
  PROVE  /\ Saving(q, c)' => Saving(q, c)
         /\ Starting(q, c)' =>
              /\ Starting(q, c)
              /\ pc'[q] = "prestart" /\ pc[q] # "prestart" =>
                   p = q /\ Writes(p)
<1> USE RuntimeStateAssumption DEF ControlTypes, MemType, Saving, Starting
<1>1. cmd' = cmd  BY KindFlight
<1>2. CASE p # q
  BY <1>1, <1>2, KindFlight DEF OnlyMoves
<1>3. CASE p = q /\ Passes(p)
  BY <1>1, <1>3 DEF Passes, record, Moves, CreateMoves, StartMoves,
       DeleteMoves, ExecMoves, IsDelete, IsExec
<1>4. CASE p = q /\ Truncates(p)
  BY <1>1, <1>4, Truncated DEF Truncates
<1>5. CASE p = q /\ Writes(p)
  <2>1. pc[p] = "write" /\ pc'[p] \notin {"save", "write"}
    BY <1>5 DEF Writes, AfterSave
  <2> QED  BY <1>1, <1>5, <2>1, Written
<1>6. CASE p = q /\ ~Passes(p) /\ ~Truncates(p) /\ ~Writes(p)
  BY <1>1, <1>6 DEF Kind, Hooks, Opens, Locks, Loads, Lists, Unlinks, Empties,
       Checks, MakesDir, OpenLock, ListDir, Unlink, RemoveDir,
       create_directories, record
<1> QED  BY <1>2, <1>3, <1>4, <1>5, <1>6

\* A step leaves the status in state.json, or the file goes, or p saves.
LEMMA StatusKept ==
  ASSUME ControlTypes, Recorded, NEW p \in Proc, Kind(p), ~Writes(p),
         NEW c \in Proc, json'.of = c
  PROVE  json.of = c /\ json'.status = json.status
<1> USE RuntimeStateAssumption DEF ControlTypes, MemType
<1>1. CASE Truncates(p)
  BY <1>1, Truncated DEF JsonType
<1>2. CASE Unlinks(p)
  <2>1. json' = json \/ json' = NoFile
    BY <1>2 DEF Unlinks, Unlink
  <2> QED  BY <2>1 DEF NoFile
<1>3. CASE ~Truncates(p) /\ ~Unlinks(p)
  <2>1. json' = json
    BY <1>3 DEF Kind, Passes, Hooks, Opens, Locks, Loads, Lists,
         Empties, Checks, MakesDir, OpenLock, ListDir, RemoveDir,
         create_directories, record, dirVars
  <2> QED  BY <2>1
<1> QED  BY <1>1, <1>2, <1>3

\* The parts of StartInv, for one container.
NotAgain(c) ==
  RunsHook("prestart", c) => ~(json.of = c /\ json.status = "created")
SavesAlone(q, c) ==
  /\ json.of = c => json.status = "created"
  /\ \A r \in Proc \ {q} : ~Saving(r, c)
StartsAlone(q, c) ==
  /\ ~RunsHook("prestart", c)
  /\ \A r \in Proc \ {q} : ~Starting(r, c)
  /\ pc[q] = "prestart" => ~(json.of = c /\ json.status = "created")

\* A load(): a start that gets to save() has found "created", and is alone
\* at work on that file.
LEMMA StartLoads ==
  ASSUME ControlTypes, ControlTypes', Control, Roles, Recorded,
         DeletedInv, FileInv, MountedInv, MakingInv, UsingInv, GuardInv,
         StartInv,
         NEW p \in Proc, Kind(p), Loads(p)
  PROVE  StartInv'
<1> USE RuntimeStateAssumption DEF ControlTypes, MemType
<1>1. cmd' = cmd /\ OnlyMoves(p)  BY KindFlight
<1>2. /\ mem'[p].of = json.of /\ json.of \in Proc
      /\ UNCHANGED <<json, ran>> /\ pc[p] = "load"
      /\ Original => json.of = json.ino
      /\ json.status = "created" => Original
  BY Loaded DEF Loads
<1>3. /\ pc'[p] \notin {"write", "prestart"}
      /\ pc'[p] = "save" /\ cmd[p] = "start" => json.status = "created"
      /\ cmd[p] # "create"
  BY DEF Loads, Control, OtherPcs
<1>4. ASSUME NEW q \in Proc \ {p}, NEW c \in Proc
      PROVE  /\ Saving(q, c)' <=> Saving(q, c)
             /\ Starting(q, c)' <=> Starting(q, c)
             /\ pc'[q] = pc[q]
  BY <1>1, <1>4, KindFlight DEF Saving, Starting, OnlyMoves
<1>5. ASSUME NEW c \in Proc
      PROVE  /\ Saving(p, c)' => c = json.of
             /\ Starting(p, c)' => c = json.of /\ json.status = "created"
             /\ cmd[p] = "start" /\ Saving(p, c)' => json.status = "created"
  BY <1>1, <1>2, <1>3 DEF Saving, Starting
<1>6. ASSUME NEW c \in Proc, Guarded(c), c = json.of, json.status = "created",
             NEW q \in Proc \ {p}, Saving(q, c) \/ Starting(q, c)
      PROVE  FALSE
  <2>1. Original /\ json.ino = c  BY <1>2, <1>6
  <2>2. Using(p) /\ Keeps(p)  BY <1>2, <1>3, Keeping
  <2>3. Using(q) /\ Keeps(q) /\ pc[q] \notin {"rm", "unlink"}
    BY <1>6, Keeping DEF Saving, Starting
  <2> QED  BY <1>2, <1>6, <2>1, <2>2, <2>3, GuardedExclusion
<1> SUFFICES ASSUME NEW c \in Proc, Guarded(c)'
             PROVE  /\ NotAgain(c)'
                    /\ \A q \in Proc :
                         cmd'[q] = "start" /\ Saving(q, c)'
                           => SavesAlone(q, c)'
                    /\ \A q \in Proc : Starting(q, c)' => StartsAlone(q, c)'
  BY DEF StartInv, NotAgain, SavesAlone, StartsAlone
<1>7. Guarded(c)  BY GuardedBefore
<1>8. NotAgain(c)'
  BY <1>2, <1>7 DEF StartInv, NotAgain, RunsHook
<1>9. ASSUME NEW q \in Proc, cmd[q] = "start", Saving(q, c)'
      PROVE  SavesAlone(q, c)'
  <2>1. CASE q = p
    <3>1. c = json.of /\ json.status = "created"  BY <1>5, <1>9, <2>1
    <3> QED  BY <1>2, <1>4, <1>6, <1>7, <2>1, <3>1 DEF SavesAlone
  <2>2. CASE q # p
    <3>1. Saving(q, c) /\ SavesAlone(q, c)
      BY <1>4, <1>7, <1>9, <2>2 DEF StartInv, SavesAlone
    <3>2. ~Saving(p, c)'
      BY <1>5, <1>6, <1>7, <2>2, <3>1 DEF SavesAlone
    <3> QED  BY <1>2, <1>4, <3>1, <3>2 DEF SavesAlone
  <2> QED  BY <2>1, <2>2
<1>10. ASSUME NEW q \in Proc, Starting(q, c)'
       PROVE  StartsAlone(q, c)'
  <2>1. CASE q = p
    <3>1. c = json.of /\ json.status = "created"  BY <1>5, <1>10, <2>1
    <3>2. ~RunsHook("prestart", c)'
      BY <1>2, <1>7, <3>1 DEF StartInv, RunsHook
    <3> QED  BY <1>3, <1>4, <1>6, <1>7, <2>1, <3>1, <3>2 DEF StartsAlone
  <2>2. CASE q # p
    <3>1. Starting(q, c) /\ StartsAlone(q, c)
      BY <1>4, <1>7, <1>10, <2>2 DEF StartInv, StartsAlone
    <3>2. ~Starting(p, c)'
      BY <1>5, <1>6, <1>7, <2>2, <3>1
    <3> QED  BY <1>2, <1>4, <2>2, <3>1, <3>2 DEF StartsAlone, RunsHook
  <2> QED  BY <2>1, <2>2
<1> QED  BY <1>1, <1>8, <1>9, <1>10

\* A save(): whoever saves "running" is alone, and leaves a file that says so.
LEMMA StartWrites ==
  ASSUME ControlTypes, ControlTypes', Control, Roles, Recorded, Serial,
         FileInv, MakingInv, UsingInv, StartInv,
         NEW p \in Proc, Kind(p), Writes(p)
  PROVE  StartInv'
<1> USE RuntimeStateAssumption DEF ControlTypes, MemType
<1> SUFFICES ASSUME NEW c \in Proc, Guarded(c)'
             PROVE  /\ NotAgain(c)'
                    /\ \A q \in Proc :
                         cmd'[q] = "start" /\ Saving(q, c)'
                           => SavesAlone(q, c)'
                    /\ \A q \in Proc : Starting(q, c)' => StartsAlone(q, c)'
  BY DEF StartInv, NotAgain, SavesAlone, StartsAlone
<1>1. cmd' = cmd /\ OnlyMoves(p) /\ Guarded(c)
  BY KindFlight, GuardedBefore
<1>2. /\ UNCHANGED ran /\ pc[p] = "write" /\ ~Loads(p) /\ InFlight(p)
      /\ pc'[p] \notin {"save", "write"}
  BY DEF Writes, Loads, AfterSave, InFlight
<1>3. ASSUME NEW q \in Proc
      PROVE  /\ Saving(q, c)' => Saving(q, c) /\ q # p
             /\ Starting(q, c)' =>
                  /\ Starting(q, c)
                  /\ pc'[q] = "prestart" => pc[q] = "prestart" \/ q = p
  BY <1>2, SaversBefore DEF Saving
<1>4. \/ json' = json
      \/ json'.of = mem[p].of /\ json'.status = mem[p].status
  BY Written
<1>5. CASE cmd[p] = "create"
  <2>1. \A q \in Proc : ~Saving(q, c) /\ ~Starting(q, c)
    BY <1>2, <1>5 DEF Serial, Saving, Starting, InFlight
  <2>2. mem[p].of = p /\ ~RunsHook("prestart", p)
    BY <1>2, <1>5, Written DEF MakingInv, Makes
  <2> QED  BY <1>1, <1>2, <1>3, <1>4, <2>1, <2>2
         DEF NotAgain, RunsHook, StartInv
<1>6. CASE cmd[p] # "create"
  <2>1. mem[p].status \in {"running", "stopped"}
    BY <1>6, Written
  <2>2. NotAgain(c)'
    BY <1>1, <1>2, <1>4, <2>1 DEF NotAgain, RunsHook, StartInv
  <2>3. ASSUME NEW q \in Proc, cmd[q] = "start", Saving(q, c)'
        PROVE  SavesAlone(q, c)'
    <3>1. Saving(q, c) /\ SavesAlone(q, c) /\ q # p
      BY <1>1, <1>3, <2>3 DEF StartInv, SavesAlone
    <3>2. mem[p].of # c
      BY <1>2, <1>6, <3>1 DEF SavesAlone, Saving
    <3> QED  BY <1>3, <1>4, <3>1, <3>2 DEF SavesAlone
  <2>4. ASSUME NEW q \in Proc, Starting(q, c)'
        PROVE  StartsAlone(q, c)'
    <3>1. Starting(q, c) /\ StartsAlone(q, c)
      BY <1>1, <1>3, <2>4 DEF StartInv, StartsAlone
    <3>2. ASSUME pc'[q] = "prestart", json'.of = c, json'.status = "created"
          PROVE  FALSE
      <4>1. json' = json  BY <1>4, <2>1, <3>2
      <4>2. CASE q = p
        <5>1. exists /\ Original
          BY <3>2, <4>1 DEF FileInv, NoFile, exists
        <5>2. mem[p].out = json.ino  BY <1>6, <5>1, Written
        <5> QED  BY <2>1, <3>2, <4>1, <5>1, <5>2, Written
      <4>3. CASE q # p
        BY <1>3, <2>4, <3>1, <3>2, <4>1, <4>3 DEF StartsAlone
      <4> QED  BY <4>2, <4>3
    <3> QED  BY <1>2, <1>3, <3>1, <3>2 DEF StartsAlone, RunsHook
  <2> QED  BY <1>1, <2>2, <2>3, <2>4
<1> QED  BY <1>5, <1>6

\* Any other step, that of the prestart hooks among them.
LEMMA StartOthers ==
  ASSUME ControlTypes, ControlTypes', Control, Roles, Recorded,
         MakingInv, UsingInv, StartInv,
         NEW p \in Proc, Kind(p), ~Loads(p), ~Writes(p)
  PROVE  StartInv'
<1> USE RuntimeStateAssumption DEF ControlTypes, MemType
<1> SUFFICES ASSUME NEW c \in Proc, Guarded(c)'
             PROVE  /\ NotAgain(c)'
                    /\ \A q \in Proc :
                         cmd'[q] = "start" /\ Saving(q, c)'
                           => SavesAlone(q, c)'
                    /\ \A q \in Proc : Starting(q, c)' => StartsAlone(q, c)'
  BY DEF StartInv, NotAgain, SavesAlone, StartsAlone
<1>1. cmd' = cmd /\ OnlyMoves(p) /\ Guarded(c)
  BY KindFlight, GuardedBefore
<1>2. json'.of = c => json.of = c /\ json'.status = json.status
  BY StatusKept
<1>3. ASSUME NEW q \in Proc
      PROVE  /\ Saving(q, c)' => Saving(q, c)
             /\ Starting(q, c)' =>
                  /\ Starting(q, c)
                  /\ pc'[q] = "prestart" => pc[q] = "prestart"
  BY SaversBefore
<1>4. RunsHook("prestart", c)' =>
        RunsHook("prestart", c) \/ (pc[p] = "prestart" /\ Starting(p, c))
  BY KindHooks DEF Roles, StartPcs, Starting
<1>5. NotAgain(c)'
  BY <1>1, <1>2, <1>4 DEF NotAgain, StartInv
<1>6. ASSUME NEW q \in Proc, cmd[q] = "start", Saving(q, c)'
      PROVE  SavesAlone(q, c)'
  BY <1>1, <1>2, <1>3, <1>6 DEF StartInv, SavesAlone
<1>7. ASSUME NEW q \in Proc, Starting(q, c)'
      PROVE  StartsAlone(q, c)'
  <2>1. Starting(q, c) /\ StartsAlone(q, c)
    BY <1>1, <1>3, <1>7 DEF StartInv, StartsAlone
  <2>2. ~RunsHook("prestart", c)'
    <3>1. ASSUME RunsHook("prestart", c)'  PROVE FALSE
      <4>1. pc[p] = "prestart" /\ p = q
        BY <1>4, <2>1, <3>1 DEF StartsAlone
      <4>2. Passes(p) \/ Hooks(p, "prestart", "open_fifo")
        BY <4>1 DEF Kind, Hooks, Opens, Locks, Loads, Truncates, Writes, Lists,
             Unlinks, Empties, Checks, MakesDir
      <4>3. CASE Passes(p)
        BY <2>1, <3>1, <4>3 DEF Passes, HooksAsBefore, StartsAlone, RunsHook
      <4>4. CASE Hooks(p, "prestart", "open_fifo")
        BY <1>7, <4>1, <4>4 DEF Hooks, Starting
      <4> QED  BY <4>2, <4>3, <4>4
    <3> QED  BY <3>1
  <2> QED  BY <1>2, <1>3, <1>7, <2>1, <2>2 DEF StartsAlone
<1> QED  BY <1>1, <1>5, <1>6, <1>7

\* Every step preserves StartInv.
LEMMA StartingStep ==
  ASSUME ControlTypes, ControlTypes', Control, Roles, Recorded, Serial,
         DeletedInv, FileInv, MountedInv, MakingInv, UsingInv, GuardInv,
         StartInv, Kinds
  PROVE  StartInv'
<1>1. ASSUME NEW p \in Proc, Kind(p) PROVE StartInv'
  BY <1>1, StartLoads, StartWrites, StartOthers
<1>2. ASSUME NEW p \in Proc, Begins(p) PROVE StartInv'
  <2>1. UNCHANGED <<json, mem, ran>>
    BY <1>2 DEF Begins, Invoke, stateVars, dirVars
  <2>2. \A q, c \in Proc : /\ Saving(q, c)' <=> Saving(q, c)
                           /\ Starting(q, c)' <=> Starting(q, c)
                           /\ pc'[q] = "prestart" <=> pc[q] = "prestart"
                           /\ Saving(q, c) => cmd'[q] = cmd[q]
    BY <1>2, <2>1 DEF Begins, Invoke, Saving, Starting, ControlTypes
  <2>3. \A c \in Proc : /\ Guarded(c)' <=> Guarded(c)
                        /\ RunsHook("prestart", c)' <=> RunsHook("prestart", c)
    BY <2>1 DEF Guarded, Removed, RunsHook
  <2> QED  BY <2>1, <2>2, <2>3 DEF StartInv
<1>3. CASE UNCHANGED vars
  BY <1>3 DEF vars, stateVars, dirVars, ctlVars, StartInv, Saving, Starting,
       Guarded, Removed, RunsHook
<1> QED  BY <1>1, <1>2, <1>3 DEF Kinds

\* Every step preserves StartedOnce.
LEMMA StartedStep ==
  ASSUME ControlTypes, ControlTypes', Control, Roles, UsingInv, StartInv,
         StartedOnce, Kinds
  PROVE  StartedOnce'
<1> DEFINE Same == \A c, q \in Proc : /\ Guarded(c)' => Guarded(c)
                                      /\ <<"prestart", c, q>> \in ran'
                                           => <<"prestart", c, q>> \in ran
<1>1. Same => StartedOnce'
  BY DEF StartedOnce
<1>2. ASSUME NEW p \in Proc, Kind(p) PROVE StartedOnce'
  <2>1. \A c \in Proc : Guarded(c)' => Guarded(c)
    BY <1>2, GuardedBefore
  <2>2. CASE Passes(p)
    <3>1. Same  BY <2>1, <2>2 DEF Passes, HooksAsBefore
    <3> QED  BY <1>1, <3>1
  <2>3. CASE Hooks(p, "prestart", "open_fifo")
    <3>1. /\ pc[p] = "prestart" /\ cmd[p] = "start"
          /\ ran' = ran \cup {<<"prestart", mem[p].of, p>>}
      BY <2>3 DEF Hooks, Roles, StartPcs
    <3>2. Guarded(mem[p].of) /\ mem[p].of \in Proc =>
            ~RunsHook("prestart", mem[p].of)
      BY <3>1 DEF StartInv, Starting
    <3> QED  BY <2>1, <3>1, <3>2 DEF StartedOnce, RunsHook
  <2>4. CASE ~Passes(p) /\ ~Hooks(p, "prestart", "open_fifo")
    <3>1. \/ ran' = ran
          \/ ran' = ran \cup {<<"poststop", mem[p].of, p>>}
      BY <1>2, <2>4 DEF Kind, Hooks, Opens, Locks, Loads, Truncates, Writes,
           Lists, Unlinks, Empties, Checks, MakesDir
    <3>2. Same  BY <2>1, <3>1
    <3> QED  BY <1>1, <3>2
  <2> QED  BY <2>2, <2>3, <2>4
<1>3. ASSUME ran' = ran PROVE StartedOnce'
  BY <1>3 DEF StartedOnce, Guarded, Removed, RunsHook
<1> QED  BY <1>2, <1>3 DEF Kinds, Begins, Invoke, vars

-----------------------------------------------------------------------------
(* The theorems about starts.                                              *)

\* All of the above, and what it rests on.
OnlyOnceInv ==
  LockingInv /\ StateTypeOK /\ GuardInv /\ StartInv /\ StartedOnce

\* It holds of every instance in which nothing overlaps with a create.
LEMMA OnlyOnceInvariant ==
  ASSUME Overlap = {}
  PROVE  Spec => []OnlyOnceInv
<1>1. Init => GuardInv /\ StartInv /\ StartedOnce
  BY RuntimeStateAssumption
     DEF Init, StateInit, HostInit, CommandsInit, GuardInv, Original, exists,
         NoFile, StartInv, Saving, Starting, StartedOnce, RunsHook
<1>2. OnlyOnceInv /\ LockingInv' /\ [Next]_vars => OnlyOnceInv'
  <2> SUFFICES ASSUME OnlyOnceInv, LockingInv', [Next]_vars
               PROVE  OnlyOnceInv'
    OBVIOUS
  <2> USE DEF OnlyOnceInv, LockingInv
  <2>1. Kinds  BY StepKinds DEF TypeOK
  <2>2. GuardInv'
    BY <2>1, GuardStep DEF StateTypeOK
  <2>3. StartInv' /\ StartedOnce'
    BY <2>1, StartingStep, StartedStep
  <2> QED  BY <2>2, <2>3 DEF TypeOK
<1>3. LockingInv => StateTypeOK  BY DEF LockingInv, TypeOK
<1> QED  BY <1>1, <1>2, <1>3, LockingInvariant, PTL DEF Spec, OnlyOnceInv

\* StartedOnce holds of every instance in which nothing overlaps with a
\* create: of the starts of a container that race, with deletes too, one gets
\* past the check of the status.
THEOREM StartedOnceAlways ==
  ASSUME Overlap = {}
  PROVE  Spec => []StartedOnce
<1>1. OnlyOnceInv => StartedOnce  BY DEF OnlyOnceInv
<1> QED  BY <1>1, OnlyOnceInvariant, PTL

\* StatusForward holds of every instance in which nothing overlaps with a
\* create: no save() of a status that was read before another one.
THEOREM StatusForwardAlways ==
  ASSUME Overlap = {}
  PROVE  Spec => StatusForward
<1>1. OnlyOnceInv /\ OnlyOnceInv' /\ [Next]_vars
      => [json'.of = json.of /\ Guarded(json.of)
            => Rank(json'.status) >= Rank(json.status)]_vars
  <2> SUFFICES ASSUME OnlyOnceInv, OnlyOnceInv', [Next]_vars,
                      json'.of = json.of, Guarded(json.of)
               PROVE  Rank(json'.status) >= Rank(json.status)
    OBVIOUS
  <2> USE DEF OnlyOnceInv, LockingInv
  <2>1. /\ json.status \in Status /\ json'.status \in Status
        /\ json.of \in ProcOrNone
    BY DEF StateTypeOK
  <2>2. CASE json'.status = json.status
    BY <2>1, <2>2 DEF Rank, Status
  <2>3. CASE json'.status # json.status
    <3>1. json.of \in Proc
      BY <2>1, <2>3 DEF FileInv, ProcOrNone
    <3>2. Kinds  BY StepKinds DEF TypeOK
    <3>3. PICK p \in Proc : Kind(p)
      BY <2>3, <3>2 DEF Kinds, Begins, Invoke, vars, stateVars, dirVars
    <3>4. Writes(p)
      BY <2>3, <3>1, <3>3, StatusKept
    <3>5. json'.of = mem[p].of /\ json'.status = mem[p].status
      BY <2>3, <3>4, Written
    <3>6. cmd[p] # "create"
      BY <3>1, <3>4, RuntimeStateAssumption, Written
    <3>7. mem[p].status = IF cmd[p] = "start" THEN "running" ELSE "stopped"
      BY <3>4, <3>6, Written
    <3>8. cmd[p] = "start" => json.status = "created"
      BY <3>1, <3>4, <3>5 DEF StartInv, Saving, Writes
    <3> QED  BY <2>1, <3>5, <3>7, <3>8 DEF Rank, Status
  <2> QED  BY <2>2, <2>3
<1> QED  BY <1>1, OnlyOnceInvariant, PTL DEF Spec, StatusForward

\* NoTornLoad holds of every instance in which nothing overlaps with a create:
\* whoever is writing the file keeps the lock, and so does whoever loads it.
THEOREM NoTornLoadAlways ==
  ASSUME Overlap = {}
  PROVE  Spec => []NoTornLoad
<1>1. OnlyOnceInv => NoTornLoad
  <2> SUFFICES ASSUME OnlyOnceInv, NEW p \in Proc, pc[p] = "load", json.torn,
                      Original, Guarded(json.ino)
               PROVE  \E q \in Proc :
                        out[q] = "crashed" /\ mem[q].out = json.ino
    BY DEF NoTornLoad
  <2> USE DEF OnlyOnceInv, LockingInv
  <2>1. PICK w \in Proc : /\ mem[w].out = json.ino
                          /\ pc[w] = "write" \/ out[w] = "crashed"
    BY DEF TornInv, TornHasWriter
  <2>2. cmd[p] # "create"  BY DEF Control, OtherPcs
  <2>3. Using(p) /\ Keeps(p)  BY <2>2, Keeping
  <2>4. CASE pc[w] = "write"
    <3>1. cmd[w] # "create"
      BY <2>3, <2>4 DEF Serial, Using, InFlight
    <3>2. Using(w) /\ Keeps(w)  BY <2>4, <3>1, Keeping
    <3> QED  BY <2>3, <2>4, <3>2, GuardedExclusion
  <2> QED  BY <2>1, <2>4
<1> QED  BY <1>1, OnlyOnceInvariant, PTL

-----------------------------------------------------------------------------
(* The processes of a container.                                           *)

\* The container process has read the byte of start.
Started == {"startContainer", "exec", "running"}

\* What a step may do to container c's process and its FIFO.
ProcessMoves(c) ==
  /\ child[c] \in Dead => child'[c] \in Dead
  /\ child[c] \in {"none", "unborn"} => child'[c] \notin Dead
  /\ child[c] = "running" => child'[c] \in {"running"} \cup Dead
  /\ child'[c] = "unborn" =>
       \/ child[c] = "unborn"
       \/ pc[c] = "fork" /\ pc'[c] = "save" /\ "fork" \in Faults
  /\ Alive(c)' => Alive(c) \/ (pc[c] = "fork" /\ pc'[c] = "save")
  /\ child'[c] \in Started =>
       \/ child[c] \in Started
       \/ child[c] = "wait_start" /\ fifo[fifoFd[c]] # {}
  /\ child'[c] = "running" => child[c] \in {"exec", "running"}
  /\ cmd[c] = "create" /\ report'[c] = "failed" =>
       report[c] = "failed" \/ child'[c] \in Dead \/ "hook" \in Faults

FifoMoves(c) ==
  /\ fifo'[c] \subseteq
       fifo[c] \cup {q \in Proc : pc[q] = "write_fifo" /\ fifoFd[q] = c}
  /\ \/ fifoFd'[c] \in {fifoFd[c], NoProc}
     \/ pc[c] = "open_fifo" /\ fifoFd'[c] = fifoFile
     \/ child[c] = "open_fifo"
  /\ pc'[c] = "write_fifo" /\ pc[c] # "write_fifo" => fifoFd'[c] # NoProc
  /\ fifoFd'[c] # fifoFd[c] /\ pc[c] = "write_fifo" => pc'[c] # "write_fifo"

\* The process of a detached exec reports before it calls execve(), and ends
\* before that only for one of three reasons.
Waiting == {"exec_signal", "exec_await"}
ExecChildMoves(p) ==
  /\ report[p] # "none" => report'[p] # "none"
  /\ pc'[p] \in Waiting =>
       \/ pc[p] \in Waiting
       \/ /\ cmd[p] = "exec_detached"
          /\ xchild'[p] = "pre_start" \/ "fork" \in Faults
  /\ cmd[p] = "exec_detached" /\ xchild'[p] = "exec" =>
       xchild[p] = "exec" \/ report'[p] # "none"
  /\ cmd[p] = "exec_detached" /\ xchild[p] \in Preparing \ {"exec"} =>
       \/ xchild'[p] \in Preparing \/ report'[p] # "none"
       \/ "pre_start" \in Faults
       \/ \E r \in Proc : /\ pc[r] = "remove_jail" /\ jail = mem[r].of
                         /\ mem[r].of = mem[p].of

\* Only create makes a jail or a FIFO, in this order; jail::remove() is given
\* the jail of the command's own container.
JailMoves ==
  \/ jail' = jail
  \/ jail = NoProc
  \/ \E p \in Proc : /\ pc[p] = "remove_jail" /\ jail = mem[p].of
                     /\ jail' = NoProc
FileMoves ==
  /\ \/ fifoFile' \in {fifoFile, NoProc}
     \/ \E p \in Proc : pc[p] = "mkfifo" /\ pc'[p] = "fork"
  /\ \A p \in Proc : pc'[p] = "fork" /\ pc[p] # "fork" => fifoFile' = p

\* A step that does something to a container process does it to one, and
\* nothing to the record or to the hooks that mark its changes.
Marks == {"createRuntime", "prestart", "poststop"}
Apart ==
  \/ child' = child
  \/ /\ json' = json
     /\ \A phase \in Marks, c, q \in Proc :
          <<phase, c, q>> \in ran' <=> <<phase, c, q>> \in ran
     /\ \E c \in Proc : child' = [child EXCEPT ![c] = child'[c]]

HostMoves ==
  /\ \A c \in Proc : ProcessMoves(c) /\ FifoMoves(c) /\ ExecChildMoves(c)
  /\ JailMoves /\ FileMoves /\ Apart

\* A step that leaves all this alone.
HostCalm ==
  /\ UNCHANGED <<jail, fifo, fifoFd, child>>
  /\ fifoFile' \in {fifoFile, NoProc}
  /\ \A c \in Proc : /\ cmd[c] = "create" => report'[c] = report[c]
                     /\ pc'[c] = "write_fifo" => pc[c] = "write_fifo"
                     /\ pc'[c] = "fork" => pc[c] = "fork"
                     /\ ExecChildMoves(c)

\* Such a step is one of HostMoves.
LEMMA HostCalmed ==
  ASSUME HostCalm
  PROVE  HostMoves
BY DEF HostCalm, HostMoves, ProcessMoves, FifoMoves, JailMoves, FileMoves,
       Apart, Alive, Started, Dead

\* A step at which the container process of c ends.
HostExit(c) ==
  /\ Alive(c) /\ ChildExit(c)
  /\ UNCHANGED <<json, ran>> /\ JailMoves /\ fifoFile' = fifoFile
  /\ \A q \in Proc : /\ cmd[q] = "create" /\ q # c => report'[q] = report[q]
                     /\ pc'[q] = "write_fifo" => pc[q] = "write_fifo"
                     /\ pc'[q] = "fork" => pc[q] = "fork"
                     /\ ExecChildMoves(q)

\* Such a step is one of HostMoves, too.
LEMMA HostExited ==
  ASSUME ControlTypes, HostTypeOK, Control, Roles, NEW c \in Proc, HostExit(c)
  PROVE  HostMoves
<1> USE DEF ControlTypes, HostTypeOK, HostExit
<1>1. /\ child' = [child EXCEPT ![c] = "zombie"]
      /\ fifoFd' = [fifoFd EXCEPT ![c] = NoProc]
      /\ \A f \in Proc : fifo'[f] \in {fifo[f], {}}
  BY DEF ChildExit, CloseFifo
<1>2. pc[c] # "write_fifo"
  BY DEF Control, Roles, StartPcs, Alive, Outside, InJail
<1>3. \A q \in Proc : ProcessMoves(q)
  BY <1>1 DEF ProcessMoves, Alive, Started, Outside, InJail, Dead
<1>4. \A q \in Proc : FifoMoves(q)
  BY <1>1, <1>2 DEF FifoMoves
<1>5. Apart
  <2>1. child'[c] = "zombie"  BY <1>1
  <2> QED  BY <1>1, <2>1 DEF Apart
<1> QED  BY <1>3, <1>4, <1>5 DEF HostMoves, FileMoves

\* And so is every other.
LEMMA HostSteps ==
  ASSUME ControlTypes, Control, HostTypeOK, CommandsTypeOK, Recorded, Roles,
         UsingInv, [Next]_vars
  PROVE  HostMoves
<1> USE RuntimeStateAssumption DEF ControlTypes, MemType, ProcOrNone,
     CommandsTypeOK, HostTypeOK, Control, CreatePcs, OtherPcs, ExecPcs,
     PreFork, IsDelete, HostCalm, HostMoves, ProcessMoves, FifoMoves,
     ExecChildMoves, Waiting, Preparing, XOutside, XInJail,
     JailMoves, FileMoves, Apart, Marks, Alive, Started,
     Dead, Goto, Throw, Leave, End, ReleaseLock, hostVars,
     stateVars, dirVars, ctlVars, pipeVars, ChildGoto, XGoto, XThrow, IsExec,
     Detached, InJail, Outside
<1>1. ASSUME NEW p \in Proc, CommonStep(p) PROVE HostMoves
  <2>1. CASE Open(p)
    <3>1. HostCalm  BY <2>1 DEF Open, OpenLock
    <3> QED  BY <3>1, HostCalmed
  <2>2. CASE Flock(p)
    <3>1. HostCalm  BY <2>2 DEF Flock, TakeLock
    <3> QED  BY <3>1, HostCalmed
  <2>3. CASE LoadFails(p)
    <3>1. HostCalm  BY <2>3 DEF LoadFails
    <3> QED  BY <3>1, HostCalmed
  <2>4. CASE SaveBegin(p)
    <3>1. HostCalm  BY <2>4 DEF SaveBegin, Truncate
    <3> QED  BY <3>1, HostCalmed
  <2>5. CASE SaveEnd(p)
    <3>1. HostCalm  BY <2>5 DEF SaveEnd, Write, AfterSave
    <3> QED  BY <3>1, HostCalmed
  <2>6. CASE RemoveJail(p)
    <3>1. CASE jail = mem[p].of /\ child[mem[p].of] \in InJail
      <4>1. mem[p].of \in Proc
        BY <2>6 DEF RemoveJail, Roles, CleanupPcs, Recorded, UsingInv, Using,
                    Uses, HasLoaded, InFlight
      <4>2. HostExit(mem[p].of)
        BY <2>6, <3>1, <4>1 DEF RemoveJail, jail_remove, HostExit
      <4> QED  BY <4>1, <4>2, HostExited
    <3>2. CASE ~(jail = mem[p].of /\ child[mem[p].of] \in InJail)
      BY <2>6, <3>2 DEF RemoveJail, jail_remove
    <3> QED  BY <3>1, <3>2
  <2>7. CASE Unmount(p)
    <3>1. HostCalm  BY <2>7 DEF Unmount
    <3> QED  BY <3>1, HostCalmed
  <2>8. CASE RemoveBegin(p)
    <3>1. HostCalm  BY <2>8 DEF RemoveBegin, ListDir, AfterRemove
    <3> QED  BY <3>1, HostCalmed
  <2>9. CASE RemoveNext(p)
    <3>1. HostCalm  BY <2>9 DEF RemoveNext, Unlink
    <3> QED  BY <3>1, HostCalmed
  <2>10. CASE RemoveEnd(p)
    <3>1. HostCalm  BY <2>10 DEF RemoveEnd, RemoveDir, AfterRemove
    <3> QED  BY <3>1, HostCalmed
  <2>11. CASE Return(p)
    <3>1. HostCalm  BY <2>11 DEF Return
    <3> QED  BY <3>1, HostCalmed
  <2>12. CASE RemoveThrows(p)
    <3>1. HostCalm  BY <2>12 DEF RemoveThrows
    <3> QED  BY <3>1, HostCalmed
  <2> QED
    BY <1>1, <2>1, <2>2, <2>3, <2>4, <2>5, <2>6, <2>7, <2>8, <2>9, <2>10,
       <2>11, <2>12
       DEF CommonStep
<1>2. ASSUME NEW p \in Proc, CreateStep(p) PROVE HostMoves
  <2>1. CASE CreateCheck(p)
    <3>1. HostCalm  BY <2>1 DEF CreateCheck, SetStatus
    <3> QED  BY <3>1, HostCalmed
  <2>2. CASE CreateDirectory(p)
    <3>1. HostCalm  BY <2>2 DEF CreateDirectory, create_directories
    <3> QED  BY <3>1, HostCalmed
  <2>3. CASE CreateMount(p)
    <3>1. HostCalm  BY <2>3 DEF CreateMount
    <3> QED  BY <3>1, HostCalmed
  <2>4. CASE CreateJail(p)
    BY <2>4 DEF CreateJail, jail_create
  <2>5. CASE CreateFifo(p)
    BY <2>5 DEF CreateFifo, mkfifo
  <2>6. CASE Fork(p)
    <3>1. /\ pc[p] = "fork" /\ pc' = [pc EXCEPT ![p] = "save"]
          /\ \/ child' = [child EXCEPT ![p] = "pre_start"]
             \/ "fork" \in Faults /\ child' = [child EXCEPT ![p] = "unborn"]
          /\ child[p] = "none" /\ child' = [child EXCEPT ![p] = child'[p]]
          /\ UNCHANGED <<jail, fifo, fifoFd, fifoFile, xchild, report, json,
                         ran>>
      BY <2>6 DEF Fork
    <3>2. \A c \in Proc : ProcessMoves(c)
      BY <3>1
    <3>3. \A c \in Proc : FifoMoves(c)
      BY <3>1
    <3>4. FileMoves /\ \A c \in Proc : ExecChildMoves(c)
      BY <3>1
    <3> HIDE DEF ProcessMoves, FifoMoves, FileMoves, ExecChildMoves
    <3> QED  BY <3>1, <3>2, <3>3, <3>4
  <2>7. CASE CreateRuntime(p)
    <3>1. HostCalm  BY <2>7 DEF CreateRuntime, RunHooks
    <3> QED  BY <3>1, HostCalmed
  <2>8. CASE CreateUnlock(p)
    <3>1. HostCalm  BY <2>8 DEF CreateUnlock
    <3> QED  BY <3>1, HostCalmed
  <2>9. CASE CreateSignal(p)
    <3>1. HostCalm  BY <2>9 DEF CreateSignal
    <3> QED  BY <3>1, HostCalmed
  <2>10. CASE CreateAwait(p)
    <3>1. HostCalm  BY <2>10 DEF CreateAwait
    <3> QED  BY <3>1, HostCalmed
  <2> QED  BY <1>2, <2>1, <2>2, <2>3, <2>4, <2>5, <2>6, <2>7, <2>8, <2>9, <2>10
       DEF CreateStep
<1>3. ASSUME NEW p \in Proc, StartStep(p) PROVE HostMoves
  <2>1. CASE StartLoad(p)
    <3>1. HostCalm  BY <2>1 DEF StartLoad, SetStatus
    <3> QED  BY <3>1, HostCalmed
  <2>2. CASE StartPrestart(p)
    <3>1. HostCalm  BY <2>2 DEF StartPrestart, RunHooks
    <3> QED  BY <3>1, HostCalmed
  <2>3. CASE StartOpenFifo(p)
    BY <2>3 DEF StartOpenFifo, OpenFifo
  <2>4. CASE StartWriteFifo(p)
    BY <2>4 DEF StartWriteFifo
  <2>5. CASE StartCloseFifo(p)
    BY <2>5 DEF StartCloseFifo, CloseFifo
  <2>6. CASE StartPoststart(p)
    <3>1. HostCalm  BY <2>6 DEF StartPoststart, RunHooks
    <3> QED  BY <3>1, HostCalmed
  <2> QED  BY <1>3, <2>1, <2>2, <2>3, <2>4, <2>5, <2>6
       DEF StartStep
<1>4. ASSUME NEW p \in Proc, InspectStep(p) PROVE HostMoves
  <2>1. CASE ListExists(p)
    <3>1. HostCalm  BY <2>1 DEF ListExists
    <3> QED  BY <3>1, HostCalmed
  <2>2. CASE InspectLoad(p)
    <3>1. HostCalm  BY <2>2 DEF InspectLoad, LoadAndCheck, SetStatus, AfterSave
    <3> QED  BY <3>1, HostCalmed
  <2>3. CASE KillLoad(p)
    <3>1. HostCalm  BY <2>3 DEF KillLoad, LoadThen, load, SetStatus
    <3> QED  BY <3>1, HostCalmed
  <2>4. CASE KillSend(p)
    <3>1. CASE mem[p].of \in Proc /\ ChildExit(mem[p].of) /\ Alive(mem[p].of)
      <4>1. HostExit(mem[p].of)
        BY <2>4, <3>1 DEF KillSend, Kill, KillProcess, HostExit
      <4> QED  BY <3>1, <4>1, HostExited
    <3>2. CASE UNCHANGED hostVars
      <4>1. HostCalm  BY <2>4, <3>2 DEF KillSend, Kill
      <4> QED  BY <4>1, HostCalmed
    <3> QED  BY <2>4, <3>1, <3>2 DEF KillSend, Kill, KillProcess
  <2> QED  BY <1>4, <2>1, <2>2, <2>3, <2>4
       DEF InspectStep
<1>5. ASSUME NEW p \in Proc, DeleteStep(p) PROVE HostMoves
  <2>1. CASE DeleteExists(p)
    <3>1. HostCalm  BY <2>1 DEF DeleteExists
    <3> QED  BY <3>1, HostCalmed
  <2>2. CASE DeleteLoad(p)
    <3>1. HostCalm  BY <2>2 DEF DeleteLoad, LoadAndCheck, SetStatus, AfterSave
    <3> QED  BY <3>1, HostCalmed
  <2>3. CASE DeleteDecide(p)
    <3>1. CASE mem[p].of \in Proc /\ ChildExit(mem[p].of) /\ Alive(mem[p].of)
               /\ KillProcess(mem[p].of)
      <4>1. HostExit(mem[p].of)
        BY <2>3, <3>1 DEF DeleteDecide, Kill, KillProcess, HostExit
      <4> QED  BY <3>1, <4>1, HostExited
    <3>2. CASE UNCHANGED hostVars
      <4>1. HostCalm  BY <2>3, <3>2 DEF DeleteDecide, Kill
      <4> QED  BY <4>1, HostCalmed
    <3> QED  BY <2>3, <3>1, <3>2 DEF DeleteDecide, Kill, KillProcess
  <2>4. CASE DeletePoststop(p)
    <3>1. HostCalm  BY <2>4 DEF DeletePoststop, RunHooks
    <3> QED  BY <3>1, HostCalmed
  <2> QED  BY <1>5, <2>1, <2>2, <2>3, <2>4
       DEF DeleteStep
<1>6. ASSUME NEW p \in Proc, ChildStep(p) PROVE HostMoves
  <2>1. CASE ChildPreStart(p)
    <3>1. CASE ChildThrow(p)
      <4>1. HostExit(p)
        BY <2>1, <3>1 DEF ChildPreStart, ChildThrow, HostExit
      <4> QED  BY <4>1, HostExited
    <3>2. CASE ~ChildThrow(p)
      BY <2>1, <3>2 DEF ChildPreStart
    <3> QED  BY <3>1, <3>2
  <2>2. CASE ChildOpenFifo(p)
    <3>1. CASE ChildThrow(p)
      <4>1. HostExit(p)
        BY <2>2, <3>1 DEF ChildOpenFifo, ChildThrow, HostExit
      <4> QED  BY <4>1, HostExited
    <3>2. CASE ~ChildThrow(p)
      <4>1. pc[p] # "write_fifo"
        BY <2>2 DEF ChildOpenFifo, Roles, StartPcs
      <4> QED  BY <2>2, <3>2, <4>1 DEF ChildOpenFifo, OpenFifo
    <3> QED  BY <3>1, <3>2
  <2>3. CASE ChildWaitParent(p)
    BY <2>3, ZenonT(60) DEF ChildWaitParent
  <2>4. CASE ChildHooks(p)
    <3>1. /\ child[p] = "createContainer"
          /\ child' = [child EXCEPT ![p] = child'[p]]
          /\ child'[p] \in {"attach", "refused"}
          /\ \/ ran' = ran
             \/ ran' = ran \cup {<<"createContainer", mem[p].of, p>>}
      BY <2>4 DEF ChildHooks
    <3>2. /\ \/ report' = report
             \/ "hook" \in Faults /\ FirstReport(p, "failed")
          /\ UNCHANGED <<pc, cmd, jail, fifo, fifoFd, fifoFile, xchild, json>>
      BY <2>4 DEF ChildHooks
    <3>3. \A c \in Proc : ProcessMoves(c)
      BY <3>1, <3>2 DEF FirstReport
    <3>4. FileMoves /\ \A c \in Proc : FifoMoves(c)
      BY <3>1, <3>2
    <3>5. \A c \in Proc : ExecChildMoves(c)
      BY <3>2 DEF FirstReport
    <3>6. Apart
      BY <3>1, <3>2
    <3> HIDE DEF ProcessMoves, FifoMoves, FileMoves, ExecChildMoves, Apart
    <3> QED  BY <3>2, <3>3, <3>4, <3>5, <3>6
  <2>5. CASE ChildAttach(p)
    BY <2>5, ZenonT(60) DEF ChildAttach
  <2>6. CASE ChildValidate(p)
    <3>1. /\ child[p] = "validate"
          /\ child' = [child EXCEPT ![p] = child'[p]]
          /\ child'[p] \in {"valid", "invalid"}
          /\ UNCHANGED <<pc, cmd, jail, fifo, fifoFd, fifoFile, xchild, json,
                         report, ran>>
      BY <2>6 DEF ChildValidate
    <3>2. \A c \in Proc : ProcessMoves(c) /\ FifoMoves(c)
      BY <3>1
    <3>3. FileMoves /\ Apart /\ \A c \in Proc : ExecChildMoves(c)
      BY <3>1
    <3> HIDE DEF ProcessMoves, FifoMoves, FileMoves, ExecChildMoves, Apart
    <3> QED  BY <3>1, <3>2, <3>3
  <2>7. CASE ChildReport(p)
    <3>1. CASE ChildExit(p)
      <4>1. HostExit(p)
        BY <2>7, <3>1 DEF ChildReport, FirstReport, HostExit
      <4> QED  BY <4>1, HostExited
    <3>2. CASE ~ChildExit(p)
      BY <2>7, <3>2 DEF ChildReport, FirstReport
    <3> QED  BY <3>1, <3>2
  <2>8. CASE ChildWaitStart(p)
    <3>1. pc[p] # "write_fifo"
      BY <2>8 DEF ChildWaitStart, Roles, StartPcs
    <3>2. /\ fifoFd' = [fifoFd EXCEPT ![p] = NoProc]
          /\ \A f \in Proc : fifo'[f] \subseteq fifo[f]
          /\ fifo[fifoFd[p]] # {}
      BY <2>8 DEF ChildWaitStart
    <3>3. /\ child[p] = "wait_start"
          /\ child' = [child EXCEPT ![p] = "startContainer"]
          /\ UNCHANGED <<pc, cmd, jail, fifoFile, xchild, report, json, ran>>
      BY <2>8 DEF ChildWaitStart
    <3>4. \A c \in Proc : ProcessMoves(c)
      BY <3>2, <3>3
    <3>5. \A c \in Proc : FifoMoves(c)
      BY <3>1, <3>2, <3>3
    <3>6. FileMoves /\ \A c \in Proc : ExecChildMoves(c)
      BY <3>3
    <3> HIDE DEF ProcessMoves, FifoMoves, FileMoves, ExecChildMoves
    <3> QED  BY <3>3, <3>4, <3>5, <3>6
  <2>9. CASE ChildStartHooks(p)
    BY <2>9, ZenonT(60) DEF ChildStartHooks, RunHooks
  <2>10. CASE ChildExec(p)
    BY <2>10, ZenonT(60) DEF ChildExec
  <2> QED  BY <1>6, <2>1, <2>2, <2>3, <2>4, <2>5, <2>6, <2>7, <2>8, <2>9, <2>10
       DEF ChildStep
<1>7. ASSUME NEW p \in Proc, ExecStep(p) PROVE HostMoves
  <2>1. CASE ExecLoad(p)
    <3>1. HostCalm  BY <2>1 DEF ExecLoad, LoadThen, load, SetStatus
    <3> QED  BY <3>1, HostCalmed
  <2>2. CASE ExecFork(p)
    <3>1. HostCalm  BY <2>2 DEF ExecFork
    <3> QED  BY <3>1, HostCalmed
  <2>3. CASE ExecSignal(p)
    <3>1. HostCalm  BY <2>3 DEF ExecSignal
    <3> QED  BY <3>1, HostCalmed
  <2>4. CASE ExecAwait(p)
    <3>1. HostCalm  BY <2>4 DEF ExecAwait
    <3> QED  BY <3>1, HostCalmed
  <2>5. CASE ExecKilled(p)
    <3>1. HostCalm  BY <2>5 DEF ExecKilled
    <3> QED  BY <3>1, HostCalmed
  <2> QED  BY <1>7, <2>1, <2>2, <2>3, <2>4, <2>5
       DEF ExecStep
<1>8. ASSUME NEW p \in Proc, XStep(p) PROVE HostMoves
  <2>1. CASE XPreStart(p)
    <3>1. HostCalm  BY <2>1 DEF XPreStart
    <3> QED  BY <3>1, HostCalmed
  <2>2. CASE XWaitParent(p)
    <3>1. HostCalm  BY <2>2 DEF XWaitParent
    <3> QED  BY <3>1, HostCalmed
  <2>3. CASE XAttach(p)
    <3>1. HostCalm  BY <2>3 DEF XAttach
    <3> QED  BY <3>1, HostCalmed
  <2>4. CASE XValidate(p)
    <3>1. HostCalm  BY <2>4 DEF XValidate
    <3> QED  BY <3>1, HostCalmed
  <2>5. CASE XReport(p)
    <3>1. HostCalm  BY <2>5 DEF XReport, FirstReport
    <3> QED  BY <3>1, HostCalmed
  <2>6. CASE XExec(p)
    <3>1. HostCalm  BY <2>6 DEF XExec
    <3> QED  BY <3>1, HostCalmed
  <2> QED  BY <1>8, <2>1, <2>2, <2>3, <2>4, <2>5, <2>6
       DEF XStep
<1>9. ASSUME NEW p \in Proc, NEW c \in Cmds, Invoke(p, c) PROVE HostMoves
  <2>1. HostCalm  BY <1>9 DEF Invoke
  <2> QED  BY <2>1, HostCalmed
<1>10. ASSUME NEW p \in Proc, Crash(p) PROVE HostMoves
  <2>1. CASE cmd[p] = "start"
    <3>1. /\ fifoFd' = [fifoFd EXCEPT ![p] = NoProc]
          /\ \A f \in Proc : fifo'[f] \in {fifo[f], {}}
      BY <1>10, <2>1 DEF Crash, CloseFifo
    <3>2. /\ pc' = [pc EXCEPT ![p] = "done"]
          /\ UNCHANGED <<jail, fifoFile, child, report, json, ran>>
      BY <1>10 DEF Crash
    <3>3. \A c \in Proc : ProcessMoves(c)
      BY <3>2
    <3>4. \A c \in Proc : FifoMoves(c)
      BY <3>1, <3>2
    <3>5. FileMoves /\ \A c \in Proc : ExecChildMoves(c)
      BY <1>10, <2>1, <3>2 DEF Crash
    <3> HIDE DEF ProcessMoves, FifoMoves, FileMoves, ExecChildMoves
    <3> QED  BY <3>2, <3>3, <3>4, <3>5
  <2>2. CASE cmd[p] # "start"
    <3>1. HostCalm  BY <1>10, <2>2 DEF Crash
    <3> QED  BY <3>1, HostCalmed
  <2> QED  BY <2>1, <2>2
<1>11. ASSUME NEW p \in Proc, ProcessExit(p) PROVE HostMoves
  <2>1. HostExit(p)  BY <1>11 DEF ProcessExit, HostExit
  <2> QED  BY <2>1, HostExited
<1>12. ASSUME NEW p \in Proc, XExit(p) PROVE HostMoves
  <2>1. HostCalm  BY <1>12 DEF XExit
  <2> QED  BY <2>1, HostCalmed
<1>13. ASSUME NEW p \in Proc, Reap(p) PROVE HostMoves
  BY <1>13, ZenonT(60) DEF Reap
<1>14. CASE UNCHANGED vars
  <2>1. HostCalm  BY <1>14 DEF vars
  <2> QED  BY <2>1, HostCalmed
<1> QED  BY <1>1, <1>2, <1>3, <1>4, <1>5, <1>6, <1>7, <1>8, <1>9, <1>10,
       <1>11, <1>12, <1>13, <1>14 DEF Next, Step

-----------------------------------------------------------------------------
(* The byte of start.                                                      *)

\* The name start_wait denotes no FIFO but the container's own: that of
\* state.json, that of a command's state_, and that of a create.
OwnFifo(c) == fifoFile \in {NoProc, c}
FifoInv ==
  /\ json.of \in Proc => OwnFifo(json.of)
  /\ \A q \in Proc :
       /\ Using(q) /\ mem[q].of # NoProc => OwnFifo(mem[q].of)
       /\ cmd[q] = "create" /\ pc[q] \in {"fork", "save", "write"}
            => OwnFifo(q)

\* Every step preserves FifoInv: a FIFO is made by a create that has nobody
\* else about, before there is a state.json.
LEMMA FifoStep ==
  ASSUME Overlap = {}, ControlTypes, ControlTypes', Control, Roles, Recorded,
         DeletedInv, Serial, FileInv, FileInv', MakingInv, MakingInv', FifoInv,
         Kinds, FileMoves
  PROVE  FifoInv'
<1> USE RuntimeStateAssumption DEF OwnFifo
<1>1. ASSUME NEW p \in Proc, Kind(p) PROVE FifoInv'
  <2>1. cmd' = cmd /\ OnlyMoves(p)  BY <1>1, KindFlight
  <2>2. \A q \in Proc : InFlight(q)' => InFlight(q)  BY <1>1, KindFlight
  <2>3. CASE pc[p] = "mkfifo" /\ pc'[p] = "fork"
    <3>1. cmd[p] = "create" /\ InFlight(p) /\ InFlight(p)'
      BY <2>3 DEF Control, CreatePcs, InFlight
    <3>2. \A q \in Proc : InFlight(q)' => q = p
      BY <2>2, <3>1 DEF Serial
    <3>3. ~exists'
      BY <2>1, <2>3, <3>1 DEF MakingInv, Makes, Locking
    <3>4. json'.of = NoProc
      BY <3>3 DEF FileInv, NoFile
    <3>5. fifoFile' = p
      BY <2>3 DEF FileMoves
    <3> QED  BY <2>1, <3>1, <3>2, <3>4, <3>5
             DEF FifoInv, Using, InFlight, ControlTypes
  <2>4. CASE ~(pc[p] = "mkfifo" /\ pc'[p] = "fork")
    <3>1. fifoFile' \in {fifoFile, NoProc}
      BY <2>1, <2>4 DEF FileMoves, OnlyMoves
    <3>2. \A q \in Proc : Using(q)' => Using(q)
      BY <2>1, <2>2 DEF Using
    <3>3. ASSUME json'.of \in Proc PROVE OwnFifo(json'.of)
      <4>1. CASE Writes(p) /\ json'.of = mem[p].of
        <5>1. cmd[p] = "create" \/ Using(p)
          BY <4>1 DEF Writes, Using, InFlight
        <5> QED  BY <3>3, <4>1, <5>1 DEF FifoInv, Recorded, Writes
      <4>2. CASE json'.of = json.of
        BY <3>3, <4>2 DEF FifoInv
      <4> QED  BY <1>1, <3>3, <4>1, <4>2, Describes
    <3>4. ASSUME NEW q \in Proc, Using(q)', mem'[q].of # NoProc
          PROVE  OwnFifo(mem'[q].of)
      <4>1. CASE mem'[q].of = mem[q].of
        BY <3>2, <3>4, <4>1 DEF FifoInv
      <4>2. CASE mem'[q].of = json.of
        BY <3>4, <4>2 DEF FifoInv, ControlTypes, MemType, ProcOrNone
      <4>3. ~(p = q /\ Checks(p))
        BY <2>1, <3>4 DEF Checks, Using
      <4> QED  BY <1>1, <4>1, <4>2, <4>3, Describes
    <3>5. ASSUME NEW q \in Proc, cmd'[q] = "create",
                 pc'[q] \in {"fork", "save", "write"}
          PROVE  OwnFifo(q)
      <4>1. pc[q] \in {"fork", "save", "write"}
        BY <1>1, <2>1, <2>4, <3>5
           DEF Kind, Passes, Moves, CreateMoves, StartMoves, DeleteMoves,
               ExecMoves, OnlyMoves, Hooks, Opens, Locks, Loads, Truncates,
               Writes, Lists, Unlinks, Empties, Checks, MakesDir, AfterSave,
               Control, OtherPcs, ControlTypes, IsDelete
      <4> QED  BY <2>1, <3>5, <4>1 DEF FifoInv
    <3> QED  BY <3>1, <3>3, <3>4, <3>5 DEF FifoInv
  <2> QED  BY <2>3, <2>4
<1>2. ASSUME NEW p \in Proc, Begins(p) PROVE FifoInv'
  <2>1. /\ UNCHANGED <<json, mem>>
        /\ \A q \in Proc \ {p} : pc'[q] = pc[q] /\ cmd'[q] = cmd[q]
        /\ pc[p] = "idle" /\ pc'[p] \in {"check", "exists", "open"}
    BY <1>2 DEF Begins, Invoke, stateVars, dirVars, ControlTypes
  <2>2. fifoFile' \in {fifoFile, NoProc}
    BY <2>1 DEF FileMoves
  <2>3. mem[p].of = NoProc
    BY <2>1 DEF DeletedInv, Unloaded, Control
  <2> QED  BY <2>1, <2>2, <2>3 DEF FifoInv, Using, InFlight
<1>3. CASE UNCHANGED vars
  BY <1>3 DEF FifoInv, vars, stateVars, dirVars, ctlVars, Using, InFlight
<1> QED  BY <1>1, <1>2, <1>3 DEF Kinds

\* A start has the FIFO of its container open, or none, and only after the
\* prestart hooks; so a byte in a FIFO says that they have run.
ByteInv ==
  /\ \A q \in Proc :
       /\ cmd[q] # "create" => fifoFd[q] \in {NoProc, mem[q].of}
       /\ pc[q] \in StartPcs \ {"prestart"} => RunsHook("prestart", mem[q].of)
       /\ pc[q] = "write_fifo" => fifoFd[q] # NoProc
  /\ \A f \in Proc : fifo[f] # {} => RunsHook("prestart", f)

\* Every step preserves ByteInv.
LEMMA ByteStep ==
  ASSUME ControlTypes, ControlTypes', Control, Roles, DeletedInv, UsingInv,
         FifoInv, ByteInv, fifo \in [Proc -> SUBSET Proc], Kinds,
         \A c \in Proc : FifoMoves(c)
  PROVE  ByteInv'
<1> USE RuntimeStateAssumption
<1>1. ASSUME NEW p \in Proc, Kind(p) PROVE ByteInv'
  <2>1. cmd' = cmd /\ OnlyMoves(p)  BY <1>1, KindFlight
  <2>2. \A c \in Proc : RunsHook("prestart", c) => RunsHook("prestart", c)'
    BY <1>1, KindHooks DEF RunsHook
  <2>3. ASSUME NEW q \in Proc, cmd[q] # "create"
        PROVE  fifoFd'[q] \in {NoProc, mem'[q].of}
    <3>1. CASE mem'[q].of = mem[q].of
      <4>1. CASE fifoFd'[q] \in {fifoFd[q], NoProc}
        BY <2>3, <3>1, <4>1 DEF ByteInv
      <4>2. CASE pc[q] = "open_fifo" /\ fifoFd'[q] = fifoFile
        <5>1. Using(q) /\ mem[q].of \in Proc
          BY <2>3, <4>2 DEF Using, InFlight, UsingInv, Uses, HasLoaded
        <5> QED  BY <3>1, <4>2, <5>1 DEF FifoInv, OwnFifo
      <4>3. child[q] # "open_fifo"
        BY <2>3 DEF Control
      <4> QED  BY <4>1, <4>2, <4>3 DEF FifoMoves
    <3>2. CASE mem'[q].of # mem[q].of
      <4>1. p = q /\ Loads(p)
        BY <1>1, <2>3, <3>2, Describes DEF Checks
      <4>2. mem[q].of = NoProc
        BY <2>3, <4>1 DEF Loads, DeletedInv, Unloaded
      <4>3. child[q] # "open_fifo" /\ pc[q] = "load"
        BY <2>3, <4>1 DEF Control, Loads
      <4> QED  BY <2>3, <4>2, <4>3 DEF ByteInv, FifoMoves
    <3> QED  BY <3>1, <3>2
  <2>4. ASSUME NEW q \in Proc, pc'[q] \in StartPcs \ {"prestart"}
        PROVE  RunsHook("prestart", mem[q].of)'
    <3>1. \/ pc[q] \in StartPcs \ {"prestart"}
          \/ p = q /\ Hooks(p, "prestart", "open_fifo")
      BY <1>1, <2>1, <2>4
         DEF Kind, Passes, Moves, CreateMoves, StartMoves, DeleteMoves,
             ExecMoves, OnlyMoves, Hooks, Opens, Locks, Loads, Truncates,
             Writes, Lists, Unlinks, Empties, Checks, MakesDir, AfterSave,
             StartPcs
    <3>2. mem'[q].of = mem[q].of
      BY <1>1, <3>1, Describes DEF StartPcs, Loads, Checks, Hooks
    <3>3. CASE pc[q] \in StartPcs \ {"prestart"}
      <4>1. RunsHook("prestart", mem[q].of)  BY <3>3 DEF ByteInv
      <4>2. mem[q].of \in Proc
        <5>1. Using(q)  BY <3>3 DEF StartPcs, Roles, Using, InFlight
        <5> QED  BY <3>3, <5>1 DEF StartPcs, UsingInv, Uses, HasLoaded
      <4>3. RunsHook("prestart", mem[q].of)'
        <5>1. PICK c \in Proc : c = mem[q].of  BY <4>2
        <5> QED  BY <2>2, <3>2, <4>1, <5>1 DEF RunsHook
      <4> QED  BY <4>3
    <3>4. CASE p = q /\ Hooks(p, "prestart", "open_fifo")
      BY <3>2, <3>4 DEF Hooks, RunsHook
    <3> QED  BY <3>1, <3>3, <3>4
  <2>5. ASSUME NEW q \in Proc, pc'[q] = "write_fifo"
        PROVE  fifoFd'[q] # NoProc
    BY <2>5 DEF ByteInv, FifoMoves
  <2>6. ASSUME NEW f \in Proc, fifo'[f] # {}
        PROVE  RunsHook("prestart", f)'
    <3>1. CASE fifo[f] # {}
      BY <2>2, <3>1 DEF ByteInv
    <3>2. CASE \E q \in Proc : pc[q] = "write_fifo" /\ fifoFd[q] = f
      <4>1. PICK q \in Proc : pc[q] = "write_fifo" /\ fifoFd[q] = f
        BY <3>2
      <4>2. RunsHook("prestart", f)
        BY <4>1 DEF ByteInv, Roles, StartPcs
      <4> QED  BY <2>2, <4>2
    <3>3. fifo'[f] \subseteq
            fifo[f] \cup {q \in Proc : pc[q] = "write_fifo" /\ fifoFd[q] = f}
      BY DEF FifoMoves
    <3> QED  BY <2>6, <3>1, <3>2, <3>3
  <2> QED  BY <2>1, <2>3, <2>4, <2>5, <2>6 DEF ByteInv
<1>2. ASSUME NEW p \in Proc, Begins(p) PROVE ByteInv'
  <2>1. /\ UNCHANGED <<mem, fifo, fifoFd, ran>>
        /\ \A q \in Proc \ {p} : pc'[q] = pc[q] /\ cmd'[q] = cmd[q]
        /\ pc[p] = "idle" /\ pc'[p] \in {"check", "exists", "open"}
    BY <1>2 DEF Begins, Invoke, stateVars, hostVars, ControlTypes
  <2>2. cmd[p] # "create"  BY <2>1 DEF Control
  <2> QED  BY <2>1, <2>2 DEF ByteInv, StartPcs, RunsHook
<1>3. CASE UNCHANGED vars
  BY <1>3 DEF ByteInv, vars, stateVars, hostVars, ctlVars, RunsHook
<1> QED  BY <1>1, <1>2, <1>3 DEF Kinds

\* Every step preserves StartBeforeRun: the container process goes on with a
\* byte from the FIFO it has open, and that is its own.
LEMMA RunStep ==
  ASSUME WaitInv, ByteInv, StartBeforeRun, Kinds,
         \A c \in Proc : ProcessMoves(c)
  PROVE  StartBeforeRun'
<1> SUFFICES ASSUME NEW c \in Proc, child'[c] \in Started
             PROVE  RunsHook("prestart", c)'
  BY DEF StartBeforeRun, Started
<1>1. RunsHook("prestart", c)
  <2>1. CASE child[c] \in Started
    BY <2>1 DEF StartBeforeRun, Started
  <2>2. CASE child[c] = "wait_start" /\ fifo[fifoFd[c]] # {}
    BY <2>2 DEF WaitInv, AtFifo, ByteInv
  <2> QED  BY <2>1, <2>2 DEF ProcessMoves
<1>2. CASE \E p \in Proc : Kind(p)
  BY <1>1, <1>2, KindHooks DEF RunsHook
<1>3. CASE ran' = ran
  BY <1>1, <1>3 DEF RunsHook
<1> QED  BY <1>2, <1>3 DEF Kinds, Begins, Invoke, vars

-----------------------------------------------------------------------------
(* The status of a detached exec.                                          *)

\* A detached exec that has forked has a child that is on its way, or its
\* status; a child that is about to call execve() has reported.
ExecInv ==
  \A p \in Proc :
    /\ cmd[p] = "exec_detached" /\ xchild[p] = "exec" => report[p] # "none"
    /\ pc[p] \in Waiting =>
         /\ cmd[p] = "exec_detached"
         /\ \/ xchild[p] \in Preparing \/ report[p] # "none"
            \/ Faults \cap {"pre_start", "fork"} # {}

\* A delete does not remove the jail while an exec waits: both keep the lock.
LEMMA JailStays ==
  ASSUME ControlTypes, Control, Roles, Serial, UsingInv, EndedInv,
         NEW p \in Proc, pc[p] \in Waiting, cmd[p] = "exec_detached",
         xchild[p] \in Preparing,
         NEW r \in Proc, pc[r] = "remove_jail", mem[r].of = mem[p].of,
         jail = mem[r].of
  PROVE  FALSE
<1>1. Using(p) /\ Keeps(p)
  BY DEF Waiting, Using, InFlight, Keeps, Critical, LockedPcs, HadHooks,
         Preparing, XOutside, XInJail
<1>2. cmd[r] # "create"
  BY <1>1 DEF Serial, Using, InFlight, Waiting
<1>3. Using(r) /\ Keeps(r)
  BY <1>2, Keeping
<1>4. HasLoaded(r) /\ mem[r].of \in Proc /\ IsDelete(r)
  BY <1>2, <1>3 DEF HasLoaded, UsingInv, Uses, Roles, CleanupPcs
<1>5. Original /\ ~Removed(json.ino)
  BY <1>3, <1>4, OnOriginal DEF EndedInv
<1>6. p = r
  BY <1>1, <1>3, <1>5, Exclusion
<1> QED  BY <1>6 DEF Waiting

\* Every step preserves ExecInv.
LEMMA ExecStatusStep ==
  ASSUME ControlTypes, ControlTypes', Control, Control', Roles, Serial,
         UsingInv, EndedInv, ExecInv, Kinds, \A p \in Proc : ExecChildMoves(p)
  PROVE  ExecInv'
<1>1. ASSUME NEW p \in Proc, cmd'[p] = cmd[p]
      PROVE  /\ cmd'[p] = "exec_detached" /\ xchild'[p] = "exec" =>
                  report'[p] # "none"
             /\ pc'[p] \in Waiting =>
                  /\ cmd'[p] = "exec_detached"
                  /\ \/ xchild'[p] \in Preparing \/ report'[p] # "none"
                     \/ Faults \cap {"pre_start", "fork"} # {}
  <2>1. cmd'[p] = "exec_detached" /\ xchild'[p] = "exec" =>
          report'[p] # "none"
    BY <1>1 DEF ExecInv, ExecChildMoves
  <2>2. ASSUME pc'[p] \in Waiting, pc[p] \notin Waiting
        PROVE  /\ cmd[p] = "exec_detached"
               /\ xchild'[p] \in Preparing \/ "fork" \in Faults
    BY <2>2 DEF ExecChildMoves, Preparing, XOutside
  <2>3. ASSUME pc[p] \in Waiting
        PROVE  /\ cmd[p] = "exec_detached"
               /\ \/ xchild'[p] \in Preparing \/ report'[p] # "none"
                  \/ Faults \cap {"pre_start", "fork"} # {}
    <3>1. cmd[p] = "exec_detached"  BY <2>3 DEF ExecInv
    <3>2. CASE report[p] # "none" \/ Faults \cap {"pre_start", "fork"} # {}
      BY <3>1, <3>2 DEF ExecChildMoves
    <3>3. CASE xchild[p] \in Preparing /\ report[p] = "none"
      <4>1. xchild[p] # "exec"
        BY <3>1, <3>3 DEF ExecInv
      <4>2. ~\E r \in Proc : /\ pc[r] = "remove_jail" /\ jail = mem[r].of
                             /\ mem[r].of = mem[p].of
        BY <2>3, <3>1, <3>3, JailStays
      <4> QED  BY <3>1, <3>3, <4>1, <4>2 DEF ExecChildMoves
    <3> QED  BY <2>3, <3>1, <3>2, <3>3 DEF ExecInv
  <2> QED  BY <1>1, <2>1, <2>2, <2>3
<1>2. ASSUME NEW p \in Proc, Kind(p) PROVE ExecInv'
  BY <1>1, <1>2, KindFlight DEF ExecInv
<1>3. ASSUME NEW p \in Proc, Begins(p) PROVE ExecInv'
  <2>1. /\ \A q \in Proc \ {p} : cmd'[q] = cmd[q]
        /\ pc[p] = "idle" /\ pc'[p] \in {"check", "exists", "open"}
        /\ xchild' = xchild
    BY <1>3 DEF Begins, Invoke, hostVars, ControlTypes
  <2>2. xchild'[p] # "exec" /\ pc'[p] \notin Waiting
    BY <2>1 DEF Control, ExecPcs, Waiting
  <2>3. \A q \in Proc : cmd'[q] = cmd[q] \/ q = p
    BY <2>1
  <2> QED  BY <1>1, <2>2, <2>3 DEF ExecInv
<1>4. CASE UNCHANGED vars
  BY <1>4 DEF ExecInv, vars, hostVars, ctlVars
<1> QED  BY <1>2, <1>3, <1>4 DEF Kinds

-----------------------------------------------------------------------------
(* The theorems.                                                           *)

\* All of the above, and what it rests on.
ContainerInv ==
  OnlyOnceInv /\ FifoInv /\ ByteInv /\ StartBeforeRun /\ ExecInv

\* It holds of every instance in which nothing overlaps with a create, and
\* every step is one of HostMoves.
LEMMA ContainerInvariant ==
  ASSUME Overlap = {}
  PROVE  Spec => []ContainerInv
<1> USE RuntimeStateAssumption
<1>1. Init => FifoInv /\ ByteInv /\ StartBeforeRun /\ ExecInv
  BY DEF Init, StateInit, HostInit, CommandsInit, FifoInv, OwnFifo, Using,
         InFlight, ByteInv, StartPcs, StartBeforeRun, ExecInv, Waiting
<1>2. ContainerInv /\ OnlyOnceInv' /\ [Next]_vars => ContainerInv'
  <2> SUFFICES ASSUME ContainerInv, OnlyOnceInv', [Next]_vars
               PROVE  ContainerInv'
    OBVIOUS
  <2> USE DEF ContainerInv, OnlyOnceInv, LockingInv
  <2>1. Kinds  BY StepKinds DEF TypeOK
  <2>2. HostMoves  BY HostSteps DEF TypeOK
  <2>3. FifoInv'  BY <2>1, <2>2, FifoStep DEF HostMoves
  <2>4. ByteInv'  BY <2>1, <2>2, ByteStep DEF HostMoves, TypeOK, HostTypeOK
  <2>5. StartBeforeRun'  BY <2>1, <2>2, RunStep DEF HostMoves
  <2>6. ExecInv'  BY <2>1, <2>2, ExecStatusStep DEF HostMoves
  <2> QED  BY <2>3, <2>4, <2>5, <2>6
<1> QED  BY <1>1, <1>2, OnlyOnceInvariant, PTL DEF Spec, ContainerInv

\* StartBeforeRun holds of every instance in which nothing overlaps with a
\* create: the user's command never runs in a container that nobody started.
THEOREM StartBeforeRunAlways ==
  ASSUME Overlap = {}
  PROVE  Spec => []StartBeforeRun
BY ContainerInvariant, PTL DEF ContainerInv

\* ExecStatusCanCome holds of every instance in which nothing overlaps with a
\* create: a delete does not take the child from a detached exec that waits
\* for it with the lock held.
THEOREM ExecStatusCanComeAlways ==
  ASSUME Overlap = {}
  PROVE  Spec => []ExecStatusCanCome
<1>1. ContainerInv => ExecStatusCanCome
  BY DEF ContainerInv, ExecInv, ExecStatusCanCome, Waiting
<1> QED  BY <1>1, ContainerInvariant, PTL
=============================================================================
