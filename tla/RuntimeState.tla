---------------------------- MODULE RuntimeState ----------------------------
(***************************************************************************)
(* The on-disk record of one container id: class runtime_state of main.h   *)
(* and main.cpp.  It is a directory that holds state.json, state.lock and  *)
(* the FIFO start_wait.  Every ocijail command is a process of its own, so *)
(* the directory and the flock on state.lock are all that two commands     *)
(* share.                                                                  *)
(*                                                                         *)
(* An element of Proc is one invocation of ocijail.  The files, the        *)
(* container, the jail and the container process that an invocation makes  *)
(* are named by that invocation, so no counter is needed to tell two       *)
(* generations of the same id apart.                                       *)
(***************************************************************************)

CONSTANTS Proc,     \* invocations of ocijail on the modelled container id
          NoProc    \* no invocation

ASSUME RuntimeStateAssumption == NoProc \notin Proc

VARIABLES
  dir,        \* does the state directory exist?
  json,       \* the directory entry state.json
  lockFile,   \* the inode that the entry state.lock names, or NoProc
  fifoFile,   \* the FIFO that the entry start_wait names, or NoProc
  fd,         \* fd[p]: the state.lock inode that p has open, or NoProc
  holder,     \* holder[i]: whose open of lock inode i holds the flock
  listing,    \* listing[p]: names that p's remove_all() has yet to unlink
  mem         \* mem[p]: p's state_ member, and the inode its save() writes

dirVars   == <<dir, json, lockFile, fifoFile, listing>>
stateVars == <<dirVars, fd, holder, mem>>

ProcOrNone == Proc \cup {NoProc}
Name       == {"state.json", "state.lock", "start_wait"}
Status     == {"none", "created", "running", "stopped"}

(* json.torn: the file was truncated and its new contents are not there    *)
(* yet; of and status then keep what the file last held.                   *)
NoFile == [ino |-> NoProc, of |-> NoProc, status |-> "none", torn |-> FALSE]
NoMem  == [of |-> NoProc, status |-> "none", out |-> NoProc]

StateTypeOK ==
  /\ dir \in BOOLEAN
  /\ json \in [ino: ProcOrNone, of: ProcOrNone, status: Status, torn: BOOLEAN]
  /\ lockFile \in ProcOrNone
  /\ fifoFile \in ProcOrNone
  /\ fd \in [Proc -> ProcOrNone]
  /\ holder \in [Proc -> ProcOrNone]
  /\ listing \in [Proc -> SUBSET Name]
  /\ mem \in [Proc -> [of: ProcOrNone, status: Status, out: ProcOrNone]]

StateInit ==
  /\ dir = FALSE
  /\ json = NoFile
  /\ lockFile = NoProc
  /\ fifoFile = NoProc
  /\ fd = [p \in Proc |-> NoProc]
  /\ holder = [i \in Proc |-> NoProc]
  /\ listing = [p \in Proc |-> {}]
  /\ mem = [p \in Proc |-> NoMem]

-----------------------------------------------------------------------------
(* Predicates of the current state.                                        *)

\* runtime_state::exists(): state.json is a regular file.
exists == json.ino # NoProc

\* load() parses state.json: the directory, the file and all its text are
\* there.  Otherwise it throws.
Readable == dir /\ exists /\ ~json.torn

\* check_status() looks at the process of these states only.
Live(st) == st \in {"created", "running"}

\* The flocks once p's open of state.lock is unlocked.  LOCK_UN by any
\* process that shares the open, or its last close, has this effect.
Unlocked(p) == [i \in Proc |-> IF holder[i] = p THEN NoProc ELSE holder[i]]

-----------------------------------------------------------------------------
(* Steps.  Each says what happens to all of stateVars.                     *)

\* open(state.lock, O_RDWR | O_CREAT) in create() and lock(): the inode that
\* the name denotes now, or a new one.  Without the directory open() fails.
OpenLock(p) ==
  /\ dir
  /\ lockFile' = IF lockFile = NoProc THEN p ELSE lockFile
  /\ fd' = [fd EXCEPT ![p] = lockFile']
  /\ UNCHANGED <<dir, json, fifoFile, listing, holder, mem>>

\* Mutant of TakeLock: LOCK_SH in place of LOCK_EX.
TakeLockShared(p) ==
  /\ holder' = [holder EXCEPT ![fd[p]] = p]
  /\ UNCHANGED <<dirVars, fd, mem>>

\* flock(LOCK_EX) returns: nobody else's open holds this inode's lock.  The
\* inode may have lost its name while p waited.
TakeLock(p) ==
  /\ holder[fd[p]] = NoProc
  /\ holder' = [holder EXCEPT ![fd[p]] = p]
  /\ UNCHANGED <<dirVars, fd, mem>>

\* locked_state::unlock(), from create or from ~locked_state().
ReleaseLock(p) ==
  /\ holder' = Unlocked(p)
  /\ UNCHANGED <<dirVars, fd, mem>>

\* Mutant of SetStatus: a status that no other command knows.
SetStatusMisspelt(p, c, st) ==
  mem' = [mem EXCEPT ![p].of = c,
                     ![p].status = IF st = "stopped" THEN "exited" ELSE st]

SetStatus(p, c, st) == mem' = [mem EXCEPT ![p].of = c, ![p].status = st]

\* load() succeeds.
load(p) ==
  /\ Readable
  /\ SetStatus(p, json.of, json.status)
  /\ UNCHANGED <<dirVars, fd, holder>>

\* First half of save(): the ofstream truncates or creates state.json.  With
\* the directory gone the stream fails, and nobody looks.
Truncate(p) ==
  /\ json' = CASE ~dir         -> json
               [] dir /\ exists  -> [json EXCEPT !.torn = TRUE]
               [] dir /\ ~exists -> [NoFile EXCEPT !.ino = p, !.torn = TRUE]
  /\ mem' = [mem EXCEPT ![p].out = json'.ino]
  /\ UNCHANGED <<dir, lockFile, fifoFile, listing, fd, holder>>

\* Mutant of Write: the text stays in the stream's buffer.
WriteUnflushed(p) ==
  /\ mem' = [mem EXCEPT ![p].out = NoProc]
  /\ UNCHANGED <<dirVars, fd, holder>>

\* Second half of save(): the text reaches the inode opened by the first
\* half, which state.json may no longer name.
Write(p) ==
  /\ json' = IF exists /\ json.ino = mem[p].out
             THEN [ino |-> json.ino, of |-> mem[p].of,
                   status |-> mem[p].status, torn |-> FALSE]
             ELSE json
  /\ mem' = [mem EXCEPT ![p].out = NoProc]
  /\ UNCHANGED <<dir, lockFile, fifoFile, listing, fd, holder>>

Entries == {n \in Name : \/ n = "state.json" /\ exists
                         \/ n = "state.lock" /\ lockFile # NoProc
                         \/ n = "start_wait" /\ fifoFile # NoProc}

\* remove_all() is fs::remove_all, which looks at no lock: it reads the
\* directory once, unlinks what it found one name after the other, in
\* whatever order, and removes the directory.  A name that has gone by then
\* is no error.
ListDir(p) ==
  /\ dir
  /\ listing' = [listing EXCEPT ![p] = Entries]
  /\ UNCHANGED <<dir, json, lockFile, fifoFile, fd, holder, mem>>

Unlink(p) ==
  /\ \E n \in listing[p] :
       /\ listing' = [listing EXCEPT ![p] = @ \ {n}]
       /\ json' = IF n = "state.json" THEN NoFile ELSE json
       /\ lockFile' = IF n = "state.lock" THEN NoProc ELSE lockFile
       /\ fifoFile' = IF n = "start_wait" THEN NoProc ELSE fifoFile
  /\ UNCHANGED <<dir, fd, holder, mem>>

\* The final rmdir().  Whoever was still unlinking from this directory has
\* no names left to find.
RemoveDir(p) ==
  /\ listing[p] = {} /\ Entries = {}
  /\ dir' = FALSE
  /\ listing' = [q \in Proc |-> {}]
  /\ UNCHANGED <<json, lockFile, fifoFile, mem>>

create_directories ==
  /\ dir' = TRUE
  /\ UNCHANGED <<json, lockFile, fifoFile, listing, fd, holder, mem>>

\* mkfifo(start_wait): fails if the directory is gone or the name is taken.
mkfifo(p) ==
  /\ dir /\ fifoFile = NoProc
  /\ fifoFile' = p
  /\ UNCHANGED <<dir, json, lockFile, listing, fd, holder, mem>>
=============================================================================
