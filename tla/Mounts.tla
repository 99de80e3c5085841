------------------------------- MODULE Mounts -------------------------------
(***************************************************************************)
(* The volumes of one container in detail (mount.cpp, and the part of      *)
(* create.cpp and delete.cpp that calls it): where a destination is in the *)
(* root file system, the mount points that are made for it and recorded in *)
(* remove_on_unmount, file mounts done by copying, the read-only alias of  *)
(* the root, and the way back.  Host sees all of it as one set, mounted.   *)
(*                                                                         *)
(* A path is a sequence of elements; "/" comes first in an absolute one.   *)
(* Paths of the host start with "root", where the container's root is.     *)
(* Paths have no element "." and no trailing slash, and no volume is       *)
(* mounted inside another.                                                 *)
(***************************************************************************)
EXTENDS Naturals, SequencesExt

CONSTANTS
  Trees,       \* what the root may hold at first, see IsTree
  Lists,       \* the arrays "mounts" that the configuration may have
  Faults,      \* what may go wrong, or get in the way
  MaxSymlinks  \* MAXSYMLINKS

FaultKind == {"mount",        \* nmount(), or the copy of a file, fails
              "unmount",      \* unmount() of a volume fails
              "unmount_root", \* unmount() of the read-only root fails
              "write",        \* the container makes a file in its root
              "source"}       \* the file that was mounted goes away

ASSUME MountsAssumption ==
  Faults \subseteq FaultKind /\ MaxSymlinks \in Nat \ {0}

\* Elements of paths, and contents of files: STRING, and it is written out
\* which strings the definitions below make.
Word ==
  STRING \cup {"root", ".save", "new", "ELOOP", "empty", "copy", "user"}
Path == Seq(Word)

VARIABLES
  config,     \* tree: the root at first.  mounts: the volumes.  readonly:
              \* is the root?  files: does the kernel mount files?
  fs,         \* the root as it is below the volumes: a function from paths
  mnt,        \* <<p, n>>: the n-th volume is mounted on path p
  alias,      \* is the read-only alias of the root mounted?
  recorded,   \* state["remove_on_unmount"]
  supported,  \* state["file_mount_supported"], a JSON value
  tries,      \* the local variable file_mount_supported of mount_volumes
  step,       \* where create, or the unmounting, is
  i,          \* the volume it is at
  todo,       \* the paths that it has yet to remove
  up,         \* did create get past its mounts?
  failed,     \* does unmount_volumes() have an exception to throw?
  gone        \* have the files that were mounted gone?

vars == <<config, fs, mnt, alias, recorded, supported, tries, step, i, todo,
          up, failed, gone>>
localVars == <<tries, up, gone>>

-----------------------------------------------------------------------------
(* Trees.                                                                  *)

Root == <<"root">>

Dir == [kind |-> "dir"]
File(d) == [kind |-> "file", data |-> d]
Link(p) == [kind |-> "link", to |-> p]

Is(t, p, k) == p \in DOMAIN t /\ t[p].kind = k

Node == {Dir} \cup [kind: {"file"}, data: Word]
              \cup [kind: {"link"}, to: Path]

IsTree(t) ==
  /\ DOMAIN t \subseteq Path \ {<<>>} /\ t \in [DOMAIN t -> Node]
  /\ Is(t, Root, "dir")
  /\ \A p \in DOMAIN t \ {Root} : Is(t, Front(p), "dir")

With(t, p, n) == [q \in DOMAIN t \cup {p} |-> IF q = p THEN n ELSE t[q]]
Without(t, S) == [q \in DOMAIN t \ S |-> t[q]]

\* p and the directories above it, the root not included.
UpTo(p) == {SubSeq(p, 1, n) : n \in 2..Len(p)}

\* The volumes on p; the last one is on top.
On(p) == {n \in 1..Len(config.mounts) : <<p, n>> \in mnt}

StrictlyBelow(p, q) == p # q /\ IsPrefix(p, q)

\* get_save_path()
SaveDir(p)  == Append(Front(p), ".save")
SavePath(p) == Append(SaveDir(p), Last(p))

-----------------------------------------------------------------------------
(* resolve_container_path(): the recursion is on the targets of links.     *)

ELOOP == <<"ELOOP">>

Absolute(p) == p # <<>> /\ Head(p) = "/"

\* Mutant of Into: ".." is not held back at the root.
IntoPastRoot(at, e) ==
  CASE e = "/"              -> Root
    [] e = ".."             -> Front(at)
    [] e \notin {"/", ".."} -> Append(at, e)

Into(at, e) ==
  CASE e = "/"                    -> Root
    [] e = ".." /\ at = Root      -> Root
    [] e = ".." /\ at # Root      -> Front(at)
    [] e \notin {"/", ".."}       -> Append(at, e)

\* Mutant of From: an absolute target is looked up next to the link.
FromLink(at, target) == at

\* Where the target of a link is looked up.
From(at, target) == IF Absolute(target) THEN Root ELSE at

\* What a resolution looks at.
Links(t) == [p \in {q \in DOMAIN t : Is(t, q, "link")} |-> t[p].to]

\* A call: how deep it is in links, resolved_path and path.
Call == [depth: Nat, at: Path, path: Path]
CallOf(d, a, p) == [depth |-> d, at |-> a, path |-> p]

resolve_container_path_impl(links) ==
  LET impl[c \in Call] ==
        IF c.depth >= MaxSymlinks THEN ELOOP
        ELSE IF c.path = <<>> THEN c.at
        ELSE LET tmp  == Into(c.at, Head(c.path))
                 next == IF tmp \notin DOMAIN links THEN tmp
                         ELSE LET to == links[tmp] IN
                              impl[CallOf(c.depth + 1, From(c.at, to),
                                     IF Absolute(to) THEN Tail(to) ELSE to)]
             IN IF next = ELOOP THEN ELOOP
                ELSE impl[CallOf(c.depth, next, Tail(c.path))]
  IN impl

resolve_container_path(t, path) ==
  resolve_container_path_impl(Links(t))[CallOf(0, Root, path)]

\* The names that ocijail makes for itself and that the container makes in
\* its root, ".save-<id>" and "new" here, are in no path to begin with.
Clean == {p \in Path : \A n \in DOMAIN p : p[n] \notin {".save", "new"}}
Place == {p \in Clean : p # <<>> /\ Head(p) = "root"}

ASSUME TreesAssumption ==
  \A t \in Trees :
    /\ IsTree(t) /\ DOMAIN t \subseteq Place
    /\ \A p \in DOMAIN t : Is(t, p, "link") => t[p].to \in Clean
ASSUME ListsAssumption ==
  Lists \subseteq Seq([dest: Clean, type: STRING, source: STRING])

-----------------------------------------------------------------------------
(* create_mount_point()                                                    *)

Volume == config.mounts[i]
Destination == resolve_container_path(fs, Volume.dest)

\* "bind" is taken for "nullfs" when a volume is mounted, not when it is
\* unmounted.  is_regular_file(source) is asked each time.
IsFileMount == Volume.type \in {"nullfs", "bind"} /\ Volume.source = "file"
IsFileUnmount ==
  Volume.type = "nullfs" /\ Volume.source = "file" /\ ~gone

\* Mutant of Missing: the directories above are taken to be there.
MissingLast(d, file) == {IF file THEN Front(d) ELSE d} \ DOMAIN fs

\* The directories that create_directories() makes for d.
Missing(d, file) == UpTo(IF file THEN Front(d) ELSE d) \ DOMAIN fs

\* Mutant of Records: only the mount point itself is recorded.
RecordsLast(d, file) == IF d \in DOMAIN fs THEN {} ELSE {d}

\* What is recorded for it before anything is made, and what is made: the
\* file only if its directory is one, the ofstream is not looked at.
Records(d, file) ==
  IF d \in DOMAIN fs THEN {}
  ELSE Missing(d, file) \cup IF file THEN {d} ELSE {}

MountPoint(d, file) ==
  LET made == [q \in DOMAIN fs \cup Missing(d, file) |->
                 IF q \in DOMAIN fs THEN fs[q] ELSE Dir]
  IN IF file /\ d \notin DOMAIN fs /\ Is(made, Front(d), "dir") /\ ~alias
     THEN With(made, d, File("empty")) ELSE made

\* Does it return?
PointMade(d, file) ==
  /\ d \in DOMAIN fs => Is(fs, d, IF file THEN "file" ELSE "dir")
  /\ d \notin DOMAIN fs /\ Missing(d, file) # {} =>
       /\ ~alias
       /\ \A q \in Missing(d, file) :
            Front(q) \in DOMAIN fs => Is(fs, Front(q), "dir")

-----------------------------------------------------------------------------
(* mount_volumes(), called once or, for a read-only root, twice.           *)

\* Mutant of MountThrows: no cleanup.
MountThrowsOnly ==
  /\ step' = "failed"
  /\ UNCHANGED <<config, mnt, alias, supported, todo, failed, localVars, i>>

\* mount_volumes() throws: its cleanup reads file_mount_supported first, and
\* throws itself if that is null.
MountThrows ==
  /\ IF supported = "null"
     THEN step' = "failed" /\ UNCHANGED i
     ELSE step' = "unmount" /\ i' = 1
  /\ UNCHANGED <<config, mnt, alias, supported, todo, failed, localVars>>

\* The destination cannot be resolved, or no mount point be made there.
PointFails ==
  /\ step \in {"prepare", "mount"} /\ i <= Len(config.mounts)
  /\ LET d == Destination IN
     \/ d = ELOOP /\ UNCHANGED recorded
     \/ /\ d # ELOOP
        /\ ~PointMade(d, IsFileMount)
        /\ recorded' = recorded \cup Records(d, IsFileMount)
  /\ UNCHANGED fs
  /\ MountThrows

\* mount_volume() with prepare_only.
Prepare ==
  /\ step = "prepare" /\ i <= Len(config.mounts)
  /\ LET d == Destination IN
     /\ d # ELOOP /\ PointMade(d, IsFileMount)
     /\ recorded' = recorded \cup Records(d, IsFileMount)
     /\ fs' = MountPoint(d, IsFileMount)
  /\ i' = i + 1
  /\ UNCHANGED <<config, mnt, alias, supported, step, todo, failed, localVars>>

\* The retry: the first file mount that the kernel refuses, ENOTDIR, makes
\* all that follow be copied.
Copies == IsFileMount /\ ~(tries /\ config.files)

\* The root after what was at d has been moved to the save directory.
Moved(d) ==
  IF d \in DOMAIN fs
  THEN With(With(Without(fs, {d}), SaveDir(d), Dir), SavePath(d), fs[d])
  ELSE MountPoint(d, TRUE)

CopyRecords(d) ==
  Records(d, TRUE) \cup IF d \in DOMAIN fs /\ SaveDir(d) \notin DOMAIN fs
                        THEN {SaveDir(d)} ELSE {}

\* Mutant of Copied: the original is overwritten.
CopiedOver(d) == With(MountPoint(d, TRUE), d, File("copy"))

\* The root after a file has been copied to d.
Copied(d) == With(Moved(d), d, File("copy"))

\* A volume is mounted, or a file copied.
MountVolume ==
  /\ step = "mount" /\ i <= Len(config.mounts)
  /\ LET d    == Destination
         made == MountPoint(d, IsFileMount)
     IN /\ d # ELOOP /\ PointMade(d, IsFileMount)
        /\ d \in DOMAIN made
        /\ \/ /\ ~Copies
              /\ mnt' = mnt \cup {<<d, i>>}
              /\ fs' = made
              /\ recorded' = recorded \cup Records(d, IsFileMount)
           \/ /\ Copies /\ ~alias
              /\ fs' = Copied(d)
              /\ recorded' = recorded \cup CopyRecords(d)
              /\ UNCHANGED mnt
  /\ tries' = (tries /\ ~Copies)
  /\ i' = i + 1
  /\ UNCHANGED <<config, alias, supported, step, todo, up, failed, gone>>

\* nmount() fails, or the copy does: the alias is read-only, or what should
\* be the directory of the file is none.
MountFails ==
  /\ step = "mount" /\ i <= Len(config.mounts)
  /\ LET d == Destination IN
     /\ d # ELOOP /\ PointMade(d, IsFileMount)
     /\ \/ "mount" \in Faults /\ ~Copies
        \/ Copies /\ alias
        \/ d \notin DOMAIN MountPoint(d, IsFileMount)
     /\ fs' = MountPoint(d, IsFileMount)
     /\ recorded' = recorded \cup Records(d, IsFileMount)
  /\ MountThrows

\* The copy fails, before or after the file is there.
CopyFails ==
  /\ step = "mount" /\ i <= Len(config.mounts)
  /\ "mount" \in Faults /\ Copies /\ ~alias
  /\ LET d == Destination IN
     /\ d # ELOOP /\ PointMade(d, TRUE)
     /\ d \in DOMAIN MountPoint(d, TRUE)
     /\ fs' \in {Moved(d), Copied(d)}
     /\ recorded' = recorded \cup CopyRecords(d)
  /\ MountThrows

\* The end of a call of mount_volumes().
MountsDone ==
  /\ step \in {"prepare", "mount"} /\ i > Len(config.mounts)
  /\ supported' = IF tries THEN "true" ELSE "false"
  /\ tries' = TRUE
  /\ step' = IF step = "prepare" THEN "alias" ELSE "up"
  /\ up' = (step = "mount")
  /\ i' = 1
  /\ UNCHANGED <<config, fs, mnt, alias, recorded, todo, failed, gone>>

\* create() mounts the read-only alias between the two calls.
Alias ==
  /\ step = "alias"
  /\ \/ alias' = TRUE /\ step' = "mount"
     \/ "mount" \in Faults /\ step' = "failed" /\ UNCHANGED alias
  /\ UNCHANGED <<config, fs, mnt, recorded, supported, i, todo, failed,
                 localVars>>

-----------------------------------------------------------------------------
(* While the container exists.                                             *)

\* It makes a file in a directory of its root.
ContainerWrites ==
  /\ step = "up" /\ "write" \in Faults /\ ~config.readonly
  /\ \E p \in DOMAIN fs :
       /\ Is(fs, p, "dir")
       /\ \A q \in DOMAIN fs : On(q) # {} => ~IsPrefix(q, p)
       /\ Append(p, "new") \notin DOMAIN fs
       /\ \A q \in DOMAIN fs : Last(q) # "new"
       /\ fs' = With(fs, Append(p, "new"), File("user"))
  /\ UNCHANGED <<config, mnt, alias, recorded, supported, step, i, todo,
                 failed, localVars>>

SourceGone ==
  /\ step = "up" /\ "source" \in Faults
  /\ gone' = TRUE
  /\ UNCHANGED <<config, fs, mnt, alias, recorded, supported, tries, step, i,
                 todo, up, failed>>

\* delete, or a create that is told that the container process has failed.
Stop ==
  /\ step = "up"
  /\ step' = "unmount"
  /\ i' = 1
  /\ UNCHANGED <<config, fs, mnt, alias, recorded, supported, todo, failed,
                 localVars>>

-----------------------------------------------------------------------------
(* unmount_volumes()                                                       *)

\* unmount_volume(), of a destination that has been resolved before: an
\* exception is kept for later.  EINVAL, nothing is mounted there, is none.
UnmountVolume ==
  /\ step = "unmount" /\ i <= Len(config.mounts)
  /\ LET d == Destination IN
     \/ /\ IsFileUnmount /\ supported = "false"
        /\ fs' = IF SavePath(d) \in DOMAIN fs
                 THEN With(Without(fs, {SavePath(d)}), d, fs[SavePath(d)])
                 ELSE fs
        /\ UNCHANGED <<mnt, failed>>
     \/ /\ ~(IsFileUnmount /\ supported = "false")
        /\ \/ On(d) = {} /\ UNCHANGED <<mnt, failed>>
           \/ On(d) # {} /\ mnt' = mnt \ {<<d, Max(On(d))>>}
              /\ UNCHANGED failed
           \/ On(d) # {} /\ "unmount" \in Faults
              /\ failed' = TRUE /\ UNCHANGED mnt
        /\ UNCHANGED fs
  /\ i' = i + 1
  /\ UNCHANGED <<config, alias, recorded, supported, step, todo, localVars>>

\* Mutant of UnmountsDone: nothing is removed.
UnmountsDoneOnly ==
  /\ step = "unmount" /\ i > Len(config.mounts)
  /\ step' = "remove"
  /\ UNCHANGED <<config, fs, mnt, alias, recorded, supported, i, todo, failed,
                 localVars>>

UnmountsDone ==
  /\ step = "unmount" /\ i > Len(config.mounts)
  /\ step' = "remove"
  /\ todo' = recorded
  /\ UNCHANGED <<config, fs, mnt, alias, recorded, supported, i, failed,
                 localVars>>

\* Mutant of NextToRemove: the order in which they were recorded.
AnyToRemove(p) == p \in todo

\* The next path in descending order: nothing that is left is below it.
\* What comes between paths that are not below each other is left open.
NextToRemove(p) == p \in todo /\ ~\E q \in todo : StrictlyBelow(p, q)

\* fs::remove() of a path that exists; a directory must be empty, and no
\* mount point.  (With an alias, the mount is on the alias.)  The first that
\* fails is the last.
RemovePoint ==
  /\ step = "remove"
  /\ \E p \in todo :
       /\ NextToRemove(p)
       /\ \/ /\ \A q \in DOMAIN fs : ~StrictlyBelow(p, q)
             /\ On(p) = {} \/ alias
             /\ fs' = Without(fs, {p})
             /\ todo' = todo \ {p}
             /\ UNCHANGED failed
          \/ /\ p \in DOMAIN fs
             /\ On(p) # {} \/ \E q \in DOMAIN fs : StrictlyBelow(p, q)
             /\ todo' = {}
             /\ failed' = TRUE
             /\ UNCHANGED fs
  /\ UNCHANGED <<config, mnt, alias, recorded, supported, step, i, localVars>>

\* unmount_volumes() has returned, or thrown.  In create's failure that goes
\* unnoticed.  Then the alias is unmounted: its failure is tested with "> 0".
RemovesDone ==
  /\ step = "remove" /\ todo = {}
  /\ IF up /\ ~failed
     THEN /\ step' = "down"
          /\ \/ alias' = FALSE
             \/ "unmount_root" \in Faults /\ UNCHANGED alias
     ELSE /\ step' = IF up THEN "stuck" ELSE "failed"
          /\ UNCHANGED alias
  /\ UNCHANGED <<config, fs, mnt, recorded, supported, i, todo, failed,
                 localVars>>

\* A further delete, of a container whose unmounting failed, or whose alias is
\* still mounted and kept remove_all() from state.json.  That the jail has
\* gone by then is no error, and so it comes to unmount_volumes() again.
DeleteAgain ==
  /\ step = "stuck" \/ (step = "down" /\ alias)
  /\ step' = "unmount"
  /\ i' = 1
  /\ failed' = FALSE
  /\ UNCHANGED <<config, fs, mnt, alias, recorded, supported, todo, localVars>>

-----------------------------------------------------------------------------
(* The specification.                                                      *)

Places(c) == {resolve_container_path(c.tree, c.mounts[n].dest) :
                n \in DOMAIN c.mounts}

Init ==
  /\ config \in [tree: Trees, mounts: Lists, readonly: BOOLEAN, files: BOOLEAN]
  /\ \A p, q \in Places(config) : ~StrictlyBelow(p, q)
  /\ fs = config.tree
  /\ mnt = {} /\ alias = FALSE
  /\ recorded = {} /\ supported = "null"
  /\ tries = TRUE
  /\ step = IF config.readonly THEN "prepare" ELSE "mount"
  /\ i = 1 /\ todo = {}
  /\ up = FALSE /\ failed = FALSE /\ gone = FALSE

Next ==
  \/ PointFails \/ Prepare \/ MountVolume \/ MountFails \/ CopyFails
  \/ MountsDone
  \/ Alias \/ ContainerWrites \/ SourceGone \/ Stop \/ UnmountVolume
  \/ UnmountsDone \/ RemovePoint \/ RemovesDone \/ DeleteAgain

Spec == Init /\ [][Next]_vars

-----------------------------------------------------------------------------
(* Vocabulary of the properties.                                           *)

\* Two volumes have one destination.
Twice ==
  \E m, n \in DOMAIN config.mounts :
    m # n /\ resolve_container_path(config.tree, config.mounts[m].dest)
             = resolve_container_path(config.tree, config.mounts[n].dest)

\* A file of type "bind" that had to be copied.
BindCopied ==
  \E n \in DOMAIN config.mounts :
    /\ config.mounts[n].type = "bind" /\ config.mounts[n].source = "file"
    /\ ~config.files

\* What the container has made, and the rest.
OfUser == {p \in DOMAIN fs : Last(p) = "new"}

\* A lookup: how many links it may still follow, where it is, and what is left.
Walking == [links: Nat, at: Path, path: Path]
WalkOf(n, a, p) == [links |-> n, at |-> a, path |-> p]

\* How a kernel looks path up in a root that it has been confined to: the
\* target of a link takes the link's place in what is left of the path.
Walk(t) ==
  LET walk[c \in Walking] ==
        IF c.path = <<>> THEN c.at
        ELSE LET e    == Head(c.path)
                 tmp  == Append(c.at, e)
                 rest == Tail(c.path)
             IN IF e = "/" THEN walk[WalkOf(c.links, Root, rest)]
                ELSE IF e = ".."
                THEN walk[WalkOf(c.links, IF Len(c.at) = 1 THEN c.at
                                          ELSE Front(c.at), rest)]
                ELSE IF ~Is(t, tmp, "link")
                THEN walk[WalkOf(c.links, tmp, rest)]
                ELSE IF c.links = 0 THEN ELOOP
                ELSE walk[WalkOf(c.links - 1, c.at, t[tmp].to \o rest)]
  IN walk

-----------------------------------------------------------------------------
(* Properties.                                                             *)

\* Every variable has its type, and the root stays a tree.
TypeOK ==
  /\ IsTree(fs) /\ IsTree(config.tree)
  /\ supported \in {"null", "true", "false"} /\ tries \in BOOLEAN
  /\ alias \in BOOLEAN /\ up \in BOOLEAN /\ failed \in BOOLEAN
  /\ gone \in BOOLEAN
  /\ step \in {"prepare", "alias", "mount", "up", "unmount", "remove", "down",
               "stuck", "failed"}
  /\ i \in 1..(Len(config.mounts) + 1)
  /\ todo \subseteq recorded

\* A volume ends up where the container will see its destination, links and
\* ".." included: the recursion on links finds what the kernel finds.  They
\* differ only on as many links as the kernel just follows, which is one more
\* than the recursion is deep, and on more than that but not in one another,
\* as the recursion counts its depth only.
ResolveAgrees ==
  \A n \in DOMAIN config.mounts :
    LET p == config.mounts[n].dest
        r == resolve_container_path(config.tree, p)
        kernel(links) == Walk(config.tree)[WalkOf(links, Root, p)]
    IN \/ r = kernel(MaxSymlinks)
       \/ r = ELOOP /\ kernel(MaxSymlinks - 1) = ELOOP
       \/ /\ kernel(MaxSymlinks) = ELOOP
          /\ \E links \in Nat : links > MaxSymlinks /\ kernel(links) = r

\* No volume is ever mounted, and no file moved or mount point made, outside
\* the root, whatever the destination and the links in the root say.
InsideRoot ==
  /\ i <= Len(config.mounts) /\ Destination # ELOOP =>
       IsPrefix(Root, Destination)
  /\ \A m \in mnt : IsPrefix(Root, m[1])
  /\ \A p \in DOMAIN fs \cup recorded : IsPrefix(Root, p)

\* Whatever create makes in the root is recorded before it is there, so that
\* unmount_volumes() can find it again; originals that were moved aside are
\* in a recorded directory.
MadeIsRecorded ==
  \A p \in DOMAIN fs \ (DOMAIN config.tree \cup OfUser) :
    p \in recorded \/ Front(p) \in recorded

\* No file of the root is lost: it is at its place or was moved aside, also
\* when something fails in the middle.  (Two volumes on one file lose it.)
OriginalKept ==
  ~Twice =>
    \A p \in DOMAIN config.tree :
      Is(config.tree, p, "file") =>
        \E q \in {p, SavePath(p)} : q \in DOMAIN fs /\ fs[q] = config.tree[p]

\* When the unmounting succeeds the root is what it was before create, but
\* for what the container itself has made: no mount point, no copy, no save
\* directory is left, and no volume is mounted.
DeleteRestores ==
  step = "down" =>
    /\ mnt = {}
    /\ alias => "unmount_root" \in Faults
    /\ Twice \/ gone \/ BindCopied \/ Without(fs, OfUser) = config.tree

\* The unmounting fails for a reason only: a volume did not let go, there is
\* a file of the container's in a directory that create made, or a file
\* mounted by copying is no longer recognised as one.  (Of two volumes on one
\* destination, the one that did not let go at first may do so when it comes
\* to the other one, if that has gone in an earlier delete.)
StuckForAReason ==
  step = "stuck" =>
    \/ mnt # {}
    \/ Twice /\ "unmount" \in Faults
    \/ \E p \in OfUser : Front(p) \in recorded
    \/ (gone \/ BindCopied) /\ ~config.files

\* When the second pass over a read-only root fails, its cleanup works: it
\* takes all volumes and mount points away again.
SecondPassCleans ==
  step = "failed" /\ alias /\ ~failed => mnt = {} /\ fs = config.tree

-----------------------------------------------------------------------------
(* What comments of the code say, and what the code does not do.           *)

\* mount.cpp:500: "Attempt to clean up in case we mounted something".
FailedMountCleans == step = "failed" => mnt = {}

\* mount.cpp:464: "Restore the saved path if it exists".
SavedIsRestored ==
  step \in {"down", "stuck"} => \A p \in DOMAIN fs : Last(p) # ".save"

=============================================================================
