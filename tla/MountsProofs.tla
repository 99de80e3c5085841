---------------------------- MODULE MountsProofs ----------------------------
(***************************************************************************)
(* Theorems about the volumes of a container (Mounts), for every root,     *)
(* every configuration and every fault.  The invariant has six parts: what *)
(* there is in the root and in the record (RootInv), where the originals   *)
(* are (OriginalInv), which volume puts a file back that was moved aside   *)
(* (AsideInv), that a read-only root is not copied to (ReadonlyInv), how   *)
(* many volumes are on a place (MountedInv) and what has been removed      *)
(* (RemovedInv).  What ResolutionProofs says of destinations carries over, *)
(* as no step makes or removes a link (SameLinks).                         *)
(***************************************************************************)
EXTENDS ResolutionProofs

-----------------------------------------------------------------------------
(* Vocabulary.                                                             *)

\* Where the n-th volume goes, and whether it is a file to be copied.
At(n) == resolve_container_path(config.tree, config.mounts[n].dest)
FileAt(n) == /\ config.mounts[n].type \in {"nullfs", "bind"}
             /\ config.mounts[n].source = "file"
CopyAt(n) == FileAt(n) /\ ~config.files

\* Where the file comes from that is at p, in a save directory.
Origin(p) == Append(Front(Front(p)), Last(p))
Aside(p) ==
  /\ Len(p) > 2 /\ Last(Front(p)) = ".save" /\ Last(p) # "new"
  /\ Origin(p) \in Place

\* The steps of create before the container can run.
Creating == {"prepare", "alias", "mount"}

-----------------------------------------------------------------------------
(* What is in the root.                                                    *)

\* What there is at p, in terms of the root as it was.
Placed(p) ==
  \/ /\ p \in DOMAIN config.tree
     /\ \/ fs[p] = config.tree[p]
        \/ config.tree[p].kind = "file" /\ fs[p].kind = "file"
  \/ p \in Place /\ p \in recorded /\ fs[p].kind # "link"
  \/ Last(p) = ".save" /\ p \in recorded /\ fs[p] = Dir
  \/ /\ fs[p].kind = "file" /\ Aside(p)
     /\ Origin(p) \in recorded \/ Is(config.tree, Origin(p), "file")
  \/ fs[p].kind = "file" /\ Last(p) = "new"

\* The configuration, and where create is.
ConfigInv ==
  /\ config \in [tree: Trees, mounts: Lists, readonly: BOOLEAN,
                 files: BOOLEAN]
  /\ config.files => tries
  /\ step \in Creating => ~up

\* Nothing else is in the root, and of the root as it was only files can be
\* missing, and those only once something has failed or is unmounted.
TreeInv ==
  /\ \A p \in DOMAIN fs : Placed(p)
  /\ \A p \in DOMAIN config.tree :
       /\ config.tree[p].kind # "file" =>
            p \in DOMAIN fs /\ fs[p] = config.tree[p]
       /\ step \in Creating \cup {"up"} => p \in DOMAIN fs

\* A place whose original has been moved has a file, if anything.
OriginInv ==
  \A p \in DOMAIN fs : Aside(p) =>
    /\ Origin(p) \in DOMAIN fs => fs[Origin(p)].kind = "file"
    /\ step \in Creating => Origin(p) \in DOMAIN fs

\* What is recorded was not there before.
RecordInv ==
  \A p \in recorded :
    /\ p \in Path \ {<<>>} /\ p \notin DOMAIN config.tree
    /\ p \in Place \/ (Last(p) = ".save" /\ Front(p) \in Place)

\* What a step may do to the root and the record of it: paths are recorded,
\* mount points made (Points), files copied (CopiesTo) and put back
\* (Restores), paths removed (Removes), and the container makes a file
\* (Writes).
Marks ==
  /\ step \in {"prepare", "mount"} /\ fs' = fs
  /\ \E d \in Place, file \in BOOLEAN :
       recorded' = recorded \cup Records(d, file)
Points ==
  /\ step \in {"prepare", "mount"}
  /\ \E d \in Place, file \in BOOLEAN :
       /\ PointMade(d, file) /\ fs' = MountPoint(d, file)
       /\ recorded' = recorded \cup Records(d, file)
CopiesTo(d) ==
  /\ step = "mount" /\ i \in DOMAIN config.mounts /\ d = At(i) /\ CopyAt(i)
  /\ ~alias
  /\ d \in Place /\ PointMade(d, TRUE) /\ d \in DOMAIN MountPoint(d, TRUE)
  /\ fs' \in {Moved(d), Copied(d)} /\ recorded' = recorded \cup CopyRecords(d)
  /\ \/ fs' = Copied(d) /\ step' = "mount" /\ i' = i + 1 /\ ~tries'
     \/ step' \in {"failed", "unmount"} /\ ~up'
Restores(d) ==
  /\ step = "unmount" /\ step' = step /\ i \in DOMAIN config.mounts
  /\ d = At(i) /\ d \in Place \cup {ELOOP} /\ SavePath(d) \in DOMAIN fs
  /\ fs' = With(Without(fs, {SavePath(d)}), d, fs[SavePath(d)])
  /\ recorded' = recorded
Removes(p) ==
  /\ step = "remove" /\ step' = step /\ NextToRemove(p)
  /\ \A q \in DOMAIN fs : ~StrictlyBelow(p, q)
  /\ fs' = Without(fs, {p}) /\ recorded' = recorded
Writes(p) ==
  /\ step = "up" /\ step' = step /\ ~config.readonly /\ Is(fs, p, "dir")
  /\ Append(p, "new") \notin DOMAIN fs
  /\ fs' = With(fs, Append(p, "new"), File("user")) /\ recorded' = recorded

\* All of them, and what a step does to the phase of create.
TreeMoves ==
  /\ config' = config
  /\ step \notin Creating \cup {"up"} => step' \notin Creating \cup {"up"}
  /\ step = "up" => step' \notin Creating
  /\ step' \in {"prepare", "alias"} => step \in {"prepare", "alias"}
  /\ step' = "mount" =>
       step \in {"prepare", "alias"} \/ (step = "mount" /\ i' >= i)
  /\ \/ fs' = fs /\ recorded' = recorded
     \/ Marks \/ Points
     \/ \E d \in Place : CopiesTo(d)
     \/ \E d \in Place \cup {ELOOP} : Restores(d)
     \/ \E p \in todo : Removes(p)
     \/ \E p \in DOMAIN fs : Writes(p)

\* A file is at its place until it is moved aside, which happens when the
\* volume is reached that goes there, and then in the save directory.
OriginalInv ==
  ~Twice =>
    \A p \in DOMAIN config.tree : Is(config.tree, p, "file") =>
      /\ SavePath(p) \in DOMAIN fs => fs[SavePath(p)] = config.tree[p]
      /\ SavePath(p) \notin DOMAIN fs =>
           p \in DOMAIN fs /\ fs[p] = config.tree[p]
      /\ \/ step \in {"prepare", "alias"}
         \/ step = "mount"
            /\ \E n \in DOMAIN config.mounts : n >= i /\ At(n) = p
         => SavePath(p) \notin DOMAIN fs

\* A file in a save directory has a volume that is copied to where it was:
\* while create mounts, one it has mounted, while it unmounts, one that it
\* has yet to unmount or does not take for a file any more.
AsideInv ==
  \A p \in DOMAIN fs : Aside(p) =>
    \E n \in DOMAIN config.mounts :
      /\ At(n) = Origin(p) /\ CopyAt(n)
      /\ step \in Creating => step = "mount" /\ n < i /\ ~tries
      /\ step = "up" => supported = "false"
      /\ step = "unmount" /\ up =>
           supported = "false"
           /\ (n >= i \/ gone \/ config.mounts[n].type = "bind")
      /\ step \in {"remove", "down", "stuck"} /\ up =>
           supported = "false" /\ (gone \/ config.mounts[n].type = "bind")

\* The alias is there when volumes are mounted on a read-only root, and
\* nothing but mount points is ever made in that root.
ReadonlyInv ==
  /\ alias => config.readonly
  /\ supported = "null" => ~alias
  /\ supported = "false" => ~config.files
  /\ step \in {"prepare", "alias"} => config.readonly /\ ~alias
  /\ step = "alias" => supported # "null"
  /\ config.readonly =>
       /\ step = "mount" => alias
       /\ \A p \in DOMAIN config.tree :
            p \in DOMAIN fs /\ fs[p] = config.tree[p]
       /\ \A p \in DOMAIN fs : p \in DOMAIN config.tree \cup recorded

\* Why the unmounting of a container that was up may fail.
Reason ==
  \/ mnt # {}
  \/ Twice /\ "unmount" \in Faults
  \/ \E p \in OfUser : Front(p) \in recorded
  \/ (gone \/ BindCopied) /\ ~config.files

\* What is not on the list of what to remove any more is not there.
RemovedInv ==
  /\ step = "remove" /\ ~failed =>
       \A p \in recorded \ todo : p \notin DOMAIN fs
  /\ \/ step = "down"
     \/ step = "failed" /\ alias /\ ~failed
     => \A p \in recorded : p \notin DOMAIN fs
  /\ step \in {"remove", "stuck"} /\ up /\ failed => Reason
  /\ step = "stuck" => failed /\ up
  /\ step = "down" =>
       up /\ ~failed /\ (alias => "unmount_root" \in Faults)
  /\ step \in Creating => ~failed
  /\ step = "up" => up /\ ~failed

\* The volumes at d that are yet to be unmounted, unless they were copied.
Rest(d) == {n \in i..Len(config.mounts) : At(n) = d /\ ~CopyAt(n)}

\* A volume that the unmounting has passed did not let go.
LeftOver == \E n \in DOMAIN config.mounts : n < i /\ On(At(n)) # {}

\* What is mounted, while create mounts and when it has; and, while volumes
\* are unmounted, how many are on a place and how many will be taken off it,
\* and what is left if one did not let go.
MountedInv ==
  /\ mnt \subseteq {<<At(n), n>> : n \in {m \in DOMAIN config.mounts :
                                          At(m) \in Place /\ ~CopyAt(m)}}
  /\ step \in {"prepare", "alias"} => mnt = {}
  /\ step = "alias" => i = 1
  /\ step = "mount" =>
       /\ mnt = {<<At(n), n>> : n \in {m \in 1..(i - 1) : ~CopyAt(m)}}
       /\ \A n \in 1..(i - 1) :
            /\ At(n) \in Place
            /\ Is(fs, At(n), IF FileAt(n) THEN "file" ELSE "dir")
  /\ step = "up" =>
       mnt = {<<At(n), n>> : n \in {m \in DOMAIN config.mounts : ~CopyAt(m)}}
  /\ step = "unmount" /\ ~failed =>
       \A d \in Place : Cardinality(On(d)) <= Cardinality(Rest(d))
  /\ step = "unmount" /\ failed =>
       "unmount" \in Faults /\ (Twice \/ LeftOver)
  /\ \/ step \in {"remove", "down"}
     \/ step = "failed" /\ alias
     => failed \/ mnt = {}

-----------------------------------------------------------------------------
(* Places.                                                                 *)

\* The directories above a place are places, down from the root.
LEMMA PlaceUpTo ==
  ASSUME NEW d \in Place, NEW q \in UpTo(d)
  PROVE  /\ q \in Place /\ q # Root /\ Len(q) > 1 /\ Len(q) <= Len(d)
         /\ Front(q) = Root \/ Front(q) \in UpTo(d)
<1>1. PICK n \in 2..Len(d) : q = SubSeq(d, 1, n)  BY DEF UpTo
<1>2. /\ d \in Path /\ Len(d) \in Nat \ {0} /\ d[1] = "root"
      /\ \A m \in 1..Len(d) : d[m] \notin {".save", "new"}
  BY PlacePath
<1>3. q \in Path /\ Len(q) = n /\ \A m \in 1..n : q[m] = d[m]
  BY <1>1, <1>2, PathCut
<1>4. DOMAIN q = 1..n /\ q # <<>>
  BY <1>3, LenProperties, EmptySeq DEF Path
<1>5. q \in Place  BY <1>2, <1>3, <1>4 DEF Place, Clean
<1>6. q # Root /\ Len(q) > 1 /\ Len(q) <= Len(d)
  BY <1>2, <1>3, <1>5, PlacePath
<1>7. /\ Front(q) \in Place /\ Len(Front(q)) = n - 1
      /\ \A m \in 1..(n - 1) : Front(q)[m] = q[m]
  BY <1>3, <1>5, <1>6, PlacePath, PathFront
<1>8. CASE n = 2
  <2>1. Len(Front(q)) = 1  BY <1>7, <1>8
  <2>2. Front(q) = Root  BY <1>7, <2>1, PlacePath
  <2> QED  BY <1>5, <1>6, <2>2
<1>9. CASE n > 2
  <2>1. n - 1 \in 2..Len(d)  BY <1>2, <1>9
  <2>2. /\ SubSeq(d, 1, n - 1) \in Path /\ Len(SubSeq(d, 1, n - 1)) = n - 1
        /\ \A m \in 1..(n - 1) : SubSeq(d, 1, n - 1)[m] = d[m]
    BY <1>2, <2>1, PathCut
  <2>3. \A m \in 1..(n - 1) : Front(q)[m] = SubSeq(d, 1, n - 1)[m]
    BY <1>3, <1>7, <2>2
  <2>4. Front(q) \in Path  BY <1>7, PlacePath
  <2>5. Front(q) = SubSeq(d, 1, n - 1)
    BY <1>7, <2>2, <2>3, <2>4, PathEqual
  <2> QED  BY <1>5, <1>6, <2>1, <2>5 DEF UpTo
<1> QED  BY <1>5, <1>6, <1>8, <1>9

\* A place that is not the root is the last of those above it.
LEMMA PlaceOwn ==
  ASSUME NEW d \in Place, d # Root
  PROVE  /\ Len(d) > 1 /\ d \in UpTo(d)
         /\ Front(d) = Root \/ Front(d) \in UpTo(d)
<1>1. d \in Path /\ Len(d) \in Nat \ {0} /\ Len(d) # 1
  BY PlacePath
<1>2. d = SubSeq(d, 1, Len(d))
  <2>1. /\ SubSeq(d, 1, Len(d)) \in Path /\ Len(SubSeq(d, 1, Len(d))) = Len(d)
        /\ \A n \in 1..Len(d) : SubSeq(d, 1, Len(d))[n] = d[n]
    BY <1>1, PathCut
  <2> QED  BY <1>1, <2>1, PathEqual
<1>3. Len(d) > 1 /\ Len(d) \in 2..Len(d)
  <2> DEFINE l == Len(d)
  <2>1. l \in Nat /\ l # 0 /\ l # 1  BY <1>1
  <2> HIDE DEF l
  <2>2. l > 1 /\ l \in 2..l  BY <2>1
  <2> QED  BY <2>2 DEF l
<1>4. d \in UpTo(d)  BY <1>2, <1>3 DEF UpTo
<1> QED  BY <1>3, <1>4, PlaceUpTo

\* The directory that the original of d is moved to, and its path in it.
LEMMA SavePaths ==
  ASSUME NEW d \in Place, d # Root
  PROVE  /\ SaveDir(d) \in Path \ {<<>>} /\ SavePath(d) \in Path \ {<<>>}
         /\ Last(SaveDir(d)) = ".save" /\ Front(SaveDir(d)) = Front(d)
         /\ Front(SaveDir(d)) \in Place
         /\ Front(SavePath(d)) = SaveDir(d) /\ Last(SavePath(d)) = Last(d)
         /\ Aside(SavePath(d)) /\ Origin(SavePath(d)) = d
<1>1. d \in Path \ {<<>>} /\ Front(d) \in Place /\ Last(d) # "new"
  BY PlaceOwn, PlacePath
<1>2. /\ Front(d) \in Path /\ Len(Front(d)) \in Nat \ {0}
      /\ Last(d) \in Word /\ d = Append(Front(d), Last(d))
  BY <1>1, PathFront, PlacePath
<1>3. /\ SaveDir(d) \in Path \ {<<>>} /\ Len(SaveDir(d)) = Len(Front(d)) + 1
      /\ Front(SaveDir(d)) = Front(d) /\ Last(SaveDir(d)) = ".save"
  BY <1>2, PathAppend, Words DEF SaveDir
<1>4. /\ SavePath(d) \in Path \ {<<>>}
      /\ Len(SavePath(d)) = Len(SaveDir(d)) + 1
      /\ Front(SavePath(d)) = SaveDir(d) /\ Last(SavePath(d)) = Last(d)
  BY <1>2, <1>3, PathAppend DEF SavePath
<1>5. Origin(SavePath(d)) = d  BY <1>2, <1>3, <1>4 DEF Origin
<1>6. Len(SavePath(d)) > 2  BY <1>2, <1>3, <1>4
<1> QED  BY <1>1, <1>3, <1>4, <1>5, <1>6 DEF Aside

\* What is in a save directory is the original of one place, no place itself
\* and no save directory.
LEMMA AsidePath ==
  ASSUME NEW p \in Path, Aside(p)
  PROVE  /\ p # <<>> /\ Origin(p) \in Place /\ Origin(p) # Root
         /\ p = SavePath(Origin(p)) /\ Front(p) = SaveDir(Origin(p))
         /\ p \notin Place /\ Last(p) \notin {".save", "new"}
<1>0. p # <<>>  BY EmptySeq DEF Aside, Path
<1>1. /\ Len(p) \in Nat /\ Len(p) > 2 /\ Last(Front(p)) = ".save"
      /\ Front(p) \in Path /\ Len(Front(p)) = Len(p) - 1 /\ Last(p) \in Word
      /\ p = Append(Front(p), Last(p))
  BY <1>0, PathFront DEF Aside
<1>2. Front(p) # <<>>  BY <1>1, EmptySeq DEF Path
<1>3. /\ Front(Front(p)) \in Path /\ Len(Front(Front(p))) = Len(p) - 2
      /\ Front(p) = Append(Front(Front(p)), ".save")
  BY <1>1, <1>2, PathFront
<1>4. /\ Origin(p) \in Place /\ Front(Origin(p)) = Front(Front(p))
      /\ Last(Origin(p)) = Last(p) /\ Len(Origin(p)) > 1
  BY <1>1, <1>3, PathAppend DEF Aside, Origin
<1>5. Origin(p) # Root /\ Last(p) \notin {".save", "new"}
  BY <1>4, PlacePath
<1>6. p = SavePath(Origin(p)) /\ Front(p) = SaveDir(Origin(p))
  BY <1>1, <1>3, <1>4 DEF SavePath, SaveDir
<1>7. p \notin Place
  BY <1>1, PlacePath
<1> QED  BY <1>0, <1>4, <1>5, <1>6, <1>7

-----------------------------------------------------------------------------
(* The root, and where volumes go in it.                                   *)

\* What the configuration gives.
LEMMA Configured ==
  ASSUME ConfigInv
  PROVE  /\ IsTree(config.tree) /\ DOMAIN config.tree \subseteq Place
         /\ Root \in DOMAIN config.tree /\ config.tree[Root] = Dir
         /\ Len(config.mounts) \in Nat
         /\ DOMAIN config.mounts = 1..Len(config.mounts)
         /\ \A n \in DOMAIN config.mounts : At(n) \in Place \cup {ELOOP}
         /\ \A n \in DOMAIN config.mounts : config.mounts[n].dest \in Path
         /\ ELOOP \notin Place
<1>1. /\ IsTree(config.tree) /\ DOMAIN config.tree \subseteq Place
      /\ \A p \in DOMAIN config.tree :
           Is(config.tree, p, "link") => config.tree[p].to \in Clean
  BY TreesAssumption DEF ConfigInv
<1>2. Root \in DOMAIN config.tree /\ config.tree[Root] = Dir
  BY <1>1 DEF IsTree, Is, Node, Dir
<1>3. config.mounts \in Seq([dest: Clean, type: STRING, source: STRING])
  BY ListsAssumption DEF ConfigInv
<1>4. ASSUME NEW n \in DOMAIN config.mounts
      PROVE  config.mounts[n].dest \in Clean /\ At(n) \in Place \cup {ELOOP}
  <2>1. n \in 1..Len(config.mounts)  BY <1>3, LenProperties
  <2>2. config.mounts[n] \in [dest: Clean, type: STRING, source: STRING]
    BY <1>3, <2>1, ElementOfSeq
  <2> DEFINE v == config.mounts[n]
  <2>3. v \in [dest: Clean, type: STRING, source: STRING]  BY <2>2
  <2> HIDE DEF v
  <2>4. v.dest \in Clean  BY <2>3
  <2> QED  BY <1>1, <2>4, ResolvesToPlace DEF At, v
<1>5. ELOOP \notin Place  BY DEF Place, ELOOP
<1> QED  BY <1>1, <1>2, <1>3, <1>4, <1>5, LenProperties DEF Clean

\* The links of the root stay what they were, so that what destinations are
\* resolved to never changes: volumes are unmounted where they were mounted.
LEMMA SameLinks ==
  ASSUME ConfigInv, TreeInv, IsTree(fs), NEW path
  PROVE  resolve_container_path(fs, path)
           = resolve_container_path(config.tree, path)
<1>1. IsTree(config.tree)  BY Configured
<1>2. ASSUME NEW p \in DOMAIN config.tree, config.tree[p].kind = "link"
      PROVE  p \in DOMAIN fs /\ fs[p] = config.tree[p]
  BY <1>2 DEF TreeInv
<1>3. ASSUME NEW p \in DOMAIN fs, fs[p].kind = "link"
      PROVE  p \in DOMAIN config.tree /\ fs[p] = config.tree[p]
  BY <1>3 DEF TreeInv, Placed, Dir
<1>4. {p \in DOMAIN fs : Is(fs, p, "link")}
        = {p \in DOMAIN config.tree : Is(config.tree, p, "link")}
  BY <1>2, <1>3 DEF Is
<1>5. Links(fs) = Links(config.tree)
  BY <1>3, <1>4 DEF Links, Is
<1> QED  BY <1>5 DEF resolve_container_path

\* So the volume that a step is at is where it was resolved to at first.
LEMMA Destinations ==
  ASSUME ConfigInv, TreeInv, TypeOK, i <= Len(config.mounts)
  PROVE  /\ i \in DOMAIN config.mounts /\ Destination = At(i)
         /\ Destination # ELOOP => Destination \in Place
<1>1. i \in DOMAIN config.mounts  BY Configured DEF TypeOK
<1>2. Destination = At(i)
  BY SameLinks DEF TypeOK, Destination, Volume, At
<1> QED  BY <1>1, <1>2, Configured

\* Every path but the root is in a directory.
LEMMA TreeFront ==
  ASSUME NEW t, IsTree(t), NEW p \in DOMAIN t, p # Root
  PROVE  Front(p) \in DOMAIN t /\ t[Front(p)] = Dir
  BY DEF IsTree, Is, Node, Dir

\* With a place all the directories above it are in the tree.
LEMMA TreeUpTo ==
  ASSUME NEW t, IsTree(t), NEW d \in Place, d \in DOMAIN t
  PROVE  /\ UpTo(d) \subseteq DOMAIN t
         /\ d # Root => Front(d) \in DOMAIN t
<1> DEFINE S == {n \in 1..Len(d) : SubSeq(d, 1, n) \notin DOMAIN t}
<1>1. d \in Path /\ Len(d) \in Nat \ {0}  BY PlacePath
<1>2. SubSeq(d, 1, Len(d)) = d
  <2>1. Len(d) \in 0..Len(d)  BY <1>1
  <2>2. /\ SubSeq(d, 1, Len(d)) \in Path /\ Len(SubSeq(d, 1, Len(d))) = Len(d)
        /\ \A n \in 1..Len(d) : SubSeq(d, 1, Len(d))[n] = d[n]
    BY <1>1, <2>1, PathCut
  <2> QED  BY <1>1, <2>2, PathEqual
<1>3. S = {}
  <2> SUFFICES ASSUME S # {} PROVE FALSE
    OBVIOUS
  <2>1. S \subseteq 0..Len(d)  BY <1>1
  <2>2. PICK m \in S : \A n \in S : m >= n  BY <1>1, <2>1, Greatest
  <2>3. m \in 1..Len(d) /\ m # Len(d)  BY <1>2
  <2>4. m + 1 \in 2..Len(d) /\ m + 1 \notin S  BY <1>1, <2>2, <2>3
  <2> DEFINE q == SubSeq(d, 1, m + 1)
  <2>5. q \in DOMAIN t /\ q \in UpTo(d)  BY <2>4 DEF UpTo
  <2>6. q # Root /\ q \in Path \ {<<>>}  BY <2>5, PlaceUpTo, PlacePath
  <2>7. Front(q) \in DOMAIN t  BY <2>5, <2>6, TreeFront
  <2>8. Front(q) = SubSeq(d, 1, m)
    <3>1. /\ q \in Path /\ Len(q) = m + 1 /\ \A n \in 1..(m + 1) : q[n] = d[n]
      <4>1. m + 1 \in 0..Len(d)  BY <1>1, <2>4
      <4> QED  BY <1>1, <4>1, PathCut
    <3>2. /\ SubSeq(d, 1, m) \in Path /\ Len(SubSeq(d, 1, m)) = m
          /\ \A n \in 1..m : SubSeq(d, 1, m)[n] = d[n]
      <4>1. m \in 0..Len(d)  BY <1>1, <2>3
      <4> QED  BY <1>1, <4>1, PathCut
    <3> HIDE DEF q, S
    <3>3. /\ Front(q) \in Path /\ Len(Front(q)) = m
          /\ \A n \in 1..m : Front(q)[n] = q[n]
      <4>1. Len(q) - 1 = m  BY <2>3, <3>1
      <4> QED  BY <2>6, <4>1, PathFront
    <3>4. \A n \in 1..m : Front(q)[n] = SubSeq(d, 1, m)[n]
      BY <2>3, <3>1, <3>2, <3>3
    <3> QED  BY <3>2, <3>3, <3>4, PathEqual
  <2> QED  BY <2>2, <2>7, <2>8
<1>4. \A n \in 2..Len(d) : SubSeq(d, 1, n) \in DOMAIN t  BY <1>1, <1>3
<1>5. UpTo(d) \subseteq DOMAIN t  BY <1>4 DEF UpTo
<1> QED  BY <1>5, TreeFront

\* What is made for a mount point: the tree has grown by what is recorded.
LEMMA PointTree ==
  ASSUME IsTree(fs), NEW d \in Place, NEW file \in BOOLEAN, PointMade(d, file),
         NEW t, t = MountPoint(d, file)
  PROVE  /\ IsTree(t) /\ DOMAIN fs \subseteq DOMAIN t
         /\ \A p \in DOMAIN fs : t[p] = fs[p]
         /\ \A p \in DOMAIN t \ DOMAIN fs :
              p \in Place /\ p \in Records(d, file) /\ t[p].kind # "link"
         /\ d \in DOMAIN t => Is(t, d, IF file THEN "file" ELSE "dir")
         /\ Records(d, file) \subseteq Place \ DOMAIN fs
<1>1. Root \in DOMAIN fs /\ fs[Root] = Dir /\ DOMAIN fs \subseteq Path \ {<<>>}
  BY DEF IsTree, Is, Node, Dir
<1> DEFINE e == IF file THEN Front(d) ELSE d
           M == Missing(d, file)
<1>2. CASE d \in DOMAIN fs
  <2>1. Is(fs, d, IF file THEN "file" ELSE "dir")
    BY <1>2 DEF PointMade
  <2>2. file => d # Root  BY <1>1, <2>1 DEF Is, Dir
  <2>3. M = {}
    <3>1. UpTo(e) \subseteq DOMAIN fs
      BY <1>2, <2>2, TreeUpTo, PlaceOwn, PlacePath
    <3> QED  BY <3>1 DEF Missing
  <2>4. t = [q \in DOMAIN fs |-> fs[q]]
    BY <1>2, <2>3 DEF MountPoint
  <2>5. t = fs  BY <2>4 DEF IsTree
  <2> QED  BY <1>2, <2>1, <2>5 DEF Records
<1>3. CASE d \notin DOMAIN fs
  <2>1. d # Root /\ e \in Place /\ (file => e \in DOMAIN fs \/ e \in UpTo(d))
    BY <1>1, <1>3, PlaceOwn, PlacePath
  <2>2. ASSUME NEW q \in M
        PROVE  /\ q \in Place /\ q # Root /\ q \notin DOMAIN fs
               /\ \/ Front(q) \in DOMAIN fs /\ fs[Front(q)] = Dir
                  \/ Front(q) \in M
    <3>1. /\ q \in Place /\ q # Root /\ q \notin DOMAIN fs
          /\ Front(q) = Root \/ Front(q) \in UpTo(e)
      BY <2>1, <2>2, PlaceUpTo DEF Missing
    <3>2. Front(q) \in DOMAIN fs => fs[Front(q)] = Dir
      BY <1>3, <2>2 DEF PointMade, Is, IsTree, Node, Dir
    <3> QED  BY <1>1, <3>1, <3>2 DEF Missing
  <2> DEFINE made == [q \in DOMAIN fs \cup M |->
                        IF q \in DOMAIN fs THEN fs[q] ELSE Dir]
  <2>3. /\ DOMAIN made = DOMAIN fs \cup M
        /\ \A p \in DOMAIN fs : made[p] = fs[p]
        /\ \A p \in M : made[p] = Dir
    BY <2>2
  <2>4. IsTree(made)
    <3>1. DOMAIN made \subseteq Path \ {<<>>}  BY <1>1, <2>2, <2>3, PlacePath
    <3>2. \A p \in DOMAIN made : made[p] \in Node
      BY <2>3 DEF IsTree, Node
    <3>3. \A p \in DOMAIN made \ {Root} : Is(made, Front(p), "dir")
      <4>1. ASSUME NEW p \in DOMAIN fs, p # Root
            PROVE  Is(made, Front(p), "dir")
        BY <2>3, <4>1, TreeFront DEF Is, Dir
      <4>2. ASSUME NEW p \in M
            PROVE  Is(made, Front(p), "dir")
        BY <2>2, <2>3 DEF Is, Dir
      <4> QED  BY <2>3, <4>1, <4>2
    <3>4. Is(made, Root, "dir")  BY <1>1, <2>3 DEF Is, Dir
    <3> HIDE DEF M
    <3>5. made \in [DOMAIN made -> Node]  BY <3>2
    <3> QED  BY <3>1, <3>3, <3>4, <3>5 DEF IsTree
  <2>5. Records(d, file) = M \cup IF file THEN {d} ELSE {}
    BY <1>3 DEF Records
  <2>6. file => d \notin M
    <3> SUFFICES ASSUME file, d \in M PROVE FALSE
      OBVIOUS
    <3>1. Len(d) \in Nat \ {0} /\ Len(Front(d)) = Len(d) - 1
      BY PlacePath, PathFront
    <3>2. d \in UpTo(Front(d)) /\ Front(d) \in Place  BY <2>1 DEF Missing
    <3>3. Len(d) <= Len(Front(d))  BY <3>2, PlaceUpTo
    <3> QED  BY <3>1, <3>3
  <2> HIDE DEF M, made
  <2>7. CASE t = made
    <3>1. d \in DOMAIN t => Is(t, d, IF file THEN "file" ELSE "dir")
      BY <1>3, <2>3, <2>6, <2>7 DEF Is, Dir
    <3> QED  BY <1>3, <2>2, <2>3, <2>4, <2>5, <2>7, <3>1 DEF Dir
  <2>8. CASE /\ t = With(made, d, File("empty")) /\ file
             /\ Is(made, Front(d), "dir")
    <3>1. d \notin DOMAIN made /\ d \in Path \ {<<>>}
      BY <1>3, <2>3, <2>6, <2>8, PlacePath
    <3>2. /\ DOMAIN t = DOMAIN made \cup {d}
          /\ \A q \in DOMAIN made : t[q] = made[q]
          /\ t[d] = File("empty")
          /\ t = [q \in DOMAIN made \cup {d} |->
                    IF q = d THEN File("empty") ELSE made[q]]
      BY <2>8, <3>1 DEF With
    <3>3. File("empty") \in Node  BY Words DEF File, Node
    <3>4. IsTree(t)
      <4>1. \A q \in DOMAIN t : t[q] \in Node
        BY <2>4, <3>2, <3>3 DEF IsTree
      <4>2. t \in [DOMAIN t -> Node]  BY <3>2, <4>1
      <4>3. DOMAIN t \subseteq Path \ {<<>>}
        BY <2>4, <3>1, <3>2 DEF IsTree
      <4>4. \A q \in DOMAIN t \ {Root} : Is(t, Front(q), "dir")
        BY <2>4, <2>8, <3>2 DEF IsTree, Is, File
      <4>5. Is(t, Root, "dir")  BY <2>4, <3>2 DEF IsTree, Is
      <4> QED  BY <4>2, <4>3, <4>4, <4>5 DEF IsTree
    <3>5. Is(t, d, "file")  BY <3>2 DEF Is, File
    <3>6. \A p \in DOMAIN t \ DOMAIN fs : t[p].kind # "link"
      BY <2>2, <2>3, <3>2 DEF Dir, File
    <3> QED  BY <1>3, <2>2, <2>3, <2>5, <2>8, <3>1, <3>2, <3>4, <3>5, <3>6
  <2>9. t = made \/ (t = With(made, d, File("empty")) /\ file
                     /\ Is(made, Front(d), "dir"))
    BY DEF MountPoint, made, M
  <2> QED  BY <2>7, <2>8, <2>9
<1> QED  BY <1>2, <1>3

\* What a save directory, and a file in it, can be.
LEMMA SavedKinds ==
  ASSUME ConfigInv, TreeInv, TypeOK, NEW d \in Place, d # Root
  PROVE  /\ SaveDir(d) \in DOMAIN fs =>
              fs[SaveDir(d)] = Dir /\ SaveDir(d) \in recorded
         /\ SavePath(d) \in DOMAIN fs =>
              /\ fs[SavePath(d)].kind = "file"
              /\ d \in recorded \/ Is(config.tree, d, "file")
         /\ SaveDir(d) \notin Place /\ SavePath(d) \notin Place
         /\ ~Aside(SaveDir(d)) /\ SaveDir(d) # SavePath(d)
<1>1. /\ SaveDir(d) \in Path /\ SavePath(d) \in Path
      /\ Last(SaveDir(d)) = ".save" /\ Aside(SavePath(d))
      /\ Origin(SavePath(d)) = d
  BY SavePaths
<1>2. ~Aside(SaveDir(d)) /\ SaveDir(d) \notin Place
  BY <1>1, AsidePath, PlacePath
<1>3. /\ SavePath(d) \notin Place
      /\ Last(SavePath(d)) # ".save" /\ Last(SavePath(d)) # "new"
  BY <1>1, AsidePath
<1>4. DOMAIN config.tree \subseteq Place  BY Configured
<1>5. SaveDir(d) \in DOMAIN fs =>
        fs[SaveDir(d)] = Dir /\ SaveDir(d) \in recorded
  BY <1>1, <1>2, <1>4 DEF TreeInv, Placed
<1>6. SavePath(d) \in DOMAIN fs =>
        /\ fs[SavePath(d)].kind = "file"
        /\ d \in recorded \/ Is(config.tree, d, "file")
  BY <1>1, <1>3, <1>4 DEF TreeInv, Placed
<1> QED  BY <1>1, <1>2, <1>3, <1>5, <1>6

\* What is copied: the original, if there was one, is in the save directory.
LEMMA CopyTree ==
  ASSUME ConfigInv, TreeInv, TypeOK, NEW d \in Place, PointMade(d, TRUE),
         d \in DOMAIN MountPoint(d, TRUE), fs' \in {Moved(d), Copied(d)}
  PROVE  /\ IsTree(fs') /\ d # Root
         /\ \A p \in DOMAIN fs \ {d} :
              p \in DOMAIN fs' /\ (p # SavePath(d) => fs'[p] = fs[p])
         /\ \A p \in DOMAIN fs' \ DOMAIN fs :
              \/ p \in Place /\ p \in CopyRecords(d) /\ fs'[p].kind # "link"
              \/ p = SaveDir(d) /\ p \in CopyRecords(d) /\ fs'[p] = Dir
              \/ p = SavePath(d)
         /\ d \in DOMAIN fs =>
              /\ fs[d].kind = "file" /\ SaveDir(d) \in DOMAIN fs'
              /\ SavePath(d) \in DOMAIN fs' /\ fs'[SavePath(d)] = fs[d]
         /\ d \notin DOMAIN fs =>
              /\ d \in CopyRecords(d)
              /\ SavePath(d) \in DOMAIN fs' =>
                   SavePath(d) \in DOMAIN fs
                   /\ fs'[SavePath(d)] = fs[SavePath(d)]
         /\ d \in DOMAIN fs' => fs'[d].kind = "file"
         /\ fs' = Copied(d) => d \in DOMAIN fs'
<1> DEFINE t == fs'
<1>0. t \in {Moved(d), Copied(d)}  OBVIOUS
<1> HIDE DEF t
<1>1. IsTree(fs)  BY DEF TypeOK
<1>2. Root \in DOMAIN fs /\ fs[Root] = Dir /\ DOMAIN fs \subseteq Path \ {<<>>}
  BY <1>1 DEF IsTree, Is, Node, Dir
<1> DEFINE m == MountPoint(d, TRUE)
<1>3. /\ IsTree(m) /\ DOMAIN fs \subseteq DOMAIN m
      /\ \A p \in DOMAIN fs : m[p] = fs[p]
      /\ \A p \in DOMAIN m \ DOMAIN fs :
           p \in Place /\ p \in Records(d, TRUE) /\ m[p].kind # "link"
      /\ Is(m, d, "file")
  BY <1>1, PointTree
<1>4. d # Root
  <2> HIDE DEF m
  <2> QED  BY <1>2, <1>3 DEF Is, Dir
<1>5. /\ SaveDir(d) \in Path \ {<<>>} /\ SavePath(d) \in Path \ {<<>>}
      /\ SaveDir(d) # Root /\ SavePath(d) # Root
      /\ Front(SaveDir(d)) = Front(d) /\ Front(SavePath(d)) = SaveDir(d)
      /\ SaveDir(d) # d /\ SavePath(d) # d /\ SaveDir(d) # SavePath(d)
      /\ SaveDir(d) # Front(d)
  <2>1. Front(d) \in Place /\ Root \in Place
    <3>1. Root \in Place  BY Configured
    <3> QED  BY <1>4, <3>1, PlaceOwn, PlacePath
  <2> QED  BY <1>4, <2>1, SavePaths, SavedKinds
<1>6. CASE d \in DOMAIN fs
  <2>1. fs[d].kind = "file" /\ fs[d] \in Node
    BY <1>1, <1>3, <1>6 DEF Is, IsTree
  <2>2. Front(d) \in DOMAIN fs /\ fs[Front(d)] = Dir
    BY <1>1, <1>4, <1>6, TreeFront
  <2>3. SaveDir(d) \in DOMAIN fs => fs[SaveDir(d)] = Dir
    BY <1>4, SavedKinds
  <2>4. SavePath(d) \in DOMAIN fs => fs[SavePath(d)].kind = "file"
    BY <1>4, SavedKinds
  <2> DEFINE moved == Moved(d)
  <2>5. /\ DOMAIN moved = (DOMAIN fs \ {d}) \cup {SaveDir(d), SavePath(d)}
        /\ moved[SaveDir(d)] = Dir /\ moved[SavePath(d)] = fs[d]
        /\ \A p \in DOMAIN fs \ {d, SaveDir(d), SavePath(d)} : moved[p] = fs[p]
    BY <1>5, <1>6 DEF Moved, With, Without
  <2>6. t = moved \/ t = With(moved, d, File("copy"))
    BY <1>0 DEF Copied
  <2> HIDE DEF moved
  <2>7. /\ DOMAIN t \subseteq DOMAIN moved \cup {d}
        /\ DOMAIN moved \subseteq DOMAIN t
        /\ \A p \in DOMAIN moved : t[p] = moved[p]
        /\ d \in DOMAIN t => t[d] = File("copy")
        /\ t = [p \in DOMAIN t |-> t[p]]
    <3>1. moved = [p \in DOMAIN moved |-> moved[p]]
      BY <1>6 DEF moved, Moved, With
    <3>2. d \notin DOMAIN moved  BY <1>5, <2>5
    <3> QED  BY <2>6, <3>1, <3>2 DEF With
  <2>8. IsTree(t)
    <3>1. File("copy") \in Node /\ Dir \in Node  BY Words DEF File, Node
    <3>2. \A p \in DOMAIN t : t[p] \in Node /\ p \in Path \ {<<>>}
      BY <1>1, <1>2, <1>5, <2>1, <2>5, <2>7, <3>1, PlacePath DEF IsTree
    <3>3. t \in [DOMAIN t -> Node]  BY <2>7, <3>2
    <3>4. ASSUME NEW p \in DOMAIN fs, fs[p] = Dir
          PROVE  p \in DOMAIN t /\ t[p] = Dir
      BY <2>1, <2>3, <2>4, <2>5, <2>7, <3>4 DEF Dir
    <3>5. ASSUME NEW p \in DOMAIN t, p # Root
          PROVE  Is(t, Front(p), "dir")
      <4>1. CASE p \in {d, SaveDir(d)}
        BY <1>5, <2>2, <3>4, <4>1 DEF Is, Dir
      <4>2. CASE p = SavePath(d)
        BY <1>5, <2>5, <2>7, <4>2 DEF Is, Dir
      <4>3. CASE p \in DOMAIN fs
        <5>1. Front(p) \in DOMAIN fs /\ fs[Front(p)] = Dir
          BY <1>1, <3>5, <4>3, TreeFront
        <5> QED  BY <3>4, <5>1 DEF Is, Dir
      <4> QED  BY <2>5, <2>7, <3>5, <4>1, <4>2, <4>3
    <3>6. Is(t, Root, "dir")  BY <1>2, <3>4 DEF Is, Dir
    <3> QED  BY <3>2, <3>3, <3>5, <3>6 DEF IsTree
  <2>9. SaveDir(d) \notin DOMAIN fs => SaveDir(d) \in CopyRecords(d)
    BY <1>6 DEF CopyRecords
  <2>10. t = Copied(d) => d \in DOMAIN t
    BY DEF Copied, With
  <2> QED
    BY <1>4, <1>6, <2>1, <2>3, <2>5, <2>7, <2>8, <2>9, <2>10 DEF File, t
<1>7. CASE d \notin DOMAIN fs
  <2>1. t = m \/ t = With(m, d, File("copy"))
    BY <1>0, <1>7 DEF Moved, Copied
  <2>2. Records(d, TRUE) \subseteq CopyRecords(d) /\ d \in Records(d, TRUE)
    BY <1>7 DEF CopyRecords, Records
  <2>3. SavePath(d) \in DOMAIN m => SavePath(d) \in DOMAIN fs
    BY <1>3, <1>4, SavedKinds
  <2> HIDE DEF m
  <2>4. m = [p \in DOMAIN m |-> m[p]]  BY <1>3 DEF IsTree
  <2>5. /\ DOMAIN t = DOMAIN m /\ t = [p \in DOMAIN t |-> t[p]]
        /\ \A p \in DOMAIN m \ {d} : t[p] = m[p]
        /\ t[d] = m[d] \/ t[d] = File("copy")
    BY <1>3, <2>1, <2>4 DEF With, Is
  <2>6. t[d].kind = "file"  BY <1>3, <2>5 DEF Is, File
  <2>7. IsTree(t)
    <3>1. File("copy") \in Node  BY Words DEF File, Node
    <3>2. \A p \in DOMAIN t : t[p] \in Node
      BY <1>3, <2>5, <3>1 DEF IsTree
    <3>3. t \in [DOMAIN t -> Node]  BY <2>5, <3>2
    <3>4. ASSUME NEW p \in DOMAIN m, m[p].kind = "dir"
          PROVE  p \in DOMAIN t /\ t[p].kind = "dir"
      BY <1>3, <2>5, <3>4 DEF Is
    <3>5. \A p \in DOMAIN t \ {Root} : Is(t, Front(p), "dir")
      BY <1>3, <2>5, <3>4 DEF IsTree, Is
    <3>6. Is(t, Root, "dir")  BY <1>3, <3>4 DEF IsTree, Is
    <3> QED  BY <1>3, <2>5, <3>3, <3>5, <3>6 DEF IsTree
  <2>8. \A p \in DOMAIN t \ DOMAIN fs :
          p \in Place /\ p \in CopyRecords(d) /\ t[p].kind # "link"
    BY <1>3, <2>2, <2>5, <2>6
  <2> QED
    BY <1>3, <1>4, <1>5, <1>7, <2>2, <2>3, <2>5, <2>6, <2>7, <2>8 DEF Is, t
<1> QED  BY <1>6, <1>7

\* What is recorded for a mount point is where nothing is yet.
LEMMA RecordPlaces ==
  ASSUME IsTree(fs), NEW d \in Place, NEW file \in BOOLEAN
  PROVE  Records(d, file) \subseteq Place \ DOMAIN fs
<1>1. Root \in DOMAIN fs  BY DEF IsTree, Is
<1>2. CASE d \in DOMAIN fs
  BY <1>2 DEF Records
<1>3. CASE d \notin DOMAIN fs
  <2>1. (IF file THEN Front(d) ELSE d) \in Place
    BY <1>1, <1>3, PlaceOwn, PlacePath
  <2> QED  BY <1>3, <2>1, PlaceUpTo DEF Records, Missing
<1> QED  BY <1>2, <1>3

\* No step makes a save directory for what is not below the root.
LEMMA SavedPlace ==
  ASSUME ConfigInv, TreeInv, NEW d \in Place \cup {ELOOP},
         SavePath(d) \in DOMAIN fs
  PROVE  d \in Place \ {Root}
<1> SUFFICES ASSUME d = Root \/ d = ELOOP PROVE FALSE
  OBVIOUS
<1>1. \A e \in Word : <<e>> \in Path /\ Len(<<e>>) = 1 /\ <<e>>[1] = e
  <2>1. ASSUME NEW S, NEW e \in S
        PROVE  <<e>> \in Seq(S) /\ Len(<<e>>) = 1 /\ <<e>>[1] = e
    OBVIOUS
  <2> QED  BY <2>1 DEF Path
<1>2. d \in Path /\ Len(d) = 1 /\ d[1] \in {"root", "ELOOP"}
  BY <1>1, Words DEF Root, ELOOP
<1>3. d # <<>> /\ Last(d) \in {"root", "ELOOP"}
  <2>1. d # <<>>  BY <1>2, EmptySeq
  <2> QED  BY <1>2, <2>1 DEF Last
<1>4. Front(d) \in Path /\ Len(Front(d)) = 0 /\ Last(d) \in Word
  BY <1>2, <1>3, PathFront
<1>5. /\ SaveDir(d) \in Path /\ Len(SaveDir(d)) = 1
      /\ Last(SaveDir(d)) = ".save"
  <2>1. ".save" \in Word  BY Words
  <2>2. /\ SaveDir(d) \in Path /\ Len(SaveDir(d)) = Len(Front(d)) + 1
        /\ Last(SaveDir(d)) = ".save"
    BY <1>4, <2>1, PathAppend DEF SaveDir
  <2> QED  BY <1>4, <2>2
<1>6. /\ SavePath(d) \in Path /\ Len(SavePath(d)) = 2
      /\ Front(SavePath(d)) = SaveDir(d) /\ Last(SavePath(d)) = Last(d)
  <2>1. /\ SavePath(d) \in Path /\ Len(SavePath(d)) = Len(SaveDir(d)) + 1
        /\ Front(SavePath(d)) = SaveDir(d) /\ Last(SavePath(d)) = Last(d)
    BY <1>4, <1>5, PathAppend DEF SavePath
  <2> QED  BY <1>5, <2>1
<1>7. ~Aside(SavePath(d))  BY <1>6 DEF Aside
<1>8. SavePath(d) \notin Place
  <2> SUFFICES ASSUME SavePath(d) \in Place PROVE FALSE
    OBVIOUS
  <2>1. SaveDir(d) \in Place  BY <1>6, PlacePath
  <2> QED  BY <1>5, <2>1, PlacePath
<1>9. Last(SavePath(d)) \notin {".save", "new"}  BY <1>3, <1>6
<1> QED  BY <1>7, <1>8, <1>9, Configured DEF TreeInv, Placed

\* The root after an original has been put back.
LEMMA RestoreTree ==
  ASSUME ConfigInv, TreeInv, OriginInv, IsTree(fs), NEW d \in Place, d # Root,
         SavePath(d) \in DOMAIN fs, fs[SavePath(d)].kind = "file", NEW t,
         t = With(Without(fs, {SavePath(d)}), d, fs[SavePath(d)])
  PROVE  /\ IsTree(t) /\ d # SavePath(d)
         /\ DOMAIN t = (DOMAIN fs \ {SavePath(d)}) \cup {d}
         /\ \A p \in DOMAIN t \ {d} : t[p] = fs[p]
         /\ t[d] = fs[SavePath(d)]
<1>1. /\ SavePath(d) \in Path \ {<<>>} /\ Front(SavePath(d)) = SaveDir(d)
      /\ Front(SaveDir(d)) = Front(d) /\ Front(d) \in Place
      /\ Last(SaveDir(d)) = ".save"
      /\ Aside(SavePath(d)) /\ Origin(SavePath(d)) = d
  BY SavePaths
<1>2. d # SavePath(d) /\ Root # SavePath(d) /\ d \in Path \ {<<>>}
      /\ SaveDir(d) # Root
  <2>1. Root \in Place /\ d \in Path \ {<<>>}  BY Configured, PlacePath
  <2>2. SaveDir(d) \notin Place  BY <1>1, PlacePath
  <2> QED  BY <1>1, <2>1, <2>2, AsidePath
<1>3. /\ DOMAIN t = (DOMAIN fs \ {SavePath(d)}) \cup {d}
      /\ \A p \in DOMAIN t \ {d} : t[p] = fs[p]
      /\ t[d] = fs[SavePath(d)]
      /\ t = [p \in DOMAIN t |-> t[p]]
  BY <1>2 DEF With, Without
<1>4. Front(d) \in DOMAIN fs /\ fs[Front(d)] = Dir
  BY <1>1, <1>2, TreeFront
<1>5. d \in DOMAIN fs => fs[d].kind = "file"
  BY <1>1 DEF OriginInv
<1>6. t \in [DOMAIN t -> Node] /\ DOMAIN t \subseteq Path \ {<<>>}
  <2>1. \A p \in DOMAIN t : t[p] \in Node /\ p \in Path \ {<<>>}
    BY <1>2, <1>3 DEF IsTree
  <2> QED  BY <1>3, <2>1
<1>7. ASSUME NEW p \in DOMAIN fs, fs[p] = Dir
      PROVE  p \in DOMAIN t /\ t[p] = Dir
  BY <1>3, <1>5, <1>7 DEF Dir
<1>8. ASSUME NEW p \in DOMAIN t, p # Root
      PROVE  Is(t, Front(p), "dir")
  BY <1>3, <1>4, <1>7, <1>8, TreeFront DEF Is, Dir
<1>9. Is(t, Root, "dir")
  BY <1>7 DEF IsTree, Is, Node, Dir
<1> QED  BY <1>2, <1>3, <1>6, <1>8, <1>9 DEF IsTree

\* A path is strictly below the one without its last element.
LEMMA FrontBelow ==
  ASSUME NEW p \in Path \ {<<>>}
  PROVE  StrictlyBelow(Front(p), p)
<1>1. /\ Len(p) \in Nat \ {0} /\ Front(p) \in Path
      /\ Len(Front(p)) = Len(p) - 1
  BY PathFront
<1>2. Front(p) # p /\ Len(Front(p)) <= Len(p)  BY <1>1
<1>3. SubSeq(Front(p), 1, Len(Front(p))) = Front(p)
  BY <1>1, SubSeqFull DEF Path
<1>4. SubSeq(p, 1, Len(Front(p))) = Front(p)
  BY <1>1 DEF Front
<1> QED  BY <1>2, <1>3, <1>4 DEF StrictlyBelow, IsPrefix

\* The root after one path has gone, with nothing below it.
LEMMA RemoveTree ==
  ASSUME IsTree(fs), NEW p \in Path, p # Root,
         \A q \in DOMAIN fs : ~StrictlyBelow(p, q)
  PROVE  /\ IsTree(Without(fs, {p}))
         /\ DOMAIN Without(fs, {p}) = DOMAIN fs \ {p}
         /\ \A q \in DOMAIN fs \ {p} : Without(fs, {p})[q] = fs[q]
<1> DEFINE t == Without(fs, {p})
<1>1. /\ DOMAIN t = DOMAIN fs \ {p} /\ \A q \in DOMAIN t : t[q] = fs[q]
      /\ t = [q \in DOMAIN t |-> t[q]]
  BY DEF Without
<1> HIDE DEF t
<1>2. \A q \in DOMAIN t : t[q] \in Node /\ q \in Path \ {<<>>} /\ Front(q) # p
  BY <1>1, FrontBelow DEF IsTree
<1>3. t \in [DOMAIN t -> Node]  BY <1>1, <1>2
<1>4. \A q \in DOMAIN t \ {Root} : Is(t, Front(q), "dir")
  BY <1>1, <1>2, TreeFront DEF Is, Dir
<1>5. Is(t, Root, "dir")  BY <1>1 DEF IsTree, Is
<1>6. IsTree(t)  BY <1>2, <1>3, <1>4, <1>5 DEF IsTree
<1> QED  BY <1>1, <1>6 DEF t

\* The root after the container has made a file.
LEMMA WriteTree ==
  ASSUME IsTree(fs), NEW p \in DOMAIN fs, Is(fs, p, "dir"), NEW q,
         q = Append(p, "new"), q \notin DOMAIN fs,
         fs' = With(fs, q, File("user"))
  PROVE  /\ IsTree(fs') /\ DOMAIN fs' = DOMAIN fs \cup {q}
         /\ \A r \in DOMAIN fs : fs'[r] = fs[r]
         /\ fs'[q] = File("user") /\ Last(q) = "new" /\ Front(q) = p
<1> DEFINE t == fs'
<1>0. t = With(fs, q, File("user"))  OBVIOUS
<1> HIDE DEF t
<1>1. p \in Path /\ fs[p] = Dir  BY DEF IsTree, Is, Node, Dir
<1>2. q \in Path \ {<<>>} /\ Front(q) = p /\ Last(q) = "new"
  BY <1>1, PathAppend, Words
<1>3. /\ DOMAIN t = DOMAIN fs \cup {q} /\ \A r \in DOMAIN fs : t[r] = fs[r]
      /\ t[q] = File("user") /\ t = [r \in DOMAIN t |-> t[r]]
  BY <1>0 DEF With
<1>4. File("user") \in Node  BY Words DEF File, Node
<1>5. \A r \in DOMAIN t : t[r] \in Node /\ r \in Path \ {<<>>}
  BY <1>2, <1>3, <1>4 DEF IsTree
<1>6. t \in [DOMAIN t -> Node]  BY <1>3, <1>5
<1>7. \A r \in DOMAIN t \ {Root} : Is(t, Front(r), "dir")
  <2>1. ASSUME NEW r \in DOMAIN fs, r # Root
        PROVE  Is(t, Front(r), "dir")
    BY <1>3, <2>1, TreeFront DEF Is, Dir
  <2>2. Is(t, Front(q), "dir")  BY <1>1, <1>2, <1>3 DEF Is, Dir
  <2> QED  BY <1>3, <2>1, <2>2
<1>8. Is(t, Root, "dir")  BY <1>3 DEF IsTree, Is
<1> QED  BY <1>2, <1>3, <1>5, <1>6, <1>7, <1>8 DEF IsTree, t

-----------------------------------------------------------------------------
(* What a step does to the root, and the record.                           *)

\* Whatever a step does to the root, it does it at the place of a volume.
LEMMA TreeSteps ==
  ASSUME ConfigInv, TreeInv, TypeOK, [Next]_vars
  PROVE  TreeMoves
<1>0. i \in Nat /\ i + 1 >= i /\ i >= i
  BY Configured DEF TypeOK
<1>1. ASSUME i <= Len(config.mounts)
      PROVE  /\ i \in DOMAIN config.mounts /\ Destination = At(i)
             /\ Destination # ELOOP => Destination \in Place
  BY <1>1, Destinations
<1>2. IsFileMount \in BOOLEAN  BY DEF IsFileMount
<1>3. ASSUME MountThrows, step \in Creating
      PROVE  /\ config' = config /\ step' \in {"failed", "unmount"} /\ up' = up
  BY <1>3 DEF MountThrows, localVars
<1>4. CASE PointFails
  <2>1. step \in {"prepare", "mount"} /\ fs' = fs /\ MountThrows
        /\ i <= Len(config.mounts)
    BY <1>4 DEF PointFails
  <2>2. (fs' = fs /\ recorded' = recorded) \/ Marks
    BY <1>1, <1>2, <1>4, <2>1 DEF PointFails, Marks
  <2> QED  BY <1>3, <2>1, <2>2 DEF TreeMoves, Creating
<1>5. CASE Prepare
  BY <1>1, <1>2, <1>5 DEF Prepare, TreeMoves, Creating, Points
<1>6. ASSUME IsFileMount, i \in DOMAIN config.mounts
      PROVE  IsFileMount = TRUE /\ FileAt(i)
  BY <1>6 DEF IsFileMount, FileAt, Volume
<1>7. Copies => ~config.files  BY DEF Copies, ConfigInv
<1>8. CASE MountVolume
  <2>1. /\ step = "mount" /\ step' = step /\ config' = config
        /\ i <= Len(config.mounts) /\ i' = i + 1 /\ i' >= i
        /\ Destination \in Place /\ PointMade(Destination, IsFileMount)
    BY <1>0, <1>1, <1>8 DEF MountVolume
  <2>2. CASE ~Copies
    <3>1. Points  BY <1>2, <1>8, <2>1, <2>2 DEF MountVolume, Points
    <3> QED  BY <2>1, <3>1 DEF TreeMoves, Creating
  <2>3. CASE Copies
    <3>1. IsFileMount = TRUE /\ CopyAt(i)
      BY <1>1, <1>6, <1>7, <2>1, <2>3 DEF Copies, CopyAt
    <3>2. /\ fs' = Copied(Destination) /\ ~tries' /\ ~alias
          /\ recorded' = recorded \cup CopyRecords(Destination)
          /\ Destination \in DOMAIN MountPoint(Destination, TRUE)
      BY <1>8, <2>3, <3>1 DEF MountVolume
    <3>3. CopiesTo(Destination)
      BY <1>1, <2>1, <3>1, <3>2 DEF CopiesTo
    <3> QED  BY <2>1, <3>3 DEF TreeMoves, Creating
  <2> QED  BY <2>2, <2>3
<1>9. CASE MountFails
  <2>1. step = "mount" /\ i <= Len(config.mounts) /\ MountThrows
    BY <1>9 DEF MountFails
  <2>2. Points  BY <1>1, <1>2, <1>9, <2>1 DEF MountFails, Points
  <2> QED  BY <1>3, <2>1, <2>2 DEF TreeMoves, Creating
<1>10. CASE CopyFails
  <2>1. /\ step = "mount" /\ i <= Len(config.mounts) /\ MountThrows
        /\ i \in DOMAIN config.mounts /\ Destination = At(i)
        /\ Destination \in Place
    BY <1>1, <1>10 DEF CopyFails
  <2>2. CopyAt(i) /\ ~up
    BY <1>6, <1>7, <1>10, <2>1
    DEF CopyFails, CopyAt, Copies, ConfigInv, Creating
  <2>3. step' \in {"failed", "unmount"} /\ ~up' /\ ~alias
    BY <1>3, <1>10, <2>1, <2>2 DEF Creating, CopyFails
  <2>4. /\ PointMade(Destination, TRUE)
        /\ Destination \in DOMAIN MountPoint(Destination, TRUE)
        /\ fs' \in {Moved(Destination), Copied(Destination)}
        /\ recorded' = recorded \cup CopyRecords(Destination)
    BY <1>10 DEF CopyFails
  <2>5. CopiesTo(Destination)
    BY <2>1, <2>2, <2>3, <2>4 DEF CopiesTo
  <2> QED  BY <1>3, <2>1, <2>5 DEF TreeMoves, Creating
<1>11. CASE MountsDone
  BY <1>11 DEF MountsDone, TreeMoves, Creating
<1>12. CASE Alias
  BY <1>12 DEF Alias, TreeMoves, Creating
<1>13. CASE ContainerWrites
  BY <1>13 DEF ContainerWrites, TreeMoves, Creating, Writes
<1>14. CASE SourceGone
  BY <1>14 DEF SourceGone, TreeMoves, Creating
<1>15. CASE Stop
  BY <1>15 DEF Stop, TreeMoves, Creating
<1>16. CASE UnmountVolume
  <2>1. /\ step = "unmount" /\ step' = step /\ config' = config
        /\ i \in DOMAIN config.mounts /\ Destination = At(i)
        /\ Destination \in Place \cup {ELOOP} /\ recorded' = recorded
    BY <1>1, <1>16 DEF UnmountVolume
  <2>2. CASE fs' = fs
    BY <2>1, <2>2 DEF TreeMoves, Creating
  <2>3. CASE fs' # fs
    <3>1. Restores(Destination)
      BY <1>16, <2>1, <2>3 DEF UnmountVolume, Restores
    <3> QED  BY <2>1, <3>1 DEF TreeMoves, Creating
  <2> QED  BY <2>2, <2>3
<1>17. CASE UnmountsDone
  BY <1>17 DEF UnmountsDone, TreeMoves, Creating
<1>18. CASE RemovePoint
  <2>1. /\ step = "remove" /\ step' = step /\ config' = config
        /\ recorded' = recorded
        /\ fs' = fs \/ \E p \in todo : Removes(p)
    BY <1>18 DEF RemovePoint, Removes
  <2> QED  BY <2>1 DEF TreeMoves, Creating
<1>19. CASE RemovesDone
  BY <1>19 DEF RemovesDone, TreeMoves, Creating
<1>20. CASE DeleteAgain
  BY <1>20 DEF DeleteAgain, TreeMoves, Creating
<1>21. CASE UNCHANGED vars
  BY <1>0, <1>21 DEF vars, TreeMoves, Creating
<1> QED
  BY <1>4, <1>5, <1>8, <1>9, <1>10, <1>11, <1>12, <1>13, <1>14, <1>15, <1>16,
     <1>17, <1>18, <1>19, <1>20, <1>21 DEF Next

-----------------------------------------------------------------------------
(* The root stays what TreeInv says.                                       *)

\* All that is said of the root, and of the record of what was made there.
RootInv == IsTree(fs) /\ TreeInv /\ OriginInv /\ RecordInv

\* What is at a place, if it is a file, was a file at first or is recorded.
LEMMA FilePlaced ==
  ASSUME NEW d \in Place, d \in DOMAIN fs, Placed(d), fs[d].kind = "file"
  PROVE  Is(config.tree, d, "file") \/ d \in recorded
<1>1. Last(d) \notin {".save", "new"} /\ ~Aside(d)
  BY PlacePath, AsidePath
<1> QED  BY <1>1 DEF Placed, Is

\* What is left alone is still placed when more is recorded.
LEMMA StillPlaced ==
  ASSUME NEW p \in DOMAIN fs, Placed(p), config' = config, p \in DOMAIN fs',
         fs'[p] = fs[p], recorded \subseteq recorded'
  PROVE  Placed(p)'
BY DEF Placed

\* The steps that leave the root alone, the record growing or not.
LEMMA StayKeeps ==
  ASSUME ConfigInv, RootInv, TreeMoves, fs' = fs,
         recorded' = recorded \/ Marks
  PROVE  RootInv'
<1>1. recorded \subseteq recorded' /\ config' = config
  BY DEF TreeMoves, Marks
<1>2. TreeInv'
  <2>1. \A p \in DOMAIN fs : Placed(p)'
    BY <1>1, StillPlaced DEF RootInv, TreeInv
  <2> QED  BY <1>1, <2>1 DEF RootInv, TreeInv, TreeMoves, Creating
<1>3. OriginInv'  BY DEF RootInv, OriginInv, TreeMoves, Creating
<1>4. RecordInv'
  <2>1. CASE recorded' = recorded
    BY <1>1, <2>1 DEF RootInv, RecordInv
  <2>2. CASE Marks
    <3>1. PICK d \in Place, file \in BOOLEAN :
            recorded' = recorded \cup Records(d, file)
      BY <2>2 DEF Marks
    <3>2. Records(d, file) \subseteq Place \ DOMAIN fs
      BY RecordPlaces DEF RootInv
    <3>3. DOMAIN config.tree \subseteq DOMAIN fs
      BY <2>2 DEF Marks, RootInv, TreeInv, Creating
    <3> QED  BY <1>1, <3>1, <3>2, <3>3, PlacePath DEF RootInv, RecordInv
  <2> QED  BY <2>1, <2>2
<1> QED  BY <1>2, <1>3, <1>4 DEF RootInv

\* A mount point is made.
LEMMA PointKeeps ==
  ASSUME ConfigInv, RootInv, TreeMoves, Points
  PROVE  RootInv'
<1>1. PICK d \in Place, file \in BOOLEAN :
        /\ PointMade(d, file) /\ fs' = MountPoint(d, file)
        /\ recorded' = recorded \cup Records(d, file)
  BY DEF Points
<1>2. /\ IsTree(fs') /\ DOMAIN fs \subseteq DOMAIN fs'
      /\ \A p \in DOMAIN fs : fs'[p] = fs[p]
      /\ \A p \in DOMAIN fs' \ DOMAIN fs :
           p \in Place /\ p \in Records(d, file) /\ fs'[p].kind # "link"
      /\ Records(d, file) \subseteq Place \ DOMAIN fs
  BY <1>1, PointTree DEF RootInv
<1>3. config' = config /\ step \in Creating
  BY DEF TreeMoves, Points, Creating
<1>4. DOMAIN config.tree \subseteq DOMAIN fs
  BY <1>3 DEF RootInv, TreeInv
<1>5. TreeInv'
  <2>1. \A p \in DOMAIN fs : Placed(p)'
    BY <1>1, <1>2, <1>3, StillPlaced DEF RootInv, TreeInv
  <2>2. \A p \in DOMAIN fs' \ DOMAIN fs : Placed(p)'
    BY <1>1, <1>2 DEF Placed
  <2> QED  BY <1>2, <1>3, <1>4, <2>1, <2>2 DEF RootInv, TreeInv
<1>6. OriginInv'
  <2> SUFFICES ASSUME NEW p \in DOMAIN fs', Aside(p)
               PROVE  Origin(p) \in DOMAIN fs' /\ fs'[Origin(p)].kind = "file"
    BY DEF OriginInv
  <2>1. p \in Path  BY <1>2 DEF IsTree
  <2>2. p \in DOMAIN fs  BY <1>2, <2>1, AsidePath
  <2>3. Origin(p) \in DOMAIN fs /\ fs[Origin(p)].kind = "file"
    BY <1>3, <2>2 DEF RootInv, OriginInv
  <2> QED  BY <1>2, <2>3
<1>7. RecordInv'
  BY <1>1, <1>2, <1>3, <1>4, PlacePath DEF RootInv, RecordInv
<1> QED  BY <1>2, <1>5, <1>6, <1>7 DEF RootInv

\* A file is copied, what was there before being moved aside.
LEMMA CopyKeeps ==
  ASSUME ConfigInv, TypeOK, RootInv, TreeMoves, NEW d \in Place, CopiesTo(d)
  PROVE  RootInv'
<1>1. /\ PointMade(d, TRUE) /\ d \in DOMAIN MountPoint(d, TRUE)
      /\ fs' \in {Moved(d), Copied(d)} /\ step = "mount"
      /\ recorded' = recorded \cup CopyRecords(d)
      /\ step' \in Creating \cup {"up"} => fs' = Copied(d)
  BY DEF CopiesTo, Creating
<1>2. /\ IsTree(fs') /\ d # Root
      /\ \A p \in DOMAIN fs \ {d} :
           p \in DOMAIN fs' /\ (p # SavePath(d) => fs'[p] = fs[p])
      /\ \A p \in DOMAIN fs' \ DOMAIN fs :
           \/ p \in Place /\ p \in CopyRecords(d) /\ fs'[p].kind # "link"
           \/ p = SaveDir(d) /\ p \in CopyRecords(d) /\ fs'[p] = Dir
           \/ p = SavePath(d)
      /\ d \in DOMAIN fs =>
           /\ fs[d].kind = "file" /\ SaveDir(d) \in DOMAIN fs'
           /\ SavePath(d) \in DOMAIN fs' /\ fs'[SavePath(d)] = fs[d]
      /\ d \notin DOMAIN fs =>
           /\ d \in CopyRecords(d)
           /\ SavePath(d) \in DOMAIN fs' =>
                SavePath(d) \in DOMAIN fs
                /\ fs'[SavePath(d)] = fs[SavePath(d)]
      /\ d \in DOMAIN fs' => fs'[d].kind = "file"
      /\ fs' = Copied(d) => d \in DOMAIN fs'
  BY <1>1, CopyTree DEF RootInv
<1>3. /\ config' = config /\ recorded \subseteq recorded'
      /\ CopyRecords(d) \subseteq recorded'
  BY <1>1 DEF TreeMoves
<1>4. /\ DOMAIN config.tree \subseteq DOMAIN fs
      /\ DOMAIN config.tree \subseteq Place
  BY <1>1, Configured DEF RootInv, TreeInv, Creating
<1>5. /\ SaveDir(d) \in Path \ {<<>>} /\ Last(SaveDir(d)) = ".save"
      /\ Front(SaveDir(d)) \in Place /\ Aside(SavePath(d))
      /\ Origin(SavePath(d)) = d /\ SavePath(d) \notin Place
      /\ SaveDir(d) \notin Place /\ ~Aside(SaveDir(d))
  BY <1>2, SavePaths, SavedKinds DEF RootInv
<1>6. d \in DOMAIN fs => Is(config.tree, d, "file") \/ d \in recorded
  BY <1>2, FilePlaced DEF RootInv, TreeInv
<1>7. TreeInv'
  <2>1. ASSUME NEW p \in DOMAIN fs'
        PROVE  Placed(p)'
    <3>1. CASE p \in DOMAIN fs \ {d, SavePath(d)}
      BY <1>2, <1>3, <3>1, StillPlaced DEF RootInv, TreeInv
    <3>2. CASE p = SavePath(d)
      <4>1. CASE d \in DOMAIN fs
        BY <1>2, <1>3, <1>5, <1>6, <3>2, <4>1 DEF Placed
      <4>2. CASE d \notin DOMAIN fs
        BY <1>2, <1>3, <3>2, <4>2, <2>1, StillPlaced DEF RootInv, TreeInv
      <4> QED  BY <4>1, <4>2
    <3>3. CASE p = d
      <4>1. fs'[d].kind = "file"  BY <1>2, <2>1, <3>3
      <4>2. Is(config.tree, d, "file") \/ d \in recorded'
        BY <1>2, <1>3, <1>6
      <4> QED  BY <1>3, <3>3, <4>1, <4>2 DEF Placed, Is
    <3>4. CASE p \notin DOMAIN fs /\ p # SavePath(d)
      BY <1>2, <1>3, <1>5, <3>4 DEF Placed
    <3> QED  BY <3>1, <3>2, <3>3, <3>4
  <2>2. ASSUME NEW p \in DOMAIN config.tree, config.tree[p].kind # "file"
        PROVE  p \in DOMAIN fs' /\ fs'[p] = config.tree[p]
    <3>1. p \in DOMAIN fs /\ fs[p] = config.tree[p]
      BY <2>2 DEF RootInv, TreeInv
    <3> QED  BY <1>2, <1>4, <1>5, <2>2, <3>1
  <2>3. ASSUME NEW p \in DOMAIN config.tree, step' \in Creating \cup {"up"}
        PROVE  p \in DOMAIN fs'
    BY <1>1, <1>2, <1>4, <2>3
  <2> QED  BY <1>3, <2>1, <2>2, <2>3 DEF TreeInv, Creating
<1>8. OriginInv'
  <2> SUFFICES ASSUME NEW p \in DOMAIN fs', Aside(p)
               PROVE  /\ Origin(p) \in DOMAIN fs' =>
                           fs'[Origin(p)].kind = "file"
                      /\ step' \in Creating => Origin(p) \in DOMAIN fs'
    BY DEF OriginInv, Creating
  <2>1. CASE Origin(p) = d
    BY <1>1, <1>2, <2>1
  <2>2. CASE Origin(p) # d
    <3>1. p \in Path /\ Origin(p) \in Place /\ p \notin Place
      BY <1>2, AsidePath DEF IsTree
    <3>2. p \in DOMAIN fs  BY <1>2, <1>5, <2>2, <3>1
    <3>3. Origin(p) \in DOMAIN fs /\ fs[Origin(p)].kind = "file"
      BY <1>1, <3>2 DEF RootInv, OriginInv, Creating
    <3> QED  BY <1>2, <1>5, <2>2, <3>1, <3>3
  <2> QED  BY <2>1, <2>2
<1>9. RecordInv'
  <2>1. Records(d, TRUE) \subseteq Place \ DOMAIN fs
    BY RecordPlaces DEF RootInv
  <2>2. \A p \in CopyRecords(d) : p \in Place \ DOMAIN fs \/ p = SaveDir(d)
    BY <2>1 DEF CopyRecords
  <2> QED
    BY <1>1, <1>3, <1>4, <1>5, <2>2, PlacePath DEF RootInv, RecordInv
<1> QED  BY <1>2, <1>7, <1>8, <1>9 DEF RootInv

\* An original is put back.
LEMMA RestoreKeeps ==
  ASSUME ConfigInv, TypeOK, RootInv, TreeMoves,
         NEW d \in Place \cup {ELOOP}, Restores(d)
  PROVE  RootInv'
<1>1. /\ step' = "unmount" /\ SavePath(d) \in DOMAIN fs
      /\ fs' = With(Without(fs, {SavePath(d)}), d, fs[SavePath(d)])
      /\ recorded' = recorded /\ config' = config
  BY DEF Restores, TreeMoves
<1>2. d \in Place /\ d # Root  BY <1>1, SavedPlace DEF RootInv
<1>3. /\ fs[SavePath(d)].kind = "file"
      /\ d \in recorded \/ Is(config.tree, d, "file")
      /\ SavePath(d) \notin Place
  BY <1>1, <1>2, SavedKinds DEF RootInv
<1>4. /\ IsTree(fs') /\ d # SavePath(d)
      /\ DOMAIN fs' = (DOMAIN fs \ {SavePath(d)}) \cup {d}
      /\ \A p \in DOMAIN fs' \ {d} : fs'[p] = fs[p]
      /\ fs'[d] = fs[SavePath(d)]
  <2>1. PICK t : t = fs'  OBVIOUS
  <2>2. /\ TreeInv /\ OriginInv /\ IsTree(fs)
        /\ t = With(Without(fs, {SavePath(d)}), d, fs[SavePath(d)])
    BY <1>1, <2>1 DEF RootInv
  <2> QED  BY <1>1, <1>2, <1>3, <2>1, <2>2, RestoreTree
<1>5. TreeInv'
  <2>1. \A p \in DOMAIN fs' \ {d} : Placed(p)'
    BY <1>1, <1>4, StillPlaced DEF RootInv, TreeInv
  <2>2. Placed(d)'
    BY <1>1, <1>2, <1>3, <1>4 DEF Placed, Is
  <2>3. ASSUME NEW p \in DOMAIN config.tree, config.tree[p].kind # "file"
        PROVE  p \in DOMAIN fs' /\ fs'[p] = config.tree[p]
    <3>1. p # d  BY <1>3, <2>3 DEF RootInv, RecordInv, Is
    <3>2. p # SavePath(d)  BY <1>3, Configured
    <3> QED  BY <1>4, <2>3, <3>1, <3>2 DEF RootInv, TreeInv
  <2> QED  BY <1>1, <2>1, <2>2, <2>3 DEF TreeInv, Creating
<1>6. OriginInv'
  <2> SUFFICES ASSUME NEW p \in DOMAIN fs', Aside(p), Origin(p) \in DOMAIN fs'
               PROVE  fs'[Origin(p)].kind = "file"
    BY <1>1 DEF OriginInv, Creating
  <2>1. p \notin Place  BY <1>4, AsidePath DEF IsTree
  <2>2. p \in DOMAIN fs  BY <1>2, <1>4, <2>1
  <2> QED  BY <1>3, <1>4, <2>2 DEF RootInv, OriginInv
<1>7. RecordInv'  BY <1>1 DEF RootInv, RecordInv
<1> QED  BY <1>4, <1>5, <1>6, <1>7 DEF RootInv

\* A recorded path is removed.
LEMMA RemoveKeeps ==
  ASSUME ConfigInv, TypeOK, RootInv, TreeMoves, NEW p \in todo, Removes(p)
  PROVE  RootInv'
<1>1. /\ step' = "remove" /\ fs' = Without(fs, {p})
      /\ recorded' = recorded /\ config' = config
      /\ \A q \in DOMAIN fs : ~StrictlyBelow(p, q)
  BY DEF Removes, TreeMoves
<1>2. p \in Path /\ p \notin DOMAIN config.tree /\ p # Root
  BY Configured DEF RootInv, RecordInv, TypeOK
<1>3. /\ IsTree(fs') /\ DOMAIN fs' = DOMAIN fs \ {p}
      /\ \A q \in DOMAIN fs' : fs'[q] = fs[q]
  BY <1>1, <1>2, RemoveTree DEF RootInv
<1>4. \A q \in DOMAIN fs' : Placed(q)'
  BY <1>1, <1>3, StillPlaced DEF RootInv, TreeInv
<1>5. TreeInv'
  BY <1>1, <1>2, <1>3, <1>4 DEF RootInv, TreeInv, Creating
<1>6. OriginInv'
  BY <1>1, <1>3 DEF RootInv, OriginInv, Creating
<1>7. RecordInv'  BY <1>1 DEF RootInv, RecordInv
<1> QED  BY <1>3, <1>5, <1>6, <1>7 DEF RootInv

\* The container makes a file.
LEMMA WriteKeeps ==
  ASSUME ConfigInv, RootInv, TreeMoves, NEW p \in DOMAIN fs, Writes(p)
  PROVE  RootInv'
<1> DEFINE q == Append(p, "new")
<1>1. /\ step = "up" /\ step' = "up" /\ Is(fs, p, "dir")
      /\ q \notin DOMAIN fs /\ fs' = With(fs, q, File("user"))
      /\ recorded' = recorded /\ config' = config
  BY DEF Writes, TreeMoves
<1> HIDE DEF q
<1>2. /\ IsTree(fs') /\ DOMAIN fs' = DOMAIN fs \cup {q}
      /\ \A r \in DOMAIN fs : fs'[r] = fs[r]
      /\ fs'[q] = File("user") /\ Last(q) = "new"
  BY <1>1, WriteTree DEF RootInv, q
<1>3. TreeInv'
  <2>1. \A r \in DOMAIN fs : Placed(r)'
    BY <1>1, <1>2, StillPlaced DEF RootInv, TreeInv
  <2>2. Placed(q)'  BY <1>2 DEF Placed, File
  <2> QED  BY <1>1, <1>2, <2>1, <2>2 DEF RootInv, TreeInv
<1>4. OriginInv'
  <2>1. q \notin Place  BY <1>2, PlacePath
  <2> SUFFICES ASSUME NEW r \in DOMAIN fs', Aside(r), Origin(r) \in DOMAIN fs'
               PROVE  fs'[Origin(r)].kind = "file"
    BY <1>1 DEF OriginInv, Creating
  <2>2. r \in DOMAIN fs /\ Origin(r) # q  BY <1>2, <2>1 DEF Aside
  <2> QED  BY <1>2, <2>2 DEF RootInv, OriginInv
<1>5. RecordInv'  BY <1>1 DEF RootInv, RecordInv
<1> QED  BY <1>2, <1>3, <1>4, <1>5 DEF RootInv

\* So every step keeps it.
LEMMA RootKeeps ==
  ASSUME ConfigInv, TypeOK, RootInv, [Next]_vars
  PROVE  RootInv' /\ TreeMoves
<1>1. TreeMoves  BY TreeSteps DEF RootInv
<1>2. \/ fs' = fs /\ (recorded' = recorded \/ Marks)
      \/ Points
      \/ \E d \in Place : CopiesTo(d)
      \/ \E d \in Place \cup {ELOOP} : Restores(d)
      \/ \E p \in todo : Removes(p)
      \/ \E p \in DOMAIN fs : Writes(p)
  BY <1>1 DEF TreeMoves, Marks
<1> QED
  BY <1>1, <1>2, StayKeeps, PointKeeps, CopyKeeps, RestoreKeeps, RemoveKeeps,
     WriteKeeps

-----------------------------------------------------------------------------
(* The first theorems.                                                     *)

\* What the other invariants need: types, the configuration and the root.
PartInv == ConfigInv /\ TypeOK /\ RootInv

\* At first the root is what it is.
LEMMA PartInit == Init => PartInv
<1> SUFFICES ASSUME Init PROVE PartInv
  OBVIOUS
<1>1. ConfigInv  BY DEF Init, ConfigInv
<1>2. /\ IsTree(config.tree) /\ fs = config.tree /\ recorded = {}
      /\ DOMAIN config.tree \subseteq Place /\ Len(config.mounts) \in Nat
  BY <1>1, Configured DEF Init
<1>3. TypeOK
  <2>1. i = 1 /\ 1 \in 1..(Len(config.mounts) + 1)  BY <1>2 DEF Init
  <2>2. todo \subseteq recorded /\ IsTree(fs)  BY <1>2 DEF Init
  <2>3. step \in {"prepare", "mount"}  BY DEF Init
  <2> QED  BY <1>2, <2>1, <2>2, <2>3 DEF Init, TypeOK
<1>4. TreeInv  BY <1>2 DEF TreeInv, Placed
<1>5. OriginInv
  <2>1. \A p \in DOMAIN fs : ~Aside(p)
    BY <1>2, AsidePath, PlacePath
  <2> QED  BY <2>1 DEF OriginInv
<1>6. RecordInv  BY <1>2 DEF RecordInv
<1> QED  BY <1>1, <1>2, <1>3, <1>4, <1>5, <1>6 DEF PartInv, RootInv

\* Every step keeps it.
LEMMA PartKeeps == PartInv /\ [Next]_vars => PartInv' /\ TreeMoves
<1> SUFFICES ASSUME PartInv, [Next]_vars PROVE PartInv' /\ TreeMoves
  OBVIOUS
<1>1. RootInv' /\ TreeMoves  BY RootKeeps DEF PartInv
<1>2. /\ config' = config /\ recorded \subseteq recorded' /\ IsTree(fs')
      /\ Len(config.mounts) \in Nat
  BY <1>1, Configured
  DEF TreeMoves, Marks, Points, CopiesTo, Restores, Removes, Writes, RootInv,
      PartInv
<1>3. ConfigInv'
  <2>1. config'.files => tries'
    BY <1>2 DEF PartInv, ConfigInv, Next, vars, localVars, PointFails,
        MountThrows, Prepare, MountVolume, Copies, MountFails, CopyFails,
        MountsDone, Alias, ContainerWrites, SourceGone, Stop, UnmountVolume,
        UnmountsDone, RemovePoint, RemovesDone, DeleteAgain
  <2>2. step' \in Creating => ~up'
    BY DEF Creating, PartInv, ConfigInv, Next, vars, localVars, PointFails,
        MountThrows, Prepare, MountVolume, MountFails, CopyFails,
        MountsDone, Alias, ContainerWrites, SourceGone, Stop, UnmountVolume,
        UnmountsDone, RemovePoint, RemovesDone, DeleteAgain
  <2> QED  BY <1>2, <2>1, <2>2 DEF PartInv, ConfigInv
<1>4. TypeOK'
  <2>1. /\ supported' \in {"null", "true", "false"} /\ tries' \in BOOLEAN
        /\ alias' \in BOOLEAN /\ up' \in BOOLEAN /\ failed' \in BOOLEAN
        /\ gone' \in BOOLEAN
    BY DEF PartInv, TypeOK, Next, vars, localVars, PointFails, MountThrows,
        Prepare, MountVolume, Copies, MountFails, CopyFails, MountsDone,
        Alias, ContainerWrites, SourceGone, Stop, UnmountVolume,
        UnmountsDone, RemovePoint, RemovesDone, DeleteAgain
  <2>2. step' \in {"prepare", "alias", "mount", "up", "unmount", "remove",
                   "down", "stuck", "failed"}
    BY DEF PartInv, TypeOK, Next, vars, localVars, PointFails, MountThrows,
        Prepare, MountVolume, MountFails, CopyFails, MountsDone,
        Alias, ContainerWrites, SourceGone, Stop, UnmountVolume,
        UnmountsDone, RemovePoint, RemovesDone, DeleteAgain
  <2>3. i' \in 1..(Len(config.mounts) + 1)
    <3> DEFINE l == Len(config.mounts)
    <3>1. l \in Nat /\ i \in 1..(l + 1)  BY <1>2 DEF PartInv, TypeOK
    <3>2. i' = i \/ i' = 1 \/ (i' = i + 1 /\ i <= l)
      BY DEF Next, vars, localVars, PointFails, MountThrows, Prepare,
          MountVolume, MountFails, CopyFails, MountsDone, Alias,
          ContainerWrites, SourceGone, Stop, UnmountVolume, UnmountsDone,
          RemovePoint, RemovesDone, DeleteAgain
    <3> HIDE DEF l
    <3>3. i' \in 1..(l + 1)  BY <3>1, <3>2
    <3> QED  BY <3>3 DEF l
  <2>4. todo' = todo \/ todo' = recorded \/ todo' \subseteq todo
    BY DEF Next, vars, localVars, PointFails,
        MountThrows, Prepare, MountVolume, MountFails, CopyFails, MountsDone,
        Alias, ContainerWrites, SourceGone, Stop, UnmountVolume,
        UnmountsDone, RemovePoint, RemovesDone, DeleteAgain
  <2>5. IsTree(config'.tree) /\ todo \subseteq recorded
    BY <1>2 DEF PartInv, TypeOK
  <2> QED  BY <1>2, <2>1, <2>2, <2>3, <2>4, <2>5 DEF TypeOK
<1> QED  BY <1>1, <1>3, <1>4 DEF PartInv

\* All through a run the root is what TreeInv, OriginInv and RecordInv say.
LEMMA PartAlways == Spec => []PartInv
<1>1. PartInv /\ [Next]_vars => PartInv'  BY PartKeeps
<1> QED  BY PartInit, <1>1, PTL DEF Spec

\* Every variable has its type, and the root stays a tree: no step leaves a
\* file or a directory without the directory it is in.
THEOREM MountsTypeCorrect == Spec => []TypeOK
<1>1. PartInv => TypeOK  BY DEF PartInv
<1> QED  BY <1>1, PartAlways, PTL

\* Whatever create makes in the root is recorded before it is there.
THEOREM MadeIsRecordedAlways == Spec => []MadeIsRecorded
<1>1. PartInv => MadeIsRecorded
  <2> SUFFICES ASSUME PartInv, NEW p \in DOMAIN fs,
                      p \notin DOMAIN config.tree, Last(p) # "new"
               PROVE  p \in recorded \/ Front(p) \in recorded
    BY DEF MadeIsRecorded, OfUser
  <2>1. p \in recorded \/ Aside(p)
    BY DEF PartInv, RootInv, TreeInv, Placed
  <2>2. ASSUME Aside(p)
        PROVE  Front(p) \in recorded
    <3>1. /\ Origin(p) \in Place /\ Origin(p) # Root
          /\ Front(p) = SaveDir(Origin(p)) /\ p \notin Place
      BY <2>2, AsidePath DEF PartInv, RootInv, IsTree
    <3>2. p # Root  BY <3>1, Configured DEF PartInv
    <3>3. Front(p) \in DOMAIN fs
      BY <3>2, TreeFront DEF PartInv, RootInv
    <3> QED  BY <3>1, <3>3, SavedKinds DEF PartInv, RootInv
  <2> QED  BY <2>1, <2>2
<1> QED  BY <1>1, PartAlways, PTL

-----------------------------------------------------------------------------
(* Originals.                                                              *)

\* Save directories are not places, and each place has a path of its own in
\* one.
LEMMA SavePathsDiffer ==
  ASSUME NEW d \in Place, d # Root, NEW p \in Place, p # Root
  PROVE  /\ SavePath(p) \notin Place /\ SavePath(p) # SaveDir(d)
         /\ SavePath(p) = SavePath(d) => p = d
         /\ Last(SavePath(p)) \notin {".save", "new"}
<1>1. /\ SavePath(p) \in Path /\ SavePath(d) \in Path
      /\ Aside(SavePath(p)) /\ Origin(SavePath(p)) = p
      /\ Origin(SavePath(d)) = d /\ Last(SaveDir(d)) = ".save"
  BY SavePaths
<1> QED  BY <1>1, AsidePath

\* A file of the root is at its place until it is moved aside, and what is
\* in its save directory is that file.  It is moved once only, when the one
\* volume that goes there is reached.
LEMMA OriginalKeeps ==
  ASSUME PartInv, OriginalInv, [Next]_vars
  PROVE  OriginalInv'
<1>1. TreeMoves /\ PartInv'  BY PartKeeps
<1>2. config' = config  BY <1>1 DEF TreeMoves
<1>3. Twice' = Twice  BY <1>2 DEF Twice
<1> SUFFICES ASSUME ~Twice, NEW p \in DOMAIN config.tree,
                    Is(config.tree, p, "file")
             PROVE  /\ SavePath(p) \in DOMAIN fs' =>
                         fs'[SavePath(p)] = config.tree[p]
                    /\ SavePath(p) \notin DOMAIN fs' =>
                         p \in DOMAIN fs' /\ fs'[p] = config.tree[p]
                    /\ \/ step' \in {"prepare", "alias"}
                       \/ step' = "mount" /\ \E n \in DOMAIN config.mounts :
                                               n >= i' /\ At(n) = p
                       => SavePath(p) \notin DOMAIN fs'
  BY <1>2, <1>3 DEF OriginalInv, At
<1>4. p \in Place /\ p # Root
  BY Configured DEF Is, Dir, PartInv
<1> DEFINE s == SavePath(p)
           Later(j) == \E n \in DOMAIN config.mounts : n >= j /\ At(n) = p
<1>5. /\ s \in DOMAIN fs => fs[s] = config.tree[p]
      /\ s \notin DOMAIN fs => p \in DOMAIN fs /\ fs[p] = config.tree[p]
      /\ step \in {"prepare", "alias"} => s \notin DOMAIN fs
      /\ step = "mount" /\ Later(i) => s \notin DOMAIN fs
  BY DEF OriginalInv
<1>6. s \notin Place /\ s # p /\ Last(s) \notin {".save", "new"}
  BY <1>4, SavePathsDiffer
<1>7. Later(i') /\ i' >= i => Later(i)
  <2>1. i \in Nat /\ i' \in Nat /\ DOMAIN config.mounts \subseteq Nat
    BY <1>1, <1>2, Configured DEF PartInv, TypeOK
  <2> QED  BY <2>1
<1> HIDE DEF s, Later
<1> SUFFICES /\ s \in DOMAIN fs' => fs'[s] = config.tree[p]
             /\ s \notin DOMAIN fs' =>
                  p \in DOMAIN fs' /\ fs'[p] = config.tree[p]
             /\ step' \in {"prepare", "alias"}
                  \/ (step' = "mount" /\ Later(i'))
                => s \notin DOMAIN fs'
  BY DEF s, Later
<1>8. step' \in {"prepare", "alias"} \/ (step' = "mount" /\ Later(i'))
      => step \in {"prepare", "alias"} \/ (step = "mount" /\ Later(i))
  BY <1>1, <1>7 DEF TreeMoves
<1>9. CASE fs' = fs
  BY <1>5, <1>8, <1>9
<1>10. CASE Points
  <2>1. PICK d \in Place, file \in BOOLEAN :
          PointMade(d, file) /\ fs' = MountPoint(d, file)
    BY <1>10 DEF Points
  <2>2. /\ DOMAIN fs \subseteq DOMAIN fs'
        /\ \A q \in DOMAIN fs : fs'[q] = fs[q]
        /\ \A q \in DOMAIN fs' \ DOMAIN fs : q \in Place
    BY <2>1, PointTree DEF PartInv, RootInv
  <2> QED  BY <1>5, <1>6, <1>8, <2>2
<1>11. ASSUME NEW d \in Place, CopiesTo(d)
       PROVE  /\ s \in DOMAIN fs' => fs'[s] = config.tree[p]
              /\ s \notin DOMAIN fs' =>
                   p \in DOMAIN fs' /\ fs'[p] = config.tree[p]
              /\ step' \in {"prepare", "alias"}
                   \/ (step' = "mount" /\ Later(i'))
                 => s \notin DOMAIN fs'
  <2>1. /\ step = "mount" /\ i \in DOMAIN config.mounts /\ d = At(i)
        /\ PointMade(d, TRUE) /\ d \in DOMAIN MountPoint(d, TRUE)
        /\ fs' \in {Moved(d), Copied(d)}
        /\ step' = "mount" => i' = i + 1
        /\ step' \notin {"prepare", "alias"}
    BY <1>11 DEF CopiesTo
  <2>2. /\ d # Root
        /\ \A q \in DOMAIN fs \ {d} :
              q \in DOMAIN fs' /\ (q # SavePath(d) => fs'[q] = fs[q])
        /\ \A q \in DOMAIN fs' \ DOMAIN fs :
              q \in Place \/ q = SaveDir(d) \/ q = SavePath(d)
        /\ d \in DOMAIN fs =>
             SavePath(d) \in DOMAIN fs' /\ fs'[SavePath(d)] = fs[d]
    BY <2>1, CopyTree DEF PartInv, RootInv
  <2>3. /\ s # SaveDir(d) /\ (s = SavePath(d) => p = d)
        /\ SavePath(d) \notin Place
    BY <1>4, <2>2, SavePathsDiffer DEF s
  <2>4. CASE p = d
    <3>1. Later(i)
      <4>1. i >= i  BY DEF PartInv, TypeOK
      <4> QED  BY <2>1, <2>4, <4>1 DEF Later
    <3>2. d \in DOMAIN fs /\ fs[d] = config.tree[p]
      BY <1>5, <2>1, <2>4, <3>1
    <3>3. step' = "mount" => ~Later(i')
      <4> SUFFICES ASSUME step' = "mount", Later(i') PROVE FALSE
        OBVIOUS
      <4>1. PICK n \in DOMAIN config.mounts : n >= i + 1 /\ At(n) = At(i)
        BY <2>1, <2>4 DEF Later
      <4>2. n # i  BY <2>1, <4>1, Configured DEF PartInv
      <4> QED  BY <2>1, <4>1, <4>2 DEF Twice, At
    <3> QED  BY <2>1, <2>2, <2>4, <3>2, <3>3 DEF s
  <2>5. CASE p # d
    <3>1. s \in DOMAIN fs' <=> s \in DOMAIN fs
      BY <1>6, <2>2, <2>3, <2>5
    <3>2. s \in DOMAIN fs => fs'[s] = fs[s]
      BY <1>6, <2>2, <2>3, <2>5
    <3>3. p \in DOMAIN fs => p \in DOMAIN fs' /\ fs'[p] = fs[p]
      BY <1>4, <2>2, <2>3, <2>5
    <3> QED  BY <1>5, <1>8, <3>1, <3>2, <3>3
  <2> QED  BY <2>4, <2>5
<1>12. ASSUME NEW d \in Place \cup {ELOOP}, Restores(d)
       PROVE  /\ s \in DOMAIN fs' => fs'[s] = config.tree[p]
              /\ s \notin DOMAIN fs' =>
                   p \in DOMAIN fs' /\ fs'[p] = config.tree[p]
              /\ step' = "unmount"
  <2>1. /\ SavePath(d) \in DOMAIN fs /\ step' = "unmount"
        /\ fs' = With(Without(fs, {SavePath(d)}), d, fs[SavePath(d)])
    BY <1>12 DEF Restores
  <2>2. d \in Place /\ d # Root
    BY <2>1, SavedPlace DEF PartInv, RootInv
  <2>3. (s = SavePath(d) => p = d) /\ SavePath(d) \notin Place
    BY <1>4, <2>2, SavePathsDiffer DEF s
  <2>4. /\ DOMAIN fs' = (DOMAIN fs \ {SavePath(d)}) \cup {d}
        /\ \A q \in DOMAIN fs' \ {d} : fs'[q] = fs[q]
        /\ fs'[d] = fs[SavePath(d)]
    BY <2>1, <2>2, <2>3 DEF With, Without
  <2> QED  BY <1>4, <1>5, <1>6, <2>1, <2>2, <2>3, <2>4 DEF s
<1>13. ASSUME NEW q \in todo, Removes(q)
       PROVE  /\ s \in DOMAIN fs' => fs'[s] = config.tree[p]
              /\ s \notin DOMAIN fs' =>
                   p \in DOMAIN fs' /\ fs'[p] = config.tree[p]
              /\ step' = "remove"
  <2>1. fs' = Without(fs, {q}) /\ step' = "remove"
    BY <1>13 DEF Removes
  <2>2. q # p /\ q # s
    BY <1>6 DEF PartInv, TypeOK, RootInv, RecordInv
  <2>3. DOMAIN fs' = DOMAIN fs \ {q} /\ \A r \in DOMAIN fs' : fs'[r] = fs[r]
    BY <2>1 DEF Without
  <2> QED  BY <1>5, <2>1, <2>2, <2>3
<1>14. ASSUME NEW q \in DOMAIN fs, Writes(q)
       PROVE  /\ s \in DOMAIN fs' => fs'[s] = config.tree[p]
              /\ s \notin DOMAIN fs' =>
                   p \in DOMAIN fs' /\ fs'[p] = config.tree[p]
              /\ step' = "up"
  <2>1. /\ step' = "up" /\ Is(fs, q, "dir")
        /\ Append(q, "new") \notin DOMAIN fs
        /\ fs' = With(fs, Append(q, "new"), File("user"))
    BY <1>14 DEF Writes
  <2>2. /\ DOMAIN fs' = DOMAIN fs \cup {Append(q, "new")}
        /\ \A r \in DOMAIN fs : fs'[r] = fs[r]
        /\ Last(Append(q, "new")) = "new"
    BY <2>1, WriteTree DEF PartInv, RootInv
  <2> QED  BY <1>5, <1>6, <2>1, <2>2
<1> QED
  BY <1>1, <1>9, <1>10, <1>11, <1>12, <1>13, <1>14 DEF TreeMoves, Marks

\* No file of the root is lost, whatever fails, unless two volumes go to one
\* place.
THEOREM OriginalKeptAlways == Spec => []OriginalKept
<1>1. Init => OriginalInv
  <2> SUFFICES ASSUME Init, NEW p \in DOMAIN config.tree,
                      Is(config.tree, p, "file")
               PROVE  fs = config.tree /\ SavePath(p) \notin DOMAIN fs
    BY DEF OriginalInv
  <2>1. ConfigInv  BY PartInit DEF PartInv
  <2>2. p \in Place /\ p # Root  BY <2>1, Configured DEF Is, Dir
  <2> QED  BY <2>1, <2>2, Configured, SavePathsDiffer DEF Init
<1>2. PartInv /\ OriginalInv /\ [Next]_vars => OriginalInv'
  BY OriginalKeeps
<1>3. OriginalInv => OriginalKept
  BY DEF OriginalInv, OriginalKept
<1> QED  BY <1>1, <1>2, <1>3, PartAlways, PTL DEF Spec

-----------------------------------------------------------------------------
(* A read-only root.                                                       *)

\* It is never changed but for mount points, and nothing is copied to it:
\* the alias is there when the volumes are mounted.
LEMMA ReadonlyKeeps ==
  ASSUME PartInv, ReadonlyInv, [Next]_vars
  PROVE  ReadonlyInv'
<1>1. TreeMoves /\ PartInv' /\ config' = config
  BY PartKeeps DEF TreeMoves
<1>2. /\ alias' => config.readonly
      /\ supported' = "null" => ~alias'
      /\ step' \in {"prepare", "alias"} => config.readonly /\ ~alias'
      /\ step' = "alias" => supported' # "null"
      /\ config.readonly /\ step' = "mount" => alias'
  <2>1. alias' => config.readonly
    BY DEF ReadonlyInv, Next, vars, localVars, PointFails, MountThrows,
        Prepare, MountVolume, MountFails, CopyFails, MountsDone, Alias,
        ContainerWrites, SourceGone, Stop, UnmountVolume, UnmountsDone,
        RemovePoint, RemovesDone, DeleteAgain
  <2>2. supported' = "null" => ~alias'
    BY DEF ReadonlyInv, Next, vars, localVars, PointFails, MountThrows,
        Prepare, MountVolume, MountFails, CopyFails, MountsDone, Alias,
        ContainerWrites, SourceGone, Stop, UnmountVolume, UnmountsDone,
        RemovePoint, RemovesDone, DeleteAgain
  <2>3. step' \in {"prepare", "alias"} => config.readonly /\ ~alias'
    BY DEF ReadonlyInv, Next, vars, localVars, PointFails, MountThrows,
        Prepare, MountVolume, MountFails, CopyFails, MountsDone, Alias,
        ContainerWrites, SourceGone, Stop, UnmountVolume, UnmountsDone,
        RemovePoint, RemovesDone, DeleteAgain
  <2>4. step' = "alias" => supported' # "null"
    BY DEF ReadonlyInv, Next, vars, localVars, PointFails, MountThrows,
        Prepare, MountVolume, MountFails, CopyFails, MountsDone, Alias,
        ContainerWrites, SourceGone, Stop, UnmountVolume, UnmountsDone,
        RemovePoint, RemovesDone, DeleteAgain
  <2>5. config.readonly /\ step' = "mount" => alias'
    BY DEF ReadonlyInv, Next, vars, localVars, PointFails, MountThrows,
        Prepare, MountVolume, MountFails, CopyFails, MountsDone, Alias,
        ContainerWrites, SourceGone, Stop, UnmountVolume, UnmountsDone,
        RemovePoint, RemovesDone, DeleteAgain
  <2> QED  BY <2>1, <2>2, <2>3, <2>4, <2>5
<1>3. supported' = "false" => ~config.files
  <2>1. \/ supported' = supported
        \/ supported' = IF tries THEN "true" ELSE "false"
    BY DEF Next, vars, localVars, PointFails, MountThrows, Prepare,
        MountVolume, MountFails, CopyFails, MountsDone, Alias,
        ContainerWrites, SourceGone, Stop, UnmountVolume, UnmountsDone,
        RemovePoint, RemovesDone, DeleteAgain
  <2> QED  BY <2>1 DEF ReadonlyInv, PartInv, ConfigInv
<1>4. ASSUME config.readonly
      PROVE  /\ \A p \in DOMAIN config.tree :
                  p \in DOMAIN fs' /\ fs'[p] = config.tree[p]
             /\ \A p \in DOMAIN fs' :
                  p \in DOMAIN config.tree \cup recorded'
  <2>1. /\ \A p \in DOMAIN config.tree :
             p \in DOMAIN fs /\ fs[p] = config.tree[p]
        /\ \A p \in DOMAIN fs : p \in DOMAIN config.tree \cup recorded
        /\ step = "mount" => alias
    BY <1>4 DEF ReadonlyInv
  <2>2. CASE fs' = fs /\ recorded \subseteq recorded'
    BY <2>1, <2>2
  <2>3. CASE Points
    <3>1. PICK d \in Place, file \in BOOLEAN :
            /\ PointMade(d, file) /\ fs' = MountPoint(d, file)
            /\ recorded' = recorded \cup Records(d, file)
      BY <2>3 DEF Points
    <3>2. /\ DOMAIN fs \subseteq DOMAIN fs'
          /\ \A q \in DOMAIN fs : fs'[q] = fs[q]
          /\ \A q \in DOMAIN fs' \ DOMAIN fs : q \in Records(d, file)
      BY <3>1, PointTree DEF PartInv, RootInv
    <3> QED  BY <2>1, <3>1, <3>2
  <2>4. ASSUME NEW d \in Place PROVE ~CopiesTo(d)
    BY <2>1 DEF CopiesTo
  <2>5. ASSUME NEW d \in Place \cup {ELOOP} PROVE ~Restores(d)
    <3> SUFFICES ASSUME Restores(d) PROVE FALSE
      OBVIOUS
    <3>1. SavePath(d) \in DOMAIN fs  BY DEF Restores
    <3>2. d \in Place /\ d # Root
      BY <3>1, SavedPlace DEF PartInv, RootInv
    <3>3. SavePath(d) \notin Place /\ Last(SavePath(d)) # ".save"
      BY <3>2, SavePathsDiffer
    <3>4. SavePath(d) \notin DOMAIN config.tree
      BY <3>3, Configured DEF PartInv
    <3>5. SavePath(d) \notin recorded
      BY <3>3 DEF PartInv, RootInv, RecordInv
    <3> QED  BY <2>1, <3>1, <3>4, <3>5
  <2>6. ASSUME NEW q \in todo, Removes(q)
        PROVE  /\ \A p \in DOMAIN config.tree :
                    p \in DOMAIN fs' /\ fs'[p] = config.tree[p]
               /\ \A p \in DOMAIN fs' :
                    p \in DOMAIN config.tree \cup recorded'
    <3>1. fs' = Without(fs, {q}) /\ recorded' = recorded
      BY <2>6 DEF Removes
    <3>2. q \notin DOMAIN config.tree
      BY DEF PartInv, TypeOK, RootInv, RecordInv
    <3> QED  BY <2>1, <3>1, <3>2 DEF Without
  <2>7. ASSUME NEW q \in DOMAIN fs PROVE ~Writes(q)
    BY <1>4 DEF Writes
  <2> QED
    BY <1>1, <2>2, <2>3, <2>4, <2>5, <2>6, <2>7 DEF TreeMoves, Marks
<1> QED  BY <1>1, <1>2, <1>3, <1>4 DEF ReadonlyInv

-----------------------------------------------------------------------------
(* Files that have been moved aside.                                       *)

\* A file that was moved aside is put back by the volume it made way for,
\* unless that is no longer taken for a file.
LEMMA AsideKeeps ==
  ASSUME PartInv, ReadonlyInv, AsideInv, [Next]_vars
  PROVE  AsideInv'
<1>1. TreeMoves /\ PartInv' /\ config' = config /\ i \in Nat /\ i' \in Nat
      /\ i + 1 > i
  <2>1. TreeMoves /\ PartInv' /\ config' = config  BY PartKeeps DEF TreeMoves
  <2>2. i \in Nat /\ i' \in Nat  BY <2>1, Configured DEF PartInv, TypeOK
  <2> QED  BY <2>1, <2>2
<1> SUFFICES ASSUME NEW p \in DOMAIN fs', Aside(p)
    PROVE \E n \in DOMAIN config.mounts :
      /\ At(n) = Origin(p) /\ CopyAt(n)
      /\ step' \in Creating => step' = "mount" /\ n < i' /\ ~tries'
      /\ step' = "up" => supported' = "false"
      /\ step' = "unmount" /\ up' =>
           supported' = "false"
           /\ (n >= i' \/ gone' \/ config.mounts[n].type = "bind")
      /\ step' \in {"remove", "down", "stuck"} /\ up' =>
           supported' = "false"
           /\ (gone' \/ config.mounts[n].type = "bind")
  BY <1>1 DEF AsideInv, At, CopyAt, FileAt, Creating
<1>2. DOMAIN config.mounts \subseteq Nat  BY Configured DEF PartInv
<1>3. p \in Path  BY <1>1 DEF PartInv, RootInv, IsTree
<1>4. CASE p \notin DOMAIN fs
  <2>1. ~(fs' = fs)  BY <1>4
  <2>2. ~Points
    <3> SUFFICES ASSUME Points PROVE FALSE
      OBVIOUS
    <3>1. PICK d \in Place, file \in BOOLEAN :
            PointMade(d, file) /\ fs' = MountPoint(d, file)
      BY DEF Points
    <3>2. p \in Place  BY <1>4, <3>1, PointTree DEF PartInv, RootInv
    <3> QED  BY <1>3, <3>2, AsidePath
  <2>3. ASSUME NEW d \in Place \cup {ELOOP} PROVE ~Restores(d)
    <3> SUFFICES ASSUME Restores(d) PROVE FALSE
      OBVIOUS
    <3>1. d \in Place
      BY SavedPlace DEF PartInv, RootInv, Restores
    <3>2. p = d  BY <1>4 DEF Restores, With, Without
    <3> QED  BY <1>3, <3>1, <3>2, AsidePath
  <2>4. ASSUME NEW q \in todo PROVE ~Removes(q)
    BY <1>4 DEF Removes, Without
  <2>5. ASSUME NEW q \in DOMAIN fs PROVE ~Writes(q)
    <3> SUFFICES ASSUME Writes(q) PROVE FALSE
      OBVIOUS
    <3>1. p = Append(q, "new")  BY <1>4 DEF Writes, With
    <3>2. Last(p) = "new"
      BY <3>1, PathAppend, Words DEF PartInv, RootInv, IsTree
    <3> QED  BY <1>3, <3>2, AsidePath
  <2>6. PICK d \in Place : CopiesTo(d)
    BY <1>1, <2>1, <2>2, <2>3, <2>4, <2>5 DEF TreeMoves, Marks
  <2>7. /\ d = At(i) /\ CopyAt(i) /\ i \in DOMAIN config.mounts
        /\ \/ step' = "mount" /\ i' = i + 1 /\ ~tries'
           \/ step' \in {"failed", "unmount"} /\ ~up'
    BY <2>6 DEF CopiesTo
  <2>8. Origin(p) = d
    <3>1. PointMade(d, TRUE) /\ d \in DOMAIN MountPoint(d, TRUE)
          /\ fs' \in {Moved(d), Copied(d)}
      BY <2>6 DEF CopiesTo
    <3>2. d # Root /\ (p \in Place \/ p = SaveDir(d) \/ p = SavePath(d))
      BY <1>4, <3>1, CopyTree DEF PartInv, RootInv
    <3>3. p = SavePath(d)
      BY <1>3, <3>2, AsidePath, SavePaths
    <3> QED  BY <3>2, <3>3, SavePaths
  <2> QED  BY <1>1, <2>7, <2>8 DEF Creating
<1>5. CASE p \in DOMAIN fs
  <2>1. PICK n \in DOMAIN config.mounts :
          /\ At(n) = Origin(p) /\ CopyAt(n)
          /\ step \in Creating => step = "mount" /\ n < i /\ ~tries
          /\ step = "up" => supported = "false"
          /\ step = "unmount" /\ up =>
               supported = "false"
               /\ (n >= i \/ gone \/ config.mounts[n].type = "bind")
          /\ step \in {"remove", "down", "stuck"} /\ up =>
               supported = "false"
               /\ (gone \/ config.mounts[n].type = "bind")
    BY <1>5 DEF AsideInv
  <2> DEFINE Result ==
        /\ step' \in Creating => step' = "mount" /\ n < i' /\ ~tries'
        /\ step' = "up" => supported' = "false"
        /\ step' = "unmount" /\ up' =>
             supported' = "false"
             /\ (n >= i' \/ gone' \/ config.mounts[n].type = "bind")
        /\ step' \in {"remove", "down", "stuck"} /\ up' =>
             supported' = "false"
             /\ (gone' \/ config.mounts[n].type = "bind")
  <2> SUFFICES Result
    BY <2>1
  <2> HIDE DEF Result
  <2>2. n \in Nat /\ n >= 1  BY Configured DEF PartInv
  <2>3. ASSUME MountThrows, step \in {"prepare", "mount"}
        PROVE  Result
    BY <2>1, <2>3 DEF MountThrows, localVars, Creating, PartInv, ConfigInv,
       Result
  <2>4. CASE PointFails \/ MountFails \/ CopyFails
    <3>1. MountThrows /\ step \in {"prepare", "mount"}
      BY <2>4 DEF PointFails, MountFails, CopyFails
    <3> QED  BY <2>3, <3>1
  <2>5. CASE Prepare
    BY <2>1, <2>5 DEF Prepare, Creating, Result
  <2>6. CASE MountVolume
    <3>1. /\ step = "mount" /\ step' = step /\ i' = i + 1
          /\ tries' = (tries /\ ~Copies)
      BY <2>6 DEF MountVolume
    <3>2. n < i /\ ~tries  BY <2>1, <3>1 DEF Creating
    <3>3. n < i'  BY <1>1, <2>2, <3>1, <3>2
    <3>4. ~tries'  BY <3>1, <3>2, Zenon
    <3> QED  BY <3>1, <3>3, <3>4 DEF Creating, Result
  <2>7. CASE MountsDone
    BY <2>1, <2>7 DEF MountsDone, Creating, Result
  <2>8. CASE Alias
    BY <2>1, <2>8 DEF Alias, Creating, Result
  <2>9. CASE ContainerWrites \/ SourceGone
    BY <2>1, <2>9 DEF ContainerWrites, SourceGone, localVars, Creating, Result
  <2>10. CASE Stop
    BY <2>1, <2>2, <2>10 DEF Stop, localVars, Creating, Result
  <2>11. CASE UnmountVolume
    <3>1. /\ step = "unmount" /\ step' = step /\ i' = i + 1 /\ gone' = gone
          /\ supported' = supported /\ up' = up
          /\ i <= Len(config.mounts)
      BY <2>11 DEF UnmountVolume, localVars
    <3>2. CASE n # i
      BY <1>1, <2>1, <2>2, <3>1, <3>2 DEF Creating, Result
    <3>3. CASE n = i /\ up
      <4>1. supported = "false"  BY <2>1, <3>1, <3>3
      <4>2. i \in DOMAIN config.mounts /\ Destination = At(i)
        BY <3>1, Destinations DEF PartInv, RootInv
      <4>3. p = SavePath(At(i))
        BY <1>3, <2>1, <3>3, AsidePath
      <4>4. At(i) # p
        BY <1>3, <2>1, <3>3, AsidePath
      <4>5. ~IsFileUnmount
        <5> SUFFICES ASSUME IsFileUnmount PROVE FALSE
          OBVIOUS
        <5>1. fs' = With(Without(fs, {p}), At(i), fs[p])
          BY <1>5, <2>11, <4>1, <4>2, <4>3 DEF UnmountVolume
        <5> QED  BY <4>4, <5>1 DEF With, Without
      <4>6. gone \/ config.mounts[i].type = "bind"
        BY <2>1, <3>3, <4>5 DEF IsFileUnmount, CopyAt, FileAt, Volume
      <4> QED  BY <3>1, <3>3, <4>1, <4>6 DEF Creating, Result
    <3>4. CASE ~up
      BY <3>1, <3>4 DEF Creating, Result
    <3> QED  BY <3>2, <3>3, <3>4
  <2>12. CASE UnmountsDone
    <3>1. n < i
      BY <1>1, <2>2, <2>12, Configured DEF UnmountsDone, PartInv
    <3> QED  BY <1>1, <2>1, <2>2, <2>12, <3>1
             DEF UnmountsDone, localVars, Creating, Result
  <2>13. CASE RemovePoint
    BY <2>1, <2>13 DEF RemovePoint, localVars, Creating, Result
  <2>14. CASE RemovesDone
    BY <2>1, <2>14 DEF RemovesDone, localVars, Creating, Result
  <2>15. CASE DeleteAgain
    BY <2>1, <2>2, <2>15 DEF DeleteAgain, localVars, Creating, Result
  <2>16. CASE UNCHANGED vars
    BY <2>1, <2>16 DEF vars, Creating, Result
  <2> QED
    BY <2>4, <2>5, <2>6, <2>7, <2>8, <2>9, <2>10, <2>11, <2>12, <2>13, <2>14,
       <2>15, <2>16 DEF Next
<1> QED  BY <1>4, <1>5

-----------------------------------------------------------------------------
(* Counting volumes.                                                       *)

\* The numbers up to l are finitely many.
LEMMA Numbers ==
  ASSUME NEW l \in Nat PROVE IsFiniteSet(1..l)
<1>1. l \in Int /\ 1 \in Int  OBVIOUS
<1> QED  BY <1>1, FS_Interval

\* How many volumes are on d, and how many are still to be unmounted from it.
LEMMA Counts ==
  ASSUME PartInv, NEW d
  PROVE  /\ IsFiniteSet(On(d)) /\ Cardinality(On(d)) \in Nat
         /\ IsFiniteSet(Rest(d)) /\ Cardinality(Rest(d)) \in Nat
         /\ On(d) = {} <=> Cardinality(On(d)) = 0
         /\ Rest(d) = {} <=> Cardinality(Rest(d)) = 0
<1>1. Len(config.mounts) \in Int /\ 1 \in Int /\ i \in Int
  BY Configured DEF PartInv, TypeOK
<1>2. /\ IsFiniteSet(1..Len(config.mounts))
      /\ IsFiniteSet(i..Len(config.mounts))
  BY <1>1, FS_Interval
<1>3. On(d) \subseteq 1..Len(config.mounts)  BY DEF On
<1>4. Rest(d) \subseteq i..Len(config.mounts)  BY DEF Rest
<1>5. IsFiniteSet(On(d)) /\ IsFiniteSet(Rest(d))
  BY <1>2, <1>3, <1>4, FS_Subset
<1> QED  BY <1>5, FS_CardinalityType, FS_EmptySet

\* The volume that is unmounted is counted off.
LEMMA RestStep ==
  ASSUME PartInv, i <= Len(config.mounts), config' = config, i' = i + 1,
         NEW d
  PROVE  /\ i \in Rest(d) <=> At(i) = d /\ ~CopyAt(i)
         /\ i \notin Rest(d) => Rest(d)' = Rest(d)
         /\ i \in Rest(d) =>
              /\ Cardinality(Rest(d)') = Cardinality(Rest(d)) - 1
              /\ Cardinality(Rest(d)) >= 1
         /\ Cardinality(Rest(d)') <= Cardinality(Rest(d))
<1> DEFINE l == Len(config.mounts)
<1>1. l \in Nat /\ i \in Nat /\ i <= l  BY Configured DEF PartInv, TypeOK
<1>2. Rest(d)' = {n \in (i + 1)..l : At(n) = d /\ ~CopyAt(n)}
  BY DEF Rest, At, CopyAt, FileAt
<1>3. Rest(d) = {n \in i..l : At(n) = d /\ ~CopyAt(n)}  BY DEF Rest
<1> HIDE DEF l
<1>4. i \in i..l /\ (i + 1)..l = (i..l) \ {i}  BY <1>1
<1>5. /\ i \in Rest(d) <=> At(i) = d /\ ~CopyAt(i)
      /\ Rest(d)' = Rest(d) \ {i}
  BY <1>2, <1>3, <1>4
<1>6. IsFiniteSet(Rest(d)) /\ Cardinality(Rest(d)) \in Nat  BY Counts
<1>7. i \in Rest(d) => Cardinality(Rest(d) \ {i}) = Cardinality(Rest(d)) - 1
  BY <1>6, FS_RemoveElement
<1>8. i \in Rest(d) => Cardinality(Rest(d)) >= 1
  BY <1>6, Counts
<1>9. i \notin Rest(d) => Rest(d)' = Rest(d)  BY <1>5
<1>10. i \in Rest(d) => Cardinality(Rest(d)') = Cardinality(Rest(d)) - 1
  BY <1>5, <1>7
<1>11. Cardinality(Rest(d)') <= Cardinality(Rest(d))
  <2>1. CASE i \in Rest(d)  BY <1>6, <1>10, <2>1
  <2>2. CASE i \notin Rest(d)  BY <1>6, <1>9, <2>2
  <2> QED  BY <2>1, <2>2
<1> QED  BY <1>5, <1>8, <1>9, <1>10, <1>11

\* The volume on top is unmounted.
LEMMA OnStep ==
  ASSUME PartInv, config' = config, NEW d, On(d) # {},
         mnt' = mnt \ {<<d, Max(On(d))>>}
  PROVE  /\ Cardinality(On(d)') = Cardinality(On(d)) - 1
         /\ \A e : e # d => On(e)' = On(e)
<1>1. On(d) \subseteq 1..Len(config.mounts) /\ Len(config.mounts) \in Nat
  BY Configured DEF On, PartInv
<1>2. On(d) \subseteq 0..Len(config.mounts)  BY <1>1
<1>3. \E m \in On(d) : \A n \in On(d) : m >= n  BY <1>1, <1>2, Greatest
<1>4. Max(On(d)) \in On(d)  BY <1>3 DEF Max
<1>5. On(d)' = On(d) \ {Max(On(d))}  BY DEF On
<1>6. \A e : e # d => On(e)' = On(e)  BY DEF On
<1>7. Cardinality(On(d) \ {Max(On(d))}) = Cardinality(On(d)) - 1
  BY <1>4, Counts, FS_RemoveElement
<1> QED  BY <1>5, <1>6, <1>7

\* No volume is on what is no place.
LEMMA NothingOn ==
  ASSUME PartInv, MountedInv, i \in DOMAIN config.mounts
  PROVE  At(i) \notin Place => On(At(i)) = {}
<1>1. ASSUME NEW n \in On(At(i))
      PROVE  /\ n \in DOMAIN config.mounts /\ At(n) = At(i)
             /\ At(n) \in Place /\ ~CopyAt(n)
  <2>1. <<At(i), n>> \in mnt  BY DEF On
  <2>2. PICK m \in DOMAIN config.mounts :
          /\ At(m) \in Place /\ ~CopyAt(m) /\ <<At(i), n>> = <<At(m), m>>
    BY <2>1 DEF MountedInv
  <2> QED  BY <2>2
<1> QED  BY <1>1

-----------------------------------------------------------------------------
(* What is mounted.                                                        *)

\* What has been mounted while the volumes are being mounted.
LEMMA MountingKeeps ==
  ASSUME PartInv, ReadonlyInv, MountedInv, [Next]_vars
  PROVE  /\ mnt' \subseteq {<<At(n), n>> : n \in {m \in DOMAIN config.mounts :
                                           At(m) \in Place /\ ~CopyAt(m)}}
         /\ step' \in {"prepare", "alias"} => mnt' = {}
         /\ step' = "alias" => i' = 1
         /\ step' = "mount" =>
              /\ mnt' = {<<At(n), n>> : n \in {m \in 1..(i' - 1) : ~CopyAt(m)}}
              /\ \A n \in 1..(i' - 1) :
                   /\ At(n) \in Place
                   /\ Is(fs', At(n), IF FileAt(n) THEN "file" ELSE "dir")
<1>1. TreeMoves /\ i \in Nat /\ Len(config.mounts) \in Nat
  BY PartKeeps, Configured DEF PartInv, TypeOK
<1> DEFINE V == {<<At(n), n>> : n \in {m \in DOMAIN config.mounts :
                                        At(m) \in Place /\ ~CopyAt(m)}}
           M(j) == {<<At(n), n>> : n \in {m \in 1..(j - 1) : ~CopyAt(m)}}
           K(n) == IF FileAt(n) THEN "file" ELSE "dir"
<1>2. CASE MountVolume
  <2>1. /\ step = "mount" /\ step' = "mount" /\ i' = i + 1
        /\ i \in DOMAIN config.mounts /\ Destination = At(i)
        /\ At(i) \in Place /\ PointMade(At(i), IsFileMount)
        /\ At(i) \in DOMAIN MountPoint(At(i), IsFileMount)
    BY <1>2, Destinations DEF MountVolume, PartInv, RootInv
  <2>2. IsFileMount = FileAt(i)  BY DEF IsFileMount, FileAt, Volume
  <2>3. Copies <=> CopyAt(i)
    <3>1. Copies => ~config.files  BY DEF Copies, PartInv, ConfigInv
    <3> QED  BY <2>2, <3>1 DEF Copies, CopyAt
  <2>4. mnt' = IF CopyAt(i) THEN mnt ELSE mnt \cup {<<At(i), i>>}
    BY <1>2, <2>1, <2>3 DEF MountVolume
  <2>5. mnt \subseteq V /\ mnt = M(i)  BY <2>1 DEF MountedInv
  <2>6. mnt' \subseteq V  BY <2>1, <2>4, <2>5
  <2>7. (i + 1) - 1 = i /\ 1..i = 1..(i - 1) \cup {i}
    BY <1>1, <2>1, Configured DEF PartInv
  <2>8. mnt' = M(i + 1)  BY <2>4, <2>5, <2>7
  <2>9. ASSUME NEW n \in 1..i
        PROVE  At(n) \in Place /\ Is(fs', At(n), K(n))
    <3>1. n # i => At(n) \in Place /\ Is(fs, At(n), K(n))
      BY <2>1, <2>7, <2>9 DEF MountedInv
    <3>2. At(n) \in Place  BY <2>1, <3>1
    <3>3. CASE ~CopyAt(i)
      <4>1. PICK d, file : d = At(i) /\ file = FileAt(i)  OBVIOUS
      <4>2. file \in BOOLEAN  BY <4>1 DEF FileAt
      <4>3. fs' = MountPoint(d, file)
        BY <1>2, <2>1, <2>2, <2>3, <3>3, <4>1 DEF MountVolume
      <4>4. /\ d \in Place /\ PointMade(d, file) /\ IsTree(fs)
            /\ d \in DOMAIN MountPoint(d, file)
        BY <2>1, <2>2, <4>1 DEF PartInv, RootInv
      <4>5. /\ Is(fs', d, IF file THEN "file" ELSE "dir")
            /\ DOMAIN fs \subseteq DOMAIN fs'
            /\ \A p \in DOMAIN fs : fs'[p] = fs[p]
        BY <4>2, <4>3, <4>4, PointTree
      <4> QED  BY <3>1, <3>2, <4>1, <4>5 DEF Is
    <3>4. CASE CopyAt(i)
      <4>1. FileAt(i) /\ IsFileMount = TRUE
        BY <2>2, <3>4 DEF CopyAt, IsFileMount
      <4>2. fs' = Copied(At(i))  BY <1>2, <2>1, <2>3, <3>4 DEF MountVolume
      <4>3. /\ PointMade(At(i), TRUE)
            /\ At(i) \in DOMAIN MountPoint(At(i), TRUE)
        BY <2>1, <4>1
      <4>4. /\ At(i) # Root
            /\ \A p \in DOMAIN fs \ {At(i)} :
                  p \in DOMAIN fs' /\ (p # SavePath(At(i)) => fs'[p] = fs[p])
            /\ At(i) \in DOMAIN fs => fs[At(i)].kind = "file"
            /\ At(i) \in DOMAIN fs' /\ fs'[At(i)].kind = "file"
        BY <2>1, <4>2, <4>3, CopyTree DEF PartInv, RootInv
      <4>5. At(n) # SavePath(At(i))
        BY <2>1, <3>2, <4>4, SavePathsDiffer
      <4> QED  BY <3>1, <3>2, <4>1, <4>4, <4>5 DEF Is
    <3> QED  BY <3>3, <3>4
  <2> QED  BY <2>1, <2>6, <2>7, <2>8, <2>9
<1>3. CASE Alias
  <2>1. step = "alias" /\ i' = i /\ mnt' = mnt /\ step' \in {"mount", "failed"}
    BY <1>3 DEF Alias
  <2>2. i = 1 /\ mnt = {}  BY <2>1 DEF MountedInv
  <2> QED  BY <2>1, <2>2
<1>4. CASE MountsDone
  BY <1>4 DEF MountsDone, MountedInv
<1>5. CASE Prepare
  BY <1>5 DEF Prepare, MountedInv
<1>6. CASE PointFails \/ MountFails \/ CopyFails
  <2>1. MountThrows  BY <1>6 DEF PointFails, MountFails, CopyFails
  <2> QED  BY <2>1 DEF MountThrows, MountedInv
<1>7. CASE UnmountVolume
  <2>1. mnt' \subseteq mnt /\ step' = "unmount"  BY <1>7 DEF UnmountVolume
  <2> QED  BY <2>1 DEF MountedInv
<1>8. CASE \/ ContainerWrites \/ SourceGone \/ Stop \/ UnmountsDone
           \/ RemovePoint \/ RemovesDone \/ DeleteAgain
  <2>1. mnt' = mnt /\ step' \notin {"prepare", "alias", "mount"}
    BY <1>8 DEF ContainerWrites, SourceGone, Stop, UnmountsDone, RemovePoint,
        RemovesDone, DeleteAgain, localVars
  <2> QED  BY <2>1 DEF MountedInv
<1>9. CASE UNCHANGED vars
  BY <1>9 DEF vars, MountedInv
<1> QED
  BY <1>2, <1>3, <1>4, <1>5, <1>6, <1>7, <1>8, <1>9 DEF Next

\* Every volume that is mounted is unmounted, if nothing fails, as there are
\* no more volumes on a place than are yet to be unmounted from it.
LEMMA CountingKeeps ==
  ASSUME PartInv, ReadonlyInv, MountedInv, RemovedInv, [Next]_vars,
         step' = "unmount"
  PROVE  /\ ~failed' =>
              \A d \in Place : Cardinality(On(d)') <= Cardinality(Rest(d)')
         /\ failed' => "unmount" \in Faults /\ (Twice' \/ LeftOver')
<1>1. /\ config' = config /\ i \in Nat /\ Len(config.mounts) \in Nat
      /\ DOMAIN config.mounts = 1..Len(config.mounts) /\ PartInv'
      /\ Twice' = Twice /\ \A n : At(n)' = At(n)
  BY PartKeeps, Configured DEF PartInv, TypeOK, TreeMoves, Twice, At
<1>2. CASE UnmountVolume
  <2>1. /\ step = "unmount" /\ i' = i + 1
        /\ i <= Len(config.mounts) /\ i \in DOMAIN config.mounts
        /\ Destination = At(i)
    BY <1>2, Destinations DEF UnmountVolume, localVars, PartInv, RootInv
  <2>0. PICK d : d = At(i)  OBVIOUS
  <2> DEFINE O(e) == Cardinality(On(e))
             R(e) == Cardinality(Rest(e))
  <2>2. /\ ~failed => \A e \in Place : O(e) <= R(e)
        /\ failed => "unmount" \in Faults /\ (Twice \/ LeftOver)
    BY <2>1 DEF MountedInv
  <2>3. \A e : /\ i \in Rest(e) <=> e = d /\ ~CopyAt(i)
               /\ i \notin Rest(e) => R(e)' = R(e)
               /\ i \in Rest(e) => R(e)' = R(e) - 1 /\ R(e) >= 1
               /\ R(e)' <= R(e)
    BY <1>1, <2>0, <2>1, RestStep
  <2>4. d \notin Place => On(d) = {}
    BY <2>0, <2>1, NothingOn
  <2>5. \A e : /\ O(e) \in Nat /\ R(e) \in Nat
               /\ On(e) = {} <=> O(e) = 0
    BY Counts
  <2>6. \/ mnt' = mnt /\ failed' = failed /\ (CopyAt(i) \/ On(d) = {})
        \/ /\ On(d) # {} /\ mnt' = mnt \ {<<d, Max(On(d))>>}
           /\ failed' = failed
        \/ mnt' = mnt /\ failed' /\ On(d) # {} /\ "unmount" \in Faults
    <3>1. supported = "false" => ~config.files
      BY DEF ReadonlyInv
    <3>2. IsFileUnmount /\ supported = "false" => CopyAt(i)
      BY <3>1 DEF IsFileUnmount, CopyAt, FileAt, Volume
    <3> QED  BY <1>2, <2>0, <2>1, <3>2 DEF UnmountVolume
  <2>7. CASE mnt' = mnt /\ failed' = failed /\ (CopyAt(i) \/ On(d) = {})
    <3>1. \A e : On(e)' = On(e)  BY <1>1, <2>7 DEF On
    <3>2. \A e : O(e)' = O(e)  BY <3>1
    <3>3. LeftOver => LeftOver'
      <4> SUFFICES ASSUME NEW n \in DOMAIN config.mounts, n < i,
                          On(At(n)) # {}
                   PROVE  n < i' /\ On(At(n))' # {}
        BY <1>1 DEF LeftOver
      <4> QED  BY <1>1, <2>1, <3>1
    <3> HIDE DEF O, R
    <3>4. \A e \in Place : ~failed => O(e)' <= R(e)'
      <4> SUFFICES ASSUME NEW e \in Place, ~failed PROVE O(e)' <= R(e)'
        OBVIOUS
      <4>1. CASE i \notin Rest(e)
        BY <2>2, <2>3, <3>2, <4>1
      <4>2. CASE i \in Rest(e)
        <5>1. O(e) = 0  BY <2>3, <2>5, <2>7, <4>2
        <5>2. R(e)' >= 0  BY <2>3, <2>5, <4>2
        <5> QED  BY <3>2, <5>1, <5>2
      <4> QED  BY <4>1, <4>2
    <3> QED  BY <1>1, <2>2, <2>7, <3>3, <3>4 DEF O, R
  <2>8. CASE /\ On(d) # {} /\ mnt' = mnt \ {<<d, Max(On(d))>>}
             /\ failed' = failed
    <3>1. O(d)' = O(d) - 1 /\ \A e : e # d => On(e)' = On(e)
      BY <1>1, <2>8, OnStep
    <3>2. \A e : e # d => O(e)' = O(e)  BY <3>1
    <3>3. ~Twice /\ LeftOver => LeftOver'
      <4> SUFFICES ASSUME ~Twice, NEW n \in DOMAIN config.mounts, n < i,
                          On(At(n)) # {}
                   PROVE  n < i' /\ On(At(n))' # {}
        BY <1>1 DEF LeftOver
      <4>1. n # i  BY <1>1
      <4>2. At(n) # At(i)  BY <2>1, <4>1 DEF Twice, At
      <4> QED  BY <1>1, <2>0, <2>1, <3>1, <4>2
    <3> HIDE DEF O, R
    <3>4. \A e : e # d => R(e)' = R(e)  BY <2>3
    <3>5. d \in Place /\ R(d)' >= R(d) - 1
      BY <2>3, <2>4, <2>5, <2>8
    <3>6. ~failed => O(d)' <= R(d)'
      BY <2>2, <2>3, <2>5, <3>1, <3>5
    <3>7. \A e \in Place : ~failed => O(e)' <= R(e)'
      BY <2>2, <3>2, <3>4, <3>6
    <3> QED  BY <1>1, <2>2, <2>8, <3>3, <3>7 DEF O, R
  <2>9. CASE mnt' = mnt /\ failed' /\ On(d) # {} /\ "unmount" \in Faults
    <3>1. PICK n \in DOMAIN config.mounts : n = i  BY <2>1
    <3>2. On(At(n))' # {}  BY <1>1, <2>0, <2>9, <3>1 DEF On
    <3>3. n < i'  BY <1>1, <2>1, <3>1
    <3>4. LeftOver'  BY <1>1, <3>2, <3>3 DEF LeftOver
    <3> QED  BY <2>9, <3>4
  <2> QED  BY <2>6, <2>7, <2>8, <2>9
<1>3. CASE Stop \/ PointFails \/ MountFails \/ CopyFails \/ DeleteAgain
  <2>1. i' = 1 /\ mnt' = mnt /\ ~failed'
    <3>1. CASE Stop
      BY <3>1 DEF Stop, RemovedInv
    <3>2. CASE DeleteAgain
      BY <3>2 DEF DeleteAgain
    <3>3. CASE PointFails \/ MountFails \/ CopyFails
      <4>1. MountThrows /\ step \in {"prepare", "mount"}
        BY <3>3 DEF PointFails, MountFails, CopyFails
      <4> QED  BY <4>1 DEF MountThrows, RemovedInv, Creating
    <3> QED  BY <1>3, <3>1, <3>2, <3>3
  <2>2. ASSUME NEW d \in Place
        PROVE  Cardinality(On(d)') <= Cardinality(Rest(d)')
    <3>1. On(d)' = {n \in 1..Len(config.mounts) : <<d, n>> \in mnt}
      BY <1>1, <2>1 DEF On
    <3>2. Rest(d)' = {n \in 1..Len(config.mounts) : At(n) = d /\ ~CopyAt(n)}
      BY <1>1, <2>1 DEF Rest, At, CopyAt, FileAt
    <3>3. mnt \subseteq {<<At(n), n>> : n \in {m \in DOMAIN config.mounts :
                                          At(m) \in Place /\ ~CopyAt(m)}}
      BY DEF MountedInv
    <3>4. \A n \in 1..Len(config.mounts) :
            <<d, n>> \in mnt => At(n) = d /\ ~CopyAt(n)
      BY <3>3
    <3>5. On(d)' \subseteq Rest(d)'  BY <3>1, <3>2, <3>4
    <3>6. IsFiniteSet(Rest(d)')
      <4>1. IsFiniteSet(1..Len(config.mounts))
        BY <1>1, Numbers
      <4> QED  BY <3>2, <4>1, FS_Subset
    <3> QED  BY <3>5, <3>6, FS_Subset
  <2> QED  BY <2>1, <2>2
<1>4. CASE UNCHANGED vars
  <2>1. \A d : On(d)' = On(d) /\ Rest(d)' = Rest(d)
    BY <1>4 DEF vars, On, Rest, At, CopyAt, FileAt
  <2>2. LeftOver' = LeftOver
    BY <1>4 DEF vars, LeftOver, On, At
  <2> QED  BY <1>1, <1>4, <2>1, <2>2 DEF vars, MountedInv
<1>5. ~(\/ Prepare \/ MountVolume \/ MountsDone \/ Alias \/ ContainerWrites
        \/ SourceGone \/ UnmountsDone \/ RemovePoint \/ RemovesDone)
  BY DEF Prepare, MountVolume, MountsDone, Alias, ContainerWrites, SourceGone,
     UnmountsDone, RemovePoint, RemovesDone, localVars
<1> QED
  BY <1>2, <1>3, <1>4, <1>5 DEF Next

\* What is mounted, all in all.
LEMMA MountedKeeps ==
  ASSUME PartInv, ReadonlyInv, MountedInv, RemovedInv, [Next]_vars
  PROVE  MountedInv'
<1>1. /\ config' = config /\ TreeMoves /\ i \in Nat
      /\ Len(config.mounts) \in Nat /\ i \in 1..(Len(config.mounts) + 1)
      /\ DOMAIN config.mounts = 1..Len(config.mounts)
  BY PartKeeps, Configured DEF PartInv, TypeOK, TreeMoves
<1>2. \A n : At(n)' = At(n) /\ CopyAt(n)' = CopyAt(n) /\ FileAt(n)' = FileAt(n)
  BY <1>1 DEF At, CopyAt, FileAt
<1>3. step' = "up" =>
        mnt' = {<<At(n), n>> : n \in {m \in DOMAIN config.mounts : ~CopyAt(m)}}
  <2> SUFFICES ASSUME step' = "up"
               PROVE  mnt' = {<<At(n), n>> : n \in
                               {m \in DOMAIN config.mounts : ~CopyAt(m)}}
    OBVIOUS
  <2>1. CASE MountsDone
    <3>1. step = "mount" /\ i > Len(config.mounts) /\ mnt' = mnt
      BY <2>1 DEF MountsDone
    <3>2. 1..(i - 1) = DOMAIN config.mounts  BY <1>1, <3>1
    <3> QED  BY <3>1, <3>2 DEF MountedInv
  <2>2. CASE step = "up" /\ mnt' = mnt
    BY <2>2 DEF MountedInv
  <2>3. \/ MountsDone
        \/ step = "up" /\ mnt' = mnt
    BY DEF Next, vars, localVars, PointFails, MountThrows, Prepare,
        MountVolume, MountFails, CopyFails, MountsDone, Alias,
        ContainerWrites, SourceGone, Stop, UnmountVolume, UnmountsDone,
        RemovePoint, RemovesDone, DeleteAgain
  <2> QED  BY <2>1, <2>2, <2>3
<1>5. \/ step' \in {"remove", "down"}
      \/ step' = "failed" /\ alias'
      => failed' \/ mnt' = {}
  <2>1. CASE UnmountsDone
    <3>1. /\ step = "unmount" /\ i > Len(config.mounts) /\ mnt' = mnt
          /\ failed' = failed
      BY <2>1 DEF UnmountsDone
    <3>2. ASSUME ~failed, NEW n \in DOMAIN config.mounts, At(n) \in Place
          PROVE  <<At(n), n>> \notin mnt
      <4>1. Rest(At(n)) = {}  BY <1>1, <3>1 DEF Rest
      <4>2. Cardinality(On(At(n))) <= Cardinality(Rest(At(n)))
        BY <3>1, <3>2 DEF MountedInv
      <4>3. On(At(n)) = {}
        <5> DEFINE a == Cardinality(On(At(n)))
                   b == Cardinality(Rest(At(n)))
        <5>1. a \in Nat /\ b = 0 /\ a <= b /\ (On(At(n)) = {} <=> a = 0)
          BY <4>1, <4>2, Counts
        <5> HIDE DEF a, b
        <5> QED  BY <5>1
      <4> QED  BY <1>1, <4>3 DEF On
    <3>3. ~failed => mnt = {}  BY <3>2 DEF MountedInv
    <3> QED  BY <2>1, <3>1, <3>3 DEF UnmountsDone
  <2>2. CASE RemovePoint
    BY <2>2 DEF RemovePoint, localVars, MountedInv
  <2>3. CASE RemovesDone
    BY <2>3 DEF RemovesDone, localVars, MountedInv
  <2>4. CASE PointFails \/ MountFails \/ CopyFails
    <3>1. MountThrows  BY <2>4 DEF PointFails, MountFails, CopyFails
    <3> QED  BY <3>1 DEF MountThrows, ReadonlyInv
  <2>5. CASE Alias
    BY <2>5 DEF Alias, ReadonlyInv
  <2>6. CASE \/ Prepare \/ MountVolume \/ MountsDone \/ ContainerWrites
             \/ SourceGone \/ Stop \/ UnmountVolume \/ DeleteAgain
    BY <2>6 DEF Prepare, MountVolume, MountsDone, ContainerWrites, SourceGone,
       Stop, UnmountVolume, DeleteAgain, localVars
  <2>7. CASE UNCHANGED vars
    BY <2>7 DEF vars, MountedInv
  <2> QED
    BY <2>1, <2>2, <2>3, <2>4, <2>5, <2>6, <2>7 DEF Next
<1>6. /\ mnt' \subseteq {<<At(n), n>> : n \in {m \in DOMAIN config.mounts :
                                           At(m) \in Place /\ ~CopyAt(m)}}
      /\ step' \in {"prepare", "alias"} => mnt' = {}
      /\ step' = "alias" => i' = 1
      /\ step' = "mount" =>
           /\ mnt' = {<<At(n), n>> : n \in {m \in 1..(i' - 1) : ~CopyAt(m)}}
           /\ \A n \in 1..(i' - 1) :
                /\ At(n) \in Place
                /\ Is(fs', At(n), IF FileAt(n) THEN "file" ELSE "dir")
  BY MountingKeeps
<1>7. step' = "unmount" =>
        /\ ~failed' =>
             \A d \in Place : Cardinality(On(d)') <= Cardinality(Rest(d)')
        /\ failed' => "unmount" \in Faults /\ (Twice' \/ LeftOver')
  BY CountingKeeps
<1> QED
  BY <1>1, <1>2, <1>3, <1>5, <1>6, <1>7 DEF MountedInv, Is

-----------------------------------------------------------------------------
(* What is removed.                                                        *)

\* Of what is below a path in a tree, something is right below it.
LEMMA ChildBelow ==
  ASSUME NEW t, IsTree(t), NEW p \in Path \ {<<>>}, NEW q \in DOMAIN t,
         StrictlyBelow(p, q)
  PROVE  \E r \in DOMAIN t : r # Root /\ Front(r) = p /\ StrictlyBelow(p, r)
<1> DEFINE B == {r \in DOMAIN t : StrictlyBelow(p, r)}
           S == {Len(r) : r \in B}
<1>1. \A r \in DOMAIN t : r \in Path \ {<<>>} /\ Len(r) \in Nat \ {0}
  BY PathFront DEF IsTree
<1>2. S \subseteq Nat /\ S # {}  BY <1>1
<1>3. PICK l \in S : \A m \in S : l <= m  BY <1>2, Least
<1>4. PICK r \in B : l = Len(r)  OBVIOUS
<1>5. /\ r \in Path \ {<<>>} /\ Len(r) \in Nat \ {0}
      /\ p \in Path /\ Len(p) \in Nat \ {0}
      /\ p # r /\ Len(p) <= Len(r)
      /\ SubSeq(p, 1, Len(p)) = SubSeq(r, 1, Len(p))
  BY <1>1, PathFront DEF StrictlyBelow, IsPrefix
<1>6. \A s \in Path : SubSeq(s, 1, Len(s)) = s
  BY SubSeqFull DEF Path
<1>7. Len(p) < Len(r)
  <2>1. Len(p) # Len(r)  BY <1>5, <1>6
  <2> QED  BY <1>5, <2>1
<1>8. r # Root
  BY <1>5, <1>7, RootPath
<1>9. /\ Front(r) \in DOMAIN t /\ Front(r) \in Path
      /\ Len(Front(r)) = Len(r) - 1
      /\ \A n \in 1..(Len(r) - 1) : Front(r)[n] = r[n]
  BY <1>5, <1>8, TreeFront, PathFront
<1>10. Front(r) = p
  <2> SUFFICES ASSUME Front(r) # p PROVE FALSE
    OBVIOUS
  <2>1. Len(p) \in 0..Len(Front(r)) /\ Len(p) \in 0..Len(r)
    BY <1>5, <1>7, <1>9
  <2>2. /\ SubSeq(r, 1, Len(p)) \in Path /\ Len(SubSeq(r, 1, Len(p))) = Len(p)
        /\ \A n \in 1..Len(p) : SubSeq(r, 1, Len(p))[n] = r[n]
    BY <1>5, <2>1, PathCut
  <2>3. /\ SubSeq(Front(r), 1, Len(p)) \in Path
        /\ Len(SubSeq(Front(r), 1, Len(p))) = Len(p)
        /\ \A n \in 1..Len(p) : SubSeq(Front(r), 1, Len(p))[n] = Front(r)[n]
    BY <1>9, <2>1, PathCut
  <2>4. \A n \in 1..Len(p) : Front(r)[n] = r[n]
    BY <1>5, <1>7, <1>9
  <2>5. SubSeq(Front(r), 1, Len(p)) = SubSeq(r, 1, Len(p))
    BY <2>2, <2>3, <2>4, PathEqual
  <2>6. StrictlyBelow(p, Front(r))
    BY <1>5, <2>1, <2>5 DEF StrictlyBelow, IsPrefix
  <2>7. Len(Front(r)) \in S  BY <1>9, <2>6
  <2>8. Len(r) <= Len(Front(r))  BY <1>3, <1>4, <2>7
  <2> QED  BY <1>5, <1>9, <2>8
<1> QED  BY <1>8, <1>10

\* What cannot be removed is in use, or something is in it that create has
\* not made, or has made and not been able to take back.
LEMMA Blocked ==
  ASSUME PartInv, AsideInv, RemovedInv, step = "remove", up, ~failed,
         NEW p \in todo, NextToRemove(p),
         On(p) # {} \/ \E q \in DOMAIN fs : StrictlyBelow(p, q)
  PROVE  Reason
<1>1. CASE On(p) # {}
  BY <1>1 DEF On, Reason
<1>2. ASSUME NEW q \in DOMAIN fs, StrictlyBelow(p, q)
      PROVE  Reason
  <2>1. p \in recorded /\ p \in Path \ {<<>>} /\ p \notin DOMAIN config.tree
    BY DEF PartInv, TypeOK, RootInv, RecordInv
  <2>2. PICK r \in DOMAIN fs :
          r # Root /\ Front(r) = p /\ StrictlyBelow(p, r)
    BY <1>2, <2>1, ChildBelow DEF PartInv, RootInv
  <2>3. r \notin DOMAIN config.tree
    BY <2>1, <2>2, Configured, TreeFront DEF PartInv
  <2>4. r \notin recorded
    BY <2>2 DEF NextToRemove, RemovedInv
  <2>5. Aside(r) \/ Last(r) = "new"
    BY <2>3, <2>4 DEF PartInv, RootInv, TreeInv, Placed
  <2>6. CASE Last(r) = "new"
    BY <2>1, <2>2, <2>6 DEF Reason, OfUser
  <2>7. CASE Aside(r)
    <3>1. PICK n \in DOMAIN config.mounts :
            CopyAt(n) /\ (gone \/ config.mounts[n].type = "bind")
      BY <2>7 DEF AsideInv
    <3>2. ~config.files /\ (gone \/ BindCopied)
      BY <3>1 DEF CopyAt, FileAt, BindCopied
    <3> QED  BY <3>2 DEF Reason
  <2> QED  BY <2>5, <2>6, <2>7
<1> QED  BY <1>1, <1>2

\* A reason does not go away while paths are removed.
LEMMA ReasonStays ==
  ASSUME PartInv, Reason, config' = config, mnt' = mnt, gone' = gone,
         recorded' = recorded,
         fs' = fs \/ \E p \in todo : fs' = Without(fs, {p})
  PROVE  Reason'
<1>1. ASSUME NEW p \in OfUser
      PROVE  p \in OfUser'
  <2>1. p \in DOMAIN fs /\ Last(p) = "new"  BY DEF OfUser
  <2>2. p \notin recorded
    BY <2>1, PlacePath DEF PartInv, RootInv, RecordInv
  <2>3. p \notin todo  BY <2>2 DEF PartInv, TypeOK
  <2>4. p \in DOMAIN fs'  BY <2>1, <2>3 DEF Without
  <2> QED  BY <2>1, <2>4 DEF OfUser
<1>2. BindCopied' = BindCopied /\ Twice' = Twice  BY DEF BindCopied, Twice
<1>3. CASE mnt # {} \/ (Twice /\ "unmount" \in Faults)
  BY <1>2, <1>3 DEF Reason
<1>4. CASE \E p \in OfUser : Front(p) \in recorded
  BY <1>1, <1>4 DEF Reason
<1>5. CASE (gone \/ BindCopied) /\ ~config.files
  BY <1>2, <1>5 DEF Reason
<1> QED  BY <1>3, <1>4, <1>5 DEF Reason

\* What has been removed is gone, and what has not has a reason.
LEMMA RemovedKeeps ==
  ASSUME PartInv, ReadonlyInv, AsideInv, MountedInv, RemovedInv, [Next]_vars
  PROVE  RemovedInv'
<1>1. /\ config' = config /\ PartInv'
  BY PartKeeps DEF TreeMoves
<1>2. /\ step' \in Creating => ~failed'
      /\ step' = "up" => up' /\ ~failed'
  <2>1. step' \in Creating => ~failed'
    BY DEF Creating, RemovedInv, Next, vars, localVars, PointFails,
        MountThrows, Prepare, MountVolume, MountFails, CopyFails, MountsDone,
        Alias, ContainerWrites, SourceGone, Stop, UnmountVolume,
        UnmountsDone, RemovePoint, RemovesDone, DeleteAgain
  <2>2. step' = "up" => up'
    BY DEF Creating, RemovedInv, Next, vars, localVars, PointFails,
        MountThrows, Prepare, MountVolume, MountFails, CopyFails, MountsDone,
        Alias, ContainerWrites, SourceGone, Stop, UnmountVolume,
        UnmountsDone, RemovePoint, RemovesDone, DeleteAgain
  <2>3. step' = "up" => ~failed'
    BY DEF Creating, RemovedInv, Next, vars, localVars, PointFails,
        MountThrows, Prepare, MountVolume, MountFails, CopyFails, MountsDone,
        Alias, ContainerWrites, SourceGone, Stop, UnmountVolume,
        UnmountsDone, RemovePoint, RemovesDone, DeleteAgain
  <2> QED  BY <2>1, <2>2, <2>3
<1>3. CASE RemovePoint
  <2>1. /\ step = "remove" /\ step' = "remove" /\ recorded' = recorded
        /\ mnt' = mnt /\ up' = up /\ gone' = gone
    BY <1>3 DEF RemovePoint, localVars
  <2>2. PICK p \in todo :
          /\ NextToRemove(p)
          /\ \/ /\ fs' = Without(fs, {p}) /\ todo' = todo \ {p}
                /\ failed' = failed
             \/ /\ On(p) # {} \/ \E q \in DOMAIN fs : StrictlyBelow(p, q)
                /\ todo' = {} /\ failed' = TRUE /\ fs' = fs
    BY <1>3 DEF RemovePoint
  <2>3. CASE /\ fs' = Without(fs, {p}) /\ todo' = todo \ {p}
             /\ failed' = failed
    <3>1. ~failed' => \A q \in recorded \ todo' : q \notin DOMAIN fs'
      BY <2>1, <2>3 DEF RemovedInv, Without
    <3>2. up /\ failed => Reason'
      <4> SUFFICES ASSUME up, failed PROVE Reason'
        OBVIOUS
      <4>1. Reason  BY <2>1 DEF RemovedInv
      <4> QED  BY <1>1, <2>1, <2>3, <4>1, ReasonStays
    <3> QED  BY <2>1, <2>3, <3>1, <3>2 DEF RemovedInv, Creating
  <2>4. CASE /\ On(p) # {} \/ \E q \in DOMAIN fs : StrictlyBelow(p, q)
             /\ todo' = {} /\ failed' = TRUE /\ fs' = fs
    <3>1. up => Reason
      <4>1. CASE failed
        BY <2>1, <4>1 DEF RemovedInv
      <4>2. CASE ~failed
        BY <2>1, <2>2, <2>4, <4>2, Blocked
      <4> QED  BY <4>1, <4>2
    <3>2. up => Reason'  BY <1>1, <2>1, <2>4, <3>1, ReasonStays
    <3> QED  BY <2>1, <2>4, <3>2 DEF RemovedInv, Creating
  <2> QED  BY <2>2, <2>3, <2>4
<1>4. CASE RemovesDone
  <2>1. /\ step = "remove" /\ todo = {} /\ recorded' = recorded
        /\ mnt' = mnt /\ up' = up /\ gone' = gone /\ fs' = fs
        /\ failed' = failed
        /\ up /\ ~failed => /\ step' = "down"
                            /\ alias' => "unmount_root" \in Faults
        /\ ~(up /\ ~failed) => step' = IF up THEN "stuck" ELSE "failed"
    BY <1>4 DEF RemovesDone, localVars, PartInv, TypeOK
  <2>2. ~failed => \A p \in recorded : p \notin DOMAIN fs
    BY <2>1 DEF RemovedInv
  <2>3. up /\ failed => Reason'
    <3> SUFFICES ASSUME up, failed PROVE Reason'
      OBVIOUS
    <3>1. Reason  BY <2>1 DEF RemovedInv
    <3> QED  BY <1>1, <2>1, <3>1, ReasonStays
  <2>4. step' \in {"down", "stuck", "failed"}  BY <2>1
  <2>5. step' = "down" => up /\ ~failed  BY <2>1
  <2>6. step' = "stuck" => up /\ failed  BY <2>1
  <2>7. ~(step' \in {"remove", "up"} \cup Creating)
    BY <2>4 DEF Creating
  <2> QED
    BY <2>1, <2>2, <2>3, <2>4, <2>5, <2>6, <2>7 DEF RemovedInv, Creating
<1>5. CASE UnmountsDone
  <2>1. /\ step = "unmount" /\ step' = "remove" /\ todo' = recorded
        /\ recorded' = recorded /\ mnt' = mnt /\ up' = up /\ failed' = failed
    BY <1>5 DEF UnmountsDone, localVars
  <2>2. failed => mnt # {} \/ (Twice /\ "unmount" \in Faults)
    BY <2>1 DEF MountedInv, LeftOver, On
  <2>3. Twice' = Twice  BY <1>1 DEF Twice
  <2> QED  BY <2>1, <2>2, <2>3 DEF RemovedInv, Creating, Reason
<1>6. CASE PointFails \/ MountFails \/ CopyFails
  <2>1. MountThrows  BY <1>6 DEF PointFails, MountFails, CopyFails
  <2> QED  BY <2>1 DEF MountThrows, RemovedInv, ReadonlyInv, Creating
<1>7. CASE Alias
  BY <1>2, <1>7 DEF Alias, RemovedInv, ReadonlyInv, Creating
<1>8. CASE \/ Prepare \/ MountVolume \/ MountsDone \/ ContainerWrites
           \/ SourceGone \/ Stop \/ UnmountVolume \/ DeleteAgain
  <2>1. step' \notin {"remove", "down", "stuck", "failed"}
    BY <1>8 DEF Prepare, MountVolume, MountsDone, ContainerWrites, SourceGone,
       Stop, UnmountVolume, DeleteAgain, localVars
  <2> QED  BY <1>2, <2>1 DEF RemovedInv, Creating
<1>9. CASE UNCHANGED vars
  BY <1>9 DEF vars, RemovedInv, Reason, Twice, OfUser, BindCopied, Creating
<1> QED
  BY <1>3, <1>4, <1>5, <1>6, <1>7, <1>8, <1>9 DEF Next

-----------------------------------------------------------------------------
(* What the way back comes to.                                             *)

\* The inductive invariant.
WholeInv ==
  PartInv /\ OriginalInv /\ ReadonlyInv /\ AsideInv /\ MountedInv /\ RemovedInv

\* It holds at first.
LEMMA WholeInit == Init => WholeInv
<1> SUFFICES ASSUME Init PROVE WholeInv
  OBVIOUS
<1>1. PartInv  BY PartInit
<1>2. /\ fs = config.tree /\ DOMAIN config.tree \subseteq Place /\ mnt = {}
      /\ i = 1 /\ ~alias /\ ~up /\ ~failed /\ supported = "null"
      /\ step = IF config.readonly THEN "prepare" ELSE "mount"
      /\ IsTree(fs) /\ tries = TRUE
  BY <1>1, Configured DEF Init, PartInv
<1>3. \A p \in DOMAIN fs : ~Aside(p)
  BY <1>2, AsidePath DEF IsTree
<1>4. OriginalInv
  <2> SUFFICES ASSUME NEW p \in DOMAIN config.tree,
                      Is(config.tree, p, "file")
               PROVE  SavePath(p) \notin DOMAIN fs
    BY <1>2 DEF OriginalInv
  <2>1. p \in Place /\ p # Root
    BY <1>1, Configured DEF Is, Dir, PartInv
  <2> QED  BY <1>2, <2>1, SavePathsDiffer
<1>5. ReadonlyInv  BY <1>2 DEF ReadonlyInv
<1>6. AsideInv  BY <1>3 DEF AsideInv
<1>7. MountedInv
  <2>1. 1..(i - 1) = {}  BY <1>2
  <2> QED  BY <1>2, <2>1 DEF MountedInv
<1>8. RemovedInv  BY <1>2 DEF RemovedInv, Creating
<1> QED  BY <1>1, <1>4, <1>5, <1>6, <1>7, <1>8 DEF WholeInv

\* It holds all through a run.
LEMMA WholeAlways == Spec => []WholeInv
<1>1. WholeInv /\ [Next]_vars => WholeInv'
  BY PartKeeps, OriginalKeeps, ReadonlyKeeps, AsideKeeps, MountedKeeps,
     RemovedKeeps DEF WholeInv
<1> QED  BY WholeInit, <1>1, PTL DEF Spec

\* When the unmounting succeeds the root is what it was before create, but
\* for what the container has made, and no volume is mounted.
THEOREM DeleteRestoresAlways == Spec => []DeleteRestores
<1>1. WholeInv => DeleteRestores
  <2> SUFFICES ASSUME WholeInv, step = "down"
               PROVE  /\ mnt = {}
                      /\ alias => "unmount_root" \in Faults
                      /\ \/ Twice \/ gone \/ BindCopied
                         \/ Without(fs, OfUser) = config.tree
    BY DEF DeleteRestores
  <2>1. /\ up /\ ~failed /\ (alias => "unmount_root" \in Faults)
        /\ \A p \in recorded : p \notin DOMAIN fs
    BY DEF WholeInv, RemovedInv
  <2>2. mnt = {}  BY <2>1 DEF WholeInv, MountedInv
  <2>3. ASSUME ~Twice, ~gone, ~BindCopied
        PROVE  Without(fs, OfUser) = config.tree
    <3>1. ASSUME NEW p \in DOMAIN fs PROVE ~Aside(p)
      <4> SUFFICES ASSUME Aside(p) PROVE FALSE
        OBVIOUS
      <4>1. PICK n \in DOMAIN config.mounts :
              CopyAt(n) /\ (gone \/ config.mounts[n].type = "bind")
        BY <2>1 DEF WholeInv, AsideInv
      <4> QED  BY <2>3, <4>1 DEF CopyAt, FileAt, BindCopied
    <3>2. ASSUME NEW p \in DOMAIN config.tree
          PROVE  p \in DOMAIN fs /\ fs[p] = config.tree[p]
      <4>1. CASE config.tree[p].kind # "file"
        BY <4>1 DEF WholeInv, PartInv, RootInv, TreeInv
      <4>2. CASE config.tree[p].kind = "file"
        <5>1. p \in Place /\ p # Root
          BY <4>2, Configured DEF Dir, WholeInv, PartInv
        <5>2. SavePath(p) \notin DOMAIN fs
          BY <3>1, <5>1, SavePaths
        <5> QED  BY <2>3, <4>2, <5>2 DEF WholeInv, OriginalInv, Is
      <4> QED  BY <4>1, <4>2
    <3>3. ASSUME NEW p \in DOMAIN fs \ OfUser
          PROVE  p \in DOMAIN config.tree
      BY <2>1, <3>1, <3>3
      DEF WholeInv, PartInv, RootInv, TreeInv, Placed, OfUser
    <3>4. DOMAIN config.tree \cap OfUser = {}
      BY Configured, PlacePath DEF OfUser, WholeInv, PartInv
    <3>5. DOMAIN fs \ OfUser = DOMAIN config.tree
      BY <3>2, <3>3, <3>4
    <3>6. Without(fs, OfUser) = [p \in DOMAIN config.tree |-> config.tree[p]]
      BY <3>2, <3>5 DEF Without
    <3>7. config.tree = [p \in DOMAIN config.tree |-> config.tree[p]]
      BY Configured DEF IsTree, WholeInv, PartInv
    <3> QED  BY <3>6, <3>7
  <2> QED  BY <2>1, <2>2, <2>3
<1> QED  BY <1>1, WholeAlways, PTL

\* The unmounting fails for a reason only.
THEOREM StuckForAReasonAlways == Spec => []StuckForAReason
<1>1. WholeInv => StuckForAReason
  BY DEF WholeInv, RemovedInv, Reason, StuckForAReason
<1> QED  BY <1>1, WholeAlways, PTL

\* When the second pass over a read-only root fails, all volumes and mount
\* points are taken away again.
THEOREM SecondPassCleansAlways == Spec => []SecondPassCleans
<1>1. WholeInv => SecondPassCleans
  <2> SUFFICES ASSUME WholeInv, step = "failed", alias, ~failed
               PROVE  mnt = {} /\ fs = config.tree
    BY DEF SecondPassCleans
  <2>1. mnt = {}  BY DEF WholeInv, MountedInv
  <2>2. \A p \in recorded : p \notin DOMAIN fs
    BY DEF WholeInv, RemovedInv
  <2>3. /\ \A p \in DOMAIN config.tree :
             p \in DOMAIN fs /\ fs[p] = config.tree[p]
        /\ \A p \in DOMAIN fs : p \in DOMAIN config.tree \cup recorded
    BY DEF WholeInv, ReadonlyInv
  <2>4. DOMAIN fs = DOMAIN config.tree  BY <2>2, <2>3
  <2>5. /\ fs = [p \in DOMAIN fs |-> fs[p]]
        /\ config.tree = [p \in DOMAIN config.tree |-> config.tree[p]]
    BY DEF WholeInv, PartInv, TypeOK, IsTree
  <2>6. fs = config.tree  BY <2>3, <2>4, <2>5
  <2> QED  BY <2>1, <2>6
<1> QED  BY <1>1, WholeAlways, PTL

-----------------------------------------------------------------------------
(* Where volumes go.                                                       *)

\* A tree is in the root: a shortest path that is not would be in a directory
\* that is.
LEMMA TreeInRoot ==
  ASSUME NEW t, IsTree(t)
  PROVE  DOMAIN t \subseteq InRoot
<1> DEFINE S == {Len(p) : p \in DOMAIN t \ InRoot}
<1> SUFFICES ASSUME DOMAIN t \ InRoot # {} PROVE FALSE
  OBVIOUS
<1>1. \A p \in DOMAIN t : p \in Path \ {<<>>} /\ Len(p) \in Nat
  BY PathFront DEF IsTree
<1>2. S \subseteq Nat /\ S # {}  BY <1>1
<1>3. PICK l \in S : \A n \in S : l <= n  BY <1>2, Least
<1>4. PICK p \in DOMAIN t \ InRoot : l = Len(p)  OBVIOUS
<1>5. p # Root  BY <1>4, InRootPath
<1>6. Front(p) \in DOMAIN t  BY <1>4, <1>5 DEF IsTree, Is
<1>7. /\ p \in Path \ {<<>>} /\ Len(p) \in Nat
      /\ Len(Front(p)) = Len(p) - 1 /\ Last(p) \in Word
      /\ p = Append(Front(p), Last(p))
  BY <1>1, <1>4, PathFront
<1>8. ~(Len(p) <= Len(Front(p)))  BY <1>7
<1>9. Front(p) \in InRoot  BY <1>3, <1>4, <1>6, <1>8
<1>10. p \in InRoot  BY <1>7, <1>9, InRootPath
<1> QED  BY <1>4, <1>10

\* Nothing is mounted, moved, made or recorded outside the root.
THEOREM InsideRootAlways == Spec => []InsideRoot
<1>1. \A p \in Place : p \in InRoot  BY PlacePath DEF InRoot
<1>2. \A p \in InRoot : IsPrefix(Root, p)  BY InRootPath
<1>3. WholeInv => InsideRoot
  <2> SUFFICES ASSUME WholeInv PROVE InsideRoot
    OBVIOUS
  <2>1. /\ ConfigInv /\ TreeInv /\ TypeOK /\ RecordInv /\ IsTree(fs)
        /\ MountedInv
    BY DEF WholeInv, PartInv, RootInv
  <2>2. ASSUME i <= Len(config.mounts), Destination # ELOOP
        PROVE  IsPrefix(Root, Destination)
    BY <1>1, <1>2, <2>1, <2>2, Destinations
  <2>3. ASSUME NEW m \in mnt
        PROVE  IsPrefix(Root, m[1])
    <3>1. PICK n \in DOMAIN config.mounts : m = <<At(n), n>> /\ At(n) \in Place
      BY <2>1, <2>3 DEF MountedInv
    <3>2. m[1] = At(n)  BY <3>1
    <3> QED  BY <1>1, <1>2, <3>1, <3>2
  <2>4. ASSUME NEW p \in recorded
        PROVE  p \in InRoot
    <3>1. CASE p \in Place  BY <1>1, <3>1
    <3>2. CASE p \notin Place
      <4>1. p \in Path \ {<<>>} /\ Front(p) \in Place
        BY <2>1, <2>4, <3>2 DEF RecordInv
      <4>2. Last(p) \in Word /\ p = Append(Front(p), Last(p))
        BY <4>1, PathFront
      <4>3. Front(p) \in InRoot  BY <1>1, <4>1
      <4> QED  BY <4>2, <4>3, InRootPath
    <3> QED  BY <3>1, <3>2
  <2>5. \A p \in DOMAIN fs \cup recorded : IsPrefix(Root, p)
    BY <1>2, <2>1, <2>4, TreeInRoot
  <2> QED  BY <2>2, <2>3, <2>5 DEF InsideRoot
<1> QED  BY <1>3, WholeAlways, PTL

\* A volume ends up where the container will see its destination.
THEOREM ResolveAgreesAlways == Spec => []ResolveAgrees
<1>1. PartInv => ResolveAgrees
  <2> SUFFICES ASSUME PartInv, NEW n \in DOMAIN config.mounts
               PROVE  LET p == config.mounts[n].dest
                          r == resolve_container_path(config.tree, p)
                          kernel(l) == Walk(config.tree)[WalkOf(l, Root, p)]
                      IN \/ r = kernel(MaxSymlinks)
                         \/ r = ELOOP /\ kernel(MaxSymlinks - 1) = ELOOP
                         \/ /\ kernel(MaxSymlinks) = ELOOP
                            /\ \E l \in Nat :
                                 l > MaxSymlinks /\ kernel(l) = r
    BY DEF ResolveAgrees
  <2> DEFINE p == config.mounts[n].dest
             r == resolve_container_path(config.tree, p)
             kernel(l) == Walk(config.tree)[WalkOf(l, Root, p)]
  <2>1. IsTree(config.tree) /\ p \in Path  BY Configured DEF PartInv
  <2>2. /\ r # ELOOP => \E k \in Nat : \A l \in Nat :
                          kernel(l) = IF l < k THEN ELOOP ELSE r
        /\ r = ELOOP => \A l \in Nat : l < MaxSymlinks => kernel(l) = ELOOP
    BY <2>1, ResolvesAsKernel
  <2>3. /\ MaxSymlinks \in Nat /\ MaxSymlinks - 1 \in Nat
        /\ MaxSymlinks - 1 < MaxSymlinks
    BY MountsAssumption
  <2> HIDE DEF kernel, r
  <2>4. CASE r = ELOOP
    <3>1. kernel(MaxSymlinks - 1) = ELOOP  BY <2>2, <2>3, <2>4
    <3> QED  BY <2>4, <3>1 DEF kernel, r
  <2>5. CASE r # ELOOP
    <3>1. PICK k \in Nat : \A l \in Nat :
            kernel(l) = IF l < k THEN ELOOP ELSE r
      BY <2>2, <2>5
    <3>2. CASE k <= MaxSymlinks
      <4>1. kernel(MaxSymlinks) = r  BY <2>3, <3>1, <3>2
      <4> QED  BY <4>1 DEF kernel, r
    <3>3. CASE k > MaxSymlinks
      <4>1. kernel(MaxSymlinks) = ELOOP /\ kernel(k) = r
        BY <2>3, <3>1, <3>3
      <4> QED  BY <3>3, <4>1 DEF kernel, r
    <3> QED  BY <2>3, <3>2, <3>3
  <2> QED  BY <2>4, <2>5
<1> QED  BY <1>1, PartAlways, PTL

=============================================================================
