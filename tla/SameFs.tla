------------------------------- MODULE SameFs -------------------------------
(***************************************************************************)
(* handle_same_fs: when the upper directory would lie inside the lower     *)
(* tree on the same file system, cage keeps it in an ext4 image, attached  *)
(* to a loop device and mounted at a loop directory that all names below   *)
(* the same parent share.  Starts of different names run side by side,     *)
(* each step may fail, each start may be killed, the host may reboot; what *)
(* is on disk stays.                                                       *)
(*                                                                         *)
(* Images are numbered in the order of their creation; a file name (img,   *)
(* tmp[p]) holds an image or 0.  An image is "short" (wrong size), "sized" *)
(* (zeros of the right size), "magic" (superblock there, rest missing) or  *)
(* "complete".  Directories in an image are pairs <<name, directory>>.     *)
(***************************************************************************)
EXTENDS Naturals, Sequences, FiniteSets

CONSTANTS
  Names,      \* the names (leaves below the loop directory) that are started
  Devs,       \* the loop devices the kernel can offer, numbered from 1
  Layouts,    \* where an appdir may lie, records as in NeedsLoopback
  Disks,      \* the disks to start from, records as in Init
  MaxImages,  \* bound on the images built
  MaxStarts,  \* bound on the invocations in all
  MaxKills,   \* bound on the kills
  MaxReboots, \* bound on the reboots
  MaxFaults   \* bound on the system calls that fail

ASSUME SameFsAssumption ==
  /\ Devs \subseteq Nat \ {0}
  /\ \A n \in {MaxImages, MaxStarts, MaxKills, MaxReboots, MaxFaults} : n \in Nat

\* The loop directories and images a first start can find.  No image is there
\* with a superblock and unfinished: that is what the rename is for.
ASSUME DisksAssumption ==
  \A d \in Disks :
    /\ d.loopdir \in {"absent", "dir", "symlink"}
    /\ d.bare \subseteq Names
    /\ d.img \in {"none", "short", "complete"}
    /\ d.img # "none" => MaxImages > 0

Images == 1 .. MaxImages
None == 0
NoDev == 0
Free == [img |-> None, auto |-> FALSE]

VARIABLES
  pc,       \* the next step of the start of a name
  loopdir,  \* the loop directory on the host's disk: "absent", "dir", "symlink"
  bare,     \* the names with an upper directory in the loop directory itself
  img,      \* the image under its final name
  tmp,      \* the image under <img>.tmp.<pid of the start>
  content,  \* how much of an image has been written
  dirs,     \* the directories inside an image
  made,     \* the images built so far
  dev,      \* what each loop device is bound to
  fd,       \* the loop device a start has chosen, or holds open
  open,     \* the starts that hold fd open
  imgfd,    \* the image file a start holds open
  mounts,   \* the devices mounted at the loop directory, the visible one last
  view,     \* the image a started container sees at the loop directory
  foreign,  \* the starts whose lower directory is not on the loop directory's device
  budget,   \* starts, kills, reboots and faults that have happened
  orphaned, \* devices whose start was killed between LOOP_SET_FD and AUTOCLEAR
  raced,    \* whether two starts have been setting up the mount together
  clean     \* the starts that have been alone and without a failed call so far

disk == <<loopdir, bare, img, tmp, content, dirs, made>>
loops == <<dev, fd, open, imgfd, mounts>>
ghosts == <<orphaned, raced, clean>>
vars == <<pc, disk, loops, view, foreign, budget, ghosts>>

Building == {"create", "sb", "rest", "rename"}
Setup == {"lstat", "image", "find", "openimg", "setfd", "auto", "mount", "mkapp"} \cup Building
Over == {"idle", "failed", "refused", "skipped", "run"}
Steps == Over \cup Setup \cup {"upper", "provisioned", "fork", "forkready", "mkupper", "mkwork", "overlay"}
Top == IF mounts = <<>> THEN None ELSE dev[mounts[Len(mounts)]].img

TypeOK ==
  /\ pc \in [Names -> Steps]
  /\ loopdir \in {"absent", "dir", "symlink"}
  /\ bare \subseteq Names
  /\ img \in {None} \cup Images
  /\ tmp \in [Names -> {None} \cup Images]
  /\ content \in [Images -> {"none", "short", "sized", "magic", "complete"}]
  /\ dirs \in [Images -> SUBSET (Names \X {"app", "upper", "work"})]
  /\ made \in {None} \cup Images
  /\ dev \in [Devs -> [img : {None} \cup Images, auto : BOOLEAN]]
  /\ fd \in [Names -> Devs \cup {NoDev}]
  /\ open \subseteq Names
  /\ imgfd \in [Names -> {None} \cup Images]
  /\ mounts \in Seq(Devs)
  /\ view \in [Names -> {None} \cup Images]
  /\ foreign \subseteq Names
  /\ orphaned \subseteq Devs
  /\ raced \in BOOLEAN
  /\ clean \subseteq Names

\* A disk to start from: a bare loop directory or none, perhaps a left-over
\* upper directory in it, perhaps an image of an earlier time.
Init ==
  /\ \E d \in Disks :
       /\ loopdir = d.loopdir
       /\ bare = d.bare
       /\ img = IF d.img = "none" THEN None ELSE 1
       /\ content = [i \in Images |-> IF i = 1 THEN d.img ELSE "none"]
       /\ made = IF d.img = "none" THEN None ELSE 1
  /\ pc = [p \in Names |-> "idle"]
  /\ tmp = [p \in Names |-> None]
  /\ dirs = [i \in Images |-> {}]
  /\ dev = [d \in Devs |-> Free]
  /\ fd = [p \in Names |-> NoDev]
  /\ open = {}
  /\ imgfd = [p \in Names |-> None]
  /\ mounts = <<>>
  /\ view = [p \in Names |-> None]
  /\ foreign = {}
  /\ budget = [starts |-> 0, kills |-> 0, reboots |-> 0, faults |-> 0]
  /\ orphaned = {}
  /\ raced = FALSE
  /\ clean = {}

Goto(p, step) == pc' = [pc EXCEPT ![p] = step]
Active(p) == pc[p] \notin Over
Spend(what, max) ==
  /\ budget[what] < max
  /\ budget' = [budget EXCEPT ![what] = @ + 1]

\* The devices after their users in P have closed them: a device with
\* AUTOCLEAR is unbound with its last user, mounts included.
Closed(P) ==
  [d \in Devs |->
     IF /\ dev[d].auto
        /\ \E p \in P \cap open : fd[p] = d
        /\ \A q \in open \ P : fd[q] # d
        /\ \A k \in 1 .. Len(mounts) : mounts[k] # d
       THEN Free ELSE dev[d]]

\* A start ends or is ended: the kernel closes what it has open.
Leave(p, step) ==
  /\ Goto(p, step)
  /\ dev' = Closed({p})
  /\ open' = open \ {p}
  /\ fd' = [fd EXCEPT ![p] = NoDev]
  /\ imgfd' = [imgfd EXCEPT ![p] = None]
  /\ UNCHANGED mounts

\* A system call of step `at` fails; tmp is unlinked by the error paths of
\* ext4_create_img and build_ext4_img.
Fails(p, at) ==
  /\ pc[p] = at
  /\ Spend("faults", MaxFaults)
  /\ clean' = clean \ {p}
  /\ tmp' = IF at \in Building THEN [tmp EXCEPT ![p] = None] ELSE tmp
  /\ Leave(p, "failed")
  /\ UNCHANGED <<loopdir, bare, img, content, dirs, made, view, foreign, orphaned, raced>>

-----------------------------------------------------------------------------
(* Detection: is a loopback needed, and is it allowed?                     *)

\* needs_loopback on the closest existing ancestor of the appdir.
NeedsLoopback(l) == IF l.within THEN l.samedev ELSE l.overlayfs

\* A custom -U is never moved; a custom -w must lie under the loop directory.
Refused(l) == l.customUpper \/ l.workdir = "elsewhere"

Detect(p) ==
  /\ pc[p] \in Over \ {"run"}
  /\ Spend("starts", MaxStarts)
  /\ \E l \in Layouts :
       /\ Goto(p, IF ~NeedsLoopback(l) THEN "skipped"
                  ELSE IF Refused(l) THEN "refused" ELSE "upper")
       /\ foreign' = IF l.loopdev = "overlayfs" THEN foreign \cup {p} ELSE foreign \ {p}
  /\ clean' = IF \E q \in Names \ {p} : Active(q) THEN {} ELSE {p}
  /\ UNCHANGED <<disk, loops, view, orphaned, raced>>

\* io_exists(upper), resolved through whatever is mounted at the loop directory.
UpperExists(p) ==
  IF mounts = <<>> THEN p \in bare ELSE <<p, "upper">> \in dirs[Top]

CheckUpper(p) ==
  /\ pc[p] = "upper"
  /\ Goto(p, IF UpperExists(p) THEN "provisioned" ELSE "lstat")
  /\ UNCHANGED <<disk, loops, view, foreign, budget, ghosts>>

\* The loop directory is a real one, and its st_dev not the lower directory's:
\* something is mounted there, or the bare directory lies on an overlayfs.
OtherDevice(p) == mounts # <<>> \/ (loopdir = "dir" /\ p \in foreign)

\* use_provisioned_loopback: the loop directory must not share the lower's
\* device; prepare_overlay then makes no directories (dirs_created).
UseProvisioned(p) ==
  /\ pc[p] = "provisioned"
  /\ Goto(p, IF OtherDevice(p) THEN "forkready" ELSE "failed")
  /\ UNCHANGED <<disk, loops, view, foreign, budget, ghosts>>

\* ensure_ext4_mounted: a loop directory on another device is taken as it is.
EnsureMounted(p) ==
  /\ pc[p] = "lstat"
  /\ Goto(p, IF OtherDevice(p) THEN "fork"
             ELSE IF loopdir = "symlink" THEN "failed" ELSE "image")
  /\ loopdir' = IF loopdir = "absent" THEN "dir" ELSE loopdir
  /\ raced' = (raced \/ (~OtherDevice(p) /\ \E q \in Names \ {p} : pc[q] \in Setup \ {"lstat"}))
  /\ UNCHANGED <<bare, img, tmp, content, dirs, made, loops, view, foreign, budget, orphaned, clean>>

-----------------------------------------------------------------------------
(* The image: reused if it looks valid, else built aside and renamed.      *)

\* ext4_image_valid looks at the size and at the superblock's magic only.
ImageValid(i) == content[i] \in {"magic", "complete"}

\* Mutant: the image is built at every mount.
SetupImgAlwaysBuilds(p) ==
  /\ pc[p] = "image"
  /\ Goto(p, "create")
  /\ UNCHANGED <<disk, loops, view, foreign, budget, ghosts>>

SetupImg(p) ==
  /\ pc[p] = "image"
  /\ Goto(p, IF img # None /\ ImageValid(img) THEN "find" ELSE "create")
  /\ UNCHANGED <<disk, loops, view, foreign, budget, ghosts>>

\* Mutant: the image is built under its final name.
CreateTmpInPlace(p) ==
  /\ pc[p] = "create"
  /\ made < MaxImages
  /\ made' = made + 1
  /\ tmp' = [tmp EXCEPT ![p] = made']
  /\ img' = made'
  /\ content' = [content EXCEPT ![made'] = "sized"]
  /\ Goto(p, "sb")
  /\ UNCHANGED <<loopdir, bare, dirs, loops, view, foreign, budget, ghosts>>

\* Mutant: a left-over temporary file is not removed and O_EXCL fails on it.
CreateTmpKeepsOld(p) ==
  /\ pc[p] = "create"
  /\ made < MaxImages
  /\ made' = made + 1
  /\ tmp' = [tmp EXCEPT ![p] = made']
  /\ content' = [content EXCEPT ![made'] = "sized"]
  /\ Goto(p, IF tmp[p] = None THEN "sb" ELSE "failed")
  /\ UNCHANGED <<loopdir, bare, img, dirs, loops, view, foreign, budget, ghosts>>

\* build_ext4_img: a left-over of the same name goes, then O_EXCL and ftruncate.
CreateTmp(p) ==
  /\ pc[p] = "create"
  /\ made < MaxImages
  /\ made' = made + 1
  /\ tmp' = [tmp EXCEPT ![p] = made']
  /\ content' = [content EXCEPT ![made'] = "sized"]
  /\ Goto(p, "sb")
  /\ UNCHANGED <<loopdir, bare, img, dirs, loops, view, foreign, budget, ghosts>>

\* do_writes: the superblock comes first, so an unfinished image looks valid.
WriteTmp(p) ==
  /\ \/ /\ pc[p] = "sb"
        /\ content' = [content EXCEPT ![tmp[p]] = "magic"]
        /\ Goto(p, "rest")
     \/ /\ pc[p] = "rest"
        /\ content' = [content EXCEPT ![tmp[p]] = "complete"]
        /\ Goto(p, "rename")
  /\ UNCHANGED <<loopdir, bare, img, tmp, dirs, made, loops, view, foreign, budget, ghosts>>

Rename(p) ==
  /\ pc[p] = "rename"
  /\ img' = tmp[p]
  /\ tmp' = [tmp EXCEPT ![p] = None]
  /\ Goto(p, "find")
  /\ UNCHANGED <<loopdir, bare, content, dirs, made, loops, view, foreign, budget, ghosts>>

-----------------------------------------------------------------------------
(* io_loop and the mount.                                                  *)

FreeDevs == {d \in Devs : dev[d] = Free}

\* Mutant: the end of the devices is not noticed.
FindFreeLoopUnchecked(p) ==
  /\ pc[p] = "find"
  /\ \E d \in FreeDevs \cup {Cardinality(Devs) + 1} :
       /\ \A e \in FreeDevs : d <= e
       /\ fd' = [fd EXCEPT ![p] = d]
  /\ Goto(p, "openimg")
  /\ UNCHANGED <<disk, dev, open, imgfd, mounts, view, foreign, budget, ghosts>>

\* LOOP_CTL_GET_FREE, or the scan: the lowest device that is not bound.
FindFreeLoop(p) ==
  /\ pc[p] = "find"
  /\ \/ \E d \in FreeDevs :
          /\ \A e \in FreeDevs : d <= e
          /\ fd' = [fd EXCEPT ![p] = d]
          /\ Goto(p, "openimg")
     \/ /\ FreeDevs = {}
        /\ Goto(p, "failed")
        /\ UNCHANGED fd
  /\ UNCHANGED <<disk, dev, open, imgfd, mounts, view, foreign, budget, ghosts>>

OpenFiles(p) ==
  /\ pc[p] = "openimg"
  /\ imgfd' = [imgfd EXCEPT ![p] = img]
  /\ open' = open \cup {p}
  /\ Goto(p, "setfd")
  /\ UNCHANGED <<disk, dev, fd, mounts, view, foreign, budget, ghosts>>

\* LOOP_SET_FD refuses a device that another start has bound meanwhile.
SetFd(p) ==
  /\ pc[p] = "setfd"
  /\ \/ /\ dev[fd[p]] = Free
        /\ dev' = [dev EXCEPT ![fd[p]] = [img |-> imgfd[p], auto |-> FALSE]]
        /\ imgfd' = [imgfd EXCEPT ![p] = None]
        /\ Goto(p, "auto")
        /\ UNCHANGED <<fd, open, mounts>>
     \/ /\ dev[fd[p]] # Free
        /\ Leave(p, "failed")
  /\ UNCHANGED <<disk, view, foreign, budget, ghosts>>

SetAutoclear(p) ==
  /\ pc[p] = "auto"
  /\ dev' = [dev EXCEPT ![fd[p]] = [img |-> @.img, auto |-> TRUE]]
  /\ Goto(p, "mount")
  /\ UNCHANGED <<disk, fd, open, imgfd, mounts, view, foreign, budget, ghosts>>

\* Mutant: a failed LOOP_SET_STATUS64 leaves the device bound.
AutoclearFailsKeepsFd(p) ==
  /\ pc[p] = "auto"
  /\ Spend("faults", MaxFaults)
  /\ clean' = clean \ {p}
  /\ Goto(p, "failed")
  /\ open' = open \ {p}
  /\ fd' = [fd EXCEPT ![p] = NoDev]
  /\ UNCHANGED <<disk, dev, imgfd, mounts, view, foreign, orphaned, raced>>

\* loop_set_autoclear fails: LOOP_CLR_FD unbinds the device, or lets its last
\* user unbind it.
AutoclearFails(p) ==
  /\ pc[p] = "auto"
  /\ Spend("faults", MaxFaults)
  /\ clean' = clean \ {p}
  /\ Goto(p, "failed")
  /\ dev' = [dev EXCEPT ![fd[p]] =
               IF \E q \in open \ {p} : fd[q] = fd[p]
                 THEN [img |-> @.img, auto |-> TRUE] ELSE Free]
  /\ open' = open \ {p}
  /\ fd' = [fd EXCEPT ![p] = NoDev]
  /\ UNCHANGED <<disk, imgfd, mounts, view, foreign, orphaned, raced>>

\* The mount lands on top of what is there.
Mount(p) ==
  /\ pc[p] = "mount"
  /\ mounts' = Append(mounts, fd[p])
  /\ Goto(p, "mkapp")
  /\ UNCHANGED <<disk, dev, fd, open, imgfd, view, foreign, budget, ghosts>>

\* close(loop_fd), then the application's directory inside the mount.
MkAppdir(p) ==
  /\ pc[p] = "mkapp"
  /\ Leave(p, "fork")
  /\ dirs' = [dirs EXCEPT ![Top] = @ \cup {<<p, "app">>}]
  /\ UNCHANGED <<loopdir, bare, img, tmp, content, made, view, foreign, budget, ghosts>>

-----------------------------------------------------------------------------
(* The container child: its mount namespace is a copy of the host's.       *)

Fork(p) ==
  /\ pc[p] \in {"fork", "forkready"}
  /\ view' = [view EXCEPT ![p] = Top]
  /\ Goto(p, IF pc[p] = "fork" THEN "mkupper" ELSE "overlay")
  /\ UNCHANGED <<disk, loops, foreign, budget, ghosts>>

\* Directories made in the image the container sees, or, with nothing mounted,
\* in the bare loop directory.
MakesDir(p, at, new, next) ==
  /\ pc[p] = at
  /\ dirs' = IF view[p] = None THEN dirs ELSE [dirs EXCEPT ![view[p]] = @ \cup new]
  /\ bare' = IF view[p] = None /\ <<p, "upper">> \in new THEN bare \cup {p} ELSE bare
  /\ Goto(p, next)
  /\ UNCHANGED <<loopdir, img, tmp, content, made, loops, view, foreign, budget, ghosts>>

\* prepare_overlay: the application's directory and upper, then work.
MkUpper(p) == MakesDir(p, "mkupper", {<<p, "app">>, <<p, "upper">>}, "mkwork")
MkWork(p) == MakesDir(p, "mkwork", {<<p, "work">>}, "overlay")

\* The overlay needs both directories on the visible file system, which must
\* not be an overlayfs itself.
HalfMade(p) == view[p] # None /\ <<p, "work">> \notin dirs[view[p]]

MountOverlay(p) ==
  /\ pc[p] = "overlay"
  /\ Goto(p, IF view[p] = None \/ HalfMade(p) THEN "failed" ELSE "run")
  /\ UNCHANGED <<disk, loops, view, foreign, budget, ghosts>>

Stop(p) ==
  /\ pc[p] = "run"
  /\ Goto(p, "idle")
  /\ UNCHANGED <<disk, loops, view, foreign, budget, ghosts>>

-----------------------------------------------------------------------------
(* Kills and reboots.  The mount and the files stay after a kill, only the *)
(* files after a reboot.                                                   *)

Kill(p) ==
  /\ Active(p)
  /\ Spend("kills", MaxKills)
  /\ Leave(p, "idle")
  /\ orphaned' = IF pc[p] = "auto" THEN orphaned \cup {fd[p]} ELSE orphaned
  /\ UNCHANGED <<disk, view, foreign, raced, clean>>

Reboot ==
  /\ Spend("reboots", MaxReboots)
  /\ pc' = [p \in Names |-> "idle"]
  /\ dev' = [d \in Devs |-> Free]
  /\ fd' = [p \in Names |-> NoDev]
  /\ open' = {}
  /\ imgfd' = [p \in Names |-> None]
  /\ mounts' = <<>>
  /\ view' = [p \in Names |-> None]
  /\ foreign' = {}
  /\ orphaned' = {}
  /\ clean' = {}
  /\ UNCHANGED <<disk, raced>>

-----------------------------------------------------------------------------
Faulty == {"upper", "image", "find", "openimg", "setfd", "mount", "fork"} \cup Building

Start(p) ==
  \/ Detect(p) \/ CheckUpper(p) \/ UseProvisioned(p) \/ EnsureMounted(p)
  \/ SetupImg(p) \/ CreateTmp(p) \/ WriteTmp(p) \/ Rename(p)
  \/ FindFreeLoop(p) \/ OpenFiles(p) \/ SetFd(p) \/ SetAutoclear(p) \/ AutoclearFails(p)
  \/ Mount(p) \/ MkAppdir(p)
  \/ Fork(p) \/ MkUpper(p) \/ MkWork(p) \/ MountOverlay(p) \/ Stop(p)

Next ==
  \/ \E p \in Names : Start(p) \/ Kill(p)
  \/ \E p \in Names, at \in Faulty : Fails(p, at)
  \/ Reboot

Spec == Init /\ [][Next]_vars

-----------------------------------------------------------------------------
(* Safety.                                                                 *)

\* Only a fully written image is ever mounted, although the validity test of
\* ext4_image_valid would accept an unfinished one: an image gets its final
\* name only when it is complete, whoever was killed while building it.
MountedComplete == \A k \in 1 .. Len(mounts) : content[dev[mounts[k]].img] = "complete"

\* As long as no two starts have set up the mount together, every directory
\* a container was given is in the image under the final name, so it is there
\* again after a reboot.
Persistent == ~raced => \A i \in Images : dirs[i] # {} => i = img

\* What any earlier kill, reboot or failure left behind, a start that is alone
\* and meets no failing call brings up its container.  Excepted are a loop
\* directory that is a symlink; an upper directory in it with nothing mounted;
\* a bare loop directory on an overlayfs, taken for the mounted loopback; no
\* free loop device; and an upper directory without its work directory.
Recovers ==
  \A p \in clean : pc[p] = "failed" =>
    \/ loopdir = "symlink"
    \/ mounts = <<>> /\ p \in bare \cup foreign
    \/ FreeDevs = {}
    \/ HalfMade(p)

\* A bound loop device is mounted or about to be, except one whose start was
\* killed between LOOP_SET_FD and LOOP_SET_STATUS64.
NoLoopLeak ==
  \A d \in Devs : dev[d] # Free =>
    \/ \E k \in 1 .. Len(mounts) : mounts[k] = d
    \/ \E p \in open : fd[p] = d
    \/ d \in orphaned

\* docs/lifecycle.md, samefs rule 7 ("Idempotent mount"): the mount is skipped
\* if one was detected at the target path, so there is never more than one.
OneMount == Len(mounts) <= 1

\* docs/lifecycle.md, samefs rule 6 ("Samefs mount detection"): if the loop
\* directory is on a different file system, the loopback is already active.
ActiveIsMounted == \A p \in Names : pc[p] = "fork" => mounts # <<>>
=============================================================================
