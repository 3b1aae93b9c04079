---------------------------- MODULE SameFsProofs ----------------------------
(***************************************************************************)
(* Proofs about the ext4 image and its loop devices, for any number of     *)
(* names, devices, images, kills, reboots and failing calls; then about    *)
(* what is in the image.                                                   *)
(***************************************************************************)
EXTENDS SameFs, Ext4Image, WellFoundedInduction, FiniteSetTheorems, TLAPS

\* What is under the final name is complete, or of a wrong size from before;
\* the images not yet built are empty.
FinalName ==
  /\ img <= made
  /\ img # None => content[img] \in {"short", "complete"}
Unbuilt == \A i \in Images : i > made => content[i] = "none"

\* No two starts write the same temporary image.
OwnTmp ==
  /\ \A p \in Names : tmp[p] <= made
  /\ \A p, q \in Names : tmp[p] # None /\ tmp[p] = tmp[q] => p = q
  /\ \A p \in Names : pc[p] \in {"sb", "rest", "rename"} => tmp[p] # None

\* How much of its temporary image a start has written.
Written ==
  \A p \in Names :
    /\ pc[p] = "sb" => content[tmp[p]] = "sized"
    /\ pc[p] = "rest" => content[tmp[p]] = "magic"
    /\ pc[p] = "rename" => content[tmp[p]] = "complete"

\* A start goes on to the loop device only with a complete image.
Picked ==
  \A p \in Names :
    pc[p] \in {"find", "openimg"} => img # None /\ content[img] = "complete"

FilesInv == FinalName /\ Unbuilt /\ OwnTmp /\ Written /\ Picked

\* The starts that hold their loop device open, and those that have bound it.
Holding == {"setfd", "auto", "mount", "mkapp"}
Binding == {"auto", "mount"}

Mounted(d) == \E k \in 1 .. Len(mounts) : mounts[k] = d

\* The starts that hold a loop device open are those of these steps.
Users ==
  \A p \in Names :
    /\ p \in open <=> pc[p] \in Holding
    /\ pc[p] \in Holding \cup {"openimg"} => fd[p] \in Devs

\* A start holds open, and a device is bound to, only complete images.
HeldComplete ==
  \A p \in Names :
    /\ imgfd[p] # None => content[imgfd[p]] = "complete"
    /\ pc[p] = "setfd" => imgfd[p] # None
BoundComplete ==
  \A d \in Devs : dev[d] # Free => dev[d].img # None /\ content[dev[d].img] = "complete"

\* A device stays bound while a start sets it up, one start at a time, and as
\* long as it is mounted.
Bindings ==
  /\ \A p \in Names : pc[p] \in Binding => dev[fd[p]] # Free /\ ~Mounted(fd[p])
  /\ \A p, q \in Names : pc[p] \in Binding /\ pc[q] \in Binding /\ fd[p] = fd[q] => p = q
MountsBound == \A d \in Devs : Mounted(d) => dev[d] # Free

LoopsInv == Users /\ HeldComplete /\ BoundComplete /\ Bindings /\ MountsBound

\* A bound device has someone who will unbind it: a mount, a user that holds
\* it open with AUTOCLEAR set, or a start about to set AUTOCLEAR.
Accounted ==
  \A d \in Devs : dev[d] # Free =>
    \/ Mounted(d)
    \/ dev[d].auto /\ \E p \in open : fd[p] = d
    \/ \E p \in Names : pc[p] = "auto" /\ fd[p] = d
    \/ d \in orphaned

IInv == TypeOK /\ FilesInv /\ LoopsInv /\ Accounted

-----------------------------------------------------------------------------
\* What the kernel and the file system functions return.
LEMMA TopImage == TypeOK => Top \in {None} \cup Images
<1>1. mounts \in Seq(Devs) /\ mounts # <<>> => mounts[Len(mounts)] \in Devs
  OBVIOUS
<1>2. QED
  BY <1>1 DEF TypeOK, Top

LEMMA NewDirs ==
  ASSUME TypeOK, NEW i, NEW new \in SUBSET (Names \X {"app", "upper", "work"})
  PROVE  [dirs EXCEPT ![i] = @ \cup new] \in [Images -> SUBSET (Names \X {"app", "upper", "work"})]
BY DEF TypeOK

\* The types of what the kernel changes when a start ends.
LEMMA LeaveTypes ==
  ASSUME TypeOK, NEW p \in Names, NEW step \in Steps, Leave(p, step)
  PROVE  /\ pc' \in [Names -> Steps]
         /\ dev' \in [Devs -> [img : {None} \cup Images, auto : BOOLEAN]]
         /\ fd' \in [Names -> Devs \cup {NoDev}]
         /\ open' \subseteq Names
         /\ imgfd' \in [Names -> {None} \cup Images]
         /\ mounts' \in Seq(Devs)
BY DEF TypeOK, Leave, Goto, Closed, Free, None

\* Every step keeps the types.
LEMMA TypeStep == TypeOK /\ LoopsInv /\ [Next]_vars => TypeOK'
<1> SUFFICES ASSUME TypeOK, LoopsInv, [Next]_vars PROVE TypeOK'
  OBVIOUS
<1> USE SameFsAssumption
    DEF TypeOK, Goto, Steps, Over, Setup, Building, Images, None, NoDev, Free, disk, loops, ghosts
<1>1. ASSUME NEW p \in Names, Start(p) PROVE TypeOK'
<2>1. CASE Detect(p) BY <2>1 DEF Detect
<2>2. CASE CheckUpper(p) BY <2>2 DEF CheckUpper
<2>3. CASE UseProvisioned(p) BY <2>3 DEF UseProvisioned
<2>4. CASE EnsureMounted(p) BY <2>4 DEF EnsureMounted
<2>5. CASE SetupImg(p) BY <2>5 DEF SetupImg
<2>6. CASE CreateTmp(p) BY <2>6 DEF CreateTmp
<2>7. CASE WriteTmp(p) BY <2>7 DEF WriteTmp
<2>8. CASE Rename(p) BY <2>8 DEF Rename
<2>9. CASE FindFreeLoop(p)
  <3>1. fd' \in [Names -> Devs \cup {NoDev}]
    <4>1. CASE \E d \in FreeDevs : fd' = [fd EXCEPT ![p] = d]
      BY <4>1 DEF FreeDevs
    <4>2. CASE UNCHANGED fd
      BY <4>2
    <4>3. QED
      BY <2>9, <4>1, <4>2 DEF FindFreeLoop
  <3>2. pc' \in [Names -> Steps]
    BY <2>9 DEF FindFreeLoop
  <3>3. QED
    BY <2>9, <3>1, <3>2 DEF FindFreeLoop
<2>10. CASE OpenFiles(p) BY <2>10 DEF OpenFiles
<2>11. CASE SetFd(p)
  <3>1. CASE dev[fd[p]] = Free
    <4>1. /\ pc' = [pc EXCEPT ![p] = "auto"]
          /\ dev' = [dev EXCEPT ![fd[p]] = [img |-> imgfd[p], auto |-> FALSE]]
          /\ imgfd' = [imgfd EXCEPT ![p] = 0]
          /\ UNCHANGED <<fd, open, mounts, disk, view, foreign, ghosts>>
      BY <2>11, <3>1 DEF SetFd
    <4>2. QED
      BY <4>1
  <3>2. CASE dev[fd[p]] # Free
    BY <2>11, <3>2, LeaveTypes DEF SetFd
  <3>3. QED
    BY <3>1, <3>2
<2>12. CASE SetAutoclear(p) BY <2>12 DEF SetAutoclear
<2>13. CASE AutoclearFails(p) BY <2>13 DEF AutoclearFails
<2>14. CASE Mount(p)
  <3>1. fd[p] \in Devs
    BY <2>14 DEF Mount, LoopsInv, Users, Holding
  <3>2. QED
    BY <2>14, <3>1 DEF Mount
<2>15. CASE MkAppdir(p)
  <3>1. {<<p, "app">>} \in SUBSET (Names \X {"app", "upper", "work"})
    OBVIOUS
  <3>2. dirs' \in [Images -> SUBSET (Names \X {"app", "upper", "work"})]
    BY <2>15, <3>1, NewDirs DEF MkAppdir
  <3>3. Leave(p, "fork") /\ UNCHANGED <<loopdir, bare, img, tmp, content, made, view, foreign, ghosts>>
    BY <2>15 DEF MkAppdir
  <3>4. QED
    BY <3>2, <3>3, LeaveTypes
<2>16. CASE Fork(p) BY <2>16, TopImage DEF Fork
<2>17. CASE MkUpper(p)
  <3>1. {<<p, "app">>, <<p, "upper">>} \in SUBSET (Names \X {"app", "upper", "work"})
    OBVIOUS
  <3>2. dirs' \in [Images -> SUBSET (Names \X {"app", "upper", "work"})]
    BY <2>17, <3>1, NewDirs DEF MkUpper, MakesDir
  <3>3. QED
    BY <2>17, <3>2 DEF MkUpper, MakesDir
<2>18. CASE MkWork(p)
  <3>1. {<<p, "work">>} \in SUBSET (Names \X {"app", "upper", "work"})
    OBVIOUS
  <3>2. dirs' \in [Images -> SUBSET (Names \X {"app", "upper", "work"})]
    BY <2>18, <3>1, NewDirs DEF MkWork, MakesDir
  <3>3. QED
    BY <2>18, <3>2 DEF MkWork, MakesDir
<2>19. CASE MountOverlay(p) BY <2>19 DEF MountOverlay
<2>20. CASE Stop(p) BY <2>20 DEF Stop
<2>21. QED
    BY <1>1, <2>1, <2>2, <2>3, <2>4, <2>5, <2>6, <2>7, <2>8, <2>9, <2>10, <2>11,
       <2>12, <2>13, <2>14, <2>15, <2>16, <2>17, <2>18, <2>19, <2>20 DEF Start
<1>2. ASSUME NEW p \in Names, Kill(p) PROVE TypeOK'
  <2>1. pc[p] = "auto" => fd[p] \in Devs
    BY DEF LoopsInv, Users, Holding
  <2>2. QED
    BY <1>2, <2>1, LeaveTypes DEF Kill
<1>3. ASSUME NEW p \in Names, NEW step \in Faulty, Fails(p, step) PROVE TypeOK'
  BY <1>3, LeaveTypes DEF Fails
<1>4. CASE Reboot
  BY <1>4 DEF Reboot
<1>5. CASE UNCHANGED vars
  BY <1>5 DEF vars
<1>6. QED
  BY <1>1, <1>2, <1>3, <1>4, <1>5 DEF Next

-----------------------------------------------------------------------------
(* The files.                                                              *)

\* A step that writes no image and picks none up keeps the files in order,
\* also when it unlinks the temporary image of its own start.
LEMMA QuietFiles ==
  ASSUME TypeOK, FilesInv, NEW p \in Names,
         NEW step \in Steps \ {"sb", "rest", "rename", "find", "openimg"},
         Goto(p, step), UNCHANGED <<img, content, made>>,
         \/ UNCHANGED tmp
         \/ tmp' = [tmp EXCEPT ![p] = None]
  PROVE  FilesInv'
<1> USE SameFsAssumption DEF TypeOK, Goto, Images, None
<1>1. \A q \in Names : tmp'[q] \in {tmp[q], None}
  OBVIOUS
<1>2. \A q \in Names : pc'[q] \in {"sb", "rest", "rename", "find", "openimg"} =>
                        pc'[q] = pc[q] /\ tmp'[q] = tmp[q]
  OBVIOUS
<1>3. QED
  <2>1. FinalName' /\ Unbuilt'
    BY DEF FilesInv, FinalName, Unbuilt
  <2>2. OwnTmp'
    BY <1>1, <1>2, SMTT(30) DEF FilesInv, OwnTmp
  <2>3. Written'
    BY <1>2 DEF FilesInv, Written
  <2>4. Picked'
    BY <1>2 DEF FilesInv, Picked
  <2>5. QED
    BY <2>1, <2>2, <2>3, <2>4 DEF FilesInv

LEMMA FilesStep == TypeOK /\ FilesInv /\ [Next]_vars => FilesInv'
<1> SUFFICES ASSUME TypeOK, FilesInv, [Next]_vars PROVE FilesInv'
  OBVIOUS
<1> USE SameFsAssumption DEF disk, loops, ghosts
<1>s. /\ {"idle", "failed", "refused", "skipped", "run", "lstat", "image", "create", "setfd",
          "auto", "mount", "mkapp", "upper", "provisioned", "fork", "forkready", "mkupper",
          "mkwork", "overlay"} \subseteq Steps \ {"sb", "rest", "rename", "find", "openimg"}
  BY DEF Steps, Over, Setup, Building
<1>1. ASSUME NEW p \in Names, Start(p) PROVE FilesInv'
  <2> USE DEF TypeOK, FilesInv, FinalName, Unbuilt, OwnTmp, Written, Picked, Goto, Images, None
  <2>1. CASE Detect(p)
    <3>1. UNCHANGED <<img, tmp, content, made>>
      BY <2>1 DEF Detect
    <3>2. PICK step \in {"skipped", "refused", "upper"} : Goto(p, step)
      BY <2>1 DEF Detect
    <3>3. QED
      BY <3>1, <3>2, <1>s, QuietFiles
  <2>2. CASE SetupImg(p)
    BY <2>2 DEF SetupImg, ImageValid
  <2>3. CASE CreateTmp(p)
    <3>1. made' = made + 1 /\ made' \in Images /\ UNCHANGED img
      BY <2>3 DEF CreateTmp
    <3>2. tmp'[p] = made' /\ pc'[p] = "sb" /\ content'[made'] = "sized"
      BY <2>3, <3>1 DEF CreateTmp
    <3>3. \A q \in Names \ {p} : tmp'[q] = tmp[q] /\ pc'[q] = pc[q]
      BY <2>3 DEF CreateTmp
    <3>4. \A i \in Images \ {made'} : content'[i] = content[i]
      BY <2>3, <3>1 DEF CreateTmp
    <3>5. \A q \in Names : tmp[q] # None => tmp[q] \in Images \ {made'}
      BY <3>1
    <3>6. img # None => img \in Images \ {made'}
      BY <3>1
    <3>7. QED
      <4>1. FinalName'
        BY <3>1, <3>2, <3>3, <3>4, <3>5, <3>6
      <4>2. Unbuilt'
        BY <3>1, <3>2, <3>3, <3>4, <3>5, <3>6
      <4>3. OwnTmp'
        <5>1. ASSUME NEW q \in Names PROVE tmp'[q] <= made'
          <6>1. CASE q = p
            BY <3>1, <3>2, <6>1
          <6>2. CASE q # p
            <7>1. tmp'[q] = tmp[q] /\ tmp[q] <= made
              BY <3>3, <6>2
            <7>2. QED
              BY <3>1, <7>1
          <6>3. QED
            BY <6>1, <6>2
        <5>o. ASSUME NEW q \in Names \ {p} PROVE tmp'[q] # made'
          <6>1. tmp'[q] = tmp[q] /\ tmp[q] \in Nat /\ made \in Nat /\ tmp[q] <= made
            BY <3>3
          <6>2. QED
            BY <3>1, <6>1
        <5>2. ASSUME NEW q \in Names, NEW r \in Names, tmp'[q] # None, tmp'[q] = tmp'[r]
              PROVE  q = r
          <6>1. CASE q = p /\ r # p
            <7>1. tmp'[q] = made' /\ tmp'[r] # made'
              BY <3>2, <5>o, <6>1
            <7>2. QED
              BY <5>2, <7>1
          <6>2. CASE q # p /\ r = p
            <7>1. tmp'[q] # made' /\ tmp'[r] = made'
              BY <3>2, <5>o, <6>2
            <7>2. QED
              BY <5>2, <7>1
          <6>3. CASE q # p /\ r # p
            <7>1. tmp'[q] = tmp[q] /\ tmp'[r] = tmp[r]
              BY <3>3, <6>3
            <7>2. QED
              BY <5>2, <7>1
          <6>4. CASE q = p /\ r = p
            BY <6>4
          <6>5. QED
            BY <6>1, <6>2, <6>3, <6>4
        <5>3. ASSUME NEW q \in Names, pc'[q] \in {"sb", "rest", "rename"} PROVE tmp'[q] # None
          <6>1. CASE q = p
            BY <3>1, <3>2, <6>1
          <6>2. CASE q # p
            <7>1. tmp'[q] = tmp[q] /\ pc'[q] = pc[q]
              BY <3>3, <6>2
            <7>2. QED
              BY <5>3, <7>1
          <6>3. QED
            BY <6>1, <6>2
        <5>4. QED
          BY <5>1, <5>2, <5>3
      <4>4. Written'
        BY <3>1, <3>2, <3>3, <3>4, <3>5, <3>6
      <4>5. Picked'
        BY <3>1, <3>2, <3>3, <3>4, <3>5, <3>6
      <4>6. QED
        BY <4>1, <4>2, <4>3, <4>4, <4>5
  <2>4. CASE WriteTmp(p)
    <3>1. UNCHANGED <<made, img, tmp>> /\ tmp[p] \in Images /\ pc[p] \in {"sb", "rest"}
      BY <2>4 DEF WriteTmp
    <3>2. \/ pc'[p] = "rest" /\ content'[tmp[p]] = "magic"
          \/ pc'[p] = "rename" /\ content'[tmp[p]] = "complete"
      BY <2>4, <3>1 DEF WriteTmp
    <3>3. \A q \in Names \ {p} : pc'[q] = pc[q]
      BY <2>4 DEF WriteTmp
    <3>4. \A i \in Images \ {tmp[p]} : content'[i] = content[i]
      BY <2>4, <3>1 DEF WriteTmp
    <3>5. img # tmp[p]
      BY <3>1
    <3>6. QED
      <4>1. FinalName'
        BY <3>1, <3>2, <3>3, <3>4, <3>5
      <4>2. Unbuilt'
        BY <3>1, <3>2, <3>3, <3>4, <3>5
      <4>3. OwnTmp'
        BY <3>1, <3>2, <3>3, <3>4, <3>5
      <4>4. Written'
        BY <3>1, <3>2, <3>3, <3>4, <3>5, SMTT(30)
      <4>5. Picked'
        BY <3>1, <3>2, <3>3, <3>4, <3>5
      <4>6. QED
        BY <4>1, <4>2, <4>3, <4>4, <4>5
  <2>5. CASE Rename(p)
    <3>1. UNCHANGED <<made, content>> /\ img' = tmp[p] /\ content[tmp[p]] = "complete"
      BY <2>5 DEF Rename
    <3>2. tmp'[p] = None /\ pc'[p] = "find" /\ tmp[p] \in Images
      BY <2>5 DEF Rename
    <3>3. \A q \in Names \ {p} : tmp'[q] = tmp[q] /\ pc'[q] = pc[q]
      BY <2>5 DEF Rename
    <3>4. FinalName' /\ Unbuilt'
      BY <3>1, <3>2
    <3>5. OwnTmp'
      <4>1. ASSUME NEW q \in Names PROVE tmp'[q] <= made'
        <5>1. CASE q = p
          BY <3>1, <3>2, <5>1
        <5>2. CASE q # p
          <6>1. tmp'[q] = tmp[q] /\ tmp[q] <= made
            BY <3>3, <5>2
          <6>2. QED
            BY <3>1, <6>1
        <5>3. QED
          BY <5>1, <5>2
      <4>2. ASSUME NEW q \in Names, NEW r \in Names, tmp'[q] # None, tmp'[q] = tmp'[r] PROVE q = r
        <5>1. q # p /\ r # p
          BY <3>2, <4>2
        <5>2. tmp'[q] = tmp[q] /\ tmp'[r] = tmp[r]
          BY <3>3, <5>1
        <5>3. QED
          BY <4>2, <5>2
      <4>3. ASSUME NEW q \in Names, pc'[q] \in {"sb", "rest", "rename"} PROVE tmp'[q] # None
        <5>1. q # p
          BY <3>2, <4>3
        <5>2. tmp'[q] = tmp[q] /\ pc'[q] = pc[q]
          BY <3>3, <5>1
        <5>3. QED
          BY <4>3, <5>2
      <4>4. QED
        BY <4>1, <4>2, <4>3
    <3>6. Written'
      BY <3>1, <3>2, <3>3
    <3>7. Picked'
      BY <3>1, <3>2, <3>3
    <3>8. QED
      BY <3>4, <3>5, <3>6, <3>7
  <2>6. CASE CheckUpper(p)
    BY <2>6, <1>s, QuietFiles DEF CheckUpper
  <2>7. CASE UseProvisioned(p)
    BY <2>7, <1>s, QuietFiles DEF UseProvisioned
  <2>8. CASE EnsureMounted(p)
    BY <2>8, <1>s, QuietFiles DEF EnsureMounted
  <2>9. CASE FindFreeLoop(p)
    BY <2>9 DEF FindFreeLoop, FreeDevs
  <2>10. CASE OpenFiles(p)
    BY <2>10, <1>s, QuietFiles DEF OpenFiles
  <2>11. CASE SetFd(p)
    BY <2>11, <1>s, QuietFiles DEF SetFd, Leave
  <2>12. CASE SetAutoclear(p)
    BY <2>12, <1>s, QuietFiles DEF SetAutoclear
  <2>13. CASE AutoclearFails(p)
    BY <2>13, <1>s, QuietFiles DEF AutoclearFails
  <2>14. CASE Mount(p)
    BY <2>14, <1>s, QuietFiles DEF Mount
  <2>15. CASE MkAppdir(p)
    BY <2>15, <1>s, QuietFiles DEF MkAppdir, Leave
  <2>16. CASE Fork(p)
    BY <2>16, <1>s, QuietFiles DEF Fork
  <2>17. CASE MkUpper(p)
    BY <2>17, <1>s, QuietFiles DEF MkUpper, MakesDir
  <2>18. CASE MkWork(p)
    BY <2>18, <1>s, QuietFiles DEF MkWork, MakesDir
  <2>19. CASE MountOverlay(p)
    BY <2>19, <1>s, QuietFiles DEF MountOverlay
  <2>20. CASE Stop(p)
    BY <2>20, <1>s, QuietFiles DEF Stop
  <2>21. QED
    BY <1>1, <2>1, <2>2, <2>3, <2>4, <2>5, <2>6, <2>7, <2>8, <2>9, <2>10, <2>11,
       <2>12, <2>13, <2>14, <2>15, <2>16, <2>17, <2>18, <2>19, <2>20 DEF Start
<1>2. ASSUME NEW p \in Names, Kill(p) PROVE FilesInv'
  BY <1>2, <1>s, QuietFiles DEF Kill, Leave
<1>3. ASSUME NEW p \in Names, NEW step \in Faulty, Fails(p, step) PROVE FilesInv'
  BY <1>3, <1>s, QuietFiles DEF Fails, Leave
<1>4. CASE Reboot
  BY <1>4 DEF Reboot, TypeOK, FilesInv, FinalName, Unbuilt, OwnTmp, Written, Picked, Images, None
<1>5. CASE UNCHANGED vars
  BY <1>5 DEF vars, TypeOK, FilesInv, FinalName, Unbuilt, OwnTmp, Written, Picked, Images, None
<1>6. QED
  BY <1>1, <1>2, <1>3, <1>4, <1>5 DEF Next

-----------------------------------------------------------------------------
(* The loop devices.                                                       *)

\* An image that is complete stays so: nobody writes to it any more.
LEMMA CompleteStays ==
  ASSUME TypeOK, FilesInv, [Next]_vars
  PROVE  \A i \in Images : content[i] = "complete" => content'[i] = "complete"
<1> USE DEF disk
<1>1. ASSUME NEW p \in Names, CreateTmp(p)
      PROVE  \A i \in Images : content[i] = "complete" => content'[i] = "complete"
  BY <1>1 DEF CreateTmp, TypeOK, FilesInv, Unbuilt, Images, None
<1>2. ASSUME NEW p \in Names, WriteTmp(p)
      PROVE  \A i \in Images : content[i] = "complete" => content'[i] = "complete"
  BY <1>2 DEF WriteTmp, TypeOK, FilesInv, Written
<1>3. ASSUME NEW p \in Names, Start(p), ~CreateTmp(p), ~WriteTmp(p) PROVE UNCHANGED content
  BY <1>3 DEF Start, Detect, CheckUpper, UseProvisioned, EnsureMounted, SetupImg, Rename,
     FindFreeLoop, OpenFiles, SetFd, SetAutoclear, AutoclearFails, Mount, MkAppdir, Fork,
     MkUpper, MkWork, MakesDir, MountOverlay, Stop
<1>4. ASSUME NEW p \in Names, Kill(p) \/ \E step \in Faulty : Fails(p, step) PROVE UNCHANGED content
  BY <1>4 DEF Kill, Fails
<1>5. Reboot \/ UNCHANGED vars => UNCHANGED content
  BY DEF Reboot, vars
<1>6. QED
  BY <1>1, <1>2, <1>3, <1>4, <1>5 DEF Next

\* A step of a start that uses no loop device disturbs none.
LEMMA QuietLoops ==
  ASSUME TypeOK, LoopsInv, NEW p \in Names, pc[p] \notin Holding,
         NEW step \in Steps \ (Holding \cup {"openimg"}), Goto(p, step), UNCHANGED loops,
         \A i \in Images : content[i] = "complete" => content'[i] = "complete"
  PROVE  LoopsInv'
<1> USE DEF TypeOK, Goto, loops, Holding, Binding
<1>1. \A q \in Names : pc'[q] \in Holding \cup {"openimg"} => pc'[q] = pc[q]
  OBVIOUS
<1>2. Users'
  BY <1>1 DEF LoopsInv, Users
<1>3. HeldComplete'
  BY <1>1 DEF LoopsInv, HeldComplete, None
<1>4. BoundComplete'
  BY DEF LoopsInv, BoundComplete, None
<1>5. Bindings'
  BY <1>1 DEF LoopsInv, Bindings, Mounted
<1>6. MountsBound'
  BY DEF LoopsInv, MountsBound, Mounted
<1>7. QED
  BY <1>2, <1>3, <1>4, <1>5, <1>6 DEF LoopsInv

\* What the kernel does when a start ends unbinds no device that is mounted
\* or set up by another start.
LEMMA LeaveLoops ==
  ASSUME TypeOK, LoopsInv, NEW p \in Names, NEW step \in Over \cup {"fork"},
         Leave(p, step), UNCHANGED content
  PROVE  LoopsInv'
<1> USE DEF TypeOK, Leave, Goto, Over, Holding, Binding
<1>1. \A q \in Names \ {p} : pc'[q] = pc[q] /\ fd'[q] = fd[q] /\ imgfd'[q] = imgfd[q]
  OBVIOUS
<1>2. pc'[p] \notin Holding \cup {"openimg"} /\ imgfd'[p] = None
  OBVIOUS
<1>3. \A d \in Devs : dev'[d] \in {dev[d], Free}
  BY DEF Closed
<1>4. \A d \in Devs : Mounted(d) => dev'[d] = dev[d]
  BY DEF Closed, Mounted
<1>5. ASSUME NEW q \in Names \ {p}, pc[q] \in Binding PROVE dev'[fd[q]] = dev[fd[q]]
  <2>1. q \in open /\ fd[q] \in Devs
    BY <1>5 DEF LoopsInv, Users
  <2>2. QED
    BY <2>1 DEF Closed
<1>6. Users'
  BY <1>1, <1>2 DEF LoopsInv, Users
<1>7. HeldComplete'
  BY <1>1, <1>2 DEF LoopsInv, HeldComplete
<1>8. BoundComplete'
  BY <1>3 DEF LoopsInv, BoundComplete
<1>9. Bindings'
  <2>1. \A q \in Names : pc'[q] \in Binding =>
          q # p /\ pc[q] \in Binding /\ fd'[q] = fd[q] /\ dev'[fd[q]] = dev[fd[q]]
    BY <1>1, <1>2, <1>5
  <2>2. \A q \in Names : pc'[q] \in Binding => dev'[fd'[q]] # Free
    <3>1. \A q \in Names : pc[q] \in Binding => dev[fd[q]] # Free
      BY DEF LoopsInv, Bindings
    <3>2. QED
      BY <2>1, <3>1
  <2>u. UNCHANGED mounts
    OBVIOUS
  <2>3. \A q \in Names : pc'[q] \in Binding => ~Mounted(fd[q])'
    BY <2>1, <2>u DEF LoopsInv, Bindings, Mounted
  <2>4. \A q, r \in Names : pc'[q] \in Binding /\ pc'[r] \in Binding /\ fd'[q] = fd'[r] => q = r
    BY <2>1 DEF LoopsInv, Bindings
  <2>5. QED
    BY <2>2, <2>3, <2>4 DEF Bindings
<1>10. MountsBound'
  BY <1>4 DEF LoopsInv, MountsBound, Mounted
<1>11. QED
  BY <1>6, <1>7, <1>8, <1>9, <1>10 DEF LoopsInv
LEMMA LoopsStep == TypeOK /\ FilesInv /\ LoopsInv /\ [Next]_vars => LoopsInv'
<1> SUFFICES ASSUME TypeOK, FilesInv, LoopsInv, [Next]_vars PROVE LoopsInv'
  OBVIOUS
<1> USE SameFsAssumption DEF disk, loops, ghosts
<1>c. \A i \in Images : content[i] = "complete" => content'[i] = "complete"
  BY CompleteStays
<1>s. /\ {"idle", "failed", "refused", "skipped", "run", "lstat", "image", "create", "sb", "rest",
          "rename", "find", "upper", "provisioned", "fork", "forkready", "mkupper", "mkwork",
          "overlay"} \subseteq Steps \ (Holding \cup {"openimg"})
      /\ {"idle", "failed", "fork"} \subseteq Over \cup {"fork"}
      /\ Holding = {"setfd", "auto", "mount", "mkapp"}
  BY DEF Steps, Over, Setup, Building, Holding
<1>1. ASSUME NEW p \in Names, Start(p) PROVE LoopsInv'
  <2>1. CASE Detect(p)
    <3>1. pc[p] \notin Holding /\ UNCHANGED loops
      BY <2>1 DEF Detect, Over, Holding
    <3>2. PICK step \in {"skipped", "refused", "upper"} : Goto(p, step)
      BY <2>1 DEF Detect
    <3>3. QED
      BY <3>1, <3>2, <1>c, <1>s, QuietLoops
  <2>2. CASE CheckUpper(p)
    BY <2>2, <1>c, <1>s, QuietLoops DEF CheckUpper
  <2>3. CASE UseProvisioned(p)
    BY <2>3, <1>c, <1>s, QuietLoops DEF UseProvisioned
  <2>4. CASE EnsureMounted(p)
    BY <2>4, <1>c, <1>s, QuietLoops DEF EnsureMounted
  <2>5. CASE SetupImg(p)
    BY <2>5, <1>c, <1>s, QuietLoops DEF SetupImg
  <2>6. CASE CreateTmp(p)
    BY <2>6, <1>c, <1>s, QuietLoops DEF CreateTmp
  <2>7. CASE WriteTmp(p)
    BY <2>7, <1>c, <1>s, QuietLoops DEF WriteTmp
  <2>8. CASE Rename(p)
    BY <2>8, <1>c, <1>s, QuietLoops DEF Rename
  <2>9. CASE Fork(p)
    BY <2>9, <1>c, <1>s, QuietLoops DEF Fork
  <2>10. CASE MkUpper(p)
    BY <2>10, <1>c, <1>s, QuietLoops DEF MkUpper, MakesDir
  <2>11. CASE MkWork(p)
    BY <2>11, <1>c, <1>s, QuietLoops DEF MkWork, MakesDir
  <2>12. CASE MountOverlay(p)
    BY <2>12, <1>c, <1>s, QuietLoops DEF MountOverlay
  <2>13. CASE Stop(p)
    BY <2>13, <1>c, <1>s, QuietLoops DEF Stop
  <2>14. CASE FindFreeLoop(p)
    <3>1. /\ pc[p] = "find" /\ pc'[p] \in {"openimg", "failed"}
          /\ pc'[p] = "openimg" => fd'[p] \in Devs
          /\ \A q \in Names \ {p} : pc'[q] = pc[q] /\ fd'[q] = fd[q]
          /\ UNCHANGED <<dev, open, imgfd, mounts, content>>
      BY <2>14 DEF FindFreeLoop, FreeDevs, TypeOK, Goto
    <3>2. Users' /\ HeldComplete' /\ BoundComplete'
      BY <3>1 DEF LoopsInv, Users, HeldComplete, BoundComplete, Holding
    <3>3. Bindings' /\ MountsBound'
      BY <3>1 DEF LoopsInv, Bindings, MountsBound, Mounted, Binding
    <3>4. QED
      BY <3>2, <3>3 DEF LoopsInv
  <2>15. CASE OpenFiles(p)
    <3>1. /\ pc[p] = "openimg" /\ pc'[p] = "setfd" /\ imgfd'[p] = img /\ open' = open \cup {p}
          /\ \A q \in Names \ {p} : pc'[q] = pc[q] /\ imgfd'[q] = imgfd[q]
          /\ UNCHANGED <<dev, fd, mounts, content>>
      BY <2>15 DEF OpenFiles, TypeOK, Goto
    <3>2. img # None /\ content[img] = "complete"
      BY <3>1 DEF FilesInv, Picked
    <3>3. Users' /\ HeldComplete' /\ BoundComplete'
      BY <3>1, <3>2 DEF LoopsInv, Users, HeldComplete, BoundComplete, Holding
    <3>4. Bindings' /\ MountsBound'
      BY <3>1 DEF LoopsInv, Bindings, MountsBound, Mounted, Binding
    <3>5. QED
      BY <3>3, <3>4 DEF LoopsInv
  <2>16. CASE SetFd(p)
    <3>1. CASE dev[fd[p]] = Free
      <4>1. /\ pc[p] = "setfd" /\ pc'[p] = "auto" /\ imgfd'[p] = None
            /\ dev' = [dev EXCEPT ![fd[p]] = [img |-> imgfd[p], auto |-> FALSE]]
            /\ \A q \in Names \ {p} : pc'[q] = pc[q] /\ imgfd'[q] = imgfd[q]
            /\ UNCHANGED <<fd, open, mounts, content>>
        BY <2>16, <3>1 DEF SetFd, TypeOK, Goto
      <4>2. fd[p] \in Devs /\ imgfd[p] # None /\ content[imgfd[p]] = "complete"
        BY <4>1 DEF LoopsInv, Users, HeldComplete, Holding
      <4>3. /\ dev'[fd[p]] = [img |-> imgfd[p], auto |-> FALSE]
            /\ \A d \in Devs \ {fd[p]} : dev'[d] = dev[d]
        BY <4>1, <4>2 DEF TypeOK
      <4>4. dev'[fd[p]] # Free
        BY <4>2, <4>3 DEF Free
      <4>5. ~Mounted(fd[p]) /\ \A q \in Names : pc[q] \in Binding => fd[q] # fd[p]
        BY <3>1, <4>2 DEF LoopsInv, MountsBound, Bindings
      <4>6. Users' /\ HeldComplete'
        BY <4>1 DEF LoopsInv, Users, HeldComplete, Holding
      <4>7. BoundComplete'
        BY <4>1, <4>2, <4>3 DEF LoopsInv, BoundComplete
      <4>8. MountsBound'
        BY <4>1, <4>3, <4>5 DEF LoopsInv, MountsBound, Mounted
      <4>9. Bindings'
        <5>1. \A q \in Names \ {p} : pc'[q] \in Binding =>
                pc[q] \in Binding /\ fd[q] # fd[p] /\ fd[q] \in Devs
          BY <4>1, <4>5 DEF LoopsInv, Users, Holding, Binding
        <5>2. \A q \in Names : pc'[q] \in Binding => dev'[fd'[q]] # Free
          BY <4>1, <4>3, <4>4, <5>1 DEF LoopsInv, Bindings
        <5>3. \A q \in Names : pc'[q] \in Binding => ~Mounted(fd[q])'
          BY <4>1, <4>5, <5>1 DEF LoopsInv, Bindings, Mounted
        <5>4. \A q, r \in Names :
                pc'[q] \in Binding /\ pc'[r] \in Binding /\ fd'[q] = fd'[r] => q = r
          BY <4>1, <5>1 DEF LoopsInv, Bindings
        <5>5. QED
          BY <5>2, <5>3, <5>4 DEF Bindings
      <4>10. QED
        BY <4>6, <4>7, <4>8, <4>9 DEF LoopsInv
    <3>2. CASE dev[fd[p]] # Free
      BY <2>16, <3>2, <1>s, LeaveLoops DEF SetFd
    <3>3. QED
      BY <3>1, <3>2
  <2>17. CASE SetAutoclear(p)
    <3>1. /\ pc[p] = "auto" /\ pc'[p] = "mount"
          /\ \A q \in Names \ {p} : pc'[q] = pc[q]
          /\ UNCHANGED <<fd, open, imgfd, mounts, content>>
      BY <2>17 DEF SetAutoclear, TypeOK, Goto
    <3>2. fd[p] \in Devs /\ dev[fd[p]] # Free
      BY <3>1 DEF LoopsInv, Users, Holding, Bindings, Binding
    <3>3. /\ dev'[fd[p]] = [img |-> dev[fd[p]].img, auto |-> TRUE]
          /\ \A d \in Devs \ {fd[p]} : dev'[d] = dev[d]
      BY <2>17, <3>2 DEF SetAutoclear, TypeOK
    <3>4. \A d \in Devs : (dev'[d] # Free <=> dev[d] # Free) /\ dev'[d].img = dev[d].img
      BY <3>2, <3>3 DEF Free
    <3>5. Users' /\ HeldComplete'
      BY <3>1 DEF LoopsInv, Users, HeldComplete, Holding
    <3>6. BoundComplete' /\ MountsBound'
      BY <3>1, <3>4 DEF LoopsInv, BoundComplete, MountsBound, Mounted
    <3>7. Bindings'
      <4>1. \A q \in Names : pc'[q] \in Binding => pc[q] \in Binding /\ fd[q] \in Devs
        BY <3>1 DEF LoopsInv, Users, Holding, Binding
      <4>2. QED
        BY <3>1, <3>4, <4>1 DEF LoopsInv, Bindings, Mounted
    <3>8. QED
      BY <3>5, <3>6, <3>7 DEF LoopsInv
  <2>18. CASE AutoclearFails(p)
    <3>1. /\ pc[p] = "auto" /\ pc'[p] = "failed" /\ open' = open \ {p}
          /\ \A q \in Names \ {p} : pc'[q] = pc[q] /\ fd'[q] = fd[q]
          /\ UNCHANGED <<imgfd, mounts, content>>
      BY <2>18 DEF AutoclearFails, TypeOK, Goto
    <3>2. fd[p] \in Devs /\ dev[fd[p]] # Free /\ ~Mounted(fd[p])
      BY <3>1 DEF LoopsInv, Users, Holding, Bindings, Binding
    <3>3. /\ dev'[fd[p]] \in {Free, [img |-> dev[fd[p]].img, auto |-> TRUE]}
          /\ \A d \in Devs \ {fd[p]} : dev'[d] = dev[d]
      BY <2>18, <3>2 DEF AutoclearFails, TypeOK
    <3>4. Users' /\ HeldComplete'
      BY <3>1 DEF LoopsInv, Users, HeldComplete, Holding
    <3>5. BoundComplete' /\ MountsBound'
      <4>1. \A d \in Devs : dev'[d] # Free => dev[d] # Free /\ dev'[d].img = dev[d].img
        BY <3>2, <3>3
      <4>2. \A d \in Devs : Mounted(d)' => d # fd[p] /\ Mounted(d)
        BY <3>1, <3>2 DEF Mounted
      <4>3. BoundComplete'
        BY <3>1, <4>1 DEF LoopsInv, BoundComplete
      <4>4. MountsBound'
        BY <3>3, <4>2 DEF LoopsInv, MountsBound
      <4>5. QED
        BY <4>3, <4>4
    <3>6. Bindings'
      <4>1. \A q \in Names : pc'[q] \in Binding =>
              /\ q # p /\ pc[q] \in Binding /\ fd'[q] = fd[q]
              /\ fd[q] \in Devs \ {fd[p]}
        BY <3>1 DEF LoopsInv, Users, Holding, Binding, Bindings
      <4>2. \A q \in Names : pc[q] \in Binding => dev[fd[q]] # Free /\ ~Mounted(fd[q])
        BY DEF LoopsInv, Bindings
      <4>3. \A q \in Names : pc'[q] \in Binding => dev'[fd'[q]] # Free
        BY <3>3, <4>1, <4>2
      <4>4. \A q \in Names : pc'[q] \in Binding => ~Mounted(fd[q])'
        BY <3>1, <4>1, <4>2 DEF Mounted
      <4>5. \A q, r \in Names :
              pc'[q] \in Binding /\ pc'[r] \in Binding /\ fd'[q] = fd'[r] => q = r
        BY <4>1 DEF LoopsInv, Bindings
      <4>6. QED
        BY <4>3, <4>4, <4>5 DEF Bindings
    <3>7. QED
      BY <3>4, <3>5, <3>6 DEF LoopsInv
  <2>19. CASE Mount(p)
    <3>1. /\ pc[p] = "mount" /\ pc'[p] = "mkapp" /\ mounts' = Append(mounts, fd[p])
          /\ \A q \in Names \ {p} : pc'[q] = pc[q]
          /\ UNCHANGED <<dev, fd, open, imgfd, content>>
      BY <2>19 DEF Mount, TypeOK, Goto
    <3>2. fd[p] \in Devs /\ dev[fd[p]] # Free
      BY <3>1 DEF LoopsInv, Users, Holding, Bindings, Binding
    <3>3. \A d \in Devs : Mounted(d)' => Mounted(d) \/ d = fd[p]
      BY <3>1, <3>2 DEF Mounted, TypeOK
    <3>4. Users' /\ HeldComplete' /\ BoundComplete'
      BY <3>1 DEF LoopsInv, Users, HeldComplete, BoundComplete, Holding
    <3>5. MountsBound'
      BY <3>1, <3>2, <3>3 DEF LoopsInv, MountsBound
    <3>6. Bindings'
      <4>1. \A q \in Names : pc'[q] \in Binding =>
              q # p /\ pc[q] \in Binding /\ fd[q] # fd[p] /\ fd[q] \in Devs
        BY <3>1 DEF LoopsInv, Users, Holding, Binding, Bindings
      <4>2. QED
        BY <3>1, <3>3, <4>1 DEF LoopsInv, Bindings
    <3>7. QED
      BY <3>4, <3>5, <3>6 DEF LoopsInv
  <2>20. CASE MkAppdir(p)
    BY <2>20, <1>s, LeaveLoops DEF MkAppdir
  <2>21. QED
    BY <1>1, <2>1, <2>2, <2>3, <2>4, <2>5, <2>6, <2>7, <2>8, <2>9, <2>10, <2>11,
       <2>12, <2>13, <2>14, <2>15, <2>16, <2>17, <2>18, <2>19, <2>20 DEF Start
<1>2. ASSUME NEW p \in Names, Kill(p) PROVE LoopsInv'
  BY <1>2, <1>s, LeaveLoops DEF Kill
<1>3. ASSUME NEW p \in Names, NEW step \in Faulty, Fails(p, step) PROVE LoopsInv'
  BY <1>3, <1>s, LeaveLoops DEF Fails
<1>4. CASE Reboot
  <2>1. Users' /\ HeldComplete' /\ BoundComplete'
    BY <1>4 DEF Reboot, Users, HeldComplete, BoundComplete, Holding
  <2>2. Bindings' /\ MountsBound'
    BY <1>4 DEF Reboot, Bindings, MountsBound, Mounted, Binding
  <2>3. QED
    BY <2>1, <2>2 DEF LoopsInv
<1>5. CASE UNCHANGED vars
  BY <1>5 DEF vars, LoopsInv, Users, HeldComplete, BoundComplete, Bindings, MountsBound, Mounted
<1>6. QED
  BY <1>1, <1>2, <1>3, <1>4, <1>5 DEF Next
-----------------------------------------------------------------------------
(* What becomes of a bound device.                                         *)

\* A start that ends unbinds its device, or somebody else accounts for it.
LEMMA LeaveAccounted ==
  ASSUME TypeOK, LoopsInv, Accounted, NEW p \in Names, NEW step \in Over \cup {"fork"},
         Leave(p, step), orphaned \subseteq orphaned',
         pc[p] = "auto" => fd[p] \in orphaned'
  PROVE  Accounted'
<1> SUFFICES ASSUME NEW d \in Devs, dev'[d] # Free
             PROVE  \/ Mounted(d)'
                    \/ dev'[d].auto /\ \E q \in open' : fd'[q] = d
                    \/ \E q \in Names : pc'[q] = "auto" /\ fd'[q] = d
                    \/ d \in orphaned'
  BY DEF Accounted
<1>1. dev'[d] = dev[d] /\ dev[d] # Free
  BY DEF Leave, Closed
<1>2. \A q \in Names \ {p} : pc'[q] = pc[q] /\ fd'[q] = fd[q]
  BY DEF Leave, Goto, TypeOK
<1>3. UNCHANGED mounts /\ open' = open \ {p} /\ open \subseteq Names
  BY DEF Leave, TypeOK
<1>4. CASE Mounted(d)
  BY <1>3, <1>4 DEF Mounted
<1>5. CASE ~Mounted(d) /\ dev[d].auto /\ \E q \in open : fd[q] = d
  <2>1. \E q \in open \ {p} : fd[q] = d
    <3>1. CASE \A q \in open \ {p} : fd[q] # d
      <4>1. p \in open /\ fd[p] = d
        BY <1>5, <3>1
      <4>2. dev'[d] = Free
        BY <1>5, <3>1, <4>1 DEF Leave, Closed, Mounted
      <4>3. QED
        BY <4>2
    <3>2. QED
      BY <3>1
  <2>2. QED
    BY <1>1, <1>2, <1>3, <1>5, <2>1
<1>6. CASE \E q \in Names : pc[q] = "auto" /\ fd[q] = d
  BY <1>2, <1>6
<1>7. CASE d \in orphaned
  BY <1>7
<1>8. QED
  BY <1>1, <1>4, <1>5, <1>6, <1>7 DEF Accounted

\* A step that leaves the devices alone, and the starts about to set AUTOCLEAR.
LEMMA QuietAccounted ==
  ASSUME Accounted, UNCHANGED <<dev, mounts, orphaned>>,
         \A q \in open : q \in open' /\ fd'[q] = fd[q],
         \A q \in Names : pc[q] = "auto" => pc'[q] = "auto" /\ fd'[q] = fd[q]
  PROVE  Accounted'
BY DEF Accounted, Mounted

LEMMA AccountedStep == TypeOK /\ LoopsInv /\ Accounted /\ [Next]_vars => Accounted'
<1> SUFFICES ASSUME TypeOK, LoopsInv, Accounted, [Next]_vars PROVE Accounted'
  OBVIOUS
<1> USE DEF disk, loops, ghosts
<1>s. {"idle", "failed", "fork"} \subseteq Over \cup {"fork"}
  BY DEF Over
<1>1. ASSUME NEW p \in Names, Start(p) PROVE Accounted'
  <2>1. CASE Detect(p)
    BY <2>1, QuietAccounted DEF Detect, TypeOK, Goto, Over
  <2>2. CASE CheckUpper(p)
    BY <2>2, QuietAccounted DEF CheckUpper, TypeOK, Goto
  <2>3. CASE UseProvisioned(p)
    BY <2>3, QuietAccounted DEF UseProvisioned, TypeOK, Goto
  <2>4. CASE EnsureMounted(p)
    BY <2>4, QuietAccounted DEF EnsureMounted, TypeOK, Goto
  <2>5. CASE SetupImg(p)
    BY <2>5, QuietAccounted DEF SetupImg, TypeOK, Goto
  <2>6. CASE CreateTmp(p)
    BY <2>6, QuietAccounted DEF CreateTmp, TypeOK, Goto
  <2>7. CASE WriteTmp(p)
    BY <2>7, QuietAccounted DEF WriteTmp, TypeOK, Goto
  <2>8. CASE Rename(p)
    BY <2>8, QuietAccounted DEF Rename, TypeOK, Goto
  <2>9. CASE Fork(p)
    BY <2>9, QuietAccounted DEF Fork, TypeOK, Goto
  <2>10. CASE MkUpper(p)
    BY <2>10, QuietAccounted DEF MkUpper, TypeOK, Goto, MakesDir
  <2>11. CASE MkWork(p)
    BY <2>11, QuietAccounted DEF MkWork, TypeOK, Goto, MakesDir
  <2>12. CASE MountOverlay(p)
    BY <2>12, QuietAccounted DEF MountOverlay, TypeOK, Goto
  <2>13. CASE Stop(p)
    BY <2>13, QuietAccounted DEF Stop, TypeOK, Goto
  <2>14. CASE FindFreeLoop(p)
    <3>1. p \notin open
      BY <2>14 DEF FindFreeLoop, LoopsInv, Users, Holding
    <3>2. /\ UNCHANGED <<dev, mounts, orphaned, open>> /\ pc[p] = "find"
          /\ \A q \in Names \ {p} : pc'[q] = pc[q] /\ fd'[q] = fd[q]
      BY <2>14 DEF FindFreeLoop, TypeOK, Goto
    <3>3. QED
      BY <3>1, <3>2, QuietAccounted DEF TypeOK
  <2>15. CASE OpenFiles(p)
    BY <2>15, QuietAccounted DEF OpenFiles, TypeOK, Goto
  <2>16. CASE SetFd(p)
    <3>1. CASE dev[fd[p]] = Free
      <4>1. /\ pc[p] = "setfd" /\ pc'[p] = "auto"
            /\ dev' = [dev EXCEPT ![fd[p]] = [img |-> imgfd[p], auto |-> FALSE]]
            /\ \A q \in Names \ {p} : pc'[q] = pc[q]
            /\ UNCHANGED <<fd, open, mounts, orphaned>>
        BY <2>16, <3>1 DEF SetFd, TypeOK, Goto
      <4>2. \A d \in Devs \ {fd[p]} : dev'[d] = dev[d]
        BY <4>1 DEF TypeOK
      <4>3. QED
        BY <4>1, <4>2 DEF Accounted, Mounted
    <3>2. CASE dev[fd[p]] # Free
      <4>1. Leave(p, "failed") /\ pc[p] # "auto" /\ UNCHANGED orphaned
        BY <2>16, <3>2 DEF SetFd
      <4>2. QED
        BY <4>1, <1>s, LeaveAccounted
    <3>3. QED
      BY <3>1, <3>2
  <2>17. CASE SetAutoclear(p)
    <3>1. /\ pc[p] = "auto" /\ UNCHANGED <<fd, open, mounts, orphaned>>
          /\ \A q \in Names \ {p} : pc'[q] = pc[q]
      BY <2>17 DEF SetAutoclear, TypeOK, Goto
    <3>2. p \in open /\ fd[p] \in Devs
      BY <3>1 DEF LoopsInv, Users, Holding
    <3>3. /\ dev'[fd[p]].auto
          /\ \A d \in Devs \ {fd[p]} : dev'[d] = dev[d]
      BY <2>17, <3>2 DEF SetAutoclear, TypeOK
    <3>4. QED
      BY <3>1, <3>2, <3>3 DEF Accounted, Mounted
  <2>18. CASE AutoclearFails(p)
    <3>1. /\ pc[p] = "auto" /\ open' = open \ {p} /\ UNCHANGED <<mounts, orphaned>>
          /\ \A q \in Names \ {p} : pc'[q] = pc[q] /\ fd'[q] = fd[q]
      BY <2>18 DEF AutoclearFails, TypeOK, Goto
    <3>2. fd[p] \in Devs /\ open \subseteq Names
      BY <3>1 DEF LoopsInv, Users, Holding, TypeOK
    <3>3. dev'[fd[p]] # Free => dev'[fd[p]].auto /\ \E q \in open \ {p} : fd[q] = fd[p]
      BY <2>18, <3>2 DEF AutoclearFails, TypeOK
    <3>4. \A d \in Devs \ {fd[p]} : dev'[d] = dev[d]
      BY <2>18, <3>2 DEF AutoclearFails, TypeOK
    <3>5. QED
      BY <3>1, <3>2, <3>3, <3>4 DEF Accounted, Mounted
  <2>19. CASE Mount(p)
    <3>1. /\ pc[p] = "mount" /\ mounts' = Append(mounts, fd[p])
          /\ \A q \in Names \ {p} : pc'[q] = pc[q]
          /\ UNCHANGED <<dev, fd, open, orphaned>>
      BY <2>19 DEF Mount, TypeOK, Goto
    <3>2. \A d \in Devs : Mounted(d) => Mounted(d)'
      BY <3>1 DEF Mounted, TypeOK
    <3>3. QED
      BY <3>1, <3>2 DEF Accounted
  <2>20. CASE MkAppdir(p)
    <3>1. Leave(p, "fork") /\ pc[p] # "auto" /\ UNCHANGED orphaned
      BY <2>20 DEF MkAppdir
    <3>2. QED
      BY <3>1, <1>s, LeaveAccounted
  <2>21. QED
    BY <1>1, <2>1, <2>2, <2>3, <2>4, <2>5, <2>6, <2>7, <2>8, <2>9, <2>10, <2>11,
       <2>12, <2>13, <2>14, <2>15, <2>16, <2>17, <2>18, <2>19, <2>20 DEF Start
<1>2. ASSUME NEW p \in Names, Kill(p) PROVE Accounted'
  <2>1. Leave(p, "idle") /\ orphaned \subseteq orphaned' /\ (pc[p] = "auto" => fd[p] \in orphaned')
    BY <1>2 DEF Kill
  <2>2. QED
    BY <2>1, <1>s, LeaveAccounted
<1>3. ASSUME NEW p \in Names, NEW step \in Faulty, Fails(p, step) PROVE Accounted'
  <2>1. Leave(p, "failed") /\ pc[p] # "auto" /\ UNCHANGED orphaned
    BY <1>3 DEF Fails, Faulty, Building
  <2>2. QED
    BY <2>1, <1>s, LeaveAccounted
<1>4. CASE Reboot
  BY <1>4 DEF Reboot, Accounted
<1>5. CASE UNCHANGED vars
  BY <1>5 DEF vars, Accounted, Mounted
<1>6. QED
  BY <1>1, <1>2, <1>3, <1>4, <1>5 DEF Next

-----------------------------------------------------------------------------
\* Whatever the host's disk looks like when the first start begins, the
\* invariant holds.
LEMMA InitInv == Init => IInv
<1> SUFFICES ASSUME Init PROVE IInv
  OBVIOUS
<1> USE SameFsAssumption, DisksAssumption DEF Init, Images, None
<1>1. PICK d \in Disks :
        /\ loopdir = d.loopdir
        /\ bare = d.bare
        /\ img = IF d.img = "none" THEN None ELSE 1
        /\ content = [i \in Images |-> IF i = 1 THEN d.img ELSE "none"]
        /\ made = IF d.img = "none" THEN None ELSE 1
  OBVIOUS
<1>2. TypeOK
  <2>1. /\ loopdir \in {"absent", "dir", "symlink"} /\ bare \subseteq Names
        /\ d.img \in {"none", "short", "complete"} /\ (d.img # "none" => 1 \in Images)
    BY <1>1
  <2>2. img \in {None} \cup Images /\ made \in {None} \cup Images
    BY <1>1, <2>1
  <2>3. content \in [Images -> {"none", "short", "sized", "magic", "complete"}]
    BY <1>1, <2>1
  <2>4. dirs \in [Images -> SUBSET (Names \X {"app", "upper", "work"})]
    OBVIOUS
  <2>5. dev \in [Devs -> [img : {None} \cup Images, auto : BOOLEAN]]
    BY DEF Free
  <2>6. mounts \in Seq(Devs)
    OBVIOUS
  <2>7. pc \in [Names -> Steps] /\ fd \in [Names -> Devs \cup {NoDev}]
    BY DEF Steps, Over, NoDev
  <2>8. QED
    BY <2>1, <2>2, <2>3, <2>4, <2>5, <2>6, <2>7 DEF TypeOK
<1>3. FilesInv
  BY <1>1 DEF FilesInv, FinalName, Unbuilt, OwnTmp, Written, Picked
<1>4. LoopsInv
  BY DEF LoopsInv, Users, HeldComplete, BoundComplete, Bindings, MountsBound, Mounted, Holding, Binding
<1>5. Accounted
  BY DEF Accounted
<1>6. QED
  BY <1>2, <1>3, <1>4, <1>5 DEF IInv

\* The types, what is written in the images and who holds the loop devices
\* are an inductive invariant of handle_same_fs.
THEOREM Inductive == Spec => []IInv
<1>1. IInv /\ [Next]_vars => IInv'
  BY TypeStep, FilesStep, LoopsStep, AccountedStep DEF IInv
<1>2. QED
  BY InitInv, <1>1, PTL DEF Spec

\* The state of the loopback set-up has its types: a chosen loop device, an
\* open image and a mounted device are ones that exist.
THEOREM TypesHold == Spec => []TypeOK
<1>1. IInv => TypeOK
  BY DEF IInv
<1>2. QED
  BY Inductive, <1>1, PTL

\* setup_ext4_img never lets an unfinished image be mounted: for any number of
\* starts side by side, of kills, reboots and failing calls.
THEOREM MountsAreComplete == Spec => []MountedComplete
<1>1. IInv => MountedComplete
  <2>1. ASSUME TypeOK, NEW k \in 1 .. Len(mounts) PROVE mounts[k] \in Devs
    BY <2>1 DEF TypeOK
  <2>2. QED
    BY <2>1 DEF IInv, LoopsInv, BoundComplete, MountsBound, Mounted, MountedComplete
<1>2. QED
  BY Inductive, <1>1, PTL

\* io_loop leaks no loop device, except when it is killed between LOOP_SET_FD
\* and LOOP_SET_STATUS64.
THEOREM LoopsAreNotLeaked == Spec => []NoLoopLeak
<1>1. IInv => NoLoopLeak
  <2> SUFFICES ASSUME IInv, NEW d \in Devs, dev[d] # Free
               PROVE  \/ \E k \in 1 .. Len(mounts) : mounts[k] = d
                      \/ \E p \in open : fd[p] = d
                      \/ d \in orphaned
    BY DEF NoLoopLeak
  <2>1. \A p \in Names : pc[p] = "auto" => p \in open
    BY DEF IInv, LoopsInv, Users, Holding
  <2>2. QED
    BY <2>1 DEF IInv, Accounted, Mounted
<1>2. QED
  BY Inductive, <1>1, PTL
-----------------------------------------------------------------------------
(* Directories that are there again after a reboot.                        *)

\* The steps between a first look at the loop directory and the fork.
InSetup == Setup \ {"lstat"}

\* Unless two starts have raced, one at a time sets up the mount, and only
\* when there is none.
Single ==
  ~raced =>
    /\ \A p, q \in Names : pc[p] \in InSetup /\ pc[q] \in InSetup => p = q
    /\ \A p \in Names : pc[p] \in InSetup \ {"mkapp"} => mounts = <<>>

\* Then what a start holds open or has bound is the image under the final
\* name, and it builds a new one only while that is of no use.
UsesImage(p) ==
  /\ pc[p] \in Building => img = None \/ content[img] = "short"
  /\ pc[p] = "setfd" => imgfd[p] = img
  /\ pc[p] \in Binding => dev[fd[p]].img = img
MountsImage == \A d \in Devs : Mounted(d) => dev[d].img = img
OneImage == ~raced => (\A p \in Names : UsesImage(p)) /\ MountsImage

\* And so do containers see, and make their directories in, that image only.
Filled ==
  ~raced =>
    /\ \A p \in Names : view[p] # None => view[p] = img /\ content[img] = "complete"
    /\ \A i \in Images : dirs[i] # {} => i = img /\ content[i] = "complete"

KeptInv == Single /\ OneImage /\ Filled

\* A start that has been alone and met no failing call: no other is active,
\* what it saw below the loop directory is so still, nobody has bound the loop
\* device it has chosen, and it goes on without a mount only when the bare loop
\* directory is on another device than its lower directory.
Alone ==
  \A p \in clean :
    /\ \A q \in Names \ {p} : ~Active(q) /\ q \notin clean
    /\ pc[p] = "provisioned" /\ mounts = <<>> => p \in bare
    /\ pc[p] \in {"openimg", "setfd"} => dev[fd[p]] = Free
    /\ pc[p] = "mkapp" => mounts # <<>>
    /\ pc[p] \in {"fork", "forkready"} /\ mounts = <<>> => p \in foreign
    /\ pc[p] \in {"mkupper", "mkwork", "overlay"} /\ view[p] = None =>
         mounts = <<>> /\ p \in foreign

\* A step of p that brings p past or before the steps that use the image, and
\* leaves the image and the devices of the others alone.
LEMMA QuietImage ==
  ASSUME TypeOK, OneImage, NEW p \in Names, ~raced' => ~raced, UNCHANGED <<img, content, mounts>>,
         \A q \in Names \ {p} : /\ pc'[q] = pc[q] /\ fd'[q] = fd[q] /\ imgfd'[q] = imgfd[q]
                                /\ pc[q] \in Binding => dev'[fd[q]] = dev[fd[q]],
         pc'[p] \notin Building \cup {"setfd"} \cup Binding,
         \A d \in Devs : Mounted(d) => dev'[d] = dev[d]
  PROVE  OneImage'
<1> SUFFICES ASSUME ~raced' PROVE (\A q \in Names : UsesImage(q)') /\ MountsImage'
  BY DEF OneImage
<1>1. (\A q \in Names : UsesImage(q)) /\ MountsImage
  BY DEF OneImage
<1>2. UsesImage(p)'
  BY DEF UsesImage
<1>3. \A q \in Names \ {p} : UsesImage(q)'
  BY <1>1 DEF UsesImage
<1>4. MountsImage'
  BY <1>1 DEF MountsImage, Mounted
<1>5. QED
  BY <1>2, <1>3, <1>4

\* Nor does the end of a start disturb it.
LEMMA LeaveImage ==
  ASSUME TypeOK, LoopsInv, OneImage, NEW p \in Names, NEW step \in Over \cup {"fork"},
         Leave(p, step), UNCHANGED <<img, content, raced>>
  PROVE  OneImage'
<1>1. /\ \A q \in Names \ {p} : pc'[q] = pc[q] /\ fd'[q] = fd[q] /\ imgfd'[q] = imgfd[q]
      /\ pc'[p] = step /\ UNCHANGED mounts
  BY DEF TypeOK, Leave, Goto
<1>2. pc'[p] \notin Building \cup {"setfd"} \cup Binding
  BY <1>1 DEF Over, Building, Binding
<1>3. \A d \in Devs : Mounted(d) => dev'[d] = dev[d]
  BY DEF Leave, Closed, Mounted
<1>4. ASSUME NEW q \in Names \ {p}, pc[q] \in Binding PROVE dev'[fd[q]] = dev[fd[q]]
  <2>1. q \in open /\ fd[q] \in Devs
    BY <1>4 DEF LoopsInv, Users, Holding, Binding
  <2>2. QED
    BY <2>1 DEF Leave, Closed
<1>5. QED
  BY <1>1, <1>2, <1>3, <1>4, QuietImage

\* What is mounted at the loop directory is the image, and complete.
LEMMA TopIsImage ==
  ASSUME TypeOK, LoopsInv, OneImage, ~raced, Top # None
  PROVE  Top = img /\ img \in Images /\ content[img] = "complete"
<1>1. mounts # <<>> /\ Top = dev[mounts[Len(mounts)]].img
  BY DEF Top
<1>2. Len(mounts) \in 1 .. Len(mounts) /\ mounts[Len(mounts)] \in Devs
  BY <1>1 DEF TypeOK
<1>3. Mounted(mounts[Len(mounts)])
  BY <1>2 DEF Mounted
<1>4. QED
  BY <1>1, <1>2, <1>3 DEF OneImage, MountsImage, LoopsInv, MountsBound, BoundComplete, TypeOK

\* Every step keeps one set-up at a time.
LEMMA SingleStep == TypeOK /\ Single /\ [Next]_vars => Single'
<1> SUFFICES ASSUME TypeOK, Single, [Next]_vars PROVE Single'
  OBVIOUS
<1> USE DEF TypeOK, Single, InSetup, Setup, Building, Goto, disk, loops, ghosts
<1>1. ASSUME NEW p \in Names, Start(p) PROVE Single'
<2>1. CASE Detect(p)
  BY <2>1 DEF Detect, Over
<2>2. CASE CheckUpper(p)
  BY <2>2 DEF CheckUpper
<2>3. CASE UseProvisioned(p)
  BY <2>3 DEF UseProvisioned
<2>4. CASE EnsureMounted(p)
  <3>1. CASE ~OtherDevice(p)
    BY <2>4, <3>1, ZenonT(30) DEF EnsureMounted, OtherDevice
  <3>2. CASE OtherDevice(p)
    <4>1. pc'[p] = "fork" /\ (raced' <=> raced) /\ UNCHANGED mounts /\ \A q \in Names \ {p} : pc'[q] = pc[q]
      BY <2>4, <3>2 DEF EnsureMounted
    <4>2. QED
      BY <4>1, SMTT(30)
  <3>3. QED
    BY <3>1, <3>2
<2>5. CASE SetupImg(p)
  BY <2>5 DEF SetupImg, ImageValid
<2>6. CASE CreateTmp(p)
  BY <2>6 DEF CreateTmp
<2>7. CASE WriteTmp(p)
  BY <2>7 DEF WriteTmp
<2>8. CASE Rename(p)
  BY <2>8 DEF Rename
<2>9. CASE FindFreeLoop(p)
  BY <2>9 DEF FindFreeLoop, FreeDevs
<2>10. CASE OpenFiles(p)
  BY <2>10 DEF OpenFiles
<2>11. CASE SetFd(p)
  BY <2>11, SMTT(30) DEF SetFd, Leave
<2>12. CASE SetAutoclear(p)
  BY <2>12 DEF SetAutoclear
<2>13. CASE AutoclearFails(p)
  BY <2>13 DEF AutoclearFails
<2>14. CASE Mount(p)
  BY <2>14 DEF Mount
<2>15. CASE MkAppdir(p)
  BY <2>15 DEF MkAppdir, Leave
<2>16. CASE Fork(p)
  BY <2>16 DEF Fork
<2>17. CASE MkUpper(p)
  BY <2>17 DEF MkUpper, MakesDir
<2>18. CASE MkWork(p)
  BY <2>18 DEF MkWork, MakesDir
<2>19. CASE MountOverlay(p)
  BY <2>19 DEF MountOverlay
<2>20. CASE Stop(p)
  BY <2>20 DEF Stop
<2>21. QED
    BY <1>1, <2>1, <2>2, <2>3, <2>4, <2>5, <2>6, <2>7, <2>8, <2>9, <2>10, <2>11,
       <2>12, <2>13, <2>14, <2>15, <2>16, <2>17, <2>18, <2>19, <2>20 DEF Start
<1>2. ASSUME NEW p \in Names, Kill(p) PROVE Single'
  BY <1>2 DEF Kill, Leave
<1>3. ASSUME NEW p \in Names, NEW step \in Faulty, Fails(p, step) PROVE Single'
  BY <1>3 DEF Fails, Leave
<1>4. CASE Reboot
  BY <1>4 DEF Reboot
<1>5. CASE UNCHANGED vars
  BY <1>5 DEF vars
<1>6. QED
  BY <1>1, <1>2, <1>3, <1>4, <1>5 DEF Next

\* Every step keeps that one image in use.
LEMMA OneImageStep == TypeOK /\ FilesInv /\ LoopsInv /\ Single /\ OneImage /\ [Next]_vars => OneImage'
<1> SUFFICES ASSUME TypeOK, FilesInv, LoopsInv, Single, OneImage, [Next]_vars PROVE OneImage'
  OBVIOUS
<1> USE SameFsAssumption DEF TypeOK, OneImage, Goto, disk, loops, ghosts
<1>s. {"idle", "failed", "fork"} \subseteq Over \cup {"fork"}
  BY DEF Over
<1>1. ASSUME NEW p \in Names, Start(p) PROVE OneImage'
<2>1. CASE Detect(p)
  <3>1. /\ \A q \in Names \ {p} : pc'[q] = pc[q] /\ fd'[q] = fd[q] /\ imgfd'[q] = imgfd[q]
        /\ UNCHANGED <<img, content, mounts, dev>> /\ (~raced' => ~raced)
    BY <2>1 DEF Detect, Over
  <3>2. pc'[p] \notin Building \cup {"setfd"} \cup Binding
    BY <2>1 DEF Detect, Over, Building, Binding
  <3>3. QED
    BY <3>1, <3>2, QuietImage
<2>2. CASE CheckUpper(p)
  <3>1. /\ \A q \in Names \ {p} : pc'[q] = pc[q] /\ fd'[q] = fd[q] /\ imgfd'[q] = imgfd[q]
        /\ UNCHANGED <<img, content, mounts, dev>> /\ (~raced' => ~raced)
    BY <2>2 DEF CheckUpper
  <3>2. pc'[p] \notin Building \cup {"setfd"} \cup Binding
    BY <2>2 DEF CheckUpper, Building, Binding
  <3>3. QED
    BY <3>1, <3>2, QuietImage
<2>3. CASE UseProvisioned(p)
  <3>1. /\ \A q \in Names \ {p} : pc'[q] = pc[q] /\ fd'[q] = fd[q] /\ imgfd'[q] = imgfd[q]
        /\ UNCHANGED <<img, content, mounts, dev>> /\ (~raced' => ~raced)
    BY <2>3 DEF UseProvisioned
  <3>2. pc'[p] \notin Building \cup {"setfd"} \cup Binding
    BY <2>3 DEF UseProvisioned, Building, Binding
  <3>3. QED
    BY <3>1, <3>2, QuietImage
<2>4. CASE EnsureMounted(p)
  <3>1. /\ \A q \in Names \ {p} : pc'[q] = pc[q] /\ fd'[q] = fd[q] /\ imgfd'[q] = imgfd[q]
        /\ UNCHANGED <<img, content, mounts, dev>> /\ (~raced' => ~raced)
    BY <2>4 DEF EnsureMounted
  <3>2. pc'[p] \notin Building \cup {"setfd"} \cup Binding
    BY <2>4 DEF EnsureMounted, Building, Binding
  <3>3. QED
    BY <3>1, <3>2, QuietImage
<2>5. CASE SetupImg(p)
  <3> SUFFICES ASSUME ~raced' PROVE (\A q \in Names : UsesImage(q)') /\ MountsImage'
    BY DEF OneImage
  <3>h. ~raced /\ (\A q \in Names : UsesImage(q)) /\ MountsImage
    BY <2>5 DEF OneImage, SetupImg
  <3>a. pc[p] \in InSetup \ {"mkapp"}
    BY <2>5 DEF InSetup, Setup, Building, SetupImg
  <3>b. mounts = <<>> /\ \A q \in Names \ {p} : pc[q] \notin InSetup
    BY <3>a, <3>h DEF Single
  <3>c. \A q \in Names \ {p} : pc'[q] = pc[q]
    BY <2>5 DEF SetupImg
  <3>d. \A q \in Names \ {p} : UsesImage(q)'
    BY <3>b, <3>c DEF UsesImage, InSetup, Setup, Building, Binding
  <3>u. UsesImage(p)'
    <4>1. UNCHANGED <<img, content>> /\ pc'[p] \in {"find", "create"}
      BY <2>5 DEF SetupImg
    <4>2. pc'[p] = "create" => img = None \/ content[img] = "short"
      BY <2>5 DEF SetupImg, ImageValid, FilesInv, FinalName
    <4>3. QED
      BY <4>1, <4>2 DEF UsesImage, Building, Binding
  <3>m. MountsImage'
    BY <2>5, <3>b DEF MountsImage, Mounted, SetupImg
  <3>9. QED
    BY <3>d, <3>u, <3>m
<2>6. CASE CreateTmp(p)
  <3> SUFFICES ASSUME ~raced' PROVE (\A q \in Names : UsesImage(q)') /\ MountsImage'
    BY DEF OneImage
  <3>h. ~raced /\ (\A q \in Names : UsesImage(q)) /\ MountsImage
    BY <2>6 DEF OneImage, CreateTmp
  <3>a. pc[p] \in InSetup \ {"mkapp"}
    BY <2>6 DEF InSetup, Setup, Building, CreateTmp
  <3>b. mounts = <<>> /\ \A q \in Names \ {p} : pc[q] \notin InSetup
    BY <3>a, <3>h DEF Single
  <3>c. \A q \in Names \ {p} : pc'[q] = pc[q]
    BY <2>6 DEF CreateTmp
  <3>d. \A q \in Names \ {p} : UsesImage(q)'
    BY <3>b, <3>c DEF UsesImage, InSetup, Setup, Building, Binding
  <3>u. UsesImage(p)'
    <4>1. /\ made' = made + 1 /\ UNCHANGED img /\ pc'[p] = "sb" /\ pc[p] = "create"
          /\ content' = [content EXCEPT ![made'] = "sized"]
      BY <2>6 DEF CreateTmp
    <4>2. img <= made /\ img \in Nat /\ made \in Nat
      BY DEF FilesInv, FinalName, Images, None
    <4>3. img # made'
      BY <4>1, <4>2
    <4>4. img # None => content'[img] = content[img]
      BY <4>1, <4>3
    <4>5. QED
      BY <3>h, <4>1, <4>4 DEF UsesImage, Building, Binding
  <3>m. MountsImage'
    BY <2>6, <3>b DEF MountsImage, Mounted, CreateTmp
  <3>9. QED
    BY <3>d, <3>u, <3>m
<2>7. CASE WriteTmp(p)
  <3> SUFFICES ASSUME ~raced' PROVE (\A q \in Names : UsesImage(q)') /\ MountsImage'
    BY DEF OneImage
  <3>h. ~raced /\ (\A q \in Names : UsesImage(q)) /\ MountsImage
    BY <2>7 DEF OneImage, WriteTmp
  <3>a. pc[p] \in InSetup \ {"mkapp"}
    BY <2>7 DEF InSetup, Setup, Building, WriteTmp
  <3>b. mounts = <<>> /\ \A q \in Names \ {p} : pc[q] \notin InSetup
    BY <3>a, <3>h DEF Single
  <3>c. \A q \in Names \ {p} : pc'[q] = pc[q]
    BY <2>7 DEF WriteTmp
  <3>d. \A q \in Names \ {p} : UsesImage(q)'
    BY <3>b, <3>c DEF UsesImage, InSetup, Setup, Building, Binding
  <3>u. UsesImage(p)'
    <4>1. /\ UNCHANGED img /\ pc'[p] \in {"rest", "rename"} /\ pc[p] \in {"sb", "rest"}
          /\ \A i \in Images \ {tmp[p]} : content'[i] = content[i]
      BY <2>7 DEF WriteTmp
    <4>2. img # None => img # tmp[p]
      BY <4>1 DEF FilesInv, FinalName, Written
    <4>3. img # None => content'[img] = content[img]
      BY <4>1, <4>2
    <4>4. QED
      BY <3>h, <4>1, <4>3 DEF UsesImage, Building, Binding
  <3>m. MountsImage'
    BY <2>7, <3>b DEF MountsImage, Mounted, WriteTmp
  <3>9. QED
    BY <3>d, <3>u, <3>m
<2>8. CASE Rename(p)
  <3> SUFFICES ASSUME ~raced' PROVE (\A q \in Names : UsesImage(q)') /\ MountsImage'
    BY DEF OneImage
  <3>h. ~raced /\ (\A q \in Names : UsesImage(q)) /\ MountsImage
    BY <2>8 DEF OneImage, Rename
  <3>a. pc[p] \in InSetup \ {"mkapp"}
    BY <2>8 DEF InSetup, Setup, Building, Rename
  <3>b. mounts = <<>> /\ \A q \in Names \ {p} : pc[q] \notin InSetup
    BY <3>a, <3>h DEF Single
  <3>c. \A q \in Names \ {p} : pc'[q] = pc[q]
    BY <2>8 DEF Rename
  <3>d. \A q \in Names \ {p} : UsesImage(q)'
    BY <3>b, <3>c DEF UsesImage, InSetup, Setup, Building, Binding
  <3>u. UsesImage(p)'
    BY <2>8 DEF Rename, UsesImage, Building, Binding
  <3>m. MountsImage'
    BY <2>8, <3>b DEF MountsImage, Mounted, Rename
  <3>9. QED
    BY <3>d, <3>u, <3>m
<2>9. CASE FindFreeLoop(p)
  <3>1. /\ \A q \in Names \ {p} : pc'[q] = pc[q] /\ fd'[q] = fd[q] /\ imgfd'[q] = imgfd[q]
        /\ UNCHANGED <<img, content, mounts, dev, raced>> /\ pc'[p] \in {"openimg", "failed"}
    BY <2>9 DEF FindFreeLoop
  <3>2. pc'[p] \notin Building \cup {"setfd"} \cup Binding
    BY <3>1 DEF Building, Binding
  <3>3. QED
    BY <3>1, <3>2, QuietImage
<2>10. CASE OpenFiles(p)
  <3> SUFFICES ASSUME ~raced' PROVE (\A q \in Names : UsesImage(q)') /\ MountsImage'
    BY DEF OneImage
  <3>h. ~raced /\ (\A q \in Names : UsesImage(q)) /\ MountsImage
    BY <2>10 DEF OneImage, OpenFiles
  <3>a. pc[p] \in InSetup \ {"mkapp"}
    BY <2>10 DEF InSetup, Setup, Building, OpenFiles
  <3>b. mounts = <<>> /\ \A q \in Names \ {p} : pc[q] \notin InSetup
    BY <3>a, <3>h DEF Single
  <3>c. \A q \in Names \ {p} : pc'[q] = pc[q]
    BY <2>10 DEF OpenFiles
  <3>d. \A q \in Names \ {p} : UsesImage(q)'
    BY <3>b, <3>c DEF UsesImage, InSetup, Setup, Building, Binding
  <3>u. UsesImage(p)'
    BY <2>10 DEF OpenFiles, UsesImage, Building, Binding
  <3>m. MountsImage'
    BY <2>10, <3>b DEF MountsImage, Mounted, OpenFiles
  <3>9. QED
    BY <3>d, <3>u, <3>m
<2>11. CASE SetFd(p)
  <3>1. CASE dev[fd[p]] = Free
    <4> SUFFICES ASSUME ~raced' PROVE (\A q \in Names : UsesImage(q)') /\ MountsImage'
      BY DEF OneImage
    <4>h. ~raced /\ (\A q \in Names : UsesImage(q)) /\ MountsImage
      BY <2>11, <3>1 DEF OneImage, SetFd
    <4>a. pc[p] \in InSetup \ {"mkapp"}
      BY <2>11, <3>1 DEF InSetup, Setup, Building, SetFd
    <4>b. mounts = <<>> /\ \A q \in Names \ {p} : pc[q] \notin InSetup
      BY <4>a, <4>h DEF Single
    <4>c. \A q \in Names \ {p} : pc'[q] = pc[q]
      BY <2>11, <3>1 DEF SetFd
    <4>d. \A q \in Names \ {p} : UsesImage(q)'
      BY <4>b, <4>c DEF UsesImage, InSetup, Setup, Building, Binding
    <4>u. UsesImage(p)'
      <5>1. /\ pc[p] = "setfd" /\ pc'[p] = "auto" /\ UNCHANGED <<img, fd>>
            /\ dev' = [dev EXCEPT ![fd[p]] = [img |-> imgfd[p], auto |-> FALSE]]
        BY <2>11, <3>1 DEF SetFd
      <5>2. fd[p] \in Devs /\ imgfd[p] = img
        BY <4>h, <5>1 DEF LoopsInv, Users, Holding, UsesImage
      <5>3. QED
        BY <5>1, <5>2 DEF UsesImage, Building
    <4>m. MountsImage'
      BY <2>11, <3>1, <4>b DEF MountsImage, Mounted, SetFd
    <4>9. QED
      BY <4>d, <4>u, <4>m
  <3>2. CASE dev[fd[p]] # Free
    BY <2>11, <3>2, <1>s, LeaveImage DEF SetFd
  <3>3. QED
    BY <3>1, <3>2
<2>12. CASE SetAutoclear(p)
  <3> SUFFICES ASSUME ~raced' PROVE (\A q \in Names : UsesImage(q)') /\ MountsImage'
    BY DEF OneImage
  <3>h. ~raced /\ (\A q \in Names : UsesImage(q)) /\ MountsImage
    BY <2>12 DEF OneImage, SetAutoclear
  <3>a. pc[p] \in InSetup \ {"mkapp"}
    BY <2>12 DEF InSetup, Setup, Building, SetAutoclear
  <3>b. mounts = <<>> /\ \A q \in Names \ {p} : pc[q] \notin InSetup
    BY <3>a, <3>h DEF Single
  <3>c. \A q \in Names \ {p} : pc'[q] = pc[q]
    BY <2>12 DEF SetAutoclear
  <3>d. \A q \in Names \ {p} : UsesImage(q)'
    BY <3>b, <3>c DEF UsesImage, InSetup, Setup, Building, Binding
  <3>u. UsesImage(p)'
    <4>1. /\ pc[p] = "auto" /\ pc'[p] = "mount" /\ UNCHANGED <<img, fd>>
          /\ dev' = [dev EXCEPT ![fd[p]] = [img |-> @.img, auto |-> TRUE]]
      BY <2>12 DEF SetAutoclear
    <4>2. fd[p] \in Devs /\ dev[fd[p]].img = img
      BY <3>h, <4>1 DEF LoopsInv, Users, Holding, UsesImage, Binding
    <4>3. QED
      BY <4>1, <4>2 DEF UsesImage, Building
  <3>m. MountsImage'
    BY <2>12, <3>b DEF MountsImage, Mounted, SetAutoclear
  <3>9. QED
    BY <3>d, <3>u, <3>m
<2>13. CASE AutoclearFails(p)
  <3> SUFFICES ASSUME ~raced' PROVE (\A q \in Names : UsesImage(q)') /\ MountsImage'
    BY DEF OneImage
  <3>h. ~raced /\ (\A q \in Names : UsesImage(q)) /\ MountsImage
    BY <2>13 DEF OneImage, AutoclearFails
  <3>a. pc[p] \in InSetup \ {"mkapp"}
    BY <2>13 DEF InSetup, Setup, Building, AutoclearFails
  <3>b. mounts = <<>> /\ \A q \in Names \ {p} : pc[q] \notin InSetup
    BY <3>a, <3>h DEF Single
  <3>c. \A q \in Names \ {p} : pc'[q] = pc[q]
    BY <2>13 DEF AutoclearFails
  <3>d. \A q \in Names \ {p} : UsesImage(q)'
    BY <3>b, <3>c DEF UsesImage, InSetup, Setup, Building, Binding
  <3>u. UsesImage(p)'
    BY <2>13 DEF AutoclearFails, UsesImage, Building, Binding
  <3>m. MountsImage'
    BY <2>13, <3>b DEF MountsImage, Mounted, AutoclearFails
  <3>9. QED
    BY <3>d, <3>u, <3>m
<2>14. CASE Mount(p)
  <3> SUFFICES ASSUME ~raced' PROVE (\A q \in Names : UsesImage(q)') /\ MountsImage'
    BY DEF OneImage
  <3>h. ~raced /\ (\A q \in Names : UsesImage(q)) /\ MountsImage
    BY <2>14 DEF OneImage, Mount
  <3>a. pc[p] \in InSetup \ {"mkapp"}
    BY <2>14 DEF InSetup, Setup, Building, Mount
  <3>b. mounts = <<>> /\ \A q \in Names \ {p} : pc[q] \notin InSetup
    BY <3>a, <3>h DEF Single
  <3>c. \A q \in Names \ {p} : pc'[q] = pc[q]
    BY <2>14 DEF Mount
  <3>d. \A q \in Names \ {p} : UsesImage(q)'
    BY <3>b, <3>c DEF UsesImage, InSetup, Setup, Building, Binding
  <3>1. /\ pc[p] = "mount" /\ pc'[p] = "mkapp" /\ mounts' = Append(mounts, fd[p])
        /\ UNCHANGED <<img, dev>>
    BY <2>14 DEF Mount
  <3>u. UsesImage(p)'
    BY <3>1 DEF UsesImage, Building, Binding
  <3>2. \A k \in 1 .. Len(mounts') : mounts'[k] = fd[p]
    <4>1. fd[p] \in Devs
      BY <3>1 DEF LoopsInv, Users, Holding
    <4>2. QED
      BY <3>1, <3>b, <4>1
  <3>m. MountsImage'
    BY <3>h, <3>1, <3>2 DEF MountsImage, Mounted, UsesImage, Binding
  <3>9. QED
    BY <3>d, <3>u, <3>m
<2>15. CASE MkAppdir(p)
  <3>1. Leave(p, "fork") /\ UNCHANGED <<img, content, raced>>
    BY <2>15 DEF MkAppdir
  <3>2. QED
    BY <3>1, <1>s, LeaveImage
<2>16. CASE Fork(p)
  <3>1. /\ \A q \in Names \ {p} : pc'[q] = pc[q] /\ fd'[q] = fd[q] /\ imgfd'[q] = imgfd[q]
        /\ UNCHANGED <<img, content, mounts, dev>> /\ (~raced' => ~raced)
    BY <2>16 DEF Fork
  <3>2. pc'[p] \notin Building \cup {"setfd"} \cup Binding
    BY <2>16 DEF Fork, Building, Binding
  <3>3. QED
    BY <3>1, <3>2, QuietImage
<2>17. CASE MkUpper(p)
  <3>1. /\ \A q \in Names \ {p} : pc'[q] = pc[q] /\ fd'[q] = fd[q] /\ imgfd'[q] = imgfd[q]
        /\ UNCHANGED <<img, content, mounts, dev>> /\ (~raced' => ~raced)
    BY <2>17 DEF MkUpper, MakesDir
  <3>2. pc'[p] \notin Building \cup {"setfd"} \cup Binding
    BY <2>17 DEF MkUpper, MakesDir, Building, Binding
  <3>3. QED
    BY <3>1, <3>2, QuietImage
<2>18. CASE MkWork(p)
  <3>1. /\ \A q \in Names \ {p} : pc'[q] = pc[q] /\ fd'[q] = fd[q] /\ imgfd'[q] = imgfd[q]
        /\ UNCHANGED <<img, content, mounts, dev>> /\ (~raced' => ~raced)
    BY <2>18 DEF MkWork, MakesDir
  <3>2. pc'[p] \notin Building \cup {"setfd"} \cup Binding
    BY <2>18 DEF MkWork, MakesDir, Building, Binding
  <3>3. QED
    BY <3>1, <3>2, QuietImage
<2>19. CASE MountOverlay(p)
  <3>1. /\ \A q \in Names \ {p} : pc'[q] = pc[q] /\ fd'[q] = fd[q] /\ imgfd'[q] = imgfd[q]
        /\ UNCHANGED <<img, content, mounts, dev>> /\ (~raced' => ~raced)
    BY <2>19 DEF MountOverlay
  <3>2. pc'[p] \notin Building \cup {"setfd"} \cup Binding
    BY <2>19 DEF MountOverlay, Building, Binding
  <3>3. QED
    BY <3>1, <3>2, QuietImage
<2>20. CASE Stop(p)
  <3>1. /\ \A q \in Names \ {p} : pc'[q] = pc[q] /\ fd'[q] = fd[q] /\ imgfd'[q] = imgfd[q]
        /\ UNCHANGED <<img, content, mounts, dev>> /\ (~raced' => ~raced)
    BY <2>20 DEF Stop
  <3>2. pc'[p] \notin Building \cup {"setfd"} \cup Binding
    BY <2>20 DEF Stop, Building, Binding
  <3>3. QED
    BY <3>1, <3>2, QuietImage
<2>21. QED
    BY <1>1, <2>1, <2>2, <2>3, <2>4, <2>5, <2>6, <2>7, <2>8, <2>9, <2>10, <2>11,
       <2>12, <2>13, <2>14, <2>15, <2>16, <2>17, <2>18, <2>19, <2>20 DEF Start
<1>2. ASSUME NEW p \in Names, Kill(p) PROVE OneImage'
  <2>1. Leave(p, "idle") /\ UNCHANGED <<img, content, raced>>
    BY <1>2 DEF Kill
  <2>2. QED
    BY <2>1, <1>s, LeaveImage
<1>3. ASSUME NEW p \in Names, NEW step \in Faulty, Fails(p, step) PROVE OneImage'
  <2>1. Leave(p, "failed") /\ UNCHANGED <<img, content, raced>>
    BY <1>3 DEF Fails
  <2>2. QED
    BY <2>1, <1>s, LeaveImage
<1>4. CASE Reboot
  BY <1>4 DEF Reboot, UsesImage, MountsImage, Mounted, Building, Binding
<1>5. CASE UNCHANGED vars
  BY <1>5 DEF vars, UsesImage, MountsImage, Mounted
<1>6. QED
  BY <1>1, <1>2, <1>3, <1>4, <1>5 DEF Next

\* Every step keeps the directories in that image.
LEMMA FilledStep == TypeOK /\ FilesInv /\ LoopsInv /\ OneImage /\ Filled /\ [Next]_vars => Filled'
<1> SUFFICES ASSUME TypeOK, FilesInv, LoopsInv, OneImage, Filled, [Next]_vars PROVE Filled'
  OBVIOUS
<1> USE DEF TypeOK, Filled, Goto, disk, loops, ghosts
<1>c. \A i \in Images : content[i] = "complete" => content'[i] = "complete"
  BY CompleteStays
<1>1. ASSUME NEW p \in Names, Start(p) PROVE Filled'
<2>1. CASE Detect(p)
  BY <2>1 DEF Detect, Over
<2>2. CASE CheckUpper(p)
  BY <2>2 DEF CheckUpper
<2>3. CASE UseProvisioned(p)
  BY <2>3 DEF UseProvisioned
<2>4. CASE EnsureMounted(p)
  BY <2>4 DEF EnsureMounted
<2>5. CASE SetupImg(p)
  BY <2>5 DEF SetupImg, ImageValid
<2>6. CASE CreateTmp(p)
  BY <2>6, <1>c DEF CreateTmp
<2>7. CASE WriteTmp(p)
  BY <2>7, <1>c DEF WriteTmp
<2>8. CASE Rename(p)
  <3> SUFFICES ASSUME ~raced' PROVE \A q \in Names, i \in Images : view[q] = None /\ dirs[i] = {}
    BY <2>8 DEF Rename
  <3>1. ~raced /\ pc[p] = "rename"
    BY <2>8 DEF Rename
  <3>2. img = None \/ content[img] = "short"
    BY <3>1 DEF OneImage, UsesImage, Building
  <3>3. QED
    BY <3>1, <3>2 DEF None, Images
<2>9. CASE FindFreeLoop(p)
  BY <2>9 DEF FindFreeLoop, FreeDevs
<2>10. CASE OpenFiles(p)
  BY <2>10 DEF OpenFiles
<2>11. CASE SetFd(p)
  BY <2>11 DEF SetFd, Leave
<2>12. CASE SetAutoclear(p)
  BY <2>12 DEF SetAutoclear
<2>13. CASE AutoclearFails(p)
  BY <2>13 DEF AutoclearFails
<2>14. CASE Mount(p)
  BY <2>14 DEF Mount
<2>15. CASE MkAppdir(p)
  <3>1. /\ UNCHANGED <<img, content, view, raced>>
        /\ \A i \in Images : dirs'[i] # {} => dirs[i] # {} \/ i = Top
    BY <2>15 DEF MkAppdir
  <3>2. ASSUME ~raced, NEW i \in Images, dirs'[i] # {} PROVE i = img /\ content[i] = "complete"
    <4>1. CASE dirs[i] # {}
      BY <3>2, <4>1
    <4>2. CASE i = Top
      <5>1. i # None
        BY DEF Images, None
      <5>2. QED
        BY <3>2, <4>2, <5>1, TopIsImage
    <4>3. QED
      BY <3>1, <3>2, <4>1, <4>2
  <3>3. QED
    BY <3>1, <3>2
<2>16. CASE Fork(p)
  <3>1. /\ UNCHANGED <<img, content, dirs, raced>>
        /\ \A q \in Names : view'[q] \in {view[q], Top}
    BY <2>16 DEF Fork
  <3>2. QED
    BY <3>1, TopIsImage
<2>17. CASE MkUpper(p)
  <3>1. /\ UNCHANGED <<img, content, view, raced>>
        /\ \A i \in Images : dirs'[i] # {} => dirs[i] # {} \/ i = view[p]
    BY <2>17 DEF MkUpper, MakesDir
  <3>2. ASSUME ~raced, NEW i \in Images, dirs'[i] # {} PROVE i = img /\ content[i] = "complete"
    <4>1. CASE dirs[i] # {}
      BY <3>2, <4>1
    <4>2. CASE i = view[p]
      <5>1. i # None
        BY DEF Images, None
      <5>2. QED
        BY <3>2, <4>2, <5>1
    <4>3. QED
      BY <3>1, <3>2, <4>1, <4>2
  <3>3. QED
    BY <3>1, <3>2
<2>18. CASE MkWork(p)
  <3>1. /\ UNCHANGED <<img, content, view, raced>>
        /\ \A i \in Images : dirs'[i] # {} => dirs[i] # {} \/ i = view[p]
    BY <2>18 DEF MkWork, MakesDir
  <3>2. ASSUME ~raced, NEW i \in Images, dirs'[i] # {} PROVE i = img /\ content[i] = "complete"
    <4>1. CASE dirs[i] # {}
      BY <3>2, <4>1
    <4>2. CASE i = view[p]
      <5>1. i # None
        BY DEF Images, None
      <5>2. QED
        BY <3>2, <4>2, <5>1
    <4>3. QED
      BY <3>1, <3>2, <4>1, <4>2
  <3>3. QED
    BY <3>1, <3>2
<2>19. CASE MountOverlay(p)
  BY <2>19 DEF MountOverlay
<2>20. CASE Stop(p)
  BY <2>20 DEF Stop
<2>21. QED
    BY <1>1, <2>1, <2>2, <2>3, <2>4, <2>5, <2>6, <2>7, <2>8, <2>9, <2>10, <2>11,
       <2>12, <2>13, <2>14, <2>15, <2>16, <2>17, <2>18, <2>19, <2>20 DEF Start
<1>2. ASSUME NEW p \in Names, Kill(p) PROVE Filled'
  BY <1>2 DEF Kill, Leave
<1>3. ASSUME NEW p \in Names, NEW step \in Faulty, Fails(p, step) PROVE Filled'
  BY <1>3 DEF Fails, Leave
<1>4. CASE Reboot
  BY <1>4 DEF Reboot
<1>5. CASE UNCHANGED vars
  BY <1>5 DEF vars
<1>6. QED
  BY <1>1, <1>2, <1>3, <1>4, <1>5 DEF Next

\* Something is seen at the loop directory as long as something is mounted.
LEMMA TopIsMounted ==
  ASSUME TypeOK, LoopsInv, Top = None
  PROVE  mounts = <<>>
<1> SUFFICES ASSUME mounts # <<>> PROVE FALSE
  OBVIOUS
<1>1. Len(mounts) \in 1 .. Len(mounts) /\ mounts[Len(mounts)] \in Devs
  BY DEF TypeOK
<1>2. Mounted(mounts[Len(mounts)])
  BY <1>1 DEF Mounted
<1>3. QED
  BY <1>1, <1>2 DEF LoopsInv, MountsBound, BoundComplete, Top

\* Every step keeps what a start that is alone can rely on.
LEMMA AloneStep == TypeOK /\ LoopsInv /\ Alone /\ [Next]_vars => Alone'
<1> SUFFICES ASSUME TypeOK, LoopsInv, Alone, [Next]_vars PROVE Alone'
  OBVIOUS
<1> USE DEF TypeOK, Alone, Active, Over, Goto, disk, loops, ghosts
<1>1. ASSUME NEW p \in Names, Start(p) PROVE Alone'
<2>1. CASE Detect(p)
  BY <2>1 DEF Detect, Over
<2>2. CASE CheckUpper(p)
  BY <2>2 DEF CheckUpper, UpperExists
<2>3. CASE UseProvisioned(p)
  BY <2>3 DEF UseProvisioned, OtherDevice
<2>4. CASE EnsureMounted(p)
  BY <2>4 DEF EnsureMounted, OtherDevice
<2>5. CASE SetupImg(p)
  BY <2>5 DEF SetupImg, ImageValid
<2>6. CASE CreateTmp(p)
  BY <2>6 DEF CreateTmp
<2>7. CASE WriteTmp(p)
  <3>1. /\ UNCHANGED <<bare, loops, view, foreign, clean>>
        /\ pc[p] \in {"sb", "rest"} /\ pc'[p] \in {"rest", "rename"}
        /\ \A q \in Names \ {p} : pc'[q] = pc[q]
    BY <2>7 DEF WriteTmp
  <3>2. QED
    BY <3>1
<2>8. CASE Rename(p)
  BY <2>8 DEF Rename
<2>9. CASE FindFreeLoop(p)
  BY <2>9 DEF FindFreeLoop, FreeDevs
<2>10. CASE OpenFiles(p)
  BY <2>10 DEF OpenFiles
<2>11. CASE SetFd(p)
  BY <2>11 DEF SetFd, Leave
<2>12. CASE SetAutoclear(p)
  BY <2>12 DEF SetAutoclear
<2>13. CASE AutoclearFails(p)
  BY <2>13 DEF AutoclearFails
<2>14. CASE Mount(p)
  BY <2>14 DEF Mount
<2>15. CASE MkAppdir(p)
  BY <2>15 DEF MkAppdir, Leave
<2>16. CASE Fork(p)
  BY <2>16, TopIsMounted DEF Fork
<2>17. CASE MkUpper(p)
  BY <2>17 DEF MkUpper, MakesDir
<2>18. CASE MkWork(p)
  BY <2>18 DEF MkWork, MakesDir
<2>19. CASE MountOverlay(p)
  BY <2>19 DEF MountOverlay
<2>20. CASE Stop(p)
  BY <2>20 DEF Stop
<2>21. QED
    BY <1>1, <2>1, <2>2, <2>3, <2>4, <2>5, <2>6, <2>7, <2>8, <2>9, <2>10, <2>11,
       <2>12, <2>13, <2>14, <2>15, <2>16, <2>17, <2>18, <2>19, <2>20 DEF Start
<1>2. ASSUME NEW p \in Names, Kill(p) PROVE Alone'
  BY <1>2 DEF Kill, Leave
<1>3. ASSUME NEW p \in Names, NEW step \in Faulty, Fails(p, step) PROVE Alone'
  <2>1. Active(p) /\ UNCHANGED bare
    BY <1>3 DEF Fails, Faulty, Building
  <2>2. clean' = {}
    BY <1>3, <2>1 DEF Fails
  <2>3. QED
    BY <2>2
<1>4. CASE Reboot
  BY <1>4 DEF Reboot
<1>5. CASE UNCHANGED vars
  BY <1>5 DEF vars
<1>6. QED
  BY <1>1, <1>2, <1>3, <1>4, <1>5 DEF Next

\* Every step keeps a lone start from failing needlessly.
LEMMA RecoversStep == TypeOK /\ Alone /\ Recovers /\ [Next]_vars => Recovers'
<1> SUFFICES ASSUME TypeOK, Alone, Recovers, [Next]_vars PROVE Recovers'
  OBVIOUS
<1> USE DEF TypeOK, Alone, Recovers, Active, Over, Goto, HalfMade, FreeDevs, disk, loops, ghosts
<1>1. ASSUME NEW p \in Names, Start(p) PROVE Recovers'
<2>1. CASE Detect(p)
  BY <2>1 DEF Detect, Over
<2>2. CASE CheckUpper(p)
  BY <2>2 DEF CheckUpper
<2>3. CASE UseProvisioned(p)
  BY <2>3 DEF UseProvisioned, OtherDevice
<2>4. CASE EnsureMounted(p)
  BY <2>4 DEF EnsureMounted, OtherDevice
<2>5. CASE SetupImg(p)
  BY <2>5 DEF SetupImg, ImageValid
<2>6. CASE CreateTmp(p)
  BY <2>6 DEF CreateTmp
<2>7. CASE WriteTmp(p)
  BY <2>7 DEF WriteTmp
<2>8. CASE Rename(p)
  BY <2>8 DEF Rename
<2>9. CASE FindFreeLoop(p)
  BY <2>9 DEF FindFreeLoop, FreeDevs
<2>10. CASE OpenFiles(p)
  BY <2>10 DEF OpenFiles
<2>11. CASE SetFd(p)
  BY <2>11 DEF SetFd, Leave
<2>12. CASE SetAutoclear(p)
  BY <2>12 DEF SetAutoclear
<2>13. CASE AutoclearFails(p)
  BY <2>13 DEF AutoclearFails
<2>14. CASE Mount(p)
  BY <2>14 DEF Mount
<2>15. CASE MkAppdir(p)
  BY <2>15 DEF MkAppdir, Leave
<2>16. CASE Fork(p)
  BY <2>16 DEF Fork
<2>17. CASE MkUpper(p)
  BY <2>17 DEF MkUpper, MakesDir
<2>18. CASE MkWork(p)
  BY <2>18 DEF MkWork, MakesDir
<2>19. CASE MountOverlay(p)
  BY <2>19 DEF MountOverlay
<2>20. CASE Stop(p)
  BY <2>20 DEF Stop
<2>21. QED
    BY <1>1, <2>1, <2>2, <2>3, <2>4, <2>5, <2>6, <2>7, <2>8, <2>9, <2>10, <2>11,
       <2>12, <2>13, <2>14, <2>15, <2>16, <2>17, <2>18, <2>19, <2>20 DEF Start
<1>2. ASSUME NEW p \in Names, Kill(p) PROVE Recovers'
  BY <1>2 DEF Kill, Leave
<1>3. ASSUME NEW p \in Names, NEW step \in Faulty, Fails(p, step) PROVE Recovers'
  <2>1. Active(p) /\ UNCHANGED bare
    BY <1>3 DEF Fails, Faulty, Building
  <2>2. clean' = {}
    BY <1>3, <2>1 DEF Fails
  <2>3. QED
    BY <2>2
<1>4. CASE Reboot
  BY <1>4 DEF Reboot
<1>5. CASE UNCHANGED vars
  BY <1>5 DEF vars
<1>6. QED
  BY <1>1, <1>2, <1>3, <1>4, <1>5 DEF Next

-----------------------------------------------------------------------------
\* The same holds of every disk to start from.
LEMMA InitKept == Init => KeptInv /\ Alone /\ Recovers
BY DEF Init, KeptInv, Single, OneImage, UsesImage, MountsImage, Filled, Alone, Recovers, InSetup, Setup, Building, Binding, Mounted, None

\* As long as no two starts have set up the mount together, every directory a
\* container was given lies in the image that is mounted again after a reboot:
\* no rename of build_ext4_img replaces it.
THEOREM DirectoriesPersist == Spec => []Persistent
<1>1. IInv /\ KeptInv /\ [Next]_vars => KeptInv'
  BY SingleStep, OneImageStep, FilledStep DEF IInv, KeptInv
<1>2. KeptInv => Persistent
  BY DEF KeptInv, Filled, Persistent
<1>3. Init => KeptInv
  BY InitKept
<1>4. QED
  BY Inductive, <1>1, <1>2, <1>3, PTL DEF Spec

\* Whatever was left behind by kills, reboots and failures, a start that is
\* alone and meets no failing call does not fail in handle_same_fs, but for
\* the five conditions that Recovers names.
THEOREM StartsRecover == Spec => []Recovers
<1>1. IInv /\ Alone /\ Recovers /\ [Next]_vars => (Alone /\ Recovers)'
  BY AloneStep, RecoversStep DEF IInv
<1>2. Init => Alone /\ Recovers
  BY InitKept
<1>3. QED
  BY Inductive, <1>1, <1>2, PTL DEF Spec

-----------------------------------------------------------------------------
(***************************************************************************)
(* The image itself (Ext4Image): what ext4_create_img keeps is sound, for  *)
(* every geometry that fits together as that of ext4/util.h does.  Each    *)
(* group has its first blocks in use and no others (Marked), so the counts *)
(* can be compared; the structures of a group are in zones that lie one    *)
(* behind the other (Lying, ZonesApart), and groups do not reach into each *)
(* other.                                                                  *)
(***************************************************************************)

(* Arithmetic.                                                             *)

\* Multiples of n are n apart at least.
LEMMA Multiples ==
  ASSUME NEW x \in Nat, NEW y \in Nat, NEW n \in Nat, x < y
  PROVE  x * n + n <= y * n
<1>1. PICK d \in Nat : y = x + 1 + d
  <2>1. y - x - 1 \in Nat /\ y = x + 1 + (y - x - 1)
    OBVIOUS
  <2>2. QED
    BY <2>1
<1>2. y * n = x * n + n + d * n
  BY <1>1
<1>3. d * n \in Nat /\ x * n \in Nat
  OBVIOUS
<1>4. QED
  BY <1>2, <1>3

LEMMA Division ==
  ASSUME NEW a \in Nat, NEW n \in Nat \ {0}
  PROVE  /\ a \div n \in Nat /\ (a \div n) * n <= a /\ a < (a \div n) * n + n
         /\ a % n = a - (a \div n) * n
  OBVIOUS

\* The multiple of n below a number, and what is left, are unique.
LEMMA Quotient ==
  ASSUME NEW q \in Nat, NEW n \in Nat \ {0}, NEW r \in Nat, r < n
  PROVE  (q * n + r) \div n = q /\ (q * n + r) % n = r
<1>1. PICK a \in Nat : a = q * n + r
  <2>1. q * n \in Nat
    OBVIOUS
  <2>2. QED
    BY <2>1
<1>2. PICK x \in Nat : x = a \div n
  BY Division
<1>3. x * n <= a /\ a < x * n + n /\ a % n = a - x * n
  BY <1>2, Division
<1>4. ~(x < q) /\ ~(q < x)
  <2>1. x < q => x * n + n <= q * n
    BY Multiples
  <2>2. q < x => q * n + n <= x * n
    BY Multiples
  <2>3. x * n \in Nat /\ q * n \in Nat
    OBVIOUS
  <2>4. QED
    BY <1>1, <1>3, <2>1, <2>2, <2>3
<1>5. x = q
  BY <1>4
<1>6. QED
  BY <1>1, <1>2, <1>3, <1>5

-----------------------------------------------------------------------------
(* Groups and flex groups.                                                 *)

Sizes ==
  /\ {GROUPS, BLOCKS, BLKS_PER_GRP, FLEX_GRP_SIZE, IT_BLKS_PER_GRP, RESERVED_GDT, FLEX_META,
      Journal} \subseteq Nat \ {0}
  /\ FLEX_META = 2 * FLEX_GRP_SIZE + FLEX_GRP_SIZE * IT_BLKS_PER_GRP
  /\ GROUPS = 5 * FLEX_GRP_SIZE /\ FLEX_GRP_SIZE >= 2
  /\ BLKS_PER_GRP < 65536
  /\ RESERVED_GDT + FLEX_META + 5 <= BLKS_PER_GRP /\ FLEX_META + Journal <= BLKS_PER_GRP
LEMMA Geometry == Sizes
<1>1. FLEX_GRP_SIZE * IT_BLKS_PER_GRP \in Nat
  BY Ext4Assumption
<1>2. FLEX_META \in Nat \ {0}
  BY <1>1, Ext4Assumption DEF FLEX_META
<1>3. FLEX_GRP_SIZE >= 2
  BY Ext4Assumption, GeometryAssumption
<1>4. RESERVED_GDT + FLEX_META + 5 <= BLKS_PER_GRP
  BY <1>2, Ext4Assumption, GeometryAssumption DEF RESV_GDT_BLKS
<1>5. QED
  BY <1>2, <1>3, <1>4, Ext4Assumption, GeometryAssumption DEF Sizes, FLEX_META

\* The first group of a flex group is a multiple of the flex group's size.
LEMMA Flex ==
  ASSUME NEW g \in Groups
  PROVE  \E q \in 0 .. 4 : /\ GrpFlexFirst(g) = q * FLEX_GRP_SIZE
                           /\ q * FLEX_GRP_SIZE <= g /\ g < q * FLEX_GRP_SIZE + FLEX_GRP_SIZE
<1>1. Sizes
  BY Geometry
<1>2. g \in Nat /\ g < GROUPS /\ FLEX_GRP_SIZE \in Nat \ {0}
  BY <1>1 DEF Sizes, Groups
<1> DEFINE q == g \div FLEX_GRP_SIZE
<1>3. q \in Nat /\ q * FLEX_GRP_SIZE <= g /\ g < q * FLEX_GRP_SIZE + FLEX_GRP_SIZE
  BY <1>2, Division
<1> HIDE DEF q
<1>4. 5 <= q => 5 * FLEX_GRP_SIZE <= q * FLEX_GRP_SIZE
  <2>1. 5 < q => 5 * FLEX_GRP_SIZE + FLEX_GRP_SIZE <= q * FLEX_GRP_SIZE
    BY <1>2, <1>3, Multiples
  <2>2. QED
    BY <1>2, <1>3, <2>1
<1>5. q \in 0 .. 4
  BY <1>1, <1>2, <1>3, <1>4 DEF Sizes
<1>6. QED
  BY <1>3, <1>5 DEF GrpFlexFirst, q

\* A group that is a multiple is the first of its own flex group.
LEMMA FlexFirst ==
  ASSUME NEW q \in 0 .. 4, NEW i \in Nat, i < FLEX_GRP_SIZE
  PROVE  /\ q * FLEX_GRP_SIZE + i \in Groups
         /\ GrpFlexFirst(q * FLEX_GRP_SIZE + i) = q * FLEX_GRP_SIZE
<1>1. Sizes
  BY Geometry
<1>2. (q * FLEX_GRP_SIZE + i) \div FLEX_GRP_SIZE = q
  <2>1. q \in Nat /\ FLEX_GRP_SIZE \in Nat \ {0}
    BY <1>1 DEF Sizes
  <2>2. QED
    BY <2>1, Quotient
<1>3. q * FLEX_GRP_SIZE + i \in Groups
  BY <1>1 DEF Sizes, Groups
<1>4. QED
  BY <1>2, <1>3 DEF GrpFlexFirst

LEMMA LastFlex == JnlGroup = 4 * FLEX_GRP_SIZE
<1>1. Sizes
  BY Geometry
<1>2. GROUPS - 1 = 4 * FLEX_GRP_SIZE + (FLEX_GRP_SIZE - 1) /\ FLEX_GRP_SIZE - 1 \in Nat
  BY <1>1 DEF Sizes
<1>3. QED
  BY <1>1, <1>2, FlexFirst DEF Sizes, JnlGroup

\* A group with a backup has no metadata of its own: it is odd or group 1,
\* and flex groups have an even size.
LEMMA BackupFacts ==
  /\ Backups \subseteq Groups /\ Backups \subseteq Nat /\ 0 \notin Backups /\ 1 \in Backups
  /\ \A g \in Backups : g # GrpFlexFirst(g)
  /\ \A g \in Groups : HasSuper(g) /\ g # GrpFlexFirst(g) <=> g \in Backups
<1>1. Sizes
  BY Geometry
<1>2. 1 \in Backups
  BY <1>1 DEF Sizes, Backups, HasSuper, Groups
<1>3. ASSUME NEW g \in Backups PROVE g # GrpFlexFirst(g)
  <2>1. g \in Groups /\ g # 0 /\ (g = 1 \/ g % 2 = 1)
    BY DEF Backups, HasSuper, Groups
  <2>2. PICK q \in 0 .. 4 : GrpFlexFirst(g) = q * FLEX_GRP_SIZE
    BY <2>1, Flex
  <2>3. PICK k \in Nat : FLEX_GRP_SIZE = 2 * k
    <3>1. FLEX_GRP_SIZE \in Nat /\ FLEX_GRP_SIZE % 2 = 0
      BY Ext4Assumption, GeometryAssumption
    <3>2. QED
      BY <3>1
  <2>4. (q * FLEX_GRP_SIZE) % 2 = 0
    <3>1. q * FLEX_GRP_SIZE = (q * k) * 2 + 0 /\ q * k \in Nat
      BY <2>3
    <3>2. QED
      BY <3>1, Quotient
  <2>5. QED
    BY <2>1, <2>2, <2>4
<1>4. GrpFlexFirst(0) = 0
  BY <1>1, FlexFirst DEF Sizes
<1>5. \A g \in Groups : HasSuper(g) /\ g # GrpFlexFirst(g) <=> g \in Backups
  BY <1>3, <1>4 DEF Backups
<1>6. Backups \subseteq Nat
  BY <1>1 DEF Backups, Groups, Sizes
<1>7. QED
  BY <1>2, <1>3, <1>5, <1>6 DEF Backups
-----------------------------------------------------------------------------
(* Bitmaps and counts.                                                     *)

\* What the first group of a flex group, and one with a backup, has in use.
Used(g) ==
  IF g = 0 THEN RESERVED_GDT + FLEX_META + 5
  ELSE IF g = 4 * FLEX_GRP_SIZE THEN FLEX_META + Journal
  ELSE IF g = GrpFlexFirst(g) THEN FLEX_META
  ELSE IF g \in Backups THEN 3 + RESERVED_GDT ELSE 0

LEMMA UsedType == \A g \in Groups : Used(g) \in 0 .. BLKS_PER_GRP
  BY Geometry DEF Sizes, Used

\* Group 0 and that of the journal are first ones.
LEMMA FirstGroups ==
  /\ 0 \in Groups /\ GrpFlexFirst(0) = 0
  /\ 4 * FLEX_GRP_SIZE \in Groups /\ GrpFlexFirst(4 * FLEX_GRP_SIZE) = 4 * FLEX_GRP_SIZE
  /\ 4 * FLEX_GRP_SIZE # 0
<1>1. Sizes
  BY Geometry
<1>2. \A q \in 0 .. 4 : /\ q * FLEX_GRP_SIZE + 0 \in Groups
                        /\ GrpFlexFirst(q * FLEX_GRP_SIZE + 0) = q * FLEX_GRP_SIZE
  BY <1>1, FlexFirst DEF Sizes
<1>3. 0 * FLEX_GRP_SIZE = 0 /\ 4 * FLEX_GRP_SIZE + 0 = 4 * FLEX_GRP_SIZE
      /\ 4 * FLEX_GRP_SIZE # 0 /\ 0 * FLEX_GRP_SIZE + 0 = 0
  BY <1>1 DEF Sizes
<1>4. QED
  BY <1>2, <1>3

\* gdt_count_used counts what the bitmap marks: the first blocks of the group.
LEMMA Counted == \A g \in Groups : GdtCountUsed(g) = Used(g)
<1> SUFFICES ASSUME NEW g \in Groups PROVE GdtCountUsed(g) = Used(g)
  OBVIOUS
<1>1. Sizes /\ g \in Nat /\ JnlGroup = 4 * FLEX_GRP_SIZE
  BY Geometry, LastFlex DEF Groups
<1>2. g = GrpFlexFirst(g) => GrpFlexBase(g) + FLEX_META - g * BLKS_PER_GRP = FLEX_META
  <2>1. g * BLKS_PER_GRP \in Nat
    BY <1>1 DEF Sizes
  <2>2. QED
    BY <1>1, <2>1 DEF Sizes, GrpFlexBase
<1>3. HasSuper(g) /\ g # GrpFlexFirst(g) <=> g \in Backups
  BY BackupFacts
<1>4. QED
  BY <1>1, <1>2, <1>3, FirstGroups DEF Sizes, GdtCountUsed, Used, RESV_GDT_BLKS

LEMMA Marked == \A g \in Groups : Marks(g) = 0 .. Used(g) - 1
<1> SUFFICES ASSUME NEW g \in Groups PROVE Marks(g) = 0 .. Used(g) - 1
  OBVIOUS
<1>1. Sizes /\ g \in Nat /\ JnlGroup = 4 * FLEX_GRP_SIZE
  BY Geometry, LastFlex DEF Groups
<1>2. HasSuper(g) /\ g # GrpFlexFirst(g) <=> g \in Backups
  BY BackupFacts
<1>3. g = JnlGroup => JnlStart - g * BLKS_PER_GRP = FLEX_META
  <2>1. g * BLKS_PER_GRP \in Nat
    BY <1>1 DEF Sizes
  <2>2. QED
    BY <1>1, <2>1 DEF Sizes, JnlStart
<1> DEFINE Super == IF g = 0 THEN (0 .. RESV_GDT_BLKS + FLEX_META - 1) \cup {RootBlk, DindirBlk} ELSE {}
           Meta == IF g # 0 /\ g = GrpFlexFirst(g) THEN 0 .. FLEX_META - 1 ELSE {}
           Backup == IF HasSuper(g) /\ g # GrpFlexFirst(g) THEN 0 .. 2 + RESERVED_GDT ELSE {}
           Jnl == IF g = JnlGroup
                  THEN (JnlStart - g * BLKS_PER_GRP) .. (JnlStart - g * BLKS_PER_GRP + Journal - 1)
                  ELSE {}
<1>4. Marks(g) = Super \cup Meta \cup Backup \cup Jnl
  BY Zenon DEF Marks
<1>5. Jnl = IF g = JnlGroup THEN FLEX_META .. FLEX_META + Journal - 1 ELSE {}
  BY <1>3
<1>6. g = 0 => Super = 0 .. RESERVED_GDT + FLEX_META + 4
  BY <1>1 DEF Sizes, RootBlk, DindirBlk, RESV_GDT_BLKS
<1> HIDE DEF Jnl
<1>7. CASE g = 0
  <2>1. g # JnlGroup /\ g = GrpFlexFirst(g)
    BY <1>1, <1>7, FirstGroups
  <2>2. Jnl = {} /\ Meta = {} /\ Backup = {}
    BY <1>5, <1>7, <2>1
  <2>3. QED
    BY <1>1, <1>4, <1>6, <1>7, <2>2 DEF Used, Sizes
<1>8. CASE g # 0 /\ g = 4 * FLEX_GRP_SIZE
  <2>1. g = GrpFlexFirst(g)
    BY <1>8, FirstGroups
  <2>2. Super = {} /\ Backup = {} /\ Meta = 0 .. FLEX_META - 1
        /\ Jnl = FLEX_META .. FLEX_META + Journal - 1
    BY <1>1, <1>5, <1>8, <2>1
  <2>3. Marks(g) = (0 .. FLEX_META - 1) \cup (FLEX_META .. FLEX_META + Journal - 1)
    BY <1>4, <2>2
  <2>4. Used(g) = FLEX_META + Journal
    BY <1>8 DEF Used
  <2>5. \A m, j \in Nat \ {0} : (0 .. m - 1) \cup (m .. m + j - 1) = 0 .. m + j - 1
    OBVIOUS
  <2>6. FLEX_META \in Nat \ {0} /\ Journal \in Nat \ {0}
    BY <1>1 DEF Sizes
  <2>7. QED
    BY <2>3, <2>4, <2>5, <2>6
<1>9. CASE g # 0 /\ g # 4 * FLEX_GRP_SIZE
  <2>1. Super = {} /\ Jnl = {}
    BY <1>1, <1>5, <1>9
  <2>2. QED
    BY <1>1, <1>2, <1>4, <1>9, <2>1 DEF Used, Sizes
<1>10. QED
  BY <1>7, <1>8, <1>9

\* A free count fits its 16 bits.
LEMMA FreeFits ==
  ASSUME NEW u \in Nat, NEW b \in Nat, u <= b, b < 65536
  PROVE  (IF u < b THEN (b - u) % 65536 ELSE 0) = b - u
  OBVIOUS

\* The bitmaps agree with the descriptors.
LEMMA GroupCounts ==
  ASSUME NEW g \in Groups
  PROVE  /\ Bitmap[g] = Marks(g) /\ Bitmap[g] \subseteq 0 .. BLKS_PER_GRP - 1
         /\ GdtFree(g) = BLKS_PER_GRP - Used(g)
         /\ Cardinality(Bitmap[g]) = Used(g)
         /\ BlockUninit(g) => Bitmap[g] = {}
         /\ GdtFreeInodes(g) = INODES_PER_GRP - Cardinality(InodeMarks(g))
<1>1. Sizes /\ g \in Nat /\ Used(g) \in 0 .. BLKS_PER_GRP
  BY Geometry, UsedType DEF Groups
<1>2. Bitmap[g] = Marks(g) /\ Marks(g) = 0 .. Used(g) - 1 /\ GdtCountUsed(g) = Used(g)
  BY Marked, Counted DEF Bitmap
<1>3. Cardinality(Marks(g)) = Used(g)
  <2>1. PICK m \in Int, n \in Int : m = 0 /\ n = Used(g) - 1
    BY <1>1
  <2>2. Cardinality(m .. n) = IF m > n THEN 0 ELSE n - m + 1
    BY FS_Interval
  <2>3. (IF m > n THEN 0 ELSE n - m + 1) = Used(g)
    BY <1>1, <2>1
  <2>4. QED
    BY <1>2, <2>1, <2>2, <2>3
<1>4. GdtFree(g) = BLKS_PER_GRP - Used(g)
  <2>1. BLOCKS - (GROUPS - 1) * BLKS_PER_GRP = BLKS_PER_GRP
    <3>1. PICK k \in Nat : GROUPS = k + 1
      <4>1. GROUPS - 1 \in Nat /\ GROUPS = (GROUPS - 1) + 1
        BY <1>1 DEF Sizes
      <4>2. QED
        BY <4>1
    <3>2. BLKS_PER_GRP \in Nat /\ GROUPS - 1 = k
      BY <1>1, <3>1 DEF Sizes
    <3>3. (k + 1) * BLKS_PER_GRP = k * BLKS_PER_GRP + BLKS_PER_GRP /\ k * BLKS_PER_GRP \in Nat
      BY <3>2
    <3>4. BLOCKS = k * BLKS_PER_GRP + BLKS_PER_GRP
      BY <3>1, <3>3, GeometryAssumption
    <3>5. QED
      BY <3>2, <3>3, <3>4
  <2>2. g < GROUPS - 1 \/ g = GROUPS - 1
    BY <1>1 DEF Sizes, Groups
  <2> DEFINE size == IF g < GROUPS - 1 THEN BLKS_PER_GRP ELSE BLOCKS - g * BLKS_PER_GRP
  <2>3. size = BLKS_PER_GRP
    BY <2>1, <2>2
  <2>4. GdtFree(g) = IF GdtCountUsed(g) < size THEN (size - GdtCountUsed(g)) % 65536 ELSE 0
    BY DEF GdtFree
  <2> HIDE DEF size
  <2>5. QED
    <3>1. BLKS_PER_GRP \in Nat /\ BLKS_PER_GRP < 65536 /\ Used(g) \in Nat /\ Used(g) <= BLKS_PER_GRP
      BY <1>1 DEF Sizes
    <3>2. QED
      BY <1>2, <2>3, <2>4, <3>1, FreeFits
<1>5. BlockUninit(g) => Bitmap[g] = {}
  BY <1>2 DEF BlockUninit
<1>6. GdtFreeInodes(g) = INODES_PER_GRP - Cardinality(InodeMarks(g))
  <2>1. Cardinality((1 .. 10) \cup {12}) = 11
    <3>1. IsFiniteSet(1 .. 10) /\ Cardinality(1 .. 10) = 10
      <4>1. PICK m \in Int, n \in Int : m = 1 /\ n = 10
        OBVIOUS
      <4>2. IsFiniteSet(m .. n) /\ Cardinality(m .. n) = IF m > n THEN 0 ELSE n - m + 1
        BY FS_Interval
      <4>3. QED
        BY <4>1, <4>2
    <3>2. PICK S, x : S = 1 .. 10 /\ x = 12
      OBVIOUS
    <3>3. x \notin S
      BY <3>2
    <3>4. Cardinality(S \cup {x}) = IF x \in S THEN Cardinality(S) ELSE Cardinality(S) + 1
      BY <3>1, <3>2, FS_AddElement
    <3>5. QED
      BY <3>1, <3>2, <3>3, <3>4
  <2>2. Cardinality({}) = 0
    BY FS_EmptySet
  <2>3. INODES_PER_GRP \in Nat
    BY Ext4Assumption
  <2>4. QED
    BY <2>1, <2>2, <2>3 DEF GdtFreeInodes, InodeMarks
<1>7. Bitmap[g] \subseteq 0 .. BLKS_PER_GRP - 1
  <2>1. BLKS_PER_GRP \in Nat
    BY <1>1 DEF Sizes
  <2>2. QED
    BY <1>1, <1>2, <2>1
<1>8. QED
  BY <1>2, <1>3, <1>4, <1>5, <1>6, <1>7
-----------------------------------------------------------------------------
(* The total of the superblock.                                            *)

\* The backups in the first k groups, and what these groups have in use.
Copies(k) == {g \in Backups : g < k}
InUse(k) ==
  (IF k > 0 THEN RESERVED_GDT + FLEX_META + 5 ELSE 0)
    + (IF k > FLEX_GRP_SIZE THEN FLEX_META ELSE 0)
    + (IF k > 2 * FLEX_GRP_SIZE THEN FLEX_META ELSE 0)
    + (IF k > 3 * FLEX_GRP_SIZE THEN FLEX_META ELSE 0)
    + (IF k > 4 * FLEX_GRP_SIZE THEN FLEX_META + Journal ELSE 0)
    + Cardinality(Copies(k)) * (3 + RESERVED_GDT)

LEMMA CopiesType == \A k \in Nat : IsFiniteSet(Copies(k)) /\ Cardinality(Copies(k)) \in Nat
<1> SUFFICES ASSUME NEW k \in Nat PROVE IsFiniteSet(Copies(k)) /\ Cardinality(Copies(k)) \in Nat
  OBVIOUS
<1>1. Copies(k) \in SUBSET Nat /\ \A g \in Copies(k) : g <= k
  <2>1. \A g \in Backups : g \in Nat
    BY BackupFacts
  <2>2. \A g \in Copies(k) : g \in Nat /\ g <= k
    BY <2>1 DEF Copies
  <2>3. QED
    BY <2>2
<1>2. QED
  BY <1>1, FS_BoundedSetOfNaturals, FS_CardinalityType

LEMMA CopiesStep ==
  ASSUME NEW k \in Nat
  PROVE  Cardinality(Copies(k + 1)) = Cardinality(Copies(k)) + (IF k \in Backups THEN 1 ELSE 0)
<1>1. Copies(k + 1) = IF k \in Backups THEN Copies(k) \cup {k} ELSE Copies(k)
  <2>1. \A g \in Backups : g \in Nat
    BY BackupFacts
  <2>2. QED
    BY <2>1 DEF Copies
<1>2. k \notin Copies(k) /\ IsFiniteSet(Copies(k)) /\ Cardinality(Copies(k)) \in Nat
  BY CopiesType DEF Copies
<1>3. Cardinality(Copies(k) \cup {k}) = Cardinality(Copies(k)) + 1
  BY <1>2, FS_AddElement
<1>4. QED
  BY <1>1, <1>2, <1>3

\* Only the multiples are first in their flex group.
LEMMA Multiple ==
  ASSUME NEW g \in Groups
  PROVE  g = GrpFlexFirst(g) <=>
           g \in {0, FLEX_GRP_SIZE, 2 * FLEX_GRP_SIZE, 3 * FLEX_GRP_SIZE, 4 * FLEX_GRP_SIZE}
<1>1. Sizes
  BY Geometry
<1>2. g = GrpFlexFirst(g) => \E q \in 0 .. 4 : g = q * FLEX_GRP_SIZE
  BY Flex
<1>3. \A q \in 0 .. 4 : GrpFlexFirst(q * FLEX_GRP_SIZE + 0) = q * FLEX_GRP_SIZE
  BY <1>1, FlexFirst DEF Sizes
<1>4. ASSUME NEW q \in 0 .. 4
      PROVE  q * FLEX_GRP_SIZE + 0 = q * FLEX_GRP_SIZE
             /\ q * FLEX_GRP_SIZE \in
                  {0, FLEX_GRP_SIZE, 2 * FLEX_GRP_SIZE, 3 * FLEX_GRP_SIZE, 4 * FLEX_GRP_SIZE}
  BY <1>1 DEF Sizes
<1>5. g \in {0, FLEX_GRP_SIZE, 2 * FLEX_GRP_SIZE, 3 * FLEX_GRP_SIZE, 4 * FLEX_GRP_SIZE}
      => \E q \in 0 .. 4 : g = q * FLEX_GRP_SIZE
  BY <1>1 DEF Sizes
<1>6. QED
  BY <1>2, <1>3, <1>4, <1>5

LEMMA InUseStep ==
  ASSUME NEW k \in Groups
  PROVE  InUse(k + 1) = InUse(k) + Used(k)
<1>1. Sizes /\ k \in Nat
  BY Geometry DEF Groups
<1>2. k = GrpFlexFirst(k) <=>
        k \in {0, FLEX_GRP_SIZE, 2 * FLEX_GRP_SIZE, 3 * FLEX_GRP_SIZE, 4 * FLEX_GRP_SIZE}
  BY Multiple
<1>3. k \in Backups => k # GrpFlexFirst(k)
  BY BackupFacts
<1>4. PICK c \in Nat : c = Cardinality(Copies(k))
  BY <1>1, CopiesType
<1>5. PICK d \in Nat : d = c * (3 + RESERVED_GDT)
  <2>1. c * (3 + RESERVED_GDT) \in Nat
    BY <1>1 DEF Sizes
  <2>2. QED
    BY <2>1
<1>6. Cardinality(Copies(k + 1)) * (3 + RESERVED_GDT)
        = d + (IF k \in Backups THEN 3 + RESERVED_GDT ELSE 0)
  <2>1. Cardinality(Copies(k + 1)) = c + (IF k \in Backups THEN 1 ELSE 0)
    BY <1>1, <1>4, CopiesStep
  <2>2. (c + 1) * (3 + RESERVED_GDT) = d + (3 + RESERVED_GDT)
    BY <1>1, <1>5 DEF Sizes
  <2>3. QED
    BY <1>1, <1>5, <2>1, <2>2 DEF Sizes
<1>7. CASE k \in Backups
  <2>1. k \notin {0, FLEX_GRP_SIZE, 2 * FLEX_GRP_SIZE, 3 * FLEX_GRP_SIZE, 4 * FLEX_GRP_SIZE}
    BY <1>2, <1>3, <1>7
  <2>2. Used(k) = 3 + RESERVED_GDT
    BY <1>3, <1>7, <2>1 DEF Used
  <2>3. k > 0 /\ \A m \in {1, 2, 3, 4} : k + 1 > m * FLEX_GRP_SIZE <=> k > m * FLEX_GRP_SIZE
    BY <1>1, <2>1 DEF Sizes
  <2>4. k + 1 > FLEX_GRP_SIZE <=> k > FLEX_GRP_SIZE
    BY <1>1, <2>1 DEF Sizes
  <2>5. Cardinality(Copies(k)) * (3 + RESERVED_GDT) = d
    BY <1>4, <1>5
  <2>6. FLEX_META \in Nat /\ Journal \in Nat /\ RESERVED_GDT \in Nat
    BY <1>1 DEF Sizes
  <2>7. QED
    BY <1>1, <1>5, <1>6, <1>7, <2>2, <2>3, <2>4, <2>5, <2>6 DEF InUse
<1>8. CASE k \notin Backups
  <2>1. Cardinality(Copies(k + 1)) * (3 + RESERVED_GDT) = d
    BY <1>6, <1>8
  <2>2. Cardinality(Copies(k)) * (3 + RESERVED_GDT) = d
    BY <1>4, <1>5
  <2>3. /\ FLEX_META \in Nat /\ Journal \in Nat /\ RESERVED_GDT \in Nat
        /\ FLEX_GRP_SIZE \in Nat /\ FLEX_GRP_SIZE # 0
    BY <1>1 DEF Sizes
  <2>4. Used(k) = IF k = 0 THEN RESERVED_GDT + FLEX_META + 5
                  ELSE IF k = 4 * FLEX_GRP_SIZE THEN FLEX_META + Journal
                  ELSE IF k \in {FLEX_GRP_SIZE, 2 * FLEX_GRP_SIZE, 3 * FLEX_GRP_SIZE}
                  THEN FLEX_META ELSE 0
    BY <1>2, <1>8 DEF Used
  <2>5. QED
    BY <1>1, <1>5, <2>1, <2>2, <2>3, <2>4 DEF InUse
<1>9. QED
  BY <1>7, <1>8

LEMMA InUseType == \A k \in Nat : InUse(k) \in Nat
<1> SUFFICES ASSUME NEW k \in Nat PROVE InUse(k) \in Nat
  OBVIOUS
<1>1. Sizes
  BY Geometry
<1>2. Cardinality(Copies(k)) * (3 + RESERVED_GDT) \in Nat
  BY <1>1, CopiesType DEF Sizes
<1>3. QED
  BY <1>1, <1>2 DEF InUse, Sizes
LEMMA NoneBefore == InUse(0) = 0
<1>1. Copies(0) = {}
  <2>1. \A g \in Backups : g \in Nat
    BY BackupFacts
  <2>2. QED
    BY <2>1 DEF Copies
<1>2. Cardinality(Copies(0)) = 0
  BY <1>1, FS_EmptySet
<1>3. Cardinality(Copies(0)) * (3 + RESERVED_GDT) = 0
  BY <1>2, Geometry DEF Sizes
<1>4. QED
  BY <1>3, Geometry DEF InUse, Sizes

\* The sum over the groups: what is not in use.
LEMMA FreeSteps ==
  /\ FreeBefore[0] = 0
  /\ \A k \in Groups : FreeBefore[k + 1] = FreeBefore[k] + GdtFree(k)
<1> DEFINE def(f) == f = [k \in 0 .. GROUPS |-> IF k = 0 THEN 0 ELSE f[k - 1] + GdtFree(k - 1)]
           w == [k \in 0 .. GROUPS |-> k * BLKS_PER_GRP - InUse(k)]
<1>1. GROUPS \in Nat /\ BLKS_PER_GRP \in Nat
  BY Geometry DEF Sizes
<1>2. InUse(0) = 0
  BY NoneBefore
<1>3. ASSUME NEW k \in 0 .. GROUPS, k # 0
      PROVE  k * BLKS_PER_GRP - InUse(k) = w[k - 1] + GdtFree(k - 1)
  <2>1. PICK j \in Groups : k = j + 1
    <3>1. k - 1 \in Groups /\ k = (k - 1) + 1
      BY <1>1, <1>3 DEF Groups
    <3>2. QED
      BY <3>1
  <2>2. j \in Nat /\ j \in 0 .. GROUPS /\ k - 1 = j
    BY <1>1, <2>1 DEF Groups
  <2>3. GdtFree(j) = BLKS_PER_GRP - Used(j) /\ InUse(j + 1) = InUse(j) + Used(j)
    BY <2>1, GroupCounts, InUseStep
  <2>4. Used(j) \in Nat /\ InUse(j) \in Nat
    BY <1>1, <2>1, <2>2, UsedType, InUseType
  <2>5. (j + 1) * BLKS_PER_GRP = j * BLKS_PER_GRP + BLKS_PER_GRP /\ j * BLKS_PER_GRP \in Nat
    BY <1>1, <2>2
  <2>6. w[j] = j * BLKS_PER_GRP - InUse(j)
    BY <2>2
  <2> HIDE DEF w
  <2>7. QED
    BY <1>1, <2>1, <2>2, <2>3, <2>4, <2>5, <2>6
<1>4. def(w)
  <2>1. 0 * BLKS_PER_GRP - InUse(0) = 0
    BY <1>1, <1>2
  <2>2. QED
    BY <1>3, <2>1
<1>5. def(FreeBefore)
  BY <1>4 DEF FreeBefore
<1>6. ASSUME NEW k \in Groups PROVE FreeBefore[k + 1] = FreeBefore[k] + GdtFree(k)
  <2>1. k + 1 \in 0 .. GROUPS /\ k + 1 # 0 /\ (k + 1) - 1 = k
    BY <1>1 DEF Groups
  <2>2. FreeBefore[k + 1] = FreeBefore[(k + 1) - 1] + GdtFree((k + 1) - 1)
    BY <1>5, <2>1
  <2>3. QED
    BY <2>1, <2>2
<1>7. FreeBefore[0] = 0
  BY <1>1, <1>5
<1>8. QED
  BY <1>6, <1>7

\* A set of naturals that is not empty has a smallest element.
LEMMA Smallest ==
  ASSUME NEW T \in SUBSET Nat, T # {}
  PROVE  \E m \in T : \A k \in T : m <= k
<1>1. PICK m \in T : \A k \in T : <<k, m>> \notin OpToRel(<, Nat)
  BY NatLessThanWellFounded, WFMin
<1>2. \A k \in T : ~(k < m)
  BY <1>1 DEF OpToRel
<1>3. QED
  BY <1>2

LEMMA FreeIsRest == \A k \in 0 .. GROUPS : FreeBefore[k] = k * BLKS_PER_GRP - InUse(k)
<1> DEFINE T == {k \in 0 .. GROUPS : FreeBefore[k] # k * BLKS_PER_GRP - InUse(k)}
<1> SUFFICES ASSUME T # {} PROVE FALSE
  OBVIOUS
<1>1. GROUPS \in Nat /\ BLKS_PER_GRP \in Nat
  BY Geometry DEF Sizes
<1>2. PICK m \in T : \A k \in T : m <= k
  <2>1. T \in SUBSET Nat
    BY <1>1
  <2> HIDE DEF T
  <2>2. QED
    BY <2>1, Smallest
<1>3. m # 0
  <2>1. InUse(0) = 0
    BY NoneBefore
  <2>2. FreeBefore[0] = 0 * BLKS_PER_GRP - InUse(0)
    BY <1>1, <2>1, FreeSteps
  <2>3. QED
    BY <2>2
<1>4. PICK j \in Groups : m = j + 1
  <2>1. m - 1 \in Groups /\ m = (m - 1) + 1
    BY <1>1, <1>3 DEF Groups
  <2>2. QED
    BY <2>1
<1>5. FreeBefore[j] = j * BLKS_PER_GRP - InUse(j)
  <2>1. j \in 0 .. GROUPS /\ j < m
    BY <1>1, <1>4 DEF Groups
  <2>2. j \notin T
    BY <1>1, <1>2, <2>1
  <2>3. QED
    BY <2>1, <2>2
<1>6. GdtFree(j) = BLKS_PER_GRP - Used(j) /\ InUse(j + 1) = InUse(j) + Used(j)
  BY GroupCounts, InUseStep
<1>7. j \in Nat /\ Used(j) \in Nat /\ InUse(j) \in Nat
  BY <1>1, UsedType, InUseType DEF Groups
<1>8. (j + 1) * BLKS_PER_GRP = j * BLKS_PER_GRP + BLKS_PER_GRP /\ j * BLKS_PER_GRP \in Nat
  BY <1>1, <1>7
<1>9. FreeBefore[m] = m * BLKS_PER_GRP - InUse(m)
  <2>1. FreeBefore[j + 1] = FreeBefore[j] + GdtFree(j)
    BY FreeSteps
  <2>2. QED
    BY <1>1, <1>4, <1>5, <1>6, <1>7, <1>8, <2>1
<1>10. QED
  BY <1>9

\* compute_used_blks: the superblock's total is the sum of the descriptors'.
LEMMA TotalAgrees == BLOCKS - ComputeUsedBlks = FreeBefore[GROUPS]
<1>1. Sizes
  BY Geometry
<1>2. FreeBefore[GROUPS] = GROUPS * BLKS_PER_GRP - InUse(GROUPS)
  BY <1>1, FreeIsRest DEF Sizes
<1>3. BLOCKS = GROUPS * BLKS_PER_GRP /\ BLOCKS \in Nat
  BY <1>1, GeometryAssumption DEF Sizes
<1>4. Copies(GROUPS) = Backups
  <2>1. \A g \in Backups : g \in 0 .. GROUPS - 1
    BY BackupFacts DEF Groups
  <2>2. QED
    BY <1>1, <2>1 DEF Copies, Sizes
<1>5. PICK c \in Nat : c = Cardinality(Backups)
  BY <1>1, <1>4, CopiesType DEF Sizes
<1>6. c * (3 + RESERVED_GDT) = c * RESERVED_GDT + 3 * c /\ c * RESERVED_GDT \in Nat
  BY <1>1 DEF Sizes
<1>7. InUse(GROUPS) = RESERVED_GDT + 5 * FLEX_META + 5 + Journal + c * (3 + RESERVED_GDT)
  <2>1. Cardinality(Copies(GROUPS)) * (3 + RESERVED_GDT) = c * (3 + RESERVED_GDT)
    BY <1>4, <1>5
  <2>2. c * (3 + RESERVED_GDT) \in Nat
    BY <1>1, <1>6 DEF Sizes
  <2>3. QED
    BY <1>1, <2>1, <2>2 DEF InUse, Sizes
<1>8. ComputeUsedBlks = InUse(GROUPS)
  BY <1>1, <1>5, <1>6, <1>7 DEF ComputeUsedBlks, Sizes
<1>9. QED
  BY <1>2, <1>3, <1>8
\* All counts of the image agree.
LEMMA CountsFit == CountsAgree
<1>1. InodesWritten \subseteq InodeMarks(0)
  BY DEF InodesWritten, InodeMarks
<1>2. \A g \in Groups :
        /\ Bitmap[g] \subseteq 0 .. BLKS_PER_GRP - 1
        /\ GdtFree(g) = BLKS_PER_GRP - Cardinality(Bitmap[g])
        /\ BlockUninit(g) => Bitmap[g] = {}
        /\ GdtFreeInodes(g) = INODES_PER_GRP - Cardinality(InodeMarks(g))
  BY GroupCounts
<1>3. QED
  BY <1>1, <1>2, TotalAgrees DEF CountsAgree

-----------------------------------------------------------------------------
(* Where the structures lie.  Each is in one of ten zones of a group h:    *)
(* superblock, descriptors, the blocks reserved for more of them, block    *)
(* bitmaps, inode bitmaps, inode tables, root directory, double indirect   *)
(* block, journal; or it is a backup.                                      *)

Zones == 0 .. 9
Shape(e, h, z) ==
  \/ z = 0 /\ h = 0 /\ e = <<"super", 0, 0, 1>>
  \/ z = 1 /\ h = 0 /\ e = <<"gdt", 0, 1, 2>>
  \/ z = 2 /\ h = 0 /\ \E b \in 3 .. 2 + RESERVED_GDT : e = <<"resize", b, b, 1>>
  \/ z = 3 /\ \E g \in Groups : h = GrpFlexFirst(g) /\ e = <<"bb", g, GrpBbBlk(g), 1>>
  \/ z = 4 /\ \E g \in Groups : h = GrpFlexFirst(g) /\ e = <<"ib", g, GrpIbBlk(g), 1>>
  \/ z = 5 /\ \E g \in Groups : h = GrpFlexFirst(g) /\ e = <<"it", g, GrpItBlk(g), IT_BLKS_PER_GRP>>
  \/ z = 6 /\ h = 0 /\ e = <<"root", 0, RootBlk, 1>>
  \/ z = 7 /\ h = 0 /\ e = <<"resize", DindirBlk, DindirBlk, 1>>
  \/ z = 8 /\ h = JnlGroup /\ e = <<"journal", 0, JnlStart, Journal>>
  \/ z = 9 /\ h \in Backups /\ e = <<"backup", h, h * BLKS_PER_GRP, 3>>

\* The first block of a zone in its group, and the first behind it.
Offset(h) == IF h = 0 THEN RESV_GDT_BLKS ELSE 0
Lo(h, z) ==
  CASE z = 0 -> 0 [] z = 1 -> 1 [] z = 2 -> 3
    [] z = 3 -> Offset(h) [] z = 4 -> Offset(h) + FLEX_GRP_SIZE
    [] z = 5 -> Offset(h) + 2 * FLEX_GRP_SIZE
    [] z = 6 -> RESV_GDT_BLKS + FLEX_META [] z = 7 -> RESV_GDT_BLKS + FLEX_META + 1
    [] z = 8 -> FLEX_META [] OTHER -> 0
Hi(h, z) ==
  CASE z = 0 -> 1 [] z = 1 -> 3 [] z = 2 -> RESV_GDT_BLKS
    [] z = 3 -> Offset(h) + FLEX_GRP_SIZE [] z = 4 -> Offset(h) + 2 * FLEX_GRP_SIZE
    [] z = 5 -> Offset(h) + FLEX_META
    [] z = 6 -> RESV_GDT_BLKS + FLEX_META + 1 [] z = 7 -> RESV_GDT_BLKS + FLEX_META + 2
    [] z = 8 -> FLEX_META + Journal [] OTHER -> 3

\* What else is known of an extent in a zone.
Here(h, z) ==
  /\ h \in Groups
  /\ z \in {0, 1, 2, 6, 7} => h = 0
  /\ z \in {3, 4, 5, 8} => h = GrpFlexFirst(h)
  /\ z = 8 => h = 4 * FLEX_GRP_SIZE
  /\ z = 9 => h \in Backups
Lies(e, h, z) ==
  /\ e[3] \in Nat /\ e[4] \in Nat
  /\ h * BLKS_PER_GRP + Lo(h, z) <= e[3] /\ e[3] + e[4] <= h * BLKS_PER_GRP + Hi(h, z)

LEMMA Shapes == \A e \in Extents : \E h \in Groups, z \in Zones : Shape(e, h, z)
<1> SUFFICES ASSUME NEW e \in Extents PROVE \E h \in Groups, z \in Zones : Shape(e, h, z)
  OBVIOUS
<1>1. 0 \in Groups /\ JnlGroup \in Groups /\ Backups \subseteq Groups
  BY FirstGroups, LastFlex, BackupFacts
<1>2. \A g \in Groups : GrpFlexFirst(g) \in Groups
  <2>1. ASSUME NEW g \in Groups PROVE GrpFlexFirst(g) \in Groups
    <3>1. PICK q \in 0 .. 4 : GrpFlexFirst(g) = q * FLEX_GRP_SIZE
      BY Flex
    <3>2. q * FLEX_GRP_SIZE + 0 \in Groups /\ q * FLEX_GRP_SIZE + 0 = q * FLEX_GRP_SIZE
      BY FlexFirst, Geometry DEF Sizes
    <3>3. QED
      BY <3>1, <3>2
  <2>2. QED
    BY <2>1
<1>3. CASE e \in {<<"super", 0, 0, 1>>, <<"gdt", 0, 1, 2>>, <<"root", 0, RootBlk, 1>>}
  BY <1>1, <1>3 DEF Shape, Zones
<1>4. CASE e = <<"journal", 0, JnlStart, Journal>>
  BY <1>1, <1>4 DEF Shape, Zones
<1>5. CASE e \in {<<"bb", g, GrpBbBlk(g), 1>> : g \in Groups}
  BY <1>2, <1>5 DEF Shape, Zones
<1>6. CASE e \in {<<"ib", g, GrpIbBlk(g), 1>> : g \in Groups}
  BY <1>2, <1>6 DEF Shape, Zones
<1>7. CASE e \in {<<"it", g, GrpItBlk(g), IT_BLKS_PER_GRP>> : g \in Groups}
  BY <1>2, <1>7 DEF Shape, Zones
<1>8. CASE e \in {<<"resize", blk, blk, 1>> : blk \in ReservedGdt}
  BY <1>1, <1>8 DEF Shape, Zones, ReservedGdt
<1>9. CASE e \in {<<"backup", g, g * BLKS_PER_GRP, 3>> : g \in Backups}
  BY <1>1, <1>9 DEF Shape, Zones
<1>10. QED
  BY <1>3, <1>4, <1>5, <1>6, <1>7, <1>8, <1>9 DEF Extents
LEMMA Placed ==
  ASSUME NEW g \in Groups, NEW h, h = GrpFlexFirst(g)
  PROVE  /\ h \in Groups /\ h \in Nat /\ g \in Nat /\ h = GrpFlexFirst(h)
         /\ h <= g /\ g < h + FLEX_GRP_SIZE
         /\ h * BLKS_PER_GRP \in Nat /\ MetaBase(g) = h * BLKS_PER_GRP + Offset(h)
<1>1. Sizes /\ g \in Nat
  BY Geometry DEF Groups
<1>2. PICK q \in 0 .. 4 : h = q * FLEX_GRP_SIZE /\ h <= g /\ g < h + FLEX_GRP_SIZE
  BY Flex
<1>3. q * FLEX_GRP_SIZE + 0 \in Groups /\ q * FLEX_GRP_SIZE + 0 = q * FLEX_GRP_SIZE
      /\ GrpFlexFirst(q * FLEX_GRP_SIZE + 0) = q * FLEX_GRP_SIZE
  BY <1>1, FlexFirst DEF Sizes
<1>4. h \in Groups /\ h \in Nat /\ h = GrpFlexFirst(h)
  BY <1>2, <1>3 DEF Groups
<1>5. h * BLKS_PER_GRP \in Nat
  BY <1>1, <1>4 DEF Sizes
<1>6. MetaBase(g) = h * BLKS_PER_GRP + Offset(h)
  <2>1. h = 0 => h * BLKS_PER_GRP = 0
    BY <1>1 DEF Sizes
  <2>2. RESV_GDT_BLKS \in Nat
    BY <1>1 DEF Sizes, RESV_GDT_BLKS
  <2>3. QED
    BY <1>5, <2>1, <2>2 DEF MetaBase, GrpFlexBase, Offset
<1>7. QED
  BY <1>1, <1>2, <1>4, <1>5, <1>6

LEMMA OffsetType == \A h : Offset(h) \in Nat
  BY Geometry DEF Sizes, Offset, RESV_GDT_BLKS

LEMMA Lying ==
  ASSUME NEW h \in Groups, NEW z \in Zones, NEW e, Shape(e, h, z)
  PROVE  Here(h, z) /\ Lies(e, h, z)
<1>1. Sizes /\ h \in Nat /\ h * BLKS_PER_GRP \in Nat /\ Offset(h) \in Nat
  <2>1. Sizes /\ h \in Nat
    BY Geometry DEF Groups
  <2>2. QED
    BY <2>1, OffsetType DEF Sizes
<1>2. h = 0 => h * BLKS_PER_GRP = 0 /\ Offset(h) = RESV_GDT_BLKS /\ h = GrpFlexFirst(h)
  BY <1>1, FirstGroups DEF Sizes, Offset
<1>3. CASE z \in {0, 1, 2, 6, 7}
  <2>1. h = 0 /\ Here(h, z)
    BY <1>3 DEF Shape, Here
  <2>2. /\ h * BLKS_PER_GRP = 0 /\ RESERVED_GDT \in Nat /\ FLEX_META \in Nat
        /\ RESV_GDT_BLKS = 3 + RESERVED_GDT
        /\ RootBlk = RESV_GDT_BLKS + FLEX_META /\ DindirBlk = RESV_GDT_BLKS + FLEX_META + 1
    BY <1>1, <1>2, <2>1 DEF Sizes, RESV_GDT_BLKS, RootBlk, DindirBlk
  <2>3. CASE z = 0
    <3>1. e[3] = 0 /\ e[4] = 1 /\ Lo(h, z) = 0 /\ Hi(h, z) = 1
      BY <2>3 DEF Shape, Lo, Hi
    <3>2. QED
      BY <2>1, <2>2, <3>1 DEF Lies
  <2>4. CASE z = 1
    <3>1. e[3] = 1 /\ e[4] = 2 /\ Lo(h, z) = 1 /\ Hi(h, z) = 3
      BY <2>4 DEF Shape, Lo, Hi
    <3>2. QED
      BY <2>1, <2>2, <3>1 DEF Lies
  <2>5. CASE z = 2
    <3>1. Lo(h, z) = 3 /\ Hi(h, z) = RESV_GDT_BLKS
      BY <2>5 DEF Lo, Hi
    <3>2. PICK b \in 3 .. 2 + RESERVED_GDT : e[3] = b /\ e[4] = 1
      BY <2>5 DEF Shape
    <3>3. QED
      BY <2>1, <2>2, <3>1, <3>2 DEF Lies
  <2>6. CASE z = 6
    <3>1. e[3] = RootBlk /\ e[4] = 1
      BY <2>6 DEF Shape
    <3>2. Lo(h, z) = RESV_GDT_BLKS + FLEX_META /\ Hi(h, z) = RESV_GDT_BLKS + FLEX_META + 1
      BY <2>6 DEF Lo, Hi
    <3>3. QED
      BY <2>1, <2>2, <3>1, <3>2 DEF Lies
  <2>7. CASE z = 7
    <3>1. e[3] = DindirBlk /\ e[4] = 1
      BY <2>7 DEF Shape
    <3>2. Lo(h, z) = RESV_GDT_BLKS + FLEX_META + 1 /\ Hi(h, z) = RESV_GDT_BLKS + FLEX_META + 2
      BY <2>7 DEF Lo, Hi
    <3>3. QED
      BY <2>1, <2>2, <3>1, <3>2 DEF Lies
  <2>8. QED
    BY <1>3, <2>3, <2>4, <2>5, <2>6, <2>7
<1>4. CASE z = 3
  <2>1. PICK g \in Groups : h = GrpFlexFirst(g) /\ e = <<"bb", g, GrpBbBlk(g), 1>>
    BY <1>4 DEF Shape
  <2>2. /\ h = GrpFlexFirst(h) /\ h <= g /\ g < h + FLEX_GRP_SIZE /\ g \in Nat
        /\ MetaBase(g) = h * BLKS_PER_GRP + Offset(h)
    BY <2>1, Placed
  <2>3. Lo(h, z) = Offset(h) /\ Hi(h, z) = Offset(h) + FLEX_GRP_SIZE
    BY <1>4 DEF Lo, Hi
  <2>4. e[3] = h * BLKS_PER_GRP + Offset(h) + g - h /\ e[4] = 1
    BY <1>1, <2>1, <2>2 DEF GrpBbBlk
  <2>5. QED
    BY <1>1, <1>4, <2>2, <2>3, <2>4 DEF Here, Lies, Sizes
<1>5. CASE z = 4
  <2>1. PICK g \in Groups : h = GrpFlexFirst(g) /\ e = <<"ib", g, GrpIbBlk(g), 1>>
    BY <1>5 DEF Shape
  <2>2. /\ h = GrpFlexFirst(h) /\ h <= g /\ g < h + FLEX_GRP_SIZE /\ g \in Nat
        /\ MetaBase(g) = h * BLKS_PER_GRP + Offset(h)
    BY <2>1, Placed
  <2>3. Lo(h, z) = Offset(h) + FLEX_GRP_SIZE /\ Hi(h, z) = Offset(h) + 2 * FLEX_GRP_SIZE
    BY <1>5 DEF Lo, Hi
  <2>4. e[3] = h * BLKS_PER_GRP + Offset(h) + FLEX_GRP_SIZE + g - h /\ e[4] = 1
    BY <1>1, <2>1, <2>2 DEF GrpIbBlk
  <2>5. QED
    BY <1>1, <1>5, <2>2, <2>3, <2>4 DEF Here, Lies, Sizes
<1>6. CASE z = 5
  <2>1. PICK g \in Groups :
          h = GrpFlexFirst(g) /\ e = <<"it", g, GrpItBlk(g), IT_BLKS_PER_GRP>>
    BY <1>6 DEF Shape
  <2>2. /\ h = GrpFlexFirst(h) /\ h <= g /\ g < h + FLEX_GRP_SIZE /\ g \in Nat
        /\ MetaBase(g) = h * BLKS_PER_GRP + Offset(h)
    BY <2>1, Placed
  <2>3. Lo(h, z) = Offset(h) + 2 * FLEX_GRP_SIZE /\ Hi(h, z) = Offset(h) + FLEX_META
    BY <1>6 DEF Lo, Hi
  <2>4. PICK i \in Nat : i = g - h
    BY <1>1, <2>2
  <2>5. i < FLEX_GRP_SIZE
    BY <1>1, <2>2, <2>4 DEF Sizes
  <2>6. PICK d \in Nat : d = i * IT_BLKS_PER_GRP
    <3>1. i * IT_BLKS_PER_GRP \in Nat
      BY <1>1 DEF Sizes
    <3>2. QED
      BY <3>1
  <2>7. d + IT_BLKS_PER_GRP <= FLEX_GRP_SIZE * IT_BLKS_PER_GRP
    <3>1. FLEX_GRP_SIZE \in Nat /\ IT_BLKS_PER_GRP \in Nat
      BY <1>1 DEF Sizes
    <3>2. QED
      BY <2>5, <2>6, <3>1, Multiples
  <2>8. d + IT_BLKS_PER_GRP + 2 * FLEX_GRP_SIZE <= FLEX_META
    BY <1>1, <2>7 DEF Sizes
  <2>9. e[3] = h * BLKS_PER_GRP + Offset(h) + 2 * FLEX_GRP_SIZE + d /\ e[4] = IT_BLKS_PER_GRP
    BY <1>1, <2>1, <2>2, <2>4, <2>6 DEF GrpItBlk
  <2>10. FLEX_GRP_SIZE \in Nat /\ IT_BLKS_PER_GRP \in Nat /\ FLEX_META \in Nat
    BY <1>1 DEF Sizes
  <2>11. QED
    BY <1>1, <1>6, <2>2, <2>3, <2>8, <2>9, <2>10 DEF Here, Lies
<1>7. CASE z = 8
  <2>1. h = 4 * FLEX_GRP_SIZE /\ h = GrpFlexFirst(h) /\ e[3] = JnlStart /\ e[4] = Journal
    BY <1>7, LastFlex, FirstGroups DEF Shape
  <2>2. JnlStart = h * BLKS_PER_GRP + FLEX_META
    BY <2>1, LastFlex DEF JnlStart
  <2>3. Lo(h, z) = FLEX_META /\ Hi(h, z) = FLEX_META + Journal
    BY <1>7 DEF Lo, Hi
  <2>4. FLEX_META \in Nat /\ Journal \in Nat
    BY <1>1 DEF Sizes
  <2>5. QED
    BY <1>1, <1>7, <2>1, <2>2, <2>3, <2>4 DEF Here, Lies
<1>8. CASE z = 9
  BY <1>1, <1>8 DEF Shape, Here, Lies, Lo, Hi
<1>9. QED
  BY <1>3, <1>4, <1>5, <1>6, <1>7, <1>8 DEF Zones

\* A zone is marked as in use in its group.
LEMMA ZoneMarked ==
  ASSUME NEW h, NEW z \in Zones, Here(h, z)
  PROVE  Lo(h, z) \in Nat /\ Hi(h, z) \in Nat /\ Hi(h, z) <= Used(h)
<1>1. Sizes /\ h \in Nat /\ h \in Groups
  BY Geometry DEF Groups, Here
<1>2. z = 9 => h # 0 /\ h # 4 * FLEX_GRP_SIZE /\ h # GrpFlexFirst(h)
  BY FirstGroups, BackupFacts DEF Here
<1>3. 4 * FLEX_GRP_SIZE # 0
  BY FirstGroups
<1>4. RESERVED_GDT \in Nat /\ FLEX_META \in Nat /\ Journal \in Nat /\ FLEX_GRP_SIZE \in Nat
      /\ 2 * FLEX_GRP_SIZE <= FLEX_META
  BY <1>1 DEF Sizes
<1>5. CASE z \in {0, 1, 2, 6, 7}
  <2>1. Used(h) = RESERVED_GDT + FLEX_META + 5
    BY <1>5 DEF Here, Used
  <2>2. \/ Lo(h, z) = 0 /\ Hi(h, z) = 1
        \/ Lo(h, z) = 1 /\ Hi(h, z) = 3
        \/ Lo(h, z) = 3 /\ Hi(h, z) = 3 + RESERVED_GDT
        \/ Lo(h, z) = 3 + RESERVED_GDT + FLEX_META /\ Hi(h, z) = 3 + RESERVED_GDT + FLEX_META + 1
        \/ Lo(h, z) = 3 + RESERVED_GDT + FLEX_META + 1 /\ Hi(h, z) = 3 + RESERVED_GDT + FLEX_META + 2
    <3>1. RESV_GDT_BLKS = 3 + RESERVED_GDT
      BY DEF RESV_GDT_BLKS
    <3>2. CASE z = 0
      BY <3>2 DEF Lo, Hi
    <3>3. CASE z = 1
      BY <3>3 DEF Lo, Hi
    <3>4. CASE z = 2
      BY <3>1, <3>4 DEF Lo, Hi
    <3>5. CASE z = 6
      BY <3>1, <3>5 DEF Lo, Hi
    <3>6. CASE z = 7
      BY <3>1, <3>6 DEF Lo, Hi
    <3>7. QED
      BY <1>5, <3>2, <3>3, <3>4, <3>5, <3>6
  <2>3. QED
    BY <1>4, <2>1, <2>2
<1>6. CASE z \in {3, 4, 5}
  <2>1. Offset(h) \in Nat /\ Offset(h) + FLEX_META <= Used(h) /\ Used(h) \in Nat
    BY <1>4, <1>6 DEF Here, Used, Offset, RESV_GDT_BLKS
  <2>2. \/ Lo(h, z) = Offset(h) /\ Hi(h, z) = Offset(h) + FLEX_GRP_SIZE
        \/ Lo(h, z) = Offset(h) + FLEX_GRP_SIZE /\ Hi(h, z) = Offset(h) + 2 * FLEX_GRP_SIZE
        \/ Lo(h, z) = Offset(h) + 2 * FLEX_GRP_SIZE /\ Hi(h, z) = Offset(h) + FLEX_META
    BY <1>6 DEF Lo, Hi
  <2>3. QED
    BY <1>4, <2>1, <2>2
<1>7. CASE z = 8
  BY <1>3, <1>4, <1>7 DEF Here, Lo, Hi, Used
<1>8. CASE z = 9
  BY <1>2, <1>4, <1>8 DEF Here, Lo, Hi, Used
<1>9. QED
  BY <1>5, <1>6, <1>7, <1>8 DEF Zones

\* The zones of a group are one behind the other.
LEMMA ZonesApart ==
  ASSUME NEW h, NEW z \in Zones, NEW y \in Zones, Here(h, z), Here(h, y), z < y
  PROVE  Hi(h, z) <= Lo(h, y)
<1>1. Sizes
  BY Geometry
<1>2. h \in Backups => h # 0 /\ h # GrpFlexFirst(h)
  BY FirstGroups, BackupFacts
<1>3. y # 9
  BY <1>2 DEF Here, Zones
<1>4. 4 * FLEX_GRP_SIZE # 0
  BY FirstGroups
<1>5. QED
  BY <1>1, <1>3, <1>4 DEF Here, Lo, Hi, Sizes, Zones, Offset, RESV_GDT_BLKS
Apart(e, f) == e[3] + e[4] <= f[3] \/ f[3] + f[4] <= e[3]

\* Two structures of a zone are those of different groups or blocks.
LEMMA ZoneApart ==
  ASSUME NEW h \in Groups, NEW z \in Zones, NEW e, NEW f, Shape(e, h, z), Shape(f, h, z), e # f
  PROVE  Apart(e, f)
<1>1. Sizes
  BY Geometry
<1>2. z \notin {0, 1, 6, 7, 8, 9}
  BY DEF Shape
<1>3. CASE z = 2
  <2>1. PICK b \in 3 .. 2 + RESERVED_GDT : e = <<"resize", b, b, 1>>
    BY <1>3 DEF Shape
  <2>2. PICK c \in 3 .. 2 + RESERVED_GDT : f = <<"resize", c, c, 1>>
    BY <1>3 DEF Shape
  <2>3. b # c /\ b \in Nat /\ c \in Nat
    BY <1>1, <2>1, <2>2 DEF Sizes
  <2>4. QED
    BY <2>1, <2>2, <2>3 DEF Apart
<1> DEFINE base == h * BLKS_PER_GRP + Offset(h)
<1>4. ASSUME NEW g \in Groups, h = GrpFlexFirst(g)
      PROVE  /\ base \in Nat /\ h \in Nat /\ g \in Nat /\ h <= g
             /\ GrpBbBlk(g) = base + g - h
             /\ GrpIbBlk(g) = base + FLEX_GRP_SIZE + g - h
             /\ GrpItBlk(g) = base + 2 * FLEX_GRP_SIZE + (g - h) * IT_BLKS_PER_GRP
  <2>1. /\ h \in Nat /\ g \in Nat /\ h <= g /\ h * BLKS_PER_GRP \in Nat /\ Offset(h) \in Nat
        /\ MetaBase(g) = base
    BY <1>4, Placed, OffsetType
  <2>2. base \in Nat
    BY <2>1
  <2> HIDE DEF base
  <2>3. QED
    BY <1>4, <2>1, <2>2 DEF GrpBbBlk, GrpIbBlk, GrpItBlk
<1> HIDE DEF base
<1>5. CASE z = 3
  <2>1. PICK g \in Groups : h = GrpFlexFirst(g) /\ e = <<"bb", g, GrpBbBlk(g), 1>>
    BY <1>5 DEF Shape
  <2>2. PICK k \in Groups : h = GrpFlexFirst(k) /\ f = <<"bb", k, GrpBbBlk(k), 1>>
    BY <1>5 DEF Shape
  <2>3. g # k
    BY <2>1, <2>2
  <2>4. e[3] = base + g - h /\ f[3] = base + k - h /\ e[4] = 1 /\ f[4] = 1
        /\ base \in Nat /\ h \in Nat /\ g \in Nat /\ k \in Nat
    BY <1>4, <2>1, <2>2
  <2>5. QED
    BY <2>3, <2>4 DEF Apart
<1>6. CASE z = 4
  <2>1. PICK g \in Groups : h = GrpFlexFirst(g) /\ e = <<"ib", g, GrpIbBlk(g), 1>>
    BY <1>6 DEF Shape
  <2>2. PICK k \in Groups : h = GrpFlexFirst(k) /\ f = <<"ib", k, GrpIbBlk(k), 1>>
    BY <1>6 DEF Shape
  <2>3. g # k
    BY <2>1, <2>2
  <2>4. e[3] = base + FLEX_GRP_SIZE + g - h /\ f[3] = base + FLEX_GRP_SIZE + k - h
        /\ e[4] = 1 /\ f[4] = 1 /\ base \in Nat /\ h \in Nat /\ g \in Nat /\ k \in Nat
    BY <1>4, <2>1, <2>2
  <2>5. QED
    BY <1>1, <2>3, <2>4 DEF Apart, Sizes
<1>7. CASE z = 5
  <2>1. PICK g \in Groups :
          h = GrpFlexFirst(g) /\ e = <<"it", g, GrpItBlk(g), IT_BLKS_PER_GRP>>
    BY <1>7 DEF Shape
  <2>2. PICK k \in Groups :
          h = GrpFlexFirst(k) /\ f = <<"it", k, GrpItBlk(k), IT_BLKS_PER_GRP>>
    BY <1>7 DEF Shape
  <2>3. g # k
    BY <2>1, <2>2
  <2>4. /\ base \in Nat /\ h \in Nat /\ g \in Nat /\ k \in Nat /\ h <= g /\ h <= k
        /\ FLEX_GRP_SIZE \in Nat /\ IT_BLKS_PER_GRP \in Nat
    <3>1. FLEX_GRP_SIZE \in Nat /\ IT_BLKS_PER_GRP \in Nat
      BY <1>1 DEF Sizes
    <3>2. QED
      BY <1>4, <2>1, <2>2, <3>1
  <2>5. PICK i \in Nat, j \in Nat : i = g - h /\ j = k - h
    BY <2>4
  <2>6. i < j \/ j < i
    BY <2>3, <2>4, <2>5
  <2>7. PICK x \in Nat, y \in Nat : x = i * IT_BLKS_PER_GRP /\ y = j * IT_BLKS_PER_GRP
    BY <2>4
  <2>8. /\ i < j => x + IT_BLKS_PER_GRP <= y
        /\ j < i => y + IT_BLKS_PER_GRP <= x
    BY <2>4, <2>7, Multiples
  <2>9. /\ e[3] = base + 2 * FLEX_GRP_SIZE + x /\ f[3] = base + 2 * FLEX_GRP_SIZE + y
        /\ e[4] = IT_BLKS_PER_GRP /\ f[4] = IT_BLKS_PER_GRP
    BY <1>4, <2>1, <2>2, <2>5, <2>7
  <2>10. QED
    BY <2>4, <2>6, <2>8, <2>9 DEF Apart
<1>8. QED
  BY <1>2, <1>3, <1>5, <1>6, <1>7 DEF Zones

\* A block of a group, by its place in the group.
LEMMA BlockOf ==
  ASSUME NEW h \in Groups, NEW b \in Nat,
         h * BLKS_PER_GRP <= b, b < h * BLKS_PER_GRP + BLKS_PER_GRP
  PROVE  b \div BLKS_PER_GRP = h /\ b % BLKS_PER_GRP = b - h * BLKS_PER_GRP
<1>1. h \in Nat /\ BLKS_PER_GRP \in Nat \ {0} /\ h * BLKS_PER_GRP \in Nat
  BY Geometry DEF Sizes, Groups
<1>2. PICK r \in Nat : b = h * BLKS_PER_GRP + r /\ r < BLKS_PER_GRP
  <2>1. b - h * BLKS_PER_GRP \in Nat /\ b = h * BLKS_PER_GRP + (b - h * BLKS_PER_GRP)
        /\ b - h * BLKS_PER_GRP < BLKS_PER_GRP
    BY <1>1
  <2>2. QED
    BY <2>1
<1>3. (h * BLKS_PER_GRP + r) \div BLKS_PER_GRP = h /\ (h * BLKS_PER_GRP + r) % BLKS_PER_GRP = r
  BY <1>1, <1>2, Quotient
<1>4. QED
  BY <1>1, <1>2, <1>3

\* Every group lies within the image, before the next one.
LEMMA GroupsApart ==
  ASSUME NEW h \in Groups
  PROVE  /\ h * BLKS_PER_GRP \in Nat /\ h * BLKS_PER_GRP + BLKS_PER_GRP <= BLOCKS
         /\ \A k \in Groups : h < k => h * BLKS_PER_GRP + BLKS_PER_GRP <= k * BLKS_PER_GRP
<1>1. /\ h \in Nat /\ BLKS_PER_GRP \in Nat /\ GROUPS \in Nat /\ h < GROUPS
      /\ \A k \in Groups : k \in Nat
  BY Geometry DEF Sizes, Groups
<1>2. BLOCKS = GROUPS * BLKS_PER_GRP
  BY GeometryAssumption
<1>3. QED
  BY <1>1, <1>2, Multiples

\* No structure lies on another one, and each is marked.
LEMMA LayoutFits == NoOverlap
<1> SUFFICES ASSUME NEW e \in Extents
             PROVE  /\ e[3] + e[4] <= BLOCKS
                    /\ \A b \in e[3] .. e[3] + e[4] - 1 :
                         b % BLKS_PER_GRP \in Bitmap[b \div BLKS_PER_GRP]
                    /\ \A f \in Extents : f = e \/ Apart(e, f)
  BY DEF NoOverlap, Apart
<1>1. BLKS_PER_GRP \in Nat \ {0} /\ BLOCKS \in Nat /\ \A g \in Groups : Used(g) \in 0 .. BLKS_PER_GRP
  BY Geometry, UsedType DEF Sizes
<1>2. PICK h \in Groups, z \in Zones : Shape(e, h, z)
  BY Shapes
<1>3. Here(h, z) /\ Lies(e, h, z)
  BY <1>2, Lying
<1>4. /\ h * BLKS_PER_GRP \in Nat /\ h * BLKS_PER_GRP + BLKS_PER_GRP <= BLOCKS
      /\ Lo(h, z) \in Nat /\ Hi(h, z) \in Nat /\ Hi(h, z) <= Used(h) /\ Used(h) \in Nat
      /\ Used(h) <= BLKS_PER_GRP
  BY <1>1, <1>3, GroupsApart, ZoneMarked
<1>5. e[3] + e[4] <= h * BLKS_PER_GRP + Used(h) /\ e[3] \in Nat /\ e[4] \in Nat
      /\ h * BLKS_PER_GRP <= e[3]
  BY <1>3, <1>4 DEF Lies
<1>6. e[3] + e[4] <= BLOCKS
  BY <1>1, <1>4, <1>5
<1>7. ASSUME NEW b \in e[3] .. e[3] + e[4] - 1
      PROVE  b % BLKS_PER_GRP \in Bitmap[b \div BLKS_PER_GRP]
  <2>1. b \in Nat /\ h * BLKS_PER_GRP <= b /\ b < h * BLKS_PER_GRP + Used(h)
    BY <1>4, <1>5
  <2>2. b < h * BLKS_PER_GRP + BLKS_PER_GRP
    BY <1>1, <1>4, <2>1
  <2>3. b \div BLKS_PER_GRP = h /\ b % BLKS_PER_GRP = b - h * BLKS_PER_GRP
    BY <2>1, <2>2, BlockOf
  <2>4. b - h * BLKS_PER_GRP \in 0 .. Used(h) - 1
    BY <1>4, <2>1
  <2>5. Bitmap[h] = 0 .. Used(h) - 1
    BY Marked DEF Bitmap
  <2>6. QED
    BY <2>3, <2>4, <2>5
<1>8. ASSUME NEW f \in Extents, f # e PROVE Apart(e, f)
  <2>1. PICK k \in Groups, y \in Zones : Shape(f, k, y)
    BY Shapes
  <2>2. Here(k, y) /\ Lies(f, k, y)
    BY <2>1, Lying
  <2>3. /\ k * BLKS_PER_GRP \in Nat /\ Lo(k, y) \in Nat /\ Hi(k, y) \in Nat
        /\ Hi(k, y) <= Used(k) /\ Used(k) \in Nat /\ Used(k) <= BLKS_PER_GRP
    BY <1>1, <2>2, GroupsApart, ZoneMarked
  <2>4. f[3] + f[4] <= k * BLKS_PER_GRP + Used(k) /\ f[3] \in Nat /\ f[4] \in Nat
        /\ k * BLKS_PER_GRP <= f[3]
    BY <2>2, <2>3 DEF Lies
  <2>5. h \in Nat /\ k \in Nat /\ z \in Nat /\ y \in Nat
    BY Geometry DEF Sizes, Groups, Zones
  <2>6. CASE h < k
    <3>1. h * BLKS_PER_GRP + BLKS_PER_GRP <= k * BLKS_PER_GRP
      BY <2>6, GroupsApart
    <3>2. QED
      BY <1>1, <1>4, <1>5, <2>3, <2>4, <3>1 DEF Apart
  <2>7. CASE k < h
    <3>1. k * BLKS_PER_GRP + BLKS_PER_GRP <= h * BLKS_PER_GRP
      BY <2>7, GroupsApart
    <3>2. QED
      BY <1>1, <1>4, <1>5, <2>3, <2>4, <3>1 DEF Apart
  <2>8. CASE h = k /\ z < y
    <3>1. Hi(h, z) <= Lo(h, y)
      BY <1>3, <2>2, <2>8, ZonesApart
    <3>2. QED
      BY <1>3, <1>4, <1>5, <2>2, <2>3, <2>4, <2>8, <3>1 DEF Apart, Lies
  <2>9. CASE h = k /\ y < z
    <3>1. Hi(h, y) <= Lo(h, z)
      BY <1>3, <2>2, <2>9, ZonesApart
    <3>2. QED
      BY <1>3, <1>4, <1>5, <2>2, <2>3, <2>4, <2>9, <3>1 DEF Apart, Lies
  <2>10. CASE h = k /\ z = y
    BY <1>2, <1>8, <2>1, <2>10, ZoneApart
  <2>11. QED
    BY <2>5, <2>6, <2>7, <2>8, <2>9, <2>10
<1>9. QED
  BY <1>6, <1>7, <1>8
-----------------------------------------------------------------------------
(* The resize inode.                                                       *)

\* The blocks it reaches: of each reserved block one copy in each group that
\* has descriptors.
Reserved == 3 .. 2 + RESERVED_GDT
Hosts == Backups \cup {0}
CopyAt == [p \in Reserved \X Hosts |-> p[1] + p[2] * BLKS_PER_GRP]

LEMMA HostFacts ==
  /\ Hosts \subseteq Groups /\ IsFiniteSet(Backups) /\ Cardinality(Backups) \in Nat
  /\ IsFiniteSet(Hosts) /\ Cardinality(Hosts) = Cardinality(Backups) + 1
  /\ \A h \in Hosts : Used(h) \in Nat /\ 3 + RESERVED_GDT <= Used(h)
<1>1. Sizes
  BY Geometry
<1>2. Hosts \subseteq Groups /\ 0 \notin Backups
  BY BackupFacts, FirstGroups DEF Hosts
<1>3. IsFiniteSet(Backups)
  <2>1. GROUPS \in Nat /\ Backups \in SUBSET Nat /\ \A g \in Backups : g \in 0 .. GROUPS - 1
    BY <1>1, BackupFacts DEF Sizes, Groups
  <2>2. \A g \in Backups : g <= GROUPS
    BY <2>1
  <2>3. QED
    BY <2>1, <2>2, FS_BoundedSetOfNaturals
<1>4. Cardinality(Backups) \in Nat
  BY <1>3, FS_CardinalityType
<1>5. IsFiniteSet(Hosts) /\ Cardinality(Hosts) = Cardinality(Backups) + 1
  BY <1>2, <1>3, FS_AddElement DEF Hosts
<1>6. ASSUME NEW h \in Hosts PROVE Used(h) \in Nat /\ 3 + RESERVED_GDT <= Used(h)
  <2>1. h = 0 \/ (h # 0 /\ h # 4 * FLEX_GRP_SIZE /\ h # GrpFlexFirst(h) /\ h \in Backups)
    BY BackupFacts, FirstGroups DEF Hosts
  <2>2. QED
    BY <1>1, <2>1 DEF Used, Sizes
<1>7. QED
  BY <1>2, <1>3, <1>4, <1>5, <1>6

\* A copy's group and block can be told from its place.
LEMMA CopyFacts ==
  ASSUME NEW c \in Reserved, NEW h \in Hosts
  PROVE  /\ c + h * BLKS_PER_GRP \in Nat
         /\ (c + h * BLKS_PER_GRP) \div BLKS_PER_GRP = h
         /\ (c + h * BLKS_PER_GRP) % BLKS_PER_GRP = c
         /\ c \in Bitmap[h]
<1>1. /\ BLKS_PER_GRP \in Nat /\ RESERVED_GDT \in Nat /\ 3 + RESERVED_GDT <= BLKS_PER_GRP
      /\ h \in Groups /\ h \in Nat
  BY Geometry, HostFacts DEF Sizes, Groups
<1>2. h * BLKS_PER_GRP \in Nat
  BY <1>1
<1>3. c \in Nat /\ c < BLKS_PER_GRP /\ c < 3 + RESERVED_GDT
  BY <1>1 DEF Reserved
<1>4. PICK b \in Nat : b = c + h * BLKS_PER_GRP
  BY <1>2, <1>3
<1>5. b \div BLKS_PER_GRP = h /\ b % BLKS_PER_GRP = b - h * BLKS_PER_GRP
  BY <1>1, <1>2, <1>3, <1>4, BlockOf
<1>6. Bitmap[h] = 0 .. Used(h) - 1 /\ Used(h) \in Nat /\ 3 + RESERVED_GDT <= Used(h)
  BY <1>1, Marked, HostFacts DEF Bitmap
<1>7. c \in Bitmap[h]
  BY <1>1, <1>3, <1>6
<1>8. QED
  BY <1>2, <1>3, <1>4, <1>5, <1>7

LEMMA ReachIs == ResizeReach = {DindirBlk} \cup {CopyAt[p] : p \in Reserved \X Hosts}
<1>1. \A c \in Reserved : c + 0 * BLKS_PER_GRP = c
  BY Geometry DEF Reserved, Sizes
<1>2. {CopyAt[p] : p \in Reserved \X Hosts} = {c + h * BLKS_PER_GRP : c \in Reserved, h \in Hosts}
  <2>1. \A c \in Reserved, h \in Hosts :
          <<c, h>> \in Reserved \X Hosts /\ CopyAt[<<c, h>>] = c + h * BLKS_PER_GRP
    BY DEF CopyAt
  <2>2. \A p \in Reserved \X Hosts :
          p[1] \in Reserved /\ p[2] \in Hosts /\ CopyAt[p] = p[1] + p[2] * BLKS_PER_GRP
    BY DEF CopyAt
  <2> DEFINE S == {CopyAt[p] : p \in Reserved \X Hosts}
             T == {c + h * BLKS_PER_GRP : c \in Reserved, h \in Hosts}
  <2>3. ASSUME NEW p \in Reserved \X Hosts PROVE CopyAt[p] \in T
    <3>1. p[1] \in Reserved /\ p[2] \in Hosts /\ CopyAt[p] = p[1] + p[2] * BLKS_PER_GRP
      BY <2>2
    <3>2. QED
      BY <3>1
  <2>4. ASSUME NEW c \in Reserved, NEW h \in Hosts PROVE c + h * BLKS_PER_GRP \in S
    <3>1. <<c, h>> \in Reserved \X Hosts /\ CopyAt[<<c, h>>] = c + h * BLKS_PER_GRP
      BY <2>1
    <3>2. QED
      BY <3>1
  <2>5. S \subseteq T
    BY <2>3
  <2>6. T \subseteq S
    <3> SUFFICES ASSUME NEW x \in T PROVE x \in S
      OBVIOUS
    <3>1. PICK c \in Reserved, h \in Hosts : x = c + h * BLKS_PER_GRP
      OBVIOUS
    <3> HIDE DEF S
    <3>2. QED
      BY <2>4, <3>1
  <2>7. QED
    BY <2>5, <2>6
<1>3. {c + h * BLKS_PER_GRP : c \in Reserved, h \in Hosts}
        = Reserved \cup {c + h * BLKS_PER_GRP : c \in Reserved, h \in Backups}
  BY <1>1 DEF Hosts
<1>4. QED
  BY <1>2, <1>3 DEF ResizeReach, ReservedGdt, Reserved

LEMMA DindirFacts ==
  /\ DindirBlk \in Nat /\ DindirBlk \div BLKS_PER_GRP = 0 /\ DindirBlk % BLKS_PER_GRP = DindirBlk
  /\ DindirBlk \in Bitmap[0] /\ DindirBlk \notin Reserved
<1>1. Sizes
  BY Geometry
<1>2. DindirBlk = RESERVED_GDT + FLEX_META + 4
  BY <1>1 DEF DindirBlk, RootBlk, RESV_GDT_BLKS, Sizes
<1>3. DindirBlk \in Nat /\ DindirBlk < BLKS_PER_GRP /\ DindirBlk \notin Reserved
  BY <1>1, <1>2 DEF Sizes, Reserved
<1>4. Bitmap[0] = 0 .. Used(0) - 1 /\ Used(0) = RESERVED_GDT + FLEX_META + 5 /\ 0 \in Groups
  BY Marked, FirstGroups DEF Bitmap, Used
<1>5. 0 * BLKS_PER_GRP = 0 /\ BLKS_PER_GRP \in Nat
  BY <1>1 DEF Sizes
<1>6. DindirBlk \div BLKS_PER_GRP = 0 /\ DindirBlk % BLKS_PER_GRP = DindirBlk - 0 * BLKS_PER_GRP
  <2>1. PICK h \in Groups, b \in Nat : h = 0 /\ b = DindirBlk
    BY <1>3, <1>4
  <2>2. h * BLKS_PER_GRP <= b /\ b < h * BLKS_PER_GRP + BLKS_PER_GRP
    BY <1>3, <1>5, <2>1
  <2>3. b \div BLKS_PER_GRP = h /\ b % BLKS_PER_GRP = b - h * BLKS_PER_GRP
    BY <2>2, BlockOf
  <2>4. QED
    BY <2>1, <2>3
<1>7. DindirBlk \in Bitmap[0]
  <2>1. RESERVED_GDT \in Nat /\ FLEX_META \in Nat
    BY <1>1 DEF Sizes
  <2>2. QED
    BY <1>2, <1>3, <1>4, <2>1
<1>8. QED
  BY <1>3, <1>5, <1>6, <1>7

LEMMA ResizeFits == ResizeSound
<1> DEFINE T == {CopyAt[p] : p \in Reserved \X Hosts}
           n == Cardinality(Backups)
<1>1. RESERVED_GDT \in Nat
  BY Geometry DEF Sizes
<1>2. IsFiniteSet(Reserved) /\ Cardinality(Reserved) = RESERVED_GDT
  BY <1>1, FS_Interval DEF Reserved
<1>3. IsFiniteSet(Hosts) /\ Cardinality(Hosts) = n + 1 /\ n \in Nat
  BY HostFacts
<1>4. IsFiniteSet(Reserved \X Hosts) /\ Cardinality(Reserved \X Hosts) = RESERVED_GDT * (n + 1)
  BY <1>2, <1>3, FS_Product
<1>5. CopyAt \in Bijection(Reserved \X Hosts, T)
  <2>1. CopyAt \in [Reserved \X Hosts -> T]
    BY DEF CopyAt
  <2>2. ASSUME NEW p \in Reserved \X Hosts, NEW r \in Reserved \X Hosts, CopyAt[p] = CopyAt[r]
        PROVE  p = r
    <3>1. p = <<p[1], p[2]>> /\ r = <<r[1], r[2]>> /\ p[1] \in Reserved /\ r[1] \in Reserved
          /\ p[2] \in Hosts /\ r[2] \in Hosts
      OBVIOUS
    <3>2. p[1] + p[2] * BLKS_PER_GRP = r[1] + r[2] * BLKS_PER_GRP
      BY <2>2 DEF CopyAt
    <3>3. p[1] = r[1] /\ p[2] = r[2]
      BY <3>1, <3>2, CopyFacts
    <3>4. QED
      BY <3>1, <3>3
  <2>3. QED
    BY <2>1, <2>2 DEF Bijection, Injection, Surjection, IsInjective
<1>6. IsFiniteSet(T) /\ Cardinality(T) = RESERVED_GDT * (n + 1)
  <2>1. ExistsBijection(Reserved \X Hosts, T)
    BY <1>5 DEF ExistsBijection
  <2>2. QED
    BY <1>4, <2>1, FS_Bijection
<1>7. \A b \in T : \E c \in Reserved, h \in Hosts : b = c + h * BLKS_PER_GRP
  <2>1. \A p \in Reserved \X Hosts :
          p[1] \in Reserved /\ p[2] \in Hosts /\ CopyAt[p] = p[1] + p[2] * BLKS_PER_GRP
    BY DEF CopyAt
  <2>2. QED
    BY <2>1
<1>8. DindirBlk \notin T
  BY <1>7, CopyFacts, DindirFacts
<1>9. ResizeReach = T \cup {DindirBlk}
  BY ReachIs
<1>10. Cardinality(ResizeReach) = ResizeNblks
  <2>1. Cardinality(T \cup {DindirBlk}) = RESERVED_GDT * (n + 1) + 1
    BY <1>6, <1>8, FS_AddElement
  <2>2. RESERVED_GDT * (n + 1) = n * RESERVED_GDT + RESERVED_GDT /\ n * RESERVED_GDT \in Nat
    BY <1>1, <1>3
  <2>3. QED
    BY <1>1, <1>3, <1>9, <2>1, <2>2 DEF ResizeNblks
<1>11. ASSUME NEW b \in T
       PROVE  b % BLKS_PER_GRP \in 3 .. 2 + RESERVED_GDT
              /\ b % BLKS_PER_GRP \in Bitmap[b \div BLKS_PER_GRP]
  <2>1. PICK c \in Reserved, h \in Hosts : b = c + h * BLKS_PER_GRP
    BY <1>7
  <2>2. b % BLKS_PER_GRP = c /\ b \div BLKS_PER_GRP = h /\ c \in Bitmap[h]
    BY <2>1, CopyFacts
  <2>3. QED
    BY <2>2 DEF Reserved
<1>12. QED
  BY <1>9, <1>10, <1>11, DindirFacts DEF ResizeSound

-----------------------------------------------------------------------------
(* The writing.                                                            *)

\* The layout is sound for every geometry that fits together.
THEOREM LayoutIsSound == LayoutSound
  BY CountsFit, LayoutFits, ResizeFits, GeometryAssumption DEF LayoutSound

\* What the last writer leaves behind when it has written all.
LastWritten ==
  done["csum"] = Writes["csum"] =>
    /\ gdt = "sums"
    /\ sums = [bb |-> done["bb"], ib |-> done["ib"]]
    /\ backup = [super |-> done["super"], gdt |-> "sums"]
ImageInv ==
  /\ DOMAIN done = Parts
  /\ at \in Parts \cup {"create", "close", "end"}
  /\ at = "close" => LastWritten
  /\ file = "kept" => at = "end" /\ done = Writes /\ LastWritten
\* The order of the writers: the last one is that of the backups.
LEMMA Orders ==
  /\ Parts = {"super", "gdt", "bb", "ib", "root", "journal", "inodes", "resize", "csum"}
  /\ \A p \in Parts \ {"csum"} : Following[p] \in Parts
  /\ Following["csum"] = "close"
<1>1. Len(Order) = 9
  BY DEF Order
<1>2. \A p \in Parts : \E k \in 1 .. 9 : Order[k] = p
  BY <1>1 DEF Parts
<1>3. Parts = {"super", "gdt", "bb", "ib", "root", "journal", "inodes", "resize", "csum"}
  BY <1>1 DEF Parts, Order
<1>4. ASSUME NEW p \in Parts \ {"csum"} PROVE Following[p] \in Parts
  <2>1. PICK i \in 1 .. 9 : i = (CHOOSE k \in 1 .. 9 : Order[k] = p) /\ Order[i] = p
    BY <1>2
  <2>2. i # 9
    <3>1. Order[9] = "csum"
      BY DEF Order
    <3>2. QED
      BY <2>1, <3>1
  <2>3. Following[p] = Order[i + 1]
    BY <1>1, <2>1, <2>2 DEF Following
  <2>4. i + 1 \in 1 .. Len(Order)
    BY <1>1, <2>2
  <2>5. QED
    BY <2>3, <2>4 DEF Parts
<1>5. Following["csum"] = "close"
  <2>1. "csum" \in Parts
    BY <1>3
  <2>2. PICK i \in 1 .. 9 : i = (CHOOSE k \in 1 .. 9 : Order[k] = "csum") /\ Order[i] = "csum"
    BY <1>2, <2>1
  <2>3. i = 9
    BY <2>2 DEF Order
  <2>4. QED
    BY <1>1, <2>1, <2>2, <2>3 DEF Following
<1>6. QED
  BY <1>3, <1>4, <1>5

LEMMA WriteCounts ==
  /\ Writes["csum"] \in Nat /\ Writes["csum"] >= 3
  /\ Writes["super"] = 1 /\ Writes["bb"] = GROUPS /\ Writes["ib"] = GROUPS
<1>1. Cardinality(Backups) \in Nat /\ Cardinality(Backups) # 0
  BY HostFacts, BackupFacts, FS_EmptySet
<1>2. QED
  BY <1>1 DEF Writes

LEMMA ImageStep == ImageInv /\ [ImageNext]_imagevars => ImageInv'
<1> SUFFICES ASSUME ImageInv, [ImageNext]_imagevars PROVE ImageInv'
  OBVIOUS
<1>1. CASE UNCHANGED imagevars
  BY <1>1 DEF ImageInv, LastWritten, imagevars
<1>2. CASE CreateImage
  BY <1>2, Orders DEF CreateImage, ImageInv, LastWritten, FaultIf, Order, Parts
<1>3. CASE WriteGdt
  <2>1. "gdt" \in Parts /\ Following["gdt"] \in Parts /\ Following["gdt"] \notin {"close", "end"}
    BY Orders
  <2>2. file # "kept" /\ file' = file /\ at' = Following["gdt"] /\ DOMAIN done' = DOMAIN done
    BY <1>3 DEF WriteGdt, ImageInv
  <2>3. QED
    BY <2>1, <2>2 DEF ImageInv
<1>4. CASE \E p \in Parts : WritePart(p)
  <2>1. PICK p \in Parts : WritePart(p)
    BY <1>4
  <2>2. Following[p] \in Parts /\ Following[p] \notin {"close", "end"} /\ p # "end"
    BY <2>1, Orders DEF WritePart
  <2>3. file # "kept" /\ file' = file /\ at' = Following[p] /\ DOMAIN done' = DOMAIN done
    BY <2>1, <2>2 DEF WritePart, ImageInv
  <2>4. QED
    BY <2>2, <2>3 DEF ImageInv
<1>5. CASE WriteCsumBackups
  <2>1. PICK n \in {0, 1, Writes["csum"] - 1, Writes["csum"]}, reads \in BOOLEAN :
          /\ ~reads => n = 0
          /\ done' = [done EXCEPT !["csum"] = n]
          /\ sums' = IF reads THEN [bb |-> done["bb"], ib |-> done["ib"]] ELSE sums
          /\ gdt' = IF n > 0 THEN "sums" ELSE gdt
          /\ backup' = IF n > 1 THEN [super |-> done["super"], gdt |-> "sums"] ELSE backup
    BY <1>5 DEF WriteCsumBackups
  <2>2. at = "csum" /\ at' = "close" /\ file' = file
    BY <1>5, Orders DEF WriteCsumBackups
  <2>3. file # "kept" /\ DOMAIN done' = DOMAIN done
    BY <2>1, <2>2 DEF ImageInv
  <2>4. /\ done'["csum"] = n /\ done'["bb"] = done["bb"] /\ done'["ib"] = done["ib"]
        /\ done'["super"] = done["super"]
    BY <2>1, Orders DEF ImageInv
  <2>5. LastWritten'
    <3>1. SUFFICES ASSUME n = Writes["csum"]
                   PROVE  /\ gdt' = "sums" /\ sums' = [bb |-> done["bb"], ib |-> done["ib"]]
                          /\ backup' = [super |-> done["super"], gdt |-> "sums"]
      BY <2>4 DEF LastWritten
    <3>2. reads /\ n > 0 /\ n > 1
      BY <2>1, <3>1, WriteCounts
    <3>3. QED
      BY <2>1, <3>2
  <2>6. QED
    BY <2>2, <2>3, <2>5 DEF ImageInv
<1>6. CASE Close
  BY <1>6 DEF Close, ImageInv, LastWritten
<1>7. QED
  BY <1>1, <1>2, <1>3, <1>4, <1>5, <1>6 DEF ImageNext

\* An image that ext4_create_img keeps is a sound file system.
THEOREM KeptIsSound == ImageSpec => []ImageSound
<1>1. ImageInit => ImageInv
  BY Orders DEF ImageInit, ImageInv
<1>2. ImageInv => ImageSound
  <2> SUFFICES ASSUME ImageInv, file = "kept"
               PROVE  /\ done = Writes /\ gdt = "sums" /\ sums = [bb |-> GROUPS, ib |-> GROUPS]
                      /\ backup = [super |-> 1, gdt |-> gdt] /\ LayoutSound
    BY DEF ImageSound
  <2>1. done = Writes /\ LastWritten
    BY DEF ImageInv
  <2>2. QED
    BY <2>1, WriteCounts, LayoutIsSound DEF LastWritten
<1>3. QED
  BY <1>1, <1>2, ImageStep, PTL DEF ImageSpec
=============================================================================
