---------------------------- MODULE SpawnProofs ----------------------------
(***************************************************************************)
(* Proofs about the spawn chain and its clean-up, for any number of        *)
(* sessions, with and without network and cgroup, and any failing step.    *)
(***************************************************************************)
EXTENDS Spawn, TLAPS

\* The steps before the session has a cgroup, and those with one (with -C).
Early == {"pidfile", "pidlock", "net", "cgtype", "rootfutex", "appdir", "cgmount", "cgroot", "cgmkdir"}
Late == {"cgmove", "cgenable", "mkdtemp", "unshare", "fork", "wait"}
Closing == {"cgcheck", "cgleave", "cgrmdir", "release"}
Over == {"done", "failed"}

\* The child is there from the fork until it is reaped.
ChildInv ==
  \A s \in Sessions :
    /\ pc[s] \in Setup \cup {"clean"} => cpc[s] = "none"
    /\ pc[s] \in Closing \cup Over => cpc[s] \in {"none", "reaped"}
    /\ cpc[s] = "enter" => s \in CgSessions

\* spawn_cleanup knows nothing of the temp root, so nothing may come there
\* with one but by a refused removal; only a reaped child's root is the
\* parent's to remove.
HeldInv ==
  \A s \in Sessions :
    /\ pc[s] = "pidfile" => held[s] = {}
    /\ pc[s] = "pidlock" => held[s] \subseteq {"pidfile"}
    /\ pc[s] \in Closing => held[s] \subseteq {"root"} \cup refused[s]
    /\ "root" \in held[s] =>
         \/ pc[s] \in {"unshare", "fork", "wait"}
         \/ pc[s] \in Closing /\ cpc[s] = "reaped"
         \/ "root" \in refused[s]
    /\ pc[s] \in Over => held[s] \subseteq refused[s]

\* The retries of write_enable_controllers.
TriesInv ==
  \A s \in Sessions :
    /\ pc[s] \in Early \cup {"cgmove"} => tries[s] = 0
    /\ pc[s] = "cgenable" => tries[s] < MaxTries

\* A parent is in the root or in its own cgroup, and a child in the one or in
\* the one it makes itself.
PlaceInv ==
  \A s \in Sessions :
    /\ where[s] \in {<<>>, Cage(s)}
    /\ cwhere[s] \in {<<>>, Cage(s), Inner(s)}
    /\ pc[s] = "cgrmdir" => s \in stuck \/ where[s] = <<>>

\* When the cgroups of a session are there.
DirsOk(s) ==
  /\ pc[s] \in {"cgmount", "cgroot", "cgmkdir"} => s \in CgSessions
  /\ s \notin CgSessions => Under(s) \cap dirs = {}
  /\ pc[s] \in Early => Under(s) \cap dirs = {}
  /\ s \in CgSessions /\ pc[s] \in Late => Cage(s) \in dirs
  /\ pc[s] \in {"cgleave", "cgrmdir"} => Cage(s) \in dirs
  /\ Under(s) \cap dirs # {} => Cage(s) \in dirs
  /\ pc[s] \in {"release"} \cup Over => s \in stuck \/ Under(s) \cap dirs = {}
DirsInv == \A s \in Sessions : DirsOk(s)

IInv == TypeOK /\ ChildInv /\ HeldInv /\ TriesInv /\ PlaceInv /\ DirsInv

-----------------------------------------------------------------------------
\* The cgroups of different sessions are different paths.
LEMMA Paths ==
  /\ \A s \in Sessions :
       /\ <<>> \notin Under(s)
       /\ Cage(s) # Inner(s) /\ Cage(s) # Guest(s) /\ Inner(s) # Guest(s)
  /\ \A s, t \in Sessions : s # t => Under(s) \cap Under(t) = {}
  /\ <<>> \in Groups
  /\ \A s \in Sessions : Under(s) \subseteq Groups
<1>1. \A s, t \in Sessions : Cage(s) # Inner(t) /\ Cage(s) # Guest(t) /\ Inner(s) # Guest(t)
  BY DEF Cage, Inner, Guest
<1>2. \A s \in Sessions : <<>> # Cage(s) /\ <<>> # Inner(s) /\ <<>> # Guest(s)
  BY DEF Cage, Inner, Guest
<1>3. \A s, t \in Sessions : s # t =>
        Cage(s) # Cage(t) /\ Inner(s) # Inner(t) /\ Guest(s) # Guest(t)
  BY DEF Cage, Inner, Guest
<1>4. <<>> \in Groups /\ \A s \in Sessions : Under(s) \subseteq Groups
  BY DEF Groups
<1>5. QED
  BY <1>1, <1>2, <1>3, <1>4 DEF Under

-----------------------------------------------------------------------------
(* One lemma for each part of the invariant, one case for each action.     *)

\* The parts of TypeOK.
PcTyped ==
  /\ pc \in [Sessions -> Setup \cup Teardown \cup {"wait", "done", "failed"}]
  /\ cpc \in [Sessions -> ChildSteps]
HeldTyped == held \in [Sessions -> SUBSET Resources] /\ refused \in [Sessions -> SUBSET OnDisk]
GroupsTyped ==
  /\ dirs \in SUBSET Groups
  /\ where \in [Sessions -> Groups]
  /\ cwhere \in [Sessions -> Groups]
TriesTyped ==
  /\ tries \in [Sessions -> 0 .. MaxTries]
  /\ delegated \in SUBSET Sessions /\ stuck \in SUBSET Sessions

LEMMA PcTypeKept ==
  ASSUME SpawnAssumption, TypeOK, [Next]_vars
  PROVE  PcTyped'
<1>. USE DEF TypeOK, PcTyped, Setup, Teardown, ChildSteps
<1>1. ASSUME NEW s \in Sessions, SetupStep(s) \/ ChildStep(s) \/ EndStep(s)
      PROVE  PcTyped'
  <2>1. CASE CreatePidfile(s)
    BY <2>1 DEF CreatePidfile, Acquire, Goto, cgvars
  <2>2. CASE SetupNet(s)
    BY <2>2 DEF SetupNet, Take, Acquire, Goto, cgvars
  <2>3. CASE SetupCgroup(s)
    BY <2>3 DEF SetupCgroup, Goto, cgvars
  <2>4. CASE CreateRootFutex(s)
    BY <2>4 DEF CreateRootFutex, Take, Acquire, Goto, cgvars
  <2>5. CASE EarlySetupAppdir(s)
    BY <2>5 DEF EarlySetupAppdir, Check, Goto, cgvars
  <2>6. CASE DetectMount(s)
    BY <2>6 DEF DetectMount, Check, Goto, cgvars
  <2>7. CASE EnableRoot(s)
    BY <2>7 DEF EnableRoot, Check, Goto, cgvars
  <2>8. CASE MakeCgroupDir(s)
    BY <2>8 DEF MakeCgroupDir, Goto, cgvars
  <2>9. CASE WriteProcs(s)
    BY <2>9 DEF WriteProcs, Goto, cgvars
  <2>10. CASE WriteEnable(s)
    BY <2>10 DEF WriteEnable, Goto, cgvars
  <2>11. CASE MakeRoot(s)
    BY <2>11 DEF MakeRoot, Take, Acquire, Goto, cgvars
  <2>12. CASE NsSetup(s)
    BY <2>12 DEF NsSetup, Goto, cgvars
  <2>13. CASE ForkChild(s)
    BY <2>13 DEF ForkChild, Goto, cgvars
  <2>14. CASE MountRoot(s)
    BY <2>14 DEF MountRoot, Goto, cgvars
  <2>15. CASE CgroupEnter(s)
    BY <2>15 DEF CgroupEnter, Goto, cgvars
  <2>16. CASE GuestMkdir(s)
    BY <2>16 DEF GuestMkdir, Goto, cgvars
  <2>17. CASE ChildDies(s)
    BY <2>17 DEF ChildDies, Goto, cgvars
  <2>18. CASE SpawnCleanup(s)
    BY <2>18 DEF SpawnCleanup, Goto, cgvars
  <2>19. CASE FinishChild(s)
    BY <2>19 DEF FinishChild, Goto, cgvars
  <2>20. CASE CgroupCleanup(s)
    BY <2>20 DEF CgroupCleanup, Goto, cgvars
  <2>21. CASE CgroupLeave(s)
    BY <2>21 DEF CgroupLeave, Goto, cgvars
  <2>22. CASE CgroupRmdir(s)
    BY <2>22 DEF CgroupRmdir, Goto, cgvars
  <2>23. CASE Release(s)
    BY <2>23 DEF Release, Goto, cgvars
  <2>24. CASE LockPidfile(s)
    BY <2>24 DEF LockPidfile, Goto, cgvars
  <2>25. QED
    BY <1>1, <2>1, <2>2, <2>3, <2>4, <2>5, <2>6, <2>7, <2>8, <2>9, <2>10, <2>11, <2>12,
       <2>13, <2>14, <2>15, <2>16, <2>17, <2>18, <2>19, <2>20, <2>21, <2>22, <2>23, <2>24 DEF SetupStep, ChildStep, EndStep
<1>2. CASE AllOver \/ UNCHANGED vars
  BY <1>2 DEF AllOver, vars
<1>3. QED
  BY <1>1, <1>2 DEF Next

\* Giving back keeps the types of what is held and of what is left.
LEMMA DropTyped ==
  ASSUME TypeOK, NEW s \in Sessions, NEW X, Drop(s, X)
  PROVE  HeldTyped'
<1>1. PICK K \in SUBSET (X \cap held[s] \cap OnDisk) :
        /\ held' = [held EXCEPT ![s] = @ \ (X \ K)]
        /\ refused' = [refused EXCEPT ![s] = @ \cup K]
  BY DEF Drop
<1>2. held[s] \ (X \ K) \in SUBSET Resources /\ refused[s] \cup K \in SUBSET OnDisk
  BY <1>1 DEF TypeOK
<1>3. QED
  BY <1>1, <1>2 DEF TypeOK, HeldTyped

LEMMA HeldTypeKept ==
  ASSUME SpawnAssumption, TypeOK, [Next]_vars
  PROVE  HeldTyped'
<1>. USE DEF TypeOK, HeldTyped, Resources, OnDisk
<1>1. ASSUME NEW s \in Sessions, SetupStep(s) \/ ChildStep(s) \/ EndStep(s)
      PROVE  HeldTyped'
  <2>1. CASE CreatePidfile(s)
    BY <2>1 DEF CreatePidfile, Acquire, Goto, cgvars
  <2>2. CASE SetupNet(s)
    BY <2>2 DEF SetupNet, Take, Acquire, Goto, cgvars
  <2>3. CASE SetupCgroup(s)
    BY <2>3 DEF SetupCgroup, Goto, cgvars
  <2>4. CASE CreateRootFutex(s)
    BY <2>4 DEF CreateRootFutex, Take, Acquire, Goto, cgvars
  <2>5. CASE EarlySetupAppdir(s)
    BY <2>5 DEF EarlySetupAppdir, Check, Goto, cgvars
  <2>6. CASE DetectMount(s)
    BY <2>6 DEF DetectMount, Check, Goto, cgvars
  <2>7. CASE EnableRoot(s)
    BY <2>7 DEF EnableRoot, Check, Goto, cgvars
  <2>8. CASE MakeCgroupDir(s)
    BY <2>8 DEF MakeCgroupDir, Goto, cgvars
  <2>9. CASE WriteProcs(s)
    BY <2>9 DEF WriteProcs, Goto, cgvars
  <2>10. CASE WriteEnable(s)
    BY <2>10 DEF WriteEnable, Goto, cgvars
  <2>11. CASE MakeRoot(s)
    BY <2>11 DEF MakeRoot, Take, Acquire, Goto, cgvars
  <2>12. CASE NsSetup(s)
    BY <2>12, DropTyped DEF NsSetup, Goto, cgvars
  <2>13. CASE ForkChild(s)
    BY <2>13, DropTyped DEF ForkChild, Goto, cgvars
  <2>14. CASE MountRoot(s)
    BY <2>14 DEF MountRoot, Goto, cgvars
  <2>15. CASE CgroupEnter(s)
    BY <2>15 DEF CgroupEnter, Goto, cgvars
  <2>16. CASE GuestMkdir(s)
    BY <2>16 DEF GuestMkdir, Goto, cgvars
  <2>17. CASE ChildDies(s)
    BY <2>17 DEF ChildDies, Goto, cgvars
  <2>18. CASE SpawnCleanup(s)
    BY <2>18, DropTyped DEF SpawnCleanup, Goto, cgvars
  <2>19. CASE FinishChild(s)
    BY <2>19, DropTyped DEF FinishChild, Goto, cgvars
  <2>20. CASE CgroupCleanup(s)
    BY <2>20 DEF CgroupCleanup, Goto, cgvars
  <2>21. CASE CgroupLeave(s)
    BY <2>21 DEF CgroupLeave, Goto, cgvars
  <2>22. CASE CgroupRmdir(s)
    BY <2>22 DEF CgroupRmdir, Goto, cgvars
  <2>23. CASE Release(s)
    BY <2>23, DropTyped DEF Release, Goto, cgvars
  <2>24. CASE LockPidfile(s)
    BY <2>24 DEF LockPidfile, Goto, cgvars
  <2>25. QED
    BY <1>1, <2>1, <2>2, <2>3, <2>4, <2>5, <2>6, <2>7, <2>8, <2>9, <2>10, <2>11, <2>12,
       <2>13, <2>14, <2>15, <2>16, <2>17, <2>18, <2>19, <2>20, <2>21, <2>22, <2>23, <2>24 DEF SetupStep, ChildStep, EndStep
<1>2. CASE AllOver \/ UNCHANGED vars
  BY <1>2 DEF AllOver, vars
<1>3. QED
  BY <1>1, <1>2 DEF Next

LEMMA GroupsTypeKept ==
  ASSUME SpawnAssumption, TypeOK, [Next]_vars
  PROVE  GroupsTyped'
<1>. USE DEF TypeOK, GroupsTyped, Under
<1>1. ASSUME NEW s \in Sessions, SetupStep(s) \/ ChildStep(s) \/ EndStep(s)
      PROVE  GroupsTyped'
  <2>1. CASE CreatePidfile(s)
    BY <2>1, Paths DEF CreatePidfile, Acquire, Goto, cgvars
  <2>2. CASE SetupNet(s)
    BY <2>2, Paths DEF SetupNet, Take, Acquire, Goto, cgvars
  <2>3. CASE SetupCgroup(s)
    BY <2>3, Paths DEF SetupCgroup, Goto, cgvars
  <2>4. CASE CreateRootFutex(s)
    BY <2>4, Paths DEF CreateRootFutex, Take, Acquire, Goto, cgvars
  <2>5. CASE EarlySetupAppdir(s)
    BY <2>5, Paths DEF EarlySetupAppdir, Check, Goto, cgvars
  <2>6. CASE DetectMount(s)
    BY <2>6, Paths DEF DetectMount, Check, Goto, cgvars
  <2>7. CASE EnableRoot(s)
    BY <2>7, Paths DEF EnableRoot, Check, Goto, cgvars
  <2>8. CASE MakeCgroupDir(s)
    BY <2>8, Paths DEF MakeCgroupDir, Goto, cgvars
  <2>9. CASE WriteProcs(s)
    BY <2>9, Paths DEF WriteProcs, Goto, cgvars
  <2>10. CASE WriteEnable(s)
    BY <2>10, Paths DEF WriteEnable, Goto, cgvars
  <2>11. CASE MakeRoot(s)
    BY <2>11, Paths DEF MakeRoot, Take, Acquire, Goto, cgvars
  <2>12. CASE NsSetup(s)
    BY <2>12, Paths DEF NsSetup, Goto, cgvars
  <2>13. CASE ForkChild(s)
    BY <2>13, Paths DEF ForkChild, Goto, cgvars
  <2>14. CASE MountRoot(s)
    BY <2>14, Paths DEF MountRoot, Goto, cgvars
  <2>15. CASE CgroupEnter(s)
    BY <2>15, Paths DEF CgroupEnter, Goto, cgvars
  <2>16. CASE GuestMkdir(s)
    BY <2>16, Paths DEF GuestMkdir, Goto, cgvars
  <2>17. CASE ChildDies(s)
    BY <2>17, Paths DEF ChildDies, Goto, cgvars
  <2>18. CASE SpawnCleanup(s)
    BY <2>18, Paths DEF SpawnCleanup, Goto, cgvars
  <2>19. CASE FinishChild(s)
    BY <2>19, Paths DEF FinishChild, Goto, cgvars
  <2>20. CASE CgroupCleanup(s)
    BY <2>20, Paths DEF CgroupCleanup, Goto, cgvars
  <2>21. CASE CgroupLeave(s)
    BY <2>21, Paths DEF CgroupLeave, Goto, cgvars
  <2>22. CASE CgroupRmdir(s)
    BY <2>22, Paths DEF CgroupRmdir, Goto, cgvars
  <2>23. CASE Release(s)
    BY <2>23, Paths DEF Release, Goto, cgvars
  <2>24. CASE LockPidfile(s)
    BY <2>24, Paths DEF LockPidfile, Goto, cgvars
  <2>25. QED
    BY <1>1, <2>1, <2>2, <2>3, <2>4, <2>5, <2>6, <2>7, <2>8, <2>9, <2>10, <2>11, <2>12,
       <2>13, <2>14, <2>15, <2>16, <2>17, <2>18, <2>19, <2>20, <2>21, <2>22, <2>23, <2>24 DEF SetupStep, ChildStep, EndStep
<1>2. CASE AllOver \/ UNCHANGED vars
  BY <1>2 DEF AllOver, vars
<1>3. QED
  BY <1>1, <1>2 DEF Next

LEMMA TriesTypeKept ==
  ASSUME SpawnAssumption, TypeOK, TriesInv, [Next]_vars
  PROVE  TriesTyped'
<1>. USE DEF TypeOK, TriesInv, TriesTyped, SpawnAssumption
<1>1. ASSUME NEW s \in Sessions, SetupStep(s) \/ ChildStep(s) \/ EndStep(s)
      PROVE  TriesTyped'
  <2>1. CASE CreatePidfile(s)
    BY <2>1 DEF CreatePidfile, Acquire, Goto, cgvars
  <2>2. CASE SetupNet(s)
    BY <2>2 DEF SetupNet, Take, Acquire, Goto, cgvars
  <2>3. CASE SetupCgroup(s)
    BY <2>3 DEF SetupCgroup, Goto, cgvars
  <2>4. CASE CreateRootFutex(s)
    BY <2>4 DEF CreateRootFutex, Take, Acquire, Goto, cgvars
  <2>5. CASE EarlySetupAppdir(s)
    BY <2>5 DEF EarlySetupAppdir, Check, Goto, cgvars
  <2>6. CASE DetectMount(s)
    BY <2>6 DEF DetectMount, Check, Goto, cgvars
  <2>7. CASE EnableRoot(s)
    BY <2>7 DEF EnableRoot, Check, Goto, cgvars
  <2>8. CASE MakeCgroupDir(s)
    BY <2>8 DEF MakeCgroupDir, Goto, cgvars
  <2>9. CASE WriteProcs(s)
    BY <2>9 DEF WriteProcs, Goto, cgvars
  <2>10. CASE WriteEnable(s)
    BY <2>10 DEF WriteEnable, Goto, cgvars
  <2>11. CASE MakeRoot(s)
    BY <2>11 DEF MakeRoot, Take, Acquire, Goto, cgvars
  <2>12. CASE NsSetup(s)
    BY <2>12 DEF NsSetup, Goto, cgvars
  <2>13. CASE ForkChild(s)
    BY <2>13 DEF ForkChild, Goto, cgvars
  <2>14. CASE MountRoot(s)
    BY <2>14 DEF MountRoot, Goto, cgvars
  <2>15. CASE CgroupEnter(s)
    BY <2>15 DEF CgroupEnter, Goto, cgvars
  <2>16. CASE GuestMkdir(s)
    BY <2>16 DEF GuestMkdir, Goto, cgvars
  <2>17. CASE ChildDies(s)
    BY <2>17 DEF ChildDies, Goto, cgvars
  <2>18. CASE SpawnCleanup(s)
    BY <2>18 DEF SpawnCleanup, Goto, cgvars
  <2>19. CASE FinishChild(s)
    BY <2>19 DEF FinishChild, Goto, cgvars
  <2>20. CASE CgroupCleanup(s)
    BY <2>20 DEF CgroupCleanup, Goto, cgvars
  <2>21. CASE CgroupLeave(s)
    BY <2>21 DEF CgroupLeave, Goto, cgvars
  <2>22. CASE CgroupRmdir(s)
    BY <2>22 DEF CgroupRmdir, Goto, cgvars
  <2>23. CASE Release(s)
    BY <2>23 DEF Release, Goto, cgvars
  <2>24. CASE LockPidfile(s)
    BY <2>24 DEF LockPidfile, Goto, cgvars
  <2>25. QED
    BY <1>1, <2>1, <2>2, <2>3, <2>4, <2>5, <2>6, <2>7, <2>8, <2>9, <2>10, <2>11, <2>12,
       <2>13, <2>14, <2>15, <2>16, <2>17, <2>18, <2>19, <2>20, <2>21, <2>22, <2>23, <2>24 DEF SetupStep, ChildStep, EndStep
<1>2. CASE AllOver \/ UNCHANGED vars
  BY <1>2 DEF AllOver, vars
<1>3. QED
  BY <1>1, <1>2 DEF Next

LEMMA ChildKept ==
  ASSUME SpawnAssumption, TypeOK, ChildInv, [Next]_vars
  PROVE  ChildInv'
<1>. USE DEF TypeOK, ChildInv, Setup, Closing, Over
<1>1. ASSUME NEW s \in Sessions, SetupStep(s) \/ ChildStep(s) \/ EndStep(s)
      PROVE  ChildInv'
  <2>1. CASE CreatePidfile(s)
    BY <2>1 DEF CreatePidfile, Acquire, Goto, cgvars
  <2>2. CASE SetupNet(s)
    BY <2>2 DEF SetupNet, Take, Acquire, Goto, cgvars
  <2>3. CASE SetupCgroup(s)
    BY <2>3 DEF SetupCgroup, Goto, cgvars
  <2>4. CASE CreateRootFutex(s)
    BY <2>4 DEF CreateRootFutex, Take, Acquire, Goto, cgvars
  <2>5. CASE EarlySetupAppdir(s)
    BY <2>5 DEF EarlySetupAppdir, Check, Goto, cgvars
  <2>6. CASE DetectMount(s)
    BY <2>6 DEF DetectMount, Check, Goto, cgvars
  <2>7. CASE EnableRoot(s)
    BY <2>7 DEF EnableRoot, Check, Goto, cgvars
  <2>8. CASE MakeCgroupDir(s)
    BY <2>8 DEF MakeCgroupDir, Goto, cgvars
  <2>9. CASE WriteProcs(s)
    BY <2>9 DEF WriteProcs, Goto, cgvars
  <2>10. CASE WriteEnable(s)
    BY <2>10 DEF WriteEnable, Goto, cgvars
  <2>11. CASE MakeRoot(s)
    BY <2>11 DEF MakeRoot, Take, Acquire, Goto, cgvars
  <2>12. CASE NsSetup(s)
    BY <2>12 DEF NsSetup, Goto, cgvars
  <2>13. CASE ForkChild(s)
    BY <2>13 DEF ForkChild, Goto, cgvars
  <2>14. CASE MountRoot(s)
    BY <2>14 DEF MountRoot, Goto, cgvars
  <2>15. CASE CgroupEnter(s)
    BY <2>15 DEF CgroupEnter, Goto, cgvars
  <2>16. CASE GuestMkdir(s)
    BY <2>16 DEF GuestMkdir, Goto, cgvars
  <2>17. CASE ChildDies(s)
    BY <2>17 DEF ChildDies, Goto, cgvars
  <2>18. CASE SpawnCleanup(s)
    BY <2>18 DEF SpawnCleanup, Goto, cgvars
  <2>19. CASE FinishChild(s)
    BY <2>19 DEF FinishChild, Goto, cgvars
  <2>20. CASE CgroupCleanup(s)
    BY <2>20 DEF CgroupCleanup, Goto, cgvars
  <2>21. CASE CgroupLeave(s)
    BY <2>21 DEF CgroupLeave, Goto, cgvars
  <2>22. CASE CgroupRmdir(s)
    BY <2>22 DEF CgroupRmdir, Goto, cgvars
  <2>23. CASE Release(s)
    BY <2>23 DEF Release, Goto, cgvars
  <2>24. CASE LockPidfile(s)
    BY <2>24 DEF LockPidfile, Goto, cgvars
  <2>25. QED
    BY <1>1, <2>1, <2>2, <2>3, <2>4, <2>5, <2>6, <2>7, <2>8, <2>9, <2>10, <2>11, <2>12,
       <2>13, <2>14, <2>15, <2>16, <2>17, <2>18, <2>19, <2>20, <2>21, <2>22, <2>23, <2>24 DEF SetupStep, ChildStep, EndStep
<1>2. CASE AllOver \/ UNCHANGED vars
  BY <1>2 DEF AllOver, vars
<1>3. QED
  BY <1>1, <1>2 DEF Next

LEMMA HeldKept ==
  ASSUME SpawnAssumption, TypeOK, ChildInv, HeldInv, [Next]_vars
  PROVE  HeldInv'
<1>. USE DEF TypeOK, ChildInv, HeldInv, Setup, Resources, OnDisk, Closing, Over
<1>1. ASSUME NEW s \in Sessions, SetupStep(s) \/ ChildStep(s) \/ EndStep(s)
      PROVE  HeldInv'
  <2>1. CASE CreatePidfile(s)
    BY <2>1 DEF CreatePidfile, Acquire, Goto, cgvars
  <2>2. CASE SetupNet(s)
    BY <2>2 DEF SetupNet, Take, Acquire, Goto, cgvars
  <2>3. CASE SetupCgroup(s)
    BY <2>3 DEF SetupCgroup, Goto, cgvars
  <2>4. CASE CreateRootFutex(s)
    BY <2>4 DEF CreateRootFutex, Take, Acquire, Goto, cgvars
  <2>5. CASE EarlySetupAppdir(s)
    BY <2>5 DEF EarlySetupAppdir, Check, Goto, cgvars
  <2>6. CASE DetectMount(s)
    BY <2>6 DEF DetectMount, Check, Goto, cgvars
  <2>7. CASE EnableRoot(s)
    BY <2>7 DEF EnableRoot, Check, Goto, cgvars
  <2>8. CASE MakeCgroupDir(s)
    BY <2>8 DEF MakeCgroupDir, Goto, cgvars
  <2>9. CASE WriteProcs(s)
    BY <2>9 DEF WriteProcs, Goto, cgvars
  <2>10. CASE WriteEnable(s)
    BY <2>10 DEF WriteEnable, Goto, cgvars
  <2>11. CASE MakeRoot(s)
    BY <2>11 DEF MakeRoot, Take, Acquire, Goto, cgvars
  <2>12. CASE NsSetup(s)
    BY <2>12 DEF NsSetup, Drop, Goto, cgvars
  <2>13. CASE ForkChild(s)
    BY <2>13 DEF ForkChild, Drop, Goto, cgvars
  <2>14. CASE MountRoot(s)
    BY <2>14 DEF MountRoot, Goto, cgvars
  <2>15. CASE CgroupEnter(s)
    BY <2>15 DEF CgroupEnter, Goto, cgvars
  <2>16. CASE GuestMkdir(s)
    BY <2>16 DEF GuestMkdir, Goto, cgvars
  <2>17. CASE ChildDies(s)
    BY <2>17 DEF ChildDies, Goto, cgvars
  <2>18. CASE SpawnCleanup(s)
    BY <2>18 DEF SpawnCleanup, Drop, Goto, cgvars
  <2>19. CASE FinishChild(s)
    BY <2>19 DEF FinishChild, Drop, Goto, cgvars
  <2>20. CASE CgroupCleanup(s)
    BY <2>20 DEF CgroupCleanup, Goto, cgvars
  <2>21. CASE CgroupLeave(s)
    BY <2>21 DEF CgroupLeave, Goto, cgvars
  <2>22. CASE CgroupRmdir(s)
    BY <2>22 DEF CgroupRmdir, Goto, cgvars
  <2>23. CASE Release(s)
    BY <2>23 DEF Release, Drop, Goto, cgvars
  <2>24. CASE LockPidfile(s)
    BY <2>24 DEF LockPidfile, Goto, cgvars
  <2>25. QED
    BY <1>1, <2>1, <2>2, <2>3, <2>4, <2>5, <2>6, <2>7, <2>8, <2>9, <2>10, <2>11, <2>12,
       <2>13, <2>14, <2>15, <2>16, <2>17, <2>18, <2>19, <2>20, <2>21, <2>22, <2>23, <2>24 DEF SetupStep, ChildStep, EndStep
<1>2. CASE AllOver \/ UNCHANGED vars
  BY <1>2 DEF AllOver, vars
<1>3. QED
  BY <1>1, <1>2 DEF Next

LEMMA TriesKept ==
  ASSUME SpawnAssumption, TypeOK, TriesInv, [Next]_vars
  PROVE  TriesInv'
<1>. USE DEF TypeOK, TriesInv, SpawnAssumption, Early
<1>1. ASSUME NEW s \in Sessions, SetupStep(s) \/ ChildStep(s) \/ EndStep(s)
      PROVE  TriesInv'
  <2>1. CASE CreatePidfile(s)
    BY <2>1 DEF CreatePidfile, Acquire, Goto, cgvars
  <2>2. CASE SetupNet(s)
    BY <2>2 DEF SetupNet, Take, Acquire, Goto, cgvars
  <2>3. CASE SetupCgroup(s)
    BY <2>3 DEF SetupCgroup, Goto, cgvars
  <2>4. CASE CreateRootFutex(s)
    BY <2>4 DEF CreateRootFutex, Take, Acquire, Goto, cgvars
  <2>5. CASE EarlySetupAppdir(s)
    BY <2>5 DEF EarlySetupAppdir, Check, Goto, cgvars
  <2>6. CASE DetectMount(s)
    BY <2>6 DEF DetectMount, Check, Goto, cgvars
  <2>7. CASE EnableRoot(s)
    BY <2>7 DEF EnableRoot, Check, Goto, cgvars
  <2>8. CASE MakeCgroupDir(s)
    BY <2>8 DEF MakeCgroupDir, Goto, cgvars
  <2>9. CASE WriteProcs(s)
    BY <2>9 DEF WriteProcs, Goto, cgvars
  <2>10. CASE WriteEnable(s)
    BY <2>10 DEF WriteEnable, Goto, cgvars
  <2>11. CASE MakeRoot(s)
    BY <2>11 DEF MakeRoot, Take, Acquire, Goto, cgvars
  <2>12. CASE NsSetup(s)
    BY <2>12 DEF NsSetup, Goto, cgvars
  <2>13. CASE ForkChild(s)
    BY <2>13 DEF ForkChild, Goto, cgvars
  <2>14. CASE MountRoot(s)
    BY <2>14 DEF MountRoot, Goto, cgvars
  <2>15. CASE CgroupEnter(s)
    BY <2>15 DEF CgroupEnter, Goto, cgvars
  <2>16. CASE GuestMkdir(s)
    BY <2>16 DEF GuestMkdir, Goto, cgvars
  <2>17. CASE ChildDies(s)
    BY <2>17 DEF ChildDies, Goto, cgvars
  <2>18. CASE SpawnCleanup(s)
    BY <2>18 DEF SpawnCleanup, Goto, cgvars
  <2>19. CASE FinishChild(s)
    BY <2>19 DEF FinishChild, Goto, cgvars
  <2>20. CASE CgroupCleanup(s)
    BY <2>20 DEF CgroupCleanup, Goto, cgvars
  <2>21. CASE CgroupLeave(s)
    BY <2>21 DEF CgroupLeave, Goto, cgvars
  <2>22. CASE CgroupRmdir(s)
    BY <2>22 DEF CgroupRmdir, Goto, cgvars
  <2>23. CASE Release(s)
    BY <2>23 DEF Release, Goto, cgvars
  <2>24. CASE LockPidfile(s)
    BY <2>24 DEF LockPidfile, Goto, cgvars
  <2>25. QED
    BY <1>1, <2>1, <2>2, <2>3, <2>4, <2>5, <2>6, <2>7, <2>8, <2>9, <2>10, <2>11, <2>12,
       <2>13, <2>14, <2>15, <2>16, <2>17, <2>18, <2>19, <2>20, <2>21, <2>22, <2>23, <2>24 DEF SetupStep, ChildStep, EndStep
<1>2. CASE AllOver \/ UNCHANGED vars
  BY <1>2 DEF AllOver, vars
<1>3. QED
  BY <1>1, <1>2 DEF Next

LEMMA PlaceKept ==
  ASSUME SpawnAssumption, TypeOK, PlaceInv, [Next]_vars
  PROVE  PlaceInv'
<1>. USE DEF TypeOK, PlaceInv
<1>1. ASSUME NEW s \in Sessions, SetupStep(s) \/ ChildStep(s) \/ EndStep(s)
      PROVE  PlaceInv'
  <2>1. CASE CreatePidfile(s)
    BY <2>1 DEF CreatePidfile, Acquire, Goto, cgvars
  <2>2. CASE SetupNet(s)
    BY <2>2 DEF SetupNet, Take, Acquire, Goto, cgvars
  <2>3. CASE SetupCgroup(s)
    BY <2>3 DEF SetupCgroup, Goto, cgvars
  <2>4. CASE CreateRootFutex(s)
    BY <2>4 DEF CreateRootFutex, Take, Acquire, Goto, cgvars
  <2>5. CASE EarlySetupAppdir(s)
    BY <2>5 DEF EarlySetupAppdir, Check, Goto, cgvars
  <2>6. CASE DetectMount(s)
    BY <2>6 DEF DetectMount, Check, Goto, cgvars
  <2>7. CASE EnableRoot(s)
    BY <2>7 DEF EnableRoot, Check, Goto, cgvars
  <2>8. CASE MakeCgroupDir(s)
    BY <2>8 DEF MakeCgroupDir, Goto, cgvars
  <2>9. CASE WriteProcs(s)
    BY <2>9 DEF WriteProcs, Goto, cgvars
  <2>10. CASE WriteEnable(s)
    BY <2>10 DEF WriteEnable, Goto, cgvars
  <2>11. CASE MakeRoot(s)
    BY <2>11 DEF MakeRoot, Take, Acquire, Goto, cgvars
  <2>12. CASE NsSetup(s)
    BY <2>12 DEF NsSetup, Goto, cgvars
  <2>13. CASE ForkChild(s)
    BY <2>13 DEF ForkChild, Goto, cgvars
  <2>14. CASE MountRoot(s)
    BY <2>14 DEF MountRoot, Goto, cgvars
  <2>15. CASE CgroupEnter(s)
    BY <2>15 DEF CgroupEnter, Goto, cgvars
  <2>16. CASE GuestMkdir(s)
    BY <2>16 DEF GuestMkdir, Goto, cgvars
  <2>17. CASE ChildDies(s)
    BY <2>17 DEF ChildDies, Goto, cgvars
  <2>18. CASE SpawnCleanup(s)
    BY <2>18 DEF SpawnCleanup, Goto, cgvars
  <2>19. CASE FinishChild(s)
    BY <2>19 DEF FinishChild, Goto, cgvars
  <2>20. CASE CgroupCleanup(s)
    BY <2>20 DEF CgroupCleanup, Goto, cgvars
  <2>21. CASE CgroupLeave(s)
    BY <2>21 DEF CgroupLeave, Goto, cgvars
  <2>22. CASE CgroupRmdir(s)
    BY <2>22 DEF CgroupRmdir, Goto, cgvars
  <2>23. CASE Release(s)
    BY <2>23 DEF Release, Goto, cgvars
  <2>24. CASE LockPidfile(s)
    BY <2>24 DEF LockPidfile, Goto, cgvars
  <2>25. QED
    BY <1>1, <2>1, <2>2, <2>3, <2>4, <2>5, <2>6, <2>7, <2>8, <2>9, <2>10, <2>11, <2>12,
       <2>13, <2>14, <2>15, <2>16, <2>17, <2>18, <2>19, <2>20, <2>21, <2>22, <2>23, <2>24 DEF SetupStep, ChildStep, EndStep
<1>2. CASE AllOver \/ UNCHANGED vars
  BY <1>2 DEF AllOver, vars
<1>3. QED
  BY <1>1, <1>2 DEF Next

\* A step of one session changes nothing for the cgroups of another.
LEMMA OthersDirs ==
  ASSUME NEW s \in Sessions, NEW t \in Sessions, t # s, DirsOk(t),
         pc'[t] = pc[t], t \in stuck => t \in stuck',
         \A g : g \notin Under(s) => (g \in dirs' <=> g \in dirs)
  PROVE  DirsOk(t)'
<1>1. Under(t) \cap dirs' = Under(t) \cap dirs /\ (Cage(t) \in dirs' <=> Cage(t) \in dirs)
  <2>1. \A g \in Under(t) : g \notin Under(s)
    BY Paths
  <2>2. Cage(t) \in Under(t)
    BY DEF Under
  <2>3. QED
    BY <2>1, <2>2
<1>2. QED
  BY <1>1 DEF DirsOk

LEMMA DirsKept ==
  ASSUME SpawnAssumption, TypeOK, ChildInv, PlaceInv, DirsInv, [Next]_vars
  PROVE  DirsInv'
<1>. USE DEF TypeOK, DirsOk, Setup, Under, Early, Late, Closing, Over
<1>1. ASSUME NEW s \in Sessions, SetupStep(s) \/ ChildStep(s) \/ EndStep(s)
      PROVE  DirsInv'
  <2>1. CASE CreatePidfile(s)
    BY <2>1 DEF CreatePidfile, Acquire, Goto, cgvars, DirsInv, ChildInv
  <2>2. CASE SetupNet(s)
    BY <2>2 DEF SetupNet, Take, Acquire, Goto, cgvars, DirsInv, ChildInv
  <2>3. CASE SetupCgroup(s)
    BY <2>3 DEF SetupCgroup, Goto, cgvars, DirsInv, ChildInv
  <2>4. CASE CreateRootFutex(s)
    BY <2>4 DEF CreateRootFutex, Take, Acquire, Goto, cgvars, DirsInv, ChildInv
  <2>5. CASE EarlySetupAppdir(s)
    BY <2>5 DEF EarlySetupAppdir, Check, Goto, cgvars, DirsInv, ChildInv
  <2>6. CASE DetectMount(s)
    BY <2>6 DEF DetectMount, Check, Goto, cgvars, DirsInv, ChildInv
  <2>7. CASE EnableRoot(s)
    BY <2>7 DEF EnableRoot, Check, Goto, cgvars, DirsInv, ChildInv
  <2>8. CASE MakeCgroupDir(s)
    <3>1. /\ \A t \in Sessions : t # s => pc'[t] = pc[t]
          /\ stuck' = stuck /\ pc[s] = "cgmkdir"
          /\ \/ dirs' = dirs \cup {Cage(s)} /\ pc'[s] = "cgmove"
             \/ dirs' = dirs /\ pc'[s] = "clean"
      BY <2>8 DEF MakeCgroupDir, Goto
    <3>2. DirsOk(s)'
      BY <3>1 DEF DirsInv
    <3>3. \A g : g \notin Under(s) => (g \in dirs' <=> g \in dirs)
      BY <3>1
    <3>4. QED
      BY <3>1, <3>2, <3>3, OthersDirs DEF DirsInv
  <2>9. CASE WriteProcs(s)
    BY <2>9 DEF WriteProcs, Goto, cgvars, DirsInv, ChildInv
  <2>10. CASE WriteEnable(s)
    BY <2>10 DEF WriteEnable, Goto, cgvars, DirsInv, ChildInv
  <2>11. CASE MakeRoot(s)
    BY <2>11 DEF MakeRoot, Take, Acquire, Goto, cgvars, DirsInv, ChildInv
  <2>12. CASE NsSetup(s)
    BY <2>12 DEF NsSetup, Goto, cgvars, DirsInv, ChildInv
  <2>13. CASE ForkChild(s)
    BY <2>13 DEF ForkChild, Goto, cgvars, DirsInv, ChildInv
  <2>14. CASE MountRoot(s)
    BY <2>14 DEF MountRoot, Goto, cgvars, DirsInv, ChildInv
  <2>15. CASE CgroupEnter(s)
    <3>1. pc' = pc /\ stuck' = stuck /\ dirs' = dirs \cup {Inner(s)} /\ s \in CgSessions
      BY <2>15 DEF CgroupEnter, ChildInv
    <3>2. pc[s] = "wait" /\ Cage(s) \in dirs
      BY <2>15, <3>1 DEF CgroupEnter, ChildInv, DirsInv, Teardown
    <3>3. DirsOk(s)'
      BY <3>1, <3>2 DEF DirsInv
    <3>4. \A g : g \notin Under(s) => (g \in dirs' <=> g \in dirs)
      BY <3>1
    <3>5. QED
      BY <3>1, <3>3, <3>4, OthersDirs DEF DirsInv
  <2>16. CASE GuestMkdir(s)
    <3>1. pc' = pc /\ stuck' = stuck /\ dirs' = dirs \cup {Guest(s)} /\ s \in CgSessions
      BY <2>16 DEF GuestMkdir
    <3>2. pc[s] = "wait" /\ Cage(s) \in dirs
      BY <2>16, <3>1 DEF GuestMkdir, ChildInv, DirsInv, Teardown
    <3>3. DirsOk(s)'
      BY <3>1, <3>2 DEF DirsInv
    <3>4. \A g : g \notin Under(s) => (g \in dirs' <=> g \in dirs)
      BY <3>1
    <3>5. QED
      BY <3>1, <3>3, <3>4, OthersDirs DEF DirsInv
  <2>17. CASE ChildDies(s)
    BY <2>17 DEF ChildDies, Goto, cgvars, DirsInv, ChildInv
  <2>18. CASE SpawnCleanup(s)
    BY <2>18 DEF SpawnCleanup, Goto, cgvars, DirsInv, ChildInv
  <2>19. CASE FinishChild(s)
    BY <2>19 DEF FinishChild, Goto, cgvars, DirsInv, ChildInv
  <2>20. CASE CgroupCleanup(s)
    BY <2>20 DEF CgroupCleanup, Goto, cgvars, DirsInv, ChildInv
  <2>21. CASE CgroupLeave(s)
    BY <2>21 DEF CgroupLeave, Goto, cgvars, DirsInv, ChildInv
  <2>22. CASE CgroupRmdir(s)
    <3>1. /\ pc[s] = "cgrmdir" /\ pc'[s] = "release" /\ stuck' = stuck
          /\ \A t \in Sessions : t # s => pc'[t] = pc[t]
      BY <2>22 DEF CgroupRmdir, Goto
    <3>2. /\ \A g : g \notin Under(s) => (g \in dirs' <=> g \in dirs)
          /\ dirs' \subseteq dirs
          /\ Cage(s) \notin dirs' => Under(s) \cap dirs' = {}
          /\ (\A g \in Under(s) : Members(g) = {}) => Under(s) \cap dirs' = {}
      <4>. DEFINE left == dirs \ {g \in {Inner(s), Guest(s)} : Members(g) = {}}
      <4>1. /\ \A g : g \notin {Inner(s), Guest(s)} => (g \in left <=> g \in dirs)
            /\ left \subseteq dirs
            /\ (\A g \in Under(s) : Members(g) = {}) => left \cap {Inner(s), Guest(s)} = {}
        OBVIOUS
      <4>2. \/ /\ dirs' = left \ {Cage(s)}
               /\ Members(Cage(s)) = {} /\ left \cap {Inner(s), Guest(s)} = {}
            \/ /\ dirs' = left
               /\ Members(Cage(s)) # {} \/ left \cap {Inner(s), Guest(s)} # {}
        BY <2>22 DEF CgroupRmdir
      <4>. HIDE DEF left
      <4>3. /\ Cage(s) \notin {Inner(s), Guest(s)}
            /\ Cage(s) \in dirs
        BY <3>1, Paths DEF DirsInv
      <4>4. QED
        BY <4>1, <4>2, <4>3
    <3>3. s \notin stuck => \A g \in Under(s) : Members(g) = {}
      <4>1. SUFFICES ASSUME s \notin stuck, NEW g \in Under(s), NEW t \in Sessions, t \in Members(g)
                     PROVE  FALSE
        BY DEF Members
      <4>2. CASE where[t] = g
        BY <3>1, <4>1, <4>2, Paths DEF PlaceInv
      <4>3. CASE cpc[t] \notin {"none", "dead", "reaped"} /\ cwhere[t] = g
        BY <3>1, <4>1, <4>3, Paths DEF PlaceInv, ChildInv
      <4>4. QED
        BY <4>1, <4>2, <4>3 DEF Members
    <3>4. DirsOk(s)'
      BY <3>1, <3>2, <3>3 DEF DirsInv
    <3>5. QED
      BY <3>1, <3>2, <3>4, OthersDirs DEF DirsInv
  <2>23. CASE Release(s)
    BY <2>23 DEF Release, Goto, cgvars, DirsInv, ChildInv
  <2>24. CASE LockPidfile(s)
    BY <2>24 DEF LockPidfile, Goto, cgvars, DirsInv, ChildInv
  <2>25. QED
    BY <1>1, <2>1, <2>2, <2>3, <2>4, <2>5, <2>6, <2>7, <2>8, <2>9, <2>10, <2>11, <2>12,
       <2>13, <2>14, <2>15, <2>16, <2>17, <2>18, <2>19, <2>20, <2>21, <2>22, <2>23, <2>24 DEF SetupStep, ChildStep, EndStep
<1>2. CASE AllOver \/ UNCHANGED vars
  BY <1>2 DEF AllOver, vars, DirsInv
<1>3. QED
  BY <1>1, <1>2 DEF Next

-----------------------------------------------------------------------------
(* The theorems.                                                           *)

LEMMA InitInv == SpawnAssumption /\ Init => IInv
<1>. SUFFICES ASSUME SpawnAssumption, Init PROVE IInv
  OBVIOUS
<1>1. TypeOK
  BY Paths DEF SpawnAssumption, Init, TypeOK, Setup, ChildSteps
<1>2. ChildInv /\ HeldInv /\ TriesInv /\ PlaceInv
  BY DEF SpawnAssumption, Init, ChildInv, HeldInv, TriesInv, PlaceInv, Closing, Over, Setup
<1>3. DirsInv
  BY Paths DEF Init, DirsInv, DirsOk, Late, Over
<1>4. QED
  BY <1>1, <1>2, <1>3 DEF IInv

LEMMA StepInv == SpawnAssumption /\ IInv /\ [Next]_vars => IInv'
<1>. SUFFICES ASSUME SpawnAssumption, IInv, [Next]_vars PROVE IInv'
  OBVIOUS
<1>. USE DEF IInv
<1>1. TypeOK'
  BY PcTypeKept, HeldTypeKept, GroupsTypeKept, TriesTypeKept
     DEF TypeOK, PcTyped, HeldTyped, GroupsTyped, TriesTyped
<1>2. QED
  BY <1>1, ChildKept, HeldKept, TriesKept, PlaceKept, DirsKept

LEMMA Invariant == Spec => []IInv
<1>1. Init => IInv
  BY SpawnAssumption, InitInv
<1>2. IInv /\ [Next]_vars => IInv'
  BY SpawnAssumption, StepInv
<1>3. QED
  BY <1>1, <1>2, PTL DEF Spec

\* Type correctness; the attempts of write_enable_controllers stay within
\* their limit because a session starts them once.
THEOREM TypeCorrect == Spec => []TypeOK
<1>1. IInv => TypeOK
  BY DEF IInv
<1>2. QED
  BY <1>1, Invariant, PTL

\* An invocation that is over, wherever spawn_cage was when a step failed and
\* whatever its child did, has given back both futex pages, and the pidfile,
\* the temp root and its cgroups unless its own flock, its own removal or its
\* own move out of the cgroup was what failed.
THEOREM GivesAllBack == Spec => []NothingLeft
<1>1. IInv => NothingLeft
  BY DEF IInv, NothingLeft, HeldInv, DirsInv, DirsOk, Over
<1>2. QED
  BY <1>1, Invariant, PTL
=============================================================================
