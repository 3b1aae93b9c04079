--------------------------- MODULE PidfileProofs ---------------------------
(***************************************************************************)
(* Proofs about the pidfile protocol, for any number of invocations and    *)
(* with all faults: the type invariant, the discipline of the flock, and   *)
(* the lifetime of the file.                                               *)
(***************************************************************************)
EXTENDS Pidfile, TLAPS

Holding == {"setup", "write", "wclose", "cclose"}

\* Past open, until the target has been dealt with, a file has been opened.
Opened ==
  \A p \in Procs :
    pc[p] \in {"flock", "read", "stop", "poll", "sigkill"} => seen[p] \in Inodes

\* TypeOK alone is not inductive: SigKill adds what it has read to doomed.
TypeInv == TypeOK /\ Opened

\* A reader between flock and close holds the lock.
ReaderHolds == \A p \in Procs : At(p, "read") => lock[seen[p]] = p

\* A creator between its flock and its close holds the lock of its file.
CreatorHolds == \A r \in Runs : pc[r] \in Holding => lock[r] = r

\* The flock's inductive invariant: who holds it is where NoLeakedLock says,
\* and, the other way round, who is there holds it.
Discipline == ReaderHolds /\ CreatorHolds /\ NoLeakedLock
LockInv == TypeInv /\ Discipline

-----------------------------------------------------------------------------
\* The step relation keeps the types: every program counter, inode and
\* container state stays in its set.
LEMMA TypeStep == TypeInv /\ [Next]_vars => TypeInv'
<1> SUFFICES ASSUME TypeInv, [Next]_vars PROVE TypeInv'
  OBVIOUS
<1> USE PidfileAssumption DEF TypeInv, TypeOK, Opened, Procs, Inodes, Ended, ReadSteps,
      RunSteps, KillSteps, Alive, Fresh, Goto, At, BadPid,
      UnlinkPath, UnlinkFails
<1>1. ASSUME NEW p \in Procs, ReadStep(p) PROVE TypeInv'
  <2>1. CASE Exists(p) BY <2>1 DEF Exists
  <2>2. CASE Open(p) BY <2>2 DEF Open
  <2>3. CASE Flock(p) BY <2>3 DEF Flock
  <2>4. CASE ReadPid(p) BY <2>4 DEF ReadPid
  <2>5. QED BY <1>1, <2>1, <2>2, <2>3, <2>4 DEF ReadStep
<1>2. ASSUME NEW r \in Runs, RunStep(r) PROVE TypeInv'
  <2>1. CASE Probe(r) BY <2>1 DEF Probe
  <2>2. CASE UnlinkStale(r) BY <2>2 DEF UnlinkStale
  <2>3. CASE ChdirRoot(r) BY <2>3 DEF ChdirRoot
  <2>4. CASE JoinNamespaces(r) BY <2>4 DEF JoinNamespaces
  <2>5. CASE Rejoined(r) BY <2>5 DEF Rejoined
  <2>6. CASE CreatePidfile(r) BY <2>6 DEF CreatePidfile
  <2>7. CASE LockPidfile(r) BY <2>7 DEF LockPidfile
  <2>8. CASE DoSetup(r) BY <2>8 DEF DoSetup
  <2>9. CASE CleanupClose(r) BY <2>9 DEF CleanupClose
  <2>10. CASE CleanupUnlink(r) BY <2>10 DEF CleanupUnlink
  <2>11. CASE WritePid(r) BY <2>11 DEF WritePid
  <2>12. CASE ClosePid(r) BY <2>12 DEF ClosePid
  <2>13. CASE ParentNet(r) BY <2>13 DEF ParentNet
  <2>14. CASE ReapChild(r) BY <2>14 DEF ReapChild
  <2>15. CASE FinishUnlink(r) BY <2>15 DEF FinishUnlink
  <2>16. QED
    BY <1>2, <2>1, <2>2, <2>3, <2>4, <2>5, <2>6, <2>7, <2>8, <2>9, <2>10,
       <2>11, <2>12, <2>13, <2>14, <2>15 DEF RunStep
<1>3. ASSUME NEW k \in Kills, KillStep(k) PROVE TypeInv'
  <2>1. CASE StopTarget(k) BY <2>1 DEF StopTarget
  <2>2. CASE WaitGraceful(k) BY <2>2 DEF WaitGraceful
  <2>3. CASE SigKill(k) BY <2>3 DEF SigKill
  <2>4. CASE KillUnlink(k) BY <2>4 DEF KillUnlink
  <2>5. QED BY <1>3, <2>1, <2>2, <2>3, <2>4 DEF KillStep
<1>4. ASSUME NEW r \in Runs, ContainerStep(r) PROVE TypeInv'
  <2>1. CASE EnterRoot(r) BY <2>1 DEF EnterRoot
  <2>2. CASE Exec(r) BY <2>2 DEF Exec, DropInherited
  <2>3. CASE ContainerExit(r) BY <2>3 DEF ContainerExit, DropInherited
  <2>4. CASE InitReap(r) BY <2>4 DEF InitReap
  <2>5. QED BY <1>4, <2>1, <2>2, <2>3, <2>4 DEF ContainerStep
<1>5. ASSUME NEW p \in Procs, FlockFails(p) PROVE TypeInv'
  BY <1>5 DEF FlockFails
<1>6. ASSUME NEW p \in Procs, Crash(p) PROVE TypeInv'
  BY <1>6 DEF Crash
<1>7. ASSUME NEW r \in Runs, LockPidfileFails(r) PROVE TypeInv'
  BY <1>7 DEF LockPidfileFails
<1>8. CASE AllOver BY <1>8 DEF AllOver, vars
<1>9. CASE UNCHANGED vars BY <1>9 DEF vars
<1>10. QED
  BY <1>1, <1>2, <1>3, <1>4, <1>5, <1>6, <1>7, <1>8, <1>9 DEF Next

\* TypeOK holds in every reachable state of the pidfile protocol.
THEOREM TypeCorrect == Spec => []TypeOK
<1>1. Init => TypeInv
  BY PidfileAssumption DEF Init, TypeInv, TypeOK, Opened, Procs, Inodes, Ended, ReadSteps,
     RunSteps, KillSteps, Alive, Fresh
<1>2. TypeInv => TypeOK
  BY DEF TypeInv
<1>3. QED BY <1>1, <1>2, TypeStep, PTL DEF Spec

-----------------------------------------------------------------------------
\* No step breaks the discipline of the flock, crashes and faults included.
LEMMA LockStep == LockInv /\ [Next]_vars => Discipline'
<1> SUFFICES ASSUME LockInv, [Next]_vars PROVE Discipline'
  OBVIOUS
<1> USE PidfileAssumption DEF LockInv, TypeInv, TypeOK, Opened, Discipline, ReaderHolds,
      CreatorHolds, NoLeakedLock, Holding, Procs, Inodes, Goto, At, BadPid,
      UnlinkPath, UnlinkFails
<1>1. ASSUME NEW p \in Procs, ReadStep(p) PROVE Discipline'
  <2>1. CASE Exists(p) BY <2>1 DEF Exists
  <2>2. CASE Open(p) BY <2>2 DEF Open
  <2>3. CASE Flock(p) BY <2>3 DEF Flock
  <2>4. CASE ReadPid(p) BY <2>4 DEF ReadPid
  <2>5. QED BY <1>1, <2>1, <2>2, <2>3, <2>4 DEF ReadStep
<1>2. ASSUME NEW r \in Runs, RunStep(r) PROVE Discipline'
  <2>1. CASE Probe(r) BY <2>1 DEF Probe
  <2>2. CASE UnlinkStale(r) BY <2>2 DEF UnlinkStale
  <2>3. CASE ChdirRoot(r) BY <2>3 DEF ChdirRoot
  <2>4. CASE JoinNamespaces(r) BY <2>4 DEF JoinNamespaces
  <2>5. CASE Rejoined(r) BY <2>5 DEF Rejoined
  <2>6. CASE CreatePidfile(r) BY <2>6 DEF CreatePidfile
  <2>7. CASE LockPidfile(r) BY <2>7 DEF LockPidfile
  <2>8. CASE DoSetup(r) BY <2>8 DEF DoSetup
  <2>9. CASE CleanupClose(r) BY <2>9 DEF CleanupClose
  <2>10. CASE CleanupUnlink(r) BY <2>10 DEF CleanupUnlink
  <2>11. CASE WritePid(r) BY <2>11 DEF WritePid
  <2>12. CASE ClosePid(r) BY <2>12 DEF ClosePid
  <2>13. CASE ParentNet(r) BY <2>13 DEF ParentNet
  <2>14. CASE ReapChild(r) BY <2>14 DEF ReapChild
  <2>15. CASE FinishUnlink(r) BY <2>15 DEF FinishUnlink
  <2>16. QED
    BY <1>2, <2>1, <2>2, <2>3, <2>4, <2>5, <2>6, <2>7, <2>8, <2>9, <2>10,
       <2>11, <2>12, <2>13, <2>14, <2>15 DEF RunStep
<1>3. ASSUME NEW k \in Kills, KillStep(k) PROVE Discipline'
  <2>1. CASE StopTarget(k) BY <2>1 DEF StopTarget
  <2>2. CASE WaitGraceful(k) BY <2>2 DEF WaitGraceful
  <2>3. CASE SigKill(k) BY <2>3 DEF SigKill
  <2>4. CASE KillUnlink(k) BY <2>4 DEF KillUnlink
  <2>5. QED BY <1>3, <2>1, <2>2, <2>3, <2>4 DEF KillStep
<1>4. ASSUME NEW r \in Runs, ContainerStep(r) PROVE Discipline'
  <2>1. CASE EnterRoot(r) BY <2>1 DEF EnterRoot, Fresh
  <2>2. CASE Exec(r) BY <2>2 DEF Exec, DropInherited, Inherits, Fresh, Alive
  <2>3. CASE ContainerExit(r)
    BY <2>3 DEF ContainerExit, DropInherited, Inherits, Fresh, Alive
  <2>4. CASE InitReap(r) BY <2>4 DEF InitReap, Fresh
  <2>5. QED BY <1>4, <2>1, <2>2, <2>3, <2>4 DEF ContainerStep
<1>5. ASSUME NEW p \in Procs, FlockFails(p) PROVE Discipline'
  BY <1>5 DEF FlockFails
<1>6. ASSUME NEW p \in Procs, Crash(p) PROVE Discipline'
  BY <1>6 DEF Crash
<1>7. ASSUME NEW r \in Runs, LockPidfileFails(r) PROVE Discipline'
  BY <1>7 DEF LockPidfileFails
<1>8. CASE AllOver BY <1>8 DEF AllOver, vars
<1>9. CASE UNCHANGED vars BY <1>9 DEF vars
<1>10. QED
  BY <1>1, <1>2, <1>3, <1>4, <1>5, <1>6, <1>7, <1>8, <1>9 DEF Next

\* A leaked flock would block every later invocation of that name, and a
\* reader admitted too early would take a starting instance for a crashed
\* one: neither happens, for any number of invocations, signals and faults.
THEOREM LockDiscipline == Spec => [](NoLeakedLock /\ NoReadWhileLocked)
<1>1. Init => LockInv
  <2> SUFFICES ASSUME Init PROVE LockInv
    OBVIOUS
  <2>1. TypeInv
    BY PidfileAssumption DEF Init, TypeInv, TypeOK, Opened, Procs, Inodes, Ended,
       ReadSteps, RunSteps, KillSteps, Alive, Fresh
  <2>2. Discipline
    BY PidfileAssumption DEF Init, Discipline, ReaderHolds, CreatorHolds,
       NoLeakedLock, Holding, Procs, Inodes, At
  <2>3. QED BY <2>1, <2>2 DEF LockInv
<1>2. LockInv /\ [Next]_vars => LockInv'
  BY TypeStep, LockStep DEF LockInv
<1>3. LockInv => NoLeakedLock /\ NoReadWhileLocked
  BY PidfileAssumption DEF LockInv, Discipline, ReaderHolds, CreatorHolds, Holding,
     NoReadWhileLocked, At, Procs
<1>4. QED BY <1>1, <1>2, <1>3, PTL DEF Spec

\* Nobody reads a pidfile whose creator is still between its flock and the
\* close after dprintf, so none but a creator's own file is seen empty.
THEOREM ReadersWait == Spec => []NoReadWhileLocked
BY LockDiscipline, PTL

\* NoLeftover is inductive on its own.
LEMMA LeftoverStep == TypeOK /\ NoLeftover /\ [Next]_vars => NoLeftover'
<1> SUFFICES ASSUME TypeOK, NoLeftover, [Next]_vars PROVE NoLeftover'
  OBVIOUS
<1> USE PidfileAssumption DEF TypeOK, NoLeftover, Procs, Inodes, Ended, Goto, At, BadPid,
      UnlinkPath, UnlinkFails
<1>1. ASSUME NEW p \in Procs, ReadStep(p) PROVE NoLeftover'
  <2>1. CASE Exists(p) BY <2>1 DEF Exists
  <2>2. CASE Open(p) BY <2>2 DEF Open
  <2>3. CASE Flock(p) BY <2>3 DEF Flock
  <2>4. CASE ReadPid(p) BY <2>4 DEF ReadPid
  <2>5. QED BY <1>1, <2>1, <2>2, <2>3, <2>4 DEF ReadStep
<1>2. ASSUME NEW r \in Runs, RunStep(r) PROVE NoLeftover'
  <2>1. CASE Probe(r) BY <2>1 DEF Probe
  <2>2. CASE UnlinkStale(r) BY <2>2 DEF UnlinkStale
  <2>3. CASE ChdirRoot(r) BY <2>3 DEF ChdirRoot
  <2>4. CASE JoinNamespaces(r) BY <2>4 DEF JoinNamespaces
  <2>5. CASE Rejoined(r) BY <2>5 DEF Rejoined
  <2>6. CASE CreatePidfile(r) BY <2>6 DEF CreatePidfile
  <2>7. CASE LockPidfile(r) BY <2>7 DEF LockPidfile
  <2>8. CASE DoSetup(r) BY <2>8 DEF DoSetup
  <2>9. CASE CleanupClose(r) BY <2>9 DEF CleanupClose
  <2>10. CASE CleanupUnlink(r) BY <2>10 DEF CleanupUnlink
  <2>11. CASE WritePid(r) BY <2>11 DEF WritePid
  <2>12. CASE ClosePid(r) BY <2>12 DEF ClosePid
  <2>13. CASE ParentNet(r) BY <2>13 DEF ParentNet
  <2>14. CASE ReapChild(r) BY <2>14 DEF ReapChild
  <2>15. CASE FinishUnlink(r) BY <2>15 DEF FinishUnlink
  <2>16. QED
    BY <1>2, <2>1, <2>2, <2>3, <2>4, <2>5, <2>6, <2>7, <2>8, <2>9, <2>10,
       <2>11, <2>12, <2>13, <2>14, <2>15 DEF RunStep
<1>3. ASSUME NEW k \in Kills, KillStep(k) PROVE NoLeftover'
  <2>1. CASE StopTarget(k) BY <2>1 DEF StopTarget
  <2>2. CASE WaitGraceful(k) BY <2>2 DEF WaitGraceful
  <2>3. CASE SigKill(k) BY <2>3 DEF SigKill
  <2>4. CASE KillUnlink(k) BY <2>4 DEF KillUnlink
  <2>5. QED BY <1>3, <2>1, <2>2, <2>3, <2>4 DEF KillStep
<1>4. ASSUME NEW r \in Runs, ContainerStep(r) PROVE NoLeftover'
  <2>1. CASE EnterRoot(r) BY <2>1 DEF EnterRoot
  <2>2. CASE Exec(r) BY <2>2 DEF Exec
  <2>3. CASE ContainerExit(r) BY <2>3 DEF ContainerExit
  <2>4. CASE InitReap(r) BY <2>4 DEF InitReap
  <2>5. QED BY <1>4, <2>1, <2>2, <2>3, <2>4 DEF ContainerStep
<1>5. ASSUME NEW p \in Procs, FlockFails(p) PROVE NoLeftover'
  BY <1>5 DEF FlockFails
<1>6. ASSUME NEW p \in Procs, Crash(p) PROVE NoLeftover'
  BY <1>6 DEF Crash
<1>7. ASSUME NEW r \in Runs, LockPidfileFails(r) PROVE NoLeftover'
  BY <1>7 DEF LockPidfileFails
<1>8. CASE AllOver BY <1>8 DEF AllOver, vars
<1>9. CASE UNCHANGED vars BY <1>9 DEF vars
<1>10. QED
  BY <1>1, <1>2, <1>3, <1>4, <1>5, <1>6, <1>7, <1>8, <1>9 DEF Next

\* A pidfile never outlives the invocation that created it, unless that was
\* killed, its flock call failed or its own unlink was refused.
THEOREM FileLifetime == Spec => []NoLeftover
<1>1. Init => NoLeftover
  BY PidfileAssumption DEF Init, NoLeftover
<1>2. QED BY <1>1, LeftoverStep, TypeCorrect, PTL DEF Spec
=============================================================================
