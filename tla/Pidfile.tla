------------------------------ MODULE Pidfile ------------------------------
(***************************************************************************)
(* The pidfile protocol of cage: concurrent `cage` invocations (Runs) and  *)
(* `cage -k` invocations (Kills) for one name, that is, for one path       *)
(* /run/cage/<name>.pid.  Every invocation is a process of its own; the    *)
(* only state they share is the file system, the flock on the pidfile and  *)
(* the container processes.                                                *)
(*                                                                         *)
(* A run creates at most one file and forks at most one container, so the  *)
(* run names all three: inode r is the file created by r, and the PID it   *)
(* comes to hold is the PID of the container of r.  Old is a file left by  *)
(* an earlier session whose container is long gone.                        *)
(***************************************************************************)
EXTENDS Naturals, FiniteSets

CONSTANTS
  Runs,      \* invocations that run a command
  Kills,     \* invocations with -k
  NetRuns,   \* the runs with -N: their container waits for the parent
  Old,       \* the pidfile (and container) of an earlier session
  None,      \* no file, no holder
  Faulty,    \* invocations that may be killed and whose system calls may fail
  Serial     \* whether the user starts an invocation only when the others have settled

ASSUME PidfileAssumption ==
  /\ Runs \cap Kills = {}
  /\ NetRuns \subseteq Runs
  /\ {Old, None} \cap (Runs \cup Kills) = {}
  /\ Old # None
  /\ Faulty \subseteq Runs \cup Kills
  /\ Serial \in BOOLEAN

VARIABLES
  path,    \* the inode the pidfile path names, or None
  wrote,   \* the inodes that hold their creator's container PID, the others are empty
  lock,    \* for each inode, the invocation whose open file holds the flock
  pc,      \* the step each invocation is about to take
  seen,    \* the inode an invocation has opened, then the PID it read there
  cont,    \* the container of each run
  doomed   \* the containers that were sent SIGKILL

vars == <<path, wrote, lock, pc, seen, cont, doomed>>

Procs == Runs \cup Kills
Inodes == Runs \cup {Old}

Fresh == {"setup", "entered"}       \* forked, not yet past execve
Alive == Fresh \cup {"running"}
\* "abandoned" and "leftover" end with a failed flock and with a refused unlink.
Ended == {"done", "failed", "abandoned", "leftover", "crashed", "orphaned"}
ReadSteps == {"exists", "open", "flock", "read"}
RunSteps == {"probe", "unlink", "chdir", "setns", "joined", "create", "clock",
             "setup", "cclose", "cunlink", "write", "wclose", "net", "wait",
             "funlink"}
KillSteps == {"stop", "poll", "sigkill", "kunlink", "kunlinkfail"}

TypeOK ==
  /\ path \in Inodes \cup {None}
  /\ wrote \in SUBSET Inodes
  /\ lock \in [Inodes -> Procs \cup {None}]
  /\ pc \in [Procs -> ReadSteps \cup RunSteps \cup KillSteps \cup Ended]
  /\ seen \in [Procs -> Inodes \cup {None}]
  /\ cont \in [Inodes -> Alive \cup {"none", "zombie", "gone"}]
  /\ doomed \in SUBSET Inodes

Init ==
  /\ path \in {None, Old}
  /\ wrote \in IF path = Old THEN {{}, {Old}} ELSE {{}}
  /\ lock = [i \in Inodes |-> None]
  /\ pc = [p \in Procs |-> "exists"]
  /\ seen = [p \in Procs |-> None]
  /\ cont = [i \in Inodes |-> IF i = Old THEN "gone" ELSE "none"]
  /\ doomed = {}

Goto(p, step) == pc' = [pc EXCEPT ![p] = step]
At(p, step) == pc[p] = step

-----------------------------------------------------------------------------
(* detect_existing and killpid up to the PID: both test for the file, open *)
(* it, wait for the flock and read under it.                               *)

\* io_unlink_quiet goes by path: it removes whatever file has that name by
\* now.  It may fail, and no caller looks at its result.
UnlinkPath == path' = None
UnlinkFails(p) == p \in Faulty /\ path # None /\ UNCHANGED path

\* Where a failed readpid leads: detect_existing takes the file for corrupt
\* and removes it, kill_pidfile gives up.
BadPid(p) == Goto(p, IF p \in Runs THEN "unlink" ELSE "failed")

\* The other invocations have not started, have ended, or only wait for
\* their command (and tidy up after it).
Settled(p) ==
  \A q \in Procs \ {p} :
    pc[q] \in {"exists", "wait", "funlink", "joined"} \cup Ended

Exists(p) ==
  /\ At(p, "exists")
  /\ Serial => Settled(p)
  /\ \/ /\ path = None
        /\ Goto(p, IF p \in Runs THEN "create" ELSE "done")
     \/ /\ path # None
        /\ Goto(p, "open")
     \/ /\ p \in Faulty
        /\ Goto(p, "failed")
  /\ UNCHANGED <<path, wrote, lock, seen, cont, doomed>>

Open(p) ==
  /\ At(p, "open")
  /\ \/ /\ path # None
        /\ seen' = [seen EXCEPT ![p] = path]
        /\ Goto(p, "flock")
     \/ /\ path = None \/ p \in Faulty
        /\ BadPid(p)
        /\ UNCHANGED seen
  /\ UNCHANGED <<path, wrote, lock, cont, doomed>>

Flock(p) ==
  /\ At(p, "flock")
  /\ lock[seen[p]] = None
  /\ lock' = [lock EXCEPT ![seen[p]] = p]
  /\ Goto(p, "read")
  /\ UNCHANGED <<path, wrote, seen, cont, doomed>>

FlockFails(p) ==
  /\ p \in Faulty
  /\ At(p, "flock")
  /\ BadPid(p)
  /\ UNCHANGED <<path, wrote, lock, seen, cont, doomed>>

\* read, parse_pid and the close that drops the lock on either outcome.
ReadPid(p) ==
  /\ At(p, "read")
  /\ lock' = [lock EXCEPT ![seen[p]] = None]
  /\ \/ /\ seen[p] \in wrote
        /\ Goto(p, IF p \in Runs THEN "probe" ELSE "stop")
     \/ /\ seen[p] \notin wrote \/ p \in Faulty
        /\ BadPid(p)
  /\ UNCHANGED <<path, wrote, seen, cont, doomed>>

-----------------------------------------------------------------------------
(* A run that found a PID: join the container, or remove the stale file.   *)

\* pid_joinable: kill(pid, 0) succeeds and the process is not a zombie.
Probe(r) ==
  /\ At(r, "probe")
  /\ \/ /\ cont[seen[r]] \in Alive
        /\ Goto(r, "chdir")
     \/ /\ cont[seen[r]] \notin Alive \/ r \in Faulty
        /\ Goto(r, "unlink")
  /\ UNCHANGED <<path, wrote, lock, seen, cont, doomed>>

\* The PID, if one was read, is forgotten with the file.
UnlinkStale(r) ==
  /\ At(r, "unlink")
  /\ UnlinkPath \/ UnlinkFails(r)
  /\ seen' = [seen EXCEPT ![r] = None]
  /\ Goto(r, "create")
  /\ UNCHANGED <<wrote, lock, cont, doomed>>

\* spawn_existing: chdir to /proc/<pid>/root, which is the container's root
\* at this moment, whether or not the container has entered its own.
ChdirRoot(r) ==
  /\ At(r, "chdir")
  /\ Goto(r, IF cont[seen[r]] \in Alive THEN "setns" ELSE "failed")
  /\ UNCHANGED <<path, wrote, lock, seen, cont, doomed>>

JoinNamespaces(r) ==
  /\ At(r, "setns")
  /\ \/ /\ cont[seen[r]] \in Alive
        /\ Goto(r, "joined")
     \/ /\ cont[seen[r]] \notin Alive \/ r \in Faulty
        /\ Goto(r, "failed")
  /\ UNCHANGED <<path, wrote, lock, seen, cont, doomed>>

\* wait_status: the joined command has ended.
Rejoined(r) ==
  /\ At(r, "joined")
  /\ Goto(r, "done")
  /\ UNCHANGED <<path, wrote, lock, seen, cont, doomed>>

-----------------------------------------------------------------------------
(* A run that found no instance: spawn_cage.                               *)

\* open with O_CREAT | O_EXCL; a failure ends the run and leaves the file.
CreatePidfile(r) ==
  /\ At(r, "create")
  /\ \/ /\ path = None
        /\ path' = r
        /\ Goto(r, "clock")
     \/ /\ path # None \/ r \in Faulty
        /\ Goto(r, "failed")
        /\ UNCHANGED path
  /\ UNCHANGED <<wrote, lock, seen, cont, doomed>>

\* Mutant: the creator does not take the flock.
LockPidfileSkipped(r) ==
  /\ At(r, "clock")
  /\ Goto(r, "setup")
  /\ UNCHANGED <<path, wrote, lock, seen, cont, doomed>>

\* The flock is a second call.
LockPidfile(r) ==
  /\ At(r, "clock")
  /\ lock[r] = None
  /\ lock' = [lock EXCEPT ![r] = r]
  /\ Goto(r, "setup")
  /\ UNCHANGED <<path, wrote, seen, cont, doomed>>

\* If it fails the empty file stays behind.
LockPidfileFails(r) ==
  /\ r \in Faulty
  /\ At(r, "clock")
  /\ Goto(r, "abandoned")
  /\ UNCHANGED <<path, wrote, lock, seen, cont, doomed>>

\* do_setup: network, cgroup, temp root and the fork, or any failure there.
DoSetup(r) ==
  /\ At(r, "setup")
  /\ \/ /\ cont' = [cont EXCEPT ![r] = "setup"]
        /\ Goto(r, "write")
     \/ /\ Goto(r, "cclose")
        /\ UNCHANGED cont
  /\ UNCHANGED <<path, wrote, lock, seen, doomed>>

\* spawn_cleanup unlocks first and unlinks second.
CleanupClose(r) ==
  /\ At(r, "cclose")
  /\ lock' = [lock EXCEPT ![r] = None]
  /\ Goto(r, "cunlink")
  /\ UNCHANGED <<path, wrote, seen, cont, doomed>>

CleanupUnlink(r) ==
  /\ At(r, "cunlink")
  /\ \/ UnlinkPath /\ Goto(r, "failed")
     \/ UnlinkFails(r) /\ Goto(r, "leftover")
  /\ UNCHANGED <<wrote, lock, seen, cont, doomed>>

\* Mutant: the PID written is that of no child.
WritePidNoChild(r) ==
  /\ At(r, "write")
  /\ wrote' = wrote \cup {None}
  /\ Goto(r, "wclose")
  /\ UNCHANGED <<path, lock, seen, cont, doomed>>

\* spawn_exec: dprintf of the child's PID, whose result is ignored, then
\* close_pid.
WritePid(r) ==
  /\ At(r, "write")
  /\ \/ wrote' = wrote \cup {r}
     \/ r \in Faulty /\ UNCHANGED wrote
  /\ Goto(r, "wclose")
  /\ UNCHANGED <<path, lock, seen, cont, doomed>>

\* Mutant: the file is closed without LOCK_UN while the child shares it.
ClosePidNoUnlock(r) ==
  /\ At(r, "wclose")
  /\ Goto(r, "net")
  /\ UNCHANGED <<path, wrote, lock, seen, cont, doomed>>

ClosePid(r) ==
  /\ At(r, "wclose")
  /\ lock' = [lock EXCEPT ![r] = None]
  /\ Goto(r, "net")
  /\ UNCHANGED <<path, wrote, seen, cont, doomed>>

\* do_parent_net and wait_root_ready, which end when the child is ready or dead.
ParentNet(r) ==
  /\ At(r, "net")
  /\ Goto(r, "wait")
  /\ UNCHANGED <<path, wrote, lock, seen, cont, doomed>>

\* Mutant: the parent looks at the dead child (WNOWAIT) and never reaps it.
ReapChildPeeks(r) ==
  /\ At(r, "wait")
  /\ cont[r] = "zombie"
  /\ Goto(r, "funlink")
  /\ UNCHANGED <<path, wrote, lock, seen, cont, doomed>>

\* finish_child: reap the container, then unlink by path.
ReapChild(r) ==
  /\ At(r, "wait")
  /\ cont[r] = "zombie"
  /\ cont' = [cont EXCEPT ![r] = "gone"]
  /\ Goto(r, "funlink")
  /\ UNCHANGED <<path, wrote, lock, seen, doomed>>

\* Mutant: the teardown forgets the pidfile.
FinishUnlinkForgets(r) ==
  /\ At(r, "funlink")
  /\ Goto(r, "done")
  /\ UNCHANGED <<path, wrote, lock, seen, cont, doomed>>

FinishUnlink(r) ==
  /\ At(r, "funlink")
  /\ \/ UnlinkPath /\ Goto(r, "done")
     \/ UnlinkFails(r) /\ Goto(r, "leftover")
  /\ UNCHANGED <<wrote, lock, seen, cont, doomed>>

-----------------------------------------------------------------------------
(* -k: stop_target, waitpid_graceful, then unlink by path.                 *)

\* A zombie or a process that is gone needs no signal.  A failed SIGTERM
\* still removes the file, and the exit code reports the failure.
StopTarget(k) ==
  /\ At(k, "stop")
  /\ \/ /\ cont[seen[k]] \notin Alive \/ k \in Faulty
        /\ Goto(k, "kunlink")
     \/ /\ cont[seen[k]] \in Alive
        /\ Goto(k, "poll")
     \/ /\ k \in Faulty
        /\ Goto(k, "kunlinkfail")
  /\ UNCHANGED <<path, wrote, lock, seen, cont, doomed>>

\* The poll ends when the PID is gone (a zombie still counts as there) or
\* after 50 rounds, whatever the target has done by then.
WaitGraceful(k) ==
  /\ At(k, "poll")
  /\ \/ /\ cont[seen[k]] = "gone"
        /\ Goto(k, "kunlink")
     \/ /\ cont[seen[k]] # "gone"
        /\ Goto(k, "sigkill")
     \/ /\ k \in Faulty
        /\ Goto(k, "kunlinkfail")
  /\ UNCHANGED <<path, wrote, lock, seen, cont, doomed>>

\* Mutant: the grace period ends without a SIGKILL.
SigKillSkipped(k) ==
  /\ At(k, "sigkill")
  /\ Goto(k, "kunlink")
  /\ UNCHANGED <<path, wrote, lock, seen, cont, doomed>>

\* kill(pid, SIGKILL), then pidwait, which returns at once with ECHILD: the
\* target is another invocation's child.
SigKill(k) ==
  /\ At(k, "sigkill")
  /\ \/ /\ doomed' = IF cont[seen[k]] \in Alive THEN doomed \cup {seen[k]} ELSE doomed
        /\ Goto(k, "kunlink")
     \/ /\ k \in Faulty
        /\ Goto(k, "kunlinkfail")
        /\ UNCHANGED doomed
  /\ UNCHANGED <<path, wrote, lock, seen, cont>>

KillUnlink(k) ==
  /\ pc[k] \in {"kunlink", "kunlinkfail"}
  /\ UnlinkPath \/ UnlinkFails(k)
  /\ Goto(k, IF At(k, "kunlink") THEN "done" ELSE "failed")
  /\ UNCHANGED <<wrote, lock, seen, cont, doomed>>

-----------------------------------------------------------------------------
(* The container processes and the kernel.                                 *)

\* The container shares the open file of its parent's pidfile until execve
\* (O_CLOEXEC) or exit, so it holds the flock of a parent that died.
Inherits(r) == At(r, "crashed") /\ lock[r] = r

DropInherited(r) ==
  lock' = IF Inherits(r) THEN [lock EXCEPT ![r] = None] ELSE lock

\* With -N the child blocks until the parent has done its half.
EnterRoot(r) ==
  /\ cont[r] = "setup"
  /\ r \in NetRuns => pc[r] \in {"wait", "orphaned"}
  /\ cont' = [cont EXCEPT ![r] = "entered"]
  /\ UNCHANGED <<path, wrote, lock, pc, seen, doomed>>

Exec(r) ==
  /\ cont[r] = "entered"
  /\ cont' = [cont EXCEPT ![r] = "running"]
  /\ DropInherited(r)
  /\ UNCHANGED <<path, wrote, pc, seen, doomed>>

ContainerExit(r) ==
  /\ cont[r] \in Alive
  /\ cont' = [cont EXCEPT ![r] = "zombie"]
  /\ DropInherited(r)
  /\ UNCHANGED <<path, wrote, pc, seen, doomed>>

\* A container whose parent died is reaped by the host's init.
InitReap(r) ==
  /\ cont[r] = "zombie"
  /\ pc[r] \in {"crashed", "orphaned"}
  /\ cont' = [cont EXCEPT ![r] = "gone"]
  /\ UNCHANGED <<path, wrote, lock, pc, seen, doomed>>

\* A signal ends the invocation between two steps.  Its locks go with it,
\* except the one its container still holds.
Crash(p) ==
  /\ p \in Faulty
  /\ pc[p] \notin Ended
  /\ Goto(p, IF pc[p] \in {"wait", "funlink"} THEN "orphaned" ELSE "crashed")
  /\ lock' = [i \in Inodes |->
                IF lock[i] = p /\ ~(i = p /\ cont[i] \in Fresh)
                  THEN None ELSE lock[i]]
  /\ UNCHANGED <<path, wrote, seen, cont, doomed>>

-----------------------------------------------------------------------------
ReadStep(p) == Exists(p) \/ Open(p) \/ Flock(p) \/ ReadPid(p)

RunStep(r) ==
  \/ Probe(r) \/ UnlinkStale(r)
  \/ ChdirRoot(r) \/ JoinNamespaces(r) \/ Rejoined(r)
  \/ CreatePidfile(r) \/ LockPidfile(r) \/ DoSetup(r)
  \/ CleanupClose(r) \/ CleanupUnlink(r)
  \/ WritePid(r) \/ ClosePid(r) \/ ParentNet(r)
  \/ ReapChild(r) \/ FinishUnlink(r)

KillStep(k) ==
  StopTarget(k) \/ WaitGraceful(k) \/ SigKill(k) \/ KillUnlink(k)

ContainerStep(r) ==
  EnterRoot(r) \/ Exec(r) \/ ContainerExit(r) \/ InitReap(r)

\* Every invocation has ended and every container is gone.
AllOver ==
  /\ \A p \in Procs : pc[p] \in Ended
  /\ \A i \in Inodes : cont[i] \in {"none", "gone"}
  /\ UNCHANGED vars

Next ==
  \/ \E p \in Procs : ReadStep(p)
  \/ \E r \in Runs : RunStep(r)
  \/ \E k \in Kills : KillStep(k)
  \/ \E r \in Runs : ContainerStep(r)
  \/ \E p \in Procs : FlockFails(p) \/ Crash(p)
  \/ \E r \in Runs : LockPidfileFails(r)
  \/ AllOver

Spec == Init /\ [][Next]_vars

(***************************************************************************)
(* The kernel runs every process that can run; a container finishes its    *)
(* set-up and dies once it is killed; init reaps.  Nothing is assumed of   *)
(* how long a command runs, nor that a blocked flock ever fails or an       *)
(* invocation ever crashes.                                                *)
(***************************************************************************)
Fairness ==
  /\ \A r \in Runs : WF_vars(ReadStep(r) \/ (~At(r, "joined") /\ RunStep(r)))
  /\ \A k \in Kills : WF_vars(ReadStep(k) \/ KillStep(k))
  /\ \A r \in Runs :
       WF_vars(EnterRoot(r) \/ Exec(r) \/ InitReap(r)
                 \/ (r \in doomed /\ ContainerExit(r)))

FairSpec == Spec /\ Fairness

-----------------------------------------------------------------------------
(* What holds.                                                             *)

\* An exclusive flock is never leaked: its holder is a reader between flock
\* and close, a creator between flock and close_pid, or a container that
\* inherited it from a dead creator and has not reached execve or exit.
NoLeakedLock ==
  \A i \in Inodes, p \in Procs :
    lock[i] = p =>
      \/ At(p, "read") /\ seen[p] = i
      \/ i = p /\ pc[p] \in {"setup", "write", "wclose", "cclose"}
      \/ i = p /\ At(p, "crashed") /\ cont[i] \in Fresh

\* From the creator's flock until close_pid nobody else is reading the file,
\* so an instance that is being set up is never taken for a crashed one
\* (the empty file is visible only before the flock).
NoReadWhileLocked ==
  \A r \in Runs, p \in Procs :
    pc[r] \in {"setup", "write", "wclose", "cclose"} =>
      ~(At(p, "read") /\ seen[p] = r)

\* A pidfile does not outlive the invocation that created it: it is on disk
\* only while that invocation has its unlink still ahead, unless it was
\* killed, its flock call failed ("abandoned") or its own unlink was refused
\* ("leftover", where io_unlink_quiet's result is dropped).
NoLeftover ==
  \A r \in Runs :
    path = r => pc[r] \in {"clock", "setup", "cclose", "cunlink", "write",
                           "wclose", "net", "wait", "funlink",
                           "abandoned", "leftover", "crashed", "orphaned"}

\* p waits for the flock that the -N container of a killed creator inherited:
\* that container waits for a parent that is gone and never reaches execve.
WaitsForOrphan(p) ==
  /\ At(p, "flock")
  /\ seen[p] \in NetRuns /\ Inherits(seen[p]) /\ cont[seen[p]] = "setup"

\* Every invocation gets through the pidfile chain for good, even when
\* another is killed between two steps or its calls fail: it ends or waits
\* for its own command.  The one exception is WaitsForOrphan.
Progress ==
  \A p \in Procs :
    <>[](pc[p] \in Ended \cup {"wait", "joined"} \/ WaitsForOrphan(p))

\* An exited container is always reaped, by its parent or by init.
ZombiesReaped == \A r \in Runs : cont[r] = "zombie" ~> cont[r] = "gone"

\* After a successful -k the target dies, although -k may not wait for it.
KillIsEffective ==
  \A k \in Kills, r \in Runs :
    (At(k, "done") /\ seen[k] = r /\ k \notin Faulty) ~> cont[r] \notin Alive

-----------------------------------------------------------------------------
(* What the documents say and the code does not do.                        *)

\* docs/lifecycle.md, Re-entry rule 5: O_EXCL makes the spawn race fail-safe,
\* so one name never has two live instances.
SingleInstance ==
  \A r, q \in Runs : cont[r] \in Alive /\ cont[q] \in Alive => r = q

\* docs/lifecycle.md, Re-entry rule 6: the instance owns its pidfile until exit.
OwnerUntilExit ==
  [][\A r \in Runs : path = r /\ path' # r => cont[r] \notin Alive]_vars

\* docs/lifecycle.md, Re-entry rule 6 and docs/qa.md: -k unlinks only after
\* the target is confirmed gone.
KillConfirmsDeath ==
  [][\A k \in Kills : At(k, "kunlink") /\ pc'[k] = "done" =>
        cont[seen[k]] \notin Alive]_vars

\* docs/lifecycle.md, Re-entry rules 3 and 4: the empty pidfile of an
\* invocation that crashed is cleaned up on the next invocation.
EmptyRecovered ==
  \A p \in Procs, r \in Runs :
    (At(p, "flock") /\ seen[p] = r /\ At(r, "crashed") /\ r \notin wrote)
      ~> ~At(p, "flock")

\* docs/lifecycle.md, Re-entry rule 3: the re-entering process sees the
\* filesystem of the instance, so the instance has entered its root.
JoinSeesContainerRoot ==
  [][\A r \in Runs : At(r, "chdir") /\ pc'[r] = "setns" =>
        cont[seen[r]] \in Alive \ {"setup"}]_vars
=============================================================================
