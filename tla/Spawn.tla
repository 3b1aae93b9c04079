------------------------------- MODULE Spawn -------------------------------
(***************************************************************************)
(* spawn_cage as a chain of acquisitions any of which may fail: pidfile,   *)
(* futex pages, the session's cgroup, the temp root, the container child;  *)
(* then either spawn_cleanup (a step failed) or finish_child (the child    *)
(* ended) must give all of them back.  Several sessions run side by side   *)
(* in one cgroup v2 hierarchy.                                             *)
(*                                                                         *)
(* Cgroups are paths below /sys/fs/cgroup: <<>> is the root, <<s>> is      *)
(* cage-<pid of s>, <<s, "inner">> is the cage-parent that the container   *)
(* makes below it, <<s, "guest">> stands for cgroups made by the guest.    *)
(***************************************************************************)
EXTENDS Naturals, Sequences

CONSTANTS
  Sessions,     \* the concurrent cage invocations
  NetSessions,  \* those with -N
  CgSessions,   \* those with -C (on cgroup v2)
  MaxTries,     \* attempts of write_subtree_value: 4
  Faults        \* whether writes to the cgroup's own files may fail, the move
                \* back to the root cgroup included, and removals be refused

ASSUME SpawnAssumption ==
  /\ NetSessions \subseteq Sessions
  /\ CgSessions \subseteq Sessions
  /\ MaxTries \in Nat \ {0}
  /\ Faults \in BOOLEAN

VARIABLES
  pc,        \* the parent's next step
  cpc,       \* its container child
  held,      \* what the parent has acquired and not released
  refused,   \* history: what a failing call of the parent left on disk
  dirs,      \* the cgroups that exist
  where,     \* the cgroup of each parent
  cwhere,    \* the cgroup of each live child
  tries,     \* attempts made on cage-<pid>/cgroup.subtree_control
  delegated, \* the sessions whose cage-<pid> passes controllers on
  stuck      \* the sessions whose parent could not leave its cgroup

vars == <<pc, cpc, held, refused, dirs, where, cwhere, tries, delegated, stuck>>

OnDisk == {"pidfile", "root"}
Resources == OnDisk \cup {"netfutex", "rootfutex"}
Cage(s) == <<s>>
Inner(s) == <<s, "inner">>
Guest(s) == <<s, "guest">>
Under(s) == {Cage(s), Inner(s), Guest(s)}
Groups == {<<>>} \cup UNION {Under(s) : s \in Sessions}

Setup == {"pidfile", "pidlock", "net", "cgtype", "rootfutex", "appdir", "cgmount",
          "cgroot", "cgmkdir", "cgmove", "cgenable", "mkdtemp", "unshare", "fork"}
Teardown == {"clean", "cgcheck", "cgleave", "cgrmdir", "release"}
ChildSteps == {"none", "mount", "enter", "run", "dead", "reaped"}

TypeOK ==
  /\ pc \in [Sessions -> Setup \cup Teardown \cup {"wait", "done", "failed"}]
  /\ cpc \in [Sessions -> ChildSteps]
  /\ held \in [Sessions -> SUBSET Resources]
  /\ refused \in [Sessions -> SUBSET OnDisk]
  /\ dirs \in SUBSET Groups
  /\ where \in [Sessions -> Groups]
  /\ cwhere \in [Sessions -> Groups]
  /\ tries \in [Sessions -> 0 .. MaxTries]
  /\ delegated \in SUBSET Sessions
  /\ stuck \in SUBSET Sessions

Init ==
  /\ pc = [s \in Sessions |-> "pidfile"]
  /\ cpc = [s \in Sessions |-> "none"]
  /\ held = [s \in Sessions |-> {}]
  /\ refused = [s \in Sessions |-> {}]
  /\ dirs = {<<>>}
  /\ where = [s \in Sessions |-> <<>>]
  /\ cwhere = [s \in Sessions |-> <<>>]
  /\ tries = [s \in Sessions |-> 0]
  /\ delegated = {}
  /\ stuck = {}

Goto(s, step) == pc' = [pc EXCEPT ![s] = step]
Acquire(s, x) == held' = [held EXCEPT ![s] = @ \cup {x}]
cgvars == <<dirs, where, cwhere, tries, delegated, stuck>>

\* The parent gives X back.  A removal from disk may be refused, and no caller
\* of io_unlink_quiet or remove_root looks at the result.
Drop(s, X) ==
  \E K \in SUBSET (X \cap held[s] \cap OnDisk) :
    /\ K # {} => Faults
    /\ held' = [held EXCEPT ![s] = @ \ (X \ K)]
    /\ refused' = [refused EXCEPT ![s] = @ \cup K]

\* A step of the chain that keeps nothing: on to the next one, or clean up.
Check(s, step, next) ==
  /\ pc[s] = step
  /\ \/ Goto(s, next)
     \/ Goto(s, "clean")
  /\ UNCHANGED <<cpc, held, refused, cgvars>>

\* A step of the chain that acquires x.
Take(s, step, x, next) ==
  /\ pc[s] = step
  /\ \/ Acquire(s, x) /\ Goto(s, next)
     \/ Goto(s, "clean") /\ UNCHANGED held
  /\ UNCHANGED <<cpc, refused, cgvars>>

-----------------------------------------------------------------------------
(* spawn_init, do_setup and do_root_prep.                                  *)

\* open_and_lock: a failed create_pidfile returns without any clean-up.
CreatePidfile(s) ==
  /\ pc[s] = "pidfile"
  /\ \/ Acquire(s, "pidfile") /\ Goto(s, "pidlock")
     \/ Goto(s, "failed") /\ UNCHANGED held
  /\ UNCHANGED <<cpc, refused, cgvars>>

\* The file has been created when its flock fails, and stays.
LockPidfile(s) ==
  /\ pc[s] = "pidlock"
  /\ \/ Goto(s, IF s \in NetSessions THEN "net" ELSE "cgtype") /\ UNCHANGED refused
     \/ /\ refused' = [refused EXCEPT ![s] = @ \cup {"pidfile"}]
        /\ Goto(s, "failed")
  /\ UNCHANGED <<cpc, held, cgvars>>

SetupNet(s) == Take(s, "net", "netfutex", "cgtype")

\* cgroup_get_type can fail only if it is called, with -C.
SetupCgroup(s) ==
  /\ pc[s] = "cgtype"
  /\ \/ Goto(s, "rootfutex")
     \/ s \in CgSessions /\ Goto(s, "clean")
  /\ UNCHANGED <<cpc, held, refused, cgvars>>

CreateRootFutex(s) == Take(s, "rootfutex", "rootfutex", "appdir")
EarlySetupAppdir(s) == Check(s, "appdir", IF s \in CgSessions THEN "cgmount" ELSE "mkdtemp")

\* cgroup_detect_mount, then cgroup_pre_unshare_at.
DetectMount(s) == Check(s, "cgmount", "cgroot")
EnableRoot(s) == Check(s, "cgroot", "cgmkdir")

MakeCgroupDir(s) ==
  /\ pc[s] = "cgmkdir"
  /\ \/ dirs' = dirs \cup {Cage(s)} /\ Goto(s, "cgmove")
     \/ Goto(s, "clean") /\ UNCHANGED dirs
  /\ UNCHANGED <<cpc, held, refused, where, cwhere, tries, delegated, stuck>>

WriteProcs(s) ==
  /\ pc[s] = "cgmove"
  /\ \/ where' = [where EXCEPT ![s] = Cage(s)] /\ Goto(s, "cgenable")
     \/ Goto(s, "clean") /\ UNCHANGED where
  /\ UNCHANGED <<cpc, held, refused, dirs, cwhere, tries, delegated, stuck>>

\* The processes in cgroup g, itself and not those below it.
Members(g) == {s \in Sessions : where[s] = g}
              \cup {s \in Sessions : cpc[s] \notin {"none", "dead", "reaped"} /\ cwhere[s] = g}

\* Mutant: an EBUSY is retried without limit.
WriteEnableForever(s) ==
  /\ pc[s] = "cgenable"
  /\ IF Members(Cage(s)) = {}
       THEN delegated' = delegated \cup {s} /\ Goto(s, "mkdtemp")
       ELSE UNCHANGED <<delegated, pc>>
  /\ UNCHANGED <<cpc, held, refused, dirs, where, cwhere, tries, stuck>>

\* Mutant: one attempt too many.
WriteEnableOneMore(s) ==
  /\ pc[s] = "cgenable"
  /\ tries' = [tries EXCEPT ![s] = @ + 1]
  /\ IF tries[s] = MaxTries THEN Goto(s, "mkdtemp") ELSE UNCHANGED pc
  /\ UNCHANGED <<cpc, held, refused, dirs, where, cwhere, delegated, stuck>>

\* write_enable_controllers in cage-<pid>: the kernel answers EBUSY for a
\* cgroup that has processes of its own, the write is tried MaxTries times,
\* another error ends the attempts, and the outcome is ignored.
WriteEnable(s) ==
  /\ pc[s] = "cgenable"
  /\ \/ IF Members(Cage(s)) = {}
          THEN /\ delegated' = delegated \cup {s}
               /\ Goto(s, "mkdtemp")
               /\ UNCHANGED tries
          ELSE /\ tries' = [tries EXCEPT ![s] = @ + 1]
               /\ IF tries[s] + 1 = MaxTries THEN Goto(s, "mkdtemp") ELSE UNCHANGED pc
               /\ UNCHANGED delegated
     \/ /\ Faults
        /\ Goto(s, "mkdtemp")
        /\ UNCHANGED <<delegated, tries>>
  /\ UNCHANGED <<cpc, held, refused, dirs, where, cwhere, stuck>>

MakeRoot(s) == Take(s, "mkdtemp", "root", "unshare")

\* Mutant: a failed unshare leaves the temp root to spawn_cleanup, which
\* does not know of it.
NsSetupKeepsRoot(s) ==
  /\ pc[s] = "unshare"
  /\ Goto(s, "fork") \/ Goto(s, "clean")
  /\ UNCHANGED <<cpc, held, refused, cgvars>>

\* ns_setup and the fork; do_root_prep undoes the mkdtemp if either fails.
NsSetup(s) ==
  /\ pc[s] = "unshare"
  /\ \/ Goto(s, "fork") /\ UNCHANGED <<held, refused>>
     \/ Goto(s, "clean") /\ Drop(s, {"root"})
  /\ UNCHANGED <<cpc, cgvars>>

ForkChild(s) ==
  /\ pc[s] = "fork"
  /\ \/ /\ cpc' = [cpc EXCEPT ![s] = "mount"]
        /\ cwhere' = [cwhere EXCEPT ![s] = where[s]]
        /\ Goto(s, "wait")
        /\ UNCHANGED <<held, refused>>
     \/ /\ Drop(s, {"root"})
        /\ Goto(s, "clean")
        /\ UNCHANGED <<cpc, cwhere>>
  /\ UNCHANGED <<dirs, where, tries, delegated, stuck>>

-----------------------------------------------------------------------------
(* The container child.                                                    *)

MountRoot(s) ==
  /\ cpc[s] = "mount"
  /\ cpc' = [cpc EXCEPT ![s] = IF s \in CgSessions THEN "enter" ELSE "run"]
  /\ UNCHANGED <<pc, held, refused, cgvars>>

\* cgroup_v2_enter: mkdir cage-parent, move PID 1 into it; if the move fails
\* the child exits and the cgroup is there.
CgroupEnter(s) ==
  /\ cpc[s] = "enter"
  /\ dirs' = dirs \cup {Inner(s)}
  /\ \/ /\ cwhere' = [cwhere EXCEPT ![s] = Inner(s)]
        /\ cpc' = [cpc EXCEPT ![s] = "run"]
     \/ /\ cpc' = [cpc EXCEPT ![s] = "dead"]
        /\ UNCHANGED cwhere
  /\ UNCHANGED <<pc, held, refused, where, tries, delegated, stuck>>

\* The guest may make cgroups of its own in its namespace.
GuestMkdir(s) ==
  /\ cpc[s] = "run"
  /\ s \in CgSessions
  /\ dirs' = dirs \cup {Guest(s)}
  /\ UNCHANGED <<pc, cpc, held, refused, where, cwhere, tries, delegated, stuck>>

ChildDies(s) ==
  /\ cpc[s] \in {"mount", "enter", "run"}
  /\ cpc' = [cpc EXCEPT ![s] = "dead"]
  /\ UNCHANGED <<pc, held, refused, cgvars>>

-----------------------------------------------------------------------------
(* The end of a session.                                                   *)

\* spawn_cleanup up to the cgroup: futex pages, close_pid, unlink.
SpawnCleanup(s) ==
  /\ pc[s] = "clean"
  /\ Drop(s, {"netfutex", "rootfutex", "pidfile"})
  /\ Goto(s, "cgcheck")
  /\ UNCHANGED <<cpc, cgvars>>

\* spawn_exec and finish_child up to the cgroup: the handshakes release the
\* futex pages (and, when the child reports, the root), then reap, unlink.
FinishChild(s) ==
  /\ pc[s] = "wait"
  /\ cpc[s] = "dead"
  /\ cpc' = [cpc EXCEPT ![s] = "reaped"]
  /\ Drop(s, {"netfutex", "rootfutex", "pidfile"})
  /\ Goto(s, "cgcheck")
  /\ UNCHANGED cgvars

\* cgroup_cleanup_at: nothing to do unless the cgroup is there.
CgroupCleanup(s) ==
  /\ pc[s] = "cgcheck"
  /\ Goto(s, IF s \in CgSessions /\ Cage(s) \in dirs THEN "cgleave" ELSE "release")
  /\ UNCHANGED <<cpc, held, refused, cgvars>>

\* write_pid to the root's cgroup.procs; its result is not looked at.
CgroupLeave(s) ==
  /\ pc[s] = "cgleave"
  /\ \/ where' = [where EXCEPT ![s] = <<>>] /\ UNCHANGED stuck
     \/ Faults /\ stuck' = stuck \cup {s} /\ UNCHANGED where
  /\ Goto(s, "cgrmdir")
  /\ UNCHANGED <<cpc, held, refused, dirs, cwhere, tries, delegated>>

\* cgroup_rmdir_recursive: children first; the kernel removes a cgroup only
\* if it has neither processes nor children.
CgroupRmdir(s) ==
  /\ pc[s] = "cgrmdir"
  /\ LET left == dirs \ {g \in {Inner(s), Guest(s)} : Members(g) = {}}
     IN dirs' = IF Members(Cage(s)) = {} /\ left \cap {Inner(s), Guest(s)} = {}
                  THEN left \ {Cage(s)} ELSE left
  /\ Goto(s, "release")
  /\ UNCHANGED <<cpc, held, refused, where, cwhere, tries, delegated, stuck>>

\* remove_root of the root the parent knows of: none in spawn_cleanup.
Release(s) ==
  /\ pc[s] = "release"
  /\ IF cpc[s] = "reaped"
       THEN Drop(s, {"root"}) /\ Goto(s, "done")
       ELSE UNCHANGED <<held, refused>> /\ Goto(s, "failed")
  /\ UNCHANGED <<cpc, cgvars>>

-----------------------------------------------------------------------------
SetupStep(s) ==
  \/ CreatePidfile(s) \/ LockPidfile(s) \/ SetupNet(s) \/ SetupCgroup(s)
  \/ CreateRootFutex(s) \/ EarlySetupAppdir(s) \/ DetectMount(s) \/ EnableRoot(s) \/ MakeCgroupDir(s)
  \/ WriteProcs(s) \/ WriteEnable(s) \/ MakeRoot(s) \/ NsSetup(s) \/ ForkChild(s)

ChildStep(s) == MountRoot(s) \/ CgroupEnter(s) \/ GuestMkdir(s) \/ ChildDies(s)

EndStep(s) ==
  \/ SpawnCleanup(s) \/ FinishChild(s) \/ CgroupCleanup(s) \/ CgroupLeave(s)
  \/ CgroupRmdir(s) \/ Release(s)

AllOver ==
  /\ \A s \in Sessions : pc[s] \in {"done", "failed"}
  /\ UNCHANGED vars

Next ==
  \/ \E s \in Sessions : SetupStep(s) \/ ChildStep(s) \/ EndStep(s)
  \/ AllOver

Spec == Init /\ [][Next]_vars

\* The parent is scheduled; nothing is assumed of the child.
FairSpec == Spec /\ \A s \in Sessions : WF_vars(SetupStep(s) \/ EndStep(s))

-----------------------------------------------------------------------------
\* However far a session got, and whichever step failed, an invocation that
\* has ended holds nothing but what a failing call of its own left on disk: a
\* pidfile whose flock failed, a file or root whose removal was refused.  It
\* has no cgroup left, unless the kernel refused to let it out of its cgroup.
NothingLeft ==
  \A s \in Sessions : pc[s] \in {"done", "failed"} =>
    /\ held[s] \subseteq refused[s]
    /\ s \notin stuck => Under(s) \cap dirs = {}

\* Every spawn comes to an end or waits for its child: the EBUSY retries
\* are bounded and no failure path blocks.
SpawnEnds == \A s \in Sessions : <>(pc[s] \in {"wait", "done", "failed"})

-----------------------------------------------------------------------------
\* docs/lifecycle.md, Cgroup rule 7: write_enable_controllers(cgdir) delegates
\* the controllers to the container.
ControllersDelegated ==
  \A s \in CgSessions : cpc[s] = "run" => s \in delegated
=============================================================================
