------------------------------ MODULE Session ------------------------------
(***************************************************************************)
(* What happens between the fork of the container and its end, for several *)
(* concurrent sessions of different names: the two futex handshakes of the *)
(* parent with its container child (network and temp root), the temp root, *)
(* and the host's cage-vethN links, which the sessions with -N share.      *)
(*                                                                         *)
(* A session has two processes: the parent (ppc), which stays on the host, *)
(* and its container child (cpc).  They share the words netf and rootf     *)
(* through MAP_SHARED memory.                                              *)
(***************************************************************************)
EXTENDS Naturals, FiniteSets

CONSTANTS
  Sessions,    \* the concurrent cage invocations
  NetSessions, \* those with -N
  MaxId,       \* CAGE_VETH_MAX_ID
  ScanMax,     \* how many links of the host fit the 16384-byte dump buffer
  None,        \* no session
  Faults,      \* whether any netlink call of a parent may fail
  Killed       \* the sessions whose parent may be killed

Ids == 0 .. MaxId

ASSUME SessionAssumption ==
  /\ IsFiniteSet(Sessions)
  /\ NetSessions \subseteq Sessions
  /\ None \notin Sessions
  /\ MaxId \in Nat /\ 2 * MaxId + 1 < 256
  /\ ScanMax \in Nat
  /\ Faults \in BOOLEAN
  /\ Killed \subseteq Sessions

VARIABLES
  ppc,     \* the parent's next step
  cpc,     \* the child's next step
  netf,    \* the network futex: 0, 1 (child has unshared), 2 (host side done)
  rootf,   \* the root futex: 0, 1 (child has entered its root)
  netid,   \* the veth id a session has chosen
  link,    \* for each id, the session whose parent created cage-veth<id>
  idx,     \* the session whose link has the ifindex that a parent looked up
  ends,    \* what the host end of each session's link has got: "addr", "up"
  lapse,   \* history: a parent's dump "missed" its link, or a call of it "failed"
  root     \* the sessions whose temp root is on disk

netvars == <<netid, link, idx, ends, lapse>>
vars == <<ppc, cpc, netf, rootf, netvars, root>>

ParentSteps == {"alloc", "fork", "netcheck", "netpeek", "veth", "find", "addr",
                "up", "signal", "wake", "rootcheck", "rootpeek", "rmroot", "reap",
                "finish", "done", "failed", "crashed"}
ChildSteps == {"none", "unshare", "setone", "test", "futex", "asleep", "config",
               "mount", "ready", "run", "zombie", "gone"}
Dead == {"zombie", "gone"}
Over == {"done", "failed", "crashed"}

TypeOK ==
  /\ ppc \in [Sessions -> ParentSteps]
  /\ cpc \in [Sessions -> ChildSteps]
  /\ netf \in [Sessions -> 0 .. 2]
  /\ rootf \in [Sessions -> 0 .. 1]
  /\ netid \in [Sessions -> Ids]
  /\ link \in [Ids -> Sessions \cup {None}]
  /\ idx \in [Sessions -> Sessions \cup {None}]
  /\ ends \in [Sessions -> SUBSET {"addr", "up"}]
  /\ lapse \in [Sessions -> {"none", "missed", "failed"}]
  /\ root \in SUBSET Sessions

Init ==
  /\ ppc = [s \in Sessions |-> IF s \in NetSessions THEN "alloc" ELSE "fork"]
  /\ cpc = [s \in Sessions |-> "none"]
  /\ netf = [s \in Sessions |-> 0]
  /\ rootf = [s \in Sessions |-> 0]
  /\ netid = [s \in Sessions |-> 0]
  /\ link = [n \in Ids |-> None]
  /\ idx = [s \in Sessions |-> None]
  /\ ends = [s \in Sessions |-> {}]
  /\ lapse = [s \in Sessions |-> "none"]
  /\ root = {}

PGoto(s, step) == ppc' = [ppc EXCEPT ![s] = step]
CGoto(s, step) == cpc' = [cpc EXCEPT ![s] = step]

\* The two ends of link n are the addresses 2n (container) and 2n + 1 (host)
\* of one /31 block, kept in the last byte of the address.
CageIP(n) == (2 * n) % 256
HostIP(n) == (2 * n + 1) % 256

-----------------------------------------------------------------------------
(* The parent before the fork.                                             *)

Used == {n \in Ids : link[n] # None}

\* A dump that does not fit the buffer is cut off: the links beyond are not seen.
Scans == IF Cardinality(Used) <= ScanMax
           THEN {Used}
           ELSE {V \in SUBSET Used : Cardinality(V) = ScanMax}

\* Mutant: the id after the highest one in use, with no check of CAGE_VETH_MAX_ID.
AllocVethIdAboveHighest(s) ==
  /\ ppc[s] = "alloc"
  /\ \E V \in Scans : \E n \in {m \in 0 .. MaxId + 1 : \A v \in V : v < m} :
       /\ \A v \in 0 .. n - 1 : \E w \in V : v <= w
       /\ netid' = [netid EXCEPT ![s] = n]
  /\ PGoto(s, "fork")
  /\ UNCHANGED <<cpc, netf, rootf, link, idx, ends, lapse, root>>

\* netlink_lowest_free_veth_id, and net_setup: no free id, or a failure of
\* ip_forward or NAT, ends the session before the fork.
AllocVethId(s) ==
  /\ ppc[s] = "alloc"
  /\ \E V \in Scans :
       \/ \E n \in Ids \ V :
            /\ \A m \in Ids \ V : n <= m
            /\ netid' = [netid EXCEPT ![s] = n]
            /\ PGoto(s, "fork")
       \/ /\ PGoto(s, "failed")
          /\ UNCHANGED netid
  /\ UNCHANGED <<cpc, netf, rootf, link, idx, ends, lapse, root>>

\* prepare_mounts: mkdtemp and fork; on failure unprepare removes the root.
ForkChild(s) ==
  /\ ppc[s] = "fork"
  /\ \/ /\ root' = root \cup {s}
        /\ CGoto(s, "unshare")
        /\ PGoto(s, IF s \in NetSessions THEN "netcheck" ELSE "rootcheck")
     \/ /\ PGoto(s, "failed")
        /\ UNCHANGED <<cpc, root>>
  /\ UNCHANGED <<netf, rootf, netvars>>

-----------------------------------------------------------------------------
(* wait_flag: test the word, then look whether the child has died, then    *)
(* sleep for at most 20 ms and start again.                                *)

\* Mutant: the parent does not wait for the child's 1.
NetCheckSkipped(s) ==
  /\ ppc[s] = "netcheck"
  /\ PGoto(s, "veth")
  /\ UNCHANGED <<cpc, netf, rootf, netvars, root>>

NetCheck(s) ==
  /\ ppc[s] = "netcheck"
  /\ PGoto(s, IF netf[s] = 1 THEN "veth" ELSE "netpeek")
  /\ UNCHANGED <<cpc, netf, rootf, netvars, root>>

\* Mutant: the parent does not look for a dead child.
NetPeekBlind(s) ==
  /\ ppc[s] = "netpeek"
  /\ PGoto(s, "netcheck")
  /\ UNCHANGED <<cpc, netf, rootf, netvars, root>>

NetPeek(s) ==
  /\ ppc[s] = "netpeek"
  /\ PGoto(s, IF cpc[s] = "zombie" THEN "rootcheck" ELSE "netcheck")
  /\ UNCHANGED <<cpc, netf, rootf, netvars, root>>

\* Mutant: RTM_NEWLINK without NLM_F_EXCL takes over an existing link.
CreateVethNotExcl(s) ==
  /\ ppc[s] = "veth"
  /\ \/ /\ cpc[s] \notin Dead
        /\ link' = [link EXCEPT ![netid[s]] = s]
        /\ PGoto(s, "find")
     \/ PGoto(s, "signal") /\ UNCHANGED link
  /\ UNCHANGED <<cpc, netf, rootf, netid, idx, ends, lapse, root>>

\* do_parent_net and the request of netlink_create_veth.  /proc/<child>/ns/net
\* cannot be opened once the child is dead; NLM_F_EXCL refuses a name that
\* exists.
CreateVeth(s) ==
  /\ ppc[s] = "veth"
  /\ \/ /\ cpc[s] \notin Dead
        /\ link[netid[s]] = None
        /\ link' = [link EXCEPT ![netid[s]] = s]
        /\ PGoto(s, "find")
     \/ /\ cpc[s] \in Dead \/ link[netid[s]] # None \/ Faults
        /\ PGoto(s, "signal")
        /\ UNCHANGED link
  /\ UNCHANGED <<cpc, netf, rootf, netid, idx, ends, lapse, root>>

\* History: what befell the host end of a session's link, while there is one.
Note(s, what) ==
  lapse' = IF link[netid[s]] = s THEN [lapse EXCEPT ![s] = what] ELSE lapse

\* netlink_dump_find_ifname: the parent looks its link up by name in a second
\* dump.  Where that does not show it, parent_nl_cmds returns and leaves the
\* host end as it is.
FindVeth(s) ==
  /\ ppc[s] = "find"
  /\ \/ \E V \in Scans :
          IF netid[s] \in V
            THEN /\ idx' = [idx EXCEPT ![s] = link[netid[s]]]
                 /\ PGoto(s, "addr")
                 /\ UNCHANGED lapse
            ELSE /\ Note(s, "missed")
                 /\ PGoto(s, "signal")
                 /\ UNCHANGED idx
     \/ /\ Faults
        /\ Note(s, "failed")
        /\ PGoto(s, "signal")
        /\ UNCHANGED idx
  /\ UNCHANGED <<cpc, netf, rootf, netid, link, ends, root>>

\* nl_send_msg: a request about the interface whose index was found.  It has
\* no effect once that is gone, and its failure goes unnoticed.
Request(s, what) ==
  \/ /\ link[netid[s]] = idx[s]
     /\ ends' = [ends EXCEPT ![idx[s]] = @ \cup {what}]
     /\ UNCHANGED lapse
  \/ /\ link[netid[s]] # idx[s]
     /\ UNCHANGED <<ends, lapse>>
  \/ /\ Faults
     /\ Note(s, "failed")
     /\ UNCHANGED ends

SetHostAddr(s) ==
  /\ ppc[s] = "addr"
  /\ Request(s, "addr")
  /\ PGoto(s, "up")
  /\ UNCHANGED <<cpc, netf, rootf, netid, link, idx, root>>

\* Mutant: the parent gives its end an address and leaves it down.
SetHostUpSkipped(s) ==
  /\ ppc[s] = "up"
  /\ idx' = [idx EXCEPT ![s] = None]
  /\ PGoto(s, "signal")
  /\ UNCHANGED <<cpc, netf, rootf, netid, link, ends, lapse, root>>

\* The IPv6 address, which is sent last and is best effort, is left out.
SetHostUp(s) ==
  /\ ppc[s] = "up"
  /\ Request(s, "up")
  /\ idx' = [idx EXCEPT ![s] = None]
  /\ PGoto(s, "signal")
  /\ UNCHANGED <<cpc, netf, rootf, netid, link, root>>

SignalNet(s) ==
  /\ ppc[s] = "signal"
  /\ netf' = [netf EXCEPT ![s] = 2]
  /\ PGoto(s, "wake")
  /\ UNCHANGED <<cpc, rootf, netvars, root>>

WakeChild(s) ==
  /\ ppc[s] = "wake"
  /\ PGoto(s, "rootcheck")
  /\ IF cpc[s] = "asleep" THEN CGoto(s, "config") ELSE UNCHANGED cpc
  /\ UNCHANGED <<netf, rootf, netvars, root>>

RootCheck(s) ==
  /\ ppc[s] = "rootcheck"
  /\ PGoto(s, IF rootf[s] = 1 THEN "rmroot" ELSE "rootpeek")
  /\ UNCHANGED <<cpc, netf, rootf, netvars, root>>

RootPeek(s) ==
  /\ ppc[s] = "rootpeek"
  /\ PGoto(s, IF cpc[s] = "zombie" THEN "reap" ELSE "rootcheck")
  /\ UNCHANGED <<cpc, netf, rootf, netvars, root>>

\* Mutant: spawn_exec leaves the root to finish_child.
RemoveRootLate(s) ==
  /\ ppc[s] = "rmroot"
  /\ PGoto(s, "reap")
  /\ UNCHANGED <<cpc, netf, rootf, netvars, root>>

RemoveRootEarly(s) ==
  /\ ppc[s] = "rmroot"
  /\ root' = root \ {s}
  /\ PGoto(s, "reap")
  /\ UNCHANGED <<cpc, netf, rootf, netvars>>

\* finish_child: the reap, and remove_root for a child that never signalled.
ReapChild(s) ==
  /\ ppc[s] = "reap"
  /\ cpc[s] = "zombie"
  /\ CGoto(s, "gone")
  /\ PGoto(s, "finish")
  /\ UNCHANGED <<netf, rootf, netvars, root>>

\* Mutant: finish_child takes the root for removed already.
FinishSkipsRoot(s) ==
  /\ ppc[s] = "finish"
  /\ PGoto(s, "done")
  /\ UNCHANGED <<cpc, netf, rootf, netvars, root>>

Finish(s) ==
  /\ ppc[s] = "finish"
  /\ root' = root \ {s}
  /\ PGoto(s, "done")
  /\ UNCHANGED <<cpc, netf, rootf, netvars>>

-----------------------------------------------------------------------------
(* The container child, run_mount_inner.                                   *)

\* setup_mount_namespaces: own mount (and network) namespace, the overlay.
Unshare(s) ==
  /\ cpc[s] = "unshare"
  /\ CGoto(s, IF s \in NetSessions THEN "setone" ELSE "mount")
  /\ UNCHANGED <<ppc, netf, rootf, netvars, root>>

\* do_child_net: store 1, wake, test for 2, wait while the word is still 1.
SetOne(s) ==
  /\ cpc[s] = "setone"
  /\ netf' = [netf EXCEPT ![s] = 1]
  /\ CGoto(s, "test")
  /\ UNCHANGED <<ppc, rootf, netvars, root>>

\* Mutant: the child goes on without waiting for the 2.
TestTwoSkipped(s) ==
  /\ cpc[s] = "test"
  /\ CGoto(s, "config")
  /\ UNCHANGED <<ppc, netf, rootf, netvars, root>>

TestTwo(s) ==
  /\ cpc[s] = "test"
  /\ CGoto(s, IF netf[s] = 2 THEN "config" ELSE "futex")
  /\ UNCHANGED <<ppc, netf, rootf, netvars, root>>

\* Mutant: the wait does not compare the word with 1.
FutexWaitBlind(s) ==
  /\ cpc[s] = "futex"
  /\ CGoto(s, "asleep")
  /\ UNCHANGED <<ppc, netf, rootf, netvars, root>>

FutexWait(s) ==
  /\ cpc[s] = "futex"
  /\ CGoto(s, IF netf[s] = 1 THEN "asleep" ELSE "config")
  /\ UNCHANGED <<ppc, netf, rootf, netvars, root>>

\* net_setup_child: eth0 must be there, otherwise the child exits.
ConfigNet(s) ==
  /\ cpc[s] = "config"
  /\ CGoto(s, IF link[netid[s]] = s THEN "mount" ELSE "zombie")
  /\ UNCHANGED <<ppc, netf, rootf, netvars, root>>

\* do_child_setup and move_and_chroot.
MountAll(s) ==
  /\ cpc[s] = "mount"
  /\ CGoto(s, "ready")
  /\ UNCHANGED <<ppc, netf, rootf, netvars, root>>

RootReady(s) ==
  /\ cpc[s] = "ready"
  /\ rootf' = [rootf EXCEPT ![s] = 1]
  /\ CGoto(s, "run")
  /\ UNCHANGED <<ppc, netf, netvars, root>>

\* Every set-up step may fail with _exit(1), a signal may strike at any time
\* and a command may end.
ChildDies(s) ==
  /\ cpc[s] \notin Dead \cup {"none"}
  /\ CGoto(s, "zombie")
  /\ UNCHANGED <<ppc, netf, rootf, netvars, root>>

-----------------------------------------------------------------------------
(* The kernel: the network namespace dies with the child, and the link     *)
(* pair with the namespace, some time later; init reaps orphans.           *)

LinkGone(n) ==
  /\ link[n] # None
  /\ cpc[link[n]] \in Dead
  /\ link' = [link EXCEPT ![n] = None]
  /\ ends' = [ends EXCEPT ![link[n]] = {}]
  /\ lapse' = [lapse EXCEPT ![link[n]] = "none"]
  /\ UNCHANGED <<ppc, cpc, netf, rootf, netid, idx, root>>

InitReap(s) ==
  /\ ppc[s] = "crashed"
  /\ cpc[s] = "zombie"
  /\ CGoto(s, "gone")
  /\ UNCHANGED <<ppc, netf, rootf, netvars, root>>

ParentCrash(s) ==
  /\ s \in Killed
  /\ ppc[s] \notin Over
  /\ PGoto(s, "crashed")
  /\ UNCHANGED <<cpc, netf, rootf, netvars, root>>

-----------------------------------------------------------------------------
ParentStep(s) ==
  \/ AllocVethId(s) \/ ForkChild(s)
  \/ NetCheck(s) \/ NetPeek(s) \/ CreateVeth(s) \/ FindVeth(s)
  \/ SetHostAddr(s) \/ SetHostUp(s) \/ SignalNet(s) \/ WakeChild(s)
  \/ RootCheck(s) \/ RootPeek(s) \/ RemoveRootEarly(s)
  \/ ReapChild(s) \/ Finish(s)

ChildStep(s) ==
  \/ Unshare(s) \/ SetOne(s) \/ TestTwo(s) \/ FutexWait(s) \/ ConfigNet(s)
  \/ MountAll(s) \/ RootReady(s)

AllOver ==
  /\ \A s \in Sessions : ppc[s] \in Over
  /\ UNCHANGED vars

Next ==
  \/ \E s \in Sessions : ParentStep(s)
  \/ \E s \in Sessions : ChildStep(s)
  \/ \E s \in Sessions : ChildDies(s) \/ InitReap(s) \/ ParentCrash(s)
  \/ \E n \in Ids : LinkGone(n)
  \/ AllOver

Spec == Init /\ [][Next]_vars

\* Both processes are scheduled and the child's set-up steps end.  Nothing
\* is assumed of the command: it may run for ever.
FairSpec ==
  /\ Spec
  /\ \A s \in Sessions : WF_vars(ParentStep(s)) /\ WF_vars(ChildStep(s))

-----------------------------------------------------------------------------
(* Safety.                                                                 *)

\* The sessions whose container got past its network set-up and is alive.
Configured == {s \in NetSessions : cpc[s] \in {"mount", "ready", "run"}}

\* A container starts with a network only behind its own link, so no two
\* live containers share an address and the four ends are all distinct.
AddressesDistinct ==
  /\ \A s \in Configured : link[netid[s]] = s
  /\ \A s, t \in Configured : s # t =>
       {CageIP(netid[s]), HostIP(netid[s])} \cap {CageIP(netid[t]), HostIP(netid[t])} = {}

\* The peer is born in the container's namespace: no link is created before
\* the child has left the host's network namespace.
LinkAfterUnshare == \A n \in Ids : link[n] # None => cpc[link[n]] \notin {"none", "unshare"}

\* The container configures its network only after the host side is done.
NetHandshake == \A s \in NetSessions :
  cpc[s] \in {"config", "mount", "ready", "run"} => netf[s] = 2

\* The temp root is on disk as long as a live child still works under it,
\* and an invocation that ended by itself leaves none behind.
RootLifetime ==
  \A s \in Sessions :
    /\ cpc[s] \in ChildSteps \ ({"none", "run"} \cup Dead) => s \in root
    /\ ppc[s] \in {"done", "failed"} => s \notin root

\* A container that was told its address has a host end with its address
\* that is up, unless a netlink call of its parent failed or its parent's
\* second dump was cut off before the link, which takes more links than fit.
\* No other failure, death or race leaves a live container with a dead end.
HostEndConfigured ==
  \A s \in Configured :
    \/ ends[s] = {"addr", "up"}
    \/ lapse[s] = "failed"
    \/ lapse[s] = "missed" /\ ScanMax <= MaxId

-----------------------------------------------------------------------------
(* Liveness.                                                               *)

\* A parent never waits for a dead child: once the child is dead the
\* invocation ends, unless it was killed itself.
ParentEnds == \A s \in Sessions : cpc[s] \in Dead ~> ppc[s] \in Over

\* No wake-up is lost: a child that waits for the host side goes on, unless
\* its parent is killed, for it waits without a limit.
ChildWakes ==
  \A s \in Sessions : cpc[s] = "asleep" ~> cpc[s] # "asleep" \/ ppc[s] = "crashed"

\* The temp root goes while the command is still running, unless the parent
\* that has to remove it is killed.
RootRemovedEarly ==
  \A s \in Sessions : cpc[s] = "run" ~> s \notin root \/ ppc[s] = "crashed"
=============================================================================
