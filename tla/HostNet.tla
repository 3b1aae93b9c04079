------------------------------ MODULE HostNet ------------------------------
(***************************************************************************)
(* What sessions with -N change on the host and never change back, by      *)
(* several of them at once: setup_net_or_fail loads veth, turns on IPv4    *)
(* forwarding, adds the NAT rule, turns on IPv6 forwarding without losing  *)
(* the routes learnt from router advertisements, adds the IPv6 NAT rule;   *)
(* the container child then mounts the overlay, loading its module when    *)
(* the mount says ENODEV.  Interfaces may appear at any time.              *)
(***************************************************************************)
EXTENDS Modprobe, FiniteSets

CONSTANTS
  Ifaces,    \* the network interfaces
  Plugged,   \* those that are there from the beginning
  Quiet,     \* those of them whose accept_ra is 0
  veth, overlay \* two of the modules

ASSUME HostNetAssumption ==
  /\ Quiet \subseteq Plugged /\ Plugged \subseteq Ifaces
  /\ {veth, overlay} \subseteq Modules
  /\ MaxFaults \in Nat

VARIABLES
  pc,       \* the next step of each process
  todoif,   \* the interfaces a process still has to visit
  force,    \* all/force_forwarding: "none" on kernels without it, else 0 or 1
  forced,   \* the interfaces with force_forwarding, "default" among them
  fwd4,     \* ip_forward
  fwd6,     \* conf/all/forwarding
  ra,       \* accept_ra of each interface; ra["default"] for new ones
  ifs,      \* the interfaces that exist
  routes,   \* the interfaces with a default route from a router advertisement
  rules,    \* the masquerading rules in each family's cage-nat table
  lost,     \* the interfaces whose route a write to all/forwarding purged
  late,     \* the interfaces that came after a scan and without accept_ra 2
  unread    \* those with accept_ra 1 that raise_accept_ra could not read

nvars == <<pc, todoif, force, forced, fwd4, fwd6, ra, ifs, routes, rules, lost, late, unread>>
vars == <<mvars, nvars>>

Over == {"up", "failed", "dead"}
Steps == Over \cup {"veth", "wait", "fwd4", "nat", "fwd6", "forcedef", "forcescan", "forceif",
                    "scan", "raise", "default", "all6", "nat6", "overlay", "wait2", "retry", "link"}

TypeOK ==
  /\ ModTypeOK
  /\ pc \in [Procs -> Steps]
  /\ todoif \in [Procs -> SUBSET Ifaces]
  /\ force \in {"none", "0", "1"}
  /\ forced \subseteq Ifaces \cup {"default"}
  /\ fwd4 \in BOOLEAN /\ fwd6 \in BOOLEAN
  /\ ra \in [Ifaces \cup {"default"} -> 0 .. 2]
  /\ ifs \subseteq Ifaces
  /\ routes \subseteq ifs
  /\ rules \in [{"ip", "ip6"} -> Nat]
  /\ lost \subseteq Ifaces /\ late \subseteq Ifaces /\ unread \subseteq Ifaces

Init ==
  /\ ModInit
  /\ pc = [p \in Procs |-> "veth"]
  /\ todoif = [p \in Procs |-> {}]
  /\ force \in {"none", "0"}
  /\ forced = {}
  /\ fwd4 = FALSE /\ fwd6 = FALSE
  /\ ra = [i \in Ifaces \cup {"default"} |-> IF i \in Quiet THEN 0 ELSE 1]
  /\ ifs = Plugged
  /\ routes = {}
  /\ rules = [f \in {"ip", "ip6"} |-> 0]
  /\ lost = {} /\ late = {} /\ unread = {}

Goto(p, s) == pc' = [pc EXCEPT ![p] = s]

host == <<todoif, force, forced, fwd4, fwd6, ra, ifs, routes, rules, lost, late, unread>>

\* A call of step `at` fails.
Fails(p, at, onfail) ==
  /\ pc[p] = at
  /\ Fault(p)
  /\ Goto(p, onfail)
  /\ UNCHANGED <<host, tree, live, snap, want, step, todo, early>>

-----------------------------------------------------------------------------
(* modprobe_load("veth") and what follows from its answer.                 *)

LoadVeth(p) ==
  \/ pc[p] = "veth" /\ Request(p, veth) /\ Goto(p, "wait") /\ UNCHANGED host
  \/ pc[p] = "wait" /\ Answer(p, "ok") /\ Goto(p, "fwd4") /\ UNCHANGED host
  \/ pc[p] = "wait" /\ Answer(p, "bad") /\ Goto(p, "failed") /\ UNCHANGED host

EnableIpForward(p) ==
  \/ /\ pc[p] = "fwd4"
     /\ fwd4' = TRUE
     /\ Goto(p, "nat")
     /\ UNCHANGED <<mvars, todoif, force, forced, fwd6, ra, ifs, routes, rules, lost, late, unread>>
  \/ Fails(p, "fwd4", "failed")

-----------------------------------------------------------------------------
(* nft_setup_family: one transaction with table, chain and rule.           *)

\* Mutant: the table is created without NLM_F_EXCL, so the rule is appended again.
SetupNatAppends(p, at, family, next, onfail) ==
  \/ /\ pc[p] = at
     /\ rules' = [rules EXCEPT ![family] = @ + 1]
     /\ Goto(p, next)
     /\ UNCHANGED <<mvars, todoif, force, forced, fwd4, fwd6, ra, ifs, routes, lost, late, unread>>
  \/ Fails(p, at, onfail)

\* Table, chain and rule come in one batch, so the table is there with its rule.
Table(family) == rules[family] > 0

\* EEXIST for the table drops the whole batch and counts as success.
SetupNat(p, at, family, next, onfail) ==
  \/ /\ pc[p] = at
     /\ rules' = IF Table(family) THEN rules ELSE [rules EXCEPT ![family] = @ + 1]
     /\ Goto(p, next)
     /\ UNCHANGED <<mvars, todoif, force, forced, fwd4, fwd6, ra, ifs, routes, lost, late, unread>>
  \/ Fails(p, at, onfail)

-----------------------------------------------------------------------------
(* net_enable_ip6_forward on kernels with force_forwarding: all, then the  *)
(* default of new interfaces, then the existing ones.  Only the result of  *)
(* the first write is looked at, to tell such a kernel from an older one.  *)

EnableIp6Forward(p) ==
  \/ /\ pc[p] = "fwd6"
     /\ force' = IF force = "none" THEN force ELSE "1"
     /\ Goto(p, IF force = "none" THEN "scan" ELSE "forcedef")
     /\ UNCHANGED <<mvars, todoif, forced, fwd4, fwd6, ra, ifs, routes, rules, lost, late, unread>>
  \/ force # "none" /\ Fails(p, "fwd6", "scan")

ForceDefault(p) ==
  \/ /\ pc[p] = "forcedef"
     /\ forced' = forced \cup {"default"}
     /\ Goto(p, "forcescan")
     /\ UNCHANGED <<mvars, todoif, force, fwd4, fwd6, ra, ifs, routes, rules, lost, late, unread>>
  \/ Fails(p, "forcedef", "forcescan")

\* opendir, and readdir, which returns a small directory in one piece.
Scan(p, at, next) ==
  \/ /\ pc[p] = at
     /\ todoif' = [todoif EXCEPT ![p] = ifs]
     /\ Goto(p, next)
     /\ UNCHANGED <<mvars, force, forced, fwd4, fwd6, ra, ifs, routes, rules, lost, late, unread>>
  \/ Fails(p, at, "nat6")

ForceExisting(p) ==
  /\ pc[p] = "forceif"
  /\ \/ \E i \in todoif[p] :
          /\ forced' = forced \cup {i}
          /\ todoif' = [todoif EXCEPT ![p] = @ \ {i}]
          /\ UNCHANGED <<mvars, pc>>
     \/ \E i \in todoif[p] :
          /\ Fault(p)
          /\ todoif' = [todoif EXCEPT ![p] = @ \ {i}]
          /\ UNCHANGED <<forced, pc, tree, live, snap, want, step, todo, early>>
     \/ todoif[p] = {} /\ Goto(p, "nat6") /\ UNCHANGED <<mvars, forced, todoif>>
  /\ UNCHANGED <<force, fwd4, fwd6, ra, ifs, routes, rules, lost, late, unread>>

-----------------------------------------------------------------------------
(* legacy_ip6_forward: accept_ra 1 becomes 2 on every interface, then for  *)
(* new ones, and only then forwarding is turned on.                        *)

\* Mutant: raise_accept_ra leaves the interface as it is.
RaiseAcceptRaSkipped(p) ==
  /\ pc[p] = "raise"
  /\ Goto(p, "default")
  /\ todoif' = [todoif EXCEPT ![p] = {}]
  /\ UNCHANGED <<mvars, force, forced, fwd4, fwd6, ra, ifs, routes, rules, lost, late, unread>>

\* Mutant: the value is incremented whatever it is.
RaiseAcceptRaCounts(p) ==
  /\ pc[p] = "raise"
  /\ \/ \E i \in todoif[p] :
          /\ ra' = [ra EXCEPT ![i] = @ + 1]
          /\ todoif' = [todoif EXCEPT ![p] = @ \ {i}]
          /\ UNCHANGED pc
     \/ todoif[p] = {} /\ Goto(p, "default") /\ UNCHANGED <<ra, todoif>>
  /\ UNCHANGED <<mvars, force, forced, fwd4, fwd6, ifs, routes, rules, lost, late, unread>>

\* A write that fails ends the attempt with forwarding as it was; a value that
\* cannot be opened or read is passed over.
RaiseAcceptRa(p) ==
  \/ /\ pc[p] = "raise"
     /\ \/ \E i \in todoif[p] :
             /\ ra' = IF ra[i] = 1 THEN [ra EXCEPT ![i] = 2] ELSE ra
             /\ todoif' = [todoif EXCEPT ![p] = @ \ {i}]
             /\ UNCHANGED pc
        \/ todoif[p] = {} /\ Goto(p, "default") /\ UNCHANGED <<ra, todoif>>
     /\ UNCHANGED <<mvars, force, forced, fwd4, fwd6, ifs, routes, rules, lost, late, unread>>
  \/ (\E i \in todoif[p] : ra[i] = 1) /\ Fails(p, "raise", "nat6")
  \/ /\ pc[p] = "raise"
     /\ Fault(p)
     /\ \E i \in todoif[p] :
          /\ todoif' = [todoif EXCEPT ![p] = @ \ {i}]
          /\ unread' = IF ra[i] = 1 THEN unread \cup {i} ELSE unread
     /\ UNCHANGED <<pc, force, forced, fwd4, fwd6, ra, ifs, routes, rules, lost, late>>
     /\ UNCHANGED <<tree, live, snap, want, step, todo, early>>

\* The results of the last two writes are not looked at.
DefaultAcceptRa(p) ==
  \/ /\ pc[p] = "default"
     /\ ra' = [ra EXCEPT !["default"] = 2]
     /\ Goto(p, "all6")
     /\ UNCHANGED <<mvars, todoif, force, forced, fwd4, fwd6, ifs, routes, rules, lost, late, unread>>
  \/ Fails(p, "default", "all6")

\* The kernel purges the advertised routes of interfaces without accept_ra 2.
ForwardAll(p) ==
  \/ LET purged == {i \in routes : ra[i] # 2} IN
     /\ pc[p] = "all6"
     /\ fwd6' = TRUE
     /\ routes' = routes \ purged
     /\ lost' = lost \cup purged
     /\ Goto(p, "nat6")
     /\ UNCHANGED <<mvars, todoif, force, forced, fwd4, ra, ifs, rules, late, unread>>
  \/ Fails(p, "all6", "nat6")

-----------------------------------------------------------------------------
(* try_mount_overlay in the child: ENODEV loads the module, then once more.*)

MountOverlay(p) ==
  \/ /\ pc[p] = "overlay"
     /\ overlay \in Available
     /\ Goto(p, "link")
     /\ UNCHANGED <<host, mvars>>
  \/ /\ pc[p] = "overlay"
     /\ overlay \notin Available
     /\ Request(p, overlay)
     /\ Goto(p, "wait2")
     /\ UNCHANGED host
  \/ pc[p] = "wait2" /\ Answer(p, "ok") /\ Goto(p, "retry") /\ UNCHANGED host
  \/ pc[p] = "wait2" /\ Answer(p, "bad") /\ Goto(p, "failed") /\ UNCHANGED host
  \/ /\ pc[p] = "retry"
     /\ Goto(p, IF overlay \in Available THEN "link" ELSE "failed")
     /\ UNCHANGED <<host, mvars>>

\* The parent creates the link while the child waits; without it the child
\* finds no eth0 and fails.  The kernel refuses the kind "veth" until the
\* module is ready.
CreateLink(p) ==
  /\ pc[p] = "link"
  /\ Goto(p, IF veth \in Available THEN "up" ELSE "failed")
  /\ UNCHANGED <<host, mvars>>

-----------------------------------------------------------------------------
(* The environment.                                                        *)

\* A kill takes effect when the init function of a module has returned.
Kill(p) ==
  /\ pc[p] \notin Over
  /\ step[p] # "init"
  /\ Fault(p)
  /\ Goto(p, "dead")
  /\ At(p, "idle")
  /\ UNCHANGED <<host, tree, live, snap, want, todo, early>>

\* An interface appears with the defaults of the moment.
Plug(i) ==
  /\ i \in Ifaces \ ifs
  /\ ifs' = ifs \cup {i}
  /\ ra' = [ra EXCEPT ![i] = ra["default"]]
  /\ forced' = IF "default" \in forced THEN forced \cup {i} ELSE forced
  /\ late' = IF /\ ra["default"] # 2
                /\ \E p \in Procs : pc[p] \in {"raise", "default", "all6"}
               THEN late \cup {i} ELSE late
  /\ UNCHANGED <<mvars, pc, todoif, force, fwd4, fwd6, routes, rules, lost, unread>>

\* A router advertisement is heeded with accept_ra 2, or 1 and no forwarding.
Advertise(i) ==
  /\ i \in ifs \ routes
  /\ ra[i] = 2 \/ (ra[i] = 1 /\ ~fwd6)
  /\ routes' = routes \cup {i}
  /\ UNCHANGED <<mvars, pc, todoif, force, forced, fwd4, fwd6, ra, ifs, rules, lost, late, unread>>

AllOver == (\A p \in Procs : pc[p] \in Over) /\ UNCHANGED vars

Session(p) ==
  \/ LoadVeth(p)
  \/ ModStep(p) /\ UNCHANGED nvars
  \/ EnableIpForward(p)
  \/ SetupNat(p, "nat", "ip", "fwd6", "failed")
  \/ EnableIp6Forward(p)
  \/ ForceDefault(p) \/ Scan(p, "forcescan", "forceif") \/ ForceExisting(p)
  \/ Scan(p, "scan", "raise") \/ RaiseAcceptRa(p) \/ DefaultAcceptRa(p) \/ ForwardAll(p)
  \/ SetupNat(p, "nat6", "ip6", "overlay", "overlay")
  \/ MountOverlay(p) \/ CreateLink(p)

Next ==
  \/ \E p \in Procs : Session(p) \/ Kill(p)
  \/ \E i \in Ifaces : Plug(i) \/ Advertise(i)
  \/ AllOver

Spec == Init /\ [][Next]_vars

-----------------------------------------------------------------------------
(* Safety.                                                                 *)

\* A container with a network finds the host forwarding and exactly one
\* masquerading rule, however many sessions set them up or died on the way,
\* and on kernels with force_forwarding, unless one of its own writes failed,
\* every interface forwards, those that appeared during the set-up included.
UpMeansRouted ==
  \A p \in Procs : pc[p] = "up" =>
    /\ fwd4 /\ rules["ip"] = 1
    /\ {veth, overlay} \subseteq Available
    /\ force # "none" /\ p \notin faulted => ifs \subseteq forced

\* Turning on IPv6 forwarding costs no interface its advertised default
\* route, except one that appears after legacy_ip6_forward has listed the
\* interfaces and without the default it sets for new ones, and one whose
\* accept_ra a session could not open or read.
RaRoutesKept == lost \subseteq late \cup unread

\* Sessions do not make each other fail: one that meets no failing call fails
\* only if its modules cannot be loaded in the order of modules.dep, or if it
\* saw a module in /proc/modules that another was still loading.
NoMutualFailure ==
  \A p \in Procs : pc[p] = "failed" =>
    p \in faulted \cup early \/ ~Loadable(veth) \/ ~Loadable(overlay)

\* docs/lifecycle.md, network rule 7: if any per-interface raise fails, cage
\* leaves forwarding off rather than risk the host's connectivity.
OffWhenRaiseFails == lost \subseteq late

\* docs/lifecycle.md, network rule 6: when the module files are present, a -N
\* run on a kernel that booted without veth succeeds.
PresentMeansLoaded ==
  \A p \in Procs : pc[p] = "failed" =>
    p \in faulted \/ ~Loadable(veth) \/ ~Loadable(overlay)
=============================================================================
