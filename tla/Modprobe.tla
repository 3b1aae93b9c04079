------------------------------ MODULE Modprobe ------------------------------
(***************************************************************************)
(* modprobe_load, called by several cage processes at the same time.  Each *)
(* process keeps its own copy of /proc/modules from its first look on; the *)
(* modules that are live belong to the kernel and are shared.  A module is *)
(* listed there while its init function still runs; the init functions     *)
(* themselves succeed.  The loads of one request go through `todo`,        *)
(* dependencies first.                                                     *)
(***************************************************************************)
EXTENDS Naturals, Sequences

CONSTANTS
  Procs,     \* the cage processes
  Modules,   \* the kernel modules
  Trees,     \* module trees to choose from: records with
             \*   builtin: the modules in modules.builtin,
             \*   listed : modules.dep, from a module to the names after its colon,
             \*   needs  : the modules whose symbols a module uses,
             \*   zipped : the modules that are compressed files,
             \*   unzips : whether the kernel can decompress them itself
  MaxFaults  \* bound on the calls of all processes that fail

\* The names in modules.dep are those of modules.
ASSUME ModprobeAssumption ==
  \A t \in Trees : \A m \in DOMAIN t.listed : t.listed[m] \in Seq(Modules)

NoSnap == {"no snapshot"}

VARIABLES
  tree,    \* the module tree of the host
  live,    \* the modules in the kernel that are ready for use
  snap,    \* cached_proc of each process
  want,    \* the module a process has asked for
  step,    \* where its modprobe_load is, one of ModSteps
  todo,    \* the modules still to be loaded, in this order
  faults,  \* calls that have failed so far
  faulted, \* the processes that have seen one fail
  early    \* those that took a module for loaded while its init was running

mvars == <<tree, live, snap, want, step, todo, faults, faulted, early>>
ModSteps == {"idle", "status", "load", "unzip", "init", "ok", "bad"}
Available == live \cup tree.builtin

\* The modules whose init function runs, in the finit_module of a process.
Loading == {Head(todo[q]) : q \in {q \in Procs : step[q] = "init"}}

ModTypeOK ==
  /\ tree \in Trees
  /\ live \subseteq Modules
  /\ snap \in [Procs -> (SUBSET Modules) \cup {NoSnap}]
  /\ want \in [Procs -> Modules]
  /\ step \in [Procs -> ModSteps]
  /\ todo \in [Procs -> Seq(Modules)]
  /\ faults \in 0 .. MaxFaults
  /\ faulted \subseteq Procs /\ early \subseteq Procs

ModInit ==
  /\ tree \in Trees
  /\ live = {}
  /\ snap = [p \in Procs |-> NoSnap]
  /\ want = [p \in Procs |-> CHOOSE m \in Modules : TRUE]
  /\ step = [p \in Procs |-> "idle"]
  /\ todo = [p \in Procs |-> <<>>]
  /\ faults = 0
  /\ faulted = {} /\ early = {}

At(p, s) == step' = [step EXCEPT ![p] = s]
Fault(p) ==
  /\ faults < MaxFaults
  /\ faults' = faults + 1
  /\ faulted' = faulted \cup {p}

\* The caller asks for m, and takes the answer.
Request(p, m) ==
  /\ step[p] = "idle"
  /\ want' = [want EXCEPT ![p] = m]
  /\ At(p, "status")
  /\ UNCHANGED <<tree, live, snap, todo, faults, faulted, early>>

Answer(p, s) ==
  /\ step[p] = s
  /\ At(p, "idle")
  /\ UNCHANGED <<tree, live, snap, want, todo, faults, faulted, early>>

\* is_loaded and is_builtin: what the process knows of the modules there are.
\* /proc/modules lists a module that is still loading, and its state is not
\* looked at.
Known(p) == IF snap[p] = NoSnap THEN live \cup Loading ELSE snap[p]
IsBuiltin(m) == m \in tree.builtin

\* resolve_module: the line of modules.dep for m, if there is one, gives the
\* files of m and of what it depends on.
Listed(m) == m \in DOMAIN tree.listed
ResolveModule(m) == Append(tree.listed[m], m)

\* check_module_status, then resolve_module.
CheckStatus(p) ==
  LET m == want[p]
      there == m \in Known(p) \/ IsBuiltin(m)
  IN
  /\ step[p] = "status"
  /\ snap' = [snap EXCEPT ![p] = Known(p)]
  /\ At(p, IF there THEN "ok" ELSE IF Listed(m) THEN "load" ELSE "bad")
  /\ todo' = IF there \/ ~Listed(m) THEN todo ELSE [todo EXCEPT ![p] = ResolveModule(m)]
  /\ early' = IF m \in Known(p) \ live THEN early \cup {p} ELSE early
  /\ UNCHANGED <<tree, live, want, faults, faulted>>

\* The first of a request's modules is in.  The cached list is dropped when
\* the last one is.
Loaded(p) ==
  /\ live' = live \cup {Head(todo[p])}
  /\ todo' = [todo EXCEPT ![p] = Tail(@)]
  /\ At(p, IF Len(todo[p]) = 1 THEN "ok" ELSE "load")
  /\ snap' = IF Len(todo[p]) = 1 THEN [snap EXCEPT ![p] = NoSnap] ELSE snap
  /\ UNCHANGED <<tree, want, faults, faulted, early>>

\* finit_module: a live module is EEXIST, which counts as loaded; one that is
\* loading, and a symbol of one that is, are waited for in the kernel; a
\* missing symbol refuses the module and ends the request.
Finit(p) ==
  LET m == Head(todo[p]) IN
  \/ m \in live /\ Loaded(p)
  \/ /\ m \notin live \cup Loading
     /\ tree.needs[m] \subseteq Available
     /\ At(p, "init")
     /\ UNCHANGED <<tree, live, snap, want, todo, faults, faulted, early>>
  \/ /\ m \notin live \cup Loading
     /\ ~(tree.needs[m] \subseteq Available \cup Loading)
     /\ At(p, "bad")
     /\ todo' = [todo EXCEPT ![p] = <<>>]
     /\ UNCHANGED <<tree, live, snap, want, faults, faulted, early>>

\* The module's init function returns.
InitModule(p) == step[p] = "init" /\ Loaded(p)

\* Mutant: a module that another process has loaded meanwhile is a failure.
LoadModuleExclusive(p) ==
  /\ step[p] = "load"
  /\ IF Head(todo[p]) \in live
       THEN At(p, "bad") /\ UNCHANGED <<tree, live, snap, want, todo, faults, faulted, early>>
       ELSE Finit(p)

\* load_module_path: a compressed file the kernel cannot read (EOPNOTSUPP) is
\* decompressed by cage or by a filter and loaded from memory.
LoadModule(p) ==
  /\ step[p] = "load"
  /\ Listed(Head(todo[p]))
  /\ \/ /\ Head(todo[p]) \in tree.zipped
        /\ ~tree.unzips
        /\ At(p, "unzip")
        /\ UNCHANGED <<tree, live, snap, want, todo, faults, faulted, early>>
     \/ /\ Head(todo[p]) \in tree.zipped => tree.unzips
        /\ Finit(p)

\* load_dep: a dependency that modules.dep itself does not list has no file.
LoadDepFails(p) ==
  /\ step[p] = "load"
  /\ ~Listed(Head(todo[p]))
  /\ At(p, "bad")
  /\ todo' = [todo EXCEPT ![p] = <<>>]
  /\ UNCHANGED <<tree, live, snap, want, faults, faulted, early>>

LoadDecompressed(p) ==
  /\ step[p] = "unzip"
  /\ Finit(p)

\* A file cannot be read, opened or decompressed.
ModFails(p) ==
  /\ step[p] \in {"status", "load", "unzip"}
  /\ Fault(p)
  /\ At(p, "bad")
  /\ todo' = [todo EXCEPT ![p] = <<>>]
  /\ UNCHANGED <<tree, live, snap, want, early>>

ModStep(p) ==
  \/ CheckStatus(p) \/ LoadModule(p) \/ LoadDepFails(p) \/ LoadDecompressed(p)
  \/ InitModule(p) \/ ModFails(p)

\* In the order of modules.dep every module finds the ones it needs.
Loadable(m) ==
  \/ IsBuiltin(m)
  \/ /\ Listed(m)
     /\ LET l == ResolveModule(m)
        IN  \A k \in 1 .. Len(l) :
              /\ Listed(l[k])
              /\ tree.needs[l[k]] \subseteq tree.builtin \cup {l[j] : j \in 1 .. k - 1}
=============================================================================
