--------------------------- MODULE HostNetProofs ---------------------------
(***************************************************************************)
(* Proofs about what sessions with -N do to the host, for any number of    *)
(* processes, modules, module trees, interfaces and failing calls.         *)
(***************************************************************************)
EXTENDS HostNet, SequenceTheorems, TLAPS

-----------------------------------------------------------------------------
(* Requests to modprobe.                                                   *)

\* What is left of a request is a suffix of the modules to be loaded for it,
\* and those before it are there.
Pending(p) ==
  LET l == ResolveModule(want[p])
      n == Len(l) - Len(todo[p])
  IN
  /\ Listed(want[p]) /\ ~IsBuiltin(want[p])
  /\ todo[p] # <<>> /\ Len(todo[p]) <= Len(l)
  /\ \A j \in 1 .. Len(todo[p]) : todo[p][j] = l[n + j]
  /\ \A j \in 1 .. n : l[j] \in Available
PendingInv ==
  \A p \in Procs :
    /\ step[p] \in {"load", "unzip", "init"} => Pending(p)
    /\ step[p] = "unzip" => Listed(Head(todo[p]))

\* What an answer means.  Modules are never unloaded, so only a list that was
\* read while one was loading can be ahead of the kernel.
Answers ==
  \A p \in Procs :
    /\ step[p] = "ok" => want[p] \in Available \/ p \in early
    /\ step[p] = "bad" => p \in faulted \/ ~Loadable(want[p])

ModInv == PendingInv /\ Answers

-----------------------------------------------------------------------------
(* Sessions.                                                               *)

\* The steps with the modules and the rules they need behind them.
HasOverlay == {"link", "up"}
Forwarding == {"nat6", "overlay", "wait2", "retry"} \cup HasOverlay
Legacy == {"scan", "raise", "default", "all6"}
HasRule == {"fwd6", "forcedef", "forcescan", "forceif"} \cup Legacy \cup Forwarding
HasFwd4 == {"nat"} \cup HasRule
HasVeth == {"fwd4"} \cup HasFwd4

Asked ==
  \A p \in Procs :
    /\ pc[p] = "wait" => want[p] = veth
    /\ pc[p] = "wait2" => want[p] = overlay

Behind ==
  /\ rules["ip"] \in {0, 1}
  /\ \A p \in Procs :
       /\ pc[p] \in HasVeth => veth \in Available \/ p \in early
       /\ pc[p] = "up" => veth \in Available
       /\ pc[p] \in HasFwd4 => fwd4
       /\ pc[p] \in HasRule => rules["ip"] = 1
       /\ pc[p] = "retry" => overlay \in Available \/ p \in early
       /\ pc[p] \in HasOverlay => overlay \in Available

\* How far a process with force_forwarding and without a failure has come.
\* Once "default" is set, an interface that appears forwards by itself.
Forced ==
  \A p \in Procs : force # "none" /\ p \notin faulted =>
    /\ pc[p] \notin Legacy
    /\ pc[p] \in {"forcescan", "forceif"} \cup Forwarding => "default" \in forced
    /\ pc[p] = "forceif" => ifs \subseteq forced \cup todoif[p]
    /\ pc[p] \in Forwarding => ifs \subseteq forced

\* How far legacy_ip6_forward has come with accept_ra.
Raised ==
  /\ \A i \in routes : ra[i] # 0
  /\ \A p \in Procs : \A i \in ifs : ra[i] = 1 =>
       /\ pc[p] = "raise" => i \in todoif[p] \cup late \cup unread
       /\ pc[p] \in {"default", "all6"} => i \in late \cup unread

IInv ==
  /\ TypeOK /\ ModInv /\ Asked /\ Behind /\ Forced
  /\ Raised /\ RaRoutesKept /\ NoMutualFailure

-----------------------------------------------------------------------------
(* modprobe_load.                                                          *)

\* What cannot be loaded stays so, and what is available too.
LEMMA TreeStays == ASSUME tree' = tree PROVE \A m : Loadable(m)' <=> Loadable(m)
  BY DEF Loadable, IsBuiltin, Listed, ResolveModule

LEMMA ResolveType ==
  ASSUME HostNetAssumption, ModprobeAssumption, ModTypeOK, NEW m \in Modules, Listed(m)
  PROVE  /\ ResolveModule(m) \in Seq(Modules)
         /\ Len(ResolveModule(m)) > 0
         /\ ResolveModule(m)[Len(ResolveModule(m))] = m
<1>1. tree.listed[m] \in Seq(Modules)
  BY DEF ModprobeAssumption, ModTypeOK, Listed
<1>2. QED
  BY <1>1 DEF ResolveModule

LEMMA SeqFacts ==
  ASSUME NEW S, NEW s \in Seq(S), s # <<>>
  PROVE  /\ Len(s) \in Nat \ {0} /\ Head(s) = s[1] /\ Head(s) \in S
         /\ Tail(s) \in Seq(S) /\ Len(Tail(s)) = Len(s) - 1
         /\ \A j \in 1 .. Len(s) - 1 : Tail(s)[j] = s[j + 1]
         /\ Len(s) # 1 => Tail(s) # <<>>
<1>1. Len(s) \in Nat \ {0} /\ Head(s) = s[1]
  OBVIOUS
<1>2. /\ Head(s) \in S /\ Tail(s) \in Seq(S) /\ Len(Tail(s)) = Len(s) - 1
      /\ \A j \in 1 .. Len(Tail(s)) : Tail(s)[j] = s[j + 1]
  BY HeadTailProperties
<1>3. Len(s) # 1 => Tail(s) # <<>>
  <2>1. Tail(s) = <<>> => Len(Tail(s)) = 0
    BY EmptySeq
  <2>2. QED
    BY <1>1, <1>2, <2>1
<1>4. QED
  BY <1>1, <1>2, <1>3

LEMMA PendingStays ==
  ASSUME NEW q \in Procs, Pending(q), tree' = tree, Available \subseteq Available',
         want'[q] = want[q], todo'[q] = todo[q]
  PROVE  Pending(q)' /\ (Listed(Head(todo[q])) => Listed(Head(todo[q]))')
<1>1. /\ ResolveModule(want[q])' = ResolveModule(want[q])
      /\ Listed(want[q])' <=> Listed(want[q])
      /\ IsBuiltin(want[q])' <=> IsBuiltin(want[q])
      /\ Listed(Head(todo[q]))' <=> Listed(Head(todo[q]))
  BY DEF ResolveModule, Listed, IsBuiltin
<1>2. QED
  BY <1>1 DEF Pending

\* Asking, taking an answer, failing and being killed keep ModInv.
LEMMA RequestKeeps ==
  ASSUME ModTypeOK, ModInv, NEW p \in Procs, NEW m \in Modules, Request(p, m)
  PROVE  ModTypeOK' /\ ModInv'
<1>. USE DEF Request, At
<1>1. ModTypeOK'
  BY DEF ModTypeOK, ModSteps
<1>2. Available' = Available
  BY DEF Available
<1>3. /\ \A q \in Procs : step'[q] # "status" => step'[q] = step[q] /\ q # p
      /\ \A q \in Procs : q # p => want'[q] = want[q]
  BY DEF ModTypeOK
<1>4. PendingInv'
  BY <1>2, <1>3, PendingStays DEF ModInv, PendingInv
<1>6. Answers'
  BY <1>2, <1>3, TreeStays DEF ModInv, Answers
<1>7. QED
  BY <1>1, <1>4, <1>6 DEF ModInv

LEMMA IdleKeeps ==
  ASSUME ModTypeOK, ModInv, NEW p \in Procs,
         At(p, "idle"),
         \/ UNCHANGED <<faults, faulted>>
         \/ Fault(p),
         UNCHANGED <<tree, live, snap, want, todo, early>>,
         HostNetAssumption
  PROVE  ModTypeOK' /\ ModInv'
<1>1. faults' \in 0 .. MaxFaults /\ faulted' \subseteq Procs /\ faulted \subseteq faulted'
  BY DEF ModTypeOK, Fault, HostNetAssumption
<1>2. ModTypeOK'
  BY <1>1 DEF ModTypeOK, ModSteps, At
<1>3. \A q \in Procs : step'[q] # "idle" => step'[q] = step[q]
  BY DEF ModTypeOK, At
<1>4. Available' = Available
  BY DEF Available
<1>5. PendingInv'
  BY <1>3, <1>4, PendingStays DEF ModInv, PendingInv
<1>7. Answers'
  BY <1>1, <1>3, <1>4, TreeStays DEF ModInv, Answers
<1>8. QED
  BY <1>2, <1>5, <1>7 DEF ModInv

\* A call outside modprobe that fails.
LEMMA FaultKeeps ==
  ASSUME ModTypeOK, ModInv, NEW p \in Procs, Fault(p),
         UNCHANGED <<tree, live, snap, want, step, todo, early>>, HostNetAssumption
  PROVE  ModTypeOK' /\ ModInv' /\ Available' = Available
<1>1. faults' \in 0 .. MaxFaults /\ faulted' \subseteq Procs /\ faulted \subseteq faulted'
  BY DEF ModTypeOK, Fault, HostNetAssumption
<1>2. ModTypeOK'
  BY <1>1 DEF ModTypeOK
<1>3. Available' = Available
  BY DEF Available
<1>4. PendingInv'
  BY <1>3, PendingStays DEF ModInv, PendingInv
<1>6. Answers'
  BY <1>1, <1>3, TreeStays DEF ModInv, Answers
<1>7. QED
  BY <1>2, <1>3, <1>4, <1>6 DEF ModInv

\* What modprobe_load leaves alone.
LEMMA StepFrame ==
  ASSUME NEW p \in Procs, ModStep(p)
  PROVE  UNCHANGED <<tree, want>> /\ faulted \subseteq faulted' /\ early \subseteq early'
BY DEF ModStep, CheckStatus, LoadModule, LoadDepFails, LoadDecompressed, InitModule, Finit, Loaded,
       ModFails, Fault

\* The first of a request's modules in the list it comes from.
LEMMA NextUp ==
  ASSUME HostNetAssumption, ModprobeAssumption, ModTypeOK, NEW p \in Procs, Pending(p)
  PROVE  \E l \in Seq(Modules), n \in Nat :
           /\ l = ResolveModule(want[p]) /\ Len(l) \in Nat /\ l[Len(l)] = want[p]
           /\ n = Len(l) - Len(todo[p]) /\ n + 1 \in 1 .. Len(l)
           /\ Head(todo[p]) = l[n + 1] /\ Head(todo[p]) \in Modules
           /\ \A j \in 1 .. Len(todo[p]) : todo[p][j] = l[n + j]
           /\ \A j \in 1 .. n : l[j] \in Available
<1>1. todo[p] \in Seq(Modules) /\ todo[p] # <<>>
  BY DEF Pending, ModTypeOK
<1>2. /\ ResolveModule(want[p]) \in Seq(Modules)
      /\ ResolveModule(want[p])[Len(ResolveModule(want[p]))] = want[p]
  BY ResolveType DEF Pending, ModTypeOK
<1>3. PICK l \in Seq(Modules) : l = ResolveModule(want[p])
  BY <1>2
<1>4. PICK t \in Seq(Modules) : t = todo[p]
  BY <1>1
<1>5. Len(l) \in Nat /\ Len(t) \in Nat \ {0} /\ Len(t) <= Len(l)
  BY <1>1, <1>3, <1>4, SeqFacts, LenProperties DEF Pending
<1>6. PICK n \in Nat : n = Len(l) - Len(t)
  BY <1>5
<1>7. /\ l[Len(l)] = want[p]
      /\ \A j \in 1 .. Len(t) : t[j] = l[n + j]
      /\ \A j \in 1 .. n : l[j] \in Available
  BY <1>2, <1>3, <1>4, <1>6 DEF Pending
<1>8. Head(todo[p]) = t[1] /\ Head(todo[p]) \in Modules
  BY <1>1, <1>4, SeqFacts
<1>9. 1 \in 1 .. Len(t) /\ n + 1 \in 1 .. Len(l)
  BY <1>5, <1>6
<1>10. t[1] = l[n + 1]
  BY <1>7, <1>9
<1>11. QED
  BY <1>3, <1>4, <1>5, <1>6, <1>7, <1>8, <1>9, <1>10

\* What is loading belongs to the requests that are loading it.
LEMMA LoadingType ==
  ASSUME ModTypeOK, ModInv
  PROVE  Loading \subseteq Modules
<1>1. ASSUME NEW q \in Procs, step[q] = "init" PROVE Head(todo[q]) \in Modules
  <2>1. todo[q] \in Seq(Modules) /\ todo[q] # <<>>
    BY <1>1 DEF ModInv, PendingInv, Pending, ModTypeOK
  <2>2. QED
    BY <2>1, SeqFacts
<1>2. QED
  BY <1>1 DEF Loading

\* A module whose symbols are missing cannot be loaded in the order of the
\* request.
LEMMA RefusedFails ==
  ASSUME HostNetAssumption, ModprobeAssumption, ModTypeOK, NEW p \in Procs, Pending(p),
         ~(tree.needs[Head(todo[p])] \subseteq Available)
  PROVE  ~Loadable(want[p])
<1>1. PICK l \in Seq(Modules), n \in Nat :
        /\ l = ResolveModule(want[p]) /\ Len(l) \in Nat
        /\ n + 1 \in 1 .. Len(l) /\ Head(todo[p]) = l[n + 1]
        /\ \A j \in 1 .. n : l[j] \in Available
  BY NextUp
<1>2. (n + 1) - 1 = n
  OBVIOUS
<1>3. tree.builtin \cup {l[j] : j \in 1 .. n} \subseteq Available
  BY <1>1 DEF Available
<1>4. ~(tree.needs[l[n + 1]] \subseteq tree.builtin \cup {l[j] : j \in 1 .. (n + 1) - 1})
  BY <1>1, <1>2, <1>3
<1>5. ASSUME Loadable(want[p])
      PROVE  \A k \in 1 .. Len(l) :
               tree.needs[l[k]] \subseteq tree.builtin \cup {l[j] : j \in 1 .. k - 1}
  BY <1>1, <1>5 DEF Loadable, Pending
<1>6. QED
  BY <1>1, <1>4, <1>5

\* The first module is in.
LEMMA LoadedKeeps ==
  ASSUME HostNetAssumption, ModprobeAssumption, ModTypeOK, ModInv, NEW p \in Procs,
         Pending(p), Loaded(p)
  PROVE  ModTypeOK' /\ ModInv' /\ Available \subseteq Available'
<1>. DEFINE m == Head(todo[p])
<1>1. PICK l \in Seq(Modules), n \in Nat :
        /\ l = ResolveModule(want[p]) /\ Len(l) \in Nat /\ l[Len(l)] = want[p]
        /\ n = Len(l) - Len(todo[p]) /\ n + 1 \in 1 .. Len(l)
        /\ m = l[n + 1] /\ m \in Modules
        /\ \A j \in 1 .. Len(todo[p]) : todo[p][j] = l[n + j]
        /\ \A j \in 1 .. n : l[j] \in Available
  BY NextUp
<1>2. PICK t \in Seq(Modules) : t = todo[p] /\ t # <<>>
  BY DEF Pending, ModTypeOK
<1>3. Len(t) \in Nat \ {0} /\ Tail(t) \in Seq(Modules)
  BY <1>2, SeqFacts
<1>4. /\ \A q \in Procs : q # p => step'[q] = step[q] /\ todo'[q] = todo[q]
      /\ UNCHANGED <<tree, want, faults, faulted, early>>
      /\ live' = live \cup {m} /\ todo'[p] = Tail(t)
      /\ step'[p] = IF Len(t) = 1 THEN "ok" ELSE "load"
      /\ snap' = snap \/ snap' = [snap EXCEPT ![p] = NoSnap]
  BY <1>2 DEF Loaded, At, ModTypeOK
<1>5. Available \subseteq Available' /\ m \in Available'
  BY <1>4 DEF Available
<1>6. ModTypeOK'
  <2>1. step' \in [Procs -> ModSteps]
    BY DEF ModTypeOK, ModSteps, Loaded, At
  <2>2. todo' \in [Procs -> Seq(Modules)]
    BY <1>2, <1>3 DEF ModTypeOK, Loaded
  <2>3. snap' \in [Procs -> (SUBSET Modules) \cup {NoSnap}]
    BY <1>4 DEF ModTypeOK
  <2>4. QED
    BY <1>1, <1>4, <2>1, <2>2, <2>3 DEF ModTypeOK
<1>7. CASE Len(t) = 1
  <2>1. m = want[p]
    BY <1>1, <1>2, <1>7
  <2>2. PendingInv'
    BY <1>4, <1>5, <1>7, PendingStays DEF ModInv, PendingInv
  <2>3. Answers'
    BY <1>4, <1>5, <1>7, <2>1, TreeStays DEF ModInv, Answers
  <2>4. QED
    BY <1>5, <1>6, <2>2, <2>3 DEF ModInv
<1>8. CASE Len(t) # 1
  <2>1. Pending(p)'
    <3>1. ResolveModule(want[p])' = l /\ Listed(want[p])' /\ ~IsBuiltin(want[p])'
      BY <1>1, <1>4 DEF Pending, ResolveModule, Listed, IsBuiltin
    <3>2. PICK u \in Seq(Modules) : u = Tail(t)
      BY <1>3
    <3>3. u # <<>> /\ u = todo'[p] /\ Len(u) = Len(t) - 1
      BY <1>2, <1>4, <1>8, <3>2, SeqFacts
    <3>4. \A j \in 1 .. Len(u) : u[j] = l[n + 1 + j]
      <4>1. TAKE j \in 1 .. Len(u)
      <4>2. j + 1 \in 1 .. Len(t) /\ n + (j + 1) = n + 1 + j
        BY <1>3, <3>3
      <4>3. u[j] = t[j + 1]
        BY <1>2, <3>2, <3>3, SeqFacts
      <4>4. QED
        BY <1>1, <1>2, <4>2, <4>3
    <3>5. \A j \in 1 .. n + 1 : l[j] \in Available'
      <4>1. \A j \in 1 .. n + 1 : j \in 1 .. n \/ j = n + 1
        BY SMTT(30)
      <4>2. QED
        BY <1>1, <1>5, <4>1
    <3>6. Len(l) - Len(u) = n + 1 /\ Len(u) <= Len(l)
      BY <1>1, <1>2, <1>3, <3>3
    <3>7. QED
      BY <3>1, <3>3, <3>4, <3>5, <3>6, ZenonT(30) DEF Pending
  <2>2. PendingInv'
    BY <1>4, <1>5, <1>8, <2>1, PendingStays DEF ModInv, PendingInv
  <2>3. Answers'
    BY <1>4, <1>5, <1>8, TreeStays DEF ModInv, Answers
  <2>4. QED
    BY <1>5, <1>6, <2>2, <2>3 DEF ModInv
<1>9. QED
  BY <1>7, <1>8

\* A step that only moves p on to the decompression or the init function.
LEMMA MovesKeeps ==
  ASSUME ModTypeOK, ModInv, NEW p \in Procs, Pending(p), NEW s \in {"unzip", "init"}, At(p, s),
         s = "unzip" => Listed(Head(todo[p])),
         UNCHANGED <<tree, live, snap, want, todo, faults, faulted, early>>
  PROVE  ModTypeOK' /\ ModInv' /\ Available' = Available
<1>1. Available' = Available
  BY DEF Available
<1>2. ModTypeOK'
  BY DEF ModTypeOK, ModSteps, At
<1>3. step'[p] = s /\ \A q \in Procs : q # p => step'[q] = step[q]
  BY DEF ModTypeOK, At
<1>4. \A q \in Procs : step'[q] \in {"load", "unzip", "init"} =>
        Pending(q) /\ (step'[q] = "unzip" => Listed(Head(todo[q])))
  BY <1>3 DEF ModInv, PendingInv
<1>5. PendingInv'
  BY <1>1, <1>4, PendingStays DEF PendingInv
<1>6. Answers'
  BY <1>1, <1>3, TreeStays DEF ModInv, Answers
<1>7. QED
  BY <1>1, <1>2, <1>5, <1>6 DEF ModInv

LEMMA CheckStatusKeeps ==
  ASSUME HostNetAssumption, ModprobeAssumption, ModTypeOK, ModInv, NEW p \in Procs, CheckStatus(p)
  PROVE  ModTypeOK' /\ ModInv' /\ Available' = Available
<1>. DEFINE m == want[p]
            there == m \in Known(p) \/ IsBuiltin(m)
<1>1. /\ \A q \in Procs : q # p =>
           step'[q] = step[q] /\ todo'[q] = todo[q] /\ want'[q] = want[q] /\ snap'[q] = snap[q]
      /\ UNCHANGED <<tree, live, want, faults, faulted>> /\ early \subseteq early' /\ early' \subseteq Procs
      /\ m \in Known(p) \ live => p \in early'
      /\ snap' = [snap EXCEPT ![p] = Known(p)] /\ snap'[p] = Known(p)
      /\ step' = [step EXCEPT ![p] = IF there THEN "ok" ELSE IF Listed(m) THEN "load" ELSE "bad"]
      /\ step'[p] = IF there THEN "ok" ELSE IF Listed(m) THEN "load" ELSE "bad"
  BY DEF CheckStatus, At, ModTypeOK
<1>2. Available' = Available
  BY <1>1 DEF Available
<1>3. m \in Modules /\ Known(p) \subseteq Modules
  BY LoadingType DEF ModTypeOK, Known
<1>4. Listed(m) => ResolveModule(m) \in Seq(Modules)
  BY <1>3, ResolveType
<1>5. ModTypeOK'
  <2>1. snap' \in [Procs -> (SUBSET Modules) \cup {NoSnap}]
    BY <1>1, <1>3 DEF ModTypeOK
  <2>2. todo' \in [Procs -> Seq(Modules)]
    BY <1>4 DEF CheckStatus, ModTypeOK
  <2>3. QED
    BY <1>1, <2>1, <2>2 DEF ModTypeOK, ModSteps
<1>6. step'[p] = "load" => Pending(p)'
  <2>1. SUFFICES ASSUME step'[p] = "load" PROVE Pending(p)'
    OBVIOUS
  <2>2. ~there /\ Listed(m) /\ todo'[p] = ResolveModule(m)
    BY <1>1, <2>1 DEF CheckStatus, ModTypeOK
  <2>3. PICK l \in Seq(Modules) : l = ResolveModule(m)
    BY <1>4, <2>2
  <2>4. Len(l) \in Nat \ {0}
    BY <1>3, <2>2, <2>3, ResolveType
  <2>5. l # <<>> /\ Len(l) - Len(l) = 0
    BY <2>4, EmptySeq
  <2>6. ResolveModule(want[p])' = l /\ todo'[p] = l /\ Listed(want[p])' /\ ~IsBuiltin(want[p])'
    BY <1>1, <2>2, <2>3 DEF ResolveModule, Listed, IsBuiltin
  <2>7. \A j \in 1 .. Len(l) : l[j] = l[0 + j]
    OBVIOUS
  <2>8. QED
    BY <2>4, <2>5, <2>6, <2>7 DEF Pending
<1>7. PendingInv'
  BY <1>1, <1>2, <1>6, PendingStays DEF ModInv, PendingInv
<1>9. Answers'
  <2>1. there => m \in Available \/ p \in early'
    BY <1>1 DEF Available, IsBuiltin
  <2>2. ~there /\ ~Listed(m) => ~Loadable(m)
    BY DEF Loadable
  <2>3. QED
    BY <1>1, <1>2, <2>1, <2>2, TreeStays DEF ModInv, Answers
<1>10. QED
  BY <1>2, <1>5, <1>7, <1>9 DEF ModInv

\* A request that ends with "bad", for lack of a file or by a failing call.
LEMMA BadKeeps ==
  ASSUME HostNetAssumption, ModTypeOK, ModInv, NEW p \in Procs,
         At(p, "bad"), UNCHANGED <<tree, live, snap, want, early>>,
         todo' = [todo EXCEPT ![p] = <<>>],
         \/ Fault(p)
         \/ ~Loadable(want[p]) /\ UNCHANGED <<faults, faulted>>
  PROVE  ModTypeOK' /\ ModInv' /\ Available' = Available
<1>1. /\ faults' \in 0 .. MaxFaults /\ faulted' \subseteq Procs /\ faulted \subseteq faulted'
      /\ p \in faulted' \/ ~Loadable(want[p])
  BY DEF ModTypeOK, Fault, HostNetAssumption
<1>2. \A q \in Procs : step'[q] # "bad" => step'[q] = step[q] /\ todo'[q] = todo[q]
  BY DEF ModTypeOK, At
<1>3. \A q \in Procs : q # p => step'[q] = step[q]
  BY DEF ModTypeOK, At
<1>4. ModTypeOK'
  <2>1. todo' \in [Procs -> Seq(Modules)]
    BY DEF ModTypeOK
  <2>2. QED
    BY <1>1, <2>1 DEF ModTypeOK, ModSteps, At
<1>5. Available' = Available
  BY DEF Available
<1>6. PendingInv'
  BY <1>2, <1>5, PendingStays DEF ModInv, PendingInv
<1>8. Answers'
  <2>1. SUFFICES ASSUME NEW q \in Procs
                 PROVE  /\ step'[q] = "ok" => want[q] \in Available \/ q \in early
                        /\ step'[q] = "bad" => q \in faulted' \/ ~Loadable(want[q])
    BY <1>5, TreeStays DEF Answers
  <2>2. step'[q] = "ok" => step[q] = "ok"
    BY <1>2
  <2>3. step'[q] = "bad" => q = p \/ step[q] = "bad"
    BY <1>3
  <2>4. QED
    BY <1>1, <2>2, <2>3 DEF ModInv, Answers
<1>9. QED
  BY <1>4, <1>5, <1>6, <1>8 DEF ModInv

\* Finit takes the first of a request's modules, or refuses it.
LEMMA FinitKeeps ==
  ASSUME HostNetAssumption, ModprobeAssumption, ModTypeOK, ModInv, NEW p \in Procs,
         Pending(p), Finit(p)
  PROVE  ModTypeOK' /\ ModInv' /\ Available \subseteq Available'
<1>1. CASE Loaded(p)
  BY <1>1, LoadedKeeps
<1>2. CASE At(p, "init") /\ UNCHANGED <<tree, live, snap, want, todo, faults, faulted, early>>
  BY <1>2, MovesKeeps
<1>3. CASE /\ ~(tree.needs[Head(todo[p])] \subseteq Available \cup Loading)
           /\ At(p, "bad") /\ todo' = [todo EXCEPT ![p] = <<>>]
           /\ UNCHANGED <<tree, live, snap, want, faults, faulted, early>>
  BY <1>3, RefusedFails, BadKeeps
<1>4. QED
  BY <1>1, <1>2, <1>3 DEF Finit

LEMMA ModStepKeeps ==
  ASSUME HostNetAssumption, ModprobeAssumption, ModTypeOK, ModInv, NEW p \in Procs, ModStep(p)
  PROVE  ModTypeOK' /\ ModInv' /\ Available \subseteq Available'
<1>0. step[p] \in {"load", "unzip", "init"} => Pending(p)
  BY DEF ModInv, PendingInv
<1>1. CASE CheckStatus(p)
  BY <1>1, CheckStatusKeeps
<1>2. CASE LoadModule(p) /\ ~Finit(p)
  BY <1>0, <1>2, MovesKeeps DEF LoadModule
<1>3. CASE LoadModule(p) /\ Finit(p)
  BY <1>0, <1>3, FinitKeeps DEF LoadModule
<1>4. CASE LoadDepFails(p)
  <2>1. ~Loadable(want[p])
    <3>1. Pending(p)
      BY <1>4 DEF LoadDepFails, ModInv, PendingInv
    <3>2. PICK k \in 1 .. Len(ResolveModule(want[p])) : ResolveModule(want[p])[k] = Head(todo[p])
      <4>1. /\ todo[p] \in Seq(Modules) /\ todo[p] # <<>>
            /\ ResolveModule(want[p]) \in Seq(Modules)
        BY <3>1, ResolveType DEF Pending, ModTypeOK
      <4>2. /\ Len(todo[p]) \in Nat \ {0} /\ Head(todo[p]) = todo[p][1]
            /\ Len(ResolveModule(want[p])) \in Nat
            /\ Len(todo[p]) <= Len(ResolveModule(want[p]))
        BY <3>1, <4>1, SeqFacts, LenProperties DEF Pending
      <4>3. todo[p][1] = ResolveModule(want[p])[Len(ResolveModule(want[p])) - Len(todo[p]) + 1]
        <5>1. \A j \in 1 .. Len(todo[p]) :
                todo[p][j] = ResolveModule(want[p])[Len(ResolveModule(want[p])) - Len(todo[p]) + j]
          BY <3>1 DEF Pending
        <5>2. 1 \in 1 .. Len(todo[p])
          BY <4>2
        <5>3. QED
          BY <5>1, <5>2
      <4>4. Len(ResolveModule(want[p])) - Len(todo[p]) + 1 \in 1 .. Len(ResolveModule(want[p]))
        BY <4>2
      <4>5. QED
        BY <4>2, <4>3, <4>4
    <3>3. QED
      BY <1>4, <3>1, <3>2 DEF Loadable, Pending, LoadDepFails
  <2>2. QED
    BY <1>4, <2>1, BadKeeps DEF LoadDepFails
<1>5. CASE LoadDecompressed(p)
  BY <1>0, <1>5, FinitKeeps DEF LoadDecompressed
<1>6. CASE InitModule(p)
  BY <1>0, <1>6, LoadedKeeps DEF InitModule
<1>7. CASE ModFails(p)
  BY <1>7, BadKeeps DEF ModFails
<1>8. QED
  BY <1>1, <1>2, <1>3, <1>4, <1>5, <1>6, <1>7 DEF ModStep

-----------------------------------------------------------------------------
(* The steps of a session and of its environment.                          *)

\* What every step does to the modules.
Frame ==
  /\ ModTypeOK' /\ ModInv' /\ tree' = tree
  /\ Available \subseteq Available' /\ faulted \subseteq faulted' /\ early \subseteq early'

LEMMA FrameKept ==
  ASSUME HostNetAssumption, ModprobeAssumption, TypeOK, ModInv, [Next]_vars
  PROVE  Frame
<1>. ModTypeOK
  BY DEF TypeOK
<1>0. ASSUME UNCHANGED mvars PROVE Frame
  <2>1. Available' = Available
    BY <1>0 DEF mvars, Available
  <2>2. ModTypeOK'
    BY <1>0 DEF mvars, ModTypeOK
  <2>3. PendingInv'
    BY <1>0, <2>1, PendingStays DEF mvars, ModInv, PendingInv
  <2>5. Answers'
    BY <1>0, <2>1, TreeStays DEF mvars, ModInv, Answers
  <2>6. QED
    BY <1>0, <2>1, <2>2, <2>3, <2>5 DEF mvars, Frame, ModInv
<1>1. ASSUME NEW p \in Procs, NEW at, NEW onfail, Fails(p, at, onfail)
      PROVE  Frame
  BY <1>1, FaultKeeps DEF Fails, Frame, Fault
<1>2. ASSUME NEW p \in Procs, NEW m \in Modules, Request(p, m)
      PROVE  Frame
  BY <1>2, RequestKeeps DEF Request, Frame, Available
<1>3. ASSUME NEW p \in Procs, NEW s, Answer(p, s)
      PROVE  Frame
  BY <1>3, IdleKeeps DEF Answer, Frame, Available
<1>4. veth \in Modules /\ overlay \in Modules
  BY DEF HostNetAssumption
<1>5. ASSUME NEW p \in Procs, Session(p) \/ Kill(p)
      PROVE  Frame
  <2>1. CASE LoadVeth(p)
    BY <1>2, <1>3, <1>4, <2>1 DEF LoadVeth
  <2>2. CASE ModStep(p) /\ UNCHANGED nvars
    BY <2>2, ModStepKeeps, StepFrame DEF Frame
  <2>3. CASE EnableIpForward(p)
    BY <1>0, <1>1, <2>3 DEF EnableIpForward
  <2>4. CASE SetupNat(p, "nat", "ip", "fwd6", "failed")
    BY <1>0, <1>1, <2>4 DEF SetupNat
  <2>5. CASE EnableIp6Forward(p)
    BY <1>0, <1>1, <2>5 DEF EnableIp6Forward
  <2>6. CASE ForceDefault(p)
    BY <1>0, <1>1, <2>6 DEF ForceDefault
  <2>7. CASE Scan(p, "forcescan", "forceif")
    BY <1>0, <1>1, <2>7 DEF Scan
  <2>8. CASE ForceExisting(p)
    BY <1>0, <2>8, FaultKeeps DEF ForceExisting, Frame, Fault
  <2>9. CASE Scan(p, "scan", "raise")
    BY <1>0, <1>1, <2>9 DEF Scan
  <2>10. CASE RaiseAcceptRa(p)
    BY <1>0, <1>1, <2>10, FaultKeeps DEF RaiseAcceptRa, Frame, Fault
  <2>11. CASE DefaultAcceptRa(p)
    BY <1>0, <1>1, <2>11 DEF DefaultAcceptRa
  <2>12. CASE ForwardAll(p)
    BY <1>0, <1>1, <2>12 DEF ForwardAll
  <2>13. CASE SetupNat(p, "nat6", "ip6", "overlay", "overlay")
    BY <1>0, <1>1, <2>13 DEF SetupNat
  <2>14. CASE MountOverlay(p)
    BY <1>0, <1>2, <1>3, <1>4, <2>14 DEF MountOverlay
  <2>15. CASE CreateLink(p)
    BY <1>0, <2>15 DEF CreateLink
  <2>16. CASE Kill(p)
    BY <2>16, IdleKeeps DEF Kill, Frame, Available, Fault
  <2>17. QED
    BY <1>5, <2>1, <2>2, <2>3, <2>4, <2>5, <2>6, <2>7, <2>8, <2>9, <2>10, <2>11, <2>12, <2>13, <2>14, <2>15,
       <2>16 DEF Session
<1>6. CASE \E i \in Ifaces : Plug(i) \/ Advertise(i)
  BY <1>0, <1>6 DEF Plug, Advertise
<1>7. CASE AllOver \/ UNCHANGED vars
  BY <1>0, <1>7 DEF AllOver, vars
<1>8. QED
  BY <1>5, <1>6, <1>7 DEF Next

\* The parts of TypeOK that are not about the modules.
PcTyped == pc \in [Procs -> Steps] /\ todoif \in [Procs -> SUBSET Ifaces]
ForcedTyped == force \in {"none", "0", "1"} /\ forced \subseteq Ifaces \cup {"default"}
RaTyped ==
  /\ ra \in [Ifaces \cup {"default"} -> 0 .. 2]
  /\ ifs \subseteq Ifaces /\ routes \subseteq ifs
  /\ lost \subseteq Ifaces /\ late \subseteq Ifaces /\ unread \subseteq Ifaces
FlagTyped == fwd4 \in BOOLEAN /\ fwd6 \in BOOLEAN
RuleTyped == rules \in [{"ip", "ip6"} -> Nat]

LEMMA PcTypeKept ==
  ASSUME HostNetAssumption, TypeOK, [Next]_vars, Frame
  PROVE  PcTyped'
<1>. USE DEF TypeOK, PcTyped, Steps, Over
<1>1. ASSUME NEW p \in Procs, Session(p) \/ Kill(p)
      PROVE  PcTyped'
  <2>1. CASE LoadVeth(p)
    BY <2>1 DEF LoadVeth, Request, Answer, Fails, Goto, host, Fault
  <2>2. CASE ModStep(p) /\ UNCHANGED nvars
    BY <2>2, StepFrame DEF nvars
  <2>3. CASE EnableIpForward(p)
    BY <2>3 DEF EnableIpForward, Fails, Goto, host, Fault
  <2>4. CASE SetupNat(p, "nat", "ip", "fwd6", "failed")
    BY <2>4 DEF SetupNat, Fails, Goto, host, Fault
  <2>5. CASE EnableIp6Forward(p)
    BY <2>5 DEF EnableIp6Forward, Fails, Goto, host, Fault
  <2>6. CASE ForceDefault(p)
    BY <2>6 DEF ForceDefault, Fails, Goto, host, Fault
  <2>7. CASE Scan(p, "forcescan", "forceif")
    BY <2>7 DEF Scan, Fails, Goto, host, Fault
  <2>8. CASE ForceExisting(p)
    BY <2>8 DEF ForceExisting, Fails, Goto, host, Fault
  <2>9. CASE Scan(p, "scan", "raise")
    BY <2>9 DEF Scan, Fails, Goto, host, Fault
  <2>10. CASE RaiseAcceptRa(p)
    BY <2>10 DEF RaiseAcceptRa, Fails, Goto, host, Fault
  <2>11. CASE DefaultAcceptRa(p)
    BY <2>11 DEF DefaultAcceptRa, Fails, Goto, host, Fault
  <2>12. CASE ForwardAll(p)
    BY <2>12 DEF ForwardAll, Fails, Goto, host, Fault
  <2>13. CASE SetupNat(p, "nat6", "ip6", "overlay", "overlay")
    BY <2>13 DEF SetupNat, Fails, Goto, host, Fault
  <2>14. CASE MountOverlay(p)
    BY <2>14 DEF MountOverlay, Request, Answer, Fails, Goto, host, Fault
  <2>15. CASE CreateLink(p)
    BY <2>15 DEF CreateLink, Goto, host, mvars
  <2>16. CASE Kill(p)
    BY <2>16 DEF Kill, Fails, Goto, host, Fault
  <2>17. QED
    BY <1>1, <2>1, <2>2, <2>3, <2>4, <2>5, <2>6, <2>7, <2>8, <2>9, <2>10, <2>11, <2>12, <2>13, <2>14, <2>15,
       <2>16 DEF Session
<1>2. ASSUME NEW i \in Ifaces, Plug(i) \/ Advertise(i)
      PROVE  PcTyped'
  BY <1>2 DEF Plug, Advertise
<1>3. CASE AllOver \/ UNCHANGED vars
  BY <1>3 DEF AllOver, vars, nvars, mvars
<1>4. QED
  BY <1>1, <1>2, <1>3 DEF Next

LEMMA ForcedTypeKept ==
  ASSUME HostNetAssumption, TypeOK, [Next]_vars, Frame
  PROVE  ForcedTyped'
<1>. USE DEF TypeOK, ForcedTyped
<1>1. ASSUME NEW p \in Procs, Session(p) \/ Kill(p)
      PROVE  ForcedTyped'
  <2>1. CASE LoadVeth(p)
    BY <2>1 DEF LoadVeth, Request, Answer, Fails, Goto, host, Fault
  <2>2. CASE ModStep(p) /\ UNCHANGED nvars
    BY <2>2, StepFrame DEF nvars
  <2>3. CASE EnableIpForward(p)
    BY <2>3 DEF EnableIpForward, Fails, Goto, host, Fault
  <2>4. CASE SetupNat(p, "nat", "ip", "fwd6", "failed")
    BY <2>4 DEF SetupNat, Fails, Goto, host, Fault
  <2>5. CASE EnableIp6Forward(p)
    BY <2>5 DEF EnableIp6Forward, Fails, Goto, host, Fault
  <2>6. CASE ForceDefault(p)
    BY <2>6 DEF ForceDefault, Fails, Goto, host, Fault
  <2>7. CASE Scan(p, "forcescan", "forceif")
    BY <2>7 DEF Scan, Fails, Goto, host, Fault
  <2>8. CASE ForceExisting(p)
    BY <2>8 DEF ForceExisting, Fails, Goto, host, Fault
  <2>9. CASE Scan(p, "scan", "raise")
    BY <2>9 DEF Scan, Fails, Goto, host, Fault
  <2>10. CASE RaiseAcceptRa(p)
    BY <2>10 DEF RaiseAcceptRa, Fails, Goto, host, Fault
  <2>11. CASE DefaultAcceptRa(p)
    BY <2>11 DEF DefaultAcceptRa, Fails, Goto, host, Fault
  <2>12. CASE ForwardAll(p)
    BY <2>12 DEF ForwardAll, Fails, Goto, host, Fault
  <2>13. CASE SetupNat(p, "nat6", "ip6", "overlay", "overlay")
    BY <2>13 DEF SetupNat, Fails, Goto, host, Fault
  <2>14. CASE MountOverlay(p)
    BY <2>14 DEF MountOverlay, Request, Answer, Fails, Goto, host, Fault
  <2>15. CASE CreateLink(p)
    BY <2>15 DEF CreateLink, Goto, host, mvars
  <2>16. CASE Kill(p)
    BY <2>16 DEF Kill, Fails, Goto, host, Fault
  <2>17. QED
    BY <1>1, <2>1, <2>2, <2>3, <2>4, <2>5, <2>6, <2>7, <2>8, <2>9, <2>10, <2>11, <2>12, <2>13, <2>14, <2>15,
       <2>16 DEF Session
<1>2. ASSUME NEW i \in Ifaces, Plug(i) \/ Advertise(i)
      PROVE  ForcedTyped'
  BY <1>2 DEF Plug, Advertise
<1>3. CASE AllOver \/ UNCHANGED vars
  BY <1>3 DEF AllOver, vars, nvars, mvars
<1>4. QED
  BY <1>1, <1>2, <1>3 DEF Next

LEMMA RaTypeKept ==
  ASSUME HostNetAssumption, TypeOK, [Next]_vars, Frame
  PROVE  RaTyped'
<1>. USE DEF TypeOK, RaTyped
<1>1. ASSUME NEW p \in Procs, Session(p) \/ Kill(p)
      PROVE  RaTyped'
  <2>1. CASE LoadVeth(p)
    BY <2>1 DEF LoadVeth, Request, Answer, Fails, Goto, host, Fault
  <2>2. CASE ModStep(p) /\ UNCHANGED nvars
    BY <2>2, StepFrame DEF nvars
  <2>3. CASE EnableIpForward(p)
    BY <2>3 DEF EnableIpForward, Fails, Goto, host, Fault
  <2>4. CASE SetupNat(p, "nat", "ip", "fwd6", "failed")
    BY <2>4 DEF SetupNat, Fails, Goto, host, Fault
  <2>5. CASE EnableIp6Forward(p)
    BY <2>5 DEF EnableIp6Forward, Fails, Goto, host, Fault
  <2>6. CASE ForceDefault(p)
    BY <2>6 DEF ForceDefault, Fails, Goto, host, Fault
  <2>7. CASE Scan(p, "forcescan", "forceif")
    BY <2>7 DEF Scan, Fails, Goto, host, Fault
  <2>8. CASE ForceExisting(p)
    BY <2>8 DEF ForceExisting, Fails, Goto, host, Fault
  <2>9. CASE Scan(p, "scan", "raise")
    BY <2>9 DEF Scan, Fails, Goto, host, Fault
  <2>10. CASE RaiseAcceptRa(p)
    BY <2>10 DEF RaiseAcceptRa, Fails, Goto, host, Fault
  <2>11. CASE DefaultAcceptRa(p)
    BY <2>11 DEF DefaultAcceptRa, Fails, Goto, host, Fault
  <2>12. CASE ForwardAll(p)
    BY <2>12 DEF ForwardAll, Fails, Goto, host, Fault
  <2>13. CASE SetupNat(p, "nat6", "ip6", "overlay", "overlay")
    BY <2>13 DEF SetupNat, Fails, Goto, host, Fault
  <2>14. CASE MountOverlay(p)
    BY <2>14 DEF MountOverlay, Request, Answer, Fails, Goto, host, Fault
  <2>15. CASE CreateLink(p)
    BY <2>15 DEF CreateLink, Goto, host, mvars
  <2>16. CASE Kill(p)
    BY <2>16 DEF Kill, Fails, Goto, host, Fault
  <2>17. QED
    BY <1>1, <2>1, <2>2, <2>3, <2>4, <2>5, <2>6, <2>7, <2>8, <2>9, <2>10, <2>11, <2>12, <2>13, <2>14, <2>15,
       <2>16 DEF Session
<1>2. ASSUME NEW i \in Ifaces, Plug(i) \/ Advertise(i)
      PROVE  RaTyped'
  BY <1>2 DEF Plug, Advertise
<1>3. CASE AllOver \/ UNCHANGED vars
  BY <1>3 DEF AllOver, vars, nvars, mvars
<1>4. QED
  BY <1>1, <1>2, <1>3 DEF Next

LEMMA FlagTypeKept ==
  ASSUME HostNetAssumption, TypeOK, [Next]_vars, Frame
  PROVE  FlagTyped'
<1>. USE DEF TypeOK, FlagTyped
<1>1. ASSUME NEW p \in Procs, Session(p) \/ Kill(p)
      PROVE  FlagTyped'
  <2>1. CASE LoadVeth(p)
    BY <2>1 DEF LoadVeth, Request, Answer, Fails, Goto, host, Fault
  <2>2. CASE ModStep(p) /\ UNCHANGED nvars
    BY <2>2, StepFrame DEF nvars
  <2>3. CASE EnableIpForward(p)
    BY <2>3 DEF EnableIpForward, Fails, Goto, host, Fault
  <2>4. CASE SetupNat(p, "nat", "ip", "fwd6", "failed")
    BY <2>4 DEF SetupNat, Fails, Goto, host, Fault
  <2>5. CASE EnableIp6Forward(p)
    BY <2>5 DEF EnableIp6Forward, Fails, Goto, host, Fault
  <2>6. CASE ForceDefault(p)
    BY <2>6 DEF ForceDefault, Fails, Goto, host, Fault
  <2>7. CASE Scan(p, "forcescan", "forceif")
    BY <2>7 DEF Scan, Fails, Goto, host, Fault
  <2>8. CASE ForceExisting(p)
    BY <2>8 DEF ForceExisting, Fails, Goto, host, Fault
  <2>9. CASE Scan(p, "scan", "raise")
    BY <2>9 DEF Scan, Fails, Goto, host, Fault
  <2>10. CASE RaiseAcceptRa(p)
    BY <2>10 DEF RaiseAcceptRa, Fails, Goto, host, Fault
  <2>11. CASE DefaultAcceptRa(p)
    BY <2>11 DEF DefaultAcceptRa, Fails, Goto, host, Fault
  <2>12. CASE ForwardAll(p)
    BY <2>12 DEF ForwardAll, Fails, Goto, host, Fault
  <2>13. CASE SetupNat(p, "nat6", "ip6", "overlay", "overlay")
    BY <2>13 DEF SetupNat, Fails, Goto, host, Fault
  <2>14. CASE MountOverlay(p)
    BY <2>14 DEF MountOverlay, Request, Answer, Fails, Goto, host, Fault
  <2>15. CASE CreateLink(p)
    BY <2>15 DEF CreateLink, Goto, host, mvars
  <2>16. CASE Kill(p)
    BY <2>16 DEF Kill, Fails, Goto, host, Fault
  <2>17. QED
    BY <1>1, <2>1, <2>2, <2>3, <2>4, <2>5, <2>6, <2>7, <2>8, <2>9, <2>10, <2>11, <2>12, <2>13, <2>14, <2>15,
       <2>16 DEF Session
<1>2. ASSUME NEW i \in Ifaces, Plug(i) \/ Advertise(i)
      PROVE  FlagTyped'
  BY <1>2 DEF Plug, Advertise
<1>3. CASE AllOver \/ UNCHANGED vars
  BY <1>3 DEF AllOver, vars, nvars, mvars
<1>4. QED
  BY <1>1, <1>2, <1>3 DEF Next

LEMMA RuleTypeKept ==
  ASSUME HostNetAssumption, TypeOK, [Next]_vars, Frame
  PROVE  RuleTyped'
<1>. USE DEF TypeOK, RuleTyped
<1>1. ASSUME NEW p \in Procs, Session(p) \/ Kill(p)
      PROVE  RuleTyped'
  <2>1. CASE LoadVeth(p)
    BY <2>1 DEF LoadVeth, Request, Answer, Fails, Goto, host, Fault
  <2>2. CASE ModStep(p) /\ UNCHANGED nvars
    BY <2>2, StepFrame DEF nvars
  <2>3. CASE EnableIpForward(p)
    BY <2>3 DEF EnableIpForward, Fails, Goto, host, Fault
  <2>4. CASE SetupNat(p, "nat", "ip", "fwd6", "failed")
    BY <2>4 DEF SetupNat, Fails, Goto, host, Fault
  <2>5. CASE EnableIp6Forward(p)
    BY <2>5 DEF EnableIp6Forward, Fails, Goto, host, Fault
  <2>6. CASE ForceDefault(p)
    BY <2>6 DEF ForceDefault, Fails, Goto, host, Fault
  <2>7. CASE Scan(p, "forcescan", "forceif")
    BY <2>7 DEF Scan, Fails, Goto, host, Fault
  <2>8. CASE ForceExisting(p)
    BY <2>8 DEF ForceExisting, Fails, Goto, host, Fault
  <2>9. CASE Scan(p, "scan", "raise")
    BY <2>9 DEF Scan, Fails, Goto, host, Fault
  <2>10. CASE RaiseAcceptRa(p)
    BY <2>10 DEF RaiseAcceptRa, Fails, Goto, host, Fault
  <2>11. CASE DefaultAcceptRa(p)
    BY <2>11 DEF DefaultAcceptRa, Fails, Goto, host, Fault
  <2>12. CASE ForwardAll(p)
    BY <2>12 DEF ForwardAll, Fails, Goto, host, Fault
  <2>13. CASE SetupNat(p, "nat6", "ip6", "overlay", "overlay")
    BY <2>13 DEF SetupNat, Fails, Goto, host, Fault
  <2>14. CASE MountOverlay(p)
    BY <2>14 DEF MountOverlay, Request, Answer, Fails, Goto, host, Fault
  <2>15. CASE CreateLink(p)
    BY <2>15 DEF CreateLink, Goto, host, mvars
  <2>16. CASE Kill(p)
    BY <2>16 DEF Kill, Fails, Goto, host, Fault
  <2>17. QED
    BY <1>1, <2>1, <2>2, <2>3, <2>4, <2>5, <2>6, <2>7, <2>8, <2>9, <2>10, <2>11, <2>12, <2>13, <2>14, <2>15,
       <2>16 DEF Session
<1>2. ASSUME NEW i \in Ifaces, Plug(i) \/ Advertise(i)
      PROVE  RuleTyped'
  BY <1>2 DEF Plug, Advertise
<1>3. CASE AllOver \/ UNCHANGED vars
  BY <1>3 DEF AllOver, vars, nvars, mvars
<1>4. QED
  BY <1>1, <1>2, <1>3 DEF Next

LEMMA AskedKept ==
  ASSUME TypeOK, ModInv, Asked, [Next]_vars, Frame
  PROVE  Asked'
<1>. USE DEF TypeOK, ModTypeOK, Asked, mvars
<1>1. ASSUME NEW p \in Procs, Session(p) \/ Kill(p)
      PROVE  Asked'
  <2>1. CASE LoadVeth(p)
    BY <2>1 DEF LoadVeth, Request, Answer, Fails, Goto, host, Fault
  <2>2. CASE ModStep(p) /\ UNCHANGED nvars
    BY <2>2, StepFrame DEF nvars
  <2>3. CASE EnableIpForward(p)
    BY <2>3 DEF EnableIpForward, Fails, Goto, host, Fault
  <2>4. CASE SetupNat(p, "nat", "ip", "fwd6", "failed")
    BY <2>4 DEF SetupNat, Fails, Goto, host, Fault
  <2>5. CASE EnableIp6Forward(p)
    BY <2>5 DEF EnableIp6Forward, Fails, Goto, host, Fault
  <2>6. CASE ForceDefault(p)
    BY <2>6 DEF ForceDefault, Fails, Goto, host, Fault
  <2>7. CASE Scan(p, "forcescan", "forceif")
    BY <2>7 DEF Scan, Fails, Goto, host, Fault
  <2>8. CASE ForceExisting(p)
    BY <2>8 DEF ForceExisting, Fails, Goto, host, Fault
  <2>9. CASE Scan(p, "scan", "raise")
    BY <2>9 DEF Scan, Fails, Goto, host, Fault
  <2>10. CASE RaiseAcceptRa(p)
    BY <2>10 DEF RaiseAcceptRa, Fails, Goto, host, Fault
  <2>11. CASE DefaultAcceptRa(p)
    BY <2>11 DEF DefaultAcceptRa, Fails, Goto, host, Fault
  <2>12. CASE ForwardAll(p)
    BY <2>12 DEF ForwardAll, Fails, Goto, host, Fault
  <2>13. CASE SetupNat(p, "nat6", "ip6", "overlay", "overlay")
    BY <2>13 DEF SetupNat, Fails, Goto, host, Fault
  <2>14. CASE MountOverlay(p)
    BY <2>14 DEF MountOverlay, Request, Answer, Fails, Goto, host, Fault
  <2>15. CASE CreateLink(p)
    BY <2>15 DEF CreateLink, Goto, host, mvars
  <2>16. CASE Kill(p)
    BY <2>16 DEF Kill, Fails, Goto, host, Fault
  <2>17. QED
    BY <1>1, <2>1, <2>2, <2>3, <2>4, <2>5, <2>6, <2>7, <2>8, <2>9, <2>10, <2>11, <2>12, <2>13, <2>14, <2>15,
       <2>16 DEF Session
<1>2. ASSUME NEW i \in Ifaces, Plug(i) \/ Advertise(i)
      PROVE  Asked'
  BY <1>2 DEF Plug, Advertise
<1>3. CASE AllOver \/ UNCHANGED vars
  BY <1>3 DEF AllOver, vars, nvars, mvars
<1>4. QED
  BY <1>1, <1>2, <1>3 DEF Next

LEMMA BehindKept ==
  ASSUME TypeOK, ModInv, Asked, Behind, [Next]_vars, Frame
  PROVE  Behind'
<1>. USE DEF TypeOK, ModTypeOK, ModInv, Answers, Asked, Behind, Frame, HasOverlay, Forwarding, Legacy,
            HasRule, HasFwd4, HasVeth
<1>1. ASSUME NEW p \in Procs, Session(p) \/ Kill(p)
      PROVE  Behind'
  <2>1. CASE LoadVeth(p)
    BY <2>1 DEF LoadVeth, Request, Answer, Fails, Goto, host, Fault
  <2>2. CASE ModStep(p) /\ UNCHANGED nvars
    BY <2>2, StepFrame DEF nvars
  <2>3. CASE EnableIpForward(p)
    BY <2>3, SMTT(30) DEF EnableIpForward, Fails, Goto, host, Fault
  <2>4. CASE SetupNat(p, "nat", "ip", "fwd6", "failed")
    <3>1. /\ UNCHANGED fwd4
          /\ \A q \in Procs : q # p => pc'[q] = pc[q]
          /\ \/ pc'[p] = "failed" /\ rules' = rules
             \/ pc[p] = "nat" /\ pc'[p] = "fwd6" /\ rules'["ip"] = 1
      BY <2>4 DEF SetupNat, Table, Fails, Goto, host, Fault
    <3>2. QED
      BY <3>1
  <2>5. CASE EnableIp6Forward(p)
    BY <2>5 DEF EnableIp6Forward, Fails, Goto, host, Fault
  <2>6. CASE ForceDefault(p)
    BY <2>6 DEF ForceDefault, Fails, Goto, host, Fault
  <2>7. CASE Scan(p, "forcescan", "forceif")
    BY <2>7, SMTT(30) DEF Scan, Fails, Goto, host, Fault
  <2>8. CASE ForceExisting(p)
    BY <2>8 DEF ForceExisting, Fails, Goto, host, Fault
  <2>9. CASE Scan(p, "scan", "raise")
    BY <2>9, SMTT(30) DEF Scan, Fails, Goto, host, Fault
  <2>10. CASE RaiseAcceptRa(p)
    BY <2>10, SMTT(30) DEF RaiseAcceptRa, Fails, Goto, host, Fault
  <2>11. CASE DefaultAcceptRa(p)
    BY <2>11 DEF DefaultAcceptRa, Fails, Goto, host, Fault
  <2>12. CASE ForwardAll(p)
    BY <2>12 DEF ForwardAll, Fails, Goto, host, Fault
  <2>13. CASE SetupNat(p, "nat6", "ip6", "overlay", "overlay")
    BY <2>13 DEF SetupNat, Fails, Goto, host, Fault
  <2>14. CASE MountOverlay(p)
    BY <2>14 DEF MountOverlay, Request, Answer, Fails, Goto, host, Fault
  <2>15. CASE CreateLink(p)
    BY <2>15 DEF CreateLink, Goto, host, mvars
  <2>16. CASE Kill(p)
    BY <2>16 DEF Kill, Fails, Goto, host, Fault
  <2>17. QED
    BY <1>1, <2>1, <2>2, <2>3, <2>4, <2>5, <2>6, <2>7, <2>8, <2>9, <2>10, <2>11, <2>12, <2>13, <2>14, <2>15,
       <2>16 DEF Session
<1>2. ASSUME NEW i \in Ifaces, Plug(i) \/ Advertise(i)
      PROVE  Behind'
  BY <1>2 DEF Plug, Advertise
<1>3. CASE AllOver \/ UNCHANGED vars
  BY <1>3 DEF AllOver, vars, nvars, mvars
<1>4. QED
  BY <1>1, <1>2, <1>3 DEF Next

LEMMA ForcedKept ==
  ASSUME TypeOK, Forced, [Next]_vars, Frame
  PROVE  Forced'
<1>. USE DEF TypeOK, ModTypeOK, Forced, Frame, HasOverlay, Forwarding, Legacy
<1>1. ASSUME NEW p \in Procs, Session(p) \/ Kill(p)
      PROVE  Forced'
  <2>1. CASE LoadVeth(p)
    BY <2>1 DEF LoadVeth, Request, Answer, Fails, Goto, host, Fault
  <2>2. CASE ModStep(p) /\ UNCHANGED nvars
    BY <2>2, StepFrame DEF nvars
  <2>3. CASE EnableIpForward(p)
    BY <2>3, ZenonT(30) DEF EnableIpForward, Fails, Goto, host, Fault
  <2>4. CASE SetupNat(p, "nat", "ip", "fwd6", "failed")
    BY <2>4 DEF SetupNat, Fails, Goto, host, Fault
  <2>5. CASE EnableIp6Forward(p)
    BY <2>5 DEF EnableIp6Forward, Fails, Goto, host, Fault
  <2>6. CASE ForceDefault(p)
    BY <2>6 DEF ForceDefault, Fails, Goto, host, Fault
  <2>7. CASE Scan(p, "forcescan", "forceif")
    BY <2>7, ZenonT(30) DEF Scan, Fails, Goto, host, Fault
  <2>8. CASE ForceExisting(p)
    BY <2>8 DEF ForceExisting, Fails, Goto, host, Fault
  <2>9. CASE Scan(p, "scan", "raise")
    BY <2>9, ZenonT(30) DEF Scan, Fails, Goto, host, Fault
  <2>10. CASE RaiseAcceptRa(p)
    BY <2>10, SMTT(30) DEF RaiseAcceptRa, Fails, Goto, host, Fault
  <2>11. CASE DefaultAcceptRa(p)
    BY <2>11 DEF DefaultAcceptRa, Fails, Goto, host, Fault
  <2>12. CASE ForwardAll(p)
    BY <2>12 DEF ForwardAll, Fails, Goto, host, Fault
  <2>13. CASE SetupNat(p, "nat6", "ip6", "overlay", "overlay")
    BY <2>13 DEF SetupNat, Fails, Goto, host, Fault
  <2>14. CASE MountOverlay(p)
    BY <2>14, ZenonT(30) DEF MountOverlay, Request, Answer, Fails, Goto, host, Fault
  <2>15. CASE CreateLink(p)
    BY <2>15 DEF CreateLink, Goto, host, mvars
  <2>16. CASE Kill(p)
    BY <2>16 DEF Kill, Fails, Goto, host, Fault
  <2>17. QED
    BY <1>1, <2>1, <2>2, <2>3, <2>4, <2>5, <2>6, <2>7, <2>8, <2>9, <2>10, <2>11, <2>12, <2>13, <2>14, <2>15,
       <2>16 DEF Session
<1>2. ASSUME NEW i \in Ifaces, Plug(i) \/ Advertise(i)
      PROVE  Forced'
  BY <1>2 DEF Plug, Advertise
<1>3. CASE AllOver \/ UNCHANGED vars
  BY <1>3 DEF AllOver, vars, nvars, mvars
<1>4. QED
  BY <1>1, <1>2, <1>3 DEF Next

LEMMA RaisedKept ==
  ASSUME TypeOK, Raised, RaRoutesKept, [Next]_vars, Frame
  PROVE  (Raised /\ RaRoutesKept)'
<1>. USE DEF TypeOK, ModTypeOK, Raised, RaRoutesKept
<1>1. ASSUME NEW p \in Procs, Session(p) \/ Kill(p)
      PROVE  (Raised /\ RaRoutesKept)'
  <2>1. CASE LoadVeth(p)
    BY <2>1 DEF LoadVeth, Request, Answer, Fails, Goto, host, Fault
  <2>2. CASE ModStep(p) /\ UNCHANGED nvars
    BY <2>2, StepFrame DEF nvars
  <2>3. CASE EnableIpForward(p)
    BY <2>3 DEF EnableIpForward, Fails, Goto, host, Fault
  <2>4. CASE SetupNat(p, "nat", "ip", "fwd6", "failed")
    BY <2>4 DEF SetupNat, Fails, Goto, host, Fault
  <2>5. CASE EnableIp6Forward(p)
    BY <2>5 DEF EnableIp6Forward, Fails, Goto, host, Fault
  <2>6. CASE ForceDefault(p)
    BY <2>6 DEF ForceDefault, Fails, Goto, host, Fault
  <2>7. CASE Scan(p, "forcescan", "forceif")
    BY <2>7 DEF Scan, Fails, Goto, host, Fault
  <2>8. CASE ForceExisting(p)
    BY <2>8 DEF ForceExisting, Fails, Goto, host, Fault
  <2>9. CASE Scan(p, "scan", "raise")
    BY <2>9 DEF Scan, Fails, Goto, host, Fault
  <2>10. CASE RaiseAcceptRa(p)
    <3>1. CASE Fails(p, "raise", "nat6")
      BY <3>1 DEF Fails, Goto, host, Fault
    <3>2. CASE /\ pc[p] = "raise" /\ todoif[p] = {} /\ Goto(p, "default")
               /\ UNCHANGED <<ra, todoif, ifs, routes, lost, late, unread>>
      BY <3>2 DEF Goto
    <3>3. ASSUME NEW i \in todoif[p], pc[p] = "raise",
                 ra' = (IF ra[i] = 1 THEN [ra EXCEPT ![i] = 2] ELSE ra),
                 todoif' = [todoif EXCEPT ![p] = @ \ {i}],
                 UNCHANGED <<pc, ifs, routes, lost, late, unread>>
          PROVE  (Raised /\ RaRoutesKept)'
      <4>1. i \in Ifaces /\ ra'[i] # 1
        BY <3>3
      <4>2. \A k \in Ifaces : k # i => ra'[k] = ra[k]
        BY <3>3
      <4>3. \A k \in Ifaces : ra'[k] = 0 => ra[k] = 0
        BY <3>3, <4>1, <4>2
      <4>4. /\ todoif'[p] = todoif[p] \ {i}
            /\ \A q \in Procs : q # p => todoif'[q] = todoif[q]
        BY <3>3
      <4>5. \A q \in Procs : \A k \in ifs : ra'[k] = 1 =>
              (k \in todoif[q] => k \in todoif'[q])
        BY <4>1, <4>4
      <4>6. QED
        BY <3>3, <4>1, <4>2, <4>3, <4>5
    <3>4. ASSUME NEW i \in todoif[p], pc[p] = "raise",
                 todoif' = [todoif EXCEPT ![p] = @ \ {i}],
                 unread' = (IF ra[i] = 1 THEN unread \cup {i} ELSE unread),
                 UNCHANGED <<pc, ra, ifs, routes, lost, late>>
          PROVE  (Raised /\ RaRoutesKept)'
      <4>1. /\ todoif'[p] = todoif[p] \ {i}
            /\ \A q \in Procs : q # p => todoif'[q] = todoif[q]
        BY <3>4
      <4>2. \A q \in Procs : \A k \in ifs : ra[k] = 1 =>
              (k \in todoif[q] \cup unread => k \in todoif'[q] \cup unread')
        BY <3>4, <4>1
      <4>3. unread \subseteq unread'
        BY <3>4
      <4>4. QED
        BY <3>4, <4>2, <4>3
    <3>5. QED
      BY <2>10, <3>1, <3>2, <3>3, <3>4 DEF RaiseAcceptRa
  <2>11. CASE DefaultAcceptRa(p)
    BY <2>11 DEF DefaultAcceptRa, Fails, Goto, host, Fault
  <2>12. CASE ForwardAll(p)
    BY <2>12 DEF ForwardAll, Fails, Goto, host, Fault
  <2>13. CASE SetupNat(p, "nat6", "ip6", "overlay", "overlay")
    BY <2>13 DEF SetupNat, Fails, Goto, host, Fault
  <2>14. CASE MountOverlay(p)
    BY <2>14 DEF MountOverlay, Request, Answer, Fails, Goto, host, Fault
  <2>15. CASE CreateLink(p)
    BY <2>15 DEF CreateLink, Goto, host, mvars
  <2>16. CASE Kill(p)
    BY <2>16 DEF Kill, Fails, Goto, host, Fault
  <2>17. QED
    BY <1>1, <2>1, <2>2, <2>3, <2>4, <2>5, <2>6, <2>7, <2>8, <2>9, <2>10, <2>11, <2>12, <2>13, <2>14, <2>15,
       <2>16 DEF Session
<1>2. ASSUME NEW i \in Ifaces, Plug(i) \/ Advertise(i)
      PROVE  (Raised /\ RaRoutesKept)'
  <2>1. CASE Plug(i)
    <3>1. /\ i \notin ifs /\ ifs' = ifs \cup {i} /\ late \subseteq late'
          /\ UNCHANGED <<pc, todoif, routes, lost, unread>>
          /\ \A k \in Ifaces : k # i => ra'[k] = ra[k]
      BY <2>1 DEF Plug
    <3>2. ASSUME NEW p \in Procs, ra'[i] = 1, pc[p] \in {"raise", "default", "all6"}
          PROVE  i \in late'
      BY <2>1, <3>2 DEF Plug
    <3>3. QED
      BY <3>1, <3>2
  <2>2. CASE Advertise(i)
    BY <2>2 DEF Advertise
  <2>3. QED
    BY <1>2, <2>1, <2>2
<1>3. CASE AllOver \/ UNCHANGED vars
  BY <1>3 DEF AllOver, vars, nvars, mvars
<1>4. QED
  BY <1>1, <1>2, <1>3 DEF Next

LEMMA FailingKept ==
  ASSUME TypeOK, ModInv, Asked, Behind, NoMutualFailure, [Next]_vars, Frame
  PROVE  NoMutualFailure'
<1>. USE DEF TypeOK, ModTypeOK, ModInv, Answers, Asked, Behind, HasOverlay, NoMutualFailure
<1>0. /\ faulted \subseteq faulted' /\ early \subseteq early'
      /\ Loadable(veth)' <=> Loadable(veth)
      /\ Loadable(overlay)' <=> Loadable(overlay)
  BY TreeStays DEF Frame
<1>1. ASSUME NEW p \in Procs, Session(p) \/ Kill(p)
      PROVE  NoMutualFailure'
  <2>1. CASE LoadVeth(p)
    BY <2>1, <1>0 DEF LoadVeth, Request, Answer, Fails, Goto, host, Fault
  <2>2. CASE ModStep(p) /\ UNCHANGED nvars
    BY <2>2, <1>0, StepFrame DEF nvars
  <2>3. CASE EnableIpForward(p)
    BY <2>3, <1>0 DEF EnableIpForward, Fails, Goto, host, Fault
  <2>4. CASE SetupNat(p, "nat", "ip", "fwd6", "failed")
    BY <2>4, <1>0 DEF SetupNat, Fails, Goto, host, Fault
  <2>5. CASE EnableIp6Forward(p)
    BY <2>5, <1>0 DEF EnableIp6Forward, Fails, Goto, host, Fault
  <2>6. CASE ForceDefault(p)
    BY <2>6, <1>0 DEF ForceDefault, Fails, Goto, host, Fault
  <2>7. CASE Scan(p, "forcescan", "forceif")
    BY <2>7, <1>0 DEF Scan, Fails, Goto, host, Fault
  <2>8. CASE ForceExisting(p)
    BY <2>8, <1>0 DEF ForceExisting, Fails, Goto, host, Fault
  <2>9. CASE Scan(p, "scan", "raise")
    BY <2>9, <1>0 DEF Scan, Fails, Goto, host, Fault
  <2>10. CASE RaiseAcceptRa(p)
    BY <2>10, <1>0 DEF RaiseAcceptRa, Fails, Goto, host, Fault
  <2>11. CASE DefaultAcceptRa(p)
    BY <2>11, <1>0 DEF DefaultAcceptRa, Fails, Goto, host, Fault
  <2>12. CASE ForwardAll(p)
    BY <2>12, <1>0 DEF ForwardAll, Fails, Goto, host, Fault
  <2>13. CASE SetupNat(p, "nat6", "ip6", "overlay", "overlay")
    BY <2>13, <1>0 DEF SetupNat, Fails, Goto, host, Fault
  <2>14. CASE MountOverlay(p)
    BY <2>14, <1>0 DEF MountOverlay, Request, Answer, Fails, Goto, host, Fault
  <2>15. CASE CreateLink(p)
    BY <2>15, <1>0 DEF CreateLink, Goto, host, mvars, Forwarding, HasRule, HasFwd4, HasVeth
  <2>16. CASE Kill(p)
    BY <2>16, <1>0 DEF Kill, Fails, Goto, host, Fault
  <2>17. QED
    BY <1>1, <2>1, <2>2, <2>3, <2>4, <2>5, <2>6, <2>7, <2>8, <2>9, <2>10, <2>11, <2>12, <2>13, <2>14, <2>15,
       <2>16 DEF Session
<1>2. ASSUME NEW i \in Ifaces, Plug(i) \/ Advertise(i)
      PROVE  NoMutualFailure'
  BY <1>2, <1>0 DEF Plug, Advertise
<1>3. CASE AllOver \/ UNCHANGED vars
  BY <1>3, <1>0 DEF AllOver, vars, nvars, mvars
<1>4. QED
  BY <1>1, <1>2, <1>3 DEF Next

-----------------------------------------------------------------------------
(* The theorems.                                                           *)

LEMMA InitInv == HostNetAssumption /\ Init => IInv
<1>. SUFFICES ASSUME HostNetAssumption, Init PROVE IInv
  OBVIOUS
<1>. USE DEF HostNetAssumption, Init, ModInit
<1>1. ModTypeOK
  <2>1. (CHOOSE m \in Modules : TRUE) \in Modules
    OBVIOUS
  <2>2. QED
    BY <2>1 DEF ModTypeOK, ModSteps
<1>2. TypeOK
  <2>1. pc \in [Procs -> Steps] /\ todoif \in [Procs -> SUBSET Ifaces]
    BY DEF Steps, Over
  <2>2. ra \in [Ifaces \cup {"default"} -> 0 .. 2]
    OBVIOUS
  <2>3. rules \in [{"ip", "ip6"} -> Nat]
    OBVIOUS
  <2>4. fwd4 \in BOOLEAN /\ fwd6 \in BOOLEAN
    OBVIOUS
  <2>5. QED
    BY <1>1, <2>1, <2>2, <2>3, <2>4 DEF TypeOK
<1>3. ModInv
  BY DEF ModInv, PendingInv, Answers
<1>4. Asked /\ Behind /\ Forced /\ Raised /\ RaRoutesKept /\ NoMutualFailure
  BY DEF Asked, Behind, Forced, Raised, RaRoutesKept, NoMutualFailure, HasOverlay, Forwarding,
         Legacy, HasRule, HasFwd4, HasVeth
<1>5. QED
  BY <1>2, <1>3, <1>4 DEF IInv

LEMMA StepInv ==
  ASSUME HostNetAssumption, ModprobeAssumption, IInv, [Next]_vars
  PROVE  IInv'
<1>. USE DEF IInv
<1>1. Frame
  BY FrameKept
<1>2. TypeOK'
  BY <1>1, PcTypeKept, ForcedTypeKept, RaTypeKept, FlagTypeKept, RuleTypeKept
     DEF TypeOK, Frame, PcTyped, ForcedTyped, RaTyped, FlagTyped, RuleTyped
<1>3. Asked' /\ Behind' /\ Forced'
  BY <1>1, AskedKept, BehindKept, ForcedKept
<1>4. (Raised /\ RaRoutesKept)' /\ NoMutualFailure'
  BY <1>1, RaisedKept, FailingKept
<1>5. QED
  BY <1>1, <1>2, <1>3, <1>4 DEF Frame

LEMMA Invariant == Spec => []IInv
<1>1. HostNetAssumption /\ ModprobeAssumption
  BY HostNetAssumption, ModprobeAssumption
<1>2. Init => IInv
  BY <1>1, InitInv
<1>3. IInv /\ [Next]_vars => IInv'
  BY <1>1, StepInv
<1>4. QED
  BY <1>2, <1>3, PTL DEF Spec

\* Type correctness; a module is only asked to load when modules.dep lists it
\* and what it is loaded after is there.
THEOREM TypeCorrect == Spec => []TypeOK
<1>1. IInv => TypeOK
  BY DEF IInv
<1>2. QED
  BY <1>1, Invariant, PTL

\* setup_net_or_fail of any number of sessions, any of whose calls fail and
\* any of which are killed, leaves one NAT rule, forwarding on and the modules
\* loaded for each container that comes up.
THEOREM Routed == Spec => []UpMeansRouted
<1>1. IInv => UpMeansRouted
  BY DEF IInv, Behind, Forced, UpMeansRouted, HasOverlay, Forwarding, Legacy, HasRule, HasFwd4,
         HasVeth
<1>2. QED
  BY <1>1, Invariant, PTL

\* Two legacy_ip6_forward at once, each with its own list of interfaces, lose
\* no advertised route except one that came too late for either.
THEOREM RoutesKept == Spec => []RaRoutesKept
<1>1. IInv => RaRoutesKept
  BY DEF IInv
<1>2. QED
  BY <1>1, Invariant, PTL

\* modprobe_load of one process never fails because of another's, unless it has
\* seen a module in /proc/modules that the other was still loading.
THEOREM IndependentLoads == Spec => []NoMutualFailure
<1>1. IInv => NoMutualFailure
  BY DEF IInv
<1>2. QED
  BY <1>1, Invariant, PTL
=============================================================================
