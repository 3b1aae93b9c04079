--------------------------- MODULE SessionProofs ---------------------------
(***************************************************************************)
(* Proofs about the handshakes of parent and container, the temp root and  *)
(* the shared veth links, for any number of sessions and links.            *)
(***************************************************************************)
EXTENDS Session, FiniteSetTheorems, TLAPS

\* What the parent's program counter says of the shared words and the child.
ParentKnows ==
  \A s \in Sessions :
    /\ ppc[s] \in {"alloc", "fork"} => cpc[s] = "none" /\ s \notin root
    /\ ppc[s] \in {"veth", "find", "addr", "up", "signal"} => netf[s] = 1
    /\ ppc[s] = "wake" => netf[s] = 2
    /\ ppc[s] = "rmroot" => rootf[s] = 1
    /\ ppc[s] = "finish" => cpc[s] = "gone"

\* What the child's program counter says of the shared words.
ChildKnows ==
  \A s \in Sessions :
    /\ cpc[s] \in {"none", "unshare", "setone"} => netf[s] = 0
    /\ cpc[s] \in {"test", "futex", "asleep"} => netf[s] # 0
    /\ rootf[s] = 1 => cpc[s] \in {"run", "zombie", "gone"}

\* A container past its network set-up has its link.
OwnLink == \A s \in Configured : link[netid[s]] = s

\* The inductive invariant of the handshakes, and the one of the links.
ShakeInv == TypeOK /\ ParentKnows /\ ChildKnows /\ NetHandshake /\ RootLifetime
LinkInv == OwnLink /\ LinkAfterUnshare

\* What excuses a host end that is not configured.
Excused(s) == lapse[s] = "failed" \/ (lapse[s] = "missed" /\ ScanMax <= MaxId)

\* A parent that has not passed the creation owns no link, and afterwards none
\* but that of its id.
Owns ==
  \A s \in Sessions, n \in Ids :
    link[n] = s => n = netid[s] /\ ppc[s] \notin {"alloc", "fork", "netcheck", "netpeek", "veth"}

\* How far the host end of a link is, by the step of the parent that made it.
HostEnds ==
  \A s \in Sessions :
    link[netid[s]] = s =>
      /\ ppc[s] \in {"addr", "up"} => idx[s] = s
      /\ ppc[s] = "up" => "addr" \in ends[s] \/ lapse[s] = "failed"
      /\ ppc[s] = "signal" \/ netf[s] = 2 => ends[s] = {"addr", "up"} \/ Excused(s)

HostInv == Owns /\ HostEnds

-----------------------------------------------------------------------------
\* Every step keeps the types: in particular the futex words stay within
\* 0..2 and 0..1 and a chosen veth id within 0..MaxId.
LEMMA TypeStep == TypeOK /\ [Next]_vars => TypeOK'
<1> SUFFICES ASSUME TypeOK, [Next]_vars PROVE TypeOK'
  OBVIOUS
<1> USE SessionAssumption DEF netvars, TypeOK, ParentSteps, ChildSteps, PGoto, CGoto
<1>1. ASSUME NEW s \in Sessions, ParentStep(s) PROVE TypeOK'
  <2>1. CASE AllocVethId(s) BY <2>1 DEF AllocVethId
  <2>2. CASE ForkChild(s) BY <2>2 DEF ForkChild
  <2>3. CASE NetCheck(s) BY <2>3 DEF NetCheck
  <2>4. CASE NetPeek(s) BY <2>4 DEF NetPeek
  <2>5. CASE CreateVeth(s) BY <2>5 DEF CreateVeth
  <2>6. CASE SignalNet(s) BY <2>6 DEF SignalNet
  <2>7. CASE WakeChild(s) BY <2>7 DEF WakeChild
  <2>8. CASE RootCheck(s) BY <2>8 DEF RootCheck
  <2>9. CASE RootPeek(s) BY <2>9 DEF RootPeek
  <2>10. CASE RemoveRootEarly(s) BY <2>10 DEF RemoveRootEarly
  <2>11. CASE ReapChild(s) BY <2>11 DEF ReapChild
  <2>12. CASE Finish(s) BY <2>12 DEF Finish
  <2>13. CASE FindVeth(s) BY <2>13 DEF FindVeth, Note
  <2>14. CASE SetHostAddr(s) BY <2>14 DEF SetHostAddr, Request, Note
  <2>15. CASE SetHostUp(s) BY <2>15 DEF SetHostUp, Request, Note
  <2>16. QED
    BY <1>1, <2>1, <2>2, <2>3, <2>4, <2>5, <2>6, <2>7, <2>8, <2>9, <2>10,
       <2>11, <2>12, <2>13, <2>14, <2>15 DEF ParentStep
<1>2. ASSUME NEW s \in Sessions, ChildStep(s) PROVE TypeOK'
  <2>1. CASE Unshare(s) BY <2>1 DEF Unshare
  <2>2. CASE SetOne(s) BY <2>2 DEF SetOne
  <2>3. CASE TestTwo(s) BY <2>3 DEF TestTwo
  <2>4. CASE FutexWait(s) BY <2>4 DEF FutexWait
  <2>5. CASE ConfigNet(s) BY <2>5 DEF ConfigNet
  <2>6. CASE MountAll(s) BY <2>6 DEF MountAll
  <2>7. CASE RootReady(s) BY <2>7 DEF RootReady
  <2>8. QED
    BY <1>2, <2>1, <2>2, <2>3, <2>4, <2>5, <2>6, <2>7 DEF ChildStep
<1>3. ASSUME NEW s \in Sessions, ChildDies(s) PROVE TypeOK'
  BY <1>3 DEF ChildDies
<1>4. ASSUME NEW s \in Sessions, InitReap(s) PROVE TypeOK'
  BY <1>4 DEF InitReap
<1>5. ASSUME NEW s \in Sessions, ParentCrash(s) PROVE TypeOK'
  BY <1>5 DEF ParentCrash
<1>6. ASSUME NEW n \in Ids, LinkGone(n) PROVE TypeOK'
  BY <1>6 DEF LinkGone
<1>7. CASE AllOver BY <1>7 DEF AllOver, vars
<1>8. CASE UNCHANGED vars BY <1>8 DEF vars
<1>9. QED
  BY <1>1, <1>2, <1>3, <1>4, <1>5, <1>6, <1>7, <1>8 DEF Next

\* Every step keeps what parent and child know of each other.
LEMMA ShakeStep ==
  ShakeInv /\ [Next]_vars => (ParentKnows /\ ChildKnows /\ NetHandshake /\ RootLifetime)'
<1> DEFINE G == ParentKnows /\ ChildKnows /\ NetHandshake /\ RootLifetime
<1> SUFFICES ASSUME ShakeInv, [Next]_vars PROVE G'
  OBVIOUS
<1> USE SessionAssumption DEF netvars, ShakeInv, TypeOK, ParentKnows, ChildKnows, NetHandshake,
      RootLifetime, ChildSteps, Dead, PGoto, CGoto
<1>1. ASSUME NEW s \in Sessions, ParentStep(s) PROVE G'
  <2>1. CASE AllocVethId(s) BY <2>1 DEF AllocVethId
  <2>2. CASE ForkChild(s) BY <2>2 DEF ForkChild
  <2>3. CASE NetCheck(s) BY <2>3 DEF NetCheck
  <2>4. CASE NetPeek(s) BY <2>4 DEF NetPeek
  <2>5. CASE CreateVeth(s) BY <2>5 DEF CreateVeth
  <2>6. CASE SignalNet(s) BY <2>6 DEF SignalNet
  <2>7. CASE WakeChild(s) BY <2>7 DEF WakeChild
  <2>8. CASE RootCheck(s) BY <2>8 DEF RootCheck
  <2>9. CASE RootPeek(s) BY <2>9 DEF RootPeek
  <2>10. CASE RemoveRootEarly(s) BY <2>10 DEF RemoveRootEarly
  <2>11. CASE ReapChild(s) BY <2>11 DEF ReapChild
  <2>12. CASE Finish(s) BY <2>12 DEF Finish
  <2>13. CASE FindVeth(s) BY <2>13 DEF FindVeth, Note
  <2>14. CASE SetHostAddr(s) BY <2>14 DEF SetHostAddr, Request, Note
  <2>15. CASE SetHostUp(s) BY <2>15 DEF SetHostUp, Request, Note
  <2>16. QED
    BY <1>1, <2>1, <2>2, <2>3, <2>4, <2>5, <2>6, <2>7, <2>8, <2>9, <2>10,
       <2>11, <2>12, <2>13, <2>14, <2>15 DEF ParentStep
<1>2. ASSUME NEW s \in Sessions, ChildStep(s) PROVE G'
  <2>1. CASE Unshare(s) BY <2>1 DEF Unshare
  <2>2. CASE SetOne(s) BY <2>2 DEF SetOne
  <2>3. CASE TestTwo(s) BY <2>3 DEF TestTwo
  <2>4. CASE FutexWait(s) BY <2>4 DEF FutexWait
  <2>5. CASE ConfigNet(s) BY <2>5 DEF ConfigNet
  <2>6. CASE MountAll(s) BY <2>6 DEF MountAll
  <2>7. CASE RootReady(s) BY <2>7 DEF RootReady
  <2>8. QED
    BY <1>2, <2>1, <2>2, <2>3, <2>4, <2>5, <2>6, <2>7 DEF ChildStep
<1>3. ASSUME NEW s \in Sessions, ChildDies(s) PROVE G'
  BY <1>3 DEF ChildDies
<1>4. ASSUME NEW s \in Sessions, InitReap(s) PROVE G'
  BY <1>4 DEF InitReap
<1>5. ASSUME NEW s \in Sessions, ParentCrash(s) PROVE G'
  BY <1>5 DEF ParentCrash, Over
<1>6. ASSUME NEW n \in Ids, LinkGone(n) PROVE G'
  BY <1>6 DEF LinkGone
<1>7. CASE AllOver BY <1>7 DEF AllOver, vars
<1>8. CASE UNCHANGED vars BY <1>8 DEF vars
<1>9. QED
  BY <1>1, <1>2, <1>3, <1>4, <1>5, <1>6, <1>7, <1>8 DEF Next

\* Every step keeps the links with their owners.
LEMMA LinkStep == ShakeInv /\ LinkInv /\ [Next]_vars => LinkInv'
<1> SUFFICES ASSUME ShakeInv, LinkInv, [Next]_vars PROVE LinkInv'
  OBVIOUS
<1> USE SessionAssumption DEF netvars, ShakeInv, TypeOK, ParentKnows, ChildKnows, LinkInv, OwnLink,
      LinkAfterUnshare, Configured, Dead, PGoto, CGoto
<1>1. ASSUME NEW s \in Sessions, ParentStep(s) PROVE LinkInv'
  <2>1. CASE AllocVethId(s) BY <2>1 DEF AllocVethId
  <2>2. CASE ForkChild(s) BY <2>2 DEF ForkChild
  <2>3. CASE NetCheck(s) BY <2>3 DEF NetCheck
  <2>4. CASE NetPeek(s) BY <2>4 DEF NetPeek
  <2>5. CASE CreateVeth(s) BY <2>5 DEF CreateVeth
  <2>6. CASE SignalNet(s) BY <2>6 DEF SignalNet
  <2>7. CASE WakeChild(s) BY <2>7 DEF WakeChild
  <2>8. CASE RootCheck(s) BY <2>8 DEF RootCheck
  <2>9. CASE RootPeek(s) BY <2>9 DEF RootPeek
  <2>10. CASE RemoveRootEarly(s) BY <2>10 DEF RemoveRootEarly
  <2>11. CASE ReapChild(s) BY <2>11 DEF ReapChild
  <2>12. CASE Finish(s) BY <2>12 DEF Finish
  <2>13. CASE FindVeth(s) BY <2>13 DEF FindVeth, Note
  <2>14. CASE SetHostAddr(s) BY <2>14 DEF SetHostAddr, Request, Note
  <2>15. CASE SetHostUp(s) BY <2>15 DEF SetHostUp, Request, Note
  <2>16. QED
    BY <1>1, <2>1, <2>2, <2>3, <2>4, <2>5, <2>6, <2>7, <2>8, <2>9, <2>10,
       <2>11, <2>12, <2>13, <2>14, <2>15 DEF ParentStep
<1>2. ASSUME NEW s \in Sessions, ChildStep(s) PROVE LinkInv'
  <2>1. CASE Unshare(s) BY <2>1 DEF Unshare
  <2>2. CASE SetOne(s) BY <2>2 DEF SetOne
  <2>3. CASE TestTwo(s) BY <2>3 DEF TestTwo
  <2>4. CASE FutexWait(s) BY <2>4 DEF FutexWait
  <2>5. CASE ConfigNet(s) BY <2>5 DEF ConfigNet
  <2>6. CASE MountAll(s) BY <2>6 DEF MountAll
  <2>7. CASE RootReady(s) BY <2>7 DEF RootReady
  <2>8. QED
    BY <1>2, <2>1, <2>2, <2>3, <2>4, <2>5, <2>6, <2>7 DEF ChildStep
<1>3. ASSUME NEW s \in Sessions, ChildDies(s) PROVE LinkInv'
  BY <1>3 DEF ChildDies
<1>4. ASSUME NEW s \in Sessions, InitReap(s) PROVE LinkInv'
  BY <1>4 DEF InitReap
<1>5. ASSUME NEW s \in Sessions, ParentCrash(s) PROVE LinkInv'
  BY <1>5 DEF ParentCrash, Over
<1>6. ASSUME NEW n \in Ids, LinkGone(n) PROVE LinkInv'
  BY <1>6 DEF LinkGone
<1>7. CASE AllOver BY <1>7 DEF AllOver, vars
<1>8. CASE UNCHANGED vars BY <1>8 DEF vars
<1>9. QED
  BY <1>1, <1>2, <1>3, <1>4, <1>5, <1>6, <1>7, <1>8 DEF Next

\* The types of the session: futex words, veth ids and link owners stay in
\* range.
THEOREM TypeCorrect == Spec => []TypeOK
<1>1. Init => TypeOK
  BY SessionAssumption DEF Init, TypeOK, ParentSteps, ChildSteps, Ids
<1>2. QED BY <1>1, TypeStep, PTL DEF Spec

\* The handshakes: a container configures its network only after the host
\* side is done, and never loses its temp root while it works under it.
THEOREM Handshakes == Spec => [](NetHandshake /\ RootLifetime)
<1>1. Init => ShakeInv
  BY SessionAssumption DEF Init, ShakeInv, TypeOK, ParentSteps, ChildSteps, Ids,
     ParentKnows, ChildKnows, NetHandshake, RootLifetime, Dead
<1>2. ShakeInv /\ [Next]_vars => ShakeInv'
  BY TypeStep, ShakeStep DEF ShakeInv
<1>3. ShakeInv => NetHandshake /\ RootLifetime
  BY DEF ShakeInv
<1>4. QED BY <1>1, <1>2, <1>3, PTL DEF Spec

\* The temp root is there as long as a live child works under it, and gone
\* once the parent has ended by itself: the parent removes it by path when the
\* child has moved away from it or been reaped.
THEOREM RootStays == Spec => []RootLifetime
BY Handshakes, PTL

\* The /31 blocks of two different ids do not meet, and no address leaves
\* the last byte: the bound 2 * MaxId + 1 < 256 of SessionAssumption.
LEMMA BlocksDisjoint ==
  ASSUME NEW m \in Ids, NEW n \in Ids, m # n
  PROVE  {CageIP(m), HostIP(m)} \cap {CageIP(n), HostIP(n)} = {}
<1>1. \A k \in Ids : CageIP(k) = 2 * k /\ HostIP(k) = 2 * k + 1
  BY SessionAssumption DEF Ids, CageIP, HostIP
<1>2. m \in Nat /\ n \in Nat
  BY SessionAssumption DEF Ids
<1>3. 2 * m # 2 * n /\ 2 * m # 2 * n + 1 /\ 2 * m + 1 # 2 * n /\ 2 * m + 1 # 2 * n + 1
  BY <1>2
<1>4. QED BY <1>1, <1>3

\* No two live containers share an address, although the id is chosen long
\* before the link is created: the creation is what decides.
THEOREM Addresses == Spec => [](AddressesDistinct /\ LinkAfterUnshare)
<1>1. Init => ShakeInv /\ LinkInv
  BY SessionAssumption DEF Init, ShakeInv, TypeOK, ParentSteps, ChildSteps, Ids,
     ParentKnows, ChildKnows, NetHandshake, RootLifetime, Dead, LinkInv, OwnLink,
     LinkAfterUnshare, Configured
<1>2. ShakeInv /\ LinkInv /\ [Next]_vars => (ShakeInv /\ LinkInv)'
  BY TypeStep, ShakeStep, LinkStep DEF ShakeInv
<1>3. ShakeInv /\ LinkInv => AddressesDistinct /\ LinkAfterUnshare
  <2> SUFFICES ASSUME ShakeInv, LinkInv
               PROVE AddressesDistinct /\ LinkAfterUnshare
    OBVIOUS
  <2>1. ASSUME NEW s \in Configured, NEW t \in Configured, s # t
        PROVE  netid[s] \in Ids /\ netid[t] \in Ids /\ netid[s] # netid[t]
    BY <2>1, SessionAssumption DEF ShakeInv, TypeOK, LinkInv, OwnLink, Configured
  <2>2. QED
    BY <2>1, BlocksDisjoint DEF LinkInv, OwnLink, AddressesDistinct
<1>4. QED BY <1>1, <1>2, <1>3, PTL DEF Spec

\* The peer of a link is never made in the host's own network namespace
\* (do_parent_net waits for the child's unshare).
THEOREM LinksInside == Spec => []LinkAfterUnshare
BY Addresses, PTL

-----------------------------------------------------------------------------
\* There are no more links than ids.
LEMMA LinksFit == Cardinality(Used) \in Nat /\ Cardinality(Used) <= MaxId + 1
<1>1. MaxId \in Nat
  BY SessionAssumption
<1>2. IsFiniteSet(Ids) /\ Cardinality(Ids) = MaxId + 1
  BY <1>1, FS_Interval DEF Ids
<1>3. Used \subseteq Ids
  BY DEF Used
<1>4. QED
  BY <1>2, <1>3, FS_Subset, FS_CardinalityType

\* A dump that does not show a link that is there has been cut off.
LEMMA MissedIsCut ==
  ASSUME NEW n \in Ids, link[n] # None, NEW V \in Scans, n \notin V
  PROVE  ScanMax <= MaxId
<1>1. n \in Used
  BY DEF Used
<1>2. ~(Cardinality(Used) <= ScanMax)
  BY <1>1 DEF Scans
<1>3. QED
  BY <1>2, LinksFit, SessionAssumption

\* Every step keeps the ownership of the links.
LEMMA OwnsStep == TypeOK /\ Owns /\ [Next]_vars => Owns'
<1> SUFFICES ASSUME TypeOK, Owns, [Next]_vars PROVE Owns'
  OBVIOUS
<1> USE SessionAssumption DEF netvars, TypeOK, Owns, PGoto, CGoto
<1>1. ASSUME NEW s \in Sessions, ParentStep(s) PROVE Owns'
  <2>1. CASE AllocVethId(s) BY <2>1 DEF AllocVethId
  <2>2. CASE ForkChild(s) BY <2>2 DEF ForkChild
  <2>3. CASE NetCheck(s) BY <2>3 DEF NetCheck
  <2>4. CASE NetPeek(s) BY <2>4 DEF NetPeek
  <2>5. CASE CreateVeth(s) BY <2>5 DEF CreateVeth
  <2>6. CASE SignalNet(s) BY <2>6 DEF SignalNet
  <2>7. CASE WakeChild(s) BY <2>7 DEF WakeChild
  <2>8. CASE RootCheck(s) BY <2>8 DEF RootCheck
  <2>9. CASE RootPeek(s) BY <2>9 DEF RootPeek
  <2>10. CASE RemoveRootEarly(s) BY <2>10 DEF RemoveRootEarly
  <2>11. CASE ReapChild(s) BY <2>11 DEF ReapChild
  <2>12. CASE Finish(s) BY <2>12 DEF Finish
  <2>13. CASE FindVeth(s) BY <2>13 DEF FindVeth, Note
  <2>14. CASE SetHostAddr(s) BY <2>14 DEF SetHostAddr, Request, Note
  <2>15. CASE SetHostUp(s) BY <2>15 DEF SetHostUp, Request, Note
  <2>16. QED
    BY <1>1, <2>1, <2>2, <2>3, <2>4, <2>5, <2>6, <2>7, <2>8, <2>9, <2>10,
       <2>11, <2>12, <2>13, <2>14, <2>15 DEF ParentStep
<1>2. ASSUME NEW s \in Sessions, ChildStep(s) PROVE Owns'
  BY <1>2 DEF ChildStep, Unshare, SetOne, TestTwo, FutexWait, ConfigNet, MountAll, RootReady
<1>3. ASSUME NEW s \in Sessions, ChildDies(s) \/ InitReap(s) \/ ParentCrash(s) PROVE Owns'
  BY <1>3 DEF ChildDies, InitReap, ParentCrash
<1>4. ASSUME NEW n \in Ids, LinkGone(n) PROVE Owns'
  BY <1>4 DEF LinkGone
<1>5. CASE AllOver \/ UNCHANGED vars
  BY <1>5 DEF AllOver, vars
<1>6. QED
  BY <1>1, <1>2, <1>3, <1>4, <1>5 DEF Next

\* Every step keeps the host ends: a parent goes from the creation to the
\* signal by doing its share or by noting why not, and nobody else takes
\* anything from a host end before the link itself goes.
LEMMA HostStep ==
  TypeOK /\ ParentKnows /\ HostInv /\ [Next]_vars => HostEnds'
<1> SUFFICES ASSUME TypeOK, ParentKnows, HostInv, [Next]_vars PROVE HostEnds'
  OBVIOUS
<1> USE SessionAssumption DEF netvars, TypeOK, ParentKnows, HostInv, Owns, HostEnds, Excused,
      PGoto, CGoto
<1>1. ASSUME NEW s \in Sessions, ParentStep(s) PROVE HostEnds'
  <2>1. CASE AllocVethId(s) BY <2>1 DEF AllocVethId
  <2>2. CASE ForkChild(s) BY <2>2 DEF ForkChild
  <2>3. CASE NetCheck(s) BY <2>3 DEF NetCheck
  <2>4. CASE NetPeek(s) BY <2>4 DEF NetPeek
  <2>5. CASE CreateVeth(s) BY <2>5 DEF CreateVeth
  <2>6. CASE SignalNet(s) BY <2>6 DEF SignalNet
  <2>7. CASE WakeChild(s) BY <2>7 DEF WakeChild
  <2>8. CASE RootCheck(s) BY <2>8 DEF RootCheck
  <2>9. CASE RootPeek(s) BY <2>9 DEF RootPeek
  <2>10. CASE RemoveRootEarly(s) BY <2>10 DEF RemoveRootEarly
  <2>11. CASE ReapChild(s) BY <2>11 DEF ReapChild
  <2>12. CASE Finish(s) BY <2>12 DEF Finish
  <2>13. CASE FindVeth(s)
    <3>1. link[netid[s]] = s => ~(\E V \in Scans : netid[s] \notin V) \/ ScanMax <= MaxId
      BY MissedIsCut
    <3>2. QED
      BY <2>13, <3>1 DEF FindVeth, Note
  <2>14. CASE SetHostAddr(s) BY <2>14 DEF SetHostAddr, Request, Note
  <2>15. CASE SetHostUp(s) BY <2>15 DEF SetHostUp, Request, Note
  <2>16. QED
    BY <1>1, <2>1, <2>2, <2>3, <2>4, <2>5, <2>6, <2>7, <2>8, <2>9, <2>10,
       <2>11, <2>12, <2>13, <2>14, <2>15 DEF ParentStep
<1>2. ASSUME NEW s \in Sessions, ChildStep(s) PROVE HostEnds'
  BY <1>2 DEF ChildStep, Unshare, SetOne, TestTwo, FutexWait, ConfigNet, MountAll, RootReady
<1>3. ASSUME NEW s \in Sessions, ChildDies(s) \/ InitReap(s) \/ ParentCrash(s) PROVE HostEnds'
  BY <1>3 DEF ChildDies, InitReap, ParentCrash
<1>4. ASSUME NEW n \in Ids, LinkGone(n) PROVE HostEnds'
  BY <1>4 DEF LinkGone
<1>5. CASE AllOver \/ UNCHANGED vars
  BY <1>5 DEF AllOver, vars
<1>6. QED
  BY <1>1, <1>2, <1>3, <1>4, <1>5 DEF Next

\* Every live container that was told its address has a host end that is
\* configured, unless a call of its parent failed or more links exist than a
\* dump can show: in particular the names of dead sessions' links, taken up
\* again by others, never lead a parent to configure anything but its own.
THEOREM HostAnswers == Spec => []HostEndConfigured
<1>1. Init => ShakeInv /\ LinkInv /\ HostInv
  BY SessionAssumption DEF Init, ShakeInv, TypeOK, ParentSteps, ChildSteps, Ids,
     ParentKnows, ChildKnows, NetHandshake, RootLifetime, Dead, LinkInv, OwnLink,
     LinkAfterUnshare, Configured, HostInv, Owns, HostEnds, Excused
<1>2. ShakeInv /\ LinkInv /\ HostInv /\ [Next]_vars => (ShakeInv /\ LinkInv /\ HostInv)'
  BY TypeStep, ShakeStep, LinkStep, OwnsStep, HostStep DEF ShakeInv, HostInv
<1>3. ShakeInv /\ LinkInv /\ HostInv => HostEndConfigured
  BY SessionAssumption DEF ShakeInv, NetHandshake, LinkInv, OwnLink, HostInv, HostEnds, Excused,
     HostEndConfigured, Configured
<1>4. QED BY <1>1, <1>2, <1>3, PTL DEF Spec
=============================================================================
