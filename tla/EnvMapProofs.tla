---------------------------- MODULE EnvMapProofs ----------------------------
(***************************************************************************)
(* Proofs about the table of env_map, for every hash function, set of keys *)
(* and initial size: no probing loop runs for ever as long as growing      *)
(* works, and the table implements the dictionary of EnvDict, through      *)
(* collisions, growth and failed growth.                                   *)
(***************************************************************************)
EXTENDS EnvMap, FiniteSetTheorems, TLAPS

\* The slots of m that map_rehash has copied so far.
Copied == {i \in Used(m) : i < next}

\* A call in progress has its arguments and a table to work on.
InCall ==
  /\ pc \in {"check", "grow", "copy", "store"} => call \in Calls
  /\ pc \in {"grow", "copy", "store"} => m.cap > 0
  /\ pc = "new" => m = NoTable /\ len = 0
  /\ pc # "copy" => next = 0

\* len counts the used slots of m; while m is rehashed, n has as many used
\* slots as have been copied and is larger.
Counted ==
  /\ Cardinality(Used(m)) = len
  /\ pc = "copy" => /\ n.cap > m.cap
                    /\ Cardinality(Used(n)) = Cardinality(Copied)

\* The room that the 7/10 test guarantees: one slot stays free even after
\* the entry that is about to be stored.
Room ==
  memory = "enough" =>
    /\ m.cap > 0 => len < m.cap
    /\ pc = "store" => len + 1 < m.cap

MapInv == TypeOK /\ InCall /\ Counted /\ Room

\* A probe for the key of a used slot stops at this slot and no earlier.
Chained(t) == \A i \in Used(t) : i \in MapLookup(t, t.key[i])

\* The table being filled holds the entries copied so far and no others.
Rehashed ==
  pc = "copy" =>
    /\ Chained(n)
    /\ \A j \in Copied : \E i \in Used(n) : n.key[i] = m.key[j] /\ n.val[i] = m.val[j]
    /\ \A i \in Used(n) : \E j \in Copied : n.key[i] = m.key[j]

\* A call gets as far as the growth only if it is going to store, and is back
\* at "idle" only if there is nothing to store.
Decided ==
  /\ pc = "new" => call = Absent
  /\ pc = "check" => call.op = "ensure" /\ call.v # Empty
  /\ pc \in {"grow", "copy", "store"} =>
       call.op = "put" \/ (call.v # Empty /\ Get(m, call.k) = Absent)
  /\ pc = "idle" /\ call # Absent =>
       \/ m.cap = 0
       \/ call.op = "ensure" /\ (call.v = Empty \/ Get(m, call.k) # Absent)

DictInv == Chained(m) /\ Rehashed /\ Decided

-----------------------------------------------------------------------------
\* The used slots of a table are a finite set.
LEMMA UsedFinite == ASSUME NEW t, IsTable(t) PROVE IsFiniteSet(Used(t))
<1>1. IsFiniteSet(0 .. t.cap - 1)
  BY FS_Interval DEF IsTable
<1>2. QED BY <1>1, FS_Subset DEF Used

\* A fresh table has no used slot.
LEMMA NewTableEmpty ==
  ASSUME NEW c \in Nat
  PROVE  /\ IsTable(NewTable(c)) /\ NewTable(c).cap = c
         /\ Used(NewTable(c)) = {} /\ Cardinality(Used(NewTable(c))) = 0
<1>1. IsTable(NewTable(c)) /\ NewTable(c).cap = c /\ Used(NewTable(c)) = {}
  BY DEF IsTable, NewTable, Used
<1>2. QED BY <1>1, FS_EmptySet

\* Filling a slot keeps the table, and adds it to the used ones.
LEMMA FillUsed ==
  ASSUME NEW t, IsTable(t), NEW i \in 0 .. t.cap - 1, NEW k \in Keys, NEW v \in Vals \cup {Absent}
  PROVE  /\ IsTable(Fill(t, i, k, v))
         /\ Fill(t, i, k, v).cap = t.cap
         /\ Used(Fill(t, i, k, v)) = Used(t) \cup {i}
         /\ Cardinality(Used(Fill(t, i, k, v))) =
              IF t.key[i] = Absent THEN Cardinality(Used(t)) + 1 ELSE Cardinality(Used(t))
<1>1. IsTable(Fill(t, i, k, v)) /\ Fill(t, i, k, v).cap = t.cap
  BY DEF IsTable, Fill
<1>2. Used(Fill(t, i, k, v)) = Used(t) \cup {i}
  BY EnvMapAssumption DEF IsTable, Fill, Used
<1>3. i \in Used(t) <=> t.key[i] # Absent
  BY DEF Used
<1>4. QED BY <1>1, <1>2, <1>3, UsedFinite, FS_AddElement

\* The 7/10 mark lies below the capacity.
LEMMA Threshold == ASSUME NEW c \in Nat, c > 0 PROVE (c * 7) \div 10 < c
  OBVIOUS

\* Every step keeps the count and the room.
LEMMA MapStep == MapInv /\ [Next]_vars => MapInv'
<1> SUFFICES ASSUME MapInv, [Next]_vars PROVE MapInv'
  OBVIOUS
<1> USE EnvMapAssumption DEF MapInv, TypeOK, InCall
<1>0. 0 \in Nat /\ IsTable(NoTable) /\ NoTable.cap = 0 /\ Used(NoTable) = {}
        /\ Cardinality(Used(NoTable)) = 0
  BY NewTableEmpty DEF NoTable
<1>1. CASE EnvMapInit
  <2>1. IsTable(m') /\ Cardinality(Used(m')) = 0 /\ m'.cap \in Nat
    BY <1>0, <1>1, NewTableEmpty DEF EnvMapInit
  <2>2. m.cap = 0 /\ next = 0 /\ len = 0
    BY <1>0, <1>1 DEF EnvMapInit
  <2>3. QED BY <1>1, <2>1, <2>2 DEF EnvMapInit, Counted, Room
<1>2. ASSUME NEW k \in Keys, NEW v \in Vals, EnvMapPut(k, v) PROVE MapInv'
  <2>1. m.cap \in Nat
    BY DEF IsTable
  <2>2. QED BY <1>2, <2>1 DEF EnvMapPut, Calls, Counted, Room
<1>3. ASSUME NEW k \in Keys, NEW v \in Vals, EnvMapEnsure(k, v) PROVE MapInv'
  BY <1>3 DEF EnvMapEnsure, Calls, Counted, Room
<1>4. CASE Return
  BY <1>4 DEF Return, Counted, Room
<1>5. CASE EnsureCheck
  BY <1>5 DEF EnsureCheck, Counted, Room, IsTable
<1>6. CASE MaybeGrow
  <2>1. CASE /\ n' = NewTable(m.cap + (IF m.cap >= MinGrow THEN m.cap ELSE MinGrow))
             /\ next' = 0
             /\ pc' = "copy"
             /\ UNCHANGED memory
    <3> DEFINE g == IF m.cap >= MinGrow THEN m.cap ELSE MinGrow
    <3>0. m.cap \in Nat /\ m.cap > 0
      BY <1>6 DEF MaybeGrow, IsTable
    <3>1. g \in Nat /\ g > 0 /\ n' = NewTable(m.cap + g)
      BY <2>1, <3>0
    <3> HIDE DEF g
    <3>2. m.cap + g \in Nat
      BY <3>0, <3>1
    <3>3. IsTable(n') /\ n'.cap = m.cap + g /\ Cardinality(Used(n')) = 0
      BY <3>1, <3>2, NewTableEmpty
    <3>4. Copied' = {}
      BY <1>6, <2>1 DEF MaybeGrow, Copied, Used, IsTable
    <3>5. Cardinality(Copied') = 0
      BY <3>4, FS_EmptySet
    <3>6. QED
      BY <1>6, <2>1, <3>0, <3>1, <3>3, <3>5 DEF MaybeGrow, Counted, Room
  <2>2. CASE /\ pc' = "store"
             /\ memory' = IF len >= (m.cap * 7) \div 10 THEN "short" ELSE memory
             /\ UNCHANGED <<n, next>>
    <3>1. (m.cap * 7) \div 10 \in Nat /\ (m.cap * 7) \div 10 < m.cap
      BY <1>6, Threshold DEF MaybeGrow, IsTable
    <3>2. QED
      BY <1>6, <2>2, <3>1 DEF MaybeGrow, Counted, Room, IsTable
  <2>3. QED BY <1>6, <2>1, <2>2 DEF MaybeGrow
<1>7. CASE MapRehash
  <2>1. next \in 0 .. m.cap - 1 /\ next' \in 0 .. m.cap
    BY <1>7 DEF MapRehash, IsTable
  <2>2. CASE m.key[next] = Absent
    <3>1. n' = n
      BY <1>7, <2>2 DEF MapRehash
    <3>2. Copied' = Copied
      BY <1>7, <2>1, <2>2 DEF MapRehash, Copied, Used, IsTable
    <3>3. QED BY <1>7, <2>1, <3>1, <3>2 DEF MapRehash, Counted, Room
  <2>3. CASE m.key[next] # Absent
    <3>1. PICK i \in StopsAt(n, m.key[next], {Absent}) :
             n' = Fill(n, i, m.key[next], m.val[next])
      BY <1>7, <2>3 DEF MapRehash
    <3>2. i \in 0 .. n.cap - 1 /\ n.key[i] = Absent
      BY DEF StopsAt
    <3>3. m.key[next] \in Keys /\ m.val[next] \in Vals \cup {Absent}
      BY <2>1, <2>3 DEF IsTable
    <3>4. IsTable(n') /\ n'.cap = n.cap /\ Cardinality(Used(n')) = Cardinality(Used(n)) + 1
      BY <3>1, <3>2, <3>3, FillUsed
    <3>5. Copied' = Copied \cup {next} /\ next \notin Copied
      BY <1>7, <2>1, <2>3 DEF MapRehash, Copied, Used, IsTable
    <3>6. IsFiniteSet(Copied)
      BY UsedFinite, FS_Subset DEF Copied
    <3>7. Cardinality(Copied') = Cardinality(Copied) + 1
      BY <3>5, <3>6, FS_AddElement
    <3>8. QED BY <1>7, <2>1, <3>4, <3>7 DEF MapRehash, Counted, Room
  <2>4. QED BY <2>2, <2>3
<1>8. CASE MapSwap
  <2>1. Copied = Used(m)
    BY <1>8 DEF MapSwap, Copied, Used, IsTable
  <2>2. Cardinality(Used(m')) = len /\ m'.cap = n.cap /\ n.cap > m.cap
    BY <1>8, <2>1 DEF MapSwap, Counted
  <2>3. QED BY <1>0, <1>8, <2>2 DEF MapSwap, Counted, Room, IsTable
<1>9. CASE Store
  <2>1. ASSUME NEW i \in MapLookup(m, call.k), m' = Fill(m, i, call.k, call.v),
               len' = IF m.key[i] = call.k THEN len ELSE len + 1, pc' = "idle",
               call' = Absent
        PROVE  MapInv'
    <3>1. call.k \in Keys /\ call.v \in Vals
      BY <1>9 DEF Store, Calls
    <3>2. i \in 0 .. m.cap - 1 /\ m.key[i] \in {Absent, call.k}
      BY DEF MapLookup, StopsAt
    <3>3. /\ IsTable(m') /\ m'.cap = m.cap
          /\ Cardinality(Used(m')) =
               IF m.key[i] = Absent THEN Cardinality(Used(m)) + 1 ELSE Cardinality(Used(m))
      BY <2>1, <3>1, <3>2, FillUsed
    <3>4. len' = Cardinality(Used(m'))
      BY <2>1, <3>1, <3>2, <3>3 DEF Counted
    <3>5. QED BY <1>9, <2>1, <3>3, <3>4 DEF Store, Counted, Room, IsTable
  <2>2. CASE MapLookup(m, call.k) = {} /\ pc' = "spin" /\ UNCHANGED <<call, m, len>>
    BY <1>9, <2>2 DEF Store, Counted, Room
  <2>3. QED BY <1>9, <2>1, <2>2 DEF Store
<1>10. CASE EnvMapFree
  BY <1>0, <1>10 DEF EnvMapFree, Counted, Room
<1>11. CASE Spin
  BY <1>11 DEF Spin, vars, Counted, Room, Copied
<1>12. CASE UNCHANGED vars
  BY <1>12 DEF vars, Counted, Room, Copied
<1>13. QED
  BY <1>1, <1>2, <1>3, <1>4, <1>5, <1>6, <1>7, <1>8, <1>9, <1>10, <1>11, <1>12 DEF Next

\* There is always a free slot for a probe to stop at, as long as growing
\* works.
THEOREM RoomToProbe == Spec => []FreeSlot
<1>1. Init => MapInv
  <2>1. IsTable(NoTable) /\ NoTable.cap = 0 /\ Cardinality(Used(NoTable)) = 0
    BY NewTableEmpty DEF NoTable
  <2>2. QED BY <2>1 DEF Init, MapInv, TypeOK, InCall, Counted, Room
<1>2. MapInv => FreeSlot
  <2> SUFFICES ASSUME MapInv, memory = "enough", m.cap > 0 PROVE Used(m) # 0 .. m.cap - 1
    BY DEF FreeSlot
  <2>1. m.cap \in Nat /\ len < m.cap /\ Cardinality(Used(m)) = len
    BY DEF MapInv, TypeOK, IsTable, Counted, Room
  <2>2. Cardinality(0 .. m.cap - 1) = m.cap
    BY <2>1, FS_Interval
  <2>3. QED BY <2>1, <2>2 DEF MapInv, TypeOK
<1>3. QED BY <1>1, <1>2, MapStep, PTL DEF Spec

-----------------------------------------------------------------------------
(* Probing.                                                                *)

\* A probe stops at one slot at most.
LEMMA StopsOnce ==
  ASSUME NEW t, NEW k \in Keys, NEW stop, NEW i \in StopsAt(t, k, stop), NEW j \in StopsAt(t, k, stop)
  PROVE  i = j
<1>. DEFINE slot(d) == (Hash[k] + d) % t.cap
<1>1. PICK d \in 0 .. t.cap - 1 :
        i = slot(d) /\ t.key[i] \in stop /\ \A e \in 0 .. d - 1 : t.key[slot(e)] \notin stop
  BY DEF StopsAt
<1>2. PICK f \in 0 .. t.cap - 1 :
        j = slot(f) /\ t.key[j] \in stop /\ \A e \in 0 .. f - 1 : t.key[slot(e)] \notin stop
  BY DEF StopsAt
<1>. HIDE DEF slot
<1>3. ~(d < f) /\ ~(f < d)
  BY <1>1, <1>2
<1>4. QED
  BY <1>1, <1>2, <1>3

\* Every slot a probe looks at is one of the table.
LEMMA SlotInTable ==
  ASSUME NEW c \in Nat \ {0}, NEW h \in Nat, NEW d \in Nat
  PROVE  (h + d) % c \in 0 .. c - 1
  OBVIOUS

\* In a chained table a key is in one slot only, and a lookup finds it there.
LEMMA KeysOnce ==
  ASSUME NEW t, IsTable(t), Chained(t), NEW i \in Used(t), NEW j \in Used(t), t.key[i] = t.key[j]
  PROVE  i = j
<1>1. t.key[i] \in Keys
  BY DEF Used, IsTable
<1>2. QED
  BY <1>1, StopsOnce DEF Chained, MapLookup

LEMMA GetFinds ==
  ASSUME NEW t, IsTable(t), Chained(t), NEW i \in Used(t)
  PROVE  Get(t, t.key[i]) = t.val[i]
<1>. DEFINE k == t.key[i]
<1>1. k \in Keys /\ i \in MapLookup(t, k) /\ t.key[i] = k
  BY DEF Used, IsTable, Chained
<1>2. (CHOOSE j \in MapLookup(t, k) : t.key[j] = k) = i
  <2>1. \A j \in MapLookup(t, k) : j = i
    BY <1>1, StopsOnce DEF MapLookup
  <2>2. QED
    BY <1>1, <2>1
<1>3. QED
  BY <1>1, <1>2 DEF Get

LEMMA GetMisses ==
  ASSUME NEW t, NEW k \in Keys, \A i \in Used(t) : t.key[i] # k
  PROVE  Get(t, k) = Absent
<1>1. \A i \in MapLookup(t, k) : t.key[i] # k
  BY EnvMapAssumption DEF MapLookup, StopsAt, Used
<1>2. QED
  BY <1>1 DEF Get

\* What a table holds decides what Get returns.
LEMMA GetSame ==
  ASSUME NEW t, NEW u, IsTable(t), IsTable(u), Chained(t), Chained(u),
         \A j \in Used(t) : \E i \in Used(u) : u.key[i] = t.key[j] /\ u.val[i] = t.val[j],
         \A i \in Used(u) : \E j \in Used(t) : u.key[i] = t.key[j],
         NEW k \in Keys
  PROVE  Get(u, k) = Get(t, k)
<1>1. ASSUME NEW j \in Used(t), t.key[j] = k PROVE Get(u, k) = Get(t, k)
  <2>1. PICK i \in Used(u) : u.key[i] = t.key[j] /\ u.val[i] = t.val[j]
    OBVIOUS
  <2>2. Get(u, u.key[i]) = u.val[i] /\ Get(t, t.key[j]) = t.val[j]
    BY GetFinds
  <2>3. QED
    BY <1>1, <2>1, <2>2
<1>2. CASE \A j \in Used(t) : t.key[j] # k
  <2>1. \A i \in Used(u) : u.key[i] # k
    BY <1>2
  <2>2. QED
    BY <1>2, <2>1, GetMisses
<1>3. QED
  BY <1>1, <1>2

-----------------------------------------------------------------------------
(* Filling a slot.                                                         *)

\* The slot where the lookup of k stops may be given to k: the chains of the
\* other keys do not pass it, or pass it as before.
LEMMA FillChained ==
  ASSUME NEW t, IsTable(t), Chained(t), NEW k \in Keys, NEW v \in Vals \cup {Absent},
         NEW i \in MapLookup(t, k)
  PROVE  Chained(Fill(t, i, k, v))
<1>. DEFINE u == Fill(t, i, k, v)
<1>1. /\ i \in 0 .. t.cap - 1 /\ t.key[i] \in {Absent, k} /\ t.cap \in Nat \ {0}
      /\ u.cap = t.cap /\ u.key = [t.key EXCEPT ![i] = k] /\ u.key[i] = k
      /\ \A s \in 0 .. t.cap - 1 : s # i => u.key[s] = t.key[s]
      /\ Used(u) = Used(t) \cup {i}
  <2>1. i \in 0 .. t.cap - 1 /\ t.key[i] \in {Absent, k} /\ t.cap \in Nat \ {0}
    BY DEF MapLookup, StopsAt, IsTable
  <2>2. Used(u) = Used(t) \cup {i}
    BY <2>1, FillUsed
  <2>3. u.cap = t.cap /\ u.key = [t.key EXCEPT ![i] = k]
    BY DEF Fill
  <2>4. u.key[i] = k /\ \A s \in 0 .. t.cap - 1 : s # i => u.key[s] = t.key[s]
    BY <2>1, <2>3 DEF IsTable
  <2>5. QED
    BY <2>1, <2>2, <2>3, <2>4
<1>2. ASSUME NEW j \in 0 .. t.cap - 1, NEW l \in Keys, u.key[j] = l,
             j \in MapLookup(t, l),
             i # j => l # k
      PROVE  j \in MapLookup(u, l)
  <2>. DEFINE slot(d) == (Hash[l] + d) % t.cap
  <2>1. PICK d \in 0 .. t.cap - 1 :
          j = slot(d) /\ \A e \in 0 .. d - 1 : t.key[slot(e)] \notin {Absent, l}
    <3>1. j \in StopsAt(t, l, {Absent, l})
      BY <1>2 DEF MapLookup
    <3>2. QED
      BY <3>1 DEF StopsAt
  <2>2. ASSUME NEW e \in 0 .. d - 1 PROVE slot(e) \in 0 .. t.cap - 1
    <3>1. Hash[l] \in Nat /\ e \in Nat
      BY EnvMapAssumption
    <3>2. QED
      BY <1>1, <3>1, SlotInTable
  <2>. HIDE DEF slot
  <2>3. ASSUME NEW e \in 0 .. d - 1 PROVE u.key[slot(e)] \notin {Absent, l}
    <3>1. CASE slot(e) # i
      BY <1>1, <2>1, <2>2, <3>1
    <3>2. CASE slot(e) = i
      <4>1. t.key[i] = k /\ l # k
        BY <1>1, <1>2, <2>1, <3>2
      <4>2. QED
        BY <1>1, <3>2, <4>1, EnvMapAssumption
    <3>3. QED
      BY <3>1, <3>2
  <2>4. QED
    BY <1>1, <1>2, <2>1, <2>3 DEF MapLookup, StopsAt, slot
<1>3. SUFFICES ASSUME NEW j \in Used(u) PROVE j \in MapLookup(u, u.key[j])
  BY DEF Chained
<1>4. CASE j = i
  BY <1>1, <1>2, <1>4
<1>5. CASE j # i
  <2>1. j \in Used(t) /\ u.key[j] = t.key[j] /\ t.key[j] \in Keys /\ j \in MapLookup(t, t.key[j])
    BY <1>1, <1>5 DEF Chained, Used, IsTable
  <2>2. t.key[j] # k
    <3>1. SUFFICES ASSUME t.key[j] = k PROVE FALSE
      OBVIOUS
    <3>2. i = j
      BY <2>1, <3>1, StopsOnce DEF MapLookup
    <3>3. QED
      BY <1>5, <3>2
  <2>3. QED
    BY <1>2, <1>5, <2>1, <2>2 DEF Used
<1>6. QED
  BY <1>4, <1>5

\* Afterwards k has the value v and the others what they had.
LEMMA FillGet ==
  ASSUME NEW t, IsTable(t), Chained(t), NEW k \in Keys, NEW v \in Vals \cup {Absent},
         NEW i \in MapLookup(t, k), NEW l \in Keys
  PROVE  Get(Fill(t, i, k, v), l) = IF l = k THEN v ELSE Get(t, l)
<1>. DEFINE u == Fill(t, i, k, v)
<1>1. /\ i \in 0 .. t.cap - 1 /\ t.key[i] \in {Absent, k}
      /\ u.key[i] = k /\ u.val[i] = v /\ i \in Used(u)
      /\ \A s \in 0 .. t.cap - 1 : s # i => u.key[s] = t.key[s] /\ u.val[s] = t.val[s]
      /\ Used(u) = Used(t) \cup {i}
      /\ IsTable(u) /\ Chained(u)
  <2>1. i \in 0 .. t.cap - 1 /\ t.key[i] \in {Absent, k}
    BY DEF MapLookup, StopsAt
  <2>2. Used(u) = Used(t) \cup {i} /\ IsTable(u)
    BY <2>1, FillUsed
  <2>3. u.key[i] = k /\ u.val[i] = v
    BY <2>1 DEF Fill, IsTable
  <2>4. \A s \in 0 .. t.cap - 1 : s # i => u.key[s] = t.key[s] /\ u.val[s] = t.val[s]
    BY <2>1 DEF Fill, IsTable
  <2>5. QED
    BY <2>1, <2>2, <2>3, <2>4, FillChained
<1>. HIDE DEF u
<1>2. CASE l = k
  <2>1. Get(u, u.key[i]) = u.val[i]
    BY <1>1, GetFinds
  <2>2. QED
    BY <1>1, <1>2, <2>1 DEF u
<1>3. CASE l # k
  <2>1. ASSUME NEW j \in Used(t), t.key[j] = l PROVE Get(u, l) = Get(t, l)
    <3>1. j # i /\ j \in Used(u) /\ u.key[j] = l /\ u.val[j] = t.val[j]
      BY <1>1, <1>3, <2>1, EnvMapAssumption DEF Used
    <3>2. Get(u, u.key[j]) = u.val[j] /\ Get(t, t.key[j]) = t.val[j]
      BY <1>1, <3>1, GetFinds
    <3>3. QED
      BY <2>1, <3>1, <3>2
  <2>2. CASE \A j \in Used(t) : t.key[j] # l
    <3>1. \A j \in Used(u) : u.key[j] # l
      BY <1>1, <1>3, <2>2 DEF Used
    <3>2. Get(u, l) = Absent
      BY <3>1, GetMisses
    <3>3. Get(t, l) = Absent
      BY <2>2, GetMisses
    <3>4. QED
      BY <1>3, <3>2, <3>3 DEF u
  <2>3. QED
    BY <1>3, <2>1, <2>2 DEF u
<1>4. QED
  BY <1>2, <1>3

-----------------------------------------------------------------------------
(* The refinement of EnvDict.                                              *)

\* A table without entries is chained and is the empty dictionary.
LEMMA EmptyTable ==
  ASSUME NEW t, Used(t) = {}
  PROVE  Chained(t) /\ \A k \in Keys : Get(t, k) = Absent
  BY GetMisses DEF Chained

\* Copying one entry: the key is not in n yet, because it is in m only once.
LEMMA CopyKept ==
  ASSUME MapInv, DictInv, MapRehash
  PROVE  Rehashed'
<1>. USE DEF MapInv, TypeOK
<1>1. /\ pc = "copy" /\ next < m.cap /\ next' = next + 1 /\ m' = m /\ next \in 0 .. m.cap - 1
      /\ Used(m') = Used(m)
  BY DEF MapRehash, IsTable, InCall
<1>2. /\ Chained(n)
      /\ \A j \in Copied : \E i \in Used(n) : n.key[i] = m.key[j] /\ n.val[i] = m.val[j]
      /\ \A i \in Used(n) : \E j \in Copied : n.key[i] = m.key[j]
  BY <1>1 DEF DictInv, Rehashed
<1>3. CASE m.key[next] = Absent
  <2>1. n' = n
    BY <1>3 DEF MapRehash
  <2>2. Copied' = Copied
    BY <1>1, <1>3 DEF Copied, Used, IsTable
  <2>3. QED
    BY <1>1, <1>2, <2>1, <2>2 DEF Rehashed
<1>4. CASE m.key[next] # Absent
  <2>. DEFINE k == m.key[next]
              v == m.val[next]
  <2>1. PICK i \in StopsAt(n, k, {Absent}) : n' = Fill(n, i, k, v)
    BY <1>4 DEF MapRehash
  <2>2. /\ i \in 0 .. n.cap - 1 /\ n.key[i] = Absent /\ next \in Used(m)
        /\ k \in Keys /\ v \in Vals \cup {Absent}
    BY <1>1, <1>4 DEF StopsAt, IsTable, Used
  <2>3. Copied' = Copied \cup {next}
    BY <1>1, <1>4 DEF Copied, Used, IsTable
  <2>4. \A j \in Used(n) : n.key[j] # k
    <3>1. SUFFICES ASSUME NEW j \in Used(n), n.key[j] = k PROVE FALSE
      OBVIOUS
    <3>2. PICK c \in Copied : m.key[c] = k
      BY <1>2, <3>1
    <3>3. c \in Used(m) /\ c # next
      BY <1>1 DEF Copied, Used, IsTable
    <3>4. QED
      BY <2>2, <3>2, <3>3, KeysOnce DEF DictInv
  <2>5. i \in MapLookup(n, k)
    <3>. DEFINE slot(d) == (Hash[k] + d) % n.cap
    <3>1. PICK d \in 0 .. n.cap - 1 :
            i = slot(d) /\ \A e \in 0 .. d - 1 : n.key[slot(e)] \notin {Absent}
      BY <2>1 DEF StopsAt
    <3>2. ASSUME NEW e \in 0 .. d - 1 PROVE slot(e) \in 0 .. n.cap - 1
      <4>1. Hash[k] \in Nat /\ e \in Nat /\ n.cap \in Nat \ {0}
        BY <2>2, EnvMapAssumption DEF IsTable
      <4>2. QED
        BY <4>1, SlotInTable
    <3>. HIDE DEF slot
    <3>3. \A e \in 0 .. d - 1 : n.key[slot(e)] \notin {Absent, k}
      BY <2>4, <3>1, <3>2 DEF Used
    <3>4. QED
      BY <2>2, <3>1, <3>3 DEF MapLookup, StopsAt, slot
  <2>6. /\ Chained(n') /\ Used(n') = Used(n) \cup {i} /\ i \notin Used(n)
    <3>1. Chained(n')
      BY <1>2, <2>1, <2>2, <2>5, FillChained
    <3>2. Used(n') = Used(n) \cup {i}
      BY <2>1, <2>2, FillUsed
    <3>3. QED
      BY <2>2, <3>1, <3>2 DEF Used
  <2>7. /\ n'.key[i] = k /\ n'.val[i] = v
        /\ \A j \in Used(n) : n'.key[j] = n.key[j] /\ n'.val[j] = n.val[j]
    BY <2>1, <2>2, <2>6 DEF Fill, IsTable, Used
  <2>8. \A j \in Copied' : \E h \in Used(n') : n'.key[h] = m.key[j] /\ n'.val[h] = m.val[j]
    <3>1. TAKE j \in Copied'
    <3>2. CASE j = next
      BY <2>6, <2>7, <3>2
    <3>3. CASE j \in Copied
      BY <1>2, <2>6, <2>7, <3>3
    <3>4. QED
      BY <2>3, <3>2, <3>3
  <2>9. \A h \in Used(n') : \E j \in Copied' : n'.key[h] = m.key[j]
    <3>1. TAKE h \in Used(n')
    <3>2. CASE h = i
      BY <2>3, <2>7, <3>2
    <3>3. CASE h \in Used(n)
      BY <1>2, <2>3, <2>7, <3>3
    <3>4. QED
      BY <2>6, <3>2, <3>3
  <2>10. QED
    BY <1>1, <2>6, <2>8, <2>9 DEF Rehashed
<1>5. QED
  BY <1>3, <1>4

\* The table that replaces m at the end of map_resize says the same.
LEMMA SwapSame ==
  ASSUME MapInv, DictInv, MapSwap
  PROVE  Chained(m') /\ \A k \in Keys : Get(m', k) = Get(m, k)
<1>1. m' = n /\ pc = "copy" /\ IsTable(m) /\ IsTable(n) /\ Chained(m)
  BY DEF MapSwap, MapInv, TypeOK, DictInv
<1>2. Copied = Used(m)
  BY DEF MapSwap, MapInv, TypeOK, Copied, Used, IsTable
<1>3. /\ Chained(n)
      /\ \A j \in Used(m) : \E i \in Used(n) : n.key[i] = m.key[j] /\ n.val[i] = m.val[j]
      /\ \A i \in Used(n) : \E j \in Used(m) : n.key[i] = m.key[j]
  BY <1>1, <1>2 DEF DictInv, Rehashed
<1>4. QED
  BY <1>1, <1>3, GetSame

\* The abstract dictionary does not change when no look-up does.
LEMMA DictSame ==
  ASSUME \A k \in Keys : Get(m', k) = Get(m, k)
  PROVE  [k \in Keys |-> Get(m, k)]' = [k \in Keys |-> Get(m, k)]
  OBVIOUS

\* Every step keeps DictInv and is a step of the dictionary or changes nothing
\* a caller can see.
LEMMA DictStep ==
  ASSUME MapInv, DictInv, [Next]_vars
  PROVE  DictInv' /\ [Dict!DNext]_(Dict!dvars)
<1>. USE EnvMapAssumption DEF MapInv, TypeOK, InCall
<1>. DEFINE D == [k \in Keys |-> Get(m, k)]
            Step == [Dict!DNext]_(Dict!dvars)
<1>0. ASSUME UNCHANGED <<m, call>> PROVE Step
  BY <1>0 DEF Dict!dvars
<1>1. ASSUME UNCHANGED <<m, n, next>>, pc' # "copy" \/ pc = "copy"
      PROVE  Chained(m)' /\ Rehashed'
  BY <1>1 DEF DictInv, Rehashed, Chained, Copied
<1>2. CASE EnvMapInit
  <2>1. Used(m) = {} /\ Used(m') = {} /\ pc' = "idle" /\ call = Absent /\ call' = call
    BY <1>2, NewTableEmpty DEF EnvMapInit, NoTable, DictInv, Decided
  <2>2. D = Dict!Nothing /\ D' = Dict!Nothing /\ Chained(m')
    BY <2>1, EmptyTable DEF Dict!Nothing
  <2>3. Dict!DCreate \/ UNCHANGED Dict!dvars
    <3>1. m.cap = 0 /\ (m'.cap = 0 \/ m'.cap > 0)
      BY <1>2, NewTableEmpty DEF EnvMapInit, NoTable, IsTable, NewTable
    <3>2. QED
      BY <2>1, <2>2, <3>1 DEF Dict!DCreate, Dict!dvars
  <2>4. DictInv'
    BY <1>2, <2>1, <2>2 DEF DictInv, Rehashed, Decided
  <2>5. QED
    BY <2>3, <2>4 DEF Dict!DNext
<1>3. ASSUME NEW k \in Keys, NEW v \in Vals, EnvMapPut(k, v) PROVE DictInv' /\ Step
  <2>1. DictInv'
    BY <1>1, <1>3 DEF EnvMapPut, DictInv, Decided
  <2>2. Dict!DCall
    BY <1>3 DEF EnvMapPut, Dict!DCall, Dict!Calls
  <2>3. QED
    BY <2>1, <2>2 DEF Dict!DNext
<1>4. ASSUME NEW k \in Keys, NEW v \in Vals, EnvMapEnsure(k, v) PROVE DictInv' /\ Step
  <2>1. DictInv'
    BY <1>1, <1>4 DEF EnvMapEnsure, DictInv, Decided
  <2>2. Dict!DCall
    BY <1>4 DEF EnvMapEnsure, Dict!DCall, Dict!Calls
  <2>3. QED
    BY <2>1, <2>2 DEF Dict!DNext
<1>5. CASE Return
  <2>1. DictInv'
    BY <1>1, <1>5 DEF Return, DictInv, Decided
  <2>2. Dict!DReturn
    <3>1. call.k \in Keys /\ call.op \in {"put", "ensure"} /\ call # Absent
      BY <1>5 DEF Return, Calls
    <3>2. ~(m.cap > 0 /\ (call.op = "put" \/ (D[call.k] = Absent /\ call.v # Empty)))
      BY <1>5, <3>1 DEF Return, DictInv, Decided
    <3>3. QED
      BY <1>5, <3>1, <3>2 DEF Return, Dict!DReturn
  <2>3. QED
    BY <2>1, <2>2 DEF Dict!DNext
<1>6. CASE EnsureCheck
  <2>1. call \in Calls /\ m.cap \in Nat
    BY <1>6 DEF EnsureCheck, IsTable
  <2>2. DictInv'
    BY <1>1, <1>6, <2>1 DEF EnsureCheck, DictInv, Decided
  <2>3. QED
    BY <1>0, <1>6, <2>2 DEF EnsureCheck
<1>7. CASE MaybeGrow
  <2>1. m' = m /\ call' = call /\ Decided'
    BY <1>7 DEF MaybeGrow, DictInv, Decided
  <2>2. Rehashed'
    <3>1. CASE pc' = "copy"
      <4>1. next' = 0 /\ m.cap \in Nat
            /\ n' = NewTable(m.cap + (IF m.cap >= MinGrow THEN m.cap ELSE MinGrow))
        BY <1>7, <3>1 DEF MaybeGrow, IsTable
      <4>2. Used(n') = {}
        BY <4>1, NewTableEmpty
      <4>3. Copied' = {}
        BY <2>1, <4>1 DEF Copied, Used
      <4>4. QED
        BY <4>2, <4>3, EmptyTable DEF Rehashed
    <3>2. CASE pc' # "copy"
      BY <3>2 DEF Rehashed
    <3>3. QED
      BY <3>1, <3>2
  <2>3. QED
    BY <1>0, <2>1, <2>2 DEF DictInv, Chained
<1>8. CASE MapRehash
  <2>1. m' = m /\ call' = call /\ pc' = pc
    BY <1>8 DEF MapRehash
  <2>2. Rehashed'
    BY <1>8, CopyKept
  <2>3. DictInv'
    BY <2>1, <2>2 DEF DictInv, Decided, Chained
  <2>4. QED
    BY <1>0, <2>1, <2>3
<1>9. CASE MapSwap
  <2>1. Chained(m') /\ \A k \in Keys : Get(m', k) = Get(m, k)
    BY <1>9, SwapSame
  <2>2. call' = call /\ pc = "copy" /\ pc' = "store" /\ call \in Calls /\ m' = n
    BY <1>9 DEF MapSwap
  <2>3. m.cap > 0 /\ m'.cap > 0
    BY <2>2 DEF Counted, IsTable
  <2>4. DictInv'
    BY <2>1, <2>2 DEF DictInv, Rehashed, Decided, Calls
  <2>5. D' = D
    BY <2>1
  <2>6. UNCHANGED Dict!dvars
    BY <2>2, <2>3, <2>5 DEF Dict!dvars
  <2>7. QED
    BY <2>4, <2>6
<1>10. CASE Store
  <2>1. CASE MapLookup(m, call.k) = {} /\ pc' = "spin" /\ UNCHANGED <<call, m, len>>
    <3>1. DictInv'
      BY <1>1, <1>10, <2>1 DEF Store, DictInv, Decided
    <3>2. QED
      BY <1>0, <2>1, <3>1
  <2>2. ASSUME NEW i \in MapLookup(m, call.k), m' = Fill(m, i, call.k, call.v),
               pc' = "idle", call' = Absent
        PROVE  DictInv' /\ Step
    <3>1. /\ call \in Calls /\ call.k \in Keys /\ call.v \in Vals /\ call # Absent /\ m.cap > 0
          /\ call.op = "put" \/ (call.v # Empty /\ Get(m, call.k) = Absent)
      <4>1. pc = "store" /\ call \in Calls /\ m.cap > 0
        BY <1>10 DEF Store
      <4>2. call.k \in Keys /\ call.v \in Vals /\ call # Absent
        BY <4>1 DEF Calls
      <4>3. QED
        BY <4>1, <4>2 DEF DictInv, Decided
    <3>2. Chained(m')
      BY <2>2, <3>1, FillChained DEF DictInv
    <3>3. DictInv'
      BY <2>2, <3>2 DEF DictInv, Rehashed, Decided
    <3>4. \A l \in Keys : Get(m', l) = IF l = call.k THEN call.v ELSE Get(m, l)
      BY <2>2, <3>1, FillGet DEF DictInv
    <3>5. D' = [D EXCEPT ![call.k] = call.v]
      BY <3>1, <3>4
    <3>6. m'.cap > 0
      BY <2>2, <3>1 DEF Fill
    <3>7. D[call.k] = Get(m, call.k)
      BY <3>1
    <3>8. Dict!DReturn
      BY <2>2, <3>1, <3>5, <3>6, <3>7 DEF Dict!DReturn
    <3>9. QED
      BY <3>3, <3>8 DEF Dict!DNext
  <2>3. QED
    BY <1>10, <2>1, <2>2 DEF Store
<1>11. CASE EnvMapFree
  <2>1. Used(m') = {} /\ m'.cap = 0 /\ call = Absent /\ call' = Absent /\ pc = "idle" /\ pc' = "idle"
    BY <1>11, NewTableEmpty DEF EnvMapFree, NoTable
  <2>2. D' = Dict!Nothing /\ Chained(m')
    BY <2>1, EmptyTable DEF Dict!Nothing
  <2>3. DictInv'
    BY <2>1, <2>2 DEF DictInv, Rehashed, Decided
  <2>4. Dict!DFree
    BY <2>1, <2>2 DEF Dict!DFree
  <2>5. QED
    BY <2>3, <2>4 DEF Dict!DNext
<1>12. CASE Spin \/ UNCHANGED vars
  <2>1. UNCHANGED vars
    BY <1>12 DEF Spin
  <2>2. DictInv'
    BY <1>1, <2>1 DEF vars, DictInv, Decided
  <2>3. QED
    BY <1>0, <2>1, <2>2 DEF vars
<1>13. QED
  BY <1>2, <1>3, <1>4, <1>5, <1>6, <1>7, <1>8, <1>9, <1>10, <1>11, <1>12 DEF Next

-----------------------------------------------------------------------------
(* The theorems about the dictionary.                                      *)

LEMMA InitMapInv == Init => MapInv /\ DictInv
<1>1. IsTable(NoTable) /\ NoTable.cap = 0 /\ Cardinality(Used(NoTable)) = 0 /\ Used(NoTable) = {}
  BY NewTableEmpty DEF NoTable
<1>2. Init => MapInv
  BY <1>1 DEF Init, MapInv, TypeOK, InCall, Counted, Room
<1>3. Init => DictInv
  BY <1>1, EmptyTable DEF Init, DictInv, Rehashed, Decided
<1>4. QED
  BY <1>2, <1>3

LEMMA Invariant == Spec => [](MapInv /\ DictInv)
<1>1. MapInv /\ DictInv /\ [Next]_vars => (MapInv /\ DictInv)'
  BY MapStep, DictStep
<1>2. QED
  BY <1>1, InitMapInv, PTL DEF Spec

\* Type correctness: the tables keep their shape through every growth, the
\* slot that map_rehash copies next is one of m or the end.
THEOREM TypeCorrect == Spec => []TypeOK
<1>1. MapInv => TypeOK
  BY DEF MapInv
<1>2. QED
  BY <1>1, Invariant, PTL

\* env_map_build's len + 1 pointers are enough, and no variable is listed
\* twice, whatever collides and however often the table grows or fails to.
THEOREM BuildIsExact == Spec => []BuildFits
<1>1. MapInv /\ DictInv => BuildFits
  BY KeysOnce DEF MapInv, TypeOK, DictInv, Counted, BuildFits
<1>2. QED
  BY <1>1, Invariant, PTL

\* The hash table implements the dictionary: step by step, what env_map_get
\* returns is what the puts and ensures have left.
THEOREM Refines == Spec => ImplementsDict
<1>1. Init => Dict!DInit
  <2>1. NoTable.cap = 0 /\ Used(NoTable) = {}
    BY NewTableEmpty DEF NoTable
  <2>2. QED
    BY <2>1, EmptyTable DEF Init, Dict!DInit, Dict!Nothing
<1>2. MapInv /\ DictInv /\ [Next]_vars => [Dict!DNext]_(Dict!dvars)
  BY DictStep
<1>3. QED
  BY <1>1, <1>2, Invariant, PTL DEF Spec, ImplementsDict, Dict!DSpec
=============================================================================
