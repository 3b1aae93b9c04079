------------------------------- MODULE EnvMap -------------------------------
(***************************************************************************)
(* util/env_map.c: the environment of the container as a hash table with   *)
(* linear probing that grows before it is 7/10 full.  A growth that cannot *)
(* allocate is ignored, so the table may fill up; then the probing loop    *)
(* finds no place to stop.  Rehashing is one step per slot of the old      *)
(* table, the other loops are the slot they stop at.                       *)
(***************************************************************************)
EXTENDS Naturals, FiniteSets

CONSTANTS
  Keys,     \* names of environment variables
  Vals,     \* values
  Empty,    \* the empty string, one of Vals
  Absent,   \* NULL: no key in a slot, no value, no call
  Hash,     \* fnv1a
  InitCap,  \* MAP_INIT_CAP: 16
  MinGrow   \* the least growth: 64

Calls == [op : {"put", "ensure"}, k : Keys, v : Vals]

ASSUME EnvMapAssumption ==
  /\ IsFiniteSet(Keys)
  /\ Empty \in Vals
  /\ Absent \notin Keys \cup Vals \cup Calls
  /\ Hash \in [Keys -> Nat]
  /\ InitCap \in Nat \ {0}
  /\ MinGrow \in Nat \ {0}

VARIABLES
  pc,     \* the step of the call in progress
  call,   \* the call in progress, or Absent
  m,      \* the table: capacity, and the key and value of each slot
  len,    \* m->len
  n,      \* the table that map_resize fills
  next,   \* the slot of m it copies next
  memory  \* "short" once a growth has failed (history: not in the code)

vars == <<pc, call, m, len, n, next, memory>>

\* calloc: all slots unused.  No memory is the table of capacity 0.
NewTable(c) == [cap |-> c,
                key |-> [i \in 0 .. c - 1 |-> Absent],
                val |-> [i \in 0 .. c - 1 |-> Absent]]
NoTable == NewTable(0)

IsTable(t) ==
  /\ t.cap \in Nat
  /\ t.key \in [0 .. t.cap - 1 -> Keys \cup {Absent}]
  /\ t.val \in [0 .. t.cap - 1 -> Vals \cup {Absent}]

TypeOK ==
  /\ pc \in {"new", "idle", "check", "grow", "copy", "store", "spin"}
  /\ call \in Calls \cup {Absent}
  /\ IsTable(m) /\ IsTable(n)
  /\ len \in Nat
  /\ next \in 0 .. m.cap
  /\ memory \in {"enough", "short"}

Init ==
  /\ pc = "new"
  /\ call = Absent
  /\ m = NoTable
  /\ len = 0
  /\ n = NoTable
  /\ next = 0
  /\ memory = "enough"

\* The slot where a probe for key k stops: the first one from hash % cap on
\* whose key is in stop.  The set is empty if the loop runs for ever.
StopsAt(t, k, stop) ==
  {i \in 0 .. t.cap - 1 :
     \E d \in 0 .. t.cap - 1 :
       /\ i = (Hash[k] + d) % t.cap
       /\ t.key[i] \in stop
       /\ \A e \in 0 .. d - 1 : t.key[(Hash[k] + e) % t.cap] \notin stop}

MapLookup(t, k) == StopsAt(t, k, {Absent, k})

\* env_map_get
Get(t, k) ==
  IF \E i \in MapLookup(t, k) : t.key[i] = k
    THEN t.val[CHOOSE i \in MapLookup(t, k) : t.key[i] = k]
    ELSE Absent

\* Slot i of t gets key k and value v.
Fill(t, i, k, v) == [cap |-> t.cap,
                     key |-> [t.key EXCEPT ![i] = k],
                     val |-> [t.val EXCEPT ![i] = v]]

Used(t) == {i \in 0 .. t.cap - 1 : t.key[i] # Absent}

-----------------------------------------------------------------------------
EnvMapInit ==
  /\ pc = "new"
  /\ m' = NewTable(InitCap) \/ m' = NoTable
  /\ pc' = "idle"
  /\ UNCHANGED <<call, len, n, next, memory>>

\* A put on a map without memory returns at once.
EnvMapPut(k, v) ==
  /\ pc = "idle"
  /\ call = Absent
  /\ call' = [op |-> "put", k |-> k, v |-> v]
  /\ pc' = IF m.cap = 0 THEN "idle" ELSE "grow"
  /\ UNCHANGED <<m, len, n, next, memory>>

EnvMapEnsure(k, v) ==
  /\ pc = "idle"
  /\ call = Absent
  /\ call' = [op |-> "ensure", k |-> k, v |-> v]
  /\ pc' = IF v = Empty THEN "idle" ELSE "check"
  /\ UNCHANGED <<m, len, n, next, memory>>

\* The return of a call that has nothing to do.
Return ==
  /\ pc = "idle"
  /\ call # Absent
  /\ call' = Absent
  /\ UNCHANGED <<pc, m, len, n, next, memory>>

\* The env_map_get of env_map_ensure; a full table without the key is a loop.
EnsureCheck ==
  /\ pc = "check"
  /\ pc' = IF m.cap = 0 \/ Get(m, call.k) # Absent THEN "idle"
           ELSE IF MapLookup(m, call.k) = {} THEN "spin" ELSE "grow"
  /\ UNCHANGED <<call, m, len, n, next, memory>>

\* Mutant: the table grows only when it is full already.
MaybeGrowLate ==
  /\ pc = "grow"
  /\ IF len > m.cap
       THEN pc' = "copy" /\ n' = NewTable(m.cap + MinGrow) /\ next' = 0
       ELSE pc' = "store" /\ UNCHANGED <<n, next>>
  /\ UNCHANGED <<call, m, len, memory>>

MaybeGrow ==
  /\ pc = "grow"
  /\ \/ /\ len >= (m.cap * 7) \div 10
        /\ n' = NewTable(m.cap + (IF m.cap >= MinGrow THEN m.cap ELSE MinGrow))
        /\ next' = 0
        /\ pc' = "copy"
        /\ UNCHANGED memory
     \/ /\ pc' = "store"
        /\ memory' = IF len >= (m.cap * 7) \div 10 THEN "short" ELSE memory
        /\ UNCHANGED <<n, next>>
  /\ UNCHANGED <<call, m, len>>

\* Mutant: the entries keep their slots.
MapRehashInPlace ==
  /\ pc = "copy"
  /\ next < m.cap
  /\ n' = Fill(n, next, m.key[next], m.val[next])
  /\ next' = next + 1
  /\ UNCHANGED <<pc, call, m, len, memory>>

\* One round of the loop of map_rehash.
MapRehash ==
  /\ pc = "copy"
  /\ next < m.cap
  /\ \/ /\ m.key[next] = Absent
        /\ UNCHANGED n
     \/ /\ m.key[next] # Absent
        /\ \E i \in StopsAt(n, m.key[next], {Absent}) :
             n' = Fill(n, i, m.key[next], m.val[next])
  /\ next' = next + 1
  /\ UNCHANGED <<pc, call, m, len, memory>>

\* The end of map_resize: *m = n.
MapSwap ==
  /\ pc = "copy"
  /\ next = m.cap
  /\ m' = n
  /\ n' = NoTable
  /\ next' = 0
  /\ pc' = "store"
  /\ UNCHANGED <<call, len, memory>>

\* Mutant: replacing a value counts as an entry too.
StoreCounts ==
  /\ pc = "store"
  /\ \E i \in MapLookup(m, call.k) : m' = Fill(m, i, call.k, call.v)
  /\ len' = len + 1
  /\ pc' = "idle"
  /\ call' = Absent
  /\ UNCHANGED <<n, next, memory>>

\* The rest of env_map_put: replace the value or take the free slot.
Store ==
  /\ pc = "store"
  /\ \/ /\ \E i \in MapLookup(m, call.k) :
             /\ m' = Fill(m, i, call.k, call.v)
             /\ len' = IF m.key[i] = call.k THEN len ELSE len + 1
        /\ pc' = "idle"
        /\ call' = Absent
     \/ /\ MapLookup(m, call.k) = {}
        /\ pc' = "spin"
        /\ UNCHANGED <<call, m, len>>
  /\ UNCHANGED <<n, next, memory>>

\* Mutant: the arrays are freed and the capacity stays.
EnvMapFreeKeepsCap ==
  /\ pc = "idle"
  /\ call = Absent
  /\ m' = [NoTable EXCEPT !.cap = m.cap]
  /\ len' = 0
  /\ UNCHANGED <<pc, call, n, next, memory>>

\* parse_envs frees the map when an -e has no '='.
EnvMapFree ==
  /\ pc = "idle"
  /\ call = Absent
  /\ m' = NoTable
  /\ len' = 0
  /\ UNCHANGED <<pc, call, n, next, memory>>

Spin == pc = "spin" /\ UNCHANGED vars

Next ==
  \/ EnvMapInit
  \/ \E k \in Keys, v \in Vals : EnvMapPut(k, v) \/ EnvMapEnsure(k, v)
  \/ Return \/ EnsureCheck \/ MaybeGrow \/ MapRehash \/ MapSwap \/ Store
  \/ EnvMapFree
  \/ Spin

Spec == Init /\ [][Next]_vars

\* A call runs on until it returns.
FairSpec == Spec /\ WF_vars(Return \/ EnsureCheck \/ MaybeGrow \/ MapRehash
                            \/ MapSwap \/ Store)

-----------------------------------------------------------------------------
\* env_map_build allocates len + 1 pointers and stores one per used slot: the
\* count is exact, in spite of replaced values and rehashes, and no key is
\* listed twice.
BuildFits ==
  /\ Cardinality(Used(m)) = len
  /\ \A i, j \in Used(m) : m.key[i] = m.key[j] => i = j

\* The probing loops end because there is a free slot, as long as growing
\* works: the 7/10 test and the growth leave room for one entry more.
FreeSlot == memory = "enough" /\ m.cap > 0 => Used(m) # 0 .. m.cap - 1

\* Every call returns, as long as growing works.
CallsReturn == (call # Absent) ~> (call = Absent \/ memory = "short")

\* The hash table implements the dictionary, through collisions, rehashes
\* and failed growths: get returns what the last put left.
Dict == INSTANCE EnvDict WITH
  dict <- [k \in Keys |-> Get(m, k)],
  live <- m.cap > 0

ImplementsDict == Dict!DSpec
=============================================================================
