-------------------------- MODULE ChildSetupProofs --------------------------
(***************************************************************************)
(* What holds of every invocation, whatever its root, volumes, resolv.conf *)
(* and the calls that fail: the existence cache is right, the root is      *)
(* complete, there is a name server, sudo is called once, and the command  *)
(* runs as the user that was asked for.                                    *)
(*                                                                         *)
(* First what is needed of the helpers: each keeps the cache right if it   *)
(* was, and forgets what it must; io_mkdir_own goes down the path in a     *)
(* loop, whose recursive function is unfolded (IdentityProofs).  Then the  *)
(* mount points, no two of which hide each other, what each mount of       *)
(* ChildSetup does, and the invariant; then the user, read from whatever   *)
(* databases are at etc in the root by then.                               *)
(***************************************************************************)
EXTENDS ChildSetup, IdentityProofs, SequenceTheorems, TLAPS

-----------------------------------------------------------------------------
(* The helpers of IoCache.                                                 *)

Entries == {NoEntry} \cup [path : Paths, res : {0, Missing}]
FileSystems(L) ==
  [tree : [Paths -> Kinds], src : [Paths -> L], cache : [1 .. IO_CACHE_MAX -> Entries]]

\* What a remembered answer has to be.
Right(f, e) == e # NoEntry => e.res = (IF f.tree[e.path] = "none" THEN Missing ELSE 0)
Coherent(f) == \A k \in 1 .. IO_CACHE_MAX : Right(f, f.cache[k])

\* The paths that something is remembered of.
Known(f) == {q \in Paths : \E k \in 1 .. IO_CACHE_MAX : f.cache[k] # NoEntry /\ f.cache[k].path = q}

LEMMA PathFacts ==
  ASSUME NEW p \in Paths
  PROVE  /\ p \in Seq(STRING) /\ p # NoPath /\ IsPrefix(p, p) /\ Related(p, p)
         /\ \A k \in 0 .. Len(p) : SubSeq(p, 1, k) \in Paths
<1>1. p \in Seq(STRING) /\ p # NoPath /\ IsPrefix(p, p)
  BY IoCacheAssumption DEF IsPrefix
<1>2. Prefixes(p) \subseteq Paths
  BY IoCacheAssumption
<1>3. QED
  BY <1>1, <1>2 DEF Related, Prefixes

\* The fields of a file system.
LEMMA Fields ==
  ASSUME NEW L, NEW f \in FileSystems(L)
  PROVE  /\ f.tree \in [Paths -> Kinds] /\ f.src \in [Paths -> L]
         /\ f.cache \in [1 .. IO_CACHE_MAX -> Entries]
         /\ f = [tree |-> f.tree, src |-> f.src, cache |-> f.cache]
BY DEF FileSystems

\* An index found in the cache is one of an entry that passes the test.
LEMMA IndexFacts ==
  ASSUME NEW c \in [1 .. IO_CACHE_MAX -> Entries], NEW p
  PROVE  /\ IndexOf(c, p) # 0 => IndexOf(c, p) \in 1 .. IO_CACHE_MAX /\ c[IndexOf(c, p)].path = p
         /\ IndexOfEmpty(c) # 0 => IndexOfEmpty(c) \in 1 .. IO_CACHE_MAX
<1> DEFINE I == {k \in 1 .. Len(c) : c[k].path = p}
           J == {k \in 1 .. Len(c) : c[k] = NoEntry}
<1>1. Len(c) = IO_CACHE_MAX
  BY IoCacheAssumption
<1>2. (I # {} => Min(I) \in I) /\ (J # {} => Min(J) \in J)
  <2>1. I \in SUBSET Nat /\ J \in SUBSET Nat
    OBVIOUS
  <2> HIDE DEF I, J
  <2>2. QED
    BY <2>1, Smallest DEF Min
<1>3. IndexOf(c, p) = IF I # {} THEN Min(I) ELSE 0
  BY DEF SelectInSeq, IndexOf
<1>4. IndexOfEmpty(c) = IF J # {} THEN Min(J) ELSE 0
  BY DEF SelectInSeq, IndexOfEmpty
<1>5. QED
  BY <1>1, <1>2, <1>3, <1>4

\* A right cache gives the right answer.
LEMMA AnswerRight ==
  ASSUME NEW L, NEW f \in FileSystems(L), NEW p \in Paths
  PROVE  /\ Answer(f, p) \in {0, Missing}
         /\ Coherent(f) => Answer(f, p) = (IF f.tree[p] = "none" THEN Missing ELSE 0)
<1>1. PICK j : j = IndexOf(f.cache, p)
  OBVIOUS
<1>f. f.cache \in [1 .. IO_CACHE_MAX -> Entries]
  BY Fields
<1>2. j # 0 => j \in 1 .. IO_CACHE_MAX /\ f.cache[j].path = p
  BY <1>1, <1>f, IndexFacts
<1>3. Answer(f, p) = IF j # 0 THEN f.cache[j].res ELSE IF f.tree[p] = "none" THEN Missing ELSE 0
  BY <1>1 DEF Answer
<1>4. j # 0 => f.cache[j].res \in {0, Missing} /\ f.cache[j] # NoEntry
  <2> SUFFICES ASSUME j # 0 PROVE f.cache[j].res \in {0, Missing} /\ f.cache[j] # NoEntry
    OBVIOUS
  <2>1. f.cache[j] \in Entries /\ f.cache[j].path # NoPath
    BY <1>2, <1>f, PathFacts
  <2>2. f.cache[j] # NoEntry
    BY <2>1 DEF NoEntry
  <2>3. QED
    BY <2>1, <2>2 DEF Entries
<1>5. QED
  BY <1>2, <1>3, <1>4 DEF Coherent, Right

\* io_exists: what is remembered afterwards.
LEMMA LookedFacts ==
  ASSUME NEW L, NEW f \in FileSystems(L), NEW p \in Paths
  PROVE  /\ Looked(f, p) \in FileSystems(L)
         /\ Looked(f, p).tree = f.tree /\ Looked(f, p).src = f.src
         /\ Coherent(f) => Coherent(Looked(f, p))
         /\ Known(Looked(f, p)) \subseteq Known(f) \cup {p}
<1> DEFINE new == [path |-> p, res |-> Answer(f, p)]
<1>1. new \in Entries /\ (Coherent(f) => Right(f, new))
  BY AnswerRight DEF Entries, Right
<1>2. PICK j \in 1 .. IO_CACHE_MAX : Store(f.cache, p, Answer(f, p)) = [f.cache EXCEPT ![j] = new]
  <2> DEFINE j == IF IndexOf(f.cache, p) # 0 THEN IndexOf(f.cache, p)
                  ELSE IF IndexOfEmpty(f.cache) # 0 THEN IndexOfEmpty(f.cache) ELSE 1
  <2>1. f.cache \in [1 .. IO_CACHE_MAX -> Entries] /\ 1 \in 1 .. IO_CACHE_MAX
    BY Fields, IoCacheAssumption
  <2>2. j \in 1 .. IO_CACHE_MAX
    BY <2>1, IndexFacts
  <2>3. Store(f.cache, p, Answer(f, p)) = [f.cache EXCEPT ![j] = new]
    BY DEF Store
  <2> HIDE DEF new, j
  <2>4. QED
    BY <2>2, <2>3
<1> HIDE DEF new
<1>3. Looked(f, p) = [tree |-> f.tree, src |-> f.src, cache |-> [f.cache EXCEPT ![j] = new]]
  BY <1>2, Fields DEF Looked
<1>4. Looked(f, p) \in FileSystems(L) /\ Looked(f, p).tree = f.tree /\ Looked(f, p).src = f.src
  BY <1>1, <1>3, Fields DEF FileSystems
<1>5. \A k \in 1 .. IO_CACHE_MAX : Looked(f, p).cache[k] \in {f.cache[k], new}
  BY <1>3, Fields
<1>6. Coherent(f) => Coherent(Looked(f, p))
  BY <1>1, <1>4, <1>5 DEF Coherent, Right
<1>7. new.path = p
  BY DEF new
<1>8. Known(Looked(f, p)) \subseteq Known(f) \cup {p}
  BY <1>5, <1>7 DEF Known
<1>9. QED
  BY <1>4, <1>6, <1>8

\* A helper that drops what was known of the paths it changes.
LEMMA ChangedFacts ==
  ASSUME NEW L, NEW f \in FileSystems(L), NEW tree \in [Paths -> Kinds], NEW P,
         \A q \in Paths : tree[q] # f.tree[q] => q \in P
  PROVE  /\ Changed(f, tree, P) \in FileSystems(L)
         /\ Changed(f, tree, P).tree = tree /\ Changed(f, tree, P).src = f.src
         /\ Coherent(f) => Coherent(Changed(f, tree, P))
         /\ Known(Changed(f, tree, P)) \subseteq {q \in Known(f) : \A r \in P : ~Related(q, r)}
<1> DEFINE g == Changed(f, tree, P)
<1>1. g = [tree |-> tree, src |-> f.src, cache |-> Forget(f.cache, P)]
  BY DEF Changed
<1>2. /\ Forget(f.cache, P) \in [1 .. IO_CACHE_MAX -> Entries]
      /\ \A k \in 1 .. IO_CACHE_MAX :
           Forget(f.cache, P)[k] = IF \E r \in P : Related(f.cache[k].path, r) THEN NoEntry ELSE f.cache[k]
  BY Fields DEF Forget, Entries, NoEntry
<1>3. g \in FileSystems(L) /\ g.tree = tree /\ g.src = f.src /\ g.cache = Forget(f.cache, P)
  BY <1>1, <1>2, Fields DEF FileSystems
<1> HIDE DEF g
<1>4. ASSUME Coherent(f), NEW k \in 1 .. IO_CACHE_MAX, g.cache[k] # NoEntry PROVE Right(g, g.cache[k])
  <2>1. g.cache[k] = f.cache[k] /\ \A r \in P : ~Related(f.cache[k].path, r)
    BY <1>2, <1>3, <1>4
  <2>2. f.cache[k].path \in Paths
    BY <1>4, <2>1, Fields, ZenonT(30) DEF Entries
  <2>3. f.cache[k].path \notin P
    BY <2>1, <2>2, PathFacts
  <2>4. tree[f.cache[k].path] = f.tree[f.cache[k].path]
    BY <2>2, <2>3
  <2>5. QED
    BY <1>3, <1>4, <2>1, <2>4 DEF Coherent, Right
<1>5. Coherent(f) => Coherent(g)
  BY <1>4 DEF Coherent, Right
<1>6. Known(g) \subseteq {q \in Known(f) : \A r \in P : ~Related(q, r)}
  BY <1>2, <1>3 DEF Known
<1>7. QED
  BY <1>3, <1>5, <1>6 DEF g

\* mkdir, io_mkdir, io_touch and io_unlink: nothing is known of the path or of
\* what is above or below it afterwards.
LEMMA MadeFacts ==
  ASSUME NEW L, NEW f \in FileSystems(L), NEW p \in Paths, NEW kind \in Kinds
  PROVE  /\ Made(f, p, kind) \in FileSystems(L) /\ Made(f, p, kind).src = f.src
         /\ Coherent(f) => Coherent(Made(f, p, kind))
         /\ Known(Made(f, p, kind)) \subseteq {q \in Known(f) : ~Related(q, p)}
<1> DEFINE tree == [f.tree EXCEPT ![p] = kind]
<1>1. tree \in [Paths -> Kinds] /\ \A q \in Paths : tree[q] # f.tree[q] => q \in {p}
  BY Fields
<1>2. Made(f, p, kind) = Changed(f, tree, {p})
  BY DEF Made
<1> HIDE DEF tree
<1>3. QED
  BY <1>1, <1>2, ChangedFacts

LEMMA MkdirFacts ==
  ASSUME NEW L, NEW f \in FileSystems(L), NEW p \in Paths
  PROVE  /\ Mkdir(f, p) \in FileSystems(L) /\ Mkdir(f, p).src = f.src
         /\ Coherent(f) => Coherent(Mkdir(f, p))
         /\ Known(Mkdir(f, p)) \subseteq {q \in Known(f) : ~Related(q, p)}
<1> DEFINE missing == {q \in Prefixes(p) : f.tree[q] = "none"}
           tree == [q \in Paths |-> IF q \in missing THEN "dir" ELSE f.tree[q]]
<1>1. tree \in [Paths -> Kinds] /\ \A q \in Paths : tree[q] # f.tree[q] => q \in missing
  BY Fields DEF Kinds
<1>2. MadeDirs(f, p) = Changed(f, tree, missing)
  BY DEF MadeDirs
<1> HIDE DEF tree, missing
<1>3. PICK g \in FileSystems(L) : /\ g = MadeDirs(f, p) /\ g.src = f.src
                                  /\ Coherent(f) => Coherent(g)
                                  /\ Known(g) \subseteq Known(f)
  BY <1>1, <1>2, ChangedFacts
<1>4. Mkdir(f, p) = Changed(g, g.tree, {p})
  BY <1>3 DEF Mkdir
<1>5. g.tree \in [Paths -> Kinds]
  BY Fields
<1>6. QED
  BY <1>3, <1>4, <1>5, ChangedFacts

LEMMA TouchFacts ==
  ASSUME NEW L, NEW f \in FileSystems(L), NEW p \in Paths
  PROVE  /\ Touch(f, p) \in FileSystems(L) /\ Touch(f, p).src = f.src
         /\ Coherent(f) => Coherent(Touch(f, p))
         /\ Known(Touch(f, p)) \subseteq {q \in Known(f) : ~Related(q, p)}
<1>1. CASE f.tree[p] = "none"
  <2>1. Touch(f, p) = Made(f, p, "file") /\ "file" \in Kinds
    BY <1>1 DEF Touch, Kinds
  <2>2. QED
    BY <2>1, MadeFacts
<1>2. CASE f.tree[p] # "none"
  <2>1. Touch(f, p) = Changed(f, f.tree, {p})
    BY <1>2 DEF Touch
  <2>2. f.tree \in [Paths -> Kinds]
    BY Fields
  <2>3. QED
    BY <2>1, <2>2, ChangedFacts
<1>3. QED
  BY <1>1, <1>2

LEMMA UnlinkFacts ==
  ASSUME NEW L, NEW f \in FileSystems(L), NEW p \in Paths
  PROVE  /\ Unlink(f, p) \in FileSystems(L) /\ Unlink(f, p).src = f.src
         /\ Coherent(f) => Coherent(Unlink(f, p))
         /\ Known(Unlink(f, p)) \subseteq {q \in Known(f) : ~Related(q, p)}
<1>1. Unlink(f, p) = Made(f, p, "none") /\ "none" \in Kinds
  BY DEF Unlink, Made, Kinds
<1>2. QED
  BY <1>1, MadeFacts

\* mount(2) keeps the cache right if nothing is known of what it hides, or
\* only that the mount point exists, which it does on.
LEMMA MountFacts ==
  ASSUME NEW L, NEW f \in FileSystems(L), NEW p \in Paths, NEW label \in L, NEW content,
         \A q \in DOMAIN content : content[q] \in Kinds
  PROVE  LET g == MountOn(f, p, label, content) IN
         /\ g \in FileSystems(L) /\ Known(g) = Known(f)
         /\ \A q \in Paths : g.src[q] = IF IsPrefix(p, q) THEN label ELSE f.src[q]
         /\ (/\ Coherent(f)
             /\ \A q \in Known(f) :
                  IsPrefix(p, q) => /\ q = p /\ f.tree[p] # "none"
                                    /\ <<>> \in DOMAIN content /\ content[<<>>] # "none")
            => Coherent(g)
<1> DEFINE rel(q) == SubSeq(q, Len(p) + 1, Len(q))
           kind(q) == IF rel(q) \in DOMAIN content THEN content[rel(q)] ELSE "none"
           g == MountOn(f, p, label, content)
<1>1. g = [tree |-> [q \in Paths |-> IF IsPrefix(p, q) THEN kind(q) ELSE f.tree[q]],
           src |-> [q \in Paths |-> IF IsPrefix(p, q) THEN label ELSE f.src[q]],
           cache |-> f.cache]
  BY DEF MountOn
<1>2. \A q \in Paths : kind(q) \in Kinds
  BY DEF Kinds
<1>3. (<<>> \in DOMAIN content => kind(p) = content[<<>>])
  <2>1. rel(p) = <<>>
    BY PathFacts
  <2>2. QED
    BY <2>1
<1> HIDE DEF kind, g
<1>4. g \in FileSystems(L) /\ g.cache = f.cache
  BY <1>1, <1>2, Fields DEF FileSystems
<1>5. \A q \in Paths : /\ g.src[q] = IF IsPrefix(p, q) THEN label ELSE f.src[q]
                       /\ g.tree[q] = IF IsPrefix(p, q) THEN kind(q) ELSE f.tree[q]
  BY <1>1
<1>6. Known(g) = Known(f)
  BY <1>4 DEF Known
<1>7. ASSUME Coherent(f),
             \A q \in Known(f) :
               IsPrefix(p, q) => /\ q = p /\ f.tree[p] # "none"
                                 /\ <<>> \in DOMAIN content /\ content[<<>>] # "none"
      PROVE  Coherent(g)
  <2> SUFFICES ASSUME NEW k \in 1 .. IO_CACHE_MAX, f.cache[k] # NoEntry
               PROVE  Right(g, f.cache[k])
    BY <1>4 DEF Coherent, Right
  <2>1. f.cache[k].path \in Known(f) /\ f.cache[k].path \in Paths
    <3>1. f.cache[k] \in Entries
      BY Fields
    <3>2. QED
      BY <3>1 DEF Entries, Known
  <2>2. (g.tree[f.cache[k].path] = "none") <=> (f.tree[f.cache[k].path] = "none")
    BY <1>3, <1>5, <1>7, <2>1
  <2>3. QED
    BY <1>7, <2>2 DEF Coherent, Right
<1>8. QED
  BY <1>4, <1>5, <1>6, <1>7 DEF g

\* io_mkdir_own, one parent after another.
LEMMA OwnParentFacts ==
  ASSUME NEW L, NEW f \in FileSystems(L), NEW q \in Paths
  PROVE  /\ OwnParent(f, q) \in FileSystems(L) /\ OwnParent(f, q).src = f.src
         /\ Coherent(f) => Coherent(OwnParent(f, q))
<1>1. PICK g \in FileSystems(L) : g = Looked(f, q) /\ g.src = f.src /\ (Coherent(f) => Coherent(g))
  BY LookedFacts
<1>2. "dir" \in Kinds
  BY DEF Kinds
<1>3. OwnParent(f, q) = IF Answer(f, q) = 0 THEN g ELSE Made(g, q, "dir")
  BY <1>1 DEF OwnParent
<1>4. /\ Made(g, q, "dir") \in FileSystems(L) /\ Made(g, q, "dir").src = g.src
      /\ Coherent(g) => Coherent(Made(g, q, "dir"))
  BY <1>2, MadeFacts
<1>5. QED
  BY <1>1, <1>3, <1>4

LEMMA OwnParentsFacts ==
  ASSUME NEW L, NEW f \in FileSystems(L), NEW p \in Paths,
         NEW k \in 0 .. Len(p) - 1
  PROVE  /\ OwnParents(f, p)[k] \in FileSystems(L) /\ OwnParents(f, p)[k].src = f.src
         /\ Coherent(f) => Coherent(OwnParents(f, p)[k])
<1> DEFINE n == Len(p) - 1
           b == Looked(f, p)
           G == [x \in (1 .. n) \X FileSystems(L) |-> OwnParent(x[2], SubSeq(p, 1, x[1]))]
           def(after) == after = [j \in 0 .. n |->
                           IF j = 0 THEN Looked(f, p) ELSE OwnParent(after[j - 1], SubSeq(p, 1, j))]
           a == OwnParents(f, p)
<1>1. n \in Nat /\ \A j \in 1 .. n : SubSeq(p, 1, j) \in Paths
  BY PathFacts
<1>2. b \in FileSystems(L) /\ b.src = f.src /\ (Coherent(f) => Coherent(b))
  BY LookedFacts
<1>3. Steps(FileSystems(L), n, G)
  <2>1. ASSUME NEW x \in (1 .. n) \X FileSystems(L) PROVE OwnParent(x[2], SubSeq(p, 1, x[1])) \in FileSystems(L)
    <3>1. x[2] \in FileSystems(L) /\ SubSeq(p, 1, x[1]) \in Paths
      BY <1>1
    <3>2. QED
      BY <3>1, OwnParentFacts
  <2>2. QED
    BY <2>1 DEF Steps
<1>4. \E r : Unfolds(r, FileSystems(L), n, b, G)
  <2> HIDE DEF n, b, G
  <2>1. QED
    BY <1>1, <1>2, <1>3, Unfold
<1>5. PICK r \in [0 .. n -> FileSystems(L)] : r[0] = b /\ \A j \in 1 .. n : r[j] = G[<<j, r[j - 1]>>]
  BY <1>4 DEF Unfolds
<1>6. \A j \in 1 .. n : r[j - 1] \in FileSystems(L) /\ r[j] = OwnParent(r[j - 1], SubSeq(p, 1, j))
  <2> SUFFICES ASSUME NEW j \in 1 .. n
               PROVE  r[j - 1] \in FileSystems(L) /\ r[j] = OwnParent(r[j - 1], SubSeq(p, 1, j))
    OBVIOUS
  <2>1. j - 1 \in 0 .. n
    BY <1>1
  <2>2. r[j - 1] \in FileSystems(L)
    BY <1>5, <2>1
  <2>3. QED
    BY <1>5, <2>2
<1>7. def(r)
  BY <1>1, <1>5, <1>6
<1>8. def(a)
  BY <1>7 DEF OwnParents
<1>9. a[0] = b /\ \A j \in 1 .. n : a[j] = OwnParent(a[j - 1], SubSeq(p, 1, j))
  BY <1>1, <1>8
<1> DEFINE T == {j \in Nat : j <= n => /\ a[j] \in FileSystems(L) /\ a[j].src = f.src
                                       /\ Coherent(f) => Coherent(a[j])}
<1> HIDE DEF a, b, G
<1>10. 0 \in T
  BY <1>2, <1>9
<1>11. ASSUME NEW j \in Nat, j \in T PROVE j + 1 \in T
  <2> SUFFICES ASSUME j + 1 <= n
               PROVE  /\ a[j + 1] \in FileSystems(L) /\ a[j + 1].src = f.src
                      /\ Coherent(f) => Coherent(a[j + 1])
    OBVIOUS
  <2>1. /\ a[j] \in FileSystems(L) /\ a[j].src = f.src
        /\ Coherent(f) => Coherent(a[j])
    BY <1>1, <1>11
  <2>2. j + 1 \in 1 .. n /\ (j + 1) - 1 = j
    BY <1>1
  <2>3. a[j + 1] = OwnParent(a[j], SubSeq(p, 1, j + 1)) /\ SubSeq(p, 1, j + 1) \in Paths
    BY <1>1, <1>9, <2>2
  <2>4. QED
    BY <2>1, <2>3, OwnParentFacts
<1>12. \A j \in Nat : j \in T
  <2> HIDE DEF T
  <2>1. QED
    BY <1>10, <1>11, Inductively
<1>13. k \in T /\ k \in Nat /\ k <= n
  BY <1>1, <1>12
<1>14. QED
  BY <1>13 DEF a

LEMMA MkdirOwnFacts ==
  ASSUME NEW L, NEW f \in FileSystems(L), NEW p \in Paths, CanMkdirOwn(f, p)
  PROVE  /\ MkdirOwn(f, p) \in FileSystems(L) /\ MkdirOwn(f, p).src = f.src
         /\ Coherent(f) => Coherent(MkdirOwn(f, p))
<1>1. CASE Answer(f, p) = 0
  BY <1>1, LookedFacts DEF MkdirOwn
<1>2. CASE Answer(f, p) # 0
  <2>1. p # <<>>
    BY <1>2 DEF CanMkdirOwn
  <2>2. Len(p) - 1 \in 0 .. Len(p) - 1
    BY <2>1, PathFacts, EmptySeq
  <2>3. PICK g \in FileSystems(L) : /\ g = OwnParents(f, p)[Len(p) - 1] /\ g.src = f.src
                                    /\ Coherent(f) => Coherent(g)
    BY <2>2, OwnParentsFacts
  <2>4. MkdirOwn(f, p) = Made(g, p, "dir") /\ "dir" \in Kinds
    BY <1>2, <2>3 DEF MkdirOwn, Kinds
  <2>5. QED
    BY <2>3, <2>4, MadeFacts
<1>3. QED
  BY <1>1, <1>2

-----------------------------------------------------------------------------
(* The invariant.                                                          *)

Mounting == {"overlay", "base", "cgroups", "resolv", "dnstmp", "dnsbind", "bindhost", "rundirs",
             "devshm", "volumes"}
Entering == {"user", "gui", "move", "init", "reread"}
Running == {"launch", "setgid", "setgroups", "setuid", "run"}
Places == {"main", "unshare", "join"} \cup Mounting \cup Entering \cup Running \cup Over

\* The names of the mounts.
Labels ==
  {"host", "overlay", "cgroup", "cgroup2", "tmpfs", "resolv"} \cup {Base[n].type : n \in DOMAIN Base}
    \cup {v.id : v \in UNION {ToSet(c.vols) : c \in Configs}}

Typed ==
  /\ cfg \in Configs /\ pc \in Places /\ i \in Nat \ {0}
  /\ fs \in FileSystems(Labels)
  /\ cfg.mode = "start" => pc # "join"
  /\ pc \notin {"base", "volumes"} \cup Entering \cup Running \cup Over => i = 1

Bases == {Base[n].at : n \in DOMAIN Base}

\* No path below a mount point is known but the mount point itself; nothing
\* is before the root is mounted.
Cached ==
  /\ Coherent(fs)
  /\ pc \in {"main", "unshare", "overlay", "join"} => Known(fs) = {}
  /\ pc \in {"base", "cgroups"} => Known(fs) \subseteq Bases
  /\ pc \in {"resolv", "dnstmp", "dnsbind", "bindhost"} => Known(fs) \subseteq Bases \cup {cgroup}

\* Nothing is mounted before the namespace is private.
Kept == ~leaked /\ (pc \in Mounting => private)

\* What has been mounted so far shows, or a volume hides it.
BaseShown(n) == Hidden(Base[n].at, 1) \/ fs.src[Base[n].at] = Base[n].type
CgroupShown == cfg.cgroup = "no" \/ Hidden(cgroup, 1) \/ fs.src[cgroup] \in {"cgroup2", "tmpfs"}
VolumeShown(n) ==
  Hidden(cfg.vols[n].target, n + 1) \/ fs.src[cfg.vols[n].target] = cfg.vols[n].id

InStart == cfg.mode = "start" /\ pc \notin {"main", "unshare", "overlay", "failed", "killed"}
Shown ==
  InStart =>
    /\ \A n \in DOMAIN Base : pc # "base" \/ n < i => BaseShown(n)
    /\ pc \notin {"base", "cgroups"} => CgroupShown
    /\ \A n \in DOMAIN cfg.vols :
         pc \in Entering \cup Running \/ (pc = "volumes" /\ n < i) => VolumeShown(n)

\* A way to etc/resolv.conf that has been taken leads to a name server.
Served ==
  /\ resolv \in {"none", "nonreg", "empty", "local", "big", "real"} /\ dnstmp \in BOOLEAN
  /\ InStart /\ cfg.net /\ pc \notin {"base", "cgroups", "resolv", "dnstmp", "dnsbind", "bindhost"}
       => resolv = "real"
  /\ pc = "bindhost" /\ cfg.net => cfg.hostresolv = "real"
  /\ dnstmp => pc \in {"dnsbind", "killed"}

\* A second execution is that of the set-uid binary.
Once == cfg.sudofixes => execs = 1 \/ (execs = 2 /\ binary = "suid")

\* Each mount that may show etc/passwd has databases; a process has its ids.
Mapped ==
  /\ dbs \in [DOMAIN cfg.dbs -> DOMAIN Databases] /\ fs.src[passwd] \in DOMAIN cfg.dbs
  /\ DOMAIN creds = {"ruid", "euid", "rgid", "egid", "groups"}

\* What has been asked of the user so far, and that the databases it was
\* read from are those the guest sees.
Before == {"main", "unshare", "join", "user"} \cup Mounting
Whole == Settled(cfg.opt, GuestDb, user.rootfs, user)
HomeRight == home = Promised(cfg.opt, GuestDb).home \/ (cfg.gui /\ cfg.init)
AskedEarly ==
  /\ pc \in Before => user = UserNew(cfg.opt, "root") /\ ~chrooted /\ home = NoName
  /\ pc \in {"gui", "move"} => Whole /\ ~chrooted
  /\ pc = "gui" => cfg.gui
  /\ pc = "move" => home = NoName \/ (cfg.gui /\ home = Promised(cfg.opt, GuestDb).home)
  /\ pc \in {"init", "reread"} => chrooted /\ cfg.init /\ (home = NoName \/ cfg.gui)
AskedLate ==
  /\ pc \in Running => chrooted
  /\ pc = "launch" => /\ Whole \/ user = UserNew(cfg.opt, "/")
                      /\ home = NoName \/ HomeRight
  /\ pc \in Running \ {"launch"} => HomeRight
  /\ pc = "setgid" => Whole \/ PasswdRead(cfg.opt, GuestDb, "/", user)
  /\ pc = "setgroups" => Whole \/ GidRead(cfg.opt, GuestDb, "/", user)
  /\ pc \in {"setuid", "run"} => Whole /\ creds.groups = user.groups
  /\ pc \in {"setgroups", "setuid", "run"} =>
       creds.rgid = user.gid /\ creds.egid = user.gid
  /\ pc = "run" =>
       creds.ruid = PromisedUid(cfg.opt, GuestDb) /\ creds.euid = PromisedUid(cfg.opt, GuestDb)

Invariant == Typed /\ Cached /\ Kept /\ Shown /\ Served /\ Once

-----------------------------------------------------------------------------
(* The mount points.                                                       *)

LEMMA PrefixFacts ==
  ASSUME NEW s \in Seq(STRING), NEW t \in Seq(STRING), IsPrefix(s, t)
  PROVE  Len(s) <= Len(t) /\ (Len(s) > 0 => s[1] = t[1])
BY DEF IsPrefix

LEMMA BaseFacts ==
  /\ DOMAIN Base = 1 .. 6 /\ Len(Base) = 6
  /\ \A n \in DOMAIN Base : /\ Base[n].at \in Seq(STRING) /\ Len(Base[n].at) \in {1, 2}
                            /\ Base[n].at[1] \notin {"etc"} /\ Base[n].type \in Labels
  /\ \A n \in DOMAIN Base : Base[n].at[1] = "dev" \/ Base[n].at[1] = "sys" => Len(Base[n].at) = 1
  /\ \A m, n \in DOMAIN Base : Base[m].at[1] = Base[n].at[1] => m = n
<1>1. DOMAIN Base = 1 .. 6 /\ Len(Base) = 6
  BY DEF Base
<1>2. /\ Base[1].at = <<"proc">> /\ Base[2].at = <<"sys">> /\ Base[3].at = <<"dev">>
      /\ Base[4].at = <<"run">> /\ Base[5].at = <<"tmp">> /\ Base[6].at = <<"var", "tmp">>
  BY DEF Base
<1>3. \A n \in DOMAIN Base : Base[n].type \in Labels
  BY DEF Labels
<1>4. \A n \in DOMAIN Base : Base[n].at \in Paths
  BY PathsAssumption
<1>5. \A n \in DOMAIN Base : Base[n].at \in Seq(STRING)
  BY <1>4, PathFacts
<1>6. ASSUME NEW n \in DOMAIN Base
      PROVE  /\ Len(Base[n].at) \in {1, 2} /\ Base[n].at[1] \notin {"etc"}
             /\ Base[n].at[1] = "dev" \/ Base[n].at[1] = "sys" => Len(Base[n].at) = 1
             /\ \A m \in DOMAIN Base : Base[m].at[1] = Base[n].at[1] => m = n
  <2>1. \A m \in 1 .. 6 : m = 1 \/ m = 2 \/ m = 3 \/ m = 4 \/ m = 5 \/ m = 6
    OBVIOUS
  <2>2. /\ Base[1].at[1] = "proc" /\ Base[2].at[1] = "sys" /\ Base[3].at[1] = "dev"
        /\ Base[4].at[1] = "run" /\ Base[5].at[1] = "tmp" /\ Base[6].at[1] = "var"
    BY <1>2
  <2>3. /\ Len(Base[1].at) = 1 /\ Len(Base[2].at) = 1 /\ Len(Base[3].at) = 1
        /\ Len(Base[4].at) = 1 /\ Len(Base[5].at) = 1 /\ Len(Base[6].at) = 2
    BY <1>2
  <2>4. QED
    BY <1>1, <2>1, <2>2, <2>3
<1>7. QED
  BY <1>1, <1>3, <1>5, <1>6

LEMMA PointFacts ==
  /\ \A n \in DOMAIN Base : Base[n].at \in Paths
  /\ {etc, resolvconf, cgroup, <<"dev", "shm">>, <<>>} \subseteq Paths
  /\ {<<"run", "lock">>, <<"run", "user">>, <<"run", "shm">>} \subseteq Paths
  /\ \A m, n \in DOMAIN Base : IsPrefix(Base[m].at, Base[n].at) => m = n
  /\ \A n \in DOMAIN Base, p \in {resolvconf, cgroup, <<"dev", "shm">>} : ~IsPrefix(p, Base[n].at)
  /\ ~IsPrefix(resolvconf, cgroup) /\ ~IsPrefix(<<"dev", "shm">>, cgroup)
  /\ Related(etc, resolvconf)
  /\ \A c \in Controllers : /\ Append(cgroup, c) # cgroup
                            /\ \A n \in DOMAIN Base : Append(cgroup, c) # Base[n].at
<1>1. /\ \A n \in DOMAIN Base : Base[n].at \in Paths
      /\ {resolvconf, cgroup, <<"dev", "shm">>} \subseteq Paths
      /\ \A c \in Controllers : c \in STRING
  BY PathsAssumption
<1>2. {<<"run", "lock">>, <<"run", "user">>, <<"run", "shm">>} \subseteq Paths
  BY PathsAssumption
<1>3. etc \in Paths /\ <<>> \in Paths
  <2>1. \A k \in 0 .. Len(resolvconf) : SubSeq(resolvconf, 1, k) \in Paths
    BY <1>1, PathFacts
  <2>2. SubSeq(resolvconf, 1, 0) = <<>> /\ Len(resolvconf) = 2 /\ resolvconf[1] = "etc"
    BY DEF resolvconf
  <2>3. SubSeq(resolvconf, 1, 1) = [k \in 1 .. 1 |-> "etc"]
    <3>1. resolvconf \in Seq(STRING)
      BY <1>1, PathFacts
    <3>2. SubSeq(resolvconf, 1, 1) = [k \in 1 .. 1 |-> resolvconf[k]]
      BY <2>2, <3>1, SubSeqProperties
    <3>3. QED
      BY <2>2, <3>2
  <2>4. [k \in 1 .. 1 |-> "etc"] = etc
    BY DEF etc
  <2>5. SubSeq(resolvconf, 1, 1) \in Paths /\ SubSeq(resolvconf, 1, 0) \in Paths
    BY <2>1, <2>2
  <2>6. QED
    BY <2>2, <2>3, <2>4, <2>5
<1>4. /\ resolvconf \in Seq(STRING) /\ Len(resolvconf) = 2 /\ resolvconf[1] = "etc"
      /\ cgroup \in Seq(STRING) /\ Len(cgroup) = 3 /\ cgroup[1] = "sys"
      /\ <<"dev", "shm">> \in Seq(STRING) /\ Len(<<"dev", "shm">>) = 2 /\ <<"dev", "shm">>[1] = "dev"
  <2>1. {resolvconf, cgroup, <<"dev", "shm">>} \subseteq Seq(STRING)
    BY <1>1, PathFacts
  <2>2. Len(resolvconf) = 2 /\ resolvconf[1] = "etc"
    BY DEF resolvconf
  <2>3. Len(cgroup) = 3 /\ cgroup[1] = "sys"
    BY DEF cgroup
  <2>4. Len(<<"dev", "shm">>) = 2 /\ <<"dev", "shm">>[1] = "dev"
    OBVIOUS
  <2>5. QED
    BY <2>1, <2>2, <2>3, <2>4
<1>5. \A m, n \in DOMAIN Base : IsPrefix(Base[m].at, Base[n].at) => m = n
  <2> SUFFICES ASSUME NEW m \in DOMAIN Base, NEW n \in DOMAIN Base, IsPrefix(Base[m].at, Base[n].at)
               PROVE  m = n
    OBVIOUS
  <2>1. PICK s \in Seq(STRING), t \in Seq(STRING) : s = Base[m].at /\ t = Base[n].at /\ Len(s) \in {1, 2}
    BY BaseFacts
  <2>2. s[1] = t[1]
    BY <2>1, PrefixFacts
  <2>3. QED
    BY <2>1, <2>2, BaseFacts
<1>6. \A n \in DOMAIN Base, p \in {resolvconf, cgroup, <<"dev", "shm">>} : ~IsPrefix(p, Base[n].at)
  <2> SUFFICES ASSUME NEW n \in DOMAIN Base, NEW p \in {resolvconf, cgroup, <<"dev", "shm">>},
                      IsPrefix(p, Base[n].at)
               PROVE  FALSE
    OBVIOUS
  <2>1. PICK s \in Seq(STRING), t \in Seq(STRING) : s = p /\ t = Base[n].at
    BY <1>4, BaseFacts
  <2>2. s[1] \in {"etc", "sys", "dev"} /\ Len(s) \in {2, 3}
    BY <1>4, <2>1
  <2>3. IsPrefix(s, t)
    BY <2>1
  <2>4. Len(s) <= Len(t) /\ s[1] = t[1]
    BY <2>2, <2>3, PrefixFacts
  <2>5. /\ Len(t) \in {1, 2} /\ t[1] # "etc"
        /\ t[1] = "dev" \/ t[1] = "sys" => Len(t) = 1
    BY <2>1, BaseFacts
  <2>6. QED
    BY <2>2, <2>4, <2>5
<1>7. ~IsPrefix(resolvconf, cgroup) /\ ~IsPrefix(<<"dev", "shm">>, cgroup)
  <2>1. PICK r \in Seq(STRING), d \in Seq(STRING), c \in Seq(STRING) :
          r = resolvconf /\ d = <<"dev", "shm">> /\ c = cgroup
    BY <1>4
  <2>2. r[1] = "etc" /\ d[1] = "dev" /\ c[1] = "sys" /\ Len(r) = 2 /\ Len(d) = 2
    BY <1>4, <2>1
  <2>3. ~IsPrefix(r, c) /\ ~IsPrefix(d, c)
    BY <2>2, PrefixFacts
  <2>4. QED
    BY <2>1, <2>3
<1>8. Related(etc, resolvconf)
  BY DEF Related, IsPrefix, etc, resolvconf
<1>9. \A c \in Controllers : Len(Append(cgroup, c)) = 4
  <2> SUFFICES ASSUME NEW c \in Controllers PROVE Len(Append(cgroup, c)) = 4
    OBVIOUS
  <2>1. c \in STRING
    BY <1>1
  <2>2. Len(Append(cgroup, c)) = Len(cgroup) + 1
    BY <1>4, <2>1, AppendProperties
  <2>3. QED
    BY <1>4, <2>2
<1>10. \A c \in Controllers : /\ Append(cgroup, c) # cgroup
                               /\ \A n \in DOMAIN Base : Append(cgroup, c) # Base[n].at
  <2> SUFFICES ASSUME NEW c \in Controllers
               PROVE  /\ Append(cgroup, c) # cgroup
                      /\ \A n \in DOMAIN Base : Append(cgroup, c) # Base[n].at
    OBVIOUS
  <2>1. PICK s : s = Append(cgroup, c) /\ Len(s) = 4
    BY <1>9
  <2>2. s # cgroup
    BY <1>4, <2>1
  <2>3. ASSUME NEW n \in DOMAIN Base PROVE s # Base[n].at
    <3>1. PICK t : t = Base[n].at /\ Len(t) \in {1, 2}
      BY BaseFacts
    <3>2. QED
      BY <2>1, <3>1
  <2>4. QED
    BY <2>1, <2>2, <2>3
<1>11. QED
  BY <1>1, <1>2, <1>3, <1>5, <1>6, <1>7, <1>8, <1>10

\* etc/passwd is below no mount point but those of volumes.
LEMMA PasswdPoint ==
  /\ passwd \in Paths /\ IsPrefix(<<>>, passwd)
  /\ \A n \in DOMAIN Base : ~IsPrefix(Base[n].at, passwd)
  /\ ~IsPrefix(resolvconf, passwd) /\ ~IsPrefix(cgroup, passwd) /\ ~IsPrefix(<<"dev", "shm">>, passwd)
  /\ \A c \in Controllers : Append(cgroup, c) # passwd
<1>1. passwd \in Paths /\ passwd \in Seq(STRING)
  BY PathsAssumption, PathFacts
<1>2. /\ Len(passwd) = 2 /\ passwd[1] = "etc" /\ passwd[2] = "passwd"
      /\ Len(resolvconf) = 2 /\ resolvconf[2] = "resolv.conf"
      /\ Len(cgroup) = 3 /\ Len(<<"dev", "shm">>) = 2 /\ <<"dev", "shm">>[1] = "dev"
  BY DEF passwd, resolvconf, cgroup
<1>3. IsPrefix(<<>>, passwd)
  BY <1>1 DEF IsPrefix
<1>4. ASSUME NEW n \in DOMAIN Base PROVE ~IsPrefix(Base[n].at, passwd)
  <2>1. PICK s \in Seq(STRING) : s = Base[n].at /\ Len(s) \in {1, 2} /\ s[1] # "etc"
    BY BaseFacts
  <2>2. IsPrefix(s, passwd) => s[1] = passwd[1]
    BY <1>1, <2>1, PrefixFacts
  <2>3. QED
    BY <1>2, <2>1, <2>2
<1>5. ~IsPrefix(resolvconf, passwd)
  BY <1>2 DEF IsPrefix
<1>6. ~IsPrefix(cgroup, passwd) /\ ~IsPrefix(<<"dev", "shm">>, passwd)
  <2>1. PICK c \in Seq(STRING), d \in Seq(STRING) : c = cgroup /\ d = <<"dev", "shm">>
    BY PointFacts, PathFacts
  <2>2. Len(c) = 3 /\ Len(d) = 2 /\ d[1] = "dev"
    BY <1>2, <2>1
  <2>3. PICK q \in Seq(STRING) : q = passwd /\ Len(q) = 2 /\ q[1] = "etc"
    BY <1>1, <1>2
  <2>4. IsPrefix(c, q) => Len(c) <= Len(q)
    BY PrefixFacts
  <2>5. IsPrefix(d, q) => d[1] = q[1]
    BY <2>2, PrefixFacts
  <2>6. QED
    BY <2>1, <2>2, <2>3, <2>4, <2>5
<1>7. ASSUME NEW c \in Controllers PROVE Append(cgroup, c) # passwd
  <2>1. cgroup \in Seq(STRING) /\ c \in STRING
    BY PathsAssumption, PointFacts, PathFacts
  <2>2. PICK t : t = Append(cgroup, c) /\ Len(t) = Len(cgroup) + 1
    BY <2>1, AppendProperties
  <2>3. QED
    BY <1>2, <2>2
<1>8. QED
  BY <1>1, <1>3, <1>4, <1>5, <1>6, <1>7

-----------------------------------------------------------------------------
(* What the actions that mount do to the file system.                      *)

LEMMA VolumeFacts ==
  ASSUME cfg \in Configs, NEW n \in 1 .. Len(cfg.vols)
  PROVE  /\ cfg.vols[n].target \in Paths /\ cfg.vols[n].id \in Labels
         /\ cfg.vols[n].host \in DOMAIN Sources
         /\ \A q \in DOMAIN Sources[cfg.vols[n].host] : Sources[cfg.vols[n].host][q] \in Kinds
         /\ DOMAIN cfg.vols = 1 .. Len(cfg.vols)
<1>1. cfg.vols \in Seq(ToSet(cfg.vols))
  BY ConfigsAssumption
<1>2. cfg.vols[n] \in ToSet(cfg.vols) /\ DOMAIN cfg.vols = 1 .. Len(cfg.vols)
  BY <1>1
<1>3. cfg.vols[n].target \in Paths /\ cfg.vols[n].host \in DOMAIN Sources
  BY <1>2, ConfigsAssumption
<1>4. cfg.vols[n].id \in Labels
  BY <1>2 DEF Labels
<1>5. QED
  BY <1>2, <1>3, <1>4, ContentsAssumption

LEMMA EnsureDirFacts ==
  ASSUME NEW L, fs \in FileSystems(L), NEW p \in Paths
  PROVE  /\ EnsureDir(p) \in FileSystems(L) /\ EnsureDir(p).src = fs.src
         /\ Coherent(fs) => Coherent(EnsureDir(p))
         /\ Known(EnsureDir(p)) \subseteq Known(fs) \cup {p}
         /\ CanEnsureDir(p) =>
              \A q \in Known(EnsureDir(p)) : Related(q, p) => EnsureDir(p).tree[p] = "dir"
<1>1. PICK g \in FileSystems(L) : /\ g = Looked(fs, p) /\ g.tree = fs.tree /\ g.src = fs.src
                                  /\ Coherent(fs) => Coherent(g)
                                  /\ Known(g) \subseteq Known(fs) \cup {p}
  BY LookedFacts
<1>2. CASE Answer(fs, p) = Missing
  <2>1. EnsureDir(p) = Mkdir(g, p)
    BY <1>1, <1>2 DEF EnsureDir
  <2>2. /\ Mkdir(g, p) \in FileSystems(L) /\ Mkdir(g, p).src = g.src
        /\ Coherent(g) => Coherent(Mkdir(g, p))
        /\ Known(Mkdir(g, p)) \subseteq {q \in Known(g) : ~Related(q, p)}
    BY MkdirFacts
  <2>3. QED
    BY <1>1, <2>1, <2>2
<1>3. CASE Answer(fs, p) # Missing
  <2>1. EnsureDir(p) = g
    BY <1>1, <1>3 DEF EnsureDir
  <2>2. CanEnsureDir(p) => g.tree[p] = "dir"
    BY <1>1, <1>3 DEF CanEnsureDir
  <2>3. QED
    BY <1>1, <2>1, <2>2
<1>4. QED
  BY <1>2, <1>3

\* A mount point made ready by ensure_dir, and the mount on it.
LEMMA EnsuredMountFacts ==
  ASSUME NEW L, fs \in FileSystems(L), NEW p \in Paths, NEW label \in L, NEW content,
         \A q \in DOMAIN content : content[q] \in Kinds,
         <<>> \in DOMAIN content, content[<<>>] # "none",
         CanEnsureDir(p), \A q \in Known(fs) : IsPrefix(p, q) => q = p, Coherent(fs),
         fs' = MountOn(EnsureDir(p), p, label, content)
  PROVE  /\ fs' \in FileSystems(L) /\ Coherent(fs') /\ Known(fs') \subseteq Known(fs) \cup {p}
         /\ \A q \in Paths : fs'.src[q] = IF IsPrefix(p, q) THEN label ELSE fs.src[q]
<1>1. PICK g \in FileSystems(L) : /\ g = EnsureDir(p) /\ g.src = fs.src /\ Coherent(g)
                                  /\ Known(g) \subseteq Known(fs) \cup {p}
                                  /\ \A q \in Known(g) : Related(q, p) => g.tree[p] = "dir"
  BY EnsureDirFacts
<1>2. \A q \in Known(g) :
        IsPrefix(p, q) => /\ q = p /\ g.tree[p] # "none"
                          /\ <<>> \in DOMAIN content /\ content[<<>>] # "none"
  BY <1>1 DEF Related
<1>3. PICK h : h = MountOn(g, p, label, content)
  OBVIOUS
<1>4. /\ h \in FileSystems(L) /\ Known(h) = Known(g) /\ Coherent(h)
      /\ \A q \in Paths : h.src[q] = IF IsPrefix(p, q) THEN label ELSE g.src[q]
  BY <1>1, <1>2, <1>3, MountFacts
<1>5. fs' = h
  BY <1>1, <1>3
<1>6. QED
  BY <1>1, <1>4, <1>5

LEMMA ContentFacts ==
  ASSUME cfg \in Configs, NEW type
  PROVE  /\ \A q \in DOMAIN ContentOf(type) : ContentOf(type)[q] \in Kinds
         /\ <<>> \in DOMAIN ContentOf(type) /\ ContentOf(type)[<<>>] = "dir"
<1>1. cfg.hostshm \in Kinds
  BY ConfigsAssumption
<1>2. <<>> # <<"shm">>
  OBVIOUS
<1>3. QED
  BY <1>1, <1>2 DEF ContentOf, Kinds

\* What the root's own paths show, base file systems and cgroups.
SameShown == \A n \in DOMAIN Base : fs'.src[Base[n].at] = fs.src[Base[n].at]
SameCgroup == fs'.src[cgroup] = fs.src[cgroup]
SameEtc == fs'.src[passwd] = fs.src[passwd]

LEMMA MountOverlayFs ==
  ASSUME Typed, Cached, MountOverlay
  PROVE  fs' \in FileSystems(Labels) /\ Coherent(fs') /\ Known(fs') = {} /\ fs'.src[passwd] = "overlay"
<1>1. fs \in FileSystems(Labels) /\ Coherent(fs) /\ Known(fs) = {} /\ cfg \in Configs
  BY DEF Typed, Cached, MountOverlay, Goto
<1>2. \A q \in DOMAIN Roots[cfg.rootfs] : Roots[cfg.rootfs][q] \in Kinds
  BY <1>1, ConfigsAssumption, ContentsAssumption
<1>3. fs' = MountOn(fs, <<>>, "overlay", Roots[cfg.rootfs])
  BY DEF MountOverlay, Mounts
<1>4. "overlay" \in Labels /\ <<>> \in Paths
  BY PointFacts DEF Labels
<1>c. PICK content : content = Roots[cfg.rootfs] /\ \A q \in DOMAIN content : content[q] \in Kinds
  BY <1>2
<1>5. PICK m \in FileSystems(Labels) :
        /\ m = MountOn(fs, <<>>, "overlay", content) /\ Coherent(m) /\ Known(m) = {}
        /\ \A q \in Paths : m.src[q] = IF IsPrefix(<<>>, q) THEN "overlay" ELSE fs.src[q]
  BY <1>1, <1>c, <1>4, MountFacts
<1>6. m.src[passwd] = "overlay"
  BY <1>5, PasswdPoint
<1>7. QED
  BY <1>3, <1>c, <1>5, <1>6

LEMMA JoinFs ==
  ASSUME Typed, Cached, Join
  PROVE  fs' \in FileSystems(Labels) /\ Coherent(fs') /\ fs'.src[passwd] = "overlay"
<1>1. fs \in FileSystems(Labels) /\ Coherent(fs) /\ Known(fs) = {} /\ cfg \in Configs
  BY DEF Typed, Cached, Join, Goto
<1>2. \A q \in DOMAIN Roots[cfg.rootfs] : Roots[cfg.rootfs][q] \in Kinds
  BY <1>1, ConfigsAssumption, ContentsAssumption
<1>3. fs' = MountOn(fs, <<>>, "overlay", Roots[cfg.rootfs])
  BY DEF Join
<1>4. "overlay" \in Labels /\ <<>> \in Paths
  BY PointFacts DEF Labels
<1>c. PICK content : content = Roots[cfg.rootfs] /\ \A q \in DOMAIN content : content[q] \in Kinds
  BY <1>2
<1>5. PICK m \in FileSystems(Labels) :
        /\ m = MountOn(fs, <<>>, "overlay", content) /\ Coherent(m) /\ Known(m) = {}
        /\ \A q \in Paths : m.src[q] = IF IsPrefix(<<>>, q) THEN "overlay" ELSE fs.src[q]
  BY <1>1, <1>c, <1>4, MountFacts
<1>6. m.src[passwd] = "overlay"
  BY <1>5, PasswdPoint
<1>7. QED
  BY <1>3, <1>c, <1>5, <1>6

LEMMA MountBaseFs ==
  ASSUME Typed, Cached, MountBase
  PROVE  /\ fs' \in FileSystems(Labels) /\ Coherent(fs') /\ Known(fs') \subseteq Bases
         /\ i \in DOMAIN Base /\ fs'.src[Base[i].at] = Base[i].type
         /\ \A n \in DOMAIN Base : n # i => fs'.src[Base[n].at] = fs.src[Base[n].at]
         /\ SameEtc
<1>1. fs \in FileSystems(Labels) /\ Coherent(fs) /\ Known(fs) \subseteq Bases /\ cfg \in Configs
  BY DEF Typed, Cached, MountBase
<1>2. i \in DOMAIN Base
  <2>1. i \in Nat \ {0} /\ i <= Len(Base)
    BY DEF Typed, MountBase
  <2>2. DOMAIN Base = 1 .. 6 /\ Len(Base) = 6
    BY BaseFacts
  <2>3. QED
    BY <2>1, <2>2
<1>3. PICK p \in Paths, label \in Labels : p = Base[i].at /\ label = Base[i].type
  BY <1>2, BaseFacts, PointFacts
<1>c. PICK content : content = ContentOf(Base[i].type)
  OBVIOUS
<1>4. (\A q \in DOMAIN content : content[q] \in Kinds) /\ <<>> \in DOMAIN content /\ content[<<>>] # "none"
  BY <1>1, <1>c, ContentFacts
<1>5. CanEnsureDir(p) /\ fs' = MountOn(EnsureDir(p), p, label, content)
  BY <1>3, <1>c DEF MountBase, Mounts
<1>6. \A q \in Known(fs) : IsPrefix(p, q) => q = p
  BY <1>1, <1>2, <1>3, PointFacts DEF Bases
<1>7. /\ fs' \in FileSystems(Labels) /\ Coherent(fs') /\ Known(fs') \subseteq Known(fs) \cup {p}
      /\ \A q \in Paths : fs'.src[q] = IF IsPrefix(p, q) THEN label ELSE fs.src[q]
  BY <1>1, <1>4, <1>5, <1>6, EnsuredMountFacts
<1>8. p \in Bases
  BY <1>2, <1>3 DEF Bases
<1>9. fs'.src[p] = label
  BY <1>7, PathFacts
<1>10. \A n \in DOMAIN Base : n # i => fs'.src[Base[n].at] = fs.src[Base[n].at]
  BY <1>2, <1>3, <1>7, PointFacts
<1>11. SameEtc
  BY <1>2, <1>3, <1>7, PasswdPoint DEF SameEtc
<1>12. QED
  BY <1>1, <1>2, <1>3, <1>7, <1>8, <1>9, <1>10, <1>11

LEMMA MountCgroupsFs ==
  ASSUME Typed, Cached, MountCgroups
  PROVE  /\ fs' \in FileSystems(Labels) /\ Coherent(fs') /\ Known(fs') \subseteq Bases \cup {cgroup}
         /\ SameShown /\ SameEtc
         /\ cfg.cgroup = "no" \/ fs'.src[cgroup] \in {"cgroup2", "tmpfs"}
<1>1. fs \in FileSystems(Labels) /\ Coherent(fs) /\ Known(fs) \subseteq Bases /\ cfg \in Configs
  BY DEF Typed, Cached, MountCgroups, Goto
<1>2. CASE cfg.cgroup = "no" /\ fs' = fs
  BY <1>1, <1>2 DEF SameShown, SameEtc
<1>3. cgroup \in Paths /\ {"cgroup", "cgroup2", "tmpfs"} \subseteq Labels
  BY PointFacts DEF Labels
<1>4. CASE cfg.cgroup = "v2" /\ CanEnsureDir(cgroup)
           /\ fs' = MountOn(EnsureDir(cgroup), cgroup, "cgroup2", ContentOf("cgroup2"))
  <2>1. PICK content : content = ContentOf("cgroup2")
    OBVIOUS
  <2>2. (\A q \in DOMAIN content : content[q] \in Kinds) /\ <<>> \in DOMAIN content /\ content[<<>>] # "none"
    BY <1>1, <2>1, ContentFacts
  <2>3. \A q \in Known(fs) : IsPrefix(cgroup, q) => q = cgroup
    BY <1>1, PointFacts DEF Bases
  <2>4. /\ fs' \in FileSystems(Labels) /\ Coherent(fs') /\ Known(fs') \subseteq Known(fs) \cup {cgroup}
        /\ \A q \in Paths : fs'.src[q] = IF IsPrefix(cgroup, q) THEN "cgroup2" ELSE fs.src[q]
    BY <1>1, <1>3, <1>4, <2>1, <2>2, <2>3, EnsuredMountFacts
  <2>5. SameShown /\ SameEtc
    BY <2>4, PointFacts, PasswdPoint DEF SameShown, SameEtc
  <2>6. fs'.src[cgroup] = "cgroup2"
    BY <1>3, <2>4, PathFacts
  <2>7. QED
    BY <1>1, <2>4, <2>5, <2>6
<1>5. CASE /\ cfg.cgroup = "v1"
           /\ LET top == MountOn(Mkdir(fs, cgroup), cgroup, "tmpfs", ContentOf("tmpfs"))
                  each == {Append(cgroup, c) : c \in Controllers}
              IN fs' = [tree |-> [p \in Paths |-> IF p \in each THEN "dir" ELSE top.tree[p]],
                        src |-> [p \in Paths |-> IF p \in each THEN "cgroup" ELSE top.src[p]],
                        cache |-> Forget(top.cache, each)]
  <2>1. PICK g \in FileSystems(Labels) :
          /\ g = Mkdir(fs, cgroup) /\ g.src = fs.src /\ Coherent(g)
          /\ Known(g) \subseteq {q \in Known(fs) : ~Related(q, cgroup)}
    BY <1>1, <1>3, MkdirFacts
  <2>2. PICK content : content = ContentOf("tmpfs")
    OBVIOUS
  <2>3. \A q \in DOMAIN content : content[q] \in Kinds
    BY <1>1, <2>2, ContentFacts
  <2>4. \A q \in Known(g) : ~IsPrefix(cgroup, q)
    BY <2>1 DEF Related
  <2>5. PICK top \in FileSystems(Labels) :
          /\ top = MountOn(g, cgroup, "tmpfs", content) /\ Coherent(top) /\ Known(top) = Known(g)
          /\ \A q \in Paths : top.src[q] = IF IsPrefix(cgroup, q) THEN "tmpfs" ELSE g.src[q]
    <3>1. "tmpfs" \in Labels
      BY <1>3
    <3>2. QED
      BY <1>3, <2>1, <2>3, <2>4, <3>1, MountFacts
  <2>6. PICK each : each = {Append(cgroup, c) : c \in Controllers}
    OBVIOUS
  <2> DEFINE tree == [p \in Paths |-> IF p \in each THEN "dir" ELSE top.tree[p]]
             src == [p \in Paths |-> IF p \in each THEN "cgroup" ELSE top.src[p]]
             h == Changed(top, tree, each)
  <2>7. fs' = [tree |-> tree, src |-> src, cache |-> Forget(top.cache, each)]
    BY <1>5, <2>1, <2>2, <2>5, <2>6
  <2>8. tree \in [Paths -> Kinds] /\ \A q \in Paths : tree[q] # top.tree[q] => q \in each
    BY Fields DEF Kinds
  <2>9. src \in [Paths -> Labels] /\ \A q \in Paths : q \notin each => src[q] = top.src[q]
    BY <1>3, Fields
  <2>10. h = [tree |-> tree, src |-> top.src, cache |-> Forget(top.cache, each)]
    BY DEF Changed
  <2> HIDE DEF tree, src, h
  <2>11. /\ h \in FileSystems(Labels) /\ Coherent(h)
         /\ Known(h) \subseteq {q \in Known(top) : \A r \in each : ~Related(q, r)}
    BY <2>5, <2>8, ChangedFacts DEF h
  <2>12. fs' \in FileSystems(Labels) /\ fs'.tree = h.tree /\ fs'.cache = h.cache /\ fs'.src = src
    BY <2>7, <2>9, <2>10, <2>11 DEF FileSystems
  <2>13. Coherent(fs') /\ Known(fs') = Known(h)
    BY <2>11, <2>12 DEF Coherent, Right, Known
  <2>14. SameShown
    <3> SUFFICES ASSUME NEW n \in DOMAIN Base PROVE fs'.src[Base[n].at] = fs.src[Base[n].at]
      BY DEF SameShown
    <3>1. Base[n].at \in Paths /\ Base[n].at \notin each /\ ~IsPrefix(cgroup, Base[n].at)
      BY <2>6, PointFacts
    <3>2. QED
      BY <2>1, <2>5, <2>9, <2>12, <3>1
  <2>15. fs'.src[cgroup] = "tmpfs"
    <3>1. cgroup \notin each
      BY <2>6, PointFacts
    <3>2. QED
      BY <1>3, <2>5, <2>9, <2>12, <3>1, PathFacts
  <2>16. SameEtc
    <3>1. passwd \in Paths /\ passwd \notin each /\ ~IsPrefix(cgroup, passwd)
      BY <2>6, PasswdPoint
    <3>2. QED
      BY <2>1, <2>5, <2>9, <2>12, <3>1 DEF SameEtc
  <2>17. QED
    BY <1>1, <2>1, <2>5, <2>11, <2>12, <2>13, <2>14, <2>15, <2>16
<1>6. QED
  BY <1>2, <1>4, <1>5 DEF MountCgroups, Mounts

LEMMA SetupResolvFs ==
  ASSUME Typed, Cached, SetupResolv
  PROVE  /\ fs' \in FileSystems(Labels) /\ Coherent(fs') /\ Known(fs') \subseteq Bases \cup {cgroup}
         /\ fs'.src = fs.src
<1>1. fs \in FileSystems(Labels) /\ Coherent(fs) /\ Known(fs) \subseteq Bases \cup {cgroup}
  BY DEF Typed, Cached, SetupResolv
<1>2. etc \in Paths /\ resolvconf \in Paths /\ Related(etc, resolvconf)
  BY PointFacts
<1>3. CASE resolv = "none"
  <2>1. PICK g \in FileSystems(Labels) : /\ g = EnsureDir(etc) /\ g.src = fs.src /\ Coherent(g)
                                         /\ Known(g) \subseteq Known(fs) \cup {etc}
    BY <1>1, <1>2, EnsureDirFacts
  <2>2. fs' = Touch(g, resolvconf)
    BY <1>3, <2>1 DEF SetupResolv, CreatedResolv
  <2>3. QED
    BY <1>1, <1>2, <2>1, <2>2, TouchFacts
<1>4. CASE resolv = "nonreg"
  <2>1. PICK g \in FileSystems(Labels) : /\ g = Unlink(fs, resolvconf) /\ g.src = fs.src /\ Coherent(g)
                                         /\ Known(g) \subseteq Known(fs)
    BY <1>1, <1>2, UnlinkFacts
  <2>2. fs' = Touch(g, resolvconf)
    BY <1>4, <2>1 DEF SetupResolv, CreatedResolv
  <2>3. QED
    BY <1>1, <1>2, <2>1, <2>2, TouchFacts
<1>5. CASE resolv \notin {"none", "nonreg"}
  BY <1>1, <1>5 DEF SetupResolv, CreatedResolv
<1>6. QED
  BY <1>3, <1>4, <1>5

\* A file mounted on etc/resolv.conf, where nothing is known of that.
LEMMA ResolvMountFacts ==
  ASSUME NEW g \in FileSystems(Labels), Coherent(g), Known(g) \subseteq Bases \cup {cgroup},
         fs' = MountOn(g, resolvconf, "resolv", OneFile), g.src = fs.src
  PROVE  fs' \in FileSystems(Labels) /\ Coherent(fs') /\ SameShown /\ SameCgroup /\ SameEtc
<1>1. PICK content : content = OneFile
  OBVIOUS
<1>2. \A q \in DOMAIN content : content[q] \in Kinds
  BY <1>1 DEF OneFile, Kinds
<1>3. resolvconf \in Paths /\ cgroup \in Paths /\ "resolv" \in Labels
  BY PointFacts DEF Labels
<1>4. \A q \in Known(g) : ~IsPrefix(resolvconf, q)
  BY PointFacts DEF Bases
<1>5. PICK h \in FileSystems(Labels) :
        /\ h = MountOn(g, resolvconf, "resolv", content) /\ Coherent(h)
        /\ \A q \in Paths : h.src[q] = IF IsPrefix(resolvconf, q) THEN "resolv" ELSE g.src[q]
  BY <1>2, <1>3, <1>4, MountFacts
<1>6. fs' = h
  BY <1>1, <1>5
<1>7. SameShown /\ SameCgroup
  BY <1>3, <1>5, <1>6, PointFacts DEF SameShown, SameCgroup
<1>8. SameEtc
  BY <1>5, <1>6, PasswdPoint DEF SameEtc
<1>9. QED
  BY <1>5, <1>6, <1>7, <1>8

LEMMA BindHostFs ==
  ASSUME Typed, Cached, BindHostResolv
  PROVE  fs' \in FileSystems(Labels) /\ Coherent(fs') /\ SameShown /\ SameCgroup /\ SameEtc
<1>1. fs \in FileSystems(Labels) /\ Coherent(fs) /\ Known(fs) \subseteq Bases \cup {cgroup}
  BY DEF Typed, Cached, BindHostResolv, Goto
<1>2. PICK g \in FileSystems(Labels) : /\ g = Touch(fs, resolvconf) /\ g.src = fs.src /\ Coherent(g)
                                       /\ Known(g) \subseteq Known(fs)
  BY <1>1, PointFacts, TouchFacts
<1>3. fs' = MountOn(g, resolvconf, "resolv", OneFile)
  BY <1>2 DEF BindHostResolv, Mounts
<1>4. QED
  BY <1>1, <1>2, <1>3, ResolvMountFacts

LEMMA BindDnsFs ==
  ASSUME Typed, Cached, BindDnsTmp
  PROVE  fs' \in FileSystems(Labels) /\ Coherent(fs') /\ SameShown /\ SameCgroup /\ SameEtc
<1>1. fs \in FileSystems(Labels) /\ Coherent(fs) /\ Known(fs) \subseteq Bases \cup {cgroup}
  BY DEF Typed, Cached, BindDnsTmp, Goto
<1>2. fs' = MountOn(fs, resolvconf, "resolv", OneFile)
  BY DEF BindDnsTmp, Mounts
<1>3. QED
  BY <1>1, <1>2, ResolvMountFacts

LEMMA RunDirsFs ==
  ASSUME Typed, Cached, SetupRunDirs
  PROVE  fs' \in FileSystems(Labels) /\ Coherent(fs') /\ fs'.src = fs.src
<1>1. fs \in FileSystems(Labels) /\ Coherent(fs) /\ "dir" \in Kinds
  BY DEF Typed, Cached, Kinds
<1>2. PICK p \in Paths, q \in Paths : p = <<"run", "lock">> /\ q = <<"run", "user">>
  BY PointFacts
<1>3. PICK g \in FileSystems(Labels) : g = Made(fs, p, "dir") /\ g.src = fs.src /\ Coherent(g)
  BY <1>1, MadeFacts
<1>4. fs' = Made(g, q, "dir")
  BY <1>2, <1>3 DEF SetupRunDirs
<1>5. QED
  BY <1>1, <1>3, <1>4, MadeFacts

LEMMA DevshmFs ==
  ASSUME Typed, Cached, SetupDevshm
  PROVE  fs' \in FileSystems(Labels) /\ Coherent(fs') /\ SameShown /\ SameCgroup /\ SameEtc
<1>1. fs \in FileSystems(Labels) /\ Coherent(fs) /\ {"dir", "link"} \subseteq Kinds /\ cfg \in Configs
  BY DEF Typed, Cached, Kinds
<1>2. PICK p \in Paths, d \in Paths : p = <<"run", "shm">> /\ d = <<"dev", "shm">>
  BY PointFacts
<1>3. CASE cfg.hostshm = "link"
  <2>1. fs' = Made(fs, p, "dir") /\ "dir" \in Kinds
    BY <1>1, <1>2, <1>3 DEF SetupDevshm
  <2>2. QED
    BY <1>1, <2>1, MadeFacts DEF SameShown, SameCgroup, SameEtc
<1>4. CASE cfg.hostshm # "link"
  <2>1. "link" \in Kinds /\ "tmpfs" \in Labels
    BY <1>1 DEF Labels
  <2>2. PICK g \in FileSystems(Labels) : g = Made(fs, p, "link") /\ g.src = fs.src /\ Coherent(g)
    BY <1>1, <2>1, MadeFacts
  <2>3. PICK h \in FileSystems(Labels) : /\ h = Mkdir(g, d) /\ h.src = g.src /\ Coherent(h)
                                         /\ \A q \in Known(h) : ~Related(q, d)
    BY <2>2, MkdirFacts
  <2>4. PICK content : content = ContentOf("tmpfs")
    OBVIOUS
  <2>5. fs' = MountOn(h, d, "tmpfs", content)
    BY <1>2, <1>4, <2>2, <2>3, <2>4 DEF SetupDevshm, Mounts
  <2>6. \A q \in DOMAIN content : content[q] \in Kinds
    BY <1>1, <2>4, ContentFacts
  <2>7. \A q \in Known(h) : ~IsPrefix(d, q)
    BY <2>3 DEF Related
  <2>8. PICK m \in FileSystems(Labels) :
          /\ m = MountOn(h, d, "tmpfs", content) /\ Coherent(m)
          /\ \A q \in Paths : m.src[q] = IF IsPrefix(d, q) THEN "tmpfs" ELSE h.src[q]
    BY <2>1, <2>3, <2>6, <2>7, MountFacts
  <2>9. /\ \A n \in DOMAIN Base : Base[n].at \in Paths /\ ~IsPrefix(d, Base[n].at)
        /\ cgroup \in Paths /\ ~IsPrefix(d, cgroup)
    BY <1>2, PointFacts
  <2>10. SameShown /\ SameCgroup
    BY <2>2, <2>3, <2>5, <2>8, <2>9 DEF SameShown, SameCgroup
  <2>11. SameEtc
    BY <1>2, <2>2, <2>3, <2>5, <2>8, PasswdPoint DEF SameEtc
  <2>12. QED
    BY <2>5, <2>8, <2>10, <2>11
<1>5. QED
  BY <1>3, <1>4

LEMMA MountVolumeFs ==
  ASSUME Typed, Cached, MountVolume
  PROVE  /\ fs' \in FileSystems(Labels) /\ Coherent(fs')
         /\ \A q \in Paths :
              fs'.src[q] = IF IsPrefix(cfg.vols[i].target, q) THEN cfg.vols[i].id ELSE fs.src[q]
<1>1. fs \in FileSystems(Labels) /\ Coherent(fs) /\ cfg \in Configs
  BY DEF Typed, Cached
<1>2. i \in 1 .. Len(cfg.vols)
  <2>1. cfg.vols \in Seq(ToSet(cfg.vols))
    BY <1>1, ConfigsAssumption
  <2>2. Len(cfg.vols) \in Nat /\ i \in Nat \ {0} /\ i <= Len(cfg.vols)
    BY <2>1 DEF Typed, MountVolume
  <2>3. QED
    BY <2>2
<1>3. PICK p \in Paths, id \in Labels : p = cfg.vols[i].target /\ id = cfg.vols[i].id
  BY <1>1, <1>2, VolumeFacts
<1>c. PICK content :
        /\ content = Sources[cfg.vols[i].host]
        /\ \A q \in DOMAIN content : content[q] \in Kinds
  BY <1>1, <1>2, VolumeFacts
<1>4. PICK h \in FileSystems(Labels) : /\ fs' = MountOn(h, p, id, content) /\ h.src = fs.src
                                       /\ Coherent(h) /\ \A q \in Known(h) : ~Related(q, p)
  <2>1. CASE content[<<>>] = "dir"
    <3>1. fs' = MountOn(Mkdir(fs, p), p, id, content)
      BY <1>3, <1>c, <2>1 DEF MountVolume, Mounts
    <3>2. QED
      BY <1>1, <3>1, MkdirFacts
  <2>2. CASE content[<<>>] # "dir"
    <3>1. /\ CanMkdirOwn(fs, Front(p)) /\ CanTouch(MkdirOwn(fs, Front(p)), p)
          /\ fs' = MountOn(Touch(MkdirOwn(fs, Front(p)), p), p, id, content)
      BY <1>3, <1>c, <2>2 DEF MountVolume, Mounts
    <3>2. Front(p) \in Paths
      <4>1. p # <<>> /\ p \in Seq(STRING)
        BY <3>1, PathFacts DEF CanTouch, HasParent
      <4>2. Len(p) - 1 \in 0 .. Len(p)
        BY <4>1, EmptySeq
      <4>3. QED
        BY <4>2, PathFacts DEF Front
    <3>3. PICK g \in FileSystems(Labels) : g = MkdirOwn(fs, Front(p)) /\ g.src = fs.src /\ Coherent(g)
      BY <1>1, <3>1, <3>2, MkdirOwnFacts
    <3>4. fs' = MountOn(Touch(g, p), p, id, content)
      BY <3>1, <3>3
    <3>5. QED
      BY <3>3, <3>4, TouchFacts
  <2>3. QED
    BY <2>1, <2>2
<1>5. \A q \in Known(h) : ~IsPrefix(p, q)
  BY <1>4 DEF Related
<1>6. PICK m \in FileSystems(Labels) :
        /\ m = MountOn(h, p, id, content) /\ Coherent(m)
        /\ \A q \in Paths : m.src[q] = IF IsPrefix(p, q) THEN id ELSE h.src[q]
  BY <1>c, <1>4, <1>5, MountFacts
<1>7. fs' = m
  BY <1>4, <1>6
<1>8. QED
  BY <1>3, <1>4, <1>6, <1>7

-----------------------------------------------------------------------------
(* The steps preserve the invariant.                                      *)

\* Types.
LEMMA TypedStep ==
  ASSUME Typed, Cached, Next
  PROVE  Typed'
<1> USE DEF Typed, Goto, Places, Mounting, Entering, Running, Over
<1>1. CASE Nosuid
  BY <1>1 DEF Nosuid, fsvars
<1>2. CASE SudoReexec
  BY <1>2 DEF SudoReexec, fsvars
<1>3. CASE Escalate
  BY <1>3 DEF Escalate, fsvars
<1>4. CASE MountNsSetup
  BY <1>4 DEF MountNsSetup, fsvars
<1>5. CASE MountOverlay
  BY <1>5, MountOverlayFs DEF MountOverlay, fsvars
<1>6. CASE MountBase
  BY <1>6, MountBaseFs DEF MountBase, fsvars
<1>7. CASE BaseDone
  BY <1>7 DEF BaseDone, fsvars
<1>8. CASE MountCgroups
  BY <1>8, MountCgroupsFs DEF MountCgroups, fsvars
<1>9. CASE SetupResolv
  BY <1>9, SetupResolvFs DEF SetupResolv, fsvars
<1>10. CASE BindHostResolv
  BY <1>10, BindHostFs DEF BindHostResolv, fsvars
<1>11. CASE WriteDnsTmp
  BY <1>11 DEF WriteDnsTmp, fsvars
<1>12. CASE BindDnsTmp
  BY <1>12, BindDnsFs DEF BindDnsTmp, fsvars
<1>13. CASE DnsTmpFails
  BY <1>13 DEF DnsTmpFails, fsvars
<1>14. CASE SetupRunDirs
  BY <1>14, RunDirsFs DEF SetupRunDirs, fsvars
<1>15. CASE SetupDevshm
  BY <1>15, DevshmFs DEF SetupDevshm, fsvars
<1>16. CASE MountVolume
  BY <1>16, MountVolumeFs DEF MountVolume, fsvars
<1>17. CASE VolumesDone
  BY <1>17 DEF VolumesDone, fsvars
<1>18. CASE ResolveUser
  BY <1>18 DEF ResolveUser, fsvars
<1>19. CASE SetupGui
  BY <1>19 DEF SetupGui, fsvars
<1>20. CASE MoveAndChroot
  BY <1>20 DEF MoveAndChroot, fsvars
<1>21. CASE RunInit
  BY <1>21 DEF RunInit, fsvars
<1>22. CASE Reread
  BY <1>22 DEF Reread, fsvars
<1>23. CASE Join
  BY <1>23, JoinFs DEF Join, fsvars
<1>24. CASE Launch
  BY <1>24 DEF Launch, fsvars
<1>25. CASE SetRegid
  BY <1>25 DEF SetRegid, fsvars
<1>26. CASE SetGroups
  BY <1>26 DEF SetGroups, fsvars
<1>27. CASE SetReuid
  BY <1>27 DEF SetReuid, fsvars
<1>28. CASE Fails
  BY <1>28 DEF Fails, fsvars
<1>29. CASE Kill
  BY <1>29 DEF Kill, fsvars
<1>30. CASE Stop
  BY <1>30 DEF Stop, vars, fsvars
<1>31. QED
  BY <1>1, <1>2, <1>3, <1>4, <1>5, <1>6, <1>7, <1>8, <1>9, <1>10, <1>11, <1>12, <1>13, <1>14,
     <1>15, <1>16, <1>17, <1>18, <1>19, <1>20, <1>21, <1>22, <1>23, <1>24, <1>25, <1>26, <1>27,
     <1>28, <1>29, <1>30 DEF Next

\* What is remembered is right, and of no path below a mount point to come.
LEMMA CachedStep ==
  ASSUME Typed, Cached, Next
  PROVE  Cached'
<1> USE DEF Cached, Goto, Mounting, Entering, Running, Over
<1>1. CASE Nosuid
  BY <1>1 DEF Nosuid, fsvars
<1>2. CASE SudoReexec
  BY <1>2 DEF SudoReexec, fsvars
<1>3. CASE Escalate
  BY <1>3 DEF Escalate, fsvars
<1>4. CASE MountNsSetup
  BY <1>4 DEF MountNsSetup, fsvars
<1>5. CASE MountOverlay
  BY <1>5, MountOverlayFs DEF MountOverlay, fsvars
<1>6. CASE MountBase
  BY <1>6, MountBaseFs DEF MountBase, fsvars
<1>7. CASE BaseDone
  BY <1>7 DEF BaseDone, fsvars
<1>8. CASE MountCgroups
  BY <1>8, MountCgroupsFs DEF MountCgroups, fsvars
<1>9. CASE SetupResolv
  BY <1>9, SetupResolvFs DEF SetupResolv, fsvars
<1>10. CASE BindHostResolv
  BY <1>10, BindHostFs DEF BindHostResolv, fsvars
<1>11. CASE WriteDnsTmp
  BY <1>11 DEF WriteDnsTmp, fsvars
<1>12. CASE BindDnsTmp
  BY <1>12, BindDnsFs DEF BindDnsTmp, fsvars
<1>13. CASE DnsTmpFails
  BY <1>13 DEF DnsTmpFails, fsvars
<1>14. CASE SetupRunDirs
  BY <1>14, RunDirsFs DEF SetupRunDirs, fsvars
<1>15. CASE SetupDevshm
  BY <1>15, DevshmFs DEF SetupDevshm, fsvars
<1>16. CASE MountVolume
  BY <1>16, MountVolumeFs DEF MountVolume, fsvars
<1>17. CASE VolumesDone
  BY <1>17 DEF VolumesDone, fsvars
<1>18. CASE ResolveUser
  BY <1>18 DEF ResolveUser, fsvars
<1>19. CASE SetupGui
  BY <1>19 DEF SetupGui, fsvars
<1>20. CASE MoveAndChroot
  BY <1>20 DEF MoveAndChroot, fsvars
<1>21. CASE RunInit
  BY <1>21 DEF RunInit, fsvars
<1>22. CASE Reread
  BY <1>22 DEF Reread, fsvars
<1>23. CASE Join
  BY <1>23, JoinFs DEF Join, fsvars
<1>24. CASE Launch
  BY <1>24 DEF Launch, fsvars
<1>25. CASE SetRegid
  BY <1>25 DEF SetRegid, fsvars
<1>26. CASE SetGroups
  BY <1>26 DEF SetGroups, fsvars
<1>27. CASE SetReuid
  BY <1>27 DEF SetReuid, fsvars
<1>28. CASE Fails
  BY <1>28 DEF Fails, fsvars
<1>29. CASE Kill
  BY <1>29 DEF Kill, fsvars
<1>30. CASE Stop
  BY <1>30 DEF Stop, vars, fsvars
<1>31. QED
  BY <1>1, <1>2, <1>3, <1>4, <1>5, <1>6, <1>7, <1>8, <1>9, <1>10, <1>11, <1>12, <1>13, <1>14,
     <1>15, <1>16, <1>17, <1>18, <1>19, <1>20, <1>21, <1>22, <1>23, <1>24, <1>25, <1>26, <1>27,
     <1>28, <1>29, <1>30 DEF Next

\* A mount needs the private namespace.
LEMMA KeptStep ==
  ASSUME Typed, Kept, Next
  PROVE  Kept'
<1> USE DEF Kept, Goto, Mounting, Entering, Running, Over, Mounts
<1>1. CASE Nosuid
  BY <1>1 DEF Nosuid, fsvars
<1>2. CASE SudoReexec
  BY <1>2 DEF SudoReexec, fsvars
<1>3. CASE Escalate
  BY <1>3 DEF Escalate, fsvars
<1>4. CASE MountNsSetup
  BY <1>4 DEF MountNsSetup, fsvars
<1>5. CASE MountOverlay
  BY <1>5 DEF MountOverlay, fsvars
<1>6. CASE MountBase
  BY <1>6 DEF MountBase, fsvars
<1>7. CASE BaseDone
  BY <1>7 DEF BaseDone, fsvars
<1>8. CASE MountCgroups
  <2>1. pc = "cgroups" /\ pc' = "resolv" /\ private' = private
    BY <1>8 DEF MountCgroups
  <2>2. ~leaked /\ private
    BY <2>1
  <2>3. leaked' = leaked \/ leaked' = (leaked \/ ~private)
    BY <1>8, Zenon DEF MountCgroups
  <2>4. ~leaked'
    BY <2>2, <2>3, Zenon
  <2>5. QED
    BY <2>1, <2>2, <2>4
<1>9. CASE SetupResolv
  BY <1>9 DEF SetupResolv, fsvars
<1>10. CASE BindHostResolv
  BY <1>10 DEF BindHostResolv, fsvars
<1>11. CASE WriteDnsTmp
  BY <1>11 DEF WriteDnsTmp, fsvars
<1>12. CASE BindDnsTmp
  BY <1>12 DEF BindDnsTmp, fsvars
<1>13. CASE DnsTmpFails
  BY <1>13 DEF DnsTmpFails, fsvars
<1>14. CASE SetupRunDirs
  BY <1>14 DEF SetupRunDirs, fsvars
<1>15. CASE SetupDevshm
  BY <1>15 DEF SetupDevshm, fsvars
<1>16. CASE MountVolume
  BY <1>16 DEF MountVolume, fsvars
<1>17. CASE VolumesDone
  BY <1>17 DEF VolumesDone, fsvars
<1>18. CASE ResolveUser
  BY <1>18 DEF ResolveUser, fsvars
<1>19. CASE SetupGui
  BY <1>19 DEF SetupGui, fsvars
<1>20. CASE MoveAndChroot
  BY <1>20 DEF MoveAndChroot, fsvars
<1>21. CASE RunInit
  BY <1>21 DEF RunInit, fsvars
<1>22. CASE Reread
  BY <1>22 DEF Reread, fsvars
<1>23. CASE Join
  BY <1>23 DEF Join, fsvars
<1>24. CASE Launch
  BY <1>24 DEF Launch, fsvars
<1>25. CASE SetRegid
  BY <1>25 DEF SetRegid, fsvars
<1>26. CASE SetGroups
  BY <1>26 DEF SetGroups, fsvars
<1>27. CASE SetReuid
  BY <1>27 DEF SetReuid, fsvars
<1>28. CASE Fails
  BY <1>28 DEF Fails, fsvars
<1>29. CASE Kill
  BY <1>29 DEF Kill, fsvars
<1>30. CASE Stop
  BY <1>30 DEF Stop, vars, fsvars
<1>31. QED
  BY <1>1, <1>2, <1>3, <1>4, <1>5, <1>6, <1>7, <1>8, <1>9, <1>10, <1>11, <1>12, <1>13, <1>14,
     <1>15, <1>16, <1>17, <1>18, <1>19, <1>20, <1>21, <1>22, <1>23, <1>24, <1>25, <1>26, <1>27,
     <1>28, <1>29, <1>30 DEF Next

\* A mount elsewhere, and a step that mounts nothing, leave what shows.
LEMMA ShownFrame ==
  ASSUME cfg' = cfg
  PROVE  /\ SameShown => \A n \in DOMAIN Base : BaseShown(n) => BaseShown(n)'
         /\ SameCgroup => (CgroupShown => CgroupShown')
         /\ fs'.src = fs.src => /\ SameShown /\ SameCgroup
                               /\ \A n \in DOMAIN cfg.vols : VolumeShown(n) => VolumeShown(n)'
<1>1. \A p, k : Hidden(p, k) => Hidden(p, k)'
  BY DEF Hidden
<1>2. SameShown => \A n \in DOMAIN Base : BaseShown(n) => BaseShown(n)'
  BY <1>1 DEF SameShown, BaseShown
<1>3. SameCgroup => (CgroupShown => CgroupShown')
  BY <1>1 DEF SameCgroup, CgroupShown
<1>4. fs'.src = fs.src => \A n \in DOMAIN cfg.vols : VolumeShown(n) => VolumeShown(n)'
  BY <1>1 DEF VolumeShown
<1>5. QED
  BY <1>2, <1>3, <1>4 DEF SameShown, SameCgroup

\* What shows goes on to, unless a volume hides it.
LEMMA ShownStep ==
  ASSUME Typed, Cached, Shown, Next
  PROVE  Shown'
<1>c. cfg' = cfg
  BY DEF Next, Nosuid, SudoReexec, Escalate, MountNsSetup, MountOverlay, MountBase, BaseDone,
     MountCgroups, SetupResolv, BindHostResolv, WriteDnsTmp, BindDnsTmp, DnsTmpFails,
     SetupRunDirs, SetupDevshm, MountVolume, VolumesDone, ResolveUser, SetupGui, MoveAndChroot,
     RunInit, Reread, Join, Launch, SetRegid, SetGroups, SetReuid, Fails, Kill, Stop, vars
<1>s. Shown
  OBVIOUS
<1>d. DOMAIN cfg.vols = 1 .. Len(cfg.vols) /\ Len(cfg.vols) \in Nat
  <2>1. cfg.vols \in Seq(ToSet(cfg.vols))
    BY ConfigsAssumption DEF Typed
  <2>2. QED
    BY <2>1
<1>v. i = 1 => \A n \in DOMAIN cfg.vols : ~(n < i)
  BY <1>d
<1>t. /\ cfg.mode = "start" => pc # "join"
      /\ pc \notin {"base", "volumes"} \cup Entering \cup Running \cup Over => i = 1
  BY DEF Typed
<1> USE DEF Shown, InStart, Goto, Entering, Running, Over
<1>1. CASE Nosuid
  BY <1>1, <1>c, <1>s, <1>t, <1>v, ShownFrame DEF Nosuid, fsvars
<1>2. CASE SudoReexec
  BY <1>2, <1>c, <1>s, <1>t, <1>v, ShownFrame DEF SudoReexec, fsvars
<1>3. CASE Escalate
  BY <1>3, <1>c, <1>s, <1>t, <1>v, ShownFrame DEF Escalate, fsvars
<1>4. CASE MountNsSetup
  BY <1>4, <1>c, <1>s, <1>t, <1>v, ShownFrame DEF MountNsSetup, fsvars
<1>5. CASE MountOverlay
  BY <1>5, <1>c, <1>s, <1>t, <1>v, ShownFrame DEF MountOverlay, fsvars
<1>6. CASE MountBase
  <2>1. /\ i \in DOMAIN Base /\ fs'.src[Base[i].at] = Base[i].type
        /\ \A n \in DOMAIN Base : n # i => fs'.src[Base[n].at] = fs.src[Base[n].at]
    BY <1>6, MountBaseFs
  <2>2. pc = "base" /\ pc' = "base" /\ i' = i + 1
    BY <1>6 DEF MountBase
  <2>3. cfg.mode = "start" => \A n \in DOMAIN Base : n < i => BaseShown(n)
    BY <1>s, <2>2
  <2>4. ASSUME cfg.mode = "start", NEW n \in DOMAIN Base, n < i' PROVE BaseShown(n)' 
    <3>1. n \in Nat /\ i \in Nat
      BY BaseFacts, SMTT(30) DEF Typed
    <3>2. CASE n = i
      BY <2>1, <3>2 DEF BaseShown
    <3>3. CASE n < i
      <4>1. BaseShown(n) /\ fs'.src[Base[n].at] = fs.src[Base[n].at]
        BY <2>1, <2>3, <2>4, <3>1, <3>3
      <4>2. Hidden(Base[n].at, 1) => Hidden(Base[n].at, 1)'
        BY <1>c DEF Hidden
      <4>3. QED
        BY <4>1, <4>2 DEF BaseShown
    <3>4. QED
      BY <2>2, <2>4, <3>1, <3>2, <3>3
  <2>5. QED
    BY <1>c, <2>2, <2>4
<1>7. CASE BaseDone
  <2>1. i > Len(Base) /\ pc = "base" /\ pc' = "cgroups" /\ fs' = fs
    BY <1>7 DEF BaseDone, Goto
  <2>2. \A n \in DOMAIN Base : n < i
    BY <2>1, BaseFacts, SMTT(30) DEF Typed
  <2>3. QED
    BY <1>c, <1>s, <2>1, <2>2, ShownFrame
<1>8. CASE MountCgroups
  <2>1. SameShown /\ (cfg.cgroup = "no" \/ fs'.src[cgroup] \in {"cgroup2", "tmpfs"})
    BY <1>8, MountCgroupsFs
  <2>2. CgroupShown'
    BY <1>c, <2>1 DEF CgroupShown
  <2>3. pc = "cgroups" /\ pc' = "resolv"
    BY <1>8 DEF MountCgroups, Goto
  <2>4. QED
    BY <1>c, <1>s, <1>t, <1>v, <2>1, <2>2, <2>3, ShownFrame
<1>9. CASE SetupResolv
  BY <1>9, <1>c, <1>s, <1>t, <1>v, ShownFrame, SetupResolvFs DEF SetupResolv, fsvars
<1>10. CASE BindHostResolv
  BY <1>10, <1>c, <1>s, <1>t, <1>v, ShownFrame, BindHostFs DEF BindHostResolv, fsvars
<1>11. CASE WriteDnsTmp
  BY <1>11, <1>c, <1>s, <1>t, <1>v, ShownFrame DEF WriteDnsTmp, fsvars
<1>12. CASE BindDnsTmp
  BY <1>12, <1>c, <1>s, <1>t, <1>v, ShownFrame, BindDnsFs DEF BindDnsTmp, fsvars
<1>13. CASE DnsTmpFails
  BY <1>13, <1>c, <1>s, <1>t, <1>v, ShownFrame DEF DnsTmpFails, fsvars
<1>14. CASE SetupRunDirs
  BY <1>14, <1>c, <1>s, <1>t, <1>v, ShownFrame, RunDirsFs DEF SetupRunDirs, fsvars
<1>15. CASE SetupDevshm
  BY <1>15, <1>c, <1>s, <1>t, <1>v, ShownFrame, DevshmFs DEF SetupDevshm, fsvars
<1>16. CASE MountVolume
  <2>1. \A q \in Paths :
          fs'.src[q] = IF IsPrefix(cfg.vols[i].target, q) THEN cfg.vols[i].id ELSE fs.src[q]
    BY <1>16, MountVolumeFs
  <2>2. pc = "volumes" /\ pc' = "volumes" /\ i' = i + 1 /\ i <= Len(cfg.vols) /\ i \in Nat \ {0}
    BY <1>16 DEF MountVolume, Typed
  <2>3. i \in 1 .. Len(cfg.vols) /\ Len(cfg.vols) \in Nat /\ DOMAIN cfg.vols = 1 .. Len(cfg.vols)
    BY <1>d, <2>2
  <2>4. \A p \in Paths, k \in 1 .. i : Hidden(p, k)' \/ (~Hidden(p, k) /\ fs'.src[p] = fs.src[p])
    <3> SUFFICES ASSUME NEW p \in Paths, NEW k \in 1 .. i, ~Hidden(p, k)'
                 PROVE  ~Hidden(p, k) /\ fs'.src[p] = fs.src[p]
      OBVIOUS
    <3>1. \A n \in k .. Len(cfg.vols) : ~IsPrefix(cfg.vols[n].target, p)
      BY <1>c DEF Hidden
    <3>2. i \in k .. Len(cfg.vols)
      BY <2>3
    <3>3. QED
      BY <2>1, <3>1, <3>2 DEF Hidden
  <2>5. cfg.mode = "start" => /\ \A n \in DOMAIN Base : BaseShown(n)
                              /\ CgroupShown
                              /\ \A n \in DOMAIN cfg.vols : n < i => VolumeShown(n)
    BY <1>s, <2>2
  <2>6. ASSUME NEW n \in DOMAIN Base, BaseShown(n) PROVE BaseShown(n)'
    <3>1. Base[n].at \in Paths /\ 1 \in 1 .. i
      BY <2>2, PointFacts
    <3>2. QED
      BY <2>4, <2>6, <3>1 DEF BaseShown
  <2>7. ASSUME CgroupShown PROVE CgroupShown'
    <3>1. cgroup \in Paths /\ 1 \in 1 .. i
      BY <2>2, PointFacts
    <3>2. QED
      BY <1>c, <2>4, <2>7, <3>1 DEF CgroupShown
  <2>8. ASSUME NEW n \in DOMAIN cfg.vols, n < i', n < i => VolumeShown(n) PROVE VolumeShown(n)'
    <3>1. n \in Nat /\ cfg.vols[n].target \in Paths
      BY <1>d, <2>3, VolumeFacts DEF Typed
    <3>2. CASE n = i
      BY <1>c, <2>1, <3>1, <3>2, PathFacts DEF VolumeShown
    <3>3. CASE n < i
      <4>1. n + 1 \in 1 .. i /\ VolumeShown(n)
        BY <2>2, <2>8, <3>1, <3>3
      <4>2. PICK t \in Paths : t = cfg.vols[n].target
        BY <3>1
      <4>3. Hidden(t, n + 1)' \/ (~Hidden(t, n + 1) /\ fs'.src[t] = fs.src[t])
        BY <2>4, <4>1
      <4>4. Hidden(t, n + 1) \/ fs.src[t] = cfg.vols[n].id
        BY <4>1, <4>2 DEF VolumeShown
      <4>5. Hidden(t, n + 1)' \/ fs'.src[t] = cfg.vols[n].id
        BY <4>3, <4>4
      <4>6. QED
        BY <1>c, <4>2, <4>5 DEF VolumeShown, Hidden
    <3>4. QED
      BY <2>2, <2>8, <3>1, <3>2, <3>3
  <2>9. QED
    BY <1>c, <2>2, <2>5, <2>6, <2>7, <2>8
<1>17. CASE VolumesDone
  <2>1. i > Len(cfg.vols) /\ pc = "volumes" /\ pc' = "user" /\ fs' = fs
    BY <1>17 DEF VolumesDone, Goto, fsvars
  <2>2. \A n \in DOMAIN cfg.vols : n < i
    BY <1>d, <2>1 DEF Typed
  <2>3. QED
    BY <1>c, <1>s, <2>1, <2>2, ShownFrame
<1>18. CASE ResolveUser
  BY <1>18, <1>c, <1>s, <1>t, <1>v, ShownFrame DEF ResolveUser, fsvars
<1>19. CASE SetupGui
  BY <1>19, <1>c, <1>s, <1>t, <1>v, ShownFrame DEF SetupGui, fsvars
<1>20. CASE MoveAndChroot
  BY <1>20, <1>c, <1>s, <1>t, <1>v, ShownFrame DEF MoveAndChroot, fsvars
<1>21. CASE RunInit
  BY <1>21, <1>c, <1>s, <1>t, <1>v, ShownFrame DEF RunInit, fsvars
<1>22. CASE Reread
  BY <1>22, <1>c, <1>s, <1>t, <1>v, ShownFrame DEF Reread, fsvars
<1>23. CASE Join
  BY <1>23, <1>c, <1>s, <1>t, <1>v, ShownFrame DEF Join, fsvars
<1>24. CASE Launch
  BY <1>24, <1>c, <1>s, <1>t, <1>v, ShownFrame DEF Launch, fsvars
<1>25. CASE SetRegid
  BY <1>25, <1>c, <1>s, <1>t, <1>v, ShownFrame DEF SetRegid, fsvars
<1>26. CASE SetGroups
  BY <1>26, <1>c, <1>s, <1>t, <1>v, ShownFrame DEF SetGroups, fsvars
<1>27. CASE SetReuid
  BY <1>27, <1>c, <1>s, <1>t, <1>v, ShownFrame DEF SetReuid, fsvars
<1>28. CASE Fails
  BY <1>28, <1>c, <1>s, <1>t, <1>v, ShownFrame DEF Fails, fsvars
<1>29. CASE Kill
  BY <1>29, <1>c, <1>s, <1>t, <1>v, ShownFrame DEF Kill, fsvars
<1>30. CASE Stop
  BY <1>30, <1>c, <1>s, <1>t, <1>v, ShownFrame DEF Stop, vars, fsvars
<1>31. QED
  BY <1>1, <1>2, <1>3, <1>4, <1>5, <1>6, <1>7, <1>8, <1>9, <1>10, <1>11, <1>12, <1>13, <1>14,
     <1>15, <1>16, <1>17, <1>18, <1>19, <1>20, <1>21, <1>22, <1>23, <1>24, <1>25, <1>26, <1>27,
     <1>28, <1>29, <1>30 DEF Next

\* The ways to etc/resolv.conf.
LEMMA ServedStep ==
  ASSUME Typed, Served, Next
  PROVE  Served'
<1> USE DEF Served, Typed, InStart, Goto, Entering, Running, Over, Places, Mounting
<1>1. CASE Nosuid
  BY <1>1 DEF Nosuid, fsvars
<1>2. CASE SudoReexec
  BY <1>2 DEF SudoReexec, fsvars
<1>3. CASE Escalate
  BY <1>3 DEF Escalate, fsvars
<1>4. CASE MountNsSetup
  BY <1>4 DEF MountNsSetup, fsvars
<1>5. CASE MountOverlay
  BY <1>5 DEF MountOverlay, fsvars
<1>6. CASE MountBase
  BY <1>6 DEF MountBase, fsvars
<1>7. CASE BaseDone
  BY <1>7 DEF BaseDone, fsvars
<1>8. CASE MountCgroups
  BY <1>8 DEF MountCgroups, fsvars
<1>9. CASE SetupResolv
  <2>1. pc = "resolv" /\ cfg' = cfg /\ dnstmp' = dnstmp
    BY <1>9 DEF SetupResolv
  <2>2. resolv' = IF resolv \in {"none", "nonreg"} THEN "empty" ELSE resolv
    BY <1>9 DEF SetupResolv
  <2>3. pc' = IF ~ReplacesResolv THEN "rundirs"
              ELSE IF NeedsDefaultDns THEN "dnstmp" ELSE "bindhost"
    BY <1>9 DEF SetupResolv
  <2>4. cfg.net /\ ~ReplacesResolv => resolv = "real"
    <3>1. ~(cfg.net /\ resolv = "big")
      BY <1>9 DEF SetupResolv
    <3>2. QED
      BY <3>1 DEF ReplacesResolv
  <2>5. cfg.net /\ ~NeedsDefaultDns => cfg.hostresolv = "real"
    BY DEF NeedsDefaultDns
  <2>6. QED
    BY <2>1, <2>2, <2>3, <2>4, <2>5
<1>10. CASE BindHostResolv
  <2>1. pc = "bindhost" /\ pc' = "rundirs" /\ cfg' = cfg /\ dnstmp' = dnstmp /\ resolv' = cfg.hostresolv
    BY <1>10 DEF BindHostResolv
  <2>2. cfg.hostresolv \in {"none", "local", "real"}
    BY ConfigsAssumption
  <2>3. QED
    BY <2>1, <2>2
<1>11. CASE WriteDnsTmp
  BY <1>11 DEF WriteDnsTmp, fsvars
<1>12. CASE BindDnsTmp
  BY <1>12 DEF BindDnsTmp, fsvars
<1>13. CASE DnsTmpFails
  BY <1>13 DEF DnsTmpFails, fsvars
<1>14. CASE SetupRunDirs
  BY <1>14 DEF SetupRunDirs, fsvars
<1>15. CASE SetupDevshm
  BY <1>15 DEF SetupDevshm, fsvars
<1>16. CASE MountVolume
  BY <1>16 DEF MountVolume, fsvars
<1>17. CASE VolumesDone
  BY <1>17 DEF VolumesDone, fsvars
<1>18. CASE ResolveUser
  BY <1>18 DEF ResolveUser, fsvars
<1>19. CASE SetupGui
  BY <1>19 DEF SetupGui, fsvars
<1>20. CASE MoveAndChroot
  BY <1>20 DEF MoveAndChroot, fsvars
<1>21. CASE RunInit
  BY <1>21 DEF RunInit, fsvars
<1>22. CASE Reread
  BY <1>22 DEF Reread, fsvars
<1>23. CASE Join
  BY <1>23 DEF Join, fsvars
<1>24. CASE Launch
  BY <1>24 DEF Launch, fsvars
<1>25. CASE SetRegid
  BY <1>25 DEF SetRegid, fsvars
<1>26. CASE SetGroups
  BY <1>26 DEF SetGroups, fsvars
<1>27. CASE SetReuid
  BY <1>27 DEF SetReuid, fsvars
<1>28. CASE Fails
  BY <1>28 DEF Fails, fsvars
<1>29. CASE Kill
  BY <1>29 DEF Kill, fsvars
<1>30. CASE Stop
  BY <1>30 DEF Stop, vars, fsvars
<1>31. QED
  BY <1>1, <1>2, <1>3, <1>4, <1>5, <1>6, <1>7, <1>8, <1>9, <1>10, <1>11, <1>12, <1>13, <1>14,
     <1>15, <1>16, <1>17, <1>18, <1>19, <1>20, <1>21, <1>22, <1>23, <1>24, <1>25, <1>26, <1>27,
     <1>28, <1>29, <1>30 DEF Next

\* sudo is called by a plain binary alone, and leaves a set-uid one.
LEMMA OnceStep ==
  ASSUME Once, Next
  PROVE  Once'
<1> USE DEF Once, privvars
<1>1. CASE Nosuid
  BY <1>1 DEF Nosuid, fsvars
<1>2. CASE SudoReexec
  <2>1. /\ ~(binary = "suid") /\ execs' = execs + 1 /\ cfg' = cfg
        /\ cfg.sudofixes => binary' = "suid"
    BY <1>2, Zenon DEF SudoReexec, IsSuidBinary
  <2>2. QED
    BY <2>1
<1>3. CASE Escalate
  BY <1>3 DEF Escalate, fsvars
<1>4. CASE MountNsSetup
  BY <1>4 DEF MountNsSetup, fsvars
<1>5. CASE MountOverlay
  BY <1>5 DEF MountOverlay, fsvars
<1>6. CASE MountBase
  BY <1>6 DEF MountBase, fsvars
<1>7. CASE BaseDone
  BY <1>7 DEF BaseDone, fsvars
<1>8. CASE MountCgroups
  BY <1>8 DEF MountCgroups, fsvars
<1>9. CASE SetupResolv
  BY <1>9 DEF SetupResolv, fsvars
<1>10. CASE BindHostResolv
  BY <1>10 DEF BindHostResolv, fsvars
<1>11. CASE WriteDnsTmp
  BY <1>11 DEF WriteDnsTmp, fsvars
<1>12. CASE BindDnsTmp
  BY <1>12 DEF BindDnsTmp, fsvars
<1>13. CASE DnsTmpFails
  BY <1>13 DEF DnsTmpFails, fsvars
<1>14. CASE SetupRunDirs
  BY <1>14 DEF SetupRunDirs, fsvars
<1>15. CASE SetupDevshm
  BY <1>15 DEF SetupDevshm, fsvars
<1>16. CASE MountVolume
  BY <1>16 DEF MountVolume, fsvars
<1>17. CASE VolumesDone
  BY <1>17 DEF VolumesDone, fsvars
<1>18. CASE ResolveUser
  BY <1>18 DEF ResolveUser, fsvars
<1>19. CASE SetupGui
  BY <1>19 DEF SetupGui, fsvars
<1>20. CASE MoveAndChroot
  BY <1>20 DEF MoveAndChroot, fsvars
<1>21. CASE RunInit
  BY <1>21 DEF RunInit, fsvars
<1>22. CASE Reread
  BY <1>22 DEF Reread, fsvars
<1>23. CASE Join
  BY <1>23 DEF Join, fsvars
<1>24. CASE Launch
  BY <1>24 DEF Launch, fsvars
<1>25. CASE SetRegid
  BY <1>25 DEF SetRegid, fsvars
<1>26. CASE SetGroups
  BY <1>26 DEF SetGroups, fsvars
<1>27. CASE SetReuid
  BY <1>27 DEF SetReuid, fsvars
<1>28. CASE Fails
  BY <1>28 DEF Fails, fsvars
<1>29. CASE Kill
  BY <1>29 DEF Kill, fsvars
<1>30. CASE Stop
  BY <1>30 DEF Stop, vars, fsvars
<1>31. QED
  BY <1>1, <1>2, <1>3, <1>4, <1>5, <1>6, <1>7, <1>8, <1>9, <1>10, <1>11, <1>12, <1>13, <1>14,
     <1>15, <1>16, <1>17, <1>18, <1>19, <1>20, <1>21, <1>22, <1>23, <1>24, <1>25, <1>26, <1>27,
     <1>28, <1>29, <1>30 DEF Next

-----------------------------------------------------------------------------
(* The invariant holds, and what it says.                                  *)

LEMMA InitInvariant == Init => Invariant
<1> SUFFICES ASSUME Init PROVE Invariant
  OBVIOUS
<1>1. cfg \in Configs /\ pc = "main" /\ i = 1 /\ ~leaked /\ execs = 1 /\ ~dnstmp /\ dnstmp \in BOOLEAN
  BY DEF Init
<1>2. resolv \in {"none", "nonreg", "empty", "local", "big", "real"}
  BY ConfigsAssumption DEF Init
<1>3. fs = [tree |-> [p \in Paths |-> IF p = <<>> THEN "dir" ELSE "none"],
            src |-> [p \in Paths |-> "host"], cache |-> EmptyCache]
  BY DEF Init
<1>4. /\ [p \in Paths |-> IF p = <<>> THEN "dir" ELSE "none"] \in [Paths -> Kinds]
      /\ [p \in Paths |-> "host"] \in [Paths -> Labels]
  BY DEF Kinds, Labels
<1>5. EmptyCache \in [1 .. IO_CACHE_MAX -> Entries] /\ \A k \in 1 .. IO_CACHE_MAX : EmptyCache[k] = NoEntry
  BY DEF EmptyCache, Entries
<1>6. fs \in FileSystems(Labels) /\ \A k \in 1 .. IO_CACHE_MAX : fs.cache[k] = NoEntry
  BY <1>3, <1>4, <1>5 DEF FileSystems
<1>7. Coherent(fs) /\ Known(fs) = {}
  BY <1>6 DEF Coherent, Right, Known
<1>8. Typed
  BY <1>1, <1>6 DEF Typed, Places, Entering, Running, Over
<1>9. Cached /\ Kept /\ Shown /\ Served /\ Once
  BY <1>1, <1>2, <1>7 DEF Cached, Kept, Shown, Served, Once, InStart, Mounting
<1>10. QED
  BY <1>8, <1>9 DEF Invariant

LEMMA NextInvariant == Invariant /\ [Next]_vars => Invariant'
<1> SUFFICES ASSUME Invariant, [Next]_vars PROVE Invariant'
  OBVIOUS
<1>1. CASE Next
  BY <1>1, TypedStep, CachedStep, KeptStep, ShownStep, ServedStep, OnceStep DEF Invariant
<1>2. CASE UNCHANGED vars
  <2>1. Stop \/ pc \notin Over
    BY <1>2 DEF Stop
  <2>2. UNCHANGED <<cfg, pc, i, fs, private, leaked, resolv, dnstmp, execs, binary>>
    BY <1>2 DEF vars, fsvars, privvars
  <2>3. Typed' /\ Cached' /\ Kept' /\ Once'
    BY <2>2 DEF Invariant, Typed, Cached, Kept, Once
  <2>4. Shown' /\ Served'
    BY <2>2 DEF Invariant, Shown, Served, InStart, BaseShown, CgroupShown, VolumeShown, Hidden
  <2>5. QED
    BY <2>3, <2>4 DEF Invariant
<1>3. QED
  BY <1>1, <1>2

\* The invariant is one.
THEOREM Invariance == Spec => []Invariant
<1>1. Init => Invariant
  BY InitInvariant
<1>2. Invariant /\ [Next]_vars => Invariant'
  BY NextInvariant
<1>3. QED
  BY <1>1, <1>2, PTL DEF Spec

\* The existence cache answers as the file system would, at every moment of
\* the set-up: every mount point is made or looked up just before a mount
\* hides what is below it, so no answer about a hidden path is left
\* (io_cache.c, mount.c).
THEOREM CacheTells == Spec => []CacheCoherent
<1>1. Invariant => CacheCoherent
  <2> SUFFICES ASSUME Invariant PROVE CacheCoherent
    OBVIOUS
  <2>1. Coherent(fs) /\ DOMAIN fs.cache = 1 .. IO_CACHE_MAX
    BY Fields DEF Invariant, Typed, Cached
  <2>2. QED
    BY <2>1 DEF Coherent, Right, CacheCoherent
<1>2. QED
  BY <1>1, Invariance, PTL

\* A container whose root is in place has every base file system and volume
\* at its path, unless a volume asked for above hides it, and no mount of it
\* has reached the host (mount_all, mount_ns_setup).
THEOREM RootStands == Spec => []RootComplete
<1>1. Invariant => RootComplete
  <2> SUFFICES ASSUME Invariant, Started PROVE RootComplete
    BY DEF RootComplete
  <2>1. /\ InStart /\ pc \in Entering \cup Running
        /\ pc \notin {"base", "cgroups"}
    BY DEF Started, InStart, Entering, Running, Over
  <2>2. /\ ~leaked /\ \A n \in DOMAIN Base : BaseShown(n)
        /\ CgroupShown /\ \A n \in DOMAIN cfg.vols : VolumeShown(n)
    BY <2>1 DEF Invariant, Kept, Shown
  <2>3. QED
    BY <2>2 DEF RootComplete, BaseShown, CgroupShown, VolumeShown
<1>2. QED
  BY <1>1, Invariance, PTL

\* With -N the command starts with a name server that is not on the host's
\* loopback, and mkstemp's file is there only while it is being bound
\* (setup_resolv, setup_resolv_file_bind).
THEOREM NamesResolve == Spec => []NameServer
<1>1. Invariant => NameServer
  BY DEF Invariant, Served, NameServer, Started, InStart, Over
<1>2. QED
  BY <1>1, Invariance, PTL

\* Where sudo makes the executed file set-uid, cage gives up rather than call
\* sudo a second time, whatever the bound on executions (super_escalate).
THEOREM SudoOnce == Spec => []ReexecsOnce
<1>1. Invariant => ReexecsOnce
  BY DEF Invariant, Once, ReexecsOnce
<1>2. QED
  BY <1>1, Invariance, PTL
-----------------------------------------------------------------------------
(* The user.                                                               *)

LEMMA VolumeNames ==
  ASSUME cfg \in Configs, NEW n \in 1 .. Len(cfg.vols)
  PROVE  cfg.vols[n].id \in DOMAIN cfg.dbs
<1>1. cfg.vols \in Seq(ToSet(cfg.vols))
  BY ConfigsAssumption
<1>2. cfg.vols[n] \in ToSet(cfg.vols)
  BY <1>1
<1>3. {v.id : v \in ToSet(cfg.vols)} \subseteq DOMAIN cfg.dbs
  BY ConfigsAssumption
<1>4. QED
  BY <1>2, <1>3

\* Mounts show databases, and do_init writes to those it sees.
LEMMA MappedStep ==
  ASSUME Typed, Cached, Mapped, Next
  PROVE  Mapped'
<1> USE DEF Goto
<1>1. CASE Nosuid
  BY <1>1 DEF Nosuid, fsvars, idvars, privvars, Mapped
<1>2. CASE SudoReexec
  BY <1>2 DEF SudoReexec, fsvars, idvars, Mapped
<1>3. CASE Escalate
  BY <1>3 DEF Escalate, fsvars, idvars, Mapped
<1>4. CASE MountNsSetup
  BY <1>4 DEF MountNsSetup, idvars, privvars, Mapped
<1>5. CASE MountOverlay
  <2>1. cfg' = cfg /\ dbs' = dbs /\ creds' = creds /\ fs'.src[passwd] = "overlay"
    BY <1>5, MountOverlayFs DEF MountOverlay, idvars, privvars
  <2>2. "overlay" \in DOMAIN cfg.dbs
    BY ConfigsAssumption DEF Typed
  <2>3. QED
    BY <2>1, <2>2 DEF Mapped
<1>6. CASE MountBase
  BY <1>6, MountBaseFs DEF MountBase, idvars, privvars, Mapped, SameEtc
<1>7. CASE BaseDone
  BY <1>7 DEF BaseDone, idvars, privvars, Mapped
<1>8. CASE MountCgroups
  BY <1>8, MountCgroupsFs DEF MountCgroups, idvars, privvars, Mapped, SameEtc
<1>9. CASE SetupResolv
  BY <1>9, SetupResolvFs DEF SetupResolv, idvars, privvars, Mapped
<1>10. CASE BindHostResolv
  BY <1>10, BindHostFs DEF BindHostResolv, idvars, privvars, Mapped, SameEtc
<1>11. CASE WriteDnsTmp
  BY <1>11 DEF WriteDnsTmp, idvars, privvars, Mapped
<1>12. CASE BindDnsTmp
  BY <1>12, BindDnsFs DEF BindDnsTmp, idvars, privvars, Mapped, SameEtc
<1>13. CASE DnsTmpFails
  BY <1>13 DEF DnsTmpFails, idvars, privvars, Mapped
<1>14. CASE SetupRunDirs
  BY <1>14, RunDirsFs DEF SetupRunDirs, idvars, privvars, Mapped
<1>15. CASE SetupDevshm
  BY <1>15, DevshmFs DEF SetupDevshm, idvars, privvars, Mapped, SameEtc
<1>16. CASE MountVolume
  <2>1. /\ cfg' = cfg /\ dbs' = dbs /\ creds' = creds
        /\ i \in Nat \ {0} /\ i <= Len(cfg.vols) /\ cfg \in Configs
    BY <1>16 DEF MountVolume, idvars, privvars, Typed
  <2>2. i \in 1 .. Len(cfg.vols)
    <3>1. cfg.vols \in Seq(ToSet(cfg.vols))
      BY <2>1, ConfigsAssumption
    <3>2. Len(cfg.vols) \in Nat
      BY <3>1
    <3>3. QED
      BY <2>1, <3>2
  <2>3. fs'.src[passwd] = cfg.vols[i].id \/ fs'.src[passwd] = fs.src[passwd]
    BY <1>16, MountVolumeFs, PasswdPoint
  <2>4. QED
    BY <2>1, <2>2, <2>3, VolumeNames DEF Mapped
<1>17. CASE VolumesDone
  BY <1>17 DEF VolumesDone, fsvars, idvars, privvars, Mapped
<1>18. CASE ResolveUser
  BY <1>18 DEF ResolveUser, fsvars, privvars, Mapped
<1>19. CASE SetupGui
  BY <1>19 DEF SetupGui, fsvars, privvars, Mapped
<1>20. CASE MoveAndChroot
  BY <1>20 DEF MoveAndChroot, fsvars, privvars, Mapped
<1>21. CASE RunInit
  <2>1. cfg' = cfg /\ fs' = fs /\ creds' = creds
    BY <1>21 DEF RunInit, fsvars, privvars
  <2>2. dbs' = dbs \/ dbs' = [dbs EXCEPT ![fs.src[passwd]] = cfg.after]
    BY <1>21 DEF RunInit
  <2>3. cfg.after \in DOMAIN Databases
    BY ConfigsAssumption DEF Typed
  <2>4. QED
    BY <2>1, <2>2, <2>3 DEF Mapped
<1>22. CASE Reread
  BY <1>22 DEF Reread, fsvars, privvars, Mapped
<1>23. CASE Join
  <2>1. cfg' = cfg /\ dbs' = dbs /\ creds' = creds /\ fs'.src[passwd] = "overlay"
    BY <1>23, JoinFs DEF Join, privvars
  <2>2. "overlay" \in DOMAIN cfg.dbs
    BY ConfigsAssumption DEF Typed
  <2>3. QED
    BY <2>1, <2>2 DEF Mapped
<1>24. CASE Launch
  BY <1>24 DEF Launch, fsvars, privvars, Mapped
<1>25. CASE SetRegid
  BY <1>25 DEF SetRegid, fsvars, Mapped
<1>26. CASE SetGroups
  BY <1>26 DEF SetGroups, fsvars, Mapped
<1>27. CASE SetReuid
  BY <1>27 DEF SetReuid, fsvars, Mapped
<1>28. CASE Fails
  BY <1>28 DEF Fails, fsvars, idvars, privvars, Mapped
<1>29. CASE Kill
  BY <1>29 DEF Kill, fsvars, idvars, privvars, Mapped
<1>30. CASE Stop
  BY <1>30 DEF Stop, vars, fsvars, idvars, privvars, Mapped
<1>31. QED
  BY <1>1, <1>2, <1>3, <1>4, <1>5, <1>6, <1>7, <1>8, <1>9, <1>10, <1>11, <1>12, <1>13, <1>14,
     <1>15, <1>16, <1>17, <1>18, <1>19, <1>20, <1>21, <1>22, <1>23, <1>24, <1>25, <1>26, <1>27,
     <1>28, <1>29, <1>30 DEF Next

LEMMA GuestFrame ==
  ASSUME fs' = fs, dbs' = dbs
  PROVE  GuestDb' = GuestDb
  BY DEF GuestDb

LEMMA GuestValid ==
  ASSUME Typed, Mapped
  PROVE  ValidOption(cfg.opt) /\ ValidDatabase(GuestDb)
<1>1. ValidOption(cfg.opt)
  BY ConfigsAssumption DEF Typed
<1>2. ValidDatabase(NoDb)
  <2>1. <<>> \in Seq(PasswdEntries) /\ <<>> \in Seq(GroupEntries)
    BY EmptySeq
  <2>2. QED
    BY <2>1 DEF ValidDatabase, NoDb
<1>3. dbs[fs.src[passwd]] \in DOMAIN Databases
  BY DEF Mapped
<1>4. ValidDatabase(Databases[dbs[fs.src[passwd]]])
  BY <1>3, DatabasesAssumption
<1>5. QED
  BY <1>1, <1>2, <1>4 DEF GuestDb

\* A user_t of the kind that is in use finds the databases of the guest.
LEMMA DbFacts ==
  /\ user.rootfs = "root" /\ ~chrooted => Db = GuestDb
  /\ user.rootfs = "/" /\ chrooted => Db = GuestDb
  BY DEF Db

LEMMA EarlyFrame ==
  ASSUME AskedEarly, pc \in Before, pc' \in Before,
         cfg' = cfg, user' = user, chrooted' = chrooted, home' = home
  PROVE  AskedEarly' /\ AskedLate'
  BY DEF AskedEarly, AskedLate, Before, Mounting, Running

LEMMA EndFrame ==
  ASSUME pc' \in {"failed", "killed"}
  PROVE  AskedEarly' /\ AskedLate'
  BY DEF AskedEarly, AskedLate, Before, Mounting, Running

\* The set-up before the user is looked up.
LEMMA EarlyStep ==
  ASSUME Typed, AskedEarly,
         \/ SudoReexec \/ Escalate
         \/ MountNsSetup \/ MountOverlay \/ MountBase \/ BaseDone \/ MountCgroups
         \/ SetupResolv \/ BindHostResolv \/ WriteDnsTmp \/ BindDnsTmp
         \/ SetupRunDirs \/ SetupDevshm \/ MountVolume \/ VolumesDone
  PROVE  AskedEarly' /\ AskedLate'
<1>1. /\ pc \in Before /\ pc' \in Before
      /\ cfg' = cfg /\ user' = user /\ chrooted' = chrooted /\ home' = home
  <2> USE DEF Goto, Before, Mounting, idvars
  <2>1. CASE SudoReexec
    BY <2>1 DEF SudoReexec
  <2>2. CASE Escalate
    BY <2>2 DEF Escalate
  <2>3. CASE MountNsSetup
    BY <2>3 DEF MountNsSetup
  <2>4. CASE MountOverlay
    BY <2>4 DEF MountOverlay
  <2>5. CASE MountBase
    BY <2>5 DEF MountBase
  <2>6. CASE BaseDone
    BY <2>6 DEF BaseDone
  <2>7. CASE MountCgroups
    BY <2>7 DEF MountCgroups
  <2>8. CASE SetupResolv
    BY <2>8 DEF SetupResolv
  <2>9. CASE BindHostResolv
    BY <2>9 DEF BindHostResolv
  <2>10. CASE WriteDnsTmp
    BY <2>10 DEF WriteDnsTmp
  <2>11. CASE BindDnsTmp
    BY <2>11 DEF BindDnsTmp
  <2>12. CASE SetupRunDirs
    BY <2>12 DEF SetupRunDirs
  <2>13. CASE SetupDevshm
    BY <2>13 DEF SetupDevshm
  <2>14. CASE MountVolume
    BY <2>14 DEF MountVolume
  <2>15. CASE VolumesDone
    BY <2>15 DEF VolumesDone
  <2>16. QED
    BY <2>1, <2>2, <2>3, <2>4, <2>5, <2>6, <2>7, <2>8, <2>9, <2>10, <2>11, <2>12, <2>13, <2>14, <2>15
<1>2. QED
  BY <1>1, EarlyFrame

\* The user is read while the root is a path on the host, and kept.
LEMMA ResolveUserStep ==
  ASSUME Typed, Mapped, AskedEarly, ResolveUser
  PROVE  AskedEarly' /\ AskedLate'
<1>1. /\ pc = "user" /\ pc' = (IF cfg.gui THEN "gui" ELSE "move")
      /\ cfg' = cfg /\ fs' = fs /\ dbs' = dbs /\ chrooted' = chrooted /\ home' = home
  BY DEF ResolveUser, Goto, fsvars
<1>2. user = UserNew(cfg.opt, "root") /\ ~chrooted /\ home = NoName
  BY <1>1 DEF AskedEarly, Before
<1>3. ValidOption(cfg.opt) /\ ValidDatabase(GuestDb)
  BY GuestValid
<1>4. user.rootfs = "root"
  BY <1>2 DEF UserNew
<1>5. user' = EagerResolve(UserNew(cfg.opt, "root"), GuestDb)
  BY <1>2, <1>4, DbFacts DEF ResolveUser
<1>6. Settled(cfg.opt, GuestDb, "root", user')
  BY <1>3, <1>5, EagerlyAsPromised
<1>7. user'.rootfs = "root"
  BY <1>6 DEF Settled
<1>8. Whole'
  BY <1>1, <1>6, <1>7, GuestFrame DEF Whole
<1>9. QED
  BY <1>1, <1>2, <1>8 DEF AskedEarly, AskedLate, Before, Mounting, Running

LEMMA SetupGuiStep ==
  ASSUME AskedEarly, SetupGui
  PROVE  AskedEarly' /\ AskedLate'
<1>1. /\ pc = "gui" /\ pc' = "move" /\ cfg' = cfg /\ fs' = fs /\ dbs' = dbs
      /\ user' = user /\ chrooted' = chrooted /\ home' = GetHome(user, Db).home
  BY DEF SetupGui, Goto, fsvars
<1>2. Whole /\ ~chrooted /\ cfg.gui
  BY <1>1 DEF AskedEarly
<1>3. GetHome(user, Db) = user
  BY <1>2, AskedAgain DEF Whole
<1>4. home' = Promised(cfg.opt, GuestDb).home
  BY <1>1, <1>2, <1>3 DEF Whole, Settled
<1>5. Whole' /\ home' = Promised(cfg'.opt, GuestDb').home
  BY <1>1, <1>2, <1>4, GuestFrame DEF Whole
<1>6. QED
  BY <1>1, <1>2, <1>5 DEF AskedEarly, AskedLate, Before, Mounting, Running

LEMMA MoveStep ==
  ASSUME AskedEarly, MoveAndChroot
  PROVE  AskedEarly' /\ AskedLate'
<1>1. /\ pc = "move" /\ pc' = (IF cfg.init THEN "init" ELSE "launch") /\ cfg' = cfg /\ fs' = fs
      /\ dbs' = dbs /\ user' = user /\ chrooted' /\ home' = home
  BY DEF MoveAndChroot, Goto, fsvars
<1>2. Whole /\ (home = NoName \/ (cfg.gui /\ home = Promised(cfg.opt, GuestDb).home))
  BY <1>1 DEF AskedEarly
<1>3. Whole' /\ (home' = NoName \/ (cfg'.gui /\ home' = Promised(cfg'.opt, GuestDb').home))
  BY <1>1, <1>2, GuestFrame DEF Whole
<1>4. QED
  BY <1>1, <1>3 DEF AskedEarly, AskedLate, Before, Mounting, Running, HomeRight

\* The init script may change the databases, and the user is read again.
LEMMA InitStep ==
  ASSUME Typed, Mapped, AskedEarly, RunInit \/ Reread
  PROVE  AskedEarly' /\ AskedLate'
<1>1. CASE RunInit
  <2>1. /\ pc = "init" /\ pc' = "reread" /\ cfg' = cfg /\ chrooted' = chrooted /\ home' = home
    BY <1>1 DEF RunInit, Goto
  <2>2. QED
    BY <2>1 DEF AskedEarly, AskedLate, Before, Mounting, Running
<1>2. CASE Reread
  <2>1. /\ pc = "reread" /\ pc' = "launch" /\ cfg' = cfg /\ fs' = fs /\ dbs' = dbs
        /\ chrooted' = chrooted /\ home' = home
        /\ user' = EagerResolve(UserNew(cfg.opt, "/"), GuestDb)
    BY <1>2 DEF Reread, Goto, fsvars
  <2>2. Settled(cfg.opt, GuestDb, "/", user')
    BY <2>1, GuestValid, EagerlyAsPromised
  <2>3. user'.rootfs = "/"
    BY <2>2 DEF Settled
  <2>4. Whole'
    BY <2>1, <2>2, <2>3, GuestFrame DEF Whole
  <2>5. chrooted /\ cfg.init /\ (home = NoName \/ cfg.gui)
    BY <2>1 DEF AskedEarly
  <2>6. QED
    BY <2>1, <2>4, <2>5 DEF AskedEarly, AskedLate, Before, Mounting, Running, HomeRight
<1>3. QED
  BY <1>1, <1>2

LEMMA JoinStep ==
  ASSUME AskedEarly, Join
  PROVE  AskedEarly' /\ AskedLate'
<1>1. /\ pc = "join" /\ pc' = "launch" /\ cfg' = cfg /\ chrooted' /\ home' = home
      /\ user' = UserNew(cfg.opt, "/")
  BY DEF Join, Goto
<1>2. home = NoName
  BY <1>1 DEF AskedEarly, Before
<1>3. QED
  BY <1>1, <1>2 DEF AskedEarly, AskedLate, Before, Mounting, Running

\* The steps to the command, of a user that is settled or is being read.
LEMMA LaunchStep ==
  ASSUME Typed, Mapped, AskedLate, Launch
  PROVE  AskedEarly' /\ AskedLate'
<1>1. /\ pc = "launch" /\ pc' = "setgid" /\ cfg' = cfg /\ fs' = fs /\ dbs' = dbs
      /\ chrooted' = chrooted
  BY DEF Launch, Goto, fsvars
<1>2. PICK u : u = GetName(GetHome(user, Db), Db)
  OBVIOUS
<1>3. user' = u /\ home' = IF home = NoName THEN u.home ELSE home
  BY <1>2 DEF Launch
<1>4. chrooted /\ (Whole \/ user = UserNew(cfg.opt, "/")) /\ (home = NoName \/ HomeRight)
  BY <1>1 DEF AskedLate, Running
<1>5. /\ Settled(cfg.opt, GuestDb, u.rootfs, u) \/ PasswdRead(cfg.opt, GuestDb, "/", u)
      /\ u.home = Promised(cfg.opt, GuestDb).home
  <2>1. CASE Whole
    <3>1. u = user
      BY <1>2, <2>1, AskedAgain DEF Whole
    <3>2. QED
      BY <2>1, <3>1 DEF Whole, Settled
  <2>2. CASE user = UserNew(cfg.opt, "/")
    <3>1. user.rootfs = "/"
      BY <2>2 DEF UserNew
    <3>2. PICK w : w = ResolvePasswd(UserNew(cfg.opt, "/"), GuestDb)
      OBVIOUS
    <3>3. PasswdRead(cfg.opt, GuestDb, "/", w)
      BY <3>2, GuestValid, PasswdFacts
    <3>4. w.passwd_parsed
      BY <3>3 DEF PasswdRead
    <3>5. u = w
      <4>1. Db = GuestDb
        BY <1>4, <3>1, DbFacts
      <4>2. GetHome(user, Db) = w
        BY <2>2, <3>2, <4>1 DEF GetHome
      <4>3. QED
        BY <1>2, <3>4, <4>2, ReadOnce
    <3>6. QED
      BY <3>3, <3>5 DEF PasswdRead
  <2>3. QED
    BY <1>4, <2>1, <2>2
<1>6. HomeRight'
  BY <1>1, <1>3, <1>4, <1>5, GuestFrame DEF HomeRight
<1>7. Whole' \/ PasswdRead(cfg'.opt, GuestDb', "/", user')
  BY <1>1, <1>3, <1>5, GuestFrame DEF Whole
<1>8. QED
  BY <1>1, <1>4, <1>6, <1>7 DEF AskedEarly, AskedLate, Before, Mounting, Running

LEMMA SetRegidStep ==
  ASSUME Typed, Mapped, AskedLate, SetRegid
  PROVE  AskedEarly' /\ AskedLate'
<1>1. /\ pc = "setgid" /\ pc' = "setgroups" /\ cfg' = cfg /\ fs' = fs /\ dbs' = dbs
      /\ chrooted' = chrooted /\ home' = home
  BY DEF SetRegid, Goto, fsvars
<1>2. PICK u : u = GetGid(user, Db)
  OBVIOUS
<1>3. user' = u /\ creds' = [creds EXCEPT !.rgid = u.gid, !.egid = u.gid]
  BY <1>2 DEF SetRegid
<1>4. chrooted /\ HomeRight /\ (Whole \/ PasswdRead(cfg.opt, GuestDb, "/", user))
  BY <1>1 DEF AskedLate, Running
<1>5. Settled(cfg.opt, GuestDb, u.rootfs, u) \/ GidRead(cfg.opt, GuestDb, "/", u)
  <2>1. CASE Whole
    BY <1>2, <2>1, AskedAgain DEF Whole
  <2>2. CASE PasswdRead(cfg.opt, GuestDb, "/", user)
    <3>1. Db = GuestDb
      BY <1>4, <2>2, DbFacts DEF PasswdRead
    <3>2. QED
      BY <1>2, <2>2, <3>1, GuestValid, GidFacts
  <2>3. QED
    BY <1>4, <2>1, <2>2
<1>6. creds'.rgid = u.gid /\ creds'.egid = u.gid
  BY <1>3 DEF Mapped
<1>7. /\ creds'.rgid = user'.gid /\ creds'.egid = user'.gid
      /\ HomeRight' /\ (Whole' \/ GidRead(cfg'.opt, GuestDb', "/", user'))
  BY <1>1, <1>3, <1>4, <1>5, <1>6, GuestFrame DEF Whole, HomeRight
<1>8. QED
  BY <1>1, <1>4, <1>7 DEF AskedEarly, AskedLate, Before, Mounting, Running

LEMMA SetGroupsStep ==
  ASSUME Typed, Mapped, AskedLate, SetGroups
  PROVE  AskedEarly' /\ AskedLate'
<1>1. /\ pc = "setgroups" /\ pc' = "setuid" /\ cfg' = cfg /\ fs' = fs /\ dbs' = dbs
      /\ chrooted' = chrooted /\ home' = home
  BY DEF SetGroups, Goto, fsvars
<1>2. PICK u : u = GetGroups(user, Db)
  OBVIOUS
<1>3. user' = u /\ creds' = [creds EXCEPT !.groups = u.groups]
  BY <1>2 DEF SetGroups
<1>4. /\ chrooted /\ HomeRight /\ (Whole \/ GidRead(cfg.opt, GuestDb, "/", user))
      /\ creds.rgid = user.gid /\ creds.egid = user.gid
  BY <1>1 DEF AskedLate, Running
<1>5. Settled(cfg.opt, GuestDb, u.rootfs, u) /\ u.gid = user.gid
  <2>1. CASE Whole
    BY <1>2, <2>1, AskedAgain DEF Whole
  <2>2. CASE GidRead(cfg.opt, GuestDb, "/", user)
    <3>1. Db = GuestDb
      BY <1>4, <2>2, DbFacts DEF GidRead
    <3>2. Settled(cfg.opt, GuestDb, "/", u) /\ u.gid = user.gid
      BY <1>2, <2>2, <3>1, GuestValid, GroupsFacts
    <3>3. u.rootfs = "/"
      BY <3>2 DEF Settled
    <3>4. QED
      BY <3>2, <3>3
  <2>3. QED
    BY <1>4, <2>1, <2>2
<1>6. creds'.rgid = creds.rgid /\ creds'.egid = creds.egid /\ creds'.groups = u.groups
  BY <1>3 DEF Mapped
<1>7. /\ creds'.rgid = user'.gid /\ creds'.egid = user'.gid
      /\ HomeRight' /\ Whole' /\ creds'.groups = user'.groups
  BY <1>1, <1>3, <1>4, <1>5, <1>6, GuestFrame DEF Whole, HomeRight
<1>8. QED
  BY <1>1, <1>4, <1>7 DEF AskedEarly, AskedLate, Before, Mounting, Running

LEMMA SetReuidStep ==
  ASSUME Mapped, AskedLate, SetReuid
  PROVE  AskedEarly' /\ AskedLate'
<1>1. /\ pc = "setuid" /\ pc' = "run" /\ cfg' = cfg /\ fs' = fs /\ dbs' = dbs
      /\ chrooted' = chrooted /\ home' = home
  BY DEF SetReuid, Goto, fsvars
<1>2. /\ chrooted /\ HomeRight /\ Whole /\ creds.groups = user.groups
      /\ creds.rgid = user.gid /\ creds.egid = user.gid
  BY <1>1 DEF AskedLate, Running
<1>3. GetUid(user, Db) = user
  BY <1>2, AskedAgain DEF Whole
<1>4. user' = user /\ creds' = [creds EXCEPT !.ruid = user.uid, !.euid = user.uid]
  BY <1>3 DEF SetReuid
<1>5. /\ creds'.rgid = creds.rgid /\ creds'.egid = creds.egid /\ creds'.groups = creds.groups
      /\ creds'.ruid = user.uid /\ creds'.euid = user.uid
  BY <1>4 DEF Mapped
<1>6. user.uid = PromisedUid(cfg.opt, GuestDb)
  BY <1>2 DEF Whole, Settled, Promised
<1>7. /\ creds'.rgid = user'.gid /\ creds'.egid = user'.gid
      /\ creds'.ruid = PromisedUid(cfg'.opt, GuestDb') /\ creds'.euid = PromisedUid(cfg'.opt, GuestDb')
      /\ HomeRight' /\ Whole' /\ creds'.groups = user'.groups
  BY <1>1, <1>2, <1>4, <1>5, <1>6, GuestFrame DEF Whole, HomeRight
<1>8. QED
  BY <1>1, <1>2, <1>7 DEF AskedEarly, AskedLate, Before, Mounting, Running

\* The user in use is the one promised, as far as it has been asked.
Identified == Mapped /\ AskedEarly /\ AskedLate

LEMMA InitIdentified == Init => Identified
<1> SUFFICES ASSUME Init PROVE Identified
  OBVIOUS
<1>1. /\ cfg \in Configs /\ pc = "main" /\ user = UserNew(cfg.opt, "root") /\ ~chrooted
      /\ home = NoName /\ dbs = cfg.dbs /\ creds = cfg.creds
  BY DEF Init
<1>2. fs.src[passwd] = "host"
  BY PasswdPoint DEF Init
<1>3. /\ cfg.dbs \in [DOMAIN cfg.dbs -> DOMAIN Databases] /\ "host" \in DOMAIN cfg.dbs
      /\ cfg.creds \in [ruid : Nat, euid : Nat, rgid : Nat, egid : Nat, groups : Seq(Nat)]
  BY <1>1, ConfigsAssumption
<1>4. Mapped
  BY <1>1, <1>2, <1>3 DEF Mapped
<1>5. AskedEarly /\ AskedLate
  BY <1>1 DEF AskedEarly, AskedLate, Before, Mounting, Running
<1>6. QED
  BY <1>4, <1>5 DEF Identified

LEMMA NextIdentified == Invariant /\ Identified /\ [Next]_vars => Identified'
<1> SUFFICES ASSUME Invariant, Identified, [Next]_vars PROVE Identified'
  OBVIOUS
<1>1. Typed /\ Cached /\ Mapped /\ AskedEarly /\ AskedLate
  BY DEF Invariant, Identified
<1>2. CASE UNCHANGED vars
  <2>1. /\ cfg' = cfg /\ pc' = pc /\ fs' = fs /\ dbs' = dbs /\ user' = user
        /\ chrooted' = chrooted /\ home' = home /\ creds' = creds
    BY <1>2 DEF vars, fsvars, idvars, privvars
  <2>2. Mapped'
    BY <1>1, <2>1 DEF Mapped
  <2>3. (Whole => Whole') /\ (HomeRight => HomeRight') /\ GuestDb' = GuestDb
    BY <2>1, GuestFrame DEF Whole, HomeRight
  <2>4. AskedEarly' /\ AskedLate'
    BY <1>1, <2>1, <2>3 DEF AskedEarly, AskedLate
  <2>5. QED
    BY <2>2, <2>4 DEF Identified
<1>3. CASE Next /\ ~UNCHANGED vars
  <2>1. Mapped'
    BY <1>1, <1>3, MappedStep
  <2>2. CASE \/ SudoReexec \/ Escalate
             \/ MountNsSetup \/ MountOverlay \/ MountBase \/ BaseDone \/ MountCgroups
             \/ SetupResolv \/ BindHostResolv \/ WriteDnsTmp \/ BindDnsTmp
             \/ SetupRunDirs \/ SetupDevshm \/ MountVolume \/ VolumesDone
    BY <1>1, <2>1, <2>2, EarlyStep DEF Identified
  <2>3. CASE \/ ResolveUser \/ SetupGui \/ MoveAndChroot \/ RunInit \/ Reread \/ Join
    BY <1>1, <2>1, <2>3, ResolveUserStep, SetupGuiStep, MoveStep, InitStep, JoinStep DEF Identified
  <2>4. CASE \/ Launch \/ SetRegid \/ SetGroups \/ SetReuid
    BY <1>1, <2>1, <2>4, LaunchStep, SetRegidStep, SetGroupsStep, SetReuidStep DEF Identified
  <2>5. CASE \/ Nosuid \/ DnsTmpFails \/ Fails \/ Kill
    <3>1. pc' \in {"failed", "killed"}
      BY <2>5 DEF Nosuid, DnsTmpFails, Fails, Kill, Goto
    <3>2. QED
      BY <2>1, <3>1, EndFrame DEF Identified
  <2>6. QED
    BY <1>3, <2>2, <2>3, <2>4, <2>5 DEF Next, Stop
<1>4. QED
  BY <1>2, <1>3

\* Whatever the root, the volumes over its etc, the init script and the
\* databases: the command runs as the user that the databases name which the
\* guest sees when it starts, in exactly the groups they give, unless a group
\* is both asked for and listed twice, and with their gid, unless etc/group is
\* missing and the first token is a name (eager_resolve_user,
\* reread_guest_user, do_priv_drop).
THEOREM RunsAsUser ==
  Spec => [](ClearNames(cfg.opt.g \o cfg.opt.colon, GuestDb.group) => RunsAsPromised)
<1>1. Init => Identified
  BY InitIdentified
<1>2. Invariant /\ Identified /\ [Next]_vars => Identified'
  BY NextIdentified
<1>3. Invariant /\ Identified => (ClearNames(cfg.opt.g \o cfg.opt.colon, GuestDb.group) => RunsAsPromised)
  <2> SUFFICES ASSUME Invariant, Identified, ClearNames(cfg.opt.g \o cfg.opt.colon, GuestDb.group), pc = "run"
               PROVE  RunsAsPromised
    BY DEF RunsAsPromised
  <2>1. /\ Whole /\ HomeRight /\ creds.groups = user.groups
        /\ creds.rgid = user.gid /\ creds.egid = user.gid
        /\ creds.ruid = PromisedUid(cfg.opt, GuestDb) /\ creds.euid = PromisedUid(cfg.opt, GuestDb)
    BY DEF Identified, AskedLate, Running
  <2>2. PICK p : p = Promised(cfg.opt, GuestDb)
    OBVIOUS
  <2>3. p.uid = PromisedUid(cfg.opt, GuestDb) /\ p.gid = PromisedGid(cfg.opt, GuestDb)
    BY <2>2 DEF Promised
  <2>4. PICK all : all = p.groups \cup {creds.rgid}
    OBVIOUS
  <2>5. ToSet(user.groups) = all /\ Len(user.groups) = Cardinality(all)
    <3>1. cfg \in Configs
      BY DEF Invariant, Typed
    <3>2. ValidOption(cfg.opt)
      BY <3>1, ConfigsAssumption
    <3>3. QED
      BY <2>1, <2>2, <2>4, <3>2, SettledGroups DEF Whole
  <2>6. TakesToken(cfg.opt, GuestDb) => creds.rgid = p.gid
    BY <2>1, <2>3 DEF Whole, Settled, AsTaken
  <2>7. user.name = p.name
    BY <2>1, <2>2 DEF Whole, Settled
  <2>8. home = p.home \/ (cfg.gui /\ cfg.init)
    BY <2>1, <2>2 DEF HomeRight
  <2>9. QED
    BY <2>1, <2>2, <2>3, <2>4, <2>5, <2>6, <2>7, <2>8 DEF RunsAsPromised
<1>4. QED
  BY <1>1, <1>2, <1>3, Invariance, PTL DEF Spec
=============================================================================
