------------------------------ MODULE IoCache ------------------------------
(***************************************************************************)
(* The process-wide cache behind io_exists and the file helpers that must  *)
(* keep it right: whatever makes or removes a path drops the answers about *)
(* the path, its parents and what is below it.  Mounting does not.         *)
(*                                                                         *)
(* A file system is a record: tree maps each path to what is visible there,*)
(* "none", "dir", "file" or "link"; src names the mount that shows it, or  *)
(* would if it was made; cache is the table of remembered answers.  Paths  *)
(* are sequences of names below the root of the container, which is <<>>.  *)
(* A helper is an operator from the file system before it to the one after *)
(* it, with a predicate for when it succeeds.                              *)
(***************************************************************************)
EXTENDS Naturals, Sequences, SequencesExt

CONSTANTS
  Paths,       \* the paths, closed under taking parents
  IO_CACHE_MAX \* entries of the cache

\* No entry is kept for this path, which has a name without a letter.
NoPath == <<"">>

ASSUME IoCacheAssumption ==
  /\ IO_CACHE_MAX \in Nat \ {0}
  /\ Paths \subseteq Seq(STRING) \ {NoPath}
  /\ \A p \in Paths : Prefixes(p) \subseteq Paths

NoEntry == [path |-> NoPath, res |-> 0]
EmptyCache == [i \in 1 .. IO_CACHE_MAX |-> NoEntry]
Missing == 1
Kinds == {"none", "dir", "file", "link"}

Related(a, b) == IsPrefix(a, b) \/ IsPrefix(b, a)

\* io_cache_invalidate of every path of a set.
Forget(cache, P) ==
  [i \in DOMAIN cache |-> IF \E p \in P : Related(cache[i].path, p) THEN NoEntry ELSE cache[i]]

\* The index of the entry for a path, or of the first empty entry; 0 if there
\* is none.
IndexOf(cache, p) == SelectInSeq(cache, LAMBDA e : e.path = p)
IndexOfEmpty(cache) == SelectInSeq(cache, LAMBDA e : e = NoEntry)

\* io_cache_store: over the entry for the path, else into an empty entry,
\* else over the first.
Store(cache, p, r) ==
  LET i == IF IndexOf(cache, p) # 0 THEN IndexOf(cache, p)
           ELSE IF IndexOfEmpty(cache) # 0 THEN IndexOfEmpty(cache) ELSE 1
  IN [cache EXCEPT ![i] = [path |-> p, res |-> r]]

\* io_exists: what it answers, and the file system with the answer kept.
Answer(fs, p) ==
  IF IndexOf(fs.cache, p) # 0 THEN fs.cache[IndexOf(fs.cache, p)].res
  ELSE IF fs.tree[p] = "none" THEN Missing ELSE 0
Looked(fs, p) == [fs EXCEPT !.cache = Store(fs.cache, p, Answer(fs, p))]

\* A directory entry the kernel accepts: the parent is a directory.
HasParent(fs, p) == p # <<>> /\ fs.tree[Front(p)] = "dir"

\* A helper has changed the tree, and drops what was known of some paths.
Changed(fs, tree, P) == [tree |-> tree, src |-> fs.src, cache |-> Forget(fs.cache, P)]

\* The path as made by a system call.
Made(fs, p, kind) == Changed(fs, [fs.tree EXCEPT ![p] = kind], {p})

\* mkdir_chown, io_mkdtmp and io_symlink: the path must not exist.
CanMake(fs, p) == HasParent(fs, p) /\ fs.tree[p] = "none"

\* io_mkdir: an existing directory will do and is invalidated all the same;
\* missing parents are made by io_mkdir itself.
MadeDirs(fs, p) ==
  LET missing == {q \in Prefixes(p) : fs.tree[q] = "none"}
  IN Changed(fs, [q \in Paths |-> IF q \in missing THEN "dir" ELSE fs.tree[q]], missing)
CanMkdir(fs, p) == \A q \in Prefixes(p) : fs.tree[q] \in {"none", "dir"}
MkdirKeepsExisting(fs, p) == MadeDirs(fs, p)
Mkdir(fs, p) == Changed(MadeDirs(fs, p), MadeDirs(fs, p).tree, {p})

\* io_mkdir_own: an answer "exists" ends it, right or wrong; each parent that
\* is not said to exist is made, and so is the path.
OwnParent(fs, q) ==
  IF Answer(fs, q) = 0 THEN Looked(fs, q) ELSE Made(Looked(fs, q), q, "dir")
OwnParents(fs, p) ==
  LET after[k \in 0 .. Len(p) - 1] ==
        IF k = 0 THEN Looked(fs, p) ELSE OwnParent(after[k - 1], SubSeq(p, 1, k))
  IN after
CanMkdirOwn(fs, p) ==
  LET after == OwnParents(fs, p) IN
  \/ Answer(fs, p) = 0
  \/ /\ p # <<>>
     /\ \A k \in 1 .. Len(p) - 1 :
          LET q == SubSeq(p, 1, k)
          IN Answer(after[k - 1], q) = 0 \/ CanMake(after[k - 1], q)
     /\ CanMake(after[Len(p) - 1], p)
MkdirOwn(fs, p) ==
  IF Answer(fs, p) = 0 THEN Looked(fs, p)
  ELSE Made(OwnParents(fs, p)[Len(p) - 1], p, "dir")

\* io_touch: open for writing, creating the file.
CanTouch(fs, p) == HasParent(fs, p) /\ fs.tree[p] \in {"none", "file"}
Touch(fs, p) ==
  IF fs.tree[p] = "none" THEN Made(fs, p, "file")
  ELSE Changed(fs, fs.tree, {p})

\* io_unlink.
CanUnlink(fs, p) == fs.tree[p] \in {"file", "link"}
Unlink(fs, p) == Changed(fs, [fs.tree EXCEPT ![p] = "none"], {p})

\* mount(2): below p only what the mount holds is visible from now on.
MountOn(fs, p, label, content) ==
  LET rel(q) == SubSeq(q, Len(p) + 1, Len(q))
      kind(q) == IF rel(q) \in DOMAIN content THEN content[rel(q)] ELSE "none"
  IN [tree |-> [q \in Paths |-> IF IsPrefix(p, q) THEN kind(q) ELSE fs.tree[q]],
      src |-> [q \in Paths |-> IF IsPrefix(p, q) THEN label ELSE fs.src[q]],
      cache |-> fs.cache]
=============================================================================
