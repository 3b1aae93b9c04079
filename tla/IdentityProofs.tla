--------------------------- MODULE IdentityProofs ---------------------------
(***************************************************************************)
(* The getters of user_t give what -u and -g promise, for every user       *)
(* database and every option: the uid, the gid, the groups without         *)
(* repetition, the home and the name, whichever getter is asked first, and *)
(* asking again changes nothing.                                           *)
(*                                                                         *)
(* The three loops of user.c and user_resolve.c are recursive functions;   *)
(* their values are unfolded by an induction that is derived here from the *)
(* order of the naturals being well-founded, and each has a loop           *)
(* invariant.  Then the getters, one field at a time.                      *)
(***************************************************************************)
EXTENDS Identity, WellFoundedInduction, SequenceTheorems, FiniteSetTheorems, TLAPS

-----------------------------------------------------------------------------
(* Induction on the naturals, from the well-foundedness of their order.    *)

\* A set of naturals that is not empty has a smallest element.
LEMMA Smallest ==
  ASSUME NEW T \in SUBSET Nat, T # {}
  PROVE  \E m \in T : \A k \in T : m <= k
<1>1. PICK m \in T : \A k \in T : <<k, m>> \notin OpToRel(<, Nat)
  BY NatLessThanWellFounded, WFMin
<1>2. \A k \in T : ~(k < m)
  BY <1>1 DEF OpToRel
<1>3. QED
  BY <1>2

\* What holds of 0 and is handed on holds of every natural.
LEMMA Inductively ==
  ASSUME NEW T, 0 \in T, \A k \in Nat : k \in T => k + 1 \in T
  PROVE  \A k \in Nat : k \in T
<1> SUFFICES ASSUME NEW k \in Nat, k \notin T PROVE FALSE
  OBVIOUS
<1> DEFINE Out == Nat \ T
<1>1. PICK m \in Out : \A j \in Out : m <= j
  <2>1. Out \in SUBSET Nat /\ Out # {}
    OBVIOUS
  <2> HIDE DEF Out
  <2>2. QED
    BY <2>1, Smallest
<1>2. m # 0 /\ m - 1 \in Nat
  OBVIOUS
<1>3. m - 1 \in T
  BY <1>1, <1>2
<1>4. QED
  BY <1>2, <1>3

\* A function given by its first value and a step exists.
Steps(S, n, G) == \A k \in 1 .. n, s \in S : G[<<k, s>>] \in S
Unfolds(r, S, n, b, G) ==
  r \in [0 .. n -> S] /\ r[0] = b /\ \A k \in 1 .. n : r[k] = G[<<k, r[k - 1]>>]
LEMMA Unfold ==
  ASSUME NEW S, NEW n \in Nat, NEW b \in S, NEW G, Steps(S, n, G)
  PROVE  \E r : Unfolds(r, S, n, b, G)
<1> DEFINE Fits(m, r) == r[0] = b /\ \A k \in 1 .. m : r[k] = G[<<k, r[k - 1]>>]
           T == {m \in Nat : m <= n => \E r \in [0 .. m -> S] : Fits(m, r)}
<1>1. 0 \in T
  <2>1. [k \in 0 .. 0 |-> b] \in [0 .. 0 -> S] /\ Fits(0, [k \in 0 .. 0 |-> b])
    OBVIOUS
  <2>2. QED
    BY <2>1
<1>2. ASSUME NEW m \in Nat, m \in T PROVE m + 1 \in T
  <2> SUFFICES ASSUME m + 1 <= n PROVE \E r \in [0 .. m + 1 -> S] : Fits(m + 1, r)
    OBVIOUS
  <2>1. PICK r \in [0 .. m -> S] : Fits(m, r)
    BY <1>2
  <2> DEFINE s == [k \in 0 .. m + 1 |-> IF k <= m THEN r[k] ELSE G[<<k, r[k - 1]>>]]
  <2>2. m + 1 \in 1 .. n /\ r[m] \in S
    OBVIOUS
  <2>3. G[<<m + 1, r[m]>>] \in S
    BY <2>2 DEF Steps
  <2>4. s \in [0 .. m + 1 -> S]
    <3>1. ASSUME NEW k \in 0 .. m + 1 PROVE (IF k <= m THEN r[k] ELSE G[<<k, r[k - 1]>>]) \in S
      <4>1. k > m => k = m + 1 /\ k - 1 = m
        OBVIOUS
      <4>2. QED
        BY <2>3, <4>1
    <3>2. QED
      BY <3>1
  <2>5. s[0] = b
    BY <2>1
  <2>6. ASSUME NEW k \in 1 .. m + 1 PROVE s[k] = G[<<k, s[k - 1]>>]
    <3>1. s[k - 1] = r[k - 1]
      OBVIOUS
    <3>2. CASE k <= m
      BY <2>1, <3>1, <3>2
    <3>3. CASE k > m
      BY <3>1, <3>3
    <3>4. QED
      BY <3>2, <3>3
  <2>7. Fits(m + 1, s)
    BY <2>5, <2>6
  <2>8. QED
    BY <2>4, <2>7
<1>3. n \in T
  <2> HIDE DEF T
  <2>1. QED
    BY <1>1, <1>2, Inductively
<1>4. QED
  BY <1>3 DEF Unfolds

-----------------------------------------------------------------------------
(* Searches.                                                               *)

\* A token that is a number.
LEMMA NumericFacts ==
  ASSUME NEW g \in Nat
  PROVE  Numeric(g) \in GroupTokens /\ Numeric(g).name = NoName /\ Numeric(g).gid = g
BY DEF Numeric, GroupTokens

\* The first entry that matches.
LEMMA FirstFacts ==
  ASSUME NEW s, NEW field, NEW v, Len(s) \in Nat
  PROVE  LET f == FirstWith(s, field, v) IN
         /\ f \in 0 .. Len(s)
         /\ f # 0 => s[f][field] = v /\ \A k \in 1 .. Len(s) : s[k][field] = v => f <= k
         /\ f = 0 => \A k \in 1 .. Len(s) : s[k][field] # v
<1> DEFINE I == {k \in 1 .. Len(s) : s[k][field] = v}
<1>1. FirstWith(s, field, v) = IF I # {} THEN Min(I) ELSE 0
  BY DEF FirstWith, SelectInSeq
<1>2. I # {} => Min(I) \in I /\ \A k \in I : Min(I) <= k
  <2>1. I \in SUBSET Nat
    OBVIOUS
  <2> HIDE DEF I
  <2>2. QED
    BY <2>1, Smallest DEF Min
<1>3. QED
  BY <1>1, <1>2

\* The least of a set of indices.
LEMMA MinFacts ==
  ASSUME NEW T \in SUBSET Nat, T # {}
  PROVE  Min(T) \in T /\ \A k \in T : Min(T) <= k
BY Smallest DEF Min

-----------------------------------------------------------------------------
(* resolve_named_in_group.                                                 *)

LEMMA ResolveOneType ==
  ASSUME NEW ts \in Seq(GroupTokens), NEW gr \in GroupEntries
  PROVE  /\ ResolveOne(ts, gr) \in Seq(GroupTokens) /\ Len(ResolveOne(ts, gr)) = Len(ts)
         /\ \A k \in 1 .. Len(ts) :
              ResolveOne(ts, gr)[k] =
                IF k = FirstWith(ts, "name", gr.name) THEN Numeric(gr.gid) ELSE ts[k]
<1>1. PICK f \in 0 .. Len(ts) : f = FirstWith(ts, "name", gr.name)
  BY FirstFacts
<1>2. Numeric(gr.gid) \in GroupTokens
  BY NumericFacts DEF GroupEntries
<1>3. PICK t \in GroupTokens : t = Numeric(gr.gid)
  BY <1>2
<1>4. ResolveOne(ts, gr) = IF f = 0 THEN ts ELSE [ts EXCEPT ![f] = t]
  BY <1>1, <1>3 DEF ResolveOne
<1>5. f # 0 => /\ [ts EXCEPT ![f] = t] \in Seq(GroupTokens) /\ Len([ts EXCEPT ![f] = t]) = Len(ts)
               /\ \A k \in 1 .. Len(ts) : [ts EXCEPT ![f] = t][k] = IF k = f THEN t ELSE ts[k]
  BY ExceptSeq
<1>6. QED
  BY <1>1, <1>3, <1>4, <1>5

LEMMA ResolvingSteps ==
  ASSUME NEW T \in Seq(GroupTokens), NEW G \in Seq(GroupEntries)
  PROVE  /\ Resolving(T, G)[0] = T
         /\ \A k \in 1 .. Len(G) : Resolving(T, G)[k] = ResolveOne(Resolving(T, G)[k - 1], G[k])
<1> DEFINE n == Len(G)
           S == Seq(GroupTokens)
           F == [x \in (1 .. n) \X S |-> ResolveOne(x[2], G[x[1]])]
           def(after) == after = [j \in 0 .. n |->
                                    IF j = 0 THEN T ELSE ResolveOne(after[j - 1], G[j])]
           a == Resolving(T, G)
<1>1. n \in Nat /\ \A j \in 1 .. n : G[j] \in GroupEntries
  OBVIOUS
<1>2. Steps(S, n, F)
  <2>1. ASSUME NEW x \in (1 .. n) \X S PROVE ResolveOne(x[2], G[x[1]]) \in S
    <3>1. x[2] \in S /\ G[x[1]] \in GroupEntries
      BY <1>1
    <3>2. QED
      BY <3>1, ResolveOneType
  <2>2. QED
    BY <2>1 DEF Steps
<1>3. \E r : Unfolds(r, S, n, T, F)
  <2> HIDE DEF n, S, F
  <2>1. T \in S
    BY DEF S
  <2>2. QED
    BY <1>1, <1>2, <2>1, Unfold
<1>4. PICK r \in [0 .. n -> S] : r[0] = T /\ \A j \in 1 .. n : r[j] = F[<<j, r[j - 1]>>]
  BY <1>3 DEF Unfolds
<1>5. ASSUME NEW j \in 1 .. n PROVE r[j] = ResolveOne(r[j - 1], G[j])
  <2>1. j - 1 \in 0 .. n
    BY <1>1
  <2>2. r[j - 1] \in S
    BY <1>4, <2>1
  <2>3. QED
    BY <1>4, <2>2
<1>6. def(r)
  BY <1>1, <1>4, <1>5
<1>7. def(a)
  BY <1>6 DEF Resolving
<1>8. QED
  BY <1>1, <1>7

\* After k lines a token is as it was or has the gid of a line with its name,
\* and the first token of a name has that of the first such line.
FirstOf(T, t) == T[t].name # NoName /\ \A u \in 1 .. t - 1 : T[u].name # T[t].name
Named1st(G, j, name) == G[j].name = name /\ \A m \in 1 .. j - 1 : G[m].name # name
Resolved(T, G, k, ts) ==
  /\ ts \in Seq(GroupTokens) /\ Len(ts) = Len(T)
  /\ \A t \in 1 .. Len(T) :
       \/ ts[t] = T[t]
       \/ /\ T[t].name # NoName
          /\ \E j \in 1 .. k : G[j].name = T[t].name /\ ts[t] = Numeric(G[j].gid)
  /\ \A t \in 1 .. Len(T) : FirstOf(T, t) =>
       /\ (\A j \in 1 .. k : G[j].name # T[t].name) => ts[t] = T[t]
       /\ \A j \in 1 .. k : Named1st(G, j, T[t].name) => ts[t] = Numeric(G[j].gid)

LEMMA ResolvedStep ==
  ASSUME NEW T \in Seq(GroupTokens), NEW G \in Seq(GroupEntries),
         NEW k \in 1 .. Len(G), NEW ts, Resolved(T, G, k - 1, ts)
  PROVE  Resolved(T, G, k, ResolveOne(ts, G[k]))
<1> DEFINE nm == G[k].name
           us == ResolveOne(ts, G[k])
<1>1. /\ ts \in Seq(GroupTokens) /\ Len(ts) = Len(T) /\ G[k] \in GroupEntries
      /\ nm # NoName /\ G[k].gid \in Nat /\ Len(T) \in Nat /\ k \in Nat /\ k >= 1
  <2>1. ts \in Seq(GroupTokens) /\ Len(ts) = Len(T)
    BY DEF Resolved
  <2>2. G[k] \in GroupEntries
    OBVIOUS
  <2>3. QED
    BY <2>1, <2>2 DEF GroupEntries
<1>2. PICK f \in 0 .. Len(T) : /\ f = FirstWith(ts, "name", nm)
                               /\ f # 0 => ts[f].name = nm /\ \A t \in 1 .. Len(T) : ts[t].name = nm => f <= t
                               /\ f = 0 => \A t \in 1 .. Len(T) : ts[t].name # nm
  <2> HIDE DEF nm
  <2>1. LET f == FirstWith(ts, "name", nm) IN
         /\ f \in 0 .. Len(ts)
         /\ f # 0 => ts[f]["name"] = nm /\ \A t \in 1 .. Len(ts) : ts[t]["name"] = nm => f <= t
         /\ f = 0 => \A t \in 1 .. Len(ts) : ts[t]["name"] # nm
    BY <1>1, FirstFacts
  <2>2. QED
    BY <1>1, <2>1
<1>3. /\ us \in Seq(GroupTokens) /\ Len(us) = Len(T)
      /\ \A t \in 1 .. Len(T) : us[t] = IF t = f THEN Numeric(G[k].gid) ELSE ts[t]
  <2>1. PICK gr \in GroupEntries : gr = G[k]
    BY <1>1
  <2>2. /\ ResolveOne(ts, gr) \in Seq(GroupTokens) /\ Len(ResolveOne(ts, gr)) = Len(ts)
        /\ \A t \in 1 .. Len(ts) :
             ResolveOne(ts, gr)[t] =
               IF t = FirstWith(ts, "name", gr.name) THEN Numeric(gr.gid) ELSE ts[t]
    BY <1>1, ResolveOneType
  <2>3. QED
    BY <1>1, <1>2, <2>1, <2>2
<1>4. \A t \in 1 .. Len(T) :
        \/ ts[t] = T[t]
        \/ /\ T[t].name # NoName
           /\ \E j \in 1 .. k - 1 : G[j].name = T[t].name /\ ts[t] = Numeric(G[j].gid)
  BY DEF Resolved
<1>5. \A j \in 1 .. k - 1 : j \in 1 .. k /\ Numeric(G[j].gid).name = NoName
  BY <1>1 DEF Numeric
<1>6. \A t \in 1 .. Len(T) : ts[t].name = nm => ts[t] = T[t]
  BY <1>1, <1>4, <1>5
<1> HIDE DEF us
<1>7. ASSUME NEW t \in 1 .. Len(T)
      PROVE  \/ us[t] = T[t]
             \/ /\ T[t].name # NoName
                /\ \E j \in 1 .. k : G[j].name = T[t].name /\ us[t] = Numeric(G[j].gid)
  <2>1. CASE t = f
    <3>1. T[t].name = nm /\ us[t] = Numeric(G[k].gid)
      BY <1>2, <1>3, <1>6, <2>1
    <3>2. k \in 1 .. k
      BY <1>1
    <3>3. QED
      BY <1>1, <3>1, <3>2
  <2>2. CASE t # f
    BY <1>3, <1>4, <1>5, <2>2
  <2>3. QED
    BY <2>1, <2>2
<1>8. ASSUME NEW t \in 1 .. Len(T), FirstOf(T, t)
      PROVE  /\ (\A j \in 1 .. k : G[j].name # T[t].name) => us[t] = T[t]
             /\ \A j \in 1 .. k : Named1st(G, j, T[t].name) => us[t] = Numeric(G[j].gid)
  <2>1. /\ (\A j \in 1 .. k - 1 : G[j].name # T[t].name) => ts[t] = T[t]
        /\ \A j \in 1 .. k - 1 : Named1st(G, j, T[t].name) => ts[t] = Numeric(G[j].gid)
    BY <1>8 DEF Resolved
  <2>2. CASE T[t].name # nm
    <3>1. t # f
      BY <1>2, <1>6, <2>2
    <3>2. us[t] = ts[t]
      BY <1>3, <3>1
    <3>3. \A j \in 1 .. k : Named1st(G, j, T[t].name) => j \in 1 .. k - 1
      BY <1>1, <2>2 DEF Named1st
    <3>4. QED
      BY <1>5, <2>1, <3>2, <3>3
  <2>3. CASE T[t].name = nm /\ \A j \in 1 .. k - 1 : G[j].name # nm
    <3>1. ts[t] = T[t] /\ ts[t].name = nm
      BY <2>1, <2>3
    <3>2. f # 0 /\ f \in 1 .. Len(T) /\ f <= t
      BY <1>2, <3>1
    <3>3. T[f].name = nm
      BY <1>2, <1>6, <3>2
    <3>4. f = t
      BY <1>8, <2>3, <3>2, <3>3 DEF FirstOf
    <3>5. us[t] = Numeric(G[k].gid)
      BY <1>3, <3>4
    <3>6. \A j \in 1 .. k : Named1st(G, j, nm) => j = k
      BY <1>1, <2>3 DEF Named1st
    <3>7. k \in 1 .. k
      BY <1>1
    <3>8. QED
      BY <2>3, <3>5, <3>6, <3>7
  <2>4. CASE T[t].name = nm /\ \E j \in 1 .. k - 1 : G[j].name = nm
    <3>1. PICK j \in 1 .. k - 1 : G[j].name = nm /\ \A m \in 1 .. k - 1 : G[m].name = nm => j <= m
      <4> DEFINE J == {j \in 1 .. k - 1 : G[j].name = nm}
      <4>1. J \in SUBSET Nat /\ J # {}
        BY <2>4, SMTT(30)
      <4>2. PICK j \in J : \A m \in J : j <= m
        <5> HIDE DEF J
        <5>1. QED
          BY <4>1, Smallest
      <4>3. QED
        BY <4>2
    <3>2. Named1st(G, j, nm)
      <4>1. \A m \in 1 .. j - 1 : m \in 1 .. k - 1 /\ ~(j <= m)
        BY <1>1
      <4>2. QED
        BY <3>1, <4>1 DEF Named1st
    <3>3. ts[t] = Numeric(G[j].gid) /\ ts[t].name = NoName
      BY <1>5, <2>1, <2>4, <3>2
    <3>4. t # f
      BY <1>1, <1>2, <3>3
    <3>5. us[t] = ts[t]
      BY <1>3, <3>4
    <3>6. \A m \in 1 .. k : Named1st(G, m, nm) => m = j
      <4> SUFFICES ASSUME NEW m \in 1 .. k, Named1st(G, m, nm) PROVE m = j
        OBVIOUS
      <4>1. ~(m < j)
        BY <3>1, <3>2 DEF Named1st
      <4>2. ~(j < m)
        BY <3>1 DEF Named1st
      <4>3. QED
        BY <4>1, <4>2
    <3>7. j \in 1 .. k
      BY <1>5
    <3>8. QED
      BY <2>4, <3>1, <3>3, <3>5, <3>6, <3>7
  <2>5. QED
    BY <2>2, <2>3, <2>4
<1>9. QED
  BY <1>3, <1>7, <1>8 DEF Resolved, us

LEMMA ResolvedAll ==
  ASSUME NEW T \in Seq(GroupTokens), NEW G \in Seq(GroupEntries)
  PROVE  Resolved(T, G, Len(G), ResolveNamed(T, G))
<1> DEFINE a == Resolving(T, G)
           P == {k \in Nat : k <= Len(G) => Resolved(T, G, k, a[k])}
<1>1. a[0] = T /\ \A k \in 1 .. Len(G) : a[k] = ResolveOne(a[k - 1], G[k])
  BY ResolvingSteps
<1> HIDE DEF a
<1>2. 0 \in P
  BY <1>1 DEF Resolved
<1>3. ASSUME NEW k \in Nat, k \in P PROVE k + 1 \in P
  <2> SUFFICES ASSUME k + 1 <= Len(G) PROVE Resolved(T, G, k + 1, a[k + 1])
    OBVIOUS
  <2>1. Resolved(T, G, k, a[k])
    BY <1>3
  <2>2. k + 1 \in 1 .. Len(G) /\ (k + 1) - 1 = k
    OBVIOUS
  <2>3. a[k + 1] = ResolveOne(a[k], G[k + 1])
    BY <1>1, <2>2
  <2>4. Resolved(T, G, (k + 1) - 1, a[k])
    BY <2>1, <2>2
  <2>5. QED
    BY <2>2, <2>3, <2>4, ResolvedStep
<1>4. \A k \in Nat : k \in P
  <2> HIDE DEF P
  <2>1. QED
    BY <1>2, <1>3, Inductively
<1>5. Len(G) \in P
  BY <1>4
<1>6. QED
  BY <1>5 DEF ResolveNamed, a

\* The gids among some tokens.
Gids(ts) == {ts[t].gid : t \in {t \in DOMAIN ts : ts[t].name = NoName}}

\* What the loop leaves: the first number is that of the first usable token,
\* every usable token's gid is among the numbers, and no other gid is unless
\* a name is both asked for and listed twice.
LEMMA TokensResolved ==
  ASSUME NEW T \in Seq(GroupTokens), NEW G \in Seq(GroupEntries)
  PROVE  LET ts == ResolveNamed(T, G)
             U == UsableTokens(T, G)
         IN /\ ts \in Seq(GroupTokens) /\ Len(ts) = Len(T)
            /\ U = {} => FirstWith(ts, "name", NoName) = 0
            /\ U # {} => /\ FirstWith(ts, "name", NoName) = Min(U)
                         /\ ts[Min(U)].gid = GidOf(T[Min(U)], G)
            /\ {GidOf(T[t], G) : t \in U} \subseteq Gids(ts)
            /\ ClearNames(T, G) => Gids(ts) \subseteq {GidOf(T[t], G) : t \in U}
<1> DEFINE U == UsableTokens(T, G)
<1>1. Len(T) \in Nat /\ Len(G) \in Nat /\ DOMAIN T = 1 .. Len(T) /\ DOMAIN G = 1 .. Len(G)
  OBVIOUS
<1>2. PICK ts : ts = ResolveNamed(T, G) /\ Resolved(T, G, Len(G), ts)
  BY ResolvedAll
<1>3. ts \in Seq(GroupTokens) /\ Len(ts) = Len(T) /\ DOMAIN ts = 1 .. Len(T)
  <2>1. ts \in Seq(GroupTokens) /\ Len(ts) = Len(T)
    BY <1>2 DEF Resolved
  <2>2. QED
    BY <2>1
<1>4. \A t \in 1 .. Len(T) :
        \/ ts[t] = T[t]
        \/ /\ T[t].name # NoName
           /\ \E j \in 1 .. Len(G) : G[j].name = T[t].name /\ ts[t] = Numeric(G[j].gid)
  BY <1>2 DEF Resolved
<1>5. \A t \in 1 .. Len(T), j \in 1 .. Len(G) :
        FirstOf(T, t) /\ Named1st(G, j, T[t].name) => ts[t] = Numeric(G[j].gid)
  BY <1>2 DEF Resolved
<1>6. /\ U \subseteq 1 .. Len(T)
      /\ \A t \in 1 .. Len(T) :
           t \in U <=> (T[t].name = NoName \/ FirstWith(G, "name", T[t].name) # 0)
  BY <1>3 DEF UsableTokens
<1>7. \A name : LET f == FirstWith(G, "name", name) IN
        /\ f \in 0 .. Len(G)
        /\ f # 0 => Named1st(G, f, name) /\ f \in 1 .. Len(G) /\ G[f].name = name
        /\ f = 0 => \A j \in 1 .. Len(G) : G[j].name # name
  <2> SUFFICES ASSUME NEW name
               PROVE  LET f == FirstWith(G, "name", name) IN
                        /\ f \in 0 .. Len(G)
                        /\ f # 0 => Named1st(G, f, name) /\ f \in 1 .. Len(G) /\ G[f].name = name
                        /\ f = 0 => \A j \in 1 .. Len(G) : G[j].name # name
    OBVIOUS
  <2>1. PICK f : f = FirstWith(G, "name", name)
    OBVIOUS
  <2>2. /\ f \in 0 .. Len(G)
        /\ f # 0 => G[f]["name"] = name /\ \A k \in 1 .. Len(G) : G[k]["name"] = name => f <= k
        /\ f = 0 => \A k \in 1 .. Len(G) : G[k]["name"] # name
    BY <1>1, <2>1, FirstFacts
  <2>3. f # 0 => \A m \in 1 .. f - 1 : m \in 1 .. Len(G) /\ ~(f <= m)
    BY <1>1, <2>2
  <2>4. f # 0 => Named1st(G, f, name)
    BY <2>2, <2>3 DEF Named1st
  <2>5. QED
    BY <2>1, <2>2, <2>4
<1>8. \A g \in Nat : Numeric(g).name = NoName /\ Numeric(g).gid = g
  BY DEF Numeric
<1>9. \A j \in 1 .. Len(G) : G[j].gid \in Nat /\ G[j].name # NoName
  <2>1. \A j \in 1 .. Len(G) : G[j] \in GroupEntries
    BY <1>1
  <2>2. QED
    BY <2>1 DEF GroupEntries
<1> HIDE DEF U
\* The first usable token of its name has the promised gid.
<1>10. ASSUME NEW t \in U, \A u \in 1 .. t - 1 : u \in U => T[u].name # T[t].name
       PROVE  ts[t].name = NoName /\ ts[t].gid = GidOf(T[t], G)
  <2>1. t \in 1 .. Len(T)
    BY <1>6
  <2>2. CASE T[t].name = NoName
    BY <1>4, <2>1, <2>2 DEF GidOf
  <2>3. CASE T[t].name # NoName
    <3>1. PICK f : f = FirstWith(G, "name", T[t].name)
      OBVIOUS
    <3>2. f # 0 /\ f \in 1 .. Len(G) /\ Named1st(G, f, T[t].name)
      BY <1>6, <1>7, <2>3, <3>1
    <3>3. ASSUME NEW u \in 1 .. t - 1 PROVE T[u].name # T[t].name
      <4>1. u \in 1 .. Len(T)
        BY <1>1, <2>1
      <4>2. T[u].name = T[t].name => u \in U
        BY <1>6, <3>1, <3>2, <4>1
      <4>3. QED
        BY <1>10, <4>2
    <3>4. FirstOf(T, t)
      BY <2>3, <3>3 DEF FirstOf
    <3>5. ts[t] = Numeric(G[f].gid) /\ G[f].gid \in Nat
      BY <1>5, <1>9, <2>1, <3>2, <3>4
    <3>6. GidOf(T[t], G) = G[f].gid
      BY <2>3, <3>1 DEF GidOf
    <3>7. QED
      BY <1>8, <3>5, <3>6
  <2>4. QED
    BY <2>2, <2>3
<1>11. \A t \in 1 .. Len(T) : ts[t].name = NoName => t \in U
  BY <1>4, <1>6, <1>7
<1>12. /\ U = {} => FirstWith(ts, "name", NoName) = 0
       /\ U # {} => /\ FirstWith(ts, "name", NoName) = Min(U)
                    /\ ts[Min(U)].gid = GidOf(T[Min(U)], G)
  <2>1. PICK f : f = FirstWith(ts, "name", NoName)
    OBVIOUS
  <2>2. /\ f \in 0 .. Len(T)
        /\ f # 0 => ts[f]["name"] = NoName /\ \A k \in 1 .. Len(T) : ts[k]["name"] = NoName => f <= k
        /\ f = 0 => \A k \in 1 .. Len(T) : ts[k]["name"] # NoName
    <3>1. Len(ts) \in Nat
      BY <1>1, <1>3
    <3>2. /\ f \in 0 .. Len(ts)
          /\ f # 0 => ts[f]["name"] = NoName /\ \A k \in 1 .. Len(ts) : ts[k]["name"] = NoName => f <= k
          /\ f = 0 => \A k \in 1 .. Len(ts) : ts[k]["name"] # NoName
      BY <2>1, <3>1, FirstFacts
    <3>3. QED
      BY <1>3, <3>2
  <2>3. U = {} => f = 0
    BY <1>11, <2>2
  <2>4. ASSUME U # {} PROVE f = Min(U) /\ ts[Min(U)].gid = GidOf(T[Min(U)], G)
    <3>1. U \in SUBSET Nat
      BY <1>6
    <3>2. PICK m \in U : m = Min(U) /\ \A k \in U : m <= k
      BY <2>4, <3>1, MinFacts
    <3>3. m \in 1 .. Len(T) /\ \A u \in 1 .. m - 1 : u \notin U
      BY <1>6, <3>1, <3>2
    <3>4. ts[m].name = NoName /\ ts[m].gid = GidOf(T[m], G)
      BY <1>10, <3>3
    <3>5. f # 0 /\ f <= m /\ f \in U
      BY <1>11, <2>2, <3>3, <3>4
    <3>6. f = m
      BY <3>1, <3>2, <3>5
    <3>7. QED
      BY <3>2, <3>4, <3>6
  <2>5. QED
    BY <2>1, <2>3, <2>4
<1>13. {GidOf(T[t], G) : t \in U} \subseteq Gids(ts)
  <2> SUFFICES ASSUME NEW t \in U PROVE GidOf(T[t], G) \in Gids(ts)
    OBVIOUS
  <2> DEFINE Same == {u \in U : T[u].name = T[t].name}
  <2>1. Same \in SUBSET Nat /\ Same # {}
    <3>1. U \subseteq Nat /\ t \in Same
      BY <1>1, <1>6
    <3>2. QED
      BY <3>1
  <2>2. PICK m \in Same : \A u \in Same : m <= u
    <3> HIDE DEF Same
    <3>1. QED
      BY <2>1, Smallest
  <2>3. CASE T[t].name = NoName
    <3>1. t \in DOMAIN ts /\ ts[t] = T[t]
      BY <1>3, <1>4, <1>6, <2>3
    <3>2. QED
      BY <2>3, <3>1 DEF Gids, GidOf
  <2>4. CASE T[t].name # NoName
    <3>1. m \in U /\ m \in Nat /\ T[m].name = T[t].name
      BY <2>1
    <3>2. \A u \in 1 .. m - 1 : u \in U => T[u].name # T[m].name
      BY <2>1, <2>2, <3>1
    <3>3. ts[m].name = NoName /\ ts[m].gid = GidOf(T[m], G) /\ m \in DOMAIN ts
      BY <1>3, <1>6, <1>10, <3>1, <3>2
    <3>4. GidOf(T[m], G) = GidOf(T[t], G)
      BY <2>4, <3>1 DEF GidOf
    <3>5. QED
      BY <3>3, <3>4 DEF Gids
  <2>5. QED
    BY <2>3, <2>4
<1>14. ASSUME ClearNames(T, G) PROVE Gids(ts) \subseteq {GidOf(T[t], G) : t \in U}
  <2> SUFFICES ASSUME NEW t \in DOMAIN ts, ts[t].name = NoName
               PROVE  \E u \in U : ts[t].gid = GidOf(T[u], G)
    BY DEF Gids
  <2>1. t \in 1 .. Len(T) /\ t \in U
    BY <1>3, <1>11
  <2>2. CASE T[t].name = NoName
    BY <1>4, <2>1, <2>2 DEF GidOf
  <2>3. CASE T[t].name # NoName
    <3>1. PICK j \in 1 .. Len(G) : G[j].name = T[t].name /\ ts[t] = Numeric(G[j].gid)
      BY <1>4, <2>1, <2>3
    <3>2. PICK f : f = FirstWith(G, "name", T[t].name)
      OBVIOUS
    <3>3. f \in 1 .. Len(G) /\ G[f].name = T[t].name
      BY <1>6, <1>7, <2>1, <2>3, <3>2
    <3>4. CASE f = j
      <4>1. GidOf(T[t], G) = G[f].gid
        BY <2>3, <3>2 DEF GidOf
      <4>2. ts[t].gid = G[f].gid
        BY <1>8, <1>9, <3>1, <3>4
      <4>3. QED
        BY <2>1, <4>1, <4>2
    <3>5. CASE f # j
      <4>1. \A u \in 1 .. t - 1 : T[u].name # T[t].name
        <5> SUFFICES ASSUME NEW u \in 1 .. t - 1, T[u].name = T[t].name PROVE FALSE
          OBVIOUS
        <5>1. u \in DOMAIN T /\ t \in DOMAIN T /\ f \in DOMAIN G /\ j \in DOMAIN G /\ u # t
          BY <1>1, <1>3, <2>1, <3>3
        <5>2. \A a, b \in DOMAIN T, m, n \in DOMAIN G :
                /\ T[a].name = T[b].name /\ T[a].name = G[m].name /\ G[m].name = G[n].name
                => a = b \/ m = n
          BY <1>14 DEF ClearNames
        <5>3. QED
          BY <3>1, <3>3, <3>5, <5>1, <5>2
      <4>2. ts[t].gid = GidOf(T[t], G)
        BY <1>10, <2>1, <4>1
      <4>3. QED
        BY <2>1, <4>2
    <3>6. QED
      BY <3>4, <3>5
  <2>4. QED
    BY <2>2, <2>3
<1>15. QED
  BY <1>2, <1>3, <1>12, <1>13, <1>14 DEF U

-----------------------------------------------------------------------------
(* resolve_groups_enum.                                                    *)

LEMMA AddMemberType ==
  ASSUME NEW ts \in Seq(GroupTokens), NEW gr \in GroupEntries, NEW name
  PROVE  /\ AddMember(ts, gr, name) \in Seq(GroupTokens)
         /\ name \notin gr.mem => AddMember(ts, gr, name) = ts
         /\ name \in gr.mem =>
              /\ Len(AddMember(ts, gr, name)) = Len(ts) + 1
              /\ \A k \in 1 .. Len(ts) : AddMember(ts, gr, name)[k] = ts[k]
              /\ AddMember(ts, gr, name)[Len(ts) + 1] = Numeric(gr.gid)
<1>1. gr.gid \in Nat
  BY DEF GroupEntries
<1>2. PICK t \in GroupTokens : t = Numeric(gr.gid)
  BY <1>1, NumericFacts
<1>3. AddMember(ts, gr, name) = IF name \in gr.mem THEN Append(ts, t) ELSE ts
  BY <1>2 DEF AddMember
<1>4. /\ Append(ts, t) \in Seq(GroupTokens) /\ Len(Append(ts, t)) = Len(ts) + 1
      /\ \A k \in 1 .. Len(ts) : Append(ts, t)[k] = ts[k]
      /\ Append(ts, t)[Len(ts) + 1] = t
  BY AppendProperties
<1>5. QED
  BY <1>2, <1>3, <1>4

LEMMA EnumeratingSteps ==
  ASSUME NEW T \in Seq(GroupTokens), NEW G \in Seq(GroupEntries), NEW name
  PROVE  /\ Enumerating(T, G, name)[0] = T
         /\ \A k \in 1 .. Len(G) :
              Enumerating(T, G, name)[k] = AddMember(Enumerating(T, G, name)[k - 1], G[k], name)
<1> DEFINE n == Len(G)
           S == Seq(GroupTokens)
           F == [x \in (1 .. n) \X S |-> AddMember(x[2], G[x[1]], name)]
           def(after) == after = [j \in 0 .. n |->
                                    IF j = 0 THEN T ELSE AddMember(after[j - 1], G[j], name)]
           a == Enumerating(T, G, name)
<1>1. n \in Nat /\ \A j \in 1 .. n : G[j] \in GroupEntries
  OBVIOUS
<1>2. Steps(S, n, F)
  <2>1. ASSUME NEW x \in (1 .. n) \X S PROVE AddMember(x[2], G[x[1]], name) \in S
    <3>1. x[2] \in S /\ G[x[1]] \in GroupEntries
      BY <1>1
    <3>2. QED
      BY <3>1, AddMemberType
  <2>2. QED
    BY <2>1 DEF Steps
<1>3. \E r : Unfolds(r, S, n, T, F)
  <2> HIDE DEF n, S, F
  <2>1. T \in S
    BY DEF S
  <2>2. QED
    BY <1>1, <1>2, <2>1, Unfold
<1>4. PICK r \in [0 .. n -> S] : r[0] = T /\ \A j \in 1 .. n : r[j] = F[<<j, r[j - 1]>>]
  BY <1>3 DEF Unfolds
<1>5. ASSUME NEW j \in 1 .. n PROVE r[j] = AddMember(r[j - 1], G[j], name)
  <2>1. j - 1 \in 0 .. n
    BY <1>1
  <2>2. r[j - 1] \in S
    BY <1>4, <2>1
  <2>3. QED
    BY <1>4, <2>2
<1>6. def(r)
  BY <1>1, <1>4, <1>5
<1>7. def(a)
  BY <1>6 DEF Enumerating
<1>8. QED
  BY <1>1, <1>7

\* After k lines the tokens are the gids of those that list the user.
Listed(G, k, name, ts) ==
  /\ ts \in Seq(GroupTokens) /\ \A t \in 1 .. Len(ts) : ts[t].name = NoName
  /\ \A t \in 1 .. Len(ts) : \E j \in 1 .. k : name \in G[j].mem /\ ts[t].gid = G[j].gid
  /\ \A j \in 1 .. k : name \in G[j].mem => \E t \in 1 .. Len(ts) : ts[t].gid = G[j].gid

LEMMA ListedStep ==
  ASSUME NEW G \in Seq(GroupEntries), NEW name,
         NEW k \in 1 .. Len(G), NEW ts, Listed(G, k - 1, name, ts)
  PROVE  Listed(G, k, name, AddMember(ts, G[k], name))
<1>1. /\ ts \in Seq(GroupTokens) /\ G[k] \in GroupEntries /\ Len(ts) \in Nat
      /\ k \in Nat /\ k \in 1 .. k /\ \A j \in 1 .. k - 1 : j \in 1 .. k
      /\ \A j \in 1 .. k : j = k \/ j \in 1 .. k - 1
  BY DEF Listed
<1>2. PICK gr \in GroupEntries : gr = G[k]
  BY <1>1
<1>3. PICK us : us = AddMember(ts, gr, name)
  OBVIOUS
<1>4. us \in Seq(GroupTokens)
  BY <1>1, <1>3, AddMemberType
<1>5. /\ \A t \in 1 .. Len(ts) : ts[t].name = NoName
      /\ \A t \in 1 .. Len(ts) : \E j \in 1 .. k - 1 : name \in G[j].mem /\ ts[t].gid = G[j].gid
      /\ \A j \in 1 .. k - 1 : name \in G[j].mem => \E t \in 1 .. Len(ts) : ts[t].gid = G[j].gid
  BY DEF Listed
<1>6. CASE name \notin gr.mem
  <2>1. us = ts
    BY <1>1, <1>3, <1>6, AddMemberType
  <2>2. QED
    BY <1>1, <1>2, <1>3, <1>4, <1>5, <1>6, <2>1 DEF Listed
<1>7. CASE name \in gr.mem
  <2>1. /\ Len(us) = Len(ts) + 1 /\ \A t \in 1 .. Len(ts) : us[t] = ts[t]
        /\ us[Len(ts) + 1] = Numeric(gr.gid)
    BY <1>1, <1>3, <1>7, AddMemberType
  <2>2. us[Len(us)].name = NoName /\ us[Len(us)].gid = gr.gid
    <3>1. gr.gid \in Nat
      BY DEF GroupEntries
    <3>2. QED
      BY <2>1, <3>1, NumericFacts
  <2>3. /\ \A t \in 1 .. Len(us) : t = Len(us) \/ t \in 1 .. Len(ts)
        /\ Len(us) \in 1 .. Len(us) /\ \A t \in 1 .. Len(ts) : t \in 1 .. Len(us)
    BY <1>1, <2>1
  <2>4. \A t \in 1 .. Len(us) : us[t].name = NoName
    BY <1>5, <2>1, <2>2, <2>3
  <2>5. ASSUME NEW t \in 1 .. Len(us)
        PROVE  \E j \in 1 .. k : name \in G[j].mem /\ us[t].gid = G[j].gid
    <3>1. CASE t = Len(us)
      BY <1>1, <1>2, <1>7, <2>2, <3>1
    <3>2. CASE t \in 1 .. Len(ts)
      <4>1. PICK j \in 1 .. k - 1 : name \in G[j].mem /\ ts[t].gid = G[j].gid
        BY <1>5, <3>2
      <4>2. j \in 1 .. k /\ us[t] = ts[t]
        BY <1>1, <2>1, <3>2
      <4>3. QED
        BY <4>1, <4>2
    <3>3. QED
      BY <2>3, <3>1, <3>2
  <2>6. ASSUME NEW j \in 1 .. k, name \in G[j].mem
        PROVE  \E t \in 1 .. Len(us) : us[t].gid = G[j].gid
    <3>1. CASE j = k
      BY <1>2, <2>2, <2>3, <3>1
    <3>2. CASE j \in 1 .. k - 1
      <4>1. PICK t \in 1 .. Len(ts) : ts[t].gid = G[j].gid
        BY <1>5, <2>6, <3>2
      <4>2. t \in 1 .. Len(us) /\ us[t] = ts[t]
        BY <2>1, <2>3
      <4>3. QED
        BY <4>1, <4>2
    <3>3. QED
      BY <1>1, <3>1, <3>2
  <2>7. QED
    BY <1>2, <1>3, <1>4, <2>4, <2>5, <2>6 DEF Listed
<1>8. QED
  BY <1>6, <1>7

\* The tokens of a user without any: the gids of the groups that list it.
LEMMA MembersListed ==
  ASSUME NEW G \in Seq(GroupEntries), NEW name
  PROVE  LET ts == Enumerating(<<>>, G, name)[Len(G)]
         IN /\ ts \in Seq(GroupTokens) /\ \A t \in DOMAIN ts : ts[t].name = NoName
            /\ Gids(ts) = {gr.gid : gr \in {gr \in ToSet(G) : name \in gr.mem}}
<1> DEFINE a == Enumerating(<<>>, G, name)
           P == {k \in Nat : k <= Len(G) => Listed(G, k, name, a[k])}
<1>1. /\ <<>> \in Seq(GroupTokens) /\ Len(G) \in Nat
      /\ a[0] = <<>> /\ \A k \in 1 .. Len(G) : a[k] = AddMember(a[k - 1], G[k], name)
  <2>1. <<>> \in Seq(GroupTokens) /\ Len(G) \in Nat
    BY EmptySeq
  <2>2. QED
    BY <2>1, EnumeratingSteps, ZenonT(30)
<1> HIDE DEF a
<1>2. 0 \in P
  <2>1. Len(a[0]) = 0 /\ a[0] \in Seq(GroupTokens)
    BY <1>1
  <2>2. 1 .. Len(a[0]) = {} /\ 1 .. 0 = {}
    BY <2>1
  <2>3. Listed(G, 0, name, a[0])
    BY <2>1, <2>2 DEF Listed
  <2>4. QED
    BY <2>3
<1>3. ASSUME NEW k \in Nat, k \in P PROVE k + 1 \in P
  <2> SUFFICES ASSUME k + 1 <= Len(G) PROVE Listed(G, k + 1, name, a[k + 1])
    OBVIOUS
  <2>1. k + 1 \in 1 .. Len(G) /\ (k + 1) - 1 = k /\ k <= Len(G)
    BY <1>1
  <2>2. a[k + 1] = AddMember(a[k], G[k + 1], name)
    BY <1>1, <2>1
  <2>3. Listed(G, (k + 1) - 1, name, a[k])
    BY <1>3, <2>1
  <2>4. QED
    BY <2>1, <2>2, <2>3, ListedStep
<1>4. \A k \in Nat : k \in P
  <2> HIDE DEF P
  <2>1. QED
    BY <1>2, <1>3, Inductively
<1>5. PICK ts : ts = a[Len(G)] /\ Listed(G, Len(G), name, ts)
  BY <1>1, <1>4
<1>6. /\ ts \in Seq(GroupTokens) /\ DOMAIN ts = 1 .. Len(ts)
      /\ \A t \in 1 .. Len(ts) : ts[t].name = NoName
      /\ \A t \in 1 .. Len(ts) : \E j \in 1 .. Len(G) : name \in G[j].mem /\ ts[t].gid = G[j].gid
      /\ \A j \in 1 .. Len(G) : name \in G[j].mem => \E t \in 1 .. Len(ts) : ts[t].gid = G[j].gid
  BY <1>5 DEF Listed
<1>7. DOMAIN G = 1 .. Len(G)
  OBVIOUS
<1>8. Gids(ts) = {gr.gid : gr \in {gr \in ToSet(G) : name \in gr.mem}}
  <2>1. ASSUME NEW x \in Gids(ts) PROVE \E gr \in ToSet(G) : name \in gr.mem /\ x = gr.gid
    <3>1. PICK t \in 1 .. Len(ts) : x = ts[t].gid
      BY <1>6 DEF Gids
    <3>2. PICK j \in 1 .. Len(G) : name \in G[j].mem /\ ts[t].gid = G[j].gid
      BY <1>6
    <3>3. G[j] \in ToSet(G)
      BY <1>7 DEF ToSet
    <3>4. QED
      BY <3>1, <3>2, <3>3
  <2>2. ASSUME NEW gr \in ToSet(G), name \in gr.mem PROVE gr.gid \in Gids(ts)
    <3>1. PICK j \in 1 .. Len(G) : gr = G[j]
      BY <1>7 DEF ToSet
    <3>2. PICK t \in 1 .. Len(ts) : ts[t].gid = G[j].gid
      BY <1>6, <2>2, <3>1
    <3>3. QED
      BY <1>6, <3>1, <3>2 DEF Gids
  <2>3. QED
    BY <2>1, <2>2
<1>9. QED
  BY <1>5, <1>6, <1>8 DEF a

-----------------------------------------------------------------------------
(* get_groups.                                                             *)

\* A list of gids without repetition.
Distinct(gs) ==
  gs \in Seq(Nat) /\ IsFiniteSet(ToSet(gs)) /\ Cardinality(ToSet(gs)) = Len(gs)

\* A list that has one more gid, wherever it is.
LEMMA OneMore ==
  ASSUME NEW gs, Distinct(gs), NEW g \in Nat, g \notin ToSet(gs),
         NEW hs \in Seq(Nat), Len(hs) = Len(gs) + 1, ToSet(hs) = ToSet(gs) \cup {g}
  PROVE  Distinct(hs)
<1>1. IsFiniteSet(ToSet(gs)) /\ Cardinality(ToSet(gs)) = Len(gs)
  BY DEF Distinct
<1>2. IsFiniteSet(ToSet(gs) \cup {g}) /\ Cardinality(ToSet(gs) \cup {g}) = Len(gs) + 1
  BY <1>1, FS_AddElement
<1>3. QED
  BY <1>2 DEF Distinct

LEMMA Appended ==
  ASSUME NEW gs \in Seq(Nat), NEW g \in Nat
  PROVE  /\ Append(gs, g) \in Seq(Nat) /\ Len(Append(gs, g)) = Len(gs) + 1
         /\ ToSet(Append(gs, g)) = ToSet(gs) \cup {g}
<1>1. PICK hs : hs = Append(gs, g)
  OBVIOUS
<1>2. /\ hs \in Seq(Nat) /\ Len(hs) = Len(gs) + 1
      /\ \A k \in 1 .. Len(gs) : hs[k] = gs[k]
      /\ hs[Len(gs) + 1] = g
  BY <1>1, AppendProperties
<1>3. DOMAIN gs = 1 .. Len(gs) /\ DOMAIN hs = 1 .. Len(gs) + 1 /\ Len(gs) \in Nat
  BY <1>2
<1>4. \A k \in 1 .. Len(gs) + 1 : k = Len(gs) + 1 \/ k \in 1 .. Len(gs)
  BY <1>3
<1>5. ToSet(hs) = ToSet(gs) \cup {g}
  <2>1. ASSUME NEW x \in ToSet(hs) PROVE x \in ToSet(gs) \cup {g}
    BY <1>2, <1>3, <1>4 DEF ToSet
  <2>2. ASSUME NEW x \in ToSet(gs) PROVE x \in ToSet(hs)
    <3>1. PICK k \in 1 .. Len(gs) : x = gs[k]
      BY <1>3 DEF ToSet
    <3>2. k \in DOMAIN hs /\ x = hs[k]
      BY <1>2, <1>3, <3>1
    <3>3. QED
      BY <3>2 DEF ToSet
  <2>3. g \in ToSet(hs)
    <3>1. Len(gs) + 1 \in DOMAIN hs
      BY <1>3
    <3>2. QED
      BY <1>2, <3>1 DEF ToSet
  <2>4. QED
    BY <2>1, <2>2, <2>3
<1>6. QED
  BY <1>1, <1>2, <1>5

LEMMA Inserted ==
  ASSUME NEW gs \in Seq(Nat), NEW g \in Nat
  PROVE  /\ InsertSorted(gs, g) \in Seq(Nat) /\ Len(InsertSorted(gs, g)) = Len(gs) + 1
         /\ ToSet(InsertSorted(gs, g)) = ToSet(gs) \cup {g}
<1> DEFINE I == {k \in 1 .. Len(gs) : gs[k] >= g}
<1>n. Len(gs) \in Nat /\ DOMAIN gs = 1 .. Len(gs)
  OBVIOUS
<1>1. InsertSorted(gs, g) = IF I = {} THEN Append(gs, g) ELSE InsertAt(gs, Min(I), g)
  <2>1. I # {} => Min(I) \in I /\ Min(I) # 0
    <3>1. I \in SUBSET Nat /\ 0 \notin I
      BY <1>n
    <3> HIDE DEF I
    <3>2. QED
      BY <3>1, MinFacts
  <2>2. QED
    BY <2>1 DEF InsertSorted, SelectInSeq
<1>2. CASE I = {}
  BY <1>1, <1>2, Appended
<1>3. CASE I # {}
  <2>1. PICK p \in 1 .. Len(gs) : p = Min(I)
    <3>1. I \in SUBSET Nat /\ I \subseteq 1 .. Len(gs)
      BY <1>n
    <3> HIDE DEF I
    <3>2. QED
      BY <1>3, <3>1, MinFacts
  <2> DEFINE L == SubSeq(gs, 1, p - 1)
             M == <<g>>
             R == SubSeq(gs, p, Len(gs))
  <2>2. L \in Seq(Nat) /\ Len(L) = p - 1 /\ \A k \in 1 .. p - 1 : L[k] = gs[k]
    <3>1. 1 \in 1 .. Len(gs) + 1 /\ p - 1 \in 0 .. Len(gs)
      BY <1>n
    <3>2. QED
      BY <1>n, <3>1, SubSeqProperties
  <2>3. R \in Seq(Nat) /\ Len(R) = Len(gs) - p + 1 /\ \A k \in 1 .. Len(gs) - p + 1 : R[k] = gs[p + k - 1]
    <3>1. p \in 1 .. Len(gs) + 1 /\ Len(gs) \in 0 .. Len(gs)
      BY <1>n
    <3>2. QED
      BY <1>n, <3>1, SubSeqProperties
  <2>4. M \in Seq(Nat) /\ Len(M) = 1 /\ M[1] = g
    OBVIOUS
  <2>5. PICK hs : hs = (L \o M) \o R
    OBVIOUS
  <2>6. InsertSorted(gs, g) = hs
    BY <1>1, <1>3, <2>1, <2>5 DEF InsertAt
  <2> HIDE DEF L, M, R
  <2>7. PICK lm : /\ lm = L \o M /\ lm \in Seq(Nat) /\ Len(lm) = p
                  /\ \A k \in 1 .. p : lm[k] = IF k <= p - 1 THEN L[k] ELSE M[k - (p - 1)]
    <3>1. /\ L \o M \in Seq(Nat) /\ Len(L \o M) = Len(L) + Len(M)
          /\ \A k \in 1 .. Len(L) + Len(M) :
               (L \o M)[k] = IF k <= Len(L) THEN L[k] ELSE M[k - Len(L)]
      BY <2>2, <2>4, ConcatProperties
    <3>2. Len(L) + Len(M) = p
      BY <1>n, <2>2, <2>4
    <3>3. QED
      BY <2>2, <3>1, <3>2
  <2>8. /\ hs \in Seq(Nat) /\ Len(hs) = Len(gs) + 1
        /\ \A k \in 1 .. Len(gs) + 1 : hs[k] = IF k <= p THEN lm[k] ELSE R[k - p]
    <3>1. /\ lm \o R \in Seq(Nat) /\ Len(lm \o R) = Len(lm) + Len(R)
          /\ \A k \in 1 .. Len(lm) + Len(R) :
               (lm \o R)[k] = IF k <= Len(lm) THEN lm[k] ELSE R[k - Len(lm)]
      <4>1. lm \in Seq(Nat) /\ R \in Seq(Nat)
        BY <2>3, <2>7
      <4>2. QED
        BY <4>1, ConcatProperties
    <3>2. Len(lm) + Len(R) = Len(gs) + 1
      BY <1>n, <2>3, <2>7
    <3>3. QED
      BY <2>5, <2>7, <3>1, <3>2
  <2>9. /\ \A k \in 1 .. p - 1 : hs[k] = gs[k]
        /\ hs[p] = g
        /\ \A k \in p + 1 .. Len(gs) + 1 : hs[k] = gs[k - 1]
    <3>1. ASSUME NEW k \in 1 .. p - 1 PROVE hs[k] = gs[k]
      <4>1. k \in 1 .. p /\ k \in 1 .. Len(gs) + 1 /\ k <= p /\ k <= p - 1
        BY <1>n
      <4>2. hs[k] = lm[k]
        BY <2>8, <4>1
      <4>3. lm[k] = L[k]
        BY <2>7, <4>1
      <4>4. QED
        BY <2>2, <4>2, <4>3
    <3>2. hs[p] = g
      <4>1. p \in 1 .. p /\ p \in 1 .. Len(gs) + 1 /\ p - (p - 1) = 1 /\ ~(p <= p - 1)
        BY <1>n
      <4>2. QED
        <5>1. hs[p] = lm[p] /\ p <= p
          BY <2>8, <4>1
        <5>2. lm[p] = M[p - (p - 1)]
          BY <2>7, <4>1
        <5>3. QED
          BY <2>4, <4>1, <5>1, <5>2
    <3>3. ASSUME NEW k \in p + 1 .. Len(gs) + 1 PROVE hs[k] = gs[k - 1]
      <4>1. k \in 1 .. Len(gs) + 1 /\ ~(k <= p) /\ k - p \in 1 .. Len(gs) - p + 1 /\ p + (k - p) - 1 = k - 1
        BY <1>n
      <4>2. QED
        BY <2>3, <2>8, <4>1
    <3>4. QED
      BY <3>1, <3>2, <3>3
  <2>10. DOMAIN hs = 1 .. Len(gs) + 1
    BY <2>8
  <2>11. ToSet(hs) = ToSet(gs) \cup {g}
    <3>1. ASSUME NEW k \in DOMAIN hs PROVE hs[k] \in ToSet(gs) \cup {g}
      <4>1. CASE k < p
        <5>1. k \in 1 .. p - 1 /\ k \in DOMAIN gs
          BY <1>n, <2>10, <4>1
        <5>2. QED
          BY <2>9, <5>1 DEF ToSet
      <4>2. CASE k = p
        BY <2>9, <4>2
      <4>3. CASE k > p
        <5>1. k \in p + 1 .. Len(gs) + 1 /\ k - 1 \in DOMAIN gs
          BY <1>n, <2>10, <4>3
        <5>2. QED
          BY <2>9, <5>1 DEF ToSet
      <4>4. QED
        BY <1>n, <2>10, <4>1, <4>2, <4>3
    <3>2. ASSUME NEW k \in DOMAIN gs PROVE gs[k] \in ToSet(hs)
      <4>1. CASE k < p
        <5>1. k \in 1 .. p - 1 /\ k \in DOMAIN hs
          BY <1>n, <2>10, <4>1
        <5>2. QED
          BY <2>9, <5>1 DEF ToSet
      <4>2. CASE k >= p
        <5>1. k + 1 \in p + 1 .. Len(gs) + 1 /\ k + 1 \in DOMAIN hs /\ (k + 1) - 1 = k
          BY <1>n, <2>10, <4>2
        <5>2. hs[k + 1] = gs[k]
          BY <2>9, <5>1
        <5>3. QED
          BY <5>1, <5>2 DEF ToSet
      <4>3. QED
        BY <1>n, <4>1, <4>2
    <3>3. g \in ToSet(hs)
      <4>1. p \in DOMAIN hs
        BY <1>n, <2>10
      <4>2. QED
        BY <2>9, <4>1 DEF ToSet
    <3>4. QED
      BY <3>1, <3>2, <3>3 DEF ToSet
  <2>12. QED
    BY <2>6, <2>8, <2>11
<1>4. QED
  BY <1>2, <1>3

\* gid_already_in_list.
LEMMA ContainsFacts ==
  ASSUME NEW gs \in Seq(Nat), NEW g
  PROVE  Contains(gs, g) <=> g \in ToSet(gs)
BY DEF Contains, ToSet

LEMMA WithPrimaryFacts ==
  ASSUME NEW gs, Distinct(gs), NEW g \in Nat
  PROVE  Distinct(WithPrimary(gs, g)) /\ ToSet(WithPrimary(gs, g)) = ToSet(gs) \cup {g}
<1>1. gs \in Seq(Nat)
  BY DEF Distinct
<1>2. CASE g \in ToSet(gs)
  BY <1>1, <1>2, ContainsFacts DEF WithPrimary
<1>3. CASE g \notin ToSet(gs)
  <2>1. WithPrimary(gs, g) = Append(gs, g)
    BY <1>1, <1>3, ContainsFacts DEF WithPrimary
  <2>2. PICK hs : hs = Append(gs, g)
    OBVIOUS
  <2>3. hs \in Seq(Nat) /\ Len(hs) = Len(gs) + 1 /\ ToSet(hs) = ToSet(gs) \cup {g}
    BY <1>1, <2>2, Appended
  <2>4. Distinct(hs)
    BY <1>3, <2>3, OneMore
  <2>5. QED
    BY <2>1, <2>2, <2>3, <2>4
<1>4. QED
  BY <1>2, <1>3

LEMMA AddGidFacts ==
  ASSUME NEW gs, Distinct(gs), NEW t \in GroupTokens, NEW g \in ToSet(gs)
  PROVE  /\ Distinct(AddGid(gs, t, g))
         /\ ToSet(AddGid(gs, t, g)) = ToSet(gs) \cup (IF t.name = NoName THEN {t.gid} ELSE {})
<1>1. gs \in Seq(Nat) /\ t.gid \in Nat
  BY DEF Distinct, GroupTokens
<1>2. CASE t.name # NoName \/ t.gid \in ToSet(gs)
  <2>1. AddGid(gs, t, g) = gs
    BY <1>1, <1>2, ContainsFacts DEF AddGid
  <2>2. QED
    BY <1>2, <2>1
<1>3. CASE t.name = NoName /\ t.gid \notin ToSet(gs)
  <2>1. AddGid(gs, t, g) = InsertSorted(gs, t.gid)
    BY <1>1, <1>3, ContainsFacts DEF AddGid
  <2>2. PICK x \in Nat : x = t.gid
    BY <1>1
  <2>3. PICK hs : hs = InsertSorted(gs, x)
    OBVIOUS
  <2>4. hs \in Seq(Nat) /\ Len(hs) = Len(gs) + 1 /\ ToSet(hs) = ToSet(gs) \cup {x}
    BY <1>1, <2>3, Inserted
  <2>5. x \notin ToSet(gs)
    BY <1>3, <2>2
  <2>6. Distinct(hs)
    BY <2>4, <2>5, OneMore
  <2>7. QED
    BY <1>3, <2>1, <2>2, <2>3, <2>4, <2>6
<1>4. QED
  BY <1>2, <1>3

LEMMA AddGidType ==
  ASSUME NEW gs \in Seq(Nat), NEW t \in GroupTokens, NEW g
  PROVE  AddGid(gs, t, g) \in Seq(Nat)
<1>1. PICK x \in Nat : x = t.gid
  BY DEF GroupTokens
<1>2. QED
  BY <1>1, Inserted DEF AddGid

LEMMA CollectingSteps ==
  ASSUME NEW gs \in Seq(Nat), NEW T \in Seq(GroupTokens), NEW g \in Nat
  PROVE  /\ Collecting(gs, T, g)[0] = WithPrimary(gs, g)
         /\ \A k \in 1 .. Len(T) :
              Collecting(gs, T, g)[k] = AddGid(Collecting(gs, T, g)[k - 1], T[k], g)
<1> DEFINE n == Len(T)
           S == Seq(Nat)
           b == WithPrimary(gs, g)
           F == [x \in (1 .. n) \X S |-> AddGid(x[2], T[x[1]], g)]
           def(after) == after = [j \in 0 .. n |->
                                    IF j = 0 THEN WithPrimary(gs, g) ELSE AddGid(after[j - 1], T[j], g)]
           a == Collecting(gs, T, g)
<1>1. n \in Nat /\ \A j \in 1 .. n : T[j] \in GroupTokens
  OBVIOUS
<1>2. Steps(S, n, F)
  <2>1. ASSUME NEW x \in (1 .. n) \X S PROVE AddGid(x[2], T[x[1]], g) \in S
    <3>1. x[2] \in S /\ T[x[1]] \in GroupTokens
      BY <1>1
    <3>2. QED
      BY <3>1, AddGidType
  <2>2. QED
    BY <2>1 DEF Steps
<1>3. b \in S
  BY Appended DEF WithPrimary
<1>4. \E r : Unfolds(r, S, n, b, F)
  <2> HIDE DEF n, S, F, b
  <2>1. QED
    BY <1>1, <1>2, <1>3, Unfold
<1>5. PICK r \in [0 .. n -> S] : r[0] = b /\ \A j \in 1 .. n : r[j] = F[<<j, r[j - 1]>>]
  BY <1>4 DEF Unfolds
<1>6. ASSUME NEW j \in 1 .. n PROVE r[j] = AddGid(r[j - 1], T[j], g)
  <2>1. j - 1 \in 0 .. n
    BY <1>1
  <2>2. r[j - 1] \in S
    BY <1>5, <2>1
  <2>3. QED
    BY <1>5, <2>2
<1>7. def(r)
  BY <1>1, <1>5, <1>6
<1>8. def(a)
  BY <1>7 DEF Collecting
<1>9. QED
  BY <1>1, <1>8

\* After k tokens the list has the primary gid and those tokens' numbers.
Collected(G, T, k, gs) ==
  Distinct(gs) /\ ToSet(gs) = G \cup {T[t].gid : t \in {t \in 1 .. k : T[t].name = NoName}}

LEMMA CollectedStep ==
  ASSUME NEW T \in Seq(GroupTokens), NEW g, NEW G, g \in G,
         NEW k \in 1 .. Len(T), NEW gs, Collected(G, T, k - 1, gs)
  PROVE  Collected(G, T, k, AddGid(gs, T[k], g))
<1> DEFINE N(m) == {T[t].gid : t \in {t \in 1 .. m : T[t].name = NoName}}
<1>1. Distinct(gs) /\ ToSet(gs) = G \cup N(k - 1)
  BY DEF Collected
<1>2. PICK t \in GroupTokens : t = T[k]
  OBVIOUS
<1>3. /\ Distinct(AddGid(gs, t, g))
      /\ ToSet(AddGid(gs, t, g)) = ToSet(gs) \cup (IF t.name = NoName THEN {t.gid} ELSE {})
  <2>1. g \in ToSet(gs)
    BY <1>1
  <2> HIDE DEF N
  <2>2. QED
    BY <1>1, <2>1, AddGidFacts
<1>4. \A m : m \in 1 .. k <=> (m \in 1 .. k - 1 \/ m = k)
  OBVIOUS
<1>5. N(k) = N(k - 1) \cup (IF t.name = NoName THEN {t.gid} ELSE {})
  BY <1>2, <1>4
<1>6. QED
  BY <1>1, <1>2, <1>3, <1>5 DEF Collected

\* The groups of a user: the primary gid and the numbers, without repetition.
LEMMA GroupsCollected ==
  ASSUME NEW T \in Seq(GroupTokens), NEW g \in Nat
  PROVE  LET gs == Collecting(<<>>, T, g)[Len(T)]
         IN Distinct(gs) /\ ToSet(gs) = {g} \cup Gids(T)
<1> DEFINE a == Collecting(<<>>, T, g)
           P == {k \in Nat : k <= Len(T) => Collected({g}, T, k, a[k])}
<1>1. <<>> \in Seq(Nat) /\ Len(T) \in Nat /\ DOMAIN T = 1 .. Len(T)
  BY EmptySeq
<1>2. a[0] = WithPrimary(<<>>, g) /\ \A k \in 1 .. Len(T) : a[k] = AddGid(a[k - 1], T[k], g)
  BY <1>1, CollectingSteps
<1> HIDE DEF a
<1>3. 0 \in P
  <2>1. ToSet(<<>>) = {} /\ Len(<<>>) = 0
    BY DEF ToSet
  <2>2. IsFiniteSet({}) /\ Cardinality({}) = 0
    BY FS_EmptySet
  <2>3. PICK e : e = <<>> /\ Distinct(e) /\ ToSet(e) = {}
    BY <1>1, <2>1, <2>2 DEF Distinct
  <2>4. Distinct(a[0]) /\ ToSet(a[0]) = {g}
    BY <1>2, <2>3, WithPrimaryFacts
  <2>5. {t \in 1 .. 0 : T[t].name = NoName} = {}
    OBVIOUS
  <2>6. Collected({g}, T, 0, a[0])
    BY <2>4, <2>5 DEF Collected
  <2>7. QED
    BY <2>6
<1>4. ASSUME NEW k \in Nat, k \in P PROVE k + 1 \in P
  <2> SUFFICES ASSUME k + 1 <= Len(T) PROVE Collected({g}, T, k + 1, a[k + 1])
    OBVIOUS
  <2>1. k + 1 \in 1 .. Len(T) /\ (k + 1) - 1 = k /\ k <= Len(T)
    BY <1>1
  <2>2. a[k + 1] = AddGid(a[k], T[k + 1], g)
    BY <1>2, <2>1
  <2>3. Collected({g}, T, (k + 1) - 1, a[k]) /\ g \in {g}
    BY <1>4, <2>1
  <2>4. QED
    BY <2>1, <2>2, <2>3, CollectedStep
<1>5. \A k \in Nat : k \in P
  <2> HIDE DEF P
  <2>1. QED
    BY <1>3, <1>4, Inductively
<1>6. Collected({g}, T, Len(T), a[Len(T)])
  <2>1. Len(T) \in P
    BY <1>1, <1>5
  <2>2. QED
    BY <2>1
<1>7. QED
  BY <1>1, <1>6 DEF Collected, Gids, a

\* Asked again, the groups are the same.
LEMMA GroupsCollectedAgain ==
  ASSUME NEW T \in Seq(GroupTokens), NEW gs \in Seq(Nat),
         NEW g \in Nat, g \in ToSet(gs), Gids(T) \subseteq ToSet(gs)
  PROVE  Collecting(gs, T, g)[Len(T)] = gs
<1> DEFINE a == Collecting(gs, T, g)
           P == {k \in Nat : k <= Len(T) => a[k] = gs}
<1>1. Len(T) \in Nat /\ DOMAIN T = 1 .. Len(T)
  OBVIOUS
<1>2. a[0] = WithPrimary(gs, g) /\ \A k \in 1 .. Len(T) : a[k] = AddGid(a[k - 1], T[k], g)
  BY CollectingSteps
<1> HIDE DEF a
<1>3. 0 \in P
  BY <1>2, ContainsFacts DEF WithPrimary
<1>4. ASSUME NEW k \in Nat, k \in P PROVE k + 1 \in P
  <2> SUFFICES ASSUME k + 1 <= Len(T) PROVE a[k + 1] = gs
    OBVIOUS
  <2>1. k + 1 \in 1 .. Len(T) /\ (k + 1) - 1 = k /\ k <= Len(T)
    BY <1>1
  <2>2. a[k + 1] = AddGid(gs, T[k + 1], g)
    BY <1>2, <1>4, <2>1
  <2>3. T[k + 1].name = NoName => T[k + 1].gid \in ToSet(gs)
    BY <1>1, <2>1 DEF Gids
  <2>4. QED
    BY <2>2, <2>3, ContainsFacts DEF AddGid
<1>5. \A k \in Nat : k \in P
  <2> HIDE DEF P
  <2>1. QED
    BY <1>3, <1>4, Inductively
<1>6. Len(T) \in P
  BY <1>1, <1>5
<1>7. QED
  BY <1>6 DEF a

-----------------------------------------------------------------------------
(* The getters.                                                            *)

Users ==
  [uid : Nat, uid_filled : BOOLEAN, name_given : BOOLEAN,
   name : STRING \cup {NoName, "root"}, tokens : Seq(GroupTokens),
   gid : Nat, gid_filled : BOOLEAN, groups : Seq(Nat),
   passwd_gid : Nat, home : STRING \cup {NoHome, "/root"},
   rootfs : {"root", "/"}, passwd_parsed : BOOLEAN, group_parsed : BOOLEAN]

\* What is read from etc/passwd and what is not.
SameGroups(u, w) ==
  /\ w.tokens = u.tokens /\ w.gid = u.gid /\ w.gid_filled = u.gid_filled
  /\ w.groups = u.groups /\ w.group_parsed = u.group_parsed
SamePasswd(u, w) ==
  /\ w.uid = u.uid /\ w.uid_filled = u.uid_filled /\ w.name = u.name /\ w.home = u.home
  /\ w.passwd_gid = u.passwd_gid /\ w.passwd_parsed = u.passwd_parsed
SameSource(u, w) == w.name_given = u.name_given /\ w.rootfs = u.rootfs

LEMMA EntryFacts ==
  ASSUME NEW db, ValidDatabase(db), NEW field, NEW v
  PROVE  LET f == FirstWith(db.passwd, field, v)
         IN f # 0 => /\ db.passwd[f].uid \in Nat /\ db.passwd[f].gid \in Nat
                     /\ db.passwd[f].name \in STRING /\ db.passwd[f].home \in STRING
<1>1. PICK P \in Seq(PasswdEntries) : P = db.passwd
  BY DEF ValidDatabase
<1>2. PICK f : f = FirstWith(P, field, v) /\ f \in 0 .. Len(P)
  BY FirstFacts
<1>3. f # 0 => P[f] \in PasswdEntries
  BY <1>2
<1>4. QED
  BY <1>1, <1>2, <1>3 DEF PasswdEntries

LEMMA ByUidFacts ==
  ASSUME NEW u \in Users, NEW db, ValidDatabase(db)
  PROVE  LET w == ResolveByUid(u, db)
             f == FirstWith(db.passwd, "uid", u.uid)
         IN /\ w \in Users /\ SameGroups(u, w) /\ SameSource(u, w)
            /\ w.uid = u.uid /\ w.uid_filled = u.uid_filled /\ w.passwd_parsed = u.passwd_parsed
            /\ f # 0 => /\ w.name = db.passwd[f].name /\ w.home = db.passwd[f].home
                        /\ w.passwd_gid = db.passwd[f].gid
            /\ f = 0 /\ u.uid = 0 => w.name = "root" /\ w.home = "/root" /\ w.passwd_gid = 0
            /\ f = 0 /\ u.uid # 0 => w.name = u.name /\ w.home = u.home /\ w.passwd_gid = u.uid
<1> DEFINE w == ResolveByUid(u, db)
<1>1. PICK f : f = FirstWith(db.passwd, "uid", u.uid)
  OBVIOUS
<1>2. f # 0 => /\ db.passwd[f].uid \in Nat /\ db.passwd[f].gid \in Nat
               /\ db.passwd[f].name \in STRING /\ db.passwd[f].home \in STRING
  BY <1>1, EntryFacts
<1>3. CASE f # 0
  <2>1. w = [u EXCEPT !.name = db.passwd[f].name, !.home = db.passwd[f].home,
                      !.passwd_gid = db.passwd[f].gid]
    BY <1>1, <1>3 DEF ResolveByUid
  <2>2. QED
    BY <1>1, <1>2, <1>3, <2>1 DEF Users, SameGroups, SameSource
<1>4. CASE f = 0 /\ u.uid = 0
  <2>1. w = [u EXCEPT !.name = "root", !.home = "/root", !.passwd_gid = 0]
    BY <1>1, <1>4 DEF ResolveByUid, SetRootFallback
  <2>2. QED
    BY <1>1, <1>4, <2>1 DEF Users, SameGroups, SameSource
<1>5. CASE f = 0 /\ u.uid # 0
  <2>1. w = [u EXCEPT !.passwd_gid = u.uid]
    BY <1>1, <1>5 DEF ResolveByUid
  <2>2. QED
    BY <1>1, <1>5, <2>1 DEF Users, SameGroups, SameSource
<1>6. QED
  BY <1>3, <1>4, <1>5

LEMMA ByNameFacts ==
  ASSUME NEW u \in Users, NEW db, ValidDatabase(db)
  PROVE  LET w == ResolveByName(u, db)
             hit == FirstWith(db.passwd, "name", u.name)
             f == IF hit # 0 THEN hit ELSE FirstWith(db.passwd, "name", "nobody")
         IN /\ w \in Users /\ SameGroups(u, w) /\ SameSource(u, w)
            /\ w.name = u.name /\ w.uid_filled /\ w.passwd_parsed = u.passwd_parsed
            /\ f # 0 => /\ w.uid = db.passwd[f].uid /\ w.home = db.passwd[f].home
                        /\ w.passwd_gid = db.passwd[f].gid
            /\ f = 0 => w.uid = NOBODY_ID /\ w.home = u.home /\ w.passwd_gid = NOBODY_ID
<1> DEFINE w == ResolveByName(u, db)
           hit == FirstWith(db.passwd, "name", u.name)
<1>1. PICK f : f = IF hit # 0 THEN hit ELSE FirstWith(db.passwd, "name", "nobody")
  OBVIOUS
<1>2. f # 0 => /\ db.passwd[f].uid \in Nat /\ db.passwd[f].gid \in Nat
               /\ db.passwd[f].name \in STRING /\ db.passwd[f].home \in STRING
  BY <1>1, EntryFacts
<1>3. CASE f # 0
  <2>1. w = [u EXCEPT !.uid = db.passwd[f].uid, !.passwd_gid = db.passwd[f].gid,
                      !.home = db.passwd[f].home, !.uid_filled = TRUE]
    BY <1>1, <1>3 DEF ResolveByName
  <2>2. QED
    BY <1>1, <1>2, <1>3, <2>1 DEF Users, SameGroups, SameSource
<1>4. CASE f = 0
  <2>1. PICK n \in Nat : n = NOBODY_ID
    BY DEF NOBODY_ID
  <2>2. w = [u EXCEPT !.uid = n, !.passwd_gid = n, !.uid_filled = TRUE]
    BY <1>1, <1>4, <2>1 DEF ResolveByName
  <2>3. QED
    BY <1>1, <1>4, <2>1, <2>2 DEF Users, SameGroups, SameSource
<1>5. QED
  BY <1>3, <1>4

LEMMA UserNewFacts ==
  ASSUME NEW opt, ValidOption(opt), NEW r \in {"root", "/"}
  PROVE  LET u == UserNew(opt, r)
         IN /\ u \in Users /\ u.tokens = opt.g \o opt.colon /\ u.groups = <<>> /\ u.rootfs = r
            /\ ~u.gid_filled /\ ~u.passwd_parsed /\ ~u.group_parsed /\ u.home = NoHome
            /\ u.uid_filled <=> opt.user # "name"
            /\ u.name_given <=> opt.user = "name"
            /\ u.uid = (IF opt.user = "number" THEN opt.uid ELSE 0)
            /\ u.name = (IF opt.user = "name" THEN opt.name ELSE NoName)
<1>1. opt.g \in Seq(GroupTokens) /\ opt.colon \in Seq(GroupTokens) /\ opt.uid \in Nat /\ opt.name \in STRING
  BY DEF ValidOption
<1>2. PICK T \in Seq(GroupTokens) : T = opt.g \o opt.colon
  BY <1>1, ConcatProperties
<1>3. <<>> \in Seq(Nat)
  BY EmptySeq
<1>4. PICK n \in Nat : n = IF opt.user = "number" THEN opt.uid ELSE 0
  BY <1>1
<1>5. PICK nm \in STRING \cup {NoName, "root"} : nm = IF opt.user = "name" THEN opt.name ELSE NoName
  BY <1>1
<1>6. PICK f \in BOOLEAN, g \in BOOLEAN : f = (opt.user # "name") /\ g = (opt.user = "name")
  OBVIOUS
<1>7. UserNew(opt, r) =
        [uid |-> n, uid_filled |-> f, name_given |-> g, name |-> nm, tokens |-> T,
         gid |-> 0, gid_filled |-> FALSE, groups |-> <<>>, passwd_gid |-> 0, home |-> NoHome,
         rootfs |-> r, passwd_parsed |-> FALSE, group_parsed |-> FALSE]
  BY <1>2, <1>4, <1>5, <1>6 DEF UserNew
<1>8. PICK u : u = UserNew(opt, r)
  OBVIOUS
<1>9. u \in Users
  BY <1>2, <1>3, <1>4, <1>5, <1>6, <1>7, <1>8 DEF Users
<1>10. /\ u.tokens = T /\ u.groups = <<>> /\ u.rootfs = r /\ u.gid_filled = FALSE
       /\ u.passwd_parsed = FALSE /\ u.group_parsed = FALSE /\ u.home = NoHome
       /\ u.uid_filled = f /\ u.name_given = g /\ u.uid = n /\ u.name = nm
  BY <1>7, <1>8
<1>11. /\ u.uid_filled <=> opt.user # "name"
       /\ u.name_given <=> opt.user = "name"
  BY <1>6, <1>10
<1>12. QED
  BY <1>2, <1>4, <1>5, <1>8, <1>9, <1>10, <1>11

\* What get_uid, get_home and get_name have read from etc/passwd.
PasswdRead(opt, db, r, w) ==
  LET p == Promised(opt, db)
  IN /\ w \in Users /\ w.tokens = opt.g \o opt.colon /\ w.groups = <<>> /\ w.rootfs = r
     /\ ~w.gid_filled /\ ~w.group_parsed /\ w.uid_filled /\ w.passwd_parsed
     /\ w.name_given <=> opt.user = "name"
     /\ w.uid = p.uid /\ w.home = p.home /\ w.name = p.name
     /\ w.passwd_gid = PasswdGid(opt, db)

LEMMA PasswdFacts ==
  ASSUME NEW opt, ValidOption(opt), NEW db, ValidDatabase(db), NEW r \in {"root", "/"}
  PROVE  PasswdRead(opt, db, r, ResolvePasswd(UserNew(opt, r), db))
<1>1. PICK u \in Users :
        /\ u = UserNew(opt, r)
        /\ u.tokens = opt.g \o opt.colon /\ u.groups = <<>> /\ u.rootfs = r
        /\ ~u.gid_filled /\ ~u.passwd_parsed /\ ~u.group_parsed /\ u.home = NoHome
        /\ u.uid_filled <=> opt.user # "name"
        /\ u.name_given <=> opt.user = "name"
        /\ u.uid = (IF opt.user = "number" THEN opt.uid ELSE 0)
        /\ u.name = (IF opt.user = "name" THEN opt.name ELSE NoName)
  BY UserNewFacts
<1>2. PICK v : v = IF u.uid_filled THEN ResolveByUid(u, db) ELSE ResolveByName(u, db)
  OBVIOUS
<1>3. v \in Users /\ SameGroups(u, v) /\ SameSource(u, v) /\ v.uid_filled
  BY <1>2, ByUidFacts, ByNameFacts
<1>4. PICK w : w = ResolvePasswd(u, db)
  OBVIOUS
<1>5. w = [v EXCEPT !.passwd_parsed = TRUE]
  BY <1>1, <1>2, <1>4 DEF ResolvePasswd
<1>6. /\ w \in Users /\ SameGroups(v, w) /\ SameSource(v, w) /\ w.passwd_parsed
      /\ w.uid = v.uid /\ w.uid_filled = v.uid_filled /\ w.name = v.name /\ w.home = v.home
      /\ w.passwd_gid = v.passwd_gid
  BY <1>3, <1>5 DEF Users, SameGroups, SameSource
<1>7. PICK e : e = PasswdEntry(opt, db)
  OBVIOUS
<1>8. opt.user \in {"none", "number", "name"} /\ (opt.user = "name" => opt.name # NoName)
  BY DEF ValidOption
<1>9. /\ v.uid = Promised(opt, db).uid /\ v.home = Promised(opt, db).home
      /\ v.name = Promised(opt, db).name /\ v.passwd_gid = PasswdGid(opt, db)
  <2>1. CASE opt.user = "name"
    <3>1. v = ResolveByName(u, db) /\ u.name = opt.name
      BY <1>1, <1>2, <2>1
    <3>2. e = IF FirstWith(db.passwd, "name", u.name) # 0 THEN FirstWith(db.passwd, "name", u.name)
              ELSE FirstWith(db.passwd, "name", "nobody")
      BY <1>7, <2>1, <3>1 DEF PasswdEntry
    <3>3. /\ v.name = opt.name
          /\ e # 0 => /\ v.uid = db.passwd[e].uid /\ v.home = db.passwd[e].home
                      /\ v.passwd_gid = db.passwd[e].gid
          /\ e = 0 => v.uid = NOBODY_ID /\ v.home = NoHome /\ v.passwd_gid = NOBODY_ID
      BY <1>1, <3>1, <3>2, ByNameFacts
    <3>4. NOBODY_ID # 0
      BY DEF NOBODY_ID
    <3>5. PromisedUid(opt, db) = v.uid
      BY <1>7, <2>1, <3>3 DEF PromisedUid
    <3>6. QED
      BY <1>7, <2>1, <3>3, <3>4, <3>5 DEF Promised, PasswdGid
  <2>2. CASE opt.user # "name"
    <3>1. v = ResolveByUid(u, db) /\ u.name = NoName
      BY <1>1, <1>2, <2>2
    <3>2. e = FirstWith(db.passwd, "uid", u.uid)
      BY <1>1, <1>7, <1>8, <2>2 DEF PasswdEntry
    <3>3. PromisedUid(opt, db) = u.uid
      BY <1>1, <1>8, <2>2 DEF PromisedUid
    <3>4. /\ v.uid = u.uid
          /\ e # 0 => /\ v.name = db.passwd[e].name /\ v.home = db.passwd[e].home
                      /\ v.passwd_gid = db.passwd[e].gid
          /\ e = 0 /\ u.uid = 0 => v.name = "root" /\ v.home = "/root" /\ v.passwd_gid = 0
          /\ e = 0 /\ u.uid # 0 => v.name = NoName /\ v.home = NoHome /\ v.passwd_gid = u.uid
      BY <1>1, <3>1, <3>2, ByUidFacts
    <3>5. QED
      BY <1>7, <2>2, <3>3, <3>4 DEF Promised, PasswdGid
  <2>3. QED
    BY <2>1, <2>2
<1>10. /\ w.tokens = u.tokens /\ w.gid_filled = u.gid_filled /\ w.groups = u.groups
       /\ w.group_parsed = u.group_parsed /\ w.name_given = u.name_given /\ w.rootfs = u.rootfs
  BY <1>3, <1>6 DEF SameGroups, SameSource
<1>11. PasswdRead(opt, db, r, w)
  BY <1>1, <1>3, <1>6, <1>9, <1>10 DEF PasswdRead
<1>12. QED
  BY <1>1, <1>4, <1>11

\* The gids that the tokens of a user stand for, or the memberships.
TokenGids(opt, db) ==
  LET T == opt.g \o opt.colon
  IN {GidOf(T[t], db.group) : t \in UsableTokens(T, db.group)}
       \cup (IF T = <<>> /\ opt.user = "name"
             THEN {gr.gid : gr \in {gr \in ToSet(db.group) : opt.name \in gr.mem}} ELSE {})
Settles(opt, db, ts) ==
  /\ ts \in Seq(GroupTokens) /\ TokenGids(opt, db) \subseteq Gids(ts)
  /\ ClearNames(opt.g \o opt.colon, db.group) => Gids(ts) = TokenGids(opt, db)

\* Tokens that are all numbers settle without etc/group.
LEMMA NumbersSettle ==
  ASSUME NEW T \in Seq(GroupTokens), NEW G, \A t \in DOMAIN T : T[t].name = NoName
  PROVE  /\ UsableTokens(T, G) = DOMAIN T
         /\ Gids(T) = {GidOf(T[t], G) : t \in UsableTokens(T, G)}
<1>1. UsableTokens(T, G) = DOMAIN T
  BY DEF UsableTokens
<1>2. \A t \in DOMAIN T : GidOf(T[t], G) = T[t].gid
  BY DEF GidOf
<1>3. {t \in DOMAIN T : T[t].name = NoName} = DOMAIN T
  OBVIOUS
<1>4. QED
  BY <1>1, <1>2, <1>3 DEF Gids

\* resolve_groups of a user whose tokens are those of the options.
GroupsReadOf(opt, db, u, v) ==
  LET T == opt.g \o opt.colon
      U == UsableTokens(T, db.group)
  IN /\ v \in Users /\ SamePasswd(u, v) /\ SameSource(u, v)
     /\ v.group_parsed /\ v.groups = u.groups /\ Settles(opt, db, v.tokens)
     /\ T = <<>> /\ opt.user = "name" => v.gid_filled /\ v.gid = u.passwd_gid
     /\ T = <<>> /\ opt.user # "name" => v.gid_filled = u.gid_filled /\ v.gid = u.gid
     /\ T # <<>> => \/ v.gid_filled = u.gid_filled /\ v.gid = u.gid
                    \/ v.gid_filled /\ U # {} /\ v.gid = GidOf(T[Min(U)], db.group)
     /\ T # <<>> /\ T[1].name # NoName =>
          IF db.hasgroup /\ U # {} THEN v.gid_filled /\ v.gid = GidOf(T[Min(U)], db.group)
          ELSE v.gid_filled = u.gid_filled /\ v.gid = u.gid

LEMMA GroupsRead ==
  ASSUME NEW opt, ValidOption(opt), NEW db, ValidDatabase(db),
         NEW u \in Users, ~u.group_parsed, u.passwd_parsed, u.tokens = opt.g \o opt.colon,
         u.name_given <=> opt.user = "name", opt.user = "name" => u.name = opt.name,
         u.tokens = <<>> => ~u.gid_filled
  PROVE  GroupsReadOf(opt, db, u, ResolveGroups(u, db))
<1>1. PICK T \in Seq(GroupTokens) : T = opt.g \o opt.colon /\ u.tokens = T
  BY DEF Users
<1>2. PICK G \in Seq(GroupEntries) : G = db.group /\ (~db.hasgroup => G = <<>>)
  BY DEF ValidDatabase
<1>3. PICK U : U = UsableTokens(T, G)
  OBVIOUS
<1>4. opt.user = "name" => opt.name # NoName
  BY DEF ValidOption
<1>5. PICK v : v = ResolveGroups(u, db)
  OBVIOUS
<1>6. ASSUME T = <<>>, opt.user = "name" PROVE GroupsReadOf(opt, db, u, v)
  <2>1. ShouldEnumerate(u) /\ ResolvePasswd(u, db) = u /\ u.name = opt.name
    BY <1>1, <1>4, <1>6 DEF ShouldEnumerate, ResolvePasswd
  <2>2. PICK ts \in Seq(GroupTokens) :
          /\ ts = Enumerating(<<>>, G, opt.name)[Len(G)]
          /\ Gids(ts) = {gr.gid : gr \in {gr \in ToSet(G) : opt.name \in gr.mem}}
    BY MembersListed
  <2>3. v = [u EXCEPT !.gid = u.passwd_gid, !.gid_filled = TRUE, !.group_parsed = TRUE, !.tokens = ts]
    BY <1>1, <1>2, <1>5, <1>6, <2>1, <2>2 DEF ResolveGroups, ResolveGroupsEnum
  <2>4. /\ v \in Users /\ SamePasswd(u, v) /\ SameSource(u, v) /\ v.group_parsed
        /\ v.groups = u.groups /\ v.gid_filled /\ v.gid = u.passwd_gid /\ v.tokens = ts
    BY <2>3 DEF Users, SamePasswd, SameSource
  <2>5. UsableTokens(T, G) = {}
    BY <1>6 DEF UsableTokens
  <2>6. TokenGids(opt, db) = Gids(ts)
    BY <1>1, <1>2, <1>6, <2>2, <2>5 DEF TokenGids
  <2>7. QED
    BY <1>1, <1>6, <2>2, <2>4, <2>6 DEF Settles, GroupsReadOf
<1>7. ASSUME ~(T = <<>> /\ opt.user = "name"), \A t \in DOMAIN T : T[t].name = NoName
      PROVE  /\ v \in Users /\ SamePasswd(u, v) /\ SameSource(u, v)
             /\ v.group_parsed /\ v.groups = u.groups /\ Settles(opt, db, v.tokens)
             /\ v.gid_filled = u.gid_filled /\ v.gid = u.gid
  <2>1. ~ShouldEnumerate(u)
    BY <1>1, <1>7 DEF ShouldEnumerate
  <2>2. v = [u EXCEPT !.group_parsed = TRUE]
    BY <1>1, <1>5, <1>7, <2>1 DEF ResolveGroups
  <2>3. /\ v \in Users /\ SamePasswd(u, v) /\ SameSource(u, v) /\ v.group_parsed
        /\ v.groups = u.groups /\ v.gid_filled = u.gid_filled /\ v.gid = u.gid /\ v.tokens = u.tokens
    BY <2>2 DEF Users, SamePasswd, SameSource
  <2>4. Gids(T) = {GidOf(T[t], G) : t \in UsableTokens(T, G)}
    BY <1>7, NumbersSettle
  <2>5. TokenGids(opt, db) = Gids(T)
    BY <1>1, <1>2, <1>7, <2>4 DEF TokenGids
  <2>6. QED
    BY <1>1, <2>3, <2>5 DEF Settles
<1>8. ASSUME NEW t \in DOMAIN T, T[t].name # NoName
      PROVE  /\ v \in Users /\ SamePasswd(u, v) /\ SameSource(u, v)
             /\ v.group_parsed /\ v.groups = u.groups /\ Settles(opt, db, v.tokens)
             /\ IF db.hasgroup /\ U # {} THEN v.gid_filled /\ v.gid = GidOf(T[Min(U)], G)
                ELSE v.gid_filled = u.gid_filled /\ v.gid = u.gid
  <2>1. T # <<>>
    BY <1>8
  <2>2. ~ShouldEnumerate(u)
    BY <1>1, <2>1 DEF ShouldEnumerate
  <2>3. PICK ts \in Seq(GroupTokens) :
          /\ ts = ResolveNamed(T, G) /\ Len(ts) = Len(T)
          /\ U = {} => FirstWith(ts, "name", NoName) = 0
          /\ U # {} => /\ FirstWith(ts, "name", NoName) = Min(U)
                       /\ ts[Min(U)].gid = GidOf(T[Min(U)], G)
          /\ {GidOf(T[k], G) : k \in U} \subseteq Gids(ts)
          /\ ClearNames(T, G) => Gids(ts) \subseteq {GidOf(T[k], G) : k \in U}
    BY <1>3, TokensResolved
  <2>4. v = WithTokens(u, db, ts)
    BY <1>1, <1>2, <1>5, <1>8, <2>2, <2>3 DEF ResolveGroups, ResolveGroupsByTokens
  <2>5. TokenGids(opt, db) = {GidOf(T[k], G) : k \in U}
    BY <1>1, <1>2, <1>3, <2>1 DEF TokenGids
  <2>6. Settles(opt, db, ts)
    BY <1>1, <1>2, <2>3, <2>5 DEF Settles
  <2>7. PICK f : f = FirstWith(ts, "name", NoName) /\ f \in 0 .. Len(ts)
    BY FirstFacts
  <2>8. U # {} => f # 0
    <3>1. U \in SUBSET Nat /\ 0 \notin U
      BY <1>3 DEF UsableTokens
    <3>2. U # {} => Min(U) \in U
      BY <3>1, MinFacts
    <3>3. QED
      BY <2>3, <2>7, <3>1, <3>2
  <2>9. CASE ~db.hasgroup \/ f = 0
    <3>1. v = [u EXCEPT !.tokens = ts, !.group_parsed = TRUE]
      BY <2>4, <2>7, <2>9 DEF WithTokens
    <3>2. /\ v \in Users /\ SamePasswd(u, v) /\ SameSource(u, v) /\ v.group_parsed
          /\ v.groups = u.groups /\ v.gid_filled = u.gid_filled /\ v.gid = u.gid /\ v.tokens = ts
      BY <3>1 DEF Users, SamePasswd, SameSource
    <3>3. QED
      BY <2>6, <2>8, <2>9, <3>2
  <2>10. CASE db.hasgroup /\ f # 0
    <3>1. v = [u EXCEPT !.tokens = ts, !.group_parsed = TRUE, !.gid = ts[f].gid, !.gid_filled = TRUE]
      BY <2>4, <2>7, <2>10 DEF WithTokens
    <3>2. PICK g \in Nat : g = ts[f].gid
      <4>1. ts[f] \in GroupTokens
        BY <2>7, <2>10
      <4>2. QED
        BY <4>1 DEF GroupTokens
    <3>3. /\ v \in Users /\ SamePasswd(u, v) /\ SameSource(u, v) /\ v.group_parsed
          /\ v.groups = u.groups /\ v.gid_filled /\ v.gid = ts[f].gid /\ v.tokens = ts
      BY <3>1, <3>2 DEF Users, SamePasswd, SameSource
    <3>4. U # {} /\ ts[f].gid = GidOf(T[Min(U)], G)
      BY <2>3, <2>7, <2>10
    <3>5. QED
      BY <2>6, <2>10, <3>3, <3>4
  <2>11. QED
    BY <2>9, <2>10
<1>9. ASSUME T = <<>>, opt.user # "name" PROVE GroupsReadOf(opt, db, u, v)
  BY <1>1, <1>7, <1>9 DEF GroupsReadOf
<1>10. ASSUME T # <<>>, \A t \in DOMAIN T : T[t].name = NoName PROVE GroupsReadOf(opt, db, u, v)
  <2>1. 1 \in DOMAIN T
    BY <1>10
  <2>2. QED
    BY <1>1, <1>7, <1>10, <2>1 DEF GroupsReadOf
<1>11. ASSUME T # <<>>, \E t \in DOMAIN T : T[t].name # NoName PROVE GroupsReadOf(opt, db, u, v)
  BY <1>1, <1>2, <1>3, <1>8, <1>11 DEF GroupsReadOf
<1>12. GroupsReadOf(opt, db, u, v)
  BY <1>6, <1>9, <1>10, <1>11
<1>13. QED
  BY <1>5, <1>12

\* The gid promised, where the code takes it from the tokens.
AsTaken(opt, db, g) == TakesToken(opt, db) => g = PromisedGid(opt, db)

\* get_gid of a user that etc/passwd has been read for.
GidOfRead(opt, db, w, v) ==
  LET T == opt.g \o opt.colon
  IN /\ v \in Users /\ SamePasswd(w, v) /\ SameSource(w, v)
     /\ v.groups = <<>> /\ v.gid_filled /\ AsTaken(opt, db, v.gid)
     /\ v.group_parsed => Settles(opt, db, v.tokens)
     /\ ~v.group_parsed => v.tokens = T /\ T # <<>> /\ T[1].name = NoName

LEMMA GidOfFacts ==
  ASSUME NEW opt, ValidOption(opt), NEW db, ValidDatabase(db), NEW r,
         NEW w, PasswdRead(opt, db, r, w)
  PROVE  GidOfRead(opt, db, w, GetGid(w, db))
<1>1. /\ w \in Users /\ w.tokens = opt.g \o opt.colon /\ w.groups = <<>>
      /\ ~w.gid_filled /\ ~w.group_parsed /\ w.uid_filled /\ w.passwd_parsed
      /\ w.name_given <=> opt.user = "name"
      /\ w.uid = Promised(opt, db).uid /\ w.name = Promised(opt, db).name
      /\ w.passwd_gid = PasswdGid(opt, db)
  BY DEF PasswdRead
<1>2. w.uid = PromisedUid(opt, db) /\ (opt.user = "name" => w.name = opt.name)
  BY <1>1 DEF Promised
<1>3. PICK T \in Seq(GroupTokens) : T = opt.g \o opt.colon /\ w.tokens = T
  BY <1>1 DEF Users
<1>4. PICK U : U = UsableTokens(T, db.group)
  OBVIOUS
<1>5. PICK v : v = GetGid(w, db)
  OBVIOUS
<1>6. ASSUME T # <<>>, T[1].name = NoName PROVE GidOfRead(opt, db, w, v)
  <2>1. 1 \in DOMAIN T /\ T[1].gid \in Nat
    <3>1. 1 \in DOMAIN T /\ T[1] \in GroupTokens
      BY <1>6
    <3>2. QED
      BY <3>1 DEF GroupTokens
  <2>2. v = [w EXCEPT !.gid = T[1].gid, !.gid_filled = TRUE]
    BY <1>1, <1>3, <1>5, <1>6 DEF GetGid
  <2>3. /\ v \in Users /\ SamePasswd(w, v) /\ SameSource(w, v) /\ v.groups = w.groups
        /\ v.gid_filled /\ v.gid = T[1].gid /\ v.group_parsed = w.group_parsed /\ v.tokens = w.tokens
    BY <1>1, <2>1, <2>2 DEF Users, SamePasswd, SameSource
  <2>4. U \in SUBSET Nat /\ 1 \in U /\ \A k \in U : 1 <= k
    BY <1>4, <1>6, <2>1 DEF UsableTokens
  <2>5. Min(U) = 1
    <3>1. Min(U) \in U /\ \A k \in U : Min(U) <= k
      BY <2>4, MinFacts
    <3>2. Min(U) <= 1 /\ 1 <= Min(U) /\ Min(U) \in Nat
      BY <2>4, <3>1
    <3>3. QED
      BY <3>2
  <2>6. PromisedGid(opt, db) = T[1].gid
    BY <1>3, <1>4, <1>6, <2>4, <2>5 DEF PromisedGid, GidOf
  <2>7. QED
    BY <1>1, <1>3, <1>6, <2>3, <2>6 DEF GidOfRead, AsTaken
<1>7. ASSUME ~(T # <<>> /\ T[1].name = NoName) PROVE GidOfRead(opt, db, w, v)
  <2>1. PICK x : x = ResolveGroups(w, db)
    OBVIOUS
  <2>2. /\ x \in Users /\ SamePasswd(w, x) /\ SameSource(w, x)
        /\ x.group_parsed /\ x.groups = w.groups /\ Settles(opt, db, x.tokens)
        /\ T = <<>> /\ opt.user = "name" => x.gid_filled /\ x.gid = w.passwd_gid
        /\ T = <<>> /\ opt.user # "name" => x.gid_filled = w.gid_filled /\ x.gid = w.gid
        /\ T # <<>> /\ T[1].name # NoName =>
             IF db.hasgroup /\ U # {} THEN x.gid_filled /\ x.gid = GidOf(T[Min(U)], db.group)
             ELSE x.gid_filled = w.gid_filled /\ x.gid = w.gid
    <3>1. /\ w \in Users /\ ~w.group_parsed /\ w.passwd_parsed /\ w.tokens = opt.g \o opt.colon
          /\ w.name_given <=> opt.user = "name"
          /\ opt.user = "name" => w.name = opt.name
          /\ w.tokens = <<>> => ~w.gid_filled
      BY <1>1, <1>2
    <3>2. GroupsReadOf(opt, db, w, x)
      BY <1>1, <2>1, <3>1, GroupsRead
    <3>3. QED
      BY <1>3, <1>4, <3>2 DEF GroupsReadOf
  <2>3. v = GetGidFromPasswd(x, db)
    BY <1>1, <1>3, <1>5, <1>7, <2>1 DEF GetGid
  <2>4. T = <<>> => U = {}
    BY <1>4 DEF UsableTokens
  <2>5. CASE x.gid_filled
    <3>1. v = x
      BY <2>3, <2>5 DEF GetGidFromPasswd
    <3>2. x.gid = PromisedGid(opt, db)
      <4>1. CASE T = <<>>
        <5>1. opt.user = "name" /\ x.gid = w.passwd_gid
          BY <1>1, <2>2, <2>5, <4>1
        <5>2. QED
          BY <1>1, <1>3, <1>4, <2>4, <4>1, <5>1 DEF PromisedGid
      <4>2. CASE T # <<>>
        <5>1. db.hasgroup /\ U # {} /\ x.gid = GidOf(T[Min(U)], db.group)
          BY <1>1, <1>7, <2>2, <2>5, <4>2
        <5>2. QED
          BY <1>3, <1>4, <5>1 DEF PromisedGid
      <4>3. QED
        BY <4>1, <4>2
    <3>3. QED
      BY <1>1, <2>2, <2>5, <3>1, <3>2 DEF GidOfRead, AsTaken
  <2>6. CASE ~x.gid_filled
    <3>1. x.uid = w.uid /\ x.uid_filled /\ x.passwd_parsed /\ x.passwd_gid = w.passwd_gid
      BY <1>1, <2>2 DEF SamePasswd
    <3>2. GetUid(x, db) = x /\ ResolvePasswd(x, db) = x
      BY <3>1 DEF GetUid, ResolvePasswd
    <3>3. PICK g \in Nat : g = IF x.uid # 0 THEN x.passwd_gid ELSE 0
      BY <2>2 DEF Users
    <3>4. v = [x EXCEPT !.gid = g, !.gid_filled = TRUE]
      BY <2>3, <2>6, <3>2, <3>3 DEF GetGidFromPasswd, FillGid
    <3>5. /\ v \in Users /\ SamePasswd(x, v) /\ SameSource(x, v) /\ v.groups = x.groups
          /\ v.gid_filled /\ v.gid = g /\ v.group_parsed = x.group_parsed /\ v.tokens = x.tokens
      BY <2>2, <3>4 DEF Users, SamePasswd, SameSource
    <3>6. SamePasswd(w, v) /\ SameSource(w, v)
      BY <2>2, <3>5 DEF SamePasswd, SameSource
    <3>7. AsTaken(opt, db, g)
      <4>1. CASE T = <<>>
        <5>1. opt.user # "name" /\ U = {}
          BY <2>2, <2>4, <2>6, <4>1
        <5>2. QED
          BY <1>1, <1>2, <1>3, <1>4, <3>1, <3>3, <5>1 DEF PromisedGid, AsTaken
      <4>2. CASE T # <<>>
        <5>1. ~(db.hasgroup /\ U # {}) /\ T[1].name # NoName
          BY <1>7, <2>2, <2>6, <4>2
        <5>2. TakesToken(opt, db) => U = {}
          BY <1>3, <1>4, <5>1 DEF TakesToken
        <5>3. QED
          BY <1>1, <1>2, <1>3, <1>4, <3>1, <3>3, <4>2, <5>2 DEF PromisedGid, AsTaken
      <4>3. QED
        BY <4>1, <4>2
    <3>8. QED
      BY <1>1, <2>2, <3>5, <3>6, <3>7 DEF GidOfRead
  <2>7. QED
    BY <2>5, <2>6
<1>8. QED
  BY <1>5, <1>6, <1>7

-----------------------------------------------------------------------------
(* What the getters come to.                                               *)

\* What get_gid leaves behind.
GidRead(opt, db, r, v) ==
  LET T == opt.g \o opt.colon
      p == Promised(opt, db)
  IN /\ v \in Users /\ v.uid_filled /\ v.passwd_parsed /\ v.rootfs = r
     /\ v.name_given <=> opt.user = "name"
     /\ v.uid = p.uid /\ v.home = p.home /\ v.name = p.name
     /\ v.groups = <<>> /\ v.gid_filled /\ AsTaken(opt, db, v.gid)
     /\ v.group_parsed => Settles(opt, db, v.tokens)
     /\ ~v.group_parsed => v.tokens = T /\ T # <<>> /\ T[1].name = NoName

\* A user that all has been read of, as the databases promise.
Settled(opt, db, r, u) ==
  LET p == Promised(opt, db)
  IN /\ u \in Users /\ u.rootfs = r
     /\ u.uid_filled /\ u.passwd_parsed /\ u.gid_filled /\ u.group_parsed
     /\ u.uid = p.uid /\ AsTaken(opt, db, u.gid) /\ u.home = p.home /\ u.name = p.name
     /\ Distinct(u.groups) /\ ToSet(u.groups) = {u.gid} \cup Gids(u.tokens)
     /\ Settles(opt, db, u.tokens)

LEMMA GidFacts ==
  ASSUME NEW opt, ValidOption(opt), NEW db, ValidDatabase(db), NEW r,
         NEW w, PasswdRead(opt, db, r, w)
  PROVE  GidRead(opt, db, r, GetGid(w, db))
<1>1. PICK v : v = GetGid(w, db)
  OBVIOUS
<1>2. GidOfRead(opt, db, w, v)
  BY <1>1, GidOfFacts
<1>3. GidRead(opt, db, r, v)
  BY <1>2 DEF GidOfRead, GidRead, PasswdRead, SamePasswd, SameSource
<1>4. QED
  BY <1>1, <1>3

\* collect_groups of a user whose tokens are settled.
LEMMA CollectFacts ==
  ASSUME NEW opt, NEW db, NEW r,
         NEW v \in Users, v.rootfs = r, v.uid_filled, v.passwd_parsed, v.gid_filled, v.group_parsed,
         v.uid = Promised(opt, db).uid, AsTaken(opt, db, v.gid),
         v.home = Promised(opt, db).home, v.name = Promised(opt, db).name,
         v.groups = <<>>, Settles(opt, db, v.tokens)
  PROVE  Settled(opt, db, r, CollectGroups(v))
<1>1. PICK gs : gs = Collecting(<<>>, v.tokens, v.gid)[Len(v.tokens)]
  OBVIOUS
<1>2. v.tokens \in Seq(GroupTokens) /\ v.gid \in Nat
  BY DEF Users
<1>3. Distinct(gs) /\ ToSet(gs) = {v.gid} \cup Gids(v.tokens)
  BY <1>1, <1>2, GroupsCollected
<1>4. gs \in Seq(Nat)
  BY <1>3 DEF Distinct
<1>5. PICK x : x = CollectGroups(v)
  OBVIOUS
<1>6. x = [v EXCEPT !.groups = gs]
  BY <1>1, <1>5 DEF CollectGroups
<1>7. /\ x \in Users /\ SamePasswd(v, x) /\ SameSource(v, x) /\ x.groups = gs
      /\ x.gid = v.gid /\ x.gid_filled = v.gid_filled /\ x.group_parsed = v.group_parsed
      /\ x.tokens = v.tokens
  BY <1>4, <1>6 DEF Users, SamePasswd, SameSource
<1>8. Settled(opt, db, r, x)
  BY <1>3, <1>7 DEF Settled, SamePasswd, SameSource
<1>9. QED
  BY <1>5, <1>8

LEMMA CollectKeepsGid ==
  ASSUME NEW v \in Users
  PROVE  CollectGroups(v).gid = v.gid
<1>1. PICK gs : gs = Collecting(v.groups, v.tokens, v.gid)[Len(v.tokens)]
  OBVIOUS
<1>2. CollectGroups(v) = [v EXCEPT !.groups = gs]
  BY <1>1 DEF CollectGroups
<1>3. QED
  BY <1>2 DEF Users

\* get_groups of a user whose gid has been read, and is kept.
LEMMA GroupsFacts ==
  ASSUME NEW opt, ValidOption(opt), NEW db, ValidDatabase(db), NEW r,
         NEW v, GidRead(opt, db, r, v)
  PROVE  Settled(opt, db, r, GetGroups(v, db)) /\ GetGroups(v, db).gid = v.gid
<1>1. /\ v \in Users /\ v.rootfs = r /\ v.uid_filled /\ v.passwd_parsed /\ v.gid_filled
      /\ v.groups = <<>> /\ v.uid = Promised(opt, db).uid /\ AsTaken(opt, db, v.gid)
      /\ v.home = Promised(opt, db).home /\ v.name = Promised(opt, db).name
  BY DEF GidRead
<1>2. CASE v.group_parsed
  <2>1. GetGroups(v, db) = CollectGroups(v)
    BY <1>1, <1>2 DEF GetGroups, GetGid, ResolveGroups
  <2>2. Settles(opt, db, v.tokens)
    BY <1>2 DEF GidRead
  <2>3. Settled(opt, db, r, CollectGroups(v))
    BY <1>1, <1>2, <2>2, CollectFacts
  <2>4. CollectGroups(v).gid = v.gid
    BY <1>1, CollectKeepsGid
  <2>5. QED
    BY <2>1, <2>3, <2>4
<1>3. CASE ~v.group_parsed
  <2>1. PICK T \in Seq(GroupTokens) : T = opt.g \o opt.colon /\ v.tokens = T
    BY <1>1, <1>3 DEF GidRead, Users
  <2>2. PICK x : x = ResolveGroups(v, db)
    OBVIOUS
  <2>3. T # <<>> /\ T[1].name = NoName
    BY <1>3, <2>1 DEF GidRead
  <2>4. opt.user = "name" => v.name = opt.name
    BY <1>1 DEF Promised
  <2>5. v.name_given <=> opt.user = "name"
    BY DEF GidRead
  <2>6. GroupsReadOf(opt, db, v, x)
    BY <1>1, <1>3, <2>1, <2>2, <2>3, <2>4, <2>5, GroupsRead
  <2>7. /\ x \in Users /\ SamePasswd(v, x) /\ SameSource(v, x)
        /\ x.group_parsed /\ x.groups = v.groups /\ Settles(opt, db, x.tokens)
    BY <2>6 DEF GroupsReadOf
  <2>8. PICK U : U = UsableTokens(T, db.group)
    OBVIOUS
  <2>9. \/ x.gid_filled = v.gid_filled /\ x.gid = v.gid
        \/ x.gid_filled /\ U # {} /\ x.gid = GidOf(T[Min(U)], db.group)
    BY <2>1, <2>3, <2>6, <2>8 DEF GroupsReadOf
  <2>10. U # {} => PromisedGid(opt, db) = GidOf(T[Min(U)], db.group)
    BY <2>1, <2>3, <2>8 DEF PromisedGid
  <2>11. x.gid_filled /\ AsTaken(opt, db, x.gid)
    BY <1>1, <2>9, <2>10 DEF AsTaken
  <2>12. GetGroups(v, db) = CollectGroups(x)
    BY <2>2, <2>11 DEF GetGroups, GetGid
  <2>13. /\ x.rootfs = r /\ x.uid_filled /\ x.passwd_parsed /\ x.groups = <<>>
         /\ x.uid = Promised(opt, db).uid /\ x.home = Promised(opt, db).home
         /\ x.name = Promised(opt, db).name
    BY <1>1, <2>7 DEF SamePasswd, SameSource
  <2>14. Settled(opt, db, r, CollectGroups(x))
    BY <2>7, <2>11, <2>13, CollectFacts
  <2>15. x.gid = v.gid
    <3>1. TakesToken(opt, db)
      BY <2>1, <2>3 DEF TakesToken
    <3>2. QED
      BY <1>1, <2>9, <2>10, <3>1 DEF AsTaken
  <2>16. CollectGroups(x).gid = x.gid
    BY <2>7, CollectKeepsGid
  <2>17. QED
    BY <2>12, <2>14, <2>15, <2>16
<1>4. QED
  BY <1>2, <1>3

\* get_uid, and get_name of a user that etc/passwd has been read for, read
\* nothing again.
LEMMA ReadOnce ==
  ASSUME NEW u, u.passwd_parsed, NEW db
  PROVE  /\ ResolvePasswd(u, db) = u /\ GetHome(u, db) = u /\ GetName(u, db) = u
         /\ u.uid_filled => GetUid(u, db) = u
  BY DEF ResolvePasswd, GetHome, GetName, GetUid

\* Whatever the options and the databases, the user that eager_resolve_user
\* leaves behind is the one they promise (user_resolve.c, user.c), its gid
\* wherever etc/group is there, no token stands for a gid or the first one is
\* a number; its groups are that gid's and the tokens'.
THEOREM EagerlyAsPromised ==
  ASSUME NEW opt, ValidOption(opt), NEW db, ValidDatabase(db), NEW r \in {"root", "/"}
  PROVE  Settled(opt, db, r, EagerResolve(UserNew(opt, r), db))
<1>1. PICK w : w = ResolvePasswd(UserNew(opt, r), db)
  OBVIOUS
<1>2. PasswdRead(opt, db, r, w)
  BY <1>1, PasswdFacts
<1>3. w.passwd_parsed /\ w.uid_filled
  BY <1>2 DEF PasswdRead
<1>4. GetUid(w, db) = w
  BY <1>3, ReadOnce
<1>5. PICK v : v = GetGid(w, db)
  OBVIOUS
<1>6. GidRead(opt, db, r, v)
  BY <1>2, <1>5, GidFacts
<1>7. Settled(opt, db, r, GetGroups(v, db))
  BY <1>6, GroupsFacts
<1>8. EagerResolve(UserNew(opt, r), db) = GetGroups(v, db)
  BY <1>1, <1>4, <1>5 DEF EagerResolve
<1>9. QED
  BY <1>7, <1>8

\* Once a user is settled no getter changes it, whatever the databases hold
\* by then, or when they can no longer be reached (the flags of user_t).
THEOREM AskedAgain ==
  ASSUME NEW opt, NEW db, NEW r, NEW u, Settled(opt, db, r, u), NEW d
  PROVE  /\ GetUid(u, d) = u /\ GetHome(u, d) = u /\ GetName(u, d) = u
         /\ GetGid(u, d) = u /\ GetGroups(u, d) = u
<1>1. /\ u \in Users /\ u.uid_filled /\ u.passwd_parsed /\ u.gid_filled /\ u.group_parsed
      /\ Distinct(u.groups) /\ ToSet(u.groups) = {u.gid} \cup Gids(u.tokens)
  BY DEF Settled
<1>2. GetUid(u, d) = u /\ GetHome(u, d) = u /\ GetName(u, d) = u
  BY <1>1, ReadOnce
<1>3. GetGid(u, d) = u
  BY <1>1 DEF GetGid
<1>4. GetGroups(u, d) = CollectGroups(u)
  BY <1>1, <1>3 DEF GetGroups, ResolveGroups
<1>5. PICK gs \in Seq(Nat) : gs = u.groups
  BY <1>1 DEF Distinct
<1>6. u.tokens \in Seq(GroupTokens) /\ u.gid \in Nat
  BY <1>1 DEF Users
<1>7. Collecting(gs, u.tokens, u.gid)[Len(u.tokens)] = gs
  BY <1>1, <1>5, <1>6, GroupsCollectedAgain
<1>8. CollectGroups(u) = [u EXCEPT !.groups = gs]
  BY <1>5, <1>7 DEF CollectGroups
<1>9. [u EXCEPT !.groups = gs] = u
  BY <1>1, <1>5 DEF Users
<1>10. QED
  BY <1>2, <1>3, <1>4, <1>8, <1>9

\* The groups of a settled user are the promised ones and its gid, and none
\* is there twice, unless a name that is asked for twice is listed twice, too
\* (collect_groups).
THEOREM SettledGroups ==
  ASSUME NEW opt, ValidOption(opt), NEW db, NEW r, NEW u, Settled(opt, db, r, u),
         ClearNames(opt.g \o opt.colon, db.group)
  PROVE  LET p == Promised(opt, db).groups \cup {u.gid}
         IN ToSet(u.groups) = p /\ Len(u.groups) = Cardinality(p)
<1>1. PICK p : p = Promised(opt, db).groups
  OBVIOUS
<1>2. p = {PromisedGid(opt, db)} \cup TokenGids(opt, db)
  <2>1. p = PromisedGroups(opt, db)
    BY <1>1 DEF Promised
  <2>2. CASE opt.user = "name"
    <3>1. {gr \in ToSet(db.group) : opt.user = "name" /\ opt.name \in gr.mem}
            = {gr \in ToSet(db.group) : opt.name \in gr.mem}
      BY <2>2
    <3>2. QED
      BY <2>1, <2>2, <3>1 DEF PromisedGroups, TokenGids
  <2>3. CASE opt.user # "name"
    <3>1. {gr \in ToSet(db.group) : opt.user = "name" /\ opt.name \in gr.mem} = {}
      BY <2>3
    <3>2. QED
      BY <2>1, <2>3, <3>1 DEF PromisedGroups, TokenGids
  <2>4. QED
    BY <2>2, <2>3
<1>3. PICK gs : gs = u.groups
  OBVIOUS
<1>4. Distinct(gs) /\ ToSet(gs) = {u.gid} \cup Gids(u.tokens) /\ AsTaken(opt, db, u.gid)
  BY <1>3 DEF Settled
<1>5. Gids(u.tokens) = TokenGids(opt, db)
  BY DEF Settled, Settles
<1>6. u.gid = PromisedGid(opt, db) \/ PromisedGid(opt, db) \in TokenGids(opt, db)
  <2>1. CASE TakesToken(opt, db)
    BY <1>4, <2>1 DEF AsTaken
  <2>2. CASE ~TakesToken(opt, db)
    <3>1. PICK T : T = opt.g \o opt.colon
      OBVIOUS
    <3>2. PICK U : U = UsableTokens(T, db.group)
      OBVIOUS
    <3>3. U # {}
      BY <2>2, <3>1, <3>2 DEF TakesToken
    <3>4. U \in SUBSET Nat
      <4>1. T \in Seq(GroupTokens)
        BY <3>1, ConcatProperties DEF ValidOption
      <4>2. QED
        BY <3>2, <4>1 DEF UsableTokens
    <3>5. Min(U) \in U
      BY <3>3, <3>4, MinFacts
    <3>6. PromisedGid(opt, db) = GidOf(T[Min(U)], db.group)
      BY <3>1, <3>2, <3>3 DEF PromisedGid
    <3>7. QED
      BY <3>1, <3>2, <3>5, <3>6 DEF TokenGids
  <2>3. QED
    BY <2>1, <2>2
<1>7. ToSet(gs) = p \cup {u.gid}
  BY <1>2, <1>4, <1>5, <1>6
<1>8. Len(gs) = Cardinality(p \cup {u.gid})
  BY <1>4, <1>7 DEF Distinct
<1>9. QED
  BY <1>1, <1>3, <1>7, <1>8
=============================================================================
