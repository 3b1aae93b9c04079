------------------------------ MODULE Identity ------------------------------
(***************************************************************************)
(* user_t: who -u and -g name.  Parsing reads no file; each getter reads   *)
(* etc/passwd or etc/group below the user's root when it first needs them  *)
(* and keeps the result in flags and fields, so what a getter returns must *)
(* not depend on which getters ran before it.                              *)
(*                                                                         *)
(* A user is a record with the fields of struct user_t.  A getter is an    *)
(* operator from a user and the databases it would read to the user it     *)
(* leaves behind.  A database is a sequence of entries, <<>> when the file *)
(* cannot be opened; db.hasgroup tells whether etc/group can.            *)
(***************************************************************************)
EXTENDS Integers, Sequences, SequencesExt

NOBODY_ID == 65534
NoName == "-"
NoHome == "/home/.user"

\* The databases of a root that cannot be reached.
NoDb == [passwd |-> <<>>, hasgroup |-> FALSE, group |-> <<>>]

\* A -u or -g token: a name, or a number under the name NoName.
Named(n) == [name |-> n, gid |-> 0]
Numeric(g) == [name |-> NoName, gid |-> g]

\* user_new: -u is absent, a number or a name; the tokens of -g come before
\* those that follow the user in -u.
UserNew(opt, root) ==
  [uid |-> IF opt.user = "number" THEN opt.uid ELSE 0,
   uid_filled |-> opt.user # "name",
   name_given |-> opt.user = "name",
   name |-> IF opt.user = "name" THEN opt.name ELSE NoName,
   tokens |-> opt.g \o opt.colon,
   gid |-> 0, gid_filled |-> FALSE, groups |-> <<>>,
   passwd_gid |-> 0, home |-> NoHome,
   rootfs |-> root, passwd_parsed |-> FALSE, group_parsed |-> FALSE]

\* The first entry of a database with a value in a field, 0 if there is none.
FirstWith(s, field, v) == SelectInSeq(s, LAMBDA e : e[field] = v)

SetRootFallback(u) == [u EXCEPT !.name = "root", !.home = "/root", !.passwd_gid = 0]

ResolveByUid(u, db) ==
  LET i == FirstWith(db.passwd, "uid", u.uid) IN
  CASE i # 0 -> [u EXCEPT !.name = db.passwd[i].name, !.home = db.passwd[i].home,
                          !.passwd_gid = db.passwd[i].gid]
    [] i = 0 /\ u.uid = 0 -> SetRootFallback(u)
    [] OTHER -> [u EXCEPT !.passwd_gid = u.uid]

\* assign_from_passwd, for the named user or else for nobody.
ResolveByName(u, db) ==
  LET hit == FirstWith(db.passwd, "name", u.name)
      i == IF hit # 0 THEN hit ELSE FirstWith(db.passwd, "name", "nobody")
  IN IF i # 0
     THEN [u EXCEPT !.uid = db.passwd[i].uid, !.passwd_gid = db.passwd[i].gid,
                    !.home = db.passwd[i].home, !.uid_filled = TRUE]
     ELSE [u EXCEPT !.uid = NOBODY_ID, !.passwd_gid = NOBODY_ID, !.uid_filled = TRUE]

\* Without the file nothing matches, and nobody is not looked for either.
ResolvePasswd(u, db) ==
  IF u.passwd_parsed THEN u
  ELSE [(IF u.uid_filled THEN ResolveByUid(u, db) ELSE ResolveByName(u, db))
          EXCEPT !.passwd_parsed = TRUE]

\* Every line of etc/group resolves the first token that still has its name.
ResolveOne(tokens, gr) ==
  LET i == FirstWith(tokens, "name", gr.name)
  IN IF i = 0 THEN tokens ELSE [tokens EXCEPT ![i] = Numeric(gr.gid)]
Resolving(tokens, group) ==
  LET after[k \in 0 .. Len(group)] ==
        IF k = 0 THEN tokens ELSE ResolveOne(after[k - 1], group[k])
  IN after
ResolveNamed(tokens, group) == Resolving(tokens, group)[Len(group)]

ShouldEnumerate(u) ==
  u.tokens = <<>> /\ ~u.gid_filled /\ u.name_given /\ u.name # NoName

\* The groups that list the user become tokens; the gid is the passwd gid.
AddMember(tokens, gr, name) ==
  IF name \in gr.mem THEN Append(tokens, Numeric(gr.gid)) ELSE tokens
Enumerating(tokens, group, name) ==
  LET after[k \in 0 .. Len(group)] ==
        IF k = 0 THEN tokens ELSE AddMember(after[k - 1], group[k], name)
  IN after
ResolveGroupsEnum(u, db) ==
  LET v == ResolvePasswd(u, db)
  IN [v EXCEPT !.gid = v.passwd_gid, !.gid_filled = TRUE, !.group_parsed = TRUE,
               !.tokens = Enumerating(v.tokens, db.group, v.name)[Len(db.group)]]

\* The gid is that of the first token with a number; without the file it is
\* left to the passwd entry.
WithTokens(u, db, tokens) ==
  LET first == FirstWith(tokens, "name", NoName)
  IN IF ~db.hasgroup \/ first = 0
     THEN [u EXCEPT !.tokens = tokens, !.group_parsed = TRUE]
     ELSE [u EXCEPT !.tokens = tokens, !.group_parsed = TRUE,
                    !.gid = tokens[first].gid, !.gid_filled = TRUE]
ResolveGroupsByTokens(u, db) == WithTokens(u, db, ResolveNamed(u.tokens, db.group))

ResolveGroups(u, db) ==
  CASE u.group_parsed -> u
    [] ~u.group_parsed /\ ShouldEnumerate(u) -> ResolveGroupsEnum(u, db)
    [] OTHER -> IF \E i \in DOMAIN u.tokens : u.tokens[i].name # NoName
                THEN ResolveGroupsByTokens(u, db)
                ELSE [u EXCEPT !.group_parsed = TRUE]

GetUid(u, db) == IF u.uid_filled THEN u ELSE ResolvePasswd(u, db)

FillGid(v) == [v EXCEPT !.gid = IF v.uid # 0 THEN v.passwd_gid ELSE 0, !.gid_filled = TRUE]
GetGidFromPasswd(u, db) ==
  IF u.gid_filled THEN u ELSE FillGid(ResolvePasswd(GetUid(u, db), db))

GetGid(u, db) ==
  CASE u.gid_filled -> u
    [] ~u.gid_filled /\ u.tokens # <<>> /\ u.tokens[1].name = NoName ->
         [u EXCEPT !.gid = u.tokens[1].gid, !.gid_filled = TRUE]
    [] OTHER -> GetGidFromPasswd(ResolveGroups(u, db), db)

\* insert_gid_sorted: before the first gid that is not smaller.
InsertSorted(s, g) ==
  LET i == SelectInSeq(s, LAMBDA x : x >= g)
  IN IF i = 0 THEN Append(s, g) ELSE InsertAt(s, i, g)

\* ensure_primary_gid_in_groups, then append_remaining_gids.
WithPrimary(groups, gid) == IF Contains(groups, gid) THEN groups ELSE Append(groups, gid)
AddGid(groups, t, gid) ==
  IF t.name # NoName \/ t.gid = gid \/ Contains(groups, t.gid) THEN groups
  ELSE InsertSorted(groups, t.gid)
Collecting(groups, tokens, gid) ==
  LET after[k \in 0 .. Len(tokens)] ==
        IF k = 0 THEN WithPrimary(groups, gid) ELSE AddGid(after[k - 1], tokens[k], gid)
  IN after
CollectGroups(v) == [v EXCEPT !.groups = Collecting(v.groups, v.tokens, v.gid)[Len(v.tokens)]]
GetGroups(u, db) == CollectGroups(GetGid(ResolveGroups(u, db), db))

\* get_name, get_home and get_shell read etc/passwd when it was not read yet;
\* get_name does not when it has a name.
GetHome(u, db) == ResolvePasswd(u, db)
GetName(u, db) == IF u.name # NoName THEN u ELSE ResolvePasswd(u, db)

\* eager_resolve_user, before the root moves.
EagerResolveNoPasswd(u, db) == GetGroups(GetGid(GetUid(u, db), db), db)
EagerResolve(u, db) == GetGroups(GetGid(GetUid(ResolvePasswd(u, db), db), db), db)

-----------------------------------------------------------------------------
(***************************************************************************)
(* What -u and -g promise, without flags or order: lifecycle.md,           *)
(* "UID/GID Resolution".                                                   *)
(***************************************************************************)

\* The passwd entry that -u stands for, 0 if there is none.
PasswdEntry(opt, db) ==
  CASE opt.user = "name" ->
         IF FirstWith(db.passwd, "name", opt.name) # 0
         THEN FirstWith(db.passwd, "name", opt.name)
         ELSE FirstWith(db.passwd, "name", "nobody")
    [] opt.user = "number" -> FirstWith(db.passwd, "uid", opt.uid)
    [] OTHER -> FirstWith(db.passwd, "uid", 0)

\* The tokens that stand for a gid: the numbers and the names of etc/group.
UsableTokens(tokens, group) ==
  {i \in DOMAIN tokens : \/ tokens[i].name = NoName
                         \/ FirstWith(group, "name", tokens[i].name) # 0}
GidOf(t, group) ==
  IF t.name = NoName THEN t.gid ELSE group[FirstWith(group, "name", t.name)].gid

PromisedUid(opt, db) ==
  LET e == PasswdEntry(opt, db)
  IN IF opt.user = "number" THEN opt.uid
     ELSE IF opt.user = "none" THEN 0
     ELSE IF e # 0 THEN db.passwd[e].uid ELSE NOBODY_ID
PasswdGid(opt, db) ==
  LET e == PasswdEntry(opt, db)
  IN IF e # 0 THEN db.passwd[e].gid ELSE PromisedUid(opt, db)

\* The gid of the first token that stands for one.
PromisedGid(opt, db) ==
  LET tokens == opt.g \o opt.colon
      usable == UsableTokens(tokens, db.group)
  IN IF usable # {}
     THEN GidOf(tokens[Min(usable)], db.group)
     ELSE IF PromisedUid(opt, db) = 0 /\ ~(opt.user = "name" /\ tokens = <<>>) THEN 0
     ELSE PasswdGid(opt, db)

\* Where the code takes that gid: without etc/group it gives up at a first
\* token that is a name, although a later one may be a number.
TakesToken(opt, db) ==
  LET tokens == opt.g \o opt.colon
  IN \/ db.hasgroup
     \/ UsableTokens(tokens, db.group) = {}
     \/ tokens[1].name = NoName

\* Without tokens a user given by name is in the groups that list it.
PromisedGroups(opt, db) ==
  LET tokens == opt.g \o opt.colon
      member == {gr \in ToSet(db.group) : opt.user = "name" /\ opt.name \in gr.mem}
  IN {PromisedGid(opt, db)}
       \cup {GidOf(tokens[i], db.group) : i \in UsableTokens(tokens, db.group)}
       \cup (IF tokens = <<>> THEN {gr.gid : gr \in member} ELSE {})

Promised(opt, db) ==
  LET e == PasswdEntry(opt, db)
      uid == PromisedUid(opt, db)
  IN [uid |-> uid, gid |-> PromisedGid(opt, db), groups |-> PromisedGroups(opt, db),
      home |-> IF e # 0 THEN db.passwd[e].home ELSE IF uid = 0 THEN "/root" ELSE NoHome,
      name |-> IF opt.user = "name" THEN opt.name
               ELSE IF e # 0 THEN db.passwd[e].name
               ELSE IF uid = 0 THEN "root" ELSE NoName]

-----------------------------------------------------------------------------
(* What user_new lets through, and what the databases hold.                *)

GroupTokens == [name : STRING \cup {NoName}, gid : Nat]
ValidOption(opt) ==
  /\ opt.user \in {"none", "number", "name"} /\ opt.uid \in Nat /\ opt.name \in STRING
  /\ opt.user = "name" => opt.name # NoName
  /\ opt.g \in Seq(GroupTokens) /\ opt.colon \in Seq(GroupTokens)

PasswdEntries == [name : STRING, uid : Nat, gid : Nat, home : STRING]
GroupEntries == [name : STRING \ {NoName}, gid : Nat, mem : SUBSET STRING]
ValidDatabase(db) ==
  /\ db.passwd \in Seq(PasswdEntries) /\ db.group \in Seq(GroupEntries)
  /\ ~db.hasgroup => db.group = <<>>

\* No group is both asked for twice and listed twice: every line of etc/group
\* resolves one token, so a second request would take the gid of the second
\* line (resolve_named_in_group).
ClearNames(tokens, group) ==
  \A i, j \in DOMAIN tokens, m, n \in DOMAIN group :
    /\ tokens[i].name = tokens[j].name /\ tokens[i].name = group[m].name
    /\ group[m].name = group[n].name
    => i = j \/ m = n
=============================================================================
