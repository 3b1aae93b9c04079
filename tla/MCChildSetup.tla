--------------------------- MODULE MCChildSetup ---------------------------
(***************************************************************************)
(* Invocations that vary one part at a time around a plain one.            *)
(***************************************************************************)
EXTENDS ChildSetup

dir == "dir"
file == "file"

MCPaths ==
  { <<>>, <<"etc">>, <<"etc", "resolv.conf">>, <<"etc", "passwd">>, <<"proc">>,
    <<"sys">>, <<"sys", "fs">>, <<"sys", "fs", "cgroup">>, <<"sys", "fs", "cgroup", "cpu">>,
    <<"dev">>, <<"dev", "shm">>, <<"run">>, <<"run", "lock">>, <<"run", "user">>,
    <<"run", "shm">>, <<"tmp">>, <<"var">>, <<"var", "tmp">>, <<"var", "tmp", "f">>,
    <<"a">>, <<"a", "b">>, <<"a", "b", "f">> }

Bare == <<>> :> dir
Full == Bare @@ (<<"etc">> :> dir) @@ (<<"etc", "passwd">> :> file) @@ (<<"proc">> :> dir)
             @@ (<<"sys">> :> dir) @@ (<<"dev">> :> dir) @@ (<<"run">> :> dir)
             @@ (<<"tmp">> :> dir) @@ (<<"var">> :> dir) @@ (<<"var", "tmp">> :> dir)
Odd == Full @@ (<<"a">> :> file)
Odd2 == (<<"tmp">> :> file) @@ Full

\* A root by the names of its skeleton and of what its resolv.conf is.
Skeletons == [bare |-> Bare, full |-> Full, odd |-> Odd, odd2 |-> Odd2]
Resolvs == {"none", "nonreg", "empty", "local", "big", "real"}
MCRoots ==
  [r \in (DOMAIN Skeletons) \X Resolvs |->
     CASE r[2] = "none" -> Skeletons[r[1]]
       [] r[2] = "nonreg" -> Skeletons[r[1]] @@ (<<"etc", "resolv.conf">> :> "link")
       [] OTHER -> Skeletons[r[1]] @@ (<<"etc", "resolv.conf">> :> file)]

MCSources ==
  [d |-> Bare, f |-> <<>> :> file, m |-> Bare,
   e |-> Bare @@ (<<"passwd">> :> file) @@ (<<"b">> :> dir) @@ (<<"tmp">> :> dir)]

Entry(n, u, g) == [name |-> n, uid |-> u, gid |-> g, home |-> n]
Group(n, g, mem) == [name |-> n, gid |-> g, mem |-> mem]
Groups1 == << Group("wheel", 3, {"alice"}), Group("audio", 2, {"ghost", "alice"}),
              Group("staff", 4, {}) >>
Db1 == [passwd |-> << Entry("root", 0, 1), Entry("alice", 5, 7), Entry("alice", 6, 6) >>,
        hasgroup |-> TRUE, group |-> Groups1]
Db2 == [passwd |-> << Entry("alice", 8, 9), Entry("nobody", 11, 12) >>,
        hasgroup |-> TRUE, group |-> <<Group("audio", 7, {"alice"}), Group("wheel", 0, {})>>]
Db3 == [passwd |-> << Entry("alice", 5, 2), Entry("x", 0, 6) >>, hasgroup |-> FALSE, group |-> <<>>]

MCDatabases == [one |-> Db1, two |-> Db2, three |-> Db3]

NoUser == [user |-> "none", uid |-> 0, name |-> NoName, g |-> <<>>, colon |-> <<>>]
UserNumber(n) == [NoUser EXCEPT !.user = "number", !.uid = n]
UserName(n) == [NoUser EXCEPT !.user = "name", !.name = n]
Tokens == {Numeric(2), Numeric(7), Named("wheel"), Named("audio"), Named("nosuch")}
Opts ==
  { [u EXCEPT !.g = g, !.colon = c] :
      u \in {NoUser, UserNumber(5), UserNumber(4), UserName("alice"), UserName("ghost"), UserName("root")},
      g \in {<<>>} \cup {<<t>> : t \in Tokens},
      c \in {<<>>} \cup {<<t>> : t \in Tokens} }

Ids(r, e, g) == [ruid |-> r, euid |-> e, rgid |-> g, egid |-> g, groups |-> <<g, 3>>]

Plain ==
  [mode |-> "start", rootprivate |-> FALSE, rootfs |-> <<"full", "none">>, hostshm |-> dir,
   cgroup |-> "no", net |-> FALSE, resolv |-> "none", hostresolv |-> "real", vols |-> <<>>,
   dbs |-> [host |-> "three", overlay |-> "one", v1 |-> "two", v2 |-> "two", v3 |-> "two"],
   after |-> "two", opt |-> UserName("alice"), init |-> FALSE, gui |-> FALSE,
   creds |-> Ids(1000, 0, 1000), binary |-> "suid", nosuid |-> FALSE, sudofixes |-> TRUE]

Vol(id, h, t) == [id |-> id, host |-> h, target |-> t]
Targets == {<<"etc">>, <<"etc", "passwd">>, <<"var">>, <<"var", "tmp">>, <<"var", "tmp", "f">>,
            <<"a">>, <<"a", "b">>, <<"a", "b", "f">>, <<"sys">>}

MountConfigs ==
  { [Plain EXCEPT !.rootfs = <<r, "none">>, !.rootprivate = p, !.hostshm = s, !.cgroup = c] :
      r \in DOMAIN Skeletons, p \in BOOLEAN,
      s \in {dir, "link", "none"}, c \in {"no", "v1", "v2", "missing"} }
DnsConfigs ==
  { [Plain EXCEPT !.rootfs = <<"full", v>>, !.resolv = v, !.net = n, !.hostresolv = h] :
      v \in Resolvs, n \in BOOLEAN,
      h \in {"none", "local", "real"} }
VolConfigs ==
  { [Plain EXCEPT !.rootfs = <<r, "none">>, !.cgroup = "v2",
                  !.vols = <<Vol("v1", h1, t1), Vol("v2", h2, t2)>>] :
      r \in {"full", "odd"}, h1 \in {"d", "e", "f", "m"}, h2 \in {"e", "f"}, t1 \in Targets, t2 \in Targets }
    \cup { [Plain EXCEPT !.vols = <<Vol("v1", "f", t1), Vol("v2", h2, t2), Vol("v3", "f", t3)>>] :
      t1 \in {<<"a", "b", "f">>, <<"var", "tmp", "f">>}, h2 \in {"d", "e"},
      t2 \in {<<"a">>, <<"var">>}, t3 \in {<<"a", "b", "f">>, <<"var", "tmp", "f">>} }
UserConfigs ==
  { [Plain EXCEPT !.opt = o, !.dbs["overlay"] = d, !.init = n, !.gui = n] :
      o \in Opts, d \in {"one", "three"}, n \in BOOLEAN }
    \cup { [Plain EXCEPT !.opt = o, !.gui = TRUE, !.init = n] : o \in Opts, n \in BOOLEAN }
    \cup { [Plain EXCEPT !.rootfs = <<"bare", "none">>, !.opt = o] : o \in Opts }
JoinConfigs ==
  { [Plain EXCEPT !.mode = "reuse", !.rootfs = <<r, "none">>, !.opt = o,
                  !.dbs["overlay"] = d] :
      r \in {"full", "bare"}, o \in Opts, d \in DOMAIN MCDatabases }
PrivConfigs ==
  { [Plain EXCEPT !.creds = c, !.binary = b, !.nosuid = n, !.sudofixes = s] :
      c \in {Ids(0, 0, 0), Ids(1000, 1000, 1000), Ids(1000, 0, 0), Ids(0, 0, 5)},
      b \in {"plain", "suid"}, n \in BOOLEAN, s \in BOOLEAN }

MCConfigs == MountConfigs \cup DnsConfigs \cup VolConfigs \cup UserConfigs \cup JoinConfigs \cup PrivConfigs

\* A group listed twice, asked for once or twice.
TwiceDatabases ==
  [one |-> [Db1 EXCEPT !.group = << Group("audio", 2, {}), Group("wheel", 3, {}), Group("audio", 7, {}) >>],
   two |-> Db2, three |-> Db3]
TwiceConfigs ==
  { [Plain EXCEPT !.opt = [UserName("alice") EXCEPT !.g = g, !.colon = c]] :
      g \in {<<Named("audio")>>, <<Named("wheel")>>}, c \in {<<>>, <<Named("audio")>>} }
=============================================================================
