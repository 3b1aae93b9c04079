----------------------------- MODULE ChildSetup -----------------------------
(***************************************************************************)
(* One invocation from the privileges it starts with to the command it     *)
(* runs: super_escalate; the container child's own mount namespace, the    *)
(* file systems and volumes below the temporary root, the name servers;    *)
(* the user, looked up while the root is still a path on the host; the     *)
(* move into the root, the init script, the user again; the privileges     *)
(* dropped for good.  An invocation that joins a running container starts  *)
(* inside its root and looks the user up as it goes.  Any call may fail    *)
(* and the invocation may be killed.                                       *)
(***************************************************************************)
EXTENDS IoCache, Identity, FiniteSets

CONSTANTS
  Configs,   \* the invocations
  Roots,     \* the root file systems by name, each a kind for some paths
  Sources,   \* what the volumes' host paths hold, by path below them
  Databases, \* the user databases by name
  Controllers, \* the cgroup v1 controllers
  MaxExec    \* bound on the times the binary is executed

etc == <<"etc">>
resolvconf == <<"etc", "resolv.conf">>
passwd == <<"etc", "passwd">>
cgroup == <<"sys", "fs", "cgroup">>

\* mount_virtual_fses, mount_dev and mount_tmpfses, in their order.
Base == << [at |-> <<"proc">>, type |-> "proc"], [at |-> <<"sys">>, type |-> "sysfs"],
           [at |-> <<"dev">>, type |-> "dev"], [at |-> <<"run">>, type |-> "tmpfs"],
           [at |-> <<"tmp">>, type |-> "tmpfs"], [at |-> <<"var", "tmp">>, type |-> "tmpfs"] >>

\* Every path that the set-up touches is among Paths; what is mounted has a
\* top; an invocation names a root file system, what resolv.conf is in it and
\* on the host, its volumes, and the databases that each mount may show.
ASSUME PathsAssumption ==
  /\ {Base[n].at : n \in DOMAIN Base} \cup {resolvconf, passwd, cgroup, <<"dev", "shm">>}
       \cup {<<"run", d>> : d \in {"lock", "user", "shm"}} \subseteq Paths
  /\ \A c \in Controllers : c \in STRING /\ Append(cgroup, c) \in Paths
ASSUME ContentsAssumption ==
  /\ \A r \in DOMAIN Roots : Roots[r][<<>>] = "dir" /\ \A q \in DOMAIN Roots[r] : Roots[r][q] \in Kinds
  /\ \A h \in DOMAIN Sources :
       Sources[h][<<>>] # "none" /\ \A q \in DOMAIN Sources[h] : Sources[h][q] \in Kinds
ASSUME ConfigsAssumption ==
  \A c \in Configs :
    /\ c.mode \in {"start", "reuse"} /\ c.sudofixes \in BOOLEAN
    /\ c.rootfs \in DOMAIN Roots /\ c.hostshm \in Kinds
    /\ c.resolv \in {"none", "nonreg", "empty", "local", "big", "real"}
    /\ c.hostresolv \in {"none", "local", "real"}
    /\ c.vols \in Seq(ToSet(c.vols))
    /\ \A v \in ToSet(c.vols) : v.host \in DOMAIN Sources /\ v.target \in Paths
    /\ {"host", "overlay"} \cup {v.id : v \in ToSet(c.vols)} \subseteq DOMAIN c.dbs
    /\ c.dbs \in [DOMAIN c.dbs -> DOMAIN Databases] /\ c.after \in DOMAIN Databases
    /\ ValidOption(c.opt)
    /\ c.creds \in [ruid : Nat, euid : Nat, rgid : Nat, egid : Nat, groups : Seq(Nat)]
ASSUME DatabasesAssumption == \A d \in DOMAIN Databases : ValidDatabase(Databases[d])

VARIABLES
  cfg,     \* the invocation
  pc,      \* its next step
  i,       \* the next of the file systems or volumes to mount
  fs,      \* the file system below the root, and the cache of io_exists
  private, \* whether mounts stay in the child's namespace
  leaked,  \* whether a mount reached the host
  resolv,  \* what etc/resolv.conf of the root holds
  dnstmp,  \* whether /tmp/cage-dns-XXXXXX is there
  dbs,     \* the name of the databases each mount shows in etc
  user,    \* the user_t in use
  chrooted,\* whether the process has moved into the root
  home,    \* HOME in the guest's environment
  creds,   \* real and effective ids, supplementary groups
  binary,  \* the file executed: "plain", or "suid" if root's with mode 04755
  execs    \* how often the binary has been executed

fsvars == <<i, fs, private, leaked, resolv, dnstmp>>
idvars == <<dbs, user, chrooted, home>>
privvars == <<creds, binary, execs>>
vars == <<cfg, pc, fsvars, idvars, privvars>>

Over == {"failed", "killed", "run"}

\* What a mount of each type shows, by path below the mount point.
ContentOf(type) ==
  [q \in {<<>>} \cup (IF type = "sysfs" THEN {<<"fs">>, <<"fs", "cgroup">>} ELSE {})
                \cup (IF type = "dev" THEN {<<"shm">>} ELSE {})
     |-> IF q = <<"shm">> THEN cfg.hostshm ELSE "dir"]
OneFile == [q \in {<<>>} |-> "file"]

Init ==
  /\ cfg \in Configs
  /\ pc = "main"
  /\ i = 1
  /\ fs = [tree |-> [p \in Paths |-> IF p = <<>> THEN "dir" ELSE "none"],
           src |-> [p \in Paths |-> "host"], cache |-> EmptyCache]
  /\ private = cfg.rootprivate
  /\ leaked = FALSE
  /\ resolv = cfg.resolv
  /\ dnstmp = FALSE
  /\ dbs = cfg.dbs
  /\ user = UserNew(cfg.opt, "root")
  /\ chrooted = FALSE
  /\ home = NoName
  /\ creds = cfg.creds
  /\ binary = cfg.binary
  /\ execs = 1

Goto(from, to) == pc = from /\ pc' = to

\* A mount at p, which the host sees too unless the namespace is private.
Mounts(f, p, label, content) ==
  /\ fs' = MountOn(f, p, label, content)
  /\ leaked' = (leaked \/ ~private)

-----------------------------------------------------------------------------
(* super_escalate.                                                         *)

IsSuidNever == FALSE
IsSuidBinary == binary = "suid"

\* Without privileges: a set-uid binary would have had them, so its file
\* system is mounted nosuid and there is nothing to try.
Nosuid ==
  /\ Goto("main", "failed") /\ creds.euid # 0 /\ IsSuidBinary
  /\ UNCHANGED <<cfg, fsvars, idvars, privvars>>

\* try_sudo_reexec: sudo looks argv[0] up in its own path and runs it with
\* --fix; when that ends well cage executes argv[0] once more, looked up in
\* the caller's path.  sudofixes says that the two are one file, and that it
\* is set-uid root by then.
SudoReexec ==
  /\ pc = "main" /\ creds.euid # 0 /\ ~IsSuidBinary
  /\ binary' = IF cfg.sudofixes THEN "suid" ELSE binary
  /\ creds' = [creds EXCEPT !.euid = IF cfg.sudofixes /\ ~cfg.nosuid THEN 0 ELSE creds.euid]
  /\ execs < MaxExec /\ execs' = execs + 1
  /\ UNCHANGED <<cfg, pc, fsvars, idvars>>

\* drop_saved_ids and super_fix.
Escalate ==
  /\ Goto("main", IF cfg.mode = "start" THEN "unshare" ELSE "join")
  /\ creds.euid = 0
  /\ creds' = [creds EXCEPT !.ruid = 0, !.rgid = 0, !.egid = 0]
  /\ binary' = "suid"
  /\ UNCHANGED <<cfg, fsvars, idvars, execs>>

-----------------------------------------------------------------------------
(* The mounts.                                                             *)

\* mount_ns_setup; root_private says that an earlier step made / private.
MountNsSetupSharesAll ==
  /\ Goto("unshare", "overlay") /\ UNCHANGED <<cfg, fsvars, idvars, privvars>>
MountNsSetup ==
  /\ Goto("unshare", "overlay")
  /\ private' = TRUE
  /\ UNCHANGED <<cfg, i, fs, leaked, resolv, dnstmp, idvars, privvars>>

\* prepare_overlay at the temporary root.
MountOverlay ==
  /\ Goto("overlay", "base")
  /\ Mounts(fs, <<>>, "overlay", Roots[cfg.rootfs])
  /\ UNCHANGED <<cfg, i, private, resolv, dnstmp, idvars, privvars>>

\* ensure_dir of mount.c: a missing directory is made, anything else that
\* exists has to be a directory.
CanEnsureDir(p) ==
  IF Answer(fs, p) = Missing THEN CanMkdir(Looked(fs, p), p) ELSE fs.tree[p] = "dir"
EnsureDir(p) ==
  IF Answer(fs, p) = Missing THEN Mkdir(Looked(fs, p), p) ELSE Looked(fs, p)

\* mount_fs_type and mount_bind of the next base file system.
MountBase ==
  /\ pc = "base" /\ i <= Len(Base)
  /\ CanEnsureDir(Base[i].at)
  /\ Mounts(EnsureDir(Base[i].at), Base[i].at, Base[i].type, ContentOf(Base[i].type))
  /\ i' = i + 1
  /\ UNCHANGED <<cfg, pc, private, resolv, dnstmp, idvars, privvars>>

BaseDone ==
  /\ Goto("base", "cgroups") /\ i > Len(Base)
  /\ i' = 1
  /\ UNCHANGED <<cfg, fs, private, leaked, resolv, dnstmp, idvars, privvars>>

\* mount_cgroups: nothing without -C, cgroup2, or one mount per controller
\* below a tmpfs; -C without cgroups fails.
MountCgroups ==
  /\ Goto("cgroups", "resolv")
  /\ \/ cfg.cgroup = "no" /\ UNCHANGED <<fs, leaked>>
     \/ /\ cfg.cgroup = "v2"
        /\ CanEnsureDir(cgroup)
        /\ Mounts(EnsureDir(cgroup), cgroup, "cgroup2", ContentOf("cgroup2"))
     \/ /\ cfg.cgroup = "v1"
        /\ CanMkdir(fs, cgroup)
        /\ LET top == MountOn(Mkdir(fs, cgroup), cgroup, "tmpfs", ContentOf("tmpfs"))
               each == {Append(cgroup, c) : c \in Controllers}
           IN fs' = [tree |-> [p \in Paths |-> IF p \in each THEN "dir" ELSE top.tree[p]],
                     src |-> [p \in Paths |-> IF p \in each THEN "cgroup" ELSE top.src[p]],
                     cache |-> Forget(top.cache, each)]
        /\ leaked' = (leaked \/ ~private)
  /\ UNCHANGED <<cfg, i, private, resolv, dnstmp, idvars, privvars>>

\* check_or_create_resolv: whether etc/resolv.conf is to be replaced; it is
\* made, or remade when it is not a regular file.
ReplacesResolv ==
  \/ resolv \in {"none", "nonreg", "empty"}
  \/ cfg.net /\ resolv = "local"

CreatedResolv ==
  IF resolv = "none" THEN Touch(EnsureDir(etc), resolvconf)
  ELSE IF resolv = "nonreg" THEN Touch(Unlink(fs, resolvconf), resolvconf) ELSE fs

\* do_resolv_replace: with -N the host's file is of no use when it cannot be
\* read or names only local servers.
NeedsDefaultDns == cfg.net /\ cfg.hostresolv # "real"

SetupResolv ==
  /\ pc = "resolv"
  /\ ~(cfg.net /\ resolv = "big")
  /\ resolv = "none" => CanMkdir(fs, etc)
  /\ fs' = CreatedResolv
  /\ pc' = IF ~ReplacesResolv THEN "rundirs"
           ELSE IF NeedsDefaultDns THEN "dnstmp" ELSE "bindhost"
  /\ resolv' = IF resolv \in {"none", "nonreg"} THEN "empty" ELSE resolv
  /\ UNCHANGED <<cfg, i, private, leaked, dnstmp, idvars, privvars>>

\* setup_resolv_bind: the host's own file.
BindHostResolv ==
  /\ Goto("bindhost", "rundirs")
  /\ cfg.hostresolv # "none"
  /\ CanTouch(fs, resolvconf)
  /\ Mounts(Touch(fs, resolvconf), resolvconf, "resolv", OneFile)
  /\ resolv' = cfg.hostresolv
  /\ UNCHANGED <<cfg, i, private, dnstmp, idvars, privvars>>

\* setup_resolv_file_bind: mkstemp and the public name servers ...
WriteDnsTmp ==
  /\ Goto("dnstmp", "dnsbind")
  /\ dnstmp' = TRUE
  /\ UNCHANGED <<cfg, i, fs, private, leaked, resolv, idvars, privvars>>

\* ... the bind, or its failure, and the temporary file is removed.
BindDnsTmp ==
  /\ Goto("dnsbind", "rundirs")
  /\ Mounts(fs, resolvconf, "resolv", OneFile)
  /\ resolv' = "real"
  /\ dnstmp' = FALSE
  /\ UNCHANGED <<cfg, i, private, idvars, privvars>>

DnsTmpFailsKeepsFile ==
  /\ Goto("dnsbind", "failed") /\ UNCHANGED <<cfg, fsvars, idvars, privvars>>
DnsTmpFails ==
  /\ Goto("dnsbind", "failed")
  /\ dnstmp' = FALSE
  /\ UNCHANGED <<cfg, i, fs, private, leaked, resolv, idvars, privvars>>

\* setup_run_dirs: in the tmpfs at run, so neither may exist.
SetupRunDirs ==
  /\ Goto("rundirs", "devshm")
  /\ CanMake(fs, <<"run", "lock">>) /\ CanMake(fs, <<"run", "user">>)
  /\ fs' = Made(Made(fs, <<"run", "lock">>, "dir"), <<"run", "user">>, "dir")
  /\ UNCHANGED <<cfg, i, private, leaked, resolv, dnstmp, idvars, privvars>>

\* setup_devshm: where the host's /dev/shm is a link, a directory for it to
\* point to; else a link the other way and a tmpfs of the container's own.
SetupDevshm ==
  /\ Goto("devshm", "volumes")
  /\ CanMake(fs, <<"run", "shm">>)
  /\ IF cfg.hostshm = "link"
     THEN fs' = Made(fs, <<"run", "shm">>, "dir") /\ UNCHANGED leaked
     ELSE /\ CanMkdir(fs, <<"dev", "shm">>)
          /\ Mounts(Mkdir(Made(fs, <<"run", "shm">>, "link"), <<"dev", "shm">>),
                    <<"dev", "shm">>, "tmpfs", ContentOf("tmpfs"))
  /\ UNCHANGED <<cfg, i, private, resolv, dnstmp, idvars, privvars>>

\* mount_user_volume: a missing source becomes an empty directory; the target
\* is made to match the source.
MountVolume ==
  /\ pc = "volumes" /\ i <= Len(cfg.vols)
  /\ LET v == cfg.vols[i]
         content == Sources[v.host]
         parent == Front(v.target)
     IN IF content[<<>>] = "dir"
        THEN /\ CanMkdir(fs, v.target)
             /\ Mounts(Mkdir(fs, v.target), v.target, v.id, content)
        ELSE /\ CanMkdirOwn(fs, parent)
             /\ CanTouch(MkdirOwn(fs, parent), v.target)
             /\ Mounts(Touch(MkdirOwn(fs, parent), v.target), v.target, v.id, content)
  /\ i' = i + 1
  /\ UNCHANGED <<cfg, pc, private, resolv, dnstmp, idvars, privvars>>

VolumesDone ==
  /\ Goto("volumes", "user") /\ i > Len(cfg.vols)
  /\ UNCHANGED <<cfg, fsvars, idvars, privvars>>

-----------------------------------------------------------------------------
(* The user, the root and the privileges.                                  *)

\* The databases of the mount that shows etc/passwd in the root.
GuestDb == IF fs.tree[passwd] = "none" THEN NoDb ELSE Databases[dbs[fs.src[passwd]]]

\* open_db: the path a user_t holds leads to the root of the container before
\* the move and "/" does after it; the temporary root is gone then.
Db ==
  CASE user.rootfs = "root" -> IF chrooted THEN NoDb ELSE GuestDb
    [] OTHER -> IF chrooted THEN GuestDb ELSE Databases[dbs["host"]]

\* user_new and eager_resolve_user in do_child_setup.
ResolveUser ==
  /\ Goto("user", IF cfg.gui THEN "gui" ELSE "move")
  /\ user' = EagerResolve(user, Db)
  /\ UNCHANGED <<cfg, fsvars, dbs, chrooted, home, privvars>>

\* child_setup_gui, as far as it concerns the user: fixup_home.
SetupGui ==
  /\ Goto("gui", "move")
  /\ home' = GetHome(user, Db).home
  /\ UNCHANGED <<cfg, fsvars, dbs, user, chrooted, privvars>>

\* move_and_chroot, then child_root_ready.
MoveAndChroot ==
  /\ Goto("move", IF cfg.init THEN "init" ELSE "launch")
  /\ chrooted' = TRUE
  /\ UNCHANGED <<cfg, fsvars, dbs, user, home, privvars>>

\* do_init: the script may rewrite the databases it sees.
RunInit ==
  /\ Goto("init", "reread")
  /\ \/ UNCHANGED dbs
     \/ fs.tree[passwd] # "none" /\ dbs' = [dbs EXCEPT ![fs.src[passwd]] = cfg.after]
  /\ UNCHANGED <<cfg, fsvars, user, chrooted, home, privvars>>

\* reread_guest_user.
Reread ==
  /\ Goto("reread", "launch")
  /\ user' = EagerResolve(UserNew(cfg.opt, "/"), GuestDb)
  /\ UNCHANGED <<cfg, fsvars, dbs, chrooted, home, privvars>>

\* reuse_child: chroot into the running container and a user_t that nothing
\* has been asked of yet.
Join ==
  /\ Goto("join", "launch")
  /\ chrooted' = TRUE
  /\ user' = UserNew(cfg.opt, "/")
  /\ fs' = MountOn(fs, <<>>, "overlay", Roots[cfg.rootfs])
  /\ UNCHANGED <<cfg, i, private, leaked, resolv, dnstmp, dbs, home, privvars>>

\* launch_cage: the shell, HOME unless it is set, USER.
Launch ==
  /\ Goto("launch", "setgid")
  /\ LET u == GetName(GetHome(user, Db), Db)
     IN /\ user' = u
        /\ home' = IF home = NoName THEN u.home ELSE home
  /\ UNCHANGED <<cfg, fsvars, dbs, chrooted, privvars>>

\* do_priv_drop: setregid, setgroups and setreuid, all of which need euid 0.
SetRegid ==
  /\ Goto("setgid", "setgroups")
  /\ creds.euid = 0
  /\ LET u == GetGid(user, Db)
     IN user' = u /\ creds' = [creds EXCEPT !.rgid = u.gid, !.egid = u.gid]
  /\ UNCHANGED <<cfg, fsvars, dbs, chrooted, home, binary, execs>>

SetGroups ==
  /\ Goto("setgroups", "setuid")
  /\ creds.euid = 0
  /\ LET u == GetGroups(user, Db)
     IN user' = u /\ creds' = [creds EXCEPT !.groups = u.groups]
  /\ UNCHANGED <<cfg, fsvars, dbs, chrooted, home, binary, execs>>

SetReuid ==
  /\ Goto("setuid", "run")
  /\ LET u == GetUid(user, Db)
     IN user' = u /\ creds' = [creds EXCEPT !.ruid = u.uid, !.euid = u.uid]
  /\ UNCHANGED <<cfg, fsvars, dbs, chrooted, home, binary, execs>>

\* A call that fails ends the invocation; at dnsbind DnsTmpFails does.
Fails ==
  /\ pc \notin Over \cup {"dnsbind"} /\ pc' = "failed"
  /\ UNCHANGED <<cfg, fsvars, idvars, privvars>>

Kill ==
  /\ pc \notin Over /\ pc' = "killed"
  /\ UNCHANGED <<cfg, fsvars, idvars, privvars>>

Stop == pc \in Over /\ UNCHANGED vars

Next ==
  \/ Nosuid \/ SudoReexec \/ Escalate
  \/ MountNsSetup \/ MountOverlay \/ MountBase \/ BaseDone \/ MountCgroups
  \/ SetupResolv \/ BindHostResolv \/ WriteDnsTmp \/ BindDnsTmp \/ DnsTmpFails
  \/ SetupRunDirs \/ SetupDevshm \/ MountVolume \/ VolumesDone
  \/ ResolveUser \/ SetupGui \/ MoveAndChroot \/ RunInit \/ Reread \/ Join
  \/ Launch \/ SetRegid \/ SetGroups \/ SetReuid
  \/ Fails \/ Kill \/ Stop

Spec == Init /\ [][Next]_vars

-----------------------------------------------------------------------------
(* Properties.                                                             *)

\* What the cache remembers is what is there, although no mount ever
\* invalidates it: before a mount hides a path, io_mkdir or io_touch of the
\* mount point has dropped what was known of it (io_cache.c, mkdir_existing).
CacheCoherent ==
  \A k \in DOMAIN fs.cache :
    LET e == fs.cache[k] IN
    e # NoEntry => e.res = (IF fs.tree[e.path] = "none" THEN Missing ELSE 0)

\* Volumes from number k on that hide path p.
Hidden(p, k) == \E n \in k .. Len(cfg.vols) : IsPrefix(cfg.vols[n].target, p)

Started == cfg.mode = "start" /\ pc \in {"init", "reread", "launch", "setgid", "setgroups", "setuid", "run"}

\* Once the container's root is in place every base file system and every
\* volume shows at its path, unless a later volume was asked for above it,
\* and no mount has reached the host (mount_all, mount_ns_setup).
RootComplete ==
  Started =>
    /\ ~leaked
    /\ \A n \in DOMAIN Base : Hidden(Base[n].at, 1) \/ fs.src[Base[n].at] = Base[n].type
    /\ cfg.cgroup = "no" \/ Hidden(cgroup, 1) \/ fs.src[cgroup] \in {"cgroup2", "tmpfs"}
    /\ \A n \in DOMAIN cfg.vols :
         Hidden(cfg.vols[n].target, n + 1) \/ fs.src[cfg.vols[n].target] = cfg.vols[n].id

\* With -N the command has a name server that is not on the host's loopback,
\* unless a volume took the file's place, and the temporary file that may
\* have carried it is gone, on failure too; only a kill leaves it behind
\* (setup_resolv, setup_resolv_file_bind).
NameServer ==
  /\ Started /\ cfg.net => Hidden(resolvconf, 1) \/ resolv = "real"
  /\ dnstmp => pc \in {"dnsbind", "killed"}

\* The command runs as exactly the user the databases name that the guest
\* itself sees when it starts, volumes over them and the init script's
\* changes included: ids, groups without repetition, USER, and HOME except
\* that -G keeps the home of before the init script (eager_resolve_user,
\* reread_guest_user, do_priv_drop).  Only where etc/group is missing and the
\* first token is a name may the gid be another one.
RunsAsPromised ==
  pc = "run" =>
    LET p == Promised(cfg.opt, GuestDb)
        groups == p.groups \cup {creds.rgid} IN
    /\ creds.ruid = p.uid /\ creds.euid = p.uid
    /\ creds.egid = creds.rgid
    /\ TakesToken(cfg.opt, GuestDb) => creds.rgid = p.gid
    /\ ToSet(creds.groups) = groups /\ Len(creds.groups) = Cardinality(groups)
    /\ user.name = p.name
    /\ home = p.home \/ (cfg.gui /\ cfg.init)

\* Where sudo makes the executed file set-uid the binary is executed twice at
\* the most: on a file system mounted nosuid it gives up instead of calling
\* sudo for ever (super_escalate).
ReexecsOnce == cfg.sudofixes => execs <= 2

\* lifecycle.md says of the binary that is executed again that it is set-uid
\* root now, so sudo is called once.
FixedBySudo == execs > 1 => binary = "suid"

\* lifecycle.md gives the gid of the first token that is a number or a name
\* of etc/group.
FirstTokenGid == pc = "run" => creds.rgid = PromisedGid(cfg.opt, GuestDb)

\* HOME is that of the user after the init script.
HomeFresh == pc = "run" => home = Promised(cfg.opt, GuestDb).home

\* lifecycle.md loads etc/group into a hash and looks every token up in it:
\* a name stands for one gid, however often it is asked for and listed.
OneGidPerName ==
  LET tokens == cfg.opt.g \o cfg.opt.colon
      names == {tokens[k].name : k \in DOMAIN tokens} \ {NoName}
      listed(n) == {gr.gid : gr \in {gr \in ToSet(GuestDb.group) : gr.name = n}}
      hashes == {h \in [names -> UNION {listed(n) : n \in names}] : \A n \in names : h[n] \in listed(n)}
      gid(h, t) == IF t.name = NoName THEN t.gid ELSE h[t.name]
  IN pc = "run" /\ tokens # <<>> /\ (\A n \in names : listed(n) # {}) =>
       \E h \in hashes : ToSet(creds.groups) = {gid(h, tokens[k]) : k \in DOMAIN tokens}
=============================================================================
