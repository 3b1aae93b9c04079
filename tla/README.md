# A TLA+ model of cage

`cage` (this repository) starts a command in a Linux container: it creates
namespaces, mounts an overlay as root, optionally sets up a network (`-N`) and
a cgroup (`-C`), and runs the command. A second `cage` with the same name joins
the running container; `cage -k` ends it. There is no daemon. Every invocation
is a short chain of system calls in a process of its own, and the invocations
meet only in the kernel and the file system. That is where most of the hard
behaviour is. The rest is in sequential code whose result depends on an order
of steps that is easy to get wrong, and in two data formats that cage handles
by itself.

## Inventory

| part | state | operations | meets others through |
|---|---|---|---|
| pidfile protocol (`core/proc.c`) | `/run/cage/<name>.pid`, its flock | detect, create, write, unlink, `-k` | the path and the lock, shared by all invocations of a name |
| re-entry (`core/reuse.c`) | none | chdir to `/proc/<pid>/root`, setns, fork, wait | the container named by the pidfile |
| session (`core/cage.c`, `core/child.c`, `sandbox/nssetup.c`) | two futex words, temp root | handshakes, reap, removal | parent and container child |
| network (`net/*`) | the host's `cage-vethN` links | choose an id, create, configure | all sessions with `-N` on the host |
| spawn and clean-up (`core/cage.c`, `core/prep.c`) | everything acquired so far | `spawn_init`, `spawn_cleanup`, `finish_child` | the parts above and below |
| cgroups (`sandbox/cgroup*.c`) | `cage-<pid>` and its children | create, move, delegate, leave, remove | the kernel's rules on processes and children |
| environment map (`util/env_map.c`, `util/env.c`) | hash table | put, get, ensure, build, free | sequential, in the child |
| existence cache (`util/io_cache.c`) | 32 answers of `access` | `io_exists`, invalidate | all code that makes or removes files |
| ext4 loopback (`sandbox/ext4fix.c`, `loop.c`, `appdir.c`, `overlay.c`) | image file, loop device, mount | build, rename, attach, mount | all names that share a loop directory |
| host network (`net/net.c`, `net/nft.c`) | sysctls, NAT tables | turn on forwarding, add the rule | all sessions with `-N`, and interfaces that come and go |
| kernel modules (`pkg/*`) | cached `/proc/modules` | status, resolve, load | all invocations; the kernel's module list |
| root mounts (`sandbox/mount.c`, `setup.c`, `vol.c`, `cg_mount.c`) | the container's mounts | overlay, base file systems, resolv.conf, volumes | the cache, the user look-up |
| users (`user/*`) | a `user_t` with what was looked up so far | getters | the databases in the root, before and after the chroot |
| privileges (`core/super.c`, `core/launch.c`) | ids of the process, mode of the binary | re-execute through sudo, escalate, drop | sudo; the user look-up |
| ext4 writer (`ext4/*`) | the image | layout, nine writers | the loopback |
| decompression (`compress/*`) | bit reader, output | header, blocks, trailer | the module loader |
| GUI sharing, arguments | none | sequential | - |

What makes the modelled parts correct:

* pidfile: the flock is held only where it is meant to be, so nobody blocks for
  ever; a file under set-up is not read; a file does not outlive its creator; an
  exited container is reaped; a killed one dies.
* session: the peer link is created in the container's namespace and not the
  host's; the container configures its network after the host's side; no lost
  wake-up; no parent that waits for a dead child; the temp root exists as long
  as it is needed and no longer; distinct addresses.
* spawn: whichever step fails, all that was acquired is given back.
* environment: the table is a dictionary, and its probing loops end.
* ext4 loopback: only a complete image is mounted; what a container was given is
  there the next time; an interrupted start is repaired by the next; no loop
  device stays bound.
* host network and modules: sessions do not disturb each other, and the host
  keeps its own routes.
* container set-up: every mount is where it belongs and not on the host, the
  cache does not lie, there is a name server, and the command runs as exactly
  the user that was asked for.
* formats: a kept image is consistent in all its counts and copies; a compressed
  file is decoded to what was compressed or refused.

`PROJECT.json` lists the hazards with their lines and the properties on them.

## Modules

| module | models | composed from |
|---|---|---|
| `Pidfile` | concurrent runs and `-k`s of one name: detection, re-entry, creation, removal, containers | |
| `Session` | concurrent sessions of different names after the fork: parents, children, futex words, links, temp roots | |
| `Spawn` | the acquisition chain, its failure paths, and cgroup v2 | |
| `EnvDict` | what callers expect of the environment map | |
| `EnvMap` | the hash table, shown to implement `EnvDict` | `EnvDict` |
| `SameFs` | concurrent starts that keep their files in one ext4 image | |
| `Modprobe` | loading modules by several processes | |
| `HostNet` | what sessions change on the host: modules, forwarding, NAT | `Modprobe` |
| `IoCache` | the existence cache and the file helpers that invalidate it | |
| `Identity` | `user_t` and its getters; what `-u` and `-g` promise | |
| `ChildSetup` | one invocation from escalation to the execve of the command | `IoCache`, `Identity` |
| `Ext4Image` | layout and writing of the image | |
| `Inflate` | `decompress_gzip` | |
| `Deflate` | reference of the format: what a stream means and how it is written (RFC 1951, 1952) | |
| `MCPidfile`, `MCSession`, `MCSpawn`, `MCEnvMap`, `MCSameFs`, `MCHostNet`, `MCChildSetup` | small instances for TLC | the module of that name |
| `MCFormats` | instances of both formats | `Ext4Image`, `Inflate`, `Deflate` |
| `PidfileProofs`, `SessionProofs`, `SpawnProofs`, `EnvMapProofs`, `HostNetProofs`, `IdentityProofs` | theorems | the module of that name |
| `SameFsProofs` | theorems | `SameFs`, `Ext4Image` |
| `ChildSetupProofs` | theorems | `ChildSetup`, `IdentityProofs` |

### Pidfile

`path` is the inode the pidfile's name leads to, `lock` the flock of each inode,
`wrote` the inodes that hold a PID, `pc` the next step of each invocation, `seen`
what `readpid` opened, `cont` the containers. Inode, PID and container of a run
bear the run's name, as a run makes at most one of each. One action is one
system call (or a group with no shared effect in between): `Exists`, `Open`,
`Flock`, `ReadPid` are `detect_existing` and `killpid` as far as the PID;
`Probe` .. `Rejoined` re-entry; `CreatePidfile` .. `FinishUnlink` the run that
finds no instance; `StopTarget` .. `KillUnlink` is `-k`. `unlink` goes by path
and removes what is there, as in the code; it may be refused, and no caller of
`io_unlink_quiet` looks at that (`UnlinkFails`): the file stays and the run ends
as `leftover`. The system calls of the invocations in
`Faulty` may fail, and they may be killed between any two steps; an open file that the
container shares keeps its flock then (`Inherits`). `Progress` excepts one case, which
`Pidfile_orphan` shows: an invocation that waits for the flock which the `-N`
container of a killed creator has inherited (`WaitsForOrphan`) waits for ever. `Serial` restricts the user:
a new invocation only when the others have settled. It is used for those
violations that need no race between starts.

Abstractions: PIDs are not reused; the 50 polls of `-k` are one step that ends
either way; the content of a pidfile is a PID or nothing.

### Session

`ppc` and `cpc` are parent and child, `netf` and `rootf` the shared words,
`netid` the chosen id, `link` the host's links with their owners, `idx` the interface a
parent has found for its host end, `ends` what has been set on each host end
(address, state), `lapse` what went wrong with it, `root` the temp roots.
`CreateVeth` makes the link; `FindVeth` is the dump after it, which may fail or
miss the link; `SetHostAddr` and `SetHostUp` send requests whose results nobody
sees (`Request`). The child's test and
its wait are two steps (`TestTwo`, `FutexWait`), as are the parent's store and
wake; the wait compares with 1 as `FUTEX_WAIT` does. The parent's timed wait is
no step: it only delays the next test. `Scans` is the link dump, cut off after
`ScanMax` links as `netlink_recv_dump` is when its buffer is full.

Abstractions: a futex wait ends only by a wake or a changed word (no handler is
installed, so no `EINTR`); the IPv6 address, sent last, is left out; links that are
not cage's stand in `ScanMax`. The host end may stay bare, because the dump or a
request failed or the dump was cut off, and the container starts anyway.
`HostEndConfigured` says that nothing else leads there: no death, no race and no
order of two sessions. `Faults` lets the netlink calls fail, `Killed` are the
sessions whose parent may be killed.

### Spawn

`held` is what the parent holds, `dirs` the cgroups, `where`/`cwhere` the
parent's and child's cgroup. The kernel's rules are in `Members`, `WriteEnable`
(EBUSY when the cgroup has processes) and `CgroupRmdir` (no processes, no
children). Every step of `do_setup` may fail. The pidfile is created and locked
in two steps: when the flock fails the file stays. `refused` is what stays on
disk for that reason or because its removal failed (`Drop`); `NothingLeft`
excepts just that. `stuck` records a session whose
move back to the root cgroup was refused: the code does not look at that result.

### EnvMap

`m` is the table, `n` the one that `map_resize` fills slot by slot, `call` the
call in progress. `StopsAt` is where a probing loop stops; no such slot means
that it never does, and the call is in `spin`. `memory` is a history variable: it
turns `short` when a growth fails, which the code ignores. `Hash`, `InitCap` and `MinGrow`
are parameters. `strdup` is assumed to succeed: the code does not test it.

### SameFs

`foreign` are the starts that find their loop directory on another device than
the lower directory even with nothing mounted, which an appdir on an overlayfs
may be: the code tells a mount from a bare directory by `st_dev` alone
(`OtherDevice`). `loopdir`, `bare`, `img`, `tmp`, `content`, `dirs` are what is on disk, `dev`,
`fd`, `open`, `imgfd`, `mounts` what the kernel holds; `view` is the image in a
container's own copy of the mounts. `pc` is the next system call of the start of
each name. `Detect` .. `EnsureMounted` are `handle_same_fs` down to the decision
to mount, `SetupImg` .. `Rename` `setup_ext4_img`, `FindFreeLoop` ..
`AutoclearFails` `io_loop`, `Fork` .. `MountOverlay` `prepare_overlay` in the
child. A device with AUTOCLEAR is unbound with its last user (`Closed`). Starts
may be killed between any two steps, their calls may fail, and the host may be
rebooted in an orderly way: the code calls no `fsync`, so a power cut could leave
anything. A start that dies may leave its temporary file, and a later one with the same
PID meets it; the model lets every start of a name have the same PID.

`Recovers` has five exceptions. Two are refusals the code means: a loop directory
that is a symlink, and an upper directory in it with nothing mounted. One is
a host without a free loop device. Two are states an earlier start leaves
behind and no later one repairs: `upper` without `work`, after a kill between the
two (`HalfMade`); and a bare loop directory of another device, after a kill
between its creation and the mount or after a reboot, which passes for mounted, so that
the overlay mount on it fails (`foreign`, shown by `SameFs_foreign`). The other
properties make room for two more things: a kill between LOOP_SET_FD and
LOOP_SET_STATUS64 leaves the device bound (`orphaned`); two first starts at once
may mount two images (`raced`, `OneMount`).

### Modprobe and HostNet

`snap` is the process's cached `/proc/modules`, `live` the kernel's list, `todo`
the modules a request still has to load. `modules.dep` is a function `listed`;
`needs` says which symbols the kernel will ask for. The names of a line are loaded
from left to right, as `load_deps` does; on trees where that is not an order
of loading (`Chain`) every request fails, which `NoMutualFailure` excepts with
`Loadable`. A load takes two steps: until its init function has returned
(`InitModule`) a module is `Loading`: listed in `/proc/modules`, of no use yet.
`is_loaded` does not tell the two apart, so a session can go on too early and fail
at the overlay mount or at `CreateLink`; `early` are the sessions that have seen such a
module. Init functions are taken to succeed.

`HostNet` has one program counter per session. Each write to a sysctl is a step, and those
whose result the code ignores may fail and go on. `force` is `none` on kernels without
`force_forwarding`, where `legacy_ip6_forward` is taken. `rules` counts the
masquerading rules of each family; a batch adds one exactly when there is no
table yet (`Table`, `NLM_F_EXCL`). A write that fails while `accept_ra` is raised
ends the raising and forwarding stays off; an `accept_ra` that cannot be opened or read
counts as raised, and the interface is `unread`. `lost` collects the
interfaces whose advertised route the kernel purged; `late` those that appeared
between the scan and the default for new ones, which the code cannot help.

### IoCache, Identity and ChildSetup

`IoCache` and `Identity` have no variables. A helper takes the file system (what
is visible, which mount shows it, the cache) or a `user_t` to the next one.
`ChildSetup` composes them: `Nosuid`, `SudoReexec`, `Escalate` are
`super_escalate`; `MountNsSetup` .. `VolumesDone` the mounts, one action per
mount; `ResolveUser` .. `Reread` and `Join` the user and the root; `Launch` ..
`SetReuid` the way to the command. What `RunsAsPromised` compares with
(`Promised`) is written without flags, caches or order of calls, after
lifecycle.md. `sudofixes` says that what `sudo -- argv[0] --fix` made set-uid is
the file that `execvp` then executes: each looks argv[0] up for itself, and the
exit status of sudo does not tell. Where they differ cage calls sudo again and
again (`FixedBySudo`); `ReexecsOnce` is about the others.

Abstractions: no symbolic links inside volume targets; no volume over `/`; the
creation of a missing volume source on the host is not tracked; `-e HOME` is not
given. Peculiar cases that `Promised` follows because
the code means them: unknown group names are dropped; `-u` with an unknown name gets the
ids of nobody but its own name and memberships. A group whose name is given to `-g`
twice and is on two lines of `etc/group` is an exception: each line is taken for
one of the two, and the command gets both gids (`OneGidPerName`). `ClearNames`
says that there is no such name. A second exception is the gid when `etc/group` is
missing: the code returns before it has seen a number that follows a name, and
the gid is that of passwd (`FirstTokenGid`). `TakesToken` says that the gid comes from
the tokens; where it does not, `RunsAsPromised` still compares uid, home, name and
groups.

The temporary `resolv.conf` is always removed in the model; `setup.c:111,114` drop the
result of that unlink, so a refused one would leave the file in `/tmp` (the mount does
not depend on it).

### Ext4Image, Inflate and Deflate

`Ext4Image` is written for any geometry and checked with the real one;
`GeometryAssumption` says what must hold of it. The code has the numbers of
`util.h` only (`util.c:54,59` even repeat 16 and 32768 as literals) and tests none
of this: the theorems on other geometries say what a change of those numbers, made
everywhere, would have to keep. A
block bitmap is a set of blocks, computed as
`bb_mark_*` do; free counts, totals and the resize map are computed by the
formulas of the code, and `LayoutSound` compares them. The writers of `do_writes`
are joined by `|`, whose operands C leaves unordered; gcc and clang evaluate
them from left to right, and the model does too. UUID, times, checksums' values
and directory entries are left out. A failing writer stops after none, one, half, all but one
or all of its writes.

`Inflate` reads bits at a position; a step is a block header, a code length, a
symbol. `Deflate` says what a stream of symbols means and how it is encoded,
after the RFC. The CRC is a parameter. What the code does not check is not
checked in the model either: the complement of a stored length, incomplete
codes, and that the data end where the trailer begins.

## Runs

Run with `tlc -workers 2 -config X.cfg M`.

| run | instance | shows |
|---|---|---|
| `Pidfile_safety` | 2 runs, 1 `-k`, faults, an old file or none | types, `NoLeakedLock`, `NoReadWhileLocked`, `NoLeftover` |
| `Pidfile_live` | 2 runs (one `-N`) with kills and failures, 1 `-k` | `Progress`, `ZombiesReaped`, `KillIsEffective` |
| `Session_safety` | 3 `-N` sessions, 2 ids, dump of 1, children that die | types, `AddressesDistinct`, `LinkAfterUnshare`, `NetHandshake` |
| `Session_live` | 2 `-N` sessions, dump of 2, failing netlink calls, one parent that may be killed | `RootLifetime`, `HostEndConfigured`, `ParentEnds`, `ChildWakes`, `RootRemovedEarly` |
| `Spawn_chain` | 2 sessions, `-N` and `-C`, faults | types, `NothingLeft`, `SpawnEnds` |
| `EnvMap_table` | 4 keys of which three collide, capacities 3, 6, 12 | types, `BuildFits`, `FreeSlot`, `ImplementsDict`, `CallsReturn` |
| `SameFs_safety` | 2 names, 2 loop devices, 3 starts, a kill, a reboot, a fault, 7 layouts (2 on an overlayfs), 7 disks | types, `MountedComplete`, `Persistent`, `Recovers`, `NoLoopLeak` |
| `HostNet_safety` | 2 sessions, 3 interfaces (one quiet, one plugged in late), 5 module trees, both kinds of kernel, a fault | types, `UpMeansRouted`, `RaRoutesKept`, `NoMutualFailure` |
| `ChildSetup_safety` | about 4000 invocations that vary one part at a time, every failure and kill | `CacheCoherent`, `RootComplete`, `NameServer`, `RunsAsPromised`, `ReexecsOnce` |
| `Formats_safety` | the image with 2 failing writers; gzip files of one member with all copy lengths, distances to 1020, all block types, every cut and every turned lowest bit of three files | `ImageSound`, `DecodesReference` |

Some configurations show that the code does not do what a document says. Each
has an entry under `findings` with the quotation. `Pidfile_single` and
`SameFs_onemount` are among the project's regular runs; the others are kept to
reproduce their findings.

| configuration | what happens |
|---|---|
| `Pidfile_single` | two first starts at once: the second sees the file of the first between `open` and `flock`, unlinks it, and both start a container |
| `Pidfile_owner` | the unlink of an ended session removes the file of its successor |
| `Pidfile_confirm` | `-k` unlinks after SIGKILL without waiting for the target, which is not its child |
| `Pidfile_rejoin` | a join between the write of the PID and the chroot keeps the host's root |
| `Pidfile_orphan` | the `-N` child of a killed parent holds the flock for ever and the next start blocks |
| `Spawn_delegate` | the controllers are never delegated: the parent is already in the cgroup |
| `ChildSetup_twice` | a group asked for twice and listed twice gives the gids of both lines |
| `SameFs_onemount` | two first starts of names that share a loop directory mount two images, one over the other |
| `SameFs_foreign` | a bare loop directory on an overlayfs passes for mounted |
| `HostNet_unread` | an `accept_ra` that cannot be read counts as raised, and its route is lost |
| `HostNet_loading` | a module that another session is still loading counts as loaded |
| `ChildSetup_nogroup` | without `etc/group` a number after a name does not become the gid |
| `ChildSetup_sudo` | sudo fixes another file than the one executed next, and is called again |

A last finding has no configuration of its own: with `-G` and an init script
that changes the user's home, HOME is that of before the script. Add `HomeFresh`
to the invariants of `ChildSetup_safety` to see it.

### Bounds

Two runs and one `-k` are enough for every pairwise race on the path and for a
third party that acts on a stale decision; each takes all its steps. Three
sessions on two ids make an id run out and be used again while its first owner
is dying. That the addresses of an id fit a byte is not reached by two ids; theorem
`Addresses` is about all of them. The two words of a session belong to it alone, so more sessions add
nothing to the handshakes. Four keys make the table grow twice with a chain of
three. `MaxTries` is the code's 4.

Two names and two devices make starts race for an image, a device and the
mount, with `MaxStarts` 3 so that a start can follow the race of two others; three images
are one from before and one by each name. Two sessions are enough in `HostNet`: every
shared value only goes from off to on, and a third could only repeat a step of one of
them. In `ChildSetup` parts are varied one at a time because they share only
the path space and the cache, and the volume cases are crossed with each
other where they meet: up to three volumes, nested either way. The cache has 7
entries instead of 32, so that it overflows. In `Ext4Image` nothing is bounded but the
number of failing writers. Files in `Formats_safety` are short, but their copies reach
further back than one base of the distance table.

### Fairness

A process that can run is scheduled: weak fairness of each invocation's steps,
of the container's set-up, of the death of a killed process and of init's
reaping. Nothing is assumed of a command (it may run for ever), of a joined
command, of system-call failures or of crashes. In `Spawn` the child has no
fairness at all. The modules on `SameFs`, `HostNet`, `ChildSetup` and the formats have
safety properties only: none of their steps waits for another process.

## Proofs

Check with `tlapm M.tla`. All theorems hold for every value of the constants
under the named `ASSUME` of the module. What is assumed beside types: disjoint
names; for `Session` that `2 * MaxId + 1 < 256` (126 in the code); for `EnvMap`
that the value for "no entry" is none of the keys, values and calls; for
`SameFs` which disks a first start can find (no image with a superblock and the
rest missing); for `Modprobe` that `modules.dep` lists modules; for
`Ext4Image` how the sizes fit together; for `IoCache`
and `ChildSetup` that the paths are closed under taking parents and include
those the code names, that the roots have a top directory, and that a file
below a mount is of one of the four kinds; for the user, that every mount which
may show `etc/passwd` comes with databases, that ids are naturals, and that no
listed group has the empty name.

* `PidfileProofs`: `TypeCorrect`, `LockDiscipline` (`NoLeakedLock`),
  `ReadersWait` (`NoReadWhileLocked`), `FileLifetime` (`NoLeftover`).
  `NoLeakedLock` says where the holder of a lock is; it is not inductive without the converse: a reader
  past its flock holds it (`ReaderHolds`) and so does a creator until it closes
  (`CreatorHolds`). With both, a lock that is free has nobody inside, and so
  nobody is admitted beside a holder. `FileLifetime` follows every way a creator can
  end to its unlink, or to one of the three reasons why there was none. `TypeOK` needs `Opened`: a `-k` that sends
  SIGKILL has read a PID.
* `SessionProofs`: `TypeCorrect`, `Handshakes` (`NetHandshake`), `RootStays`
  (`RootLifetime`), `Addresses` (`AddressesDistinct`), `LinksInside`
  (`LinkAfterUnshare`), `HostAnswers`
  (`HostEndConfigured`). `ParentKnows` and
  `ChildKnows` say what each program counter implies for the shared words: the
  parent is past its wait only if the child has stored 1, and nothing but the
  parent stores 2. The ids are chosen on stale knowledge; `OwnLink` shows that
  the exclusive creation is what keeps addresses apart, and `BlocksDisjoint`
  that different ids have different addresses. `HostEnds` says how far each parent is
  with its host end, `Owns` that the interface it has found is its own; `MissedIsCut`
  that a dump which leaves the link out was cut off, and `LinksFit` that this takes
  more links than there is room for.
* `SpawnProofs`: `TypeCorrect`, `GivesAllBack` (`NothingLeft`). Files whose removal was refused stay held for good
  (`refused`); what else is held is tied to the step (`HeldInv`): `spawn_cleanup` gives back everything but the temp
  root, so a step that fails once that exists must have removed it before it
  gets there. That the cgroups are gone needs where the processes
  are (`PlaceInv`), that a session's cgroups are there exactly when the steps say
  so, an inner one never without the outer (`DirsInv`), and that the child is
  reaped before the parent cleans up (`ChildInv`).
* `HostNetProofs`: `TypeCorrect`, `Routed` (`UpMeansRouted`), `RoutesKept`
  (`RaRoutesKept`), `IndependentLoads` (`NoMutualFailure`), for any number of
  processes, interfaces and modules. What a session has done is not taken back by
  another (`Behind`). Each request to the loader is a suffix of its list, and what
  stood before it is in the kernel (`Pending`), whoever loaded it; so a load that
  is refused is one whose list is in a wrong order (`RefusedFails`), and an answer
  "loaded" is true unless the session is in `early` (`Answers`, `LoadingType`,
  `LoadedKeeps`). That all interfaces forward
  needs what the loop over them has still to visit (`Forced`): one that is plugged
  in after `default` is set forwards by itself. For accept_ra, `Raised` says the same of
  the legacy loop, where only `late` and `unread` interfaces can be missed.
* `EnvMapProofs`: `TypeCorrect`, `RoomToProbe` (`FreeSlot`, while no growth has
  failed), `BuildIsExact` (`BuildFits`) and `Refines` (`ImplementsDict`): every
  step of the table is a step of `EnvDict` under the mapping of `EnvMap`, or
  changes nothing of it. `len` counts the used slots of
  the table, during a rehash the new table has as many as were copied
  (`Counted`), and the 7/10 test leaves room for one entry more (`Room`). The
  refinement rests on `Chained`: a probe for the key of a used slot ends there,
  which storing keeps because the slot it takes ends a chain and nothing is ever
  removed from one; and on `Rehashed`: the table being filled has the copied
  entries and no others.
* `SameFsProofs`: `TypesHold`, `MountsAreComplete` (`MountedComplete`) and
  `LoopsAreNotLeaked` (`NoLoopLeak`), for any number of names, devices, images,
  kills, reboots and failing calls, from one invariant (`Inductive`). What
  `MountedComplete` says of the mounts does not carry itself from step to step:
  it needs what every start has written so far in its own temporary image
  (`OwnTmp`, `Written`), that nothing unfinished is under the final name
  (`FinalName`, `Picked`), and that a device is bound by one start at a time and
  stays bound until it is mounted (`Bindings`, `MountsBound`); for the leak, who
  accounts for a bound device (`Accounted`). On top of it,
  `DirectoriesPersist` (`Persistent`): unless two starts have raced, one at a time is in
  the set-up and nothing is mounted then (`Single`), so all it holds, binds and
  mounts is the image under the final name (`OneImage`) and that is where
  directories are made (`Filled`). And `StartsRecover` (`Recovers`): what a start
  that is alone saw is still so when it acts on it (`Alone`), and what another device
  means for it (`TopIsMounted`).
  The last section is about the image: `LayoutIsSound` and `KeptIsSound`
  (`ImageSound`) for every geometry under `GeometryAssumption`. Each group has its
  first `Used` blocks in use and no others (`Marked`, `Counted`), so bitmaps and
  counts are compared as intervals, and an induction over the groups gives the
  total (`FreeIsRest`). The structures of a group lie in zones (`Lying`), which
  follow one another (`ZonesApart`) in the part that is marked (`ZoneMarked`). That
  groups with a backup have no metadata of their own needs flex groups of an even size
  (`BackupFacts`). For the writes, `ImageInv`: only the last writer leads to the
  end, and only when it has written all did it see the final bitmaps.
* `ChildSetupProofs`: `CacheTells` (`CacheCoherent`), `RootStands`
  (`RootComplete`), `NamesResolve` (`NameServer`), `SudoOnce` (`ReexecsOnce`), for
  every root, list of volumes, size of the cache and set of paths, from one
  invariant (`Invariance`). Mounting does not invalidate, so the cache is right
  only because of the order of calls: `Cached` bounds what may be remembered at
  each step, and no mount hides a remembered path but the mount point itself. Lemmas on the
  helpers of `IoCache` (`LookedFacts`, `ChangedFacts`, `MkdirFacts`,
  `MkdirOwnFacts`, `MountFacts`) say what each keeps and forgets, `PointFacts` that
  no base file system hides another. `Shown` is `RootComplete` for what has been
  mounted so far. The loop of `io_mkdir_own` is a recursive function that
  `Unfold` reaches (see below). `RunsAsUser` (`RunsAsPromised`, when `ClearNames`
  holds of the request and the databases) needs what the user has in it at
  each step: what the options say (`AskedEarly`), then what the getters have
  read (`AskedLate`). The databases change under it: mounts may cover
  `etc/passwd` (`Mapped` says that each of them has databases) and an init script
  may rewrite it. So nothing is read before the last mount (`Before`), and what has
  been read (`Whole`) is either what the guest sees or read again after the script.
* `IdentityProofs`: what the getters of `user_t` compute, for all databases and all
  options. `EagerlyAsPromised`: `eager_resolve_user` leaves a user who is `Settled`,
  with the uid, home and name that `Promised` defines without loops, flags or order of
  calls, and with its gid where `TakesToken` holds (`AsTaken`). `AskedAgain`: no later getter changes such a user, whatever it would read.
  `SettledGroups`: the groups of a settled user are exactly the promised ones and its gid, each
  once. The three loops over `etc/group`, the tokens and the
  collected gids are recursive functions; an invariant of each is carried from
  entry to entry (`ResolvedAll`, `MembersListed`, `GroupsCollected`). `Smallest`,
  `Inductively` and `Unfold` derive the induction this takes from the order of the
  naturals being well-founded (`WFMin`), without a theorem that takes a
  predicate as a parameter. Without `ClearNames` the result is not the promised one:
  `ChildSetup_twice` is the counterexample.

TLC finds the conjuncts of these invariants to hold on the instances of the
safety runs, too.

Only model-checked:

* the liveness properties (`Progress`, `ZombiesReaped`, `KillIsEffective`,
  `ParentEnds`, `ChildWakes`, `RootRemovedEarly`, `SpawnEnds`, `CallsReturn`):
  temporal reasoning with fairness and ENABLED is outside what the prover supports;
* `DecodesReference`: it compares the decoder with a writer of the format, over
  every stream and code; that needs an induction over the data in each of the
  functions both are built from.

## Not modelled, and the plan

Next: `Pidfile` and `Session` composed.

Not modelled: entering v1 cgroups (one write per controller, no state of its
own); the choice of default and GUI variables and the variables a joining
command takes over (`env.c`, `reuse_setup_env`); the parsing of arguments
(sequential, its results are the parameters of the modules); the encoding of
netlink and nftables messages (one message per modelled request). Left out for
good: GUI sharing and ACLs (best-effort mounts with no protocol), and the thin
wrappers around system calls.
