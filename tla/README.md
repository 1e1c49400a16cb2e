# A verification of pflask

pflask starts a command in a Linux container: it creates a child in new
namespaces, prepares the container from outside and from inside, runs the command
and supervises it, in the foreground on the invoker's terminal or detached, with
`pflask --attach` to get a terminal back. This directory holds TLA+ modules of
what the program does, configurations with which TLC checks them, and proofs that
TLAPS checks. Every definition is a translation of the C code; paths below are
relative to the repository.

    tlc -config MCPflask_safety.cfg MCPflask      # one configuration of a module
    tlapm PflaskProofs.tla                        # the proofs of a module

`PROJECT.json` lists the runs, the definitions with the lines they stand for, the
mutants that show that a property can fail, the hazards and the findings.


## 1. Inventory

### Components, their state and their operations

| component | source | state | operations |
|---|---|---|---|
| launcher | `src/pflask.c` | program counters of parent and child, `clone_flags`, the kill and the status | `main`, `do_daemonize`, `do_clone`, `do_chroot` |
| synchronisation | `src/sync.c` | two socket pairs: what is buffered, who holds which end | `sync_init`, `sync_wait_*`, `sync_wake_*`, `sync_barrier_parent`, `sync_close` |
| console owner | `src/dev.c:55` | the helper process and its pair | `setup_console_owner` |
| device nodes | `src/dev.c:144` | files and bind mounts in `/dev` | `setup_console`, `setup_ptmx`, `setup_nodes`, `setup_symlinks` |
| cgroups | `src/cgroup.c` | one directory per controller, its members | `setup_cgroup` (create, attach), `clean_cgroup` |
| pty loops | `src/pty.c` | master and slave, terminal modes, listening socket, signal masks | `process_pty`, `serve_pty`, `recv_pty`, `open_slave_pty` |
| mounts | `src/mount.c` | the list of mounts, the mount table | `mount_add_from_spec`, `setup_mount` |
| paths | `src/path.c` | none: functions | `path_compare`, `path_prefix_root`, `on_path` |
| users, id maps | `src/user.c` | the list of maps, the child's credentials | `user_add_map`, `setup_user_map`, `setup_user` |
| interfaces | `src/netif.c`, `src/nl.c` | interfaces in two network namespaces, netlink requests | `setup_netif`, `config_netif` |
| registration | `src/machine.c` | a D-Bus message | `register_machine` |
| capabilities | `src/capabilities.c` | the list from `--caps`, the child's sets | `capability_add`, `setup_capabilities` |
| errors | `src/printf.c` | none | `fail_printf`, `sysf_printf`: print and `_exit` |
| command line | `src/cmdline.*` | options, their values and counts, lists of values | `cmdline_parser` and what it calls |
| option lists | `src/util.c`, `src/pflask.c:351` | fields of a value | `split_str`, `validate_optlist`, `mount_add_from_spec`, `main` |

### How they interact

The parent opens the pty, perhaps becomes a daemon, makes a socket pair and, for
`--ephemeral`, a directory, and clones the child. The child asks for SIGKILL at
its parent's death (`PR_SET_PDEATHSIG`) and stops at a barrier: it writes
`SYNC_START` and waits for `SYNC_DONE`. Meanwhile the parent gives the console to
the container's root (which may take a third process with a barrier of its own),
creates cgroups and moves the child into them, moves interfaces, registers the
machine, writes the id maps, and opens the barrier. Then it waits in one of two
loops, which SIGCHLD, a stop signal, the terminal or a hangup ends; it kills the
child, reaps it, removes the cgroups and the directory, and returns the child's
status. The child, once past the barrier, opens the slave of the pty, changes its
user, mounts, fills `/dev`, changes its root, drops capabilities and executes the
command.

Communication is by inheritance of descriptors, the two socket pairs, signals
(SIGCHLD to the parent, SIGKILL from it or from the kernel), a listening UNIX
socket over which the master of the pty is sent to attaching clients, and the pty
itself, which the supervisor's clients share.

### What is hard

* Three processes wait for each other over two socket pairs, all ends of which
  are open in all of them. `sync_wait()` treats end of file as the answer.
* Every library call may fail, and a failure is an `_exit` on the spot: nothing
  is undone. Any process may be killed between any two calls.
* SIGCHLD and the stop signals are blocked only at the end of the launch, and
  then read from a signalfd.
* A fallback changes the namespaces a child has (`do_clone()`), after other code
  has looked at the flags.
* The parent death signal is not for ever: a process that changes its effective
  ids loses it.
* One open file description, the master, is read by several processes that do not
  know of each other, each in two steps (`epoll_wait()`, then `read()`).
* The order of a dozen mounts decides what is visible, and whether the host's
  copy of the root is written to. A bind mount shows what its source shows, which
  may be the root, and a process does not see what is mounted on its own root.
* A cgroup and an interface have names that other programs, and other runs of
  pflask, know or may get: a pid that is used again, a name that udev changes.
* Credentials, capabilities and id maps depend on each other in the order of calls:
  each call may take away what the next one needs.
* Lengths and alignment of netlink attributes one within the other; the cutting of
  strings with escapes, empty parts and a separator at the end.

### What makes each component correct

* launcher, synchronisation, console owner: nobody passes a barrier early, nobody
  gets an answer to another question, no deadlock, set-up that fits the
  namespaces of the child, no orphan that becomes the command, a death or a
  signal that is never missed, a normal return that leaves nothing.
* cgroups: the child is in all of them before it runs; they are removed after it.
* pty loops: the last output is read before a client leaves; terminals are given
  back; clients always get an answer; they do not hurt the supervisor.
* mounts, device nodes: what the user asked for is what is seen; the system's file
  systems do not hide each other; read-only means read-only; `--ephemeral` keeps
  the real root as it was.
* paths: comparison and prefixing agree with the components of a path.
* users: the command is the user that was asked for, in none of the invoker's
  groups; a user namespace has the ids that were asked for and no others; its root
  owns the console.
* interfaces: what is moved is what was named or made; it is there, under its name,
  when the command starts; none is left behind. A request says what it is to say,
  and a refusal is heard.
* capabilities: the last mention counts, and what was dropped does not come back.
* command line, option lists: what is accepted means what was written.


## 2. Modules

| module | what it is |
|---|---|
| `Sync` | operators on a socket pair, one per function of `sync.c` plus what the kernel does to descriptors (inheritance, end of file) |
| `Container` | the abstract specification: four variables, what pflask promises about one container |
| `Pflask` | one run: parent, child and helper; the properties; the refinement of `Container` |
| `MCPflask` | command lines for TLC |
| `PflaskProofs` | the inductive invariant of `Pflask`, the theorems |
| `Console`, `ConsoleProofs` | a detached container's terminal: `serve_pty()`, `recv_pty()`, `process_pty()` |
| `Mount`, `MCMount`, `MountProofs` | the list of mounts, what it makes of the mount table, `/dev` |
| `Path`, `PathProofs` | `path.c` against the components of a path |
| `Cgroup`, `MCCgroup`, `CgroupProofs` | several runs of pflask over the cgroups and the pids of one host |
| `Netif`, `NetifProofs` | interfaces on the host and in the container, `setup_netif()` and other programs |
| `Netlink` | the requests of `netif.c` as `nl.c` lays them out, and their answers; its theorems are in `NetifProofs` |
| `User`, `UserProofs` | `--user`, `--user-map`, id maps, credentials, the console's owner |
| `Capabilities` | `--caps`, up to the sets that the command has; its theorem is in `UserProofs` |
| `Cmdline`, `CmdlineProofs` | the command line parser |
| `Optlist` | the fields of `--mount` and `--user-map`; its theorem is in `CmdlineProofs` |
| `MCOptions` | the last six for TLC, with their inputs, a part at a time |

A module whose name ends in `Proofs` has the theorems about the one before it
(section 5); those about `Netif`, `Netlink`, `User`, `Capabilities`, `Cmdline` and `Optlist` are
theorems of `MCOptions`' specification, with its constants left open.

### Sync

A pair is a value with `inbox[e]`, the numbers buffered for `fd[e]`, and
`held[p]`, the ends that process `p` has open. `Inherit` is what `clone()` and
`fork()` do to the descriptor table, `sync_close` is also what the kernel does
when a process ends. `WaitReturns` has both ways out of `sync_wait()`: the
expected number, and end of file. That the second one never happens is a property
(`ChannelsAgree`) and not an assumption: it follows from the fact that each
process holds the very end whose closing it would notice.

### Container and Pflask

`Pflask` has a program counter for each process, named after the call the process
is about to make; an action is that call. The order of the actions is the order of
the calls in `main()`, and their guards are the conditions of the code
(`opts.chroot /\ "NEWUSER" \in flags` is pflask.c:289). Kept with them are the two
pairs, the flags in the parent (`flags`) and the child's namespaces (`ns`), the
death signal, pending signals, the cgroups with the position in the list, the
temporary directory and whether a tmpfs is mounted on it, whether the slave is
open, and whether the command has descendants.

The environment: `CloneFallback` (EINVAL), `ForkHelperFails`, `ParentFails`,
`ChildEnds` and `HelperEnds` (any call may fail, any process may be killed),
`ParentKilled`, `StopArrives`, `LoopInput` (end of file or ^@ on the terminal),
and a command that forks, exits and opens and closes the terminal as it likes.
SIGKILL is a flag `killed`; its delivery is `ChildKilled`.

Calls that touch only what is not kept (the text of id maps, the D-Bus message,
the mounts, capabilities) are steps that may fail and change a counter only. The
mounts are the subject of `Mount`. `register_machine()` fails when memory runs out
and goes on without a bus or an answer.

`Container` knows none of this. The command is none, held, running or over, the
container becomes ready at some time, resources are acquired before that and
released when the command is over, the supervisor returns only with nothing left,
or aborts and leaves what there is. The refinement mapping is at the end of
`Pflask`: `Command`, `Configured`, `Resources`, `Supervisor`.

### Console

The supervisor's loop with accept and send as two steps, the queue of connections
with its limit, and each client from `connect()` to the last `tcsetattr()`. The
loop of a client is `Poll` and then a read, so that another client can take what
was announced; `ReadTooLate` is the EAGAIN that follows, an error like EIO for
the code (pty.c:189-194). Of the output it is kept how much is in the pty, of a
chunk of input the place of ^@. Clients have the supervisor's effective uid or another one.

### Mount

A path is a sequence of components below the container's root. The list of mounts
is made as in `mount_add_from_spec()` and `setup_mount()` and worked off one entry
at a time over a mount table, in which a path is looked up in the latest mount at
or above it. Mount points are created in the file system that is visible at their
place by then, which is why the order matters for `--ephemeral`. One step reads one
`--mount`, and one works off one entry; so it is with the options of `Netif` and `User`.

An entry of the table says which file system it shows and from which directory on
(`At`). A bind mount takes both from its source (`Source`, `Seen`), so that a bind of
the host's `/` has the container's root in it, and what is created there is created
in the root. What exists is a set of places, a file system with a path in it.

A mount on `/` is on the way to other paths only if the process enters its root
again by a path of the host (`Covers`, `Reenters`): `do_chroot()` does, unless the new
root is the old one. Without `--chroot` (pflask.c:233) and with `--chroot=/` such a
mount is made and never seen.

The host is one file system of directories and files (`HostDirs`, `HostFiles`); its
other mounts, symbolic links and what is in other directories are left out. The
argument of `--chroot` is a path without `.`, `..` and symbolic links.

### Path

Paths are sequences of characters; `path_compare()` and `path_prefix_root()` walk
them as the code does. `Components` is the independent definition they are
compared with: it reads a path once, from its end, and knows nothing of two paths.

### Cgroup

Each run has its main process, its child, and what the child leaves behind; they
have pids from one small set, as has a third process of the host. The name of the
group is taken before `daemon()`, whose first half then ends, so that the pid may
be given to anybody (cgroup.c:58, pflask.c:195). Directories are shared, and one
that exists is nobody's error (cgroup.c:97). A dying child stays a member of its
groups until it is gone; a container without a pid namespace leaves processes that
are in them still.

The container, where it has the hierarchy mounted, and other programs of the host may
make groups inside of one of pflask's, put a process into it, or remove it when it is
empty (`OthersTouch`). Such a group is `touched`: its `rmdir()` may fail or not. That
a program moves the container's own processes elsewhere is left out.

### Netif and Netlink

`Netif` has the interfaces of both namespaces with name, kind and the interface
they are on, and one step for each request and each `if_nametoindex()`. Between any
two of them another program may rename or remove an interface of the host. `found`
keeps, for each option, the interface that had its name at the look-up, whatever it is
called later. A request for index 0 goes by its name, as the kernel does it. Flags that nobody sets
are a choice. At the end of the namespace physical interfaces return and the others
go.

`Netlink` is one level below: the bytes of one request, as places and lengths, built
call by call, and then read back by the lengths alone (`Walk`). The number of bytes
read of the answer is the request's (nl.c:116-119).

### User

The parent's part in its order (options, `do_clone()`, console, maps), then the
child's. Ids are the host's; `ToHost` and `Mapped` are what the kernel makes of a
map, `ValidMap` and `CmdAllows` what it and `newuidmap` take. A process that was
the root of its namespace and gives that up loses its capabilities, which is what
`setgroups()` meets.

### Capabilities, Cmdline, Optlist

`Capabilities` follows the list from `--caps` through libcap-ng's copy of the sets
and `capset()` to `exec`. `Cmdline` has a linked list, newest first, for each option
with many values and turns it into an array at the end; values are characters, of
which the comma and the backslash matter. `Optlist` has a value as the sequence of
its fields, so that the work of `strtok()` is to drop the empty ones.

These six share no state of the program, and `MCOptions` checks them next to each
other: a behaviour is a behaviour of one of them.


## 3. Runs

TLC explores every behaviour within the bounds named.

| run | configuration | distinct states | question |
|---|---|---|---|
| `safety` | `MCPflask_safety` | 403 197 | barrier, channels, orphans, clean exit, refinement, for 468 command lines |
| `live` | `MCPflask_live` | 41 284 | does a launch end, and are deaths and stop signals acted upon |
| `ephemeral` | `MCPflask_ephemeral` | violation | docs/pflask.rst:73 |
| `console` | `Console_safety` | 2.1 million | terminals, the supervisor |
| `console_answer` | `Console_live` | 12 336 | does everyone who connects get an answer |
| `console_end` | `Console_shared` | 59 985 | do clients leave, with the last output read |
| `console_key` | `Console_key` | violation | docs/pflask.rst:88 |
| `path` | `Path` | 29 282 | do the walks mean what they should |
| `cgroups` | `MCCgroup_safety` | 5.4 million | containers in their groups, with pids used again and programs that touch the groups |
| `options` | `MCOptions` | 387 921 | does what is accepted mean what was written |
| `mount` | `MCMount_safety` | 491 063 | what is visible after all mounts |
| `mount_root` | `MCMount_root` | violation | docs/pflask.rst:170 |

All but `cgroups` have deadlock checking off: a run of pflask ends, and a launch whose
child dies too early, or whose helper could not be forked, hangs (below). In `cgroups`
other processes of the host come and go for ever.

A module's `TypeOK` is checked for the launch and the terminal; those of the other
modules say what the variables are and are not part of a run.

### The launch

* `BarrierHolds`: a child past the barrier is in a container that is complete for
  the namespaces it really has.
* `ChannelsAgree`: a waiting process never gets a wrong number nor end of file, and
  a writer always has a reader.
* `SetupFitsNamespaces`: id maps and console owner only where there is a user
  namespace, whatever `do_clone()` fell back to.
* `OrphanNeverRuns`: a child past the barrier whose parent is gone is being killed,
  but for one that has changed its ids (`setup_user()` after the barrier). The kernel
  also forgets the death signal of a process that executes a set-user-id program: if
  the command does so it outlives its parent, too. This is not modelled, here and in
  `StopHonoured` and `OrphansDie`.
* `CleanExit`: a pflask that returns has reaped the child and removed cgroups and
  directory; no descendant is alive unless there was neither a pid namespace nor a
  cgroup.
* `ContainerSpec`: the refinement.
* `LaunchResolves`, `DeathEndsLoop`, `HangupEndsLoop`, `HelperResolves`,
  `StopHonoured`, `OrphansDie` under fairness. In the foreground a hangup ends the
  loop even if SIGCHLD came before it was blocked. The helper ends unless its parent
  has gone (`ParentGone`), which it cannot notice.

Bounds: two controllers, and lists of none, two different and two equal ones
(the second `rmdir()` then fails); the `--no-*ns` sets none, pid, and mount with
user; all Boolean options, but for pairs that have nothing to do with each other
(`--netif` with `--ephemeral`; a helper only with `--chroot` and `--user`). There
are no counters. The lists are the only unbounded data, and their length only
repeats one loop. The liveness run has lists of at most one and leaves out
`--ephemeral` and `--netif`, which nobody waits for.

`LaunchResolves` says that a launch ends with the command running, with the parent
gone, or with the child dead and the parent in its loop. It excludes two hangs, by
name, in which the parent waits for itself to write, as it holds both ends of the
pair. `ChildLost`: the child died before it wrote `SYNC_START` (pflask.c:287).
`HelperLost`: `fork()` in `setup_console_owner()`, which is not checked, failed, or the
helper died before it wrote (dev.c:131).
`StopHonoured` and `OrphansDie` exclude a child that has changed its ids.

### The terminal

* `TerminalsKept`: a terminal is raw only in a client of the supervisor's uid, while
  its loop runs or when it was cut short by an error or a signal.
* `SupervisorSurvives`: a supervisor that dies of SIGPIPE was talking to a client of
  its own uid that left without waiting for its answer. That this can happen is
  what the code does; nobody else can bring it about.
* `ConnectAnswered`, `OverEndsClients`, `LastWordsRead` under fairness.

Bounds: two clients of the owner and one of another user, a queue of two, two
pieces of output, reads and writes of at most two. Two readers are what sharing
takes, and with two pieces one can be read by each. The liveness runs have two clients and a
queue of one, which makes the second one wait for room.

### Mounts and paths

* `SpecsHonoured`: when the command starts every `--mount` is seen at its place
  unless a later one is at or above it. A `bind-ro` is read-only; another one is only
  if it is a bind of what is read-only itself. Two exceptions are in the property:
  at and below the files that `setup_nodes()` and `setup_console()` bind in `/dev`,
  after everything else, these are seen; and without a root of its own the container
  sees nothing of a mount at `/`.
* `SystemInPlace`: each of the system's mounts is seen unless the user put something
  there; `/sys` and `/proc/sys` are read-only, the rest is not.
* `RootUntouched`: with `--ephemeral` nothing is ever created in the real root, by
  whatever path, unless the user binds a directory above the root into the container,
  or the root is `/` (below).
* `PlacesOrdered`, `PrefixIsBelow`: comparison is equality of components, an order,
  and with directories before their contents; a prefixed path has the components of
  both, and is absolute as the root is, or below `/` as the path is.

Bounds: all lists of at most two `--mount` with nine destinations above, at, below and
beside the system's, the files in `/dev` and each other, the root itself among them;
four kinds of mount; bind mounts of five sources, above, beside and in the container's
root, directories and files, one of them read-only by then; a root that has most of
the directories mounted on, so that some are created. What two user mounts do to each
other is all that more could do in pairs. Paths: all pairs of up to four characters of two letters and the slash,
enough for doubled, leading and trailing slashes around two components.

### Cgroups

* `Confined`: from the loop on the child and what it leaves are in all groups of
  their run, whatever other runs remove, and the groups are there.
* `AimedAtOwnChild`: the pid that is killed is the run's own child.
* `NoneLeft`, `CleanFailsOnlyFor`: a run that ends well leaves no group; removal fails
  only for survivors of a container without a pid namespace, for another run of the
  same name, for two controllers in one hierarchy, and for a group that the container
  or another program has touched. A container with a pid namespace of its own that is
  left alone is over, with all of its processes, when its groups are removed.

Bounds: two runs, which is what sharing a name takes; four pids, so that the pid of
the first half of a daemon is free while the rest of its run and another run need
three; one more process, to take a pid that somebody has remembered; two groups, in two
hierarchies; one group at a time is touched. Two controllers in one hierarchy are in the
theorems, and in the launch, whose lists have two equal ones.

### Options

* `OptionsAsWritten`: all occurrences of an option with many values, in order, cut at
  commas without a backslash; every other option at most once, with its value.
* `FieldsHaveMeaning`: each accepted field of a mount or a map that was written in
  full means what it says; only a value of colons alone makes pflask crash.
* `CapsAsAsked`: the last mention of a capability counts, with exec and after it,
  where the child may change its bounding set.
* `ReadAsMeant`, `RefusalHeard`: every request is read as it is meant, for names of
  every length; no refusal is taken for success.
* `OnlyNamedMoved`, `Delivered`, `NothingLeft`: what an option moves is the interface
  that had its name when it was looked up, or the one that the option has made; it is
  there when the command starts, and nothing is left on the host. The exception is a
  made interface that another program has renamed or removed meanwhile (`Interfered`):
  for a macvlan or an ipvlan the kernel may then take another one. With `--no-netns`
  the interfaces stay where they are, and a later option may take the one that an
  earlier option has renamed: `Delivered` says so.
* `RunsAsUser`, `MapsAsAsked`, `ConsoleOwned`: the user and its groups, the ids of the
  namespace, the console's owner, unless the helper failed unnoticed. `RunsAsUser` is
  about users that exist, and a `setgroups()` that fails is a failed launch.

Bounds: command lines of three options (the two occurrences that an order takes, and
one to come between) of two-character values, and of one value of seven characters
(three values with an escape); `--mount` of up to five fields and `--user-map` of up
to four, with ids of two bits so that some overflow; `--caps` of three names (the
alias, a mention, another one) over three capabilities; names of 1 to 15 characters,
all that the kernel has (alignment repeats after four); all pairs of twelve `--netif`,
and a list of three in which names change places, with two acts of another program; two users, two invokers, nine `--user-map` lists.

### Findings

* `--ephemeral --no-mountns`: the tmpfs is mounted in the host's namespace
  (mount.c:156) and stays there with the changes; removing the directory fails and
  pflask ends with an error. docs/pflask.rst:73 promises that changes are discarded.
* The detach key is looked for in what `write()` took, and the rest of a chunk is
  dropped (pty.c:179-186); if the master takes only a part, ^@ can be in the
  rest. docs/pflask.rst:88 says it detaches.
* `--mount` at the very path that `--chroot` has on the host is made over the root:
  `path_prefix_root()` leaves a path equal to the root alone (path.c:95).

### What the models show besides

These are behaviours of the modules above that the properties name as exceptions.

* Two containers can be in one cgroup: `create_cgroup()` takes EEXIST for success,
  and the name has a pid that may have been used again (docs/pflask.rst:78 speaks of
  a new cgroup).
* `--chroot=/ --ephemeral` mounts the overlay on the root that the process has already
  (mount.c:171), `do_chroot()` enters the same root, and missing mount points are made in
  the real one. The launch fails after that, at `setup_console()`: the new devpts hides
  the name that the slave has on the host (dev.c:152), as in every `--chroot=/`.
* Without `--chroot` a `--mount` at `/` is made and never seen.
* For a macvlan or an ipvlan the result of the second `if_nametoindex()` is not looked
  at (netif.c:126, 141). If another program has renamed the new interface, the request
  with index 0 moves the interface of the host that has the name of the option.
* `ifi_flags` and `ifi_change` of the requests are never set (netif.c:195-203): an
  interface may be up or not in the container, as the memory has it.
* An interface that was made and could not be moved stays on the host as
  `pflask-<pid>`.
* `setup_user()` returns for a user that does not exist, and the command runs with the
  ids that the child has (user.c:132).
* `--user` with `--no-userns` always fails unless the user is root: `setgroups()` comes
  after `setresuid()` (user.c:138-142; docs/pflask.rst:58).
* On a kernel without user namespaces root's `--user-map` is ignored without a word
  (pflask.c:405).
* The status of the console's helper is not looked at (dev.c:139): if its `chown()`
  fails the container starts with a console of the invoker's.
* Without CAP_SETPCAP the bounding set stays and exec gives root's command back what
  was dropped; another user's command has no capabilities after exec, whatever
  `--caps` says (docs/pflask.rst:231-237).
* Empty fields are gone before `validate_optlist()` looks for them (pflask.c:367), every
  word that begins with `bind` is a bind mount (mount.c:99), a value of colons only
  makes `split_str()` return NULL as its first field, and ids in `--user-map` are cut
  to 32 bits.


## 4. Fairness

`Pflask`: weak fairness of the next call of each process and of the delivery of
SIGKILL. The scheduler runs a process that can run, and the kernel does not sit on
a SIGKILL. Nothing is assumed of errors, signals, the user or the command; in
particular the command need not ever end, and the parent's loop need not see any
input. A read that blocks is an action that is not enabled.

`Console`: weak fairness of the supervisor and of each client, for the same
reason, and strong fairness of a client's `PollMaster`. A client that waits has
several descriptors in its epoll set, level-triggered; the kernel moves a
descriptor it has reported to the end of its ready list, so that one that is ready
again and again is reported again and again, even next to a terminal that always
has input.


## 5. Proofs

TLC looks at small instances; the theorems hold for every value of the constants:
any number of clients, runs, pids, controllers, mounts, options and capabilities,
lists of any length, any accounts and any devices. Each is `Spec => []P` for a `P` that
a run checks, unless the table says otherwise.

| module | theorem | property |
|---|---|---|
| `PflaskProofs` | `TypeCorrect` | `TypeOK` |
| | `BarrierCorrect` | `BarrierHolds` |
| | `ChannelsCorrect` | `ChannelsAgree` |
| | `SetupCorrect` | `SetupFitsNamespaces` |
| | `OrphanCorrect` | `OrphanNeverRuns` |
| | `ExitCorrect` | `CleanExit` |
| | `PromiseKept` | `Spec => ContainerSpec`, the refinement |
| `ConsoleProofs` | `TypeCorrect` | `TypeOK` |
| | `TerminalsAreKept` | `TerminalsKept` |
| | `SupervisorIsKept` | `SupervisorSurvives` |
| `CgroupProofs` | `TypeCorrect` | `TypeOK` |
| | `ContainerConfined` | `Confined` |
| | `KillAimed` | `AimedAtOwnChild` |
| | `NoGroupLeft` | `NoneLeft` |
| | `RemovalFailsOnlyFor` | `CleanFailsOnlyFor` |
| `MountProofs` | `EphemeralRootIsKept` | `RootUntouched` |
| | `SystemIsInPlace` | `RootElsewhere => (Spec => []SystemInPlace)` |
| | `SpecsAreHonoured` | `SpecsHonoured` |
| `UserProofs` | `UserIsTaken` | `RunsAsUser` |
| | `IdsAreAsked` | `MapsAsAsked` |
| | `ConsoleIsGiven` | `ConsoleOwned` |
| | `CapsAreAsAsked` | `CapsAsAsked` |
| `NetifProofs` | `NoOtherIsMoved` | `OnlyNamedMoved` |
| | `EachIsDelivered` | `Delivered` |
| | `NoneIsLeft` | `NothingLeft` |
| | `RefusalIsHeard` | `RefusalHeard` |
| | `RequestsAreRead` | `NamesFit => (Spec => []ReadAsMeant)` |
| `CmdlineProofs` | `OptionsMean` | `OptionsAsWritten` |
| | `FieldsMean` | `FieldsHaveMeaning` |
| `PathProofs` | `PlacesAreOrdered` | `PlacesOrdered` |
| | `PathIsBelow` | `PrefixIsBelow` |
| | `PlacesAreAnOrder` | `path_compare()` is a total order of places, for any three paths |

### Assumptions

* `OptionsAssumption` (`Pflask`): options have their types, and `--ephemeral` comes with
  `--chroot` (cmdline.c:676 refuses it otherwise).
* `ConsoleAssumption`: a queue has room for one connection at least, a read for one
  character.
* `CgroupAssumption`: lists are of hierarchies, and a list that is worked off is not
  empty.
* `PathAssumption`: the characters of a path are numbers, none of them zero, which ends a
  string.
* `MountAssumption`: `--mount` arguments, the host's directories and files, the root and
  the nodes have their types, no node is called `pts`, `shm` or `ptmx`, and the root is
  not below a device; the nodes are the seven of dev.c:194-202.
* `Inputs` (`MCOptions`) is the conjunction of the assumptions of its parts. Of these
  `NetifAssumption` says that two devices of the host have different names, and that
  no option and no other program uses the name `pflask-<pid>`, pflask's own for what it
  makes (netif.c:116); `UserAssumption` says that root is known and has the ids 0,
  `CapabilitiesAssumption` that the alias `all` is not the name of a capability,
  `OptlistAssumption` that a value has a field at least, which may be empty, and that no
  text is the null pointer, and `CmdlineAssumption` that the kinds of options and the
  kinds of characters are different ones, that the text of a value is of its option's
  kind, and that the mark for no value is not a character.

Two theorems have a hypothesis, without which the property is false or, in the second
case, says nothing: TLC cannot read a message that is longer than its memory either.

* `RootElsewhere`: the root's path on the host is not one of the system's mount points.
* `NamesFit`: names have less than 4096 characters, so that two of them fit in the
  memory of a message (nl.h:43). The kernel's interface names have less than 16; `netif.c`
  does not look at the length, and of names that do not fit nothing is claimed.

`RootElsewhere` is the finding of `mount_root`: `path_prefix_root()` leaves a path that is
equal to the root alone (path.c:95).

### The launch

None of the properties is inductive. They follow from `IInv` (theorem
`Inductive`), which is the conjunction of

* `TypeInv`: types, and a cgroup that is being attached is in the list;
* `PlaceInv`: where the child and the helper can be, given where the parent is, and
  that the child has the namespaces of the parent's flags: what makes it right for
  the parent to decide by its own copy after the fallback;
* `StageInv`: what the parent has done, given where it is; it carries "configured"
  from one call to the next until the barrier is opened;
* `SyncInv` and `CsyncInv`: which ends are held and what can be in each inbox. The
  ends explain why end of file cannot occur, and the inboxes why a number in the
  child's inbox means that the container is ready;
* `DeathInv`: as long as the child has not passed `setup_user()` its death signal is
  armed, and a child still at the barrier when the parent goes has nothing in its
  inbox, or else is being killed: these are the two halves of `OrphanNeverRuns`,
  before and after the barrier;
* `CleanInv`: what cgroups and directory are left, given where the parent is in its
  cleaning, with the fact that an `rmdir()` that succeeded leaves no descendant.

Each conjunct has a lemma that every action preserves it, under `IInv`. Lemmas on
the operators of `Sync` (`InitEffect`, `InheritEffect`, `CloseEffect`,
`WakeEffect`, `ReceivedEffect`, `NoEof`) keep socket pairs out of these proofs.

For the refinement, `FreshInv` adds what `Container` needs to know when something
is acquired: the container is not ready yet. `PromiseStep` has a step for each
action, or group of actions, that names the action of `Container` it is.

### The terminal

`TerminalsKept` and `SupervisorSurvives` do not say why they hold. `IInv` adds

* `QueueInv`: who is in the queue, or in the supervisor's hand, waits for its answer or
  has gone without it, and nobody is there twice: hence a write that raises SIGPIPE goes
  to a client that has left;
* `OwnerInv`: only owners get the master, and so only they come to touch a terminal.

### Cgroups

`IInv` has, next to the types, `PidInv` (no two processes that are there have one pid),
`StageInv` (what there is of a container, and under which names, given where its main
process is), and three conjuncts on groups. `HeldInv`: a container is in every group that
its main process is through with, and so nobody can remove the group. `MadeInv` and
`RemovedInv`: unless another run has the same name or somebody has touched it, a group is
there from its creation until the clean-up comes to it, and not afterwards. A pid that is used again comes in
through `PidInv`: a zombie has its pid still, and that is what makes the kill right.

### Mounts

`RootUntouched` follows from `EphemeralInv`. Until the overlay is made nothing is, and the
overlay is the first entry of the list (`Bare`). From then on it is over the root, and no
mount above it shows a part of the real root or a directory above it (`Covered`,
`Apart`). So no path of the container leads into the root (`RootIsHidden`), and a bind
mount does not either: its source is in the container, or is not above the root
(`SourceIsApart`). This is where the two exceptions of the property come from.

The other two properties are about what is seen at a place. `Shows(d, tag, ro)` says that
the latest mount on the way to `d` is at `d`, what it is, and whether it can be written.
The lemmas on `Shows` say what a new mount, a remount and the files in `/dev` hide and
leave, and keep look-ups out of the rest. That there is a last mount on the way to a
path (`Greatest`) is proved from the well-foundedness of the numbers.

For the system's mounts the proof follows the work on the list. `SystemInv` has a number
`n`: the first `n` of the system's entries are made and each of them is seen at its place,
or the user has put something at or above it (`Placed`); the others are left, in their
order, and the user's after them (`Left`). `Halfway` is `/proc/sys` between its bind and
its remount. What makes this inductive is that no entry is at or above an earlier one
(`SystemOrder`, from mount.c:174-201), and that the nodes of `/dev` are aside
(`NodesAside`).

`SpecsInv` has a position `pos[j]` in the list for each `--mount`: the place of its last
entry, counted from the one that is next. `Lined` says that the list is the arguments in
their order, and `Done` that those with a position of zero or less are seen as they were
asked for unless a later one is at or above them, and that a `bind-ro` between its bind
and its remount is seen. `DevicesLast` has the files in `/dev`: they are the last of the
table, and so they are what is seen at their places. `RootIsSeen` is the other exception:
no mount is on the way to `/` if nothing enters the root again.

### Users

`ListInv` says what the list of entries is: two for each option read, or the user's own.
`MapInv` says that a map once written is that of the list and one that the kernel takes,
`OwnerInv` that the console is given to the root of that map, and `CredInv` which of the
ids the child has by then. `MapsAsAsked` then takes the rows back to the options
(`PairsOfMap`): `Rows` is a filtered list, and which numbers are in one of its extents
does not depend on their places.

### Interfaces and requests

`NetInv` has `Interfaces` (one interface has an index, and those of pflask's are those made
so far), `History` (what is made and moved for each option, given how far the list is
worked off), `Found` (what the index in hand is: that of the interface which the look-up
of the option's name has found, or of the one just made) and `InNamespace` (what was made
and moved is in the container's namespace, if it has one). `NothingLeft` follows. `Delivered`
needs `Deliveries`: each option that is done is in its place, or was taken by another
program or by a later option. `MovedIds` is why a new interface is never taken for one
that was moved, and the name `pflask-<pid>`, which nobody else uses, why the request for
the new one does not find another.

`RefusalHeard` rests on a length alone: the number of bytes read of an answer is that of
the request, and a request, whose length only grows, is never shorter than the part of
an answer that carries the error.

### Capabilities

`Made(n, start, set)` says what the first `n` names make of a set, without an order of
steps: a capability that is not named is as it was, unless the first name is `all` and
drops everything; else the last mention counts. It holds for `n + 1` if it holds for `n`
(`OneMore`), for each of the two sets that pflask changes; `Applied` takes it through
`capng_apply()` and exec.

### Fields and what is read of a request

`FieldsMean` needs no more than the types: a field that has a meaning is one that
`split_str()` has found. `FirstToken` says that what it finds first, if anything, is a
field with characters, and `AllTokens` that a value without empty fields is cut into just
its fields: the `n`-th token is at place `n`.

`ReadAsMeant` reads a message with a recursive function, `Walk`. That there is such a
function is the first half of the proof: a reader at `o` goes on at a place behind `o`
(`GoesOn`), so a function that is right for the last `n` places of a message can be
changed into one that is right for `n + 1` of them (`OneMorePlace`), and if there were
none for all of them there would be a least `n` that fails (`AllPlaces`). `WalkGoesOn` is
the equation that `Walk` then satisfies, and all that the rest uses.

The second half is the invariant `RequestInv`. `Move(n)`, `Master(t, n)` and `Pair(n, o)`
say, for a request of each kind and names of the lengths `n` and `o`, how long the message
is before step `i`, which attributes are at which places, with which lengths, and which of
them are still open. A name takes `Size(n)` bytes, always a multiple of four, and so
the places behind it are aligned (`Sizes`). `MoveIsRead`, `MasterIsRead` and `PairIsRead`
walk the finished message, and what is inside its attributes, one attribute after the
other.

### Paths

The state of `Path` is a call, so its invariant says no more than what was returned. The
work is in two recursions, and for both it has to be shown first that there is a function
that does what they say: the library's induction theorems take operators, which the
provers cannot instantiate.

The components of a path are a function from its places (`IsCut`). It exists because the
set of places from which a path can be cut has the last one and with each the one before
it (`Downward`, from the well-foundedness of the numbers). `CutSlashes` and `CutWord` take
it over a run of slashes and over a word: the two steps of the walks. `ComponentsMeet`
puts two paths together at a slash, where the components are those of the one and then of
the other, which is all that `TrimmedIs` and `JoinIs` need of `path_prefix_root()`.

`path_compare()` walks two paths at once. What it is to find is defined without a walk:
`CompareLists` goes to the first place where two lists of components differ (`Differ`), as
`CompareWords` does for two words. A function with these values at every two places is one
that the recursion asks for (`WalkExists`), and any other has the same values
(`WalkIs`, again from the end of the first path down, since each step leaves a word of it
behind). `PathCompareIs` is what results, and `PlacesOrdered` and `PrefixIsBelow` are
about lists from there on.

That the order is transitive is not a property of the run, which has two paths only. It
is proved once for lists of anything that has an order (`BeforeIsTransitive`), and used
twice, for words as lists of characters and for paths as lists of words.

### The command line

`LineInv` says how far each option is. The list of an option with many values, read
backwards, has the values of its occurrences so far (`Listed`); between two values of one
argument it has the first pieces of that argument as well, and `rest` is the argument
behind the last comma taken (`Partly`). `ReadOnce` counts the occurrences of the others,
and `InArrays` has the arrays at the end.

What makes a step keep it is about strings. The code looks at what is left of a value,
and `Pieces` at the whole of it. `Starts` are the places where pieces start, `Left` what
is left there; the first end in what is left is the next cut of the whole (`FirstEndIs`),
since the character before a place where a piece starts is a comma and no backslash.
`TokenIsPiece` and `NextIsLeft` then say that the two functions of the code, which search
for the comma separately, agree with each other and with `Pieces`: the pieces taken are
all of them, in their order, and an end of the string right behind a comma is not one
more.

Two operators keep a sequence in order: `InOrder`, which puts places in the order of
their rank (`InOrderIs`, `InOrderAppend`), and `FlattenSeq` of the community modules,
whose recursion over the sequence is shown to have exactly one function by a least
counterexample, so that one more sequence is appended at the end (`FlattenAppend`).

### What is only model-checked

* Liveness: it rests on ENABLED and fairness, which the prover does not do.

These are the temporal properties of the runs `live`, `console_answer` and `console_end`.
Every invariant of a passing run is a theorem, and so is the refinement of `Container`.
Of the three properties that the code violates there is nothing to prove.


## 6. What is not modelled

* Of `cmdline.c` what saves options to a file, the texts of help and version, and the
  freeing of memory; the options that `options` does not try go the ways of those it
  does. `utlist.h` is a vendored list: lists are sequences.
* `on_path()`, a search of `PATH`, and `tools/pflask-debuild`, a script around the
  program.
* The D-Bus message of `machine.c`: its registration is a step of `Pflask`.
* The socket below `nl.c`: opening and binding it is a part of steps that may fail.
* Mount propagation, and failures of `mount()` itself other than a missing or
  unsuitable mount point. The host's own mounts, symbolic links, and `.` and `..` in the
  argument of `--chroot`. The device nodes are there on the host.
* A program that moves the container's processes to cgroups of its own, or makes cgroups
  under pflask's names.
* The kernel forgets a death signal also when a set-user-id program is executed: what
  becomes of a command that does so after its parent has died.
* How an attached client's output reaches its terminal, and which part of it each of two
  clients gets: they read from one queue, and every byte goes to whoever reads it first.
* The environment and the directory that the command starts in.


## 7. Plan

The modules of section 2, the refinement of `Container` and the theorems of section 5 are
complete: no safety property of a run is left to TLC alone.

What could still be added, in this order:

1. The pty loop in the foreground with the output that is in the pty when SIGCHLD comes
   (pty.c:221). It may be lost, and nothing in the repository says that it is not: this
   and ids that do not fit in 32 bits are the hazards of `PROJECT.json` without a property.
2. `on_path()`, a search of `PATH`, of which `User` has the outcome only.
3. The part of `cmdline.c` that prints and saves options.
