------------------------------- MODULE Pflask -------------------------------
(***************************************************************************)
(* One run of pflask: main() of src/pflask.c with what it calls for its    *)
(* effect on the container's life (sync.c, setup_console_owner() of dev.c, *)
(* cgroup.c, setup_mount(), setup_user(), the two loops of pty.c).         *)
(*                                                                         *)
(* Three processes: the parent, which prepares the container and then      *)
(* supervises it; the child, which becomes the command; the helper, which  *)
(* setup_console_owner() forks to give the console away when the invoker   *)
(* is not privileged.  Each has a program counter named after the call it  *)
(* is about to make.  Any of them may fail in a call (fail_printf() and    *)
(* sysf_printf() end the process on the spot), or be killed.               *)
(***************************************************************************)
EXTENDS Sync

CONSTANTS
    Controllers,    \* names for --cgroup
    Options         \* the command lines considered

Procs      == {"parent", "child", "helper"}
Namespaces == {"NEWNS", "NEWIPC", "NEWPID", "NEWCGROUP", "NEWUTS", "NEWNET", "NEWUSER"}

\* netif: --netif given; userns: --user or --user-map given; no: the --no-*ns
\* flags; helper: the invoker is neither privileged nor the owner of the
\* container's root, so that setup_console_owner() has to fork; newcreds:
\* setup_user() changes the effective ids of the child.
CommandLines ==
    [chroot : BOOLEAN, detach : BOOLEAN, ephemeral : BOOLEAN, netif : BOOLEAN,
     userns : BOOLEAN, helper : BOOLEAN, newcreds : BOOLEAN,
     no : SUBSET (Namespaces \ {"NEWCGROUP"}), cgroups : Seq(Controllers)]

ASSUME OptionsAssumption ==
    /\ Options \subseteq CommandLines
    /\ \A o \in Options : o.ephemeral => o.chroot

VARIABLES
    opts,           \* the command line
    ppc, cpc, hpc,  \* where the parent, the child and the helper are
    sync, csync,    \* socket pairs: parent and child; parent and helper
    flags,          \* clone_flags in the parent
    ns,             \* the namespaces the child was really given
    pdeath,         \* the child asked for SIGKILL at its parent's death
    killed,         \* SIGKILL was sent to the child
    sigchld, stop,  \* pending in the parent: SIGCHLD; SIGTERM and its like
    setup,          \* what the parent has done to the container
    cg,             \* the parent's place in the list of cgroups
    cgdirs,         \* controllers where pflask's cgroup exists
    attached,       \* controllers where the child was moved into it
    ephDir,         \* /tmp/pflask-ephemeral-XXXXXX exists
    ephMounted,     \* and a tmpfs covers it in the host's mount namespace
    slave,          \* the pty's slave: unopened, open, closed
    kids            \* descendants of the command are alive

procs   == <<ppc, cpc, hpc>>
spaces  == <<flags, ns>>
signals == <<pdeath, killed, sigchld, stop>>
groups  == <<cg, cgdirs, attached>>
tree    == <<ephDir, ephMounted>>
tty     == <<slave, kids>>
vars    == <<opts, procs, sync, csync, spaces, signals, setup, groups, tree, tty>>

ParentGone == ppc \in {"exited", "failed", "killed"}
ChildAlive == cpc \notin {"unborn", "zombie", "reaped"}
HelperAlive == hpc \notin {"unborn", "zombie", "reaped"}

\* Mutant: SIGCHLD and the stop signals are not blocked while the loop waits.
MaskedLate == ppc \in {"kill", "waitid", "clean", "rmdir", "exit"}

\* The pty loops block these signals before the first wait, and for good.
Masked == ppc \in {"loop", "kill", "waitid", "clean", "rmdir", "exit"}

CloneFlags(o) ==
    ({"NEWNS", "NEWIPC", "NEWPID", "NEWCGROUP", "NEWUTS"}
        \cup (IF o.netif THEN {"NEWNET"} ELSE {})
        \cup (IF o.userns THEN {"NEWUSER"} ELSE {})) \ o.no

Init ==
    /\ opts \in Options
    /\ ppc = "open_pty" /\ cpc = "unborn" /\ hpc = "unborn"
    /\ sync = NoPair(Procs) /\ csync = NoPair(Procs)
    /\ flags = CloneFlags(opts) /\ ns = {}
    /\ pdeath = FALSE /\ killed = FALSE /\ sigchld = FALSE /\ stop = FALSE
    /\ setup = {}
    /\ cg = 1 /\ cgdirs = {} /\ attached = {}
    /\ ephDir = FALSE /\ ephMounted = FALSE
    /\ slave = "unopened" /\ kids = FALSE

-----------------------------------------------------------------------------
(* The parent.                                                             *)

ParentGoes(from, to) ==
    /\ ppc = from
    /\ ppc' = to
    /\ UNCHANGED <<opts, cpc, hpc>>

OpenMaster ==
    /\ ParentGoes("open_pty", IF opts.detach THEN "daemonize" ELSE "sync_init")
    /\ UNCHANGED <<sync, csync, spaces, signals, setup, groups, tree, tty>>

Daemonize ==
    /\ ParentGoes("daemonize", "sync_init")
    /\ UNCHANGED <<sync, csync, spaces, signals, setup, groups, tree, tty>>

SyncInit ==
    /\ ParentGoes("sync_init", IF opts.ephemeral THEN "mkdtemp" ELSE "clone")
    /\ sync' = sync_init(Procs, "parent")
    /\ UNCHANGED <<csync, spaces, signals, setup, groups, tree, tty>>

MakeEphemeralDir ==
    /\ ParentGoes("mkdtemp", "clone")
    /\ ephDir' = TRUE
    /\ UNCHANGED <<sync, csync, spaces, signals, setup, groups, ephMounted, tty>>

\* Mutant: do_clone() takes the flags by value.
CloneByValue(f) ==
    /\ ppc = "clone"
    /\ ppc' = "wait_start"
    /\ cpc' = "prctl"
    /\ ns' = f
    /\ sync' = Inherit(sync, "parent", "child")
    /\ UNCHANGED <<opts, hpc, csync, flags, signals, setup, groups, tree, tty>>

\* do_clone(): the child gets the namespaces of clone_flags and a copy of the
\* parent's descriptors.
CloneWith(f) ==
    /\ ppc = "clone"
    /\ ppc' = "wait_start"
    /\ cpc' = "prctl"
    /\ flags' = f
    /\ ns' = f
    /\ sync' = Inherit(sync, "parent", "child")
    /\ UNCHANGED <<opts, hpc, csync, signals, setup, groups, tree, tty>>

Clone == CloneWith(flags)

\* The first clone() fails with EINVAL, the second does without a user
\* namespace, and so must main() from now on.
CloneFallback == CloneWith(flags \ {"NEWUSER"})

WaitForStart ==
    /\ WaitReturns(sync, 1, SYNC_START)
    /\ ParentGoes("wait_start",
                  IF opts.chroot /\ "NEWUSER" \in flags THEN "console_owner" ELSE "create_cgroup")
    /\ sync' = Received(sync, 1)
    /\ UNCHANGED <<csync, spaces, signals, setup, groups, tree, tty>>

\* setup_console_owner() of a privileged invoker, or of one who is the
\* container's root.
OwnConsole ==
    /\ ~opts.helper
    /\ ParentGoes("console_owner", "create_cgroup")
    /\ setup' = setup \cup {"console"}
    /\ UNCHANGED <<sync, csync, spaces, signals, groups, tree, tty>>

ForkHelper ==
    /\ opts.helper
    /\ ppc = "console_owner"
    /\ ppc' = "helper_wait"
    /\ hpc' = "unshare"
    /\ sync' = Inherit(sync, "parent", "helper")
    /\ csync' = Inherit(sync_init(Procs, "parent"), "parent", "helper")
    /\ UNCHANGED <<opts, cpc, spaces, signals, setup, groups, tree, tty>>

\* fork() returns -1: nobody checks it, and the parent waits all the same.
ForkHelperFails ==
    /\ opts.helper
    /\ ParentGoes("console_owner", "helper_wait")
    /\ csync' = sync_init(Procs, "parent")
    /\ UNCHANGED <<sync, spaces, signals, setup, groups, tree, tty>>

WaitForHelper ==
    /\ WaitReturns(csync, 1, SYNC_START)
    /\ ParentGoes("helper_wait", "helper_map")
    /\ csync' = Received(csync, 1)
    /\ UNCHANGED <<sync, spaces, signals, setup, groups, tree, tty>>

MapHelperUsers ==
    /\ ParentGoes("helper_map", "helper_wake")
    /\ UNCHANGED <<sync, csync, spaces, signals, setup, groups, tree, tty>>

WakeHelper ==
    /\ ParentGoes("helper_wake", "helper_close")
    /\ csync' = sync_wake(csync, 1, SYNC_DONE)
    /\ UNCHANGED <<sync, spaces, signals, setup, groups, tree, tty>>

CloseHelperSync ==
    /\ ParentGoes("helper_close", "helper_reap")
    /\ csync' = sync_close(csync, "parent")
    /\ UNCHANGED <<sync, spaces, signals, setup, groups, tree, tty>>

\* waitpid(): the status is stored and never looked at.
ReapHelper ==
    /\ hpc = "zombie"
    /\ ppc = "helper_reap"
    /\ ppc' = "create_cgroup"
    /\ hpc' = "reaped"
    /\ UNCHANGED <<opts, cpc, sync, csync, spaces, signals, setup, groups, tree, tty>>

MoreCgroups == cg <= Len(opts.cgroups)

\* create_cgroup() takes a directory that exists for its own.
CreateCgroup ==
    /\ MoreCgroups
    /\ ParentGoes("create_cgroup", "attach_cgroup")
    /\ cgdirs' = cgdirs \cup {opts.cgroups[cg]}
    /\ UNCHANGED <<sync, csync, spaces, signals, setup, cg, attached, tree, tty>>

AttachCgroup ==
    /\ ParentGoes("attach_cgroup", "create_cgroup")
    /\ attached' = attached \cup {opts.cgroups[cg]}
    /\ cg' = cg + 1
    /\ UNCHANGED <<sync, csync, spaces, signals, setup, cgdirs, tree, tty>>

SetupNetif ==
    /\ ~MoreCgroups
    /\ ParentGoes("create_cgroup", "register")
    /\ setup' = setup \cup {"netif"}
    /\ UNCHANGED <<sync, csync, spaces, signals, groups, tree, tty>>

\* register_machine() goes on without a bus and without an answer; out of memory
\* it fails (ParentFails).
RegisterMachine ==
    /\ ParentGoes("register", IF "NEWUSER" \in flags THEN "user_map" ELSE "wake")
    /\ UNCHANGED <<sync, csync, spaces, signals, setup, groups, tree, tty>>

SetupUserMap ==
    /\ ParentGoes("user_map", "wake")
    /\ setup' = setup \cup {"usermap"}
    /\ UNCHANGED <<sync, csync, spaces, signals, groups, tree, tty>>

\* Mutant: the number after the one the child waits for.
WakeChildOneTooFar ==
    /\ ParentGoes("wake", "close")
    /\ sync' = sync_wake(sync, 1, SYNC_DONE + 1)
    /\ UNCHANGED <<csync, spaces, signals, setup, groups, tree, tty>>

WakeChild ==
    /\ ParentGoes("wake", "close")
    /\ sync' = sync_wake(sync, 1, SYNC_DONE)
    /\ UNCHANGED <<csync, spaces, signals, setup, groups, tree, tty>>

CloseSync ==
    /\ ParentGoes("close", "mask")
    /\ sync' = sync_close(sync, "parent")
    /\ UNCHANGED <<csync, spaces, signals, setup, groups, tree, tty>>

\* serve_pty() or process_pty() up to the loop.
MaskSignals ==
    /\ ParentGoes("mask", "loop")
    /\ UNCHANGED <<sync, csync, spaces, signals, setup, groups, tree, tty>>

LeaveLoop ==
    /\ ParentGoes("loop", "kill")
    /\ UNCHANGED <<sync, csync, spaces, signals, setup, groups, tree, tty>>

LoopSignal == (sigchld \/ stop) /\ LeaveLoop

\* Mutant: only SIGCHLD ends the loop, as in serve_pty().
IgnoreHangup == sigchld /\ slave = "closed" /\ LeaveLoop

\* read() of the master fails once every descriptor of the slave is closed.
LoopHangup == ~opts.detach /\ slave = "closed" /\ LeaveLoop

\* End of file on the terminal, or ^@.
LoopInput == ~opts.detach /\ LeaveLoop

\* Mutant: nobody is killed.
KillNobody ==
    /\ ParentGoes("kill", "waitid")
    /\ UNCHANGED <<sync, csync, spaces, signals, setup, groups, tree, tty>>

KillChild ==
    /\ ParentGoes("kill", "waitid")
    /\ killed' = (killed \/ ChildAlive)
    /\ UNCHANGED <<sync, csync, spaces, pdeath, sigchld, stop, setup, groups, tree, tty>>

\* Mutant: waitid() with WNOHANG.
ReapWithoutWaiting ==
    /\ ParentGoes("waitid", "clean")
    /\ cg' = 1
    /\ UNCHANGED <<sync, csync, spaces, signals, setup, cgdirs, attached, tree, tty>>

\* Mutant: clean_cgroup() goes on where setup_cgroup() stopped.
ReapChildKeepPlace ==
    /\ cpc = "zombie"
    /\ ppc = "waitid"
    /\ ppc' = "clean"
    /\ cpc' = "reaped"
    /\ UNCHANGED <<opts, hpc, sync, csync, spaces, signals, setup, groups, tree, tty>>

ReapChild ==
    /\ cpc = "zombie"
    /\ ppc = "waitid"
    /\ ppc' = "clean"
    /\ cpc' = "reaped"
    /\ cg' = 1
    /\ UNCHANGED <<opts, hpc, sync, csync, spaces, signals, setup, cgdirs, attached, tree, tty>>

\* rmdir() of a cgroup that has processes fails; so does a second rmdir().
CanDestroy == ~kids /\ opts.cgroups[cg] \in cgdirs

DestroyCgroup ==
    /\ MoreCgroups
    /\ CanDestroy
    /\ ParentGoes("clean", "clean")
    /\ cgdirs' = cgdirs \ {opts.cgroups[cg]}
    /\ cg' = cg + 1
    /\ UNCHANGED <<sync, csync, spaces, signals, setup, attached, tree, tty>>

CgroupsDestroyed ==
    /\ ~MoreCgroups
    /\ ParentGoes("clean", IF opts.ephemeral THEN "rmdir" ELSE "exit")
    /\ UNCHANGED <<sync, csync, spaces, signals, setup, groups, tree, tty>>

\* The end of the parent, whatever its cause: the kernel closes its
\* descriptors and sends the signal the child has asked for.
ParentEnds(how) ==
    /\ ppc' = how
    /\ sync' = sync_close(sync, "parent")
    /\ csync' = sync_close(csync, "parent")
    /\ killed' = (killed \/ (pdeath /\ ChildAlive))
    /\ UNCHANGED <<opts, cpc, hpc, spaces, pdeath, sigchld, stop, setup, groups, tree, tty>>

CgroupBusy ==
    /\ ppc = "clean"
    /\ MoreCgroups
    /\ ~CanDestroy
    /\ ParentEnds("failed")

RemoveEphemeralDir ==
    /\ ~ephMounted
    /\ ParentGoes("rmdir", "exit")
    /\ ephDir' = FALSE
    /\ UNCHANGED <<sync, csync, spaces, signals, setup, groups, ephMounted, tty>>

Return == ppc = "exit" /\ ParentEnds("exited")

EphemeralDirBusy ==
    /\ ppc = "rmdir"
    /\ ephMounted
    /\ ParentEnds("failed")

\* fail_printf() or sysf_printf() in any call but these two: kill() is not checked,
\* and the last step only returns.
ParentFails ==
    /\ ~ParentGone
    /\ ppc \notin {"kill", "exit"}
    /\ ParentEnds("failed")

\* By SIGKILL, or by a stop signal that the parent does not block.
ParentKilled ==
    /\ ~ParentGone
    /\ ParentEnds("killed")

StopArrives ==
    /\ Masked
    /\ stop' = TRUE
    /\ UNCHANGED <<opts, procs, sync, csync, spaces, pdeath, killed, sigchld, setup, groups,
                   tree, tty>>

-----------------------------------------------------------------------------
(* The child.                                                              *)

ChildGoes(from, to) ==
    /\ cpc = from
    /\ cpc' = to
    /\ UNCHANGED <<opts, ppc, hpc, csync, spaces, setup, groups, ephDir>>

\* Mutant: no PR_SET_PDEATHSIG.
AskForNothing ==
    /\ ChildGoes("prctl", "setsid")
    /\ UNCHANGED <<sync, signals, ephMounted, tty>>

AskForDeathSignal ==
    /\ ChildGoes("prctl", "setsid")
    /\ pdeath' = TRUE
    /\ UNCHANGED <<sync, killed, sigchld, stop, ephMounted, tty>>

SetSid ==
    /\ ChildGoes("setsid", "barrier_wake")
    /\ UNCHANGED <<sync, signals, ephMounted, tty>>

\* Mutant: the numbers of sync_barrier() swapped.
WakeParentWithDone ==
    /\ ChildGoes("barrier_wake", "barrier_wait")
    /\ sync' = sync_wake(sync, 0, SYNC_DONE)
    /\ UNCHANGED <<signals, ephMounted, tty>>

WakeParent ==
    /\ ChildGoes("barrier_wake", "barrier_wait")
    /\ sync' = sync_wake(sync, 0, SYNC_START)
    /\ UNCHANGED <<signals, ephMounted, tty>>

\* Mutant: sync_barrier() waits for seq, not for seq + 1.
WaitForOwnNumber ==
    /\ WaitReturns(sync, 0, SYNC_START)
    /\ ChildGoes("barrier_wait", "close")
    /\ sync' = Received(sync, 0)
    /\ UNCHANGED <<signals, ephMounted, tty>>

WaitForDone ==
    /\ WaitReturns(sync, 0, SYNC_START + 1)
    /\ ChildGoes("barrier_wait", "close")
    /\ sync' = Received(sync, 0)
    /\ UNCHANGED <<signals, ephMounted, tty>>

ChildCloseSync ==
    /\ ChildGoes("close", "open_slave")
    /\ sync' = sync_close(sync, "child")
    /\ UNCHANGED <<signals, ephMounted, tty>>

OpenSlave ==
    /\ ChildGoes("open_slave", "setup_user")
    /\ slave' = "open"
    /\ UNCHANGED <<sync, signals, ephMounted, kids>>

\* The kernel forgets the death signal of a process that changes its
\* effective ids.
SetupUser ==
    /\ ChildGoes("setup_user", IF opts.ephemeral THEN "mount_tmpfs" ELSE "setup_mount")
    /\ pdeath' = (pdeath /\ ~opts.newcreds)
    /\ UNCHANGED <<sync, killed, sigchld, stop, ephMounted, tty>>

\* sethostname(), and setup_mount() up to the tmpfs for --ephemeral.
MountEphemeral ==
    /\ ChildGoes("mount_tmpfs", "setup_mount")
    /\ ephMounted' = ("NEWNS" \notin ns)
    /\ UNCHANGED <<sync, signals, tty>>

SetupMount ==
    /\ ChildGoes("setup_mount", IF opts.chroot THEN "chroot" ELSE "config")
    /\ UNCHANGED <<sync, signals, ephMounted, tty>>

\* setup_nodes() to do_chroot().
EnterRoot ==
    /\ ChildGoes("chroot", "config")
    /\ UNCHANGED <<sync, signals, ephMounted, tty>>

\* config_netif(), setup_capabilities(), chdir() and the environment.
Configure ==
    /\ ChildGoes("config", "exec")
    /\ UNCHANGED <<sync, signals, ephMounted, tty>>

Exec ==
    /\ ChildGoes("exec", "running")
    /\ UNCHANGED <<sync, signals, ephMounted, tty>>

\* A call of the child fails, the command returns or crashes, or the pending
\* SIGKILL takes effect.  Its namespace's processes go with the first of them,
\* and SIGCHLD, ignored by default, only stays with a parent that blocks it.
ChildEnds ==
    /\ ChildAlive
    /\ cpc' = "zombie"
    /\ sync' = sync_close(sync, "child")
    /\ sigchld' = (sigchld \/ Masked)
    /\ kids' = (kids /\ "NEWPID" \notin ns)
    /\ slave' = IF slave = "open" /\ ~kids' THEN "closed" ELSE slave
    /\ UNCHANGED <<opts, ppc, hpc, csync, spaces, pdeath, killed, stop, setup, groups, tree>>

ChildKilled == killed /\ ChildEnds

-----------------------------------------------------------------------------
(* The command, once it runs: any program.                                 *)

CommandForks ==
    /\ cpc = "running"
    /\ kids' = TRUE
    /\ UNCHANGED <<opts, procs, sync, csync, spaces, signals, setup, groups, tree, slave>>

\* The last of the command's descendants ends.
KidsEnd ==
    /\ kids
    /\ kids' = FALSE
    /\ slave' = IF slave = "open" /\ ~ChildAlive THEN "closed" ELSE slave
    /\ UNCHANGED <<opts, procs, sync, csync, spaces, signals, setup, groups, tree>>

\* As a system's init does: for a moment nobody has the terminal open.
CommandUsesTty ==
    /\ cpc = "running"
    /\ slave' \in {"open", "closed"}
    /\ UNCHANGED <<opts, procs, sync, csync, spaces, signals, setup, groups, tree, kids>>

-----------------------------------------------------------------------------
(* The helper.                                                             *)

HelperGoes(from, to) ==
    /\ hpc = from
    /\ hpc' = to
    /\ UNCHANGED <<opts, ppc, cpc, spaces, signals, groups, tree, tty>>

\* Nobody checks unshare() either.
Unshare ==
    /\ HelperGoes("unshare", "barrier_wake")
    /\ UNCHANGED <<sync, csync, setup>>

HelperWakeParent ==
    /\ HelperGoes("barrier_wake", "barrier_wait")
    /\ csync' = sync_wake(csync, 0, SYNC_START)
    /\ UNCHANGED <<sync, setup>>

\* Mutant: the helper waits for another number than the parent writes.
HelperWaitForStart ==
    /\ WaitReturns(csync, 0, SYNC_START)
    /\ HelperGoes("barrier_wait", "close")
    /\ csync' = Received(csync, 0)
    /\ UNCHANGED <<sync, setup>>

HelperWaitForDone ==
    /\ WaitReturns(csync, 0, SYNC_START + 1)
    /\ HelperGoes("barrier_wait", "close")
    /\ csync' = Received(csync, 0)
    /\ UNCHANGED <<sync, setup>>

HelperCloseSync ==
    /\ HelperGoes("close", "chown")
    /\ csync' = sync_close(csync, "helper")
    /\ UNCHANGED <<sync, setup>>

\* setup_user("root"), chown() and exit().
ChownConsole ==
    /\ HelperGoes("chown", "zombie")
    /\ setup' = setup \cup {"console"}
    /\ sync' = sync_close(sync, "helper")
    /\ UNCHANGED csync

HelperEnds ==
    /\ HelperAlive
    /\ HelperGoes(hpc, "zombie")
    /\ sync' = sync_close(sync, "helper")
    /\ csync' = sync_close(csync, "helper")
    /\ UNCHANGED setup

-----------------------------------------------------------------------------

ParentWorks ==
    \/ OpenMaster \/ Daemonize \/ SyncInit \/ MakeEphemeralDir \/ Clone
    \/ WaitForStart \/ OwnConsole \/ ForkHelper \/ WaitForHelper \/ MapHelperUsers
    \/ WakeHelper \/ CloseHelperSync \/ ReapHelper
    \/ CreateCgroup \/ AttachCgroup \/ SetupNetif \/ RegisterMachine \/ SetupUserMap
    \/ WakeChild \/ CloseSync \/ MaskSignals \/ LoopSignal \/ LoopHangup
    \/ KillChild \/ ReapChild \/ DestroyCgroup \/ CgroupsDestroyed \/ CgroupBusy
    \/ RemoveEphemeralDir \/ EphemeralDirBusy \/ Return

ChildWorks ==
    \/ AskForDeathSignal \/ SetSid \/ WakeParent \/ WaitForDone \/ ChildCloseSync
    \/ OpenSlave \/ SetupUser \/ MountEphemeral \/ SetupMount \/ EnterRoot
    \/ Configure \/ Exec

HelperWorks ==
    Unshare \/ HelperWakeParent \/ HelperWaitForDone \/ HelperCloseSync \/ ChownConsole

\* What may happen and need not: errors, signals, the user and the command.
Environment ==
    \/ CloneFallback \/ ForkHelperFails \/ LoopInput \/ StopArrives
    \/ ParentFails \/ ParentKilled
    \/ ChildEnds \/ CommandForks \/ KidsEnd \/ CommandUsesTty
    \/ HelperEnds

Next == ParentWorks \/ ChildWorks \/ HelperWorks \/ ChildKilled \/ Environment

\* The processes are scheduled, and the kernel delivers SIGKILL.
Fairness ==
    /\ WF_vars(ParentWorks)
    /\ WF_vars(ChildWorks)
    /\ WF_vars(HelperWorks)
    /\ WF_vars(ChildKilled)

Spec     == Init /\ [][Next]_vars
FairSpec == Spec /\ Fairness

-----------------------------------------------------------------------------
(* Properties.                                                             *)

\* Every variable has its type, and the pairs carry the numbers of sync.h only.
TypeOK ==
    /\ opts \in Options
    /\ ppc \in {"open_pty", "daemonize", "sync_init", "mkdtemp", "clone",
                "wait_start", "console_owner", "helper_wait", "helper_map", "helper_wake",
                "helper_close", "helper_reap", "create_cgroup", "attach_cgroup", "register",
                "user_map", "wake", "close", "mask", "loop", "kill", "waitid", "clean",
                "rmdir", "exit", "exited", "failed", "killed"}
    /\ cpc \in {"unborn", "prctl", "setsid", "barrier_wake", "barrier_wait", "close",
                "open_slave", "setup_user", "mount_tmpfs", "setup_mount", "chroot",
                "config", "exec", "running", "zombie", "reaped"}
    /\ hpc \in {"unborn", "unshare", "barrier_wake", "barrier_wait", "close", "chown",
                "zombie", "reaped"}
    /\ sync \in Pair(Procs) /\ csync \in Pair(Procs)
    /\ flags \subseteq Namespaces /\ ns \subseteq Namespaces
    /\ pdeath \in BOOLEAN /\ killed \in BOOLEAN /\ sigchld \in BOOLEAN /\ stop \in BOOLEAN
    /\ setup \subseteq {"console", "netif", "usermap"}
    /\ cg \in 1 .. Len(opts.cgroups) + 1
    /\ cgdirs \subseteq Controllers /\ attached \subseteq Controllers
    /\ ephDir \in BOOLEAN /\ ephMounted \in BOOLEAN
    /\ slave \in {"unopened", "open", "closed"} /\ kids \in BOOLEAN

\* main() calls setup_console_owner().
Owned == opts.chroot /\ "NEWUSER" \in ns

Required ==
    {"netif"} \cup (IF "NEWUSER" \in ns THEN {"usermap"} ELSE {})
              \cup (IF Owned /\ ~opts.helper THEN {"console"} ELSE {})

Configured ==
    /\ Required \subseteq setup
    /\ attached = {opts.cgroups[i] : i \in DOMAIN opts.cgroups}

Released == cpc \in {"close", "open_slave", "setup_user", "mount_tmpfs", "setup_mount",
                     "chroot", "config", "exec", "running"}

\* The child gets past sync_barrier_parent() (pflask.c:216) only in a container
\* that is complete for the namespaces it really has: in every cgroup, with its
\* interfaces and its id maps, its console given away and the helper reaped.
\* In particular the death of the parent is no way through: sync_wait() returns
\* on end of file, too.
BarrierHolds ==
    Released => /\ Configured
                /\ Owned /\ opts.helper => hpc = "reaped"

\* Wherever a process waits on a socket pair, what it gets is the number it
\* expects, never another one and never end of file (sync.c:56-63); and whoever
\* writes has a reader, so that nobody dies of SIGPIPE (sync.c:79).
ChannelsAgree ==
    LET Waits(s, e, seq) == ~WaitFails(s, e, seq) /\ ~AtEof(s, e) IN
    /\ ppc = "wait_start"   => Waits(sync, 1, SYNC_START)
    /\ cpc = "barrier_wait" => Waits(sync, 0, SYNC_DONE)
    /\ ppc = "helper_wait"  => Waits(csync, 1, SYNC_START)
    /\ hpc = "barrier_wait" => Waits(csync, 0, SYNC_DONE)
    /\ cpc = "barrier_wake" => Connected(sync, 0)
    /\ ppc = "wake"         => Connected(sync, 1)
    /\ hpc = "barrier_wake" => Connected(csync, 0)
    /\ ppc = "helper_wake"  => Connected(csync, 1)

\* The parent gives id maps and a console owner only to a child that has a user
\* namespace of its own, whatever do_clone() fell back to (pflask.c:402-408);
\* otherwise it would write the id map of a process of the host.
SetupFitsNamespaces == setup \cap {"usermap", "console"} # {} => "NEWUSER" \in ns

\* A child past the barrier that its parent has left behind is dying, unless
\* setup_user() made the kernel forget PR_SET_PDEATHSIG (pflask.c:210, 222):
\* the window before prctl() only leaves children that stay at the barrier.  (The
\* kernel forgets it as well when the command executes a set-user-id program, which
\* the model leaves out, here and below.)
OrphanNeverRuns ==
    Released /\ ParentGone /\ ~killed =>
        opts.newcreds /\ cpc \notin {"close", "open_slave", "setup_user"}

\* pflask returns the status of a child that is reaped, with no cgroup and no
\* temporary directory left, and with nothing of the container alive where a pid
\* namespace or a cgroup could tell (pflask.c:312-348).
CleanExit ==
    ppc = "exited" =>
        /\ cpc = "reaped"
        /\ cgdirs = {} /\ ~ephDir
        /\ kids => "NEWPID" \notin ns /\ opts.cgroups = <<>>

\* docs/pflask.rst:73 on --ephemeral: "Discard any change to / once the container
\* exits."  The changes are in the tmpfs of setup_mount() (mount.c:156).
EphemeralDiscarded == cpc = "reaped" => ~ephMounted

\* What Container calls its variables: "ready" is Configured.
Command ==
    IF cpc = "unborn" THEN "none"
    ELSE IF cpc = "running" THEN "running"
    ELSE IF ChildAlive THEN "held" ELSE "over"

CgroupOf(c)  == <<"cgroup", c>>
EphemeralDir == <<"directory", "ephemeral">>

Resources ==
    {CgroupOf(c) : c \in cgdirs} \cup (IF ephDir THEN {EphemeralDir} ELSE {})

Supervisor ==
    IF ppc = "exited" THEN "returned" ELSE IF ParentGone THEN "aborted" ELSE "working"

Promise == INSTANCE Container WITH
    Resource   <- {CgroupOf(c) : c \in Controllers} \cup {EphemeralDir},
    command    <- Command,
    ready      <- Configured,
    resources  <- Resources,
    supervisor <- Supervisor

\* The command runs only in a container that is ready, nothing of it is given
\* back before the command is over, and pflask returns when nothing is left.
ContainerSpec == Promise!Spec

\* The parent waits for an answer of a process that is dead, or was never born, and
\* gets no end of file because it holds the other end of the pair itself.
ChildLost  == ppc = "wait_start" /\ ~ChildAlive /\ sync.inbox[1] = <<>>
HelperLost == ppc = "helper_wait" /\ ~HelperAlive /\ csync.inbox[1] = <<>>

\* A launch ends with the command running, with the parent gone, or, when the child
\* dies, with the parent in its loop: no two processes wait for each other
\* (pflask.c:216, 287, dev.c:119, 131, 139).  The parent hangs in two cases only:
\* the child died before SYNC_START, or fork() of the helper failed or the helper
\* died before its own SYNC_START.
LaunchResolves ==
    cpc = "prctl" ~>
        \/ cpc = "running"
        \/ ParentGone
        \/ ~ChildAlive /\ ppc = "loop"
        \/ ChildLost
        \/ HelperLost

\* Once the parent is in its loop it does not miss the death of the child,
\* attached or detached, with or without descendants that keep the terminal
\* (pty.c:130, 221, 286, 337).
DeathEndsLoop ==
    [](ppc = "loop" /\ ChildAlive => []ChildAlive \/ <>(ppc # "loop"))

\* In the foreground a child that is dead before SIGCHLD is blocked, and leaves no
\* signal behind, is noticed all the same once it has opened its terminal and
\* nobody of the container has it open any more (pty.c:118-130, 188-194).
HangupEndsLoop ==
    [](ppc = "loop" /\ ~opts.detach /\ slave # "unopened" /\ ~ChildAlive /\ ~kids
        => <>(ppc # "loop"))

\* A helper outlives the launch only if the parent has gone before it answered: it
\* has no death signal and holds both ends itself (dev.c:115-135).
HelperResolves == HelperAlive ~> ~HelperAlive \/ ParentGone

\* A stop signal that reaches a supervising parent ends the container and the
\* parent, whatever the command does (pty.c:219-226, pflask.c:312-314); a child
\* survives only where the parent died halfway and could not ask for its death.
StopHonoured == stop ~> ParentGone /\ (ChildAlive => opts.newcreds)

\* No orphan past the barrier survives its parent for ever.
OrphansDie == Released /\ ParentGone /\ ~opts.newcreds ~> ~ChildAlive
=============================================================================
