------------------------------- MODULE Cgroup -------------------------------
(***************************************************************************)
(* The control groups of several pflask runs on one host (src/cgroup.c and *)
(* its calls in src/pflask.c).  A group is a directory in the hierarchy of *)
(* a controller, named after the pid that pflask had while it read its     *)
(* options.  Pids are used again, and the directories, which belong to no  *)
(* process, outlive a pflask that does not get to remove them.             *)
(*                                                                         *)
(* A run is its main process and the container's first process, its child. *)
(* Other processes of the container are one flag: that there are some.     *)
(* Two controllers that are mounted together are one hierarchy.            *)
(*                                                                         *)
(* The directories are open to every program of the host, and to the       *)
(* container where it has the hierarchy mounted.  A group in which one of  *)
(* them has made a group or has put a process, or which another program    *)
(* has removed, is touched: what is in it now is not known.  That a        *)
(* privileged program moves the container's processes to groups of its     *)
(* own is outside of the model, as is one that makes groups under          *)
(* pflask's names.                                                         *)
(***************************************************************************)
EXTENDS Naturals, FiniteSets, Sequences

CONSTANTS
    Runs,           \* runs of pflask
    Pids,           \* process ids
    NoPid,          \* none of them
    Hierarchies,    \* mounted cgroup hierarchies
    Lists,          \* possible --cgroup options: sequences of hierarchies
    MaxForeign,     \* bound: how many other processes there are when one starts
    MaxTouched      \* bound: how many groups others have touched

ASSUME CgroupAssumption ==
    /\ NoPid \notin Pids /\ MaxForeign \in Nat /\ MaxTouched \in Nat
    /\ Lists \subseteq Seq(Hierarchies) \ {<<>>}

VARIABLES
    groups,     \* the run's --cgroup options
    detach,     \* --detach
    pidns,      \* without --no-pidns
    pc,         \* where the main process is
    at,         \* the place in the list it has come to
    mpid,       \* its pid, as long as it runs
    name,       \* the pid in the names of its groups
    cpid,       \* the pid of the child
    child,      \* none, alive, dying of SIGKILL, zombie, gone
    others,     \* the container has other processes
    within,     \* the group the container is in, by hierarchy
    foreign,    \* pids of other processes
    dirs,       \* the groups there are: <<hierarchy, name>>
    touched     \* those of pflask's that others have touched

options   == <<groups, detach, pidns>>
container == <<cpid, child, others, within>>
groupfs   == <<dirs, touched>>
vars      == <<options, pc, at, mpid, name, container, foreign, groupfs>>

Main(r) == mpid[r] # NoPid
Lives(r) == child[r] \in {"alive", "dying"}
Child(r) == Lives(r) \/ child[r] = "zombie"

Free(p) ==
    /\ p \notin foreign
    /\ \A r \in Runs : mpid[r] # p /\ ~(Child(r) /\ cpid[r] = p)

Group(r, h) == <<h, name[r]>>

\* Those who keep a directory from being removed.
Members(h, n) == {r \in Runs : (Lives(r) \/ others[r]) /\ within[r][h] = n}

Init ==
    /\ groups \in [Runs -> Lists]
    /\ detach \in [Runs -> BOOLEAN] /\ pidns \in [Runs -> BOOLEAN]
    /\ pc = [r \in Runs |-> "start"] /\ at = [r \in Runs |-> 1]
    /\ mpid = [r \in Runs |-> NoPid] /\ name = [r \in Runs |-> NoPid]
    /\ cpid = [r \in Runs |-> NoPid] /\ child = [r \in Runs |-> "none"]
    /\ others = [r \in Runs |-> FALSE]
    /\ within = [r \in Runs |-> [h \in Hierarchies |-> NoPid]]
    /\ foreign = {} /\ dirs = {} /\ touched = {}

Goes(r, from, to) ==
    /\ pc[r] = from
    /\ pc' = [pc EXCEPT ![r] = to]

-----------------------------------------------------------------------------
(* The main process.                                                       *)

\* exec of pflask, and its option loop.
cgroup_add(r) ==
    /\ Goes(r, "start", IF detach[r] THEN "named" ELSE "clone")
    /\ \E p \in Pids :
        /\ Free(p)
        /\ mpid' = [mpid EXCEPT ![r] = p]
        /\ name' = [name EXCEPT ![r] = p]
    /\ UNCHANGED <<options, at, container, foreign, groupfs>>

\* daemon(): the process goes on under a new pid, the old one is left to a
\* process that has exited and is there until it is waited for.
do_daemonize(r) ==
    /\ Goes(r, "named", "clone")
    /\ \E p \in Pids : Free(p) /\ mpid' = [mpid EXCEPT ![r] = p]
    /\ foreign' = foreign \cup {mpid[r]}
    /\ UNCHANGED <<options, at, name, container, groupfs>>

do_clone(r) ==
    /\ Goes(r, "clone", "create")
    /\ \E p \in Pids : Free(p) /\ cpid' = [cpid EXCEPT ![r] = p]
    /\ child' = [child EXCEPT ![r] = "alive"]
    /\ UNCHANGED <<options, at, mpid, name, others, within, foreign, groupfs>>

\* mkdir(); that it is there already is no error.
create_cgroup(r) ==
    /\ Goes(r, "create", "attach")
    /\ dirs' = dirs \cup {Group(r, groups[r][at[r]])}
    /\ UNCHANGED <<options, at, mpid, name, container, foreign, touched>>

\* Mutant: the child is let go after the first group.
AttachFirst(r) ==
    /\ Goes(r, "attach", "wake")
    /\ Group(r, groups[r][at[r]]) \in dirs
    /\ UNCHANGED at
    /\ within' = [within EXCEPT ![r][groups[r][at[r]]] = name[r]]
    /\ UNCHANGED <<options, mpid, name, cpid, child, others, foreign, groupfs>>

\* The directory is still there.  A child that has died is not moved any more.
attach_cgroup(r) ==
    /\ pc[r] = "attach" /\ Group(r, groups[r][at[r]]) \in dirs
    /\ IF at[r] < Len(groups[r])
       THEN Goes(r, "attach", "create") /\ at' = [at EXCEPT ![r] = @ + 1]
       ELSE Goes(r, "attach", "wake") /\ UNCHANGED at
    /\ within' = IF Lives(r)
                 THEN [within EXCEPT ![r][groups[r][at[r]]] = name[r]] ELSE within
    /\ UNCHANGED <<options, mpid, name, cpid, child, others, foreign, groupfs>>

Step(r, from, to) ==
    /\ Goes(r, from, to)
    /\ UNCHANGED <<options, at, mpid, name, container, foreign, groupfs>>

Exit(r, how) ==
    /\ pc' = [pc EXCEPT ![r] = how]
    /\ mpid' = [mpid EXCEPT ![r] = NoPid]
    /\ at' = [at EXCEPT ![r] = 1]

ExitAt(r, from, how) ==
    /\ pc[r] = from
    /\ Exit(r, how)
    /\ UNCHANGED <<options, name, container, foreign, groupfs>>

\* Somebody has removed the directory in between.
AttachFails(r) == ExitAt(r, "attach", "dead") /\ Group(r, groups[r][at[r]]) \notin dirs

sync_wake_child(r) == Step(r, "wake", "loop")

\* A death of the child, a hangup or a signal.
LoopEnds(r) == Step(r, "loop", "kill")

\* The end of a container's first process; with a pid namespace of its own it is
\* the end of all of them.
ChildEnds(r, how) ==
    /\ child' = [child EXCEPT ![r] = how]
    /\ others' = IF pidns[r] THEN [others EXCEPT ![r] = FALSE] ELSE others

Whose(p) == {r \in Runs : Child(r) /\ cpid[r] = p}

\* kill() takes a pid, and whoever has it begins to end.
kill(r) ==
    /\ Goes(r, "kill", "wait")
    /\ foreign' = foreign \ {cpid[r]}
    /\ child' = [q \in Runs |-> IF q \in Whose(cpid[r]) /\ Lives(q) THEN "dying" ELSE child[q]]
    /\ UNCHANGED <<options, at, mpid, name, cpid, others, within, groupfs>>

\* Mutant: the child is killed once more after waitid().
WaitThenKill(r) ==
    /\ child[r] = "zombie"
    /\ Goes(r, "wait", "kill")
    /\ child' = [child EXCEPT ![r] = "gone"]
    /\ at' = [at EXCEPT ![r] = 1]
    /\ UNCHANGED <<options, mpid, name, cpid, others, within, foreign, groupfs>>

\* Mutant: waitid() with WNOHANG, so that it does not wait.
WaitNoHang(r) ==
    /\ Goes(r, "wait", "clean")
    /\ child' = [child EXCEPT ![r] = IF @ = "zombie" THEN "gone" ELSE @]
    /\ at' = [at EXCEPT ![r] = 1]
    /\ UNCHANGED <<options, mpid, name, cpid, others, within, foreign, groupfs>>

\* waitid(): from here on the pid of the child is free.
waitid(r) ==
    /\ child[r] = "zombie"
    /\ Goes(r, "wait", "clean")
    /\ child' = [child EXCEPT ![r] = "gone"]
    /\ at' = [at EXCEPT ![r] = 1]
    /\ UNCHANGED <<options, mpid, name, cpid, others, within, foreign, groupfs>>

\* The group is there and has no process of pflask's containers in it.
CanRemove(r) ==
    /\ pc[r] = "clean"
    /\ LET h == groups[r][at[r]] IN Group(r, h) \in dirs /\ Members(h, name[r]) = {}

Removes(g) ==
    /\ dirs' = dirs \ {g}
    /\ touched' = touched \ {g}

\* Mutant: the first group only.
DestroyFirst(r) ==
    /\ CanRemove(r)
    /\ Exit(r, "done")
    /\ Removes(Group(r, groups[r][at[r]]))
    /\ UNCHANGED <<options, name, container, foreign>>

\* rmdir() of the next one in the list.  What others had put in it may be gone.
destroy_cgroup(r) ==
    /\ CanRemove(r)
    /\ IF at[r] < Len(groups[r])
       THEN at' = [at EXCEPT ![r] = @ + 1] /\ UNCHANGED <<pc, mpid>>
       ELSE Exit(r, "done")
    /\ Removes(Group(r, groups[r][at[r]]))
    /\ UNCHANGED <<options, name, container, foreign>>

\* It is not there, or not empty.
DestroyFails(r) ==
    /\ ExitAt(r, "clean", "unclean")
    /\ CanRemove(r) => Group(r, groups[r][at[r]]) \in touched

\* A failed call elsewhere, or a signal: nothing is cleaned up.
MainDies(r) ==
    /\ Main(r)
    /\ Exit(r, "dead")
    /\ UNCHANGED <<options, name, container, foreign, groupfs>>

-----------------------------------------------------------------------------
(* The container and the rest of the host.                                 *)

\* Once it has been let go the container starts processes, in its own groups.
ChildForks(r) ==
    /\ child[r] = "alive" /\ pc[r] \in {"loop", "kill"}
    /\ others' = [others EXCEPT ![r] = TRUE]
    /\ UNCHANGED <<options, pc, at, mpid, name, cpid, child, within, foreign, groupfs>>

ChildExits(r) ==
    /\ Lives(r) /\ Main(r)
    /\ ChildEnds(r, "zombie")
    /\ UNCHANGED <<options, pc, at, mpid, name, cpid, within, foreign, groupfs>>

\* The child gets SIGKILL when its parent dies, and init waits for it.
OrphanEnds(r) ==
    /\ ~Main(r) /\ Child(r)
    /\ ChildEnds(r, "gone")
    /\ UNCHANGED <<options, pc, at, mpid, name, cpid, within, foreign, groupfs>>

OthersEnd(r) ==
    /\ others[r]
    /\ others' = [others EXCEPT ![r] = FALSE]
    /\ UNCHANGED <<options, pc, at, mpid, name, cpid, child, within, foreign, groupfs>>

OtherProcesses ==
    /\ \E p \in Pids :
        \/ Cardinality(foreign) < MaxForeign /\ Free(p) /\ foreign' = foreign \cup {p}
        \/ p \in foreign /\ foreign' = foreign \ {p}
    /\ UNCHANGED <<options, pc, at, mpid, name, container, groupfs>>

\* The container, or another program, makes a group inside of one of pflask's or
\* puts a process in it, or a program removes it, which can be done to an empty one.
OthersTouch ==
    /\ Cardinality(touched) < MaxTouched
    /\ \E g \in dirs :
        /\ touched' = touched \cup {g}
        /\ \/ dirs' = dirs
           \/ Members(g[1], g[2]) = {} /\ dirs' = dirs \ {g}
    /\ UNCHANGED <<options, pc, at, mpid, name, container, foreign>>

-----------------------------------------------------------------------------
MainWorks(r) ==
    \/ do_daemonize(r) \/ do_clone(r) \/ create_cgroup(r) \/ attach_cgroup(r) \/ AttachFails(r)
    \/ sync_wake_child(r) \/ kill(r) \/ waitid(r) \/ destroy_cgroup(r) \/ DestroyFails(r)

RunNext(r) ==
    \/ cgroup_add(r) \/ MainWorks(r) \/ LoopEnds(r) \/ MainDies(r)
    \/ ChildForks(r) \/ ChildExits(r) \/ OrphanEnds(r) \/ OthersEnd(r)

Next == (\E r \in Runs : RunNext(r)) \/ OtherProcesses \/ OthersTouch

Spec == Init /\ [][Next]_vars

-----------------------------------------------------------------------------
(* Properties.                                                             *)

\* Every variable has its type.
TypeOK ==
    /\ groups \in [Runs -> Lists] /\ detach \in [Runs -> BOOLEAN] /\ pidns \in [Runs -> BOOLEAN]
    /\ pc \in [Runs -> {"start", "named", "clone", "create", "attach", "wake", "loop", "kill",
                       "wait", "clean", "done", "unclean", "dead"}]
    /\ at \in [Runs -> Nat \ {0}] /\ \A r \in Runs : at[r] <= Len(groups[r])
    /\ mpid \in [Runs -> Pids \cup {NoPid}] /\ name \in [Runs -> Pids \cup {NoPid}]
    /\ cpid \in [Runs -> Pids \cup {NoPid}]
    /\ child \in [Runs -> {"none", "alive", "dying", "zombie", "gone"}]
    /\ others \in [Runs -> BOOLEAN]
    /\ within \in [Runs -> [Hierarchies -> Pids \cup {NoPid}]]
    /\ foreign \subseteq Pids
    /\ dirs \subseteq Hierarchies \X Pids /\ touched \subseteq Hierarchies \X Pids

\* From the moment the container may run its command until it has ended it is in
\* every group it was to be in, or in one inside of it, and these are there: neither
\* another run of the same name nor another program takes them away, no failed or
\* slow setup lets it run outside of them (cgroup.c:66-73, pflask.c:289-303).
Confined ==
    \A r \in Runs : (Lives(r) \/ others[r]) /\ pc[r] \in {"loop", "kill", "wait", "clean"} =>
        \A i \in DOMAIN groups[r] :
            within[r][groups[r][i]] = name[r] /\ Group(r, groups[r][i]) \in dirs

\* When the main process comes to kill the pid of its child that is its child
\* still, alive or not, however often pids were reused: nobody else is hit
\* (pflask.c:312-314).
AimedAtOwnChild ==
    \A r \in Runs : pc[r] = "kill" =>
        /\ Whose(cpid[r]) = {r} /\ cpid[r] \notin foreign
        /\ \A q \in Runs : mpid[q] # cpid[r]

\* A run that ends well leaves none of its groups, but for one that another run
\* of the same name has made, or found, again (cgroup.c:75-81).
NoneLeft ==
    \A r \in Runs : pc[r] = "done" =>
        \A i \in DOMAIN groups[r] : Group(r, groups[r][i]) \in dirs =>
            \E q \in Runs \ {r} : name[q] = name[r]

Distinct(s) == \A i, j \in DOMAIN s : i # j => s[i] # s[j]

\* The removal of a run's groups fails for these reasons only: processes that survive
\* a container without a pid namespace, another run of the same name, two controllers
\* in one hierarchy, or a group of the run's that the container or another program
\* has touched.  A container of its own pid namespace is over when it is reaped, and
\* leaves nothing behind that keeps rmdir() from it (cgroup.c:119-129,
\* pflask.c:312-337).
CleanFailsOnlyFor ==
    \A r \in Runs : pc[r] = "unclean" =>
        \/ ~pidns[r]
        \/ \E q \in Runs \ {r} : name[q] = name[r]
        \/ ~Distinct(groups[r])
        \/ \E i \in DOMAIN groups[r] : Group(r, groups[r][i]) \in touched
=============================================================================
