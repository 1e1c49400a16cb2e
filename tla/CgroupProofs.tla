---------------------------- MODULE CgroupProofs ----------------------------
(***************************************************************************)
(* The control groups of any number of pflask runs, with any pids and any  *)
(* lists of groups: what MCCgroup checks of two runs, as theorems of the   *)
(* specification.                                                          *)
(***************************************************************************)
EXTENDS Cgroup, SequenceTheorems, TLAPS

Started == {"create", "attach", "wake", "loop", "kill", "wait"}

Unstarted == {"start", "named", "clone"}

\* No two processes that are there have one pid.
PidInv ==
    /\ \A r \in Runs : Main(r) => /\ mpid[r] \notin foreign
                                  /\ \A q \in Runs : mpid[q] = mpid[r] => q = r
    /\ \A r \in Runs : Child(r) => /\ cpid[r] \in Pids \ foreign
                                   /\ \A q \in Runs : mpid[q] # cpid[r]
                                   /\ \A q \in Runs : Child(q) /\ cpid[q] = cpid[r] => q = r

\* Where the main process is says what there is of the container, and under which
\* names.
Stage(r) ==
    /\ Main(r) <=> pc[r] \notin {"start", "done", "unclean", "dead"}
    /\ pc[r] = "start" <=> name[r] = NoPid
    /\ pc[r] \in Unstarted => child[r] = "none" /\ at[r] = 1
    /\ pc[r] \in Started => Child(r)
    /\ pc[r] \in {"clean", "done", "unclean"} => child[r] = "gone"
    /\ pc[r] \in Unstarted \cup {"create", "attach", "wake"} => ~others[r]
    /\ pidns[r] /\ child[r] \in {"zombie", "gone"} => ~others[r]
    /\ \A h \in Hierarchies : within[r][h] \in {NoPid, name[r]}

StageInv == \A r \in Runs : Stage(r)

\* The main process is through with the group at i: before the container is let go
\* with those earlier in the list than its place, then with all.
Through(r, i) == pc[r] \in {"create", "attach"} => i < at[r]

\* The container is in every group its main process is through with, which keeps
\* the group from being removed.
Held(r) ==
    (Lives(r) \/ others[r]) /\ pc[r] \in Started \cup {"clean"} =>
        \A i \in DOMAIN groups[r] : Through(r, i) =>
            within[r][groups[r][i]] = name[r] /\ Group(r, groups[r][i]) \in dirs

\* Another run has the name of run r.
Shared(r) == \E q \in Runs \ {r} : name[q] = name[r]

\* What destroy_cgroup() is through with is gone, unless another run made it.
Removed(r) ==
    ~Shared(r) => \A i \in DOMAIN groups[r] :
        pc[r] = "done" \/ (pc[r] = "clean" /\ i < at[r]) => Group(r, groups[r][i]) \notin dirs

\* Whether the group at i of the list of r is one that create_cgroup() has made and
\* destroy_cgroup() has not come to.
Kept(r, i) ==
    \/ pc[r] \in Started /\ (Through(r, i) \/ (pc[r] = "attach" /\ i = at[r]))
    \/ pc[r] = "clean" /\ Distinct(groups[r]) /\ i >= at[r]

\* What create_cgroup() has made is there until destroy_cgroup() comes to it, unless
\* others have touched it.
Made(r) ==
    ~Shared(r) => \A i \in DOMAIN groups[r] :
        Kept(r, i) => Group(r, groups[r][i]) \in dirs \cup touched

HeldInv    == \A r \in Runs : Held(r)
RemovedInv == \A r \in Runs : Removed(r)
MadeInv    == \A r \in Runs : Made(r)

IInv ==
    /\ TypeOK /\ PidInv /\ StageInv
    /\ HeldInv /\ RemovedInv /\ MadeInv
    /\ CleanFailsOnlyFor

-----------------------------------------------------------------------------
(* The types.                                                              *)

LEMMA GroupsType ==
    ASSUME TypeOK, NEW r \in Runs
    PROVE  /\ Len(groups[r]) \in Nat \ {0} /\ DOMAIN groups[r] = 1 .. Len(groups[r])
           /\ at[r] \in 1 .. Len(groups[r])
           /\ \A i \in DOMAIN groups[r] : groups[r][i] \in Hierarchies
<1>1. groups[r] \in Seq(Hierarchies) /\ groups[r] # <<>>
    BY CgroupAssumption DEF TypeOK
<1>2. Len(groups[r]) \in Nat \ {0} /\ DOMAIN groups[r] = 1 .. Len(groups[r])
    BY <1>1, EmptySeq, LenProperties
<1>3. \A i \in DOMAIN groups[r] : groups[r][i] \in Hierarchies
    BY <1>1, <1>2, ElementOfSeq
<1>4. at[r] \in 1 .. Len(groups[r])
    BY <1>2 DEF TypeOK
<1> QED
    BY <1>2, <1>3, <1>4

LEMMA TypeInit == Init => TypeOK
<1> SUFFICES ASSUME Init PROVE TypeOK
    OBVIOUS
<1>1. ASSUME NEW r \in Runs
      PROVE  at[r] \in Nat \ {0} /\ at[r] <= Len(groups[r])
    <2>1. groups[r] \in Seq(Hierarchies) /\ groups[r] # <<>> /\ at[r] = 1
        BY CgroupAssumption DEF Init
    <2>2. Len(groups[r]) \in Nat \ {0} /\ DOMAIN groups[r] = 1 .. Len(groups[r])
        BY <2>1, EmptySeq, LenProperties
    <2> QED
        BY <2>1, <2>2
<1> QED
    BY <1>1 DEF Init, TypeOK

LEMMA TypeStep == TypeOK /\ StageInv /\ [Next]_vars => TypeOK'
<1> SUFFICES ASSUME TypeOK, StageInv, [Next]_vars PROVE TypeOK'
    OBVIOUS
<1> USE DEF options, container, groupfs, Goes
<1>1. ASSUME NEW r \in Runs
      PROVE  /\ Len(groups[r]) \in Nat \ {0} /\ DOMAIN groups[r] = 1 .. Len(groups[r])
             /\ at[r] \in 1 .. Len(groups[r])
             /\ groups[r][at[r]] \in Hierarchies
    BY GroupsType
<1>2. ASSUME NEW r \in Runs, NEW i \in 1 .. Len(groups[r]), UNCHANGED groups,
             at' = [at EXCEPT ![r] = i]
      PROVE  at' \in [Runs -> Nat \ {0}] /\ \A q \in Runs : at'[q] <= Len(groups'[q])
    <2>1. at \in [Runs -> Nat \ {0}] /\ \A q \in Runs : at[q] <= Len(groups[q])
        BY DEF TypeOK
    <2>2. i \in Nat \ {0} /\ i <= Len(groups[r])
        BY <1>1
    <2> QED
        BY <1>2, <2>1, <2>2
<1>3. ASSUME NEW r \in Runs, cgroup_add(r) \/ do_clone(r)
       PROVE  TypeOK'
    <2>1. CASE cgroup_add(r)
        <3>1. pc' = [pc EXCEPT ![r] = "named"] \/ pc' = [pc EXCEPT ![r] = "clone"]
            BY <2>1 DEF cgroup_add
        <3> QED
            BY <2>1, <3>1 DEF TypeOK, cgroup_add
    <2>2. CASE do_clone(r)
        BY <2>2 DEF TypeOK, do_clone
    <2> QED
        BY <1>3, <2>1, <2>2
<1>4. ASSUME NEW r \in Runs, do_daemonize(r)
       PROVE  TypeOK'
    <2>1. mpid[r] \in Pids
        BY <1>4 DEF TypeOK, StageInv, Stage, Main, do_daemonize
    <2> QED
        BY <1>4, <2>1 DEF TypeOK, do_daemonize
<1>5. ASSUME NEW r \in Runs, create_cgroup(r)
      PROVE  TypeOK'
    <2>1. name[r] \in Pids
        BY <1>5 DEF TypeOK, StageInv, Stage, create_cgroup
    <2>2. dirs' \subseteq Hierarchies \X Pids
        BY <1>1, <1>5, <2>1 DEF TypeOK, create_cgroup, Group
    <2> QED
        BY <1>5, <2>2 DEF TypeOK, create_cgroup
<1>6. ASSUME NEW r \in Runs, attach_cgroup(r)
      PROVE  TypeOK'
    <2>1. within' \in [Runs -> [Hierarchies -> Pids \cup {NoPid}]]
        BY <1>1, <1>6 DEF TypeOK, attach_cgroup
    <2>2. at' \in [Runs -> Nat \ {0}] /\ \A q \in Runs : at'[q] <= Len(groups'[q])
        <3>1. CASE at[r] < Len(groups[r])
            <4>1. at[r] + 1 \in 1 .. Len(groups[r]) /\ at' = [at EXCEPT ![r] = at[r] + 1]
                BY <1>1, <1>6, <3>1 DEF attach_cgroup
            <4> QED
                BY <1>2, <1>6, <4>1 DEF attach_cgroup
        <3>2. CASE ~(at[r] < Len(groups[r]))
            BY <1>6, <3>2 DEF TypeOK, attach_cgroup
        <3> QED
            BY <3>1, <3>2
    <2> QED
        BY <1>6, <2>1, <2>2 DEF TypeOK, attach_cgroup
<1>7. ASSUME NEW r \in Runs, sync_wake_child(r) \/ LoopEnds(r) \/ kill(r)
      PROVE  TypeOK'
    BY <1>7 DEF TypeOK, sync_wake_child, LoopEnds, Step, kill
<1>8. ASSUME NEW r \in Runs, waitid(r)
      PROVE  TypeOK'
    BY <1>1, <1>8 DEF TypeOK, waitid
<1>9. ASSUME NEW r \in Runs, NEW how \in {"done", "unclean", "dead"}, Exit(r, how),
             UNCHANGED <<options, name, container, foreign>>,
             dirs' \subseteq dirs, touched' \subseteq touched
      PROVE  TypeOK'
    BY <1>1, <1>9 DEF TypeOK, Exit
<1>10. ASSUME NEW r \in Runs, AttachFails(r) \/ DestroyFails(r) \/ MainDies(r)
      PROVE  TypeOK'
    BY <1>9, <1>10 DEF AttachFails, DestroyFails, ExitAt, MainDies
<1>11. ASSUME NEW r \in Runs, destroy_cgroup(r)
      PROVE  TypeOK'
    <2>1. CASE at[r] < Len(groups[r])
        <3>1. at' \in [Runs -> Nat \ {0}] /\ \A q \in Runs : at'[q] <= Len(groups'[q])
            <4>1. at[r] + 1 \in 1 .. Len(groups[r]) /\ at' = [at EXCEPT ![r] = at[r] + 1]
                BY <1>1, <1>11, <2>1 DEF destroy_cgroup
            <4> QED
                BY <1>2, <1>11, <4>1 DEF destroy_cgroup
        <3> QED
            BY <1>11, <2>1, <3>1 DEF TypeOK, destroy_cgroup, Removes
    <2>2. CASE ~(at[r] < Len(groups[r]))
        BY <1>9, <1>11, <2>2 DEF destroy_cgroup, Removes
    <2> QED
        BY <2>1, <2>2
<1>12. ASSUME NEW r \in Runs, ChildForks(r) \/ ChildExits(r) \/ OrphanEnds(r) \/ OthersEnd(r)
       PROVE  TypeOK'
    BY <1>12 DEF TypeOK, ChildForks, ChildExits, OrphanEnds, OthersEnd, ChildEnds
<1>13. CASE OtherProcesses \/ OthersTouch \/ UNCHANGED vars
    BY <1>13 DEF TypeOK, OtherProcesses, OthersTouch, vars
<1> QED
    BY <1>5, <1>6, <1>7, <1>8, <1>10, <1>11, <1>12, <1>13, <1>3, <1>4
        DEF Next, RunNext, MainWorks

-----------------------------------------------------------------------------
(* The pids.                                                               *)

LEMMA PidInit == Init => PidInv /\ StageInv
BY DEF Init, PidInv, StageInv, Stage, Main, Child, Lives, Unstarted, Started

LEMMA PidStep == TypeOK /\ PidInv /\ StageInv /\ [Next]_vars => PidInv'
<1> SUFFICES ASSUME TypeOK, PidInv, StageInv, [Next]_vars PROVE PidInv'
    OBVIOUS
<1> USE CgroupAssumption DEF options, container, groupfs, Goes, Main, Child, Lives
<1>1. /\ mpid \in [Runs -> Pids \cup {NoPid}] /\ cpid \in [Runs -> Pids \cup {NoPid}]
      /\ child \in [Runs -> {"none", "alive", "dying", "zombie", "gone"}]
      /\ foreign \subseteq Pids
    BY DEF TypeOK
\* Nobody gets a pid.
<1>2. ASSUME \A q \in Runs : /\ mpid'[q] \in {mpid[q], NoPid} /\ cpid'[q] = cpid[q]
                             /\ Child(q)' => Child(q),
             foreign' \subseteq foreign
      PROVE  PidInv'
    BY <1>1, <1>2 DEF PidInv
<1>3. ASSUME NEW r \in Runs, cgroup_add(r)
      PROVE  PidInv'
    BY <1>1, <1>3 DEF PidInv, cgroup_add, Free
<1>4. ASSUME NEW r \in Runs, do_daemonize(r)
      PROVE  PidInv'
    BY <1>1, <1>4 DEF PidInv, StageInv, Stage, do_daemonize, Free
<1>5. ASSUME NEW r \in Runs, do_clone(r)
      PROVE  PidInv'
    BY <1>1, <1>5 DEF PidInv, do_clone, Free
<1>6. ASSUME NEW r \in Runs, create_cgroup(r) \/ attach_cgroup(r) \/ sync_wake_child(r)
                             \/ LoopEnds(r) \/ ChildForks(r) \/ OthersEnd(r)
      PROVE  PidInv'
    BY <1>2, <1>6 DEF create_cgroup, attach_cgroup, sync_wake_child, LoopEnds, Step,
        ChildForks, OthersEnd
<1>7. ASSUME NEW r \in Runs, kill(r)
      PROVE  PidInv'
    BY <1>1, <1>2, <1>7 DEF kill
<1>8. ASSUME NEW r \in Runs, waitid(r) \/ ChildExits(r) \/ OrphanEnds(r)
      PROVE  PidInv'
    BY <1>1, <1>2, <1>8 DEF waitid, ChildExits, OrphanEnds, ChildEnds
<1>9. ASSUME NEW r \in Runs, AttachFails(r) \/ destroy_cgroup(r) \/ DestroyFails(r) \/ MainDies(r)
      PROVE  PidInv'
    BY <1>1, <1>2, <1>9 DEF AttachFails, destroy_cgroup, DestroyFails, MainDies, ExitAt, Exit
<1>10. CASE OtherProcesses
    BY <1>1, <1>10 DEF PidInv, OtherProcesses, Free
<1>11. CASE OthersTouch \/ UNCHANGED vars
    BY <1>2, <1>11 DEF OthersTouch, vars
<1> QED
    BY <1>3, <1>4, <1>5, <1>6, <1>7, <1>8, <1>9, <1>10, <1>11 DEF Next, RunNext, MainWorks

LEMMA StageStep == TypeOK /\ PidInv /\ StageInv /\ [Next]_vars => StageInv'
<1> SUFFICES ASSUME TypeOK, PidInv, StageInv, [Next]_vars, NEW d \in Runs
             PROVE  Stage(d)'
    BY DEF StageInv
<1> USE CgroupAssumption DEF options, container, groupfs, Goes, Main, Child, Lives, Stage, Started,
        Unstarted
<1>1. /\ pc \in [Runs -> {"start", "named", "clone", "create", "attach", "wake", "loop", "kill",
                         "wait", "clean", "done", "unclean", "dead"}]
      /\ mpid \in [Runs -> Pids \cup {NoPid}] /\ name \in [Runs -> Pids \cup {NoPid}]
      /\ cpid \in [Runs -> Pids \cup {NoPid}] /\ at \in [Runs -> Nat \ {0}]
      /\ child \in [Runs -> {"none", "alive", "dying", "zombie", "gone"}]
      /\ others \in [Runs -> BOOLEAN]
      /\ within \in [Runs -> [Hierarchies -> Pids \cup {NoPid}]]
    BY DEF TypeOK
<1>2. Stage(d)
    BY DEF StageInv
\* Another run acts, which can do no more to this one than begin to end its child.
<1>3. ASSUME UNCHANGED <<pc[d], mpid[d], name[d], at[d], pidns[d], others[d], within[d]>>,
             child'[d] = child[d] \/ (Lives(d) /\ child'[d] = "dying")
      PROVE  Stage(d)'
    BY <1>2, <1>3
<1>4. ASSUME NEW r \in Runs, cgroup_add(r) \/ do_daemonize(r) \/ do_clone(r)
      PROVE  Stage(d)'
    <2>1. CASE r = d
        BY <1>1, <1>2, <1>4, <2>1 DEF cgroup_add, do_daemonize, do_clone
    <2>2. CASE r # d
        BY <1>1, <1>3, <1>4, <2>2 DEF cgroup_add, do_daemonize, do_clone
    <2> QED
        BY <2>1, <2>2
<1>5. ASSUME NEW r \in Runs, create_cgroup(r) \/ sync_wake_child(r) \/ LoopEnds(r)
      PROVE  Stage(d)'
    BY <1>1, <1>2, <1>5 DEF create_cgroup, sync_wake_child, LoopEnds, Step
<1>6. ASSUME NEW r \in Runs, attach_cgroup(r)
      PROVE  Stage(d)'
    <2>1. CASE r = d
        <3>1. \A h \in Hierarchies : within'[d][h] \in {within[d][h], name[d]}
            BY <1>1, <1>6, <2>1 DEF attach_cgroup
        <3>2. pc'[d] \in {"create", "wake"} /\ pc[d] = "attach"
            BY <1>1, <1>6, <2>1 DEF attach_cgroup
        <3> QED
            BY <1>2, <1>6, <2>1, <3>1, <3>2 DEF attach_cgroup
    <2>2. CASE r # d
        <3>1. UNCHANGED <<pc[d], at[d], within[d]>>
            BY <1>1, <1>6, <2>2 DEF attach_cgroup
        <3> QED
            BY <1>3, <1>6, <3>1 DEF attach_cgroup
    <2> QED
        BY <2>1, <2>2
<1>7. ASSUME NEW r \in Runs, kill(r)
      PROVE  Stage(d)'
    BY <1>1, <1>2, <1>7 DEF kill
<1>8. ASSUME NEW r \in Runs, waitid(r)
      PROVE  Stage(d)'
    BY <1>1, <1>2, <1>8 DEF waitid
<1>9. ASSUME NEW r \in Runs, NEW how \in {"unclean", "dead", "done"}, Exit(r, how), Main(r),
             how \in {"unclean", "done"} => pc[r] = "clean",
             UNCHANGED <<options, name, container>>
      PROVE  Stage(d)'
    BY <1>1, <1>2, <1>9 DEF Exit
<1>10. ASSUME NEW r \in Runs, AttachFails(r) \/ DestroyFails(r) \/ MainDies(r)
       PROVE  Stage(d)'
    <2>1. Stage(r)
        BY DEF StageInv
    <2> QED
        BY <1>9, <1>10, <2>1 DEF AttachFails, DestroyFails, ExitAt, MainDies
<1>11. ASSUME NEW r \in Runs, destroy_cgroup(r)
       PROVE  Stage(d)'
    <2>1. Stage(r) /\ pc[r] = "clean"
        BY <1>11 DEF StageInv, destroy_cgroup, CanRemove
    <2>2. CASE at[r] < Len(groups[r])
        BY <1>1, <1>2, <1>11, <2>1, <2>2 DEF destroy_cgroup
    <2>3. CASE ~(at[r] < Len(groups[r]))
        BY <1>9, <1>11, <2>1, <2>3 DEF destroy_cgroup
    <2> QED
        BY <2>2, <2>3
<1>12. ASSUME NEW r \in Runs, ChildForks(r) \/ OthersEnd(r)
       PROVE  Stage(d)'
    BY <1>1, <1>2, <1>12 DEF ChildForks, OthersEnd
<1>13. ASSUME NEW r \in Runs, ChildExits(r) \/ OrphanEnds(r)
       PROVE  Stage(d)'
    <2>1. Stage(r)
        BY DEF StageInv
    <2> QED
        BY <1>1, <1>2, <1>13, <2>1 DEF ChildExits, OrphanEnds, ChildEnds
<1>14. CASE OtherProcesses \/ OthersTouch \/ UNCHANGED vars
    BY <1>3, <1>14 DEF OtherProcesses, OthersTouch, vars
<1> QED
    BY <1>4, <1>5, <1>6, <1>7, <1>8, <1>10, <1>11, <1>12, <1>13, <1>14
        DEF Next, RunNext, MainWorks

\* The child of a run that comes to kill it is there, and nobody else has its pid.
LEMMA Aimed == PidInv /\ StageInv => AimedAtOwnChild
BY DEF PidInv, StageInv, Stage, Started, AimedAtOwnChild, Whose

-----------------------------------------------------------------------------
(* The groups.                                                             *)

LEMMA HeldInit == Init => HeldInv
BY DEF Init, HeldInv, Held, Started

\* Two things only take a group from a run that is not through: its own steps, and
\* a removal, for which the group has to be empty.
LEMMA HeldStep == TypeOK /\ StageInv /\ HeldInv /\ [Next]_vars => HeldInv'
<1> SUFFICES ASSUME TypeOK, StageInv, HeldInv, [Next]_vars, NEW d \in Runs
             PROVE  Held(d)'
    BY DEF HeldInv
<1> USE DEF options, container, groupfs, Goes, Started, Through, Group
<1>1. /\ pc \in [Runs -> {"start", "named", "clone", "create", "attach", "wake", "loop", "kill",
                         "wait", "clean", "done", "unclean", "dead"}]
      /\ at \in [Runs -> Nat \ {0}] /\ name \in [Runs -> Pids \cup {NoPid}]
      /\ child \in [Runs -> {"none", "alive", "dying", "zombie", "gone"}]
      /\ others \in [Runs -> BOOLEAN]
      /\ within \in [Runs -> [Hierarchies -> Pids \cup {NoPid}]]
    BY DEF TypeOK
<1>2. /\ Held(d) /\ Stage(d)
      /\ Len(groups[d]) \in Nat \ {0} /\ DOMAIN groups[d] = 1 .. Len(groups[d])
      /\ at[d] \in 1 .. Len(groups[d])
      /\ \A i \in DOMAIN groups[d] : groups[d][i] \in Hierarchies
    BY GroupsType DEF HeldInv, StageInv
<1>3. ASSUME UNCHANGED <<groups, name[d], within[d]>>, dirs \subseteq dirs',
             Lives(d)' \/ others'[d] => Lives(d) \/ others[d],
             pc'[d] \in Started \cup {"clean"} =>
                 /\ pc[d] \in Started \cup {"clean"}
                 /\ \A i \in DOMAIN groups[d] : Through(d, i)' => Through(d, i)
      PROVE  Held(d)'
    BY <1>2, <1>3 DEF Held
<1>4. ASSUME NEW r \in Runs, cgroup_add(r) \/ do_daemonize(r)
      PROVE  Held(d)'
    <2>1. CASE r = d
        <3>1. pc'[d] \in {"named", "clone"}
            BY <1>1, <1>4, <2>1 DEF cgroup_add, do_daemonize
        <3> QED
            BY <3>1 DEF Held
    <2>2. CASE r # d
        BY <1>1, <1>3, <1>4, <2>2 DEF cgroup_add, do_daemonize, Lives
    <2> QED
        BY <2>1, <2>2
<1>5. ASSUME NEW r \in Runs, do_clone(r)
      PROVE  Held(d)'
    <2>1. CASE r = d
        <3>1. at'[d] = 1 /\ pc'[d] = "create"
            BY <1>1, <1>2, <1>5, <2>1 DEF do_clone, Stage, Unstarted
        <3> QED
            BY <1>2, <1>5, <3>1 DEF Held, do_clone
    <2>2. CASE r # d
        BY <1>1, <1>3, <1>5, <2>2 DEF do_clone, Lives
    <2> QED
        BY <2>1, <2>2
<1>6. ASSUME NEW r \in Runs, create_cgroup(r) \/ sync_wake_child(r) \/ LoopEnds(r)
      PROVE  Held(d)'
    <2>1. CASE create_cgroup(r)
        BY <1>1, <1>3, <2>1 DEF create_cgroup, Lives
    <2>2. CASE sync_wake_child(r) \/ LoopEnds(r)
        BY <1>1, <1>3, <2>2 DEF sync_wake_child, LoopEnds, Step, Lives
    <2> QED
        BY <1>6, <2>1, <2>2
<1>7. ASSUME NEW r \in Runs, attach_cgroup(r)
      PROVE  Held(d)'
    <2>1. CASE r = d /\ Lives(d)
        <3>1. /\ within'[d] = [within[d] EXCEPT ![groups[d][at[d]]] = name[d]]
              /\ UNCHANGED <<groups, name, dirs>> /\ pc[d] = "attach"
              /\ Group(d, groups[d][at[d]]) \in dirs
            BY <1>1, <1>7, <2>1 DEF attach_cgroup
        <3>2. \A i \in DOMAIN groups[d] : Through(d, i)' => i <= at[d]
            BY <1>1, <1>2, <1>7, <2>1 DEF attach_cgroup
        <3>3. ASSUME NEW i \in DOMAIN groups[d], i < at[d]
              PROVE  within[d][groups[d][i]] = name[d] /\ Group(d, groups[d][i]) \in dirs
            BY <1>2, <2>1, <3>1, <3>3 DEF Held
        <3>4. ASSUME NEW i \in DOMAIN groups[d], i <= at[d]
              PROVE  within'[d][groups[d][i]] = name[d] /\ Group(d, groups[d][i]) \in dirs
            <4>1. groups[d][i] \in Hierarchies /\ within[d] \in [Hierarchies -> Pids \cup {NoPid}]
                BY <1>1, <1>2
            <4>2. CASE groups[d][i] = groups[d][at[d]]
                BY <3>1, <4>1, <4>2
            <4>3. CASE groups[d][i] # groups[d][at[d]]
                <5>1. i < at[d]
                    BY <1>2, <3>4, <4>3
                <5> QED
                    BY <3>1, <3>3, <4>1, <4>3, <5>1
            <4> QED
                BY <4>2, <4>3
        <3> QED
            BY <3>1, <3>2, <3>4 DEF Held
    <2>2. CASE r = d /\ ~Lives(d)
        BY <1>1, <1>2, <1>7, <2>2 DEF attach_cgroup, Held, Lives, Stage
    <2>3. CASE r # d
        <3>1. UNCHANGED <<pc[d], at[d], within[d]>>
            BY <1>1, <1>7, <2>3 DEF attach_cgroup
        <3> QED
            BY <1>3, <1>7, <3>1 DEF attach_cgroup, Lives
    <2> QED
        BY <2>1, <2>2, <2>3
<1>8. ASSUME NEW r \in Runs, kill(r) \/ waitid(r)
      PROVE  Held(d)'
    BY <1>1, <1>3, <1>8 DEF kill, waitid, Lives
<1>9. ASSUME NEW r \in Runs, NEW how \in {"unclean", "dead", "done"}, Exit(r, how), dirs' = dirs,
             UNCHANGED <<options, name, container>>
      PROVE  Held(d)'
    BY <1>1, <1>3, <1>9 DEF Exit, Lives
<1>10. ASSUME NEW r \in Runs, AttachFails(r) \/ DestroyFails(r) \/ MainDies(r)
       PROVE  Held(d)'
    BY <1>9, <1>10 DEF AttachFails, DestroyFails, ExitAt, MainDies
<1>11. ASSUME NEW r \in Runs, destroy_cgroup(r)
       PROVE  Held(d)'
    <2> DEFINE h == groups[r][at[r]]
    <2>1. /\ Members(h, name[r]) = {} /\ dirs' = dirs \ {Group(r, h)}
          /\ UNCHANGED <<groups, name, within, child, others>> /\ pc[r] = "clean"
        BY <1>11 DEF destroy_cgroup, CanRemove, Removes
    <2>2. pc'[d] \in Started \cup {"clean"} => pc'[d] = pc[d] /\ (d # r => at'[d] = at[d])
        BY <1>1, <1>11 DEF destroy_cgroup, Exit
    <2>3. ASSUME Lives(d) \/ others[d], pc[d] \in Started \cup {"clean"},
                 NEW i \in DOMAIN groups[d], Through(d, i)
          PROVE  within[d][groups[d][i]] = name[d] /\ Group(d, groups[d][i]) \in dirs'
        <3>1. within[d][groups[d][i]] = name[d] /\ Group(d, groups[d][i]) \in dirs
            BY <1>2, <2>3 DEF Held
        <3>2. ASSUME Group(d, groups[d][i]) = Group(r, h)
              PROVE  FALSE
            <4>1. groups[d][i] = h /\ name[d] = name[r]
                BY <3>2
            <4> QED
                BY <2>1, <2>3, <3>1, <4>1 DEF Members
        <3> QED
            BY <2>1, <3>1, <3>2
    <2> QED
        BY <2>1, <2>2, <2>3 DEF Held, Lives
<1>12. ASSUME NEW r \in Runs, ChildForks(r) \/ ChildExits(r) \/ OrphanEnds(r) \/ OthersEnd(r)
       PROVE  Held(d)'
    BY <1>1, <1>3, <1>12 DEF ChildForks, ChildExits, OrphanEnds, OthersEnd, ChildEnds, Lives
<1>13. CASE OtherProcesses \/ UNCHANGED vars
    BY <1>3, <1>13 DEF OtherProcesses, vars, Lives
<1>14. CASE OthersTouch
    <2>1. CASE dirs' = dirs
        BY <1>3, <1>14, <2>1 DEF OthersTouch, Lives
    <2>2. CASE dirs' # dirs
        <3>1. PICK g \in dirs : Members(g[1], g[2]) = {} /\ dirs' = dirs \ {g}
            BY <1>14, <2>2 DEF OthersTouch
        <3>2. UNCHANGED <<groups, name, within, child, others, pc, at>>
            BY <1>14 DEF OthersTouch
        <3>3. ASSUME Lives(d) \/ others[d], pc[d] \in Started \cup {"clean"},
                     NEW i \in DOMAIN groups[d], Through(d, i)
              PROVE  within[d][groups[d][i]] = name[d] /\ Group(d, groups[d][i]) \in dirs'
            <4>1. within[d][groups[d][i]] = name[d] /\ Group(d, groups[d][i]) \in dirs
                BY <1>2, <3>3 DEF Held
            <4>2. d \in Members(groups[d][i], name[d])
                BY <3>3, <4>1 DEF Members
            <4>3. Group(d, groups[d][i]) # g
                BY <3>1, <4>2
            <4> QED
                BY <3>1, <4>1, <4>3
        <3> QED
            BY <3>2, <3>3 DEF Held, Lives
    <2> QED
        BY <2>1, <2>2
<1> QED
    BY <1>4, <1>5, <1>6, <1>7, <1>8, <1>10, <1>11, <1>12, <1>13, <1>14
        DEF Next, RunNext, MainWorks

\* A run that has its name to itself has had it so far.
LEMMA NamesStay ==
    ASSUME TypeOK, StageInv, [Next]_vars
    PROVE  /\ UNCHANGED options
           /\ \A q \in Runs : name[q] # NoPid => name'[q] = name[q]
           /\ \A r \in Runs : name[r] # NoPid /\ Shared(r) => Shared(r)'
<1> USE DEF options, groupfs
<1>1. /\ UNCHANGED options
      /\ \A q \in Runs : name[q] # NoPid => name'[q] = name[q]
    <2>1. ASSUME NEW r \in Runs, cgroup_add(r)
          PROVE  /\ UNCHANGED options
                 /\ \A q \in Runs : name[q] # NoPid => name'[q] = name[q]
        <3>1. name[r] = NoPid
            BY <2>1 DEF cgroup_add, Goes, StageInv, Stage
        <3> QED
            BY <2>1, <3>1 DEF cgroup_add, TypeOK
    <2>2. ASSUME NEW r \in Runs, RunNext(r), ~cgroup_add(r)
          PROVE  UNCHANGED <<options, name>>
        BY <2>2 DEF RunNext, MainWorks, do_daemonize, do_clone, create_cgroup, attach_cgroup,
            AttachFails, sync_wake_child, kill, waitid, destroy_cgroup, DestroyFails, LoopEnds,
            MainDies, ChildForks, ChildExits, OrphanEnds, OthersEnd, ExitAt, Step
    <2>3. CASE OtherProcesses \/ OthersTouch \/ UNCHANGED vars
        BY <2>3 DEF OtherProcesses, OthersTouch, vars
    <2> QED
        BY <2>1, <2>2, <2>3 DEF Next
<1>2. ASSUME NEW r \in Runs, name[r] # NoPid, Shared(r)
      PROVE  Shared(r)'
    BY <1>1, <1>2 DEF Shared
<1> QED
    BY <1>1, <1>2

LEMMA RemovedInit == Init => RemovedInv /\ MadeInv /\ CleanFailsOnlyFor
BY DEF Init, RemovedInv, Removed, MadeInv, Made, Kept, CleanFailsOnlyFor, Started

LEMMA RemovedStep == TypeOK /\ StageInv /\ RemovedInv /\ [Next]_vars => RemovedInv'
<1> SUFFICES ASSUME TypeOK, StageInv, RemovedInv, [Next]_vars, NEW d \in Runs
             PROVE  Removed(d)'
    BY DEF RemovedInv
<1>0. UNCHANGED groups
    BY NamesStay DEF options
<1> SUFFICES ASSUME ~Shared(d)', NEW i \in DOMAIN groups[d],
                    (pc[d] = "done" \/ (pc[d] = "clean" /\ i < at[d]))'
             PROVE  (Group(d, groups[d][i]) \notin dirs)'
    BY <1>0 DEF Removed
<1> USE DEF options, container, groupfs, Goes, Group
<1>1. /\ pc \in [Runs -> {"start", "named", "clone", "create", "attach", "wake", "loop", "kill",
                         "wait", "clean", "done", "unclean", "dead"}]
      /\ at \in [Runs -> Nat \ {0}]
      /\ Len(groups[d]) \in Nat \ {0} /\ DOMAIN groups[d] = 1 .. Len(groups[d])
      /\ at[d] \in 1 .. Len(groups[d])
    BY GroupsType DEF TypeOK
<1>2. CASE pc[d] = "done" \/ (pc[d] = "clean" /\ i < at[d])
    <2>1. name[d] # NoPid /\ name'[d] = name[d] /\ ~Shared(d) /\ UNCHANGED groups
        BY <1>2, NamesStay DEF StageInv, Stage
    <2>2. Group(d, groups[d][i]) \notin dirs
        BY <1>2, <2>1 DEF RemovedInv, Removed
    <2>3. CASE dirs' \subseteq dirs
        BY <2>1, <2>2, <2>3
    <2>4. ASSUME NEW r \in Runs, create_cgroup(r)
          PROVE  Group(d, groups[d][i]) \notin dirs'
        <3>1. r # d /\ name[r] # name[d]
            BY <1>2, <2>1, <2>4 DEF create_cgroup, Shared
        <3> QED
            BY <2>2, <2>4, <3>1 DEF create_cgroup
    <2>5. dirs' \subseteq dirs \/ \E r \in Runs : create_cgroup(r)
        BY DEF Next, RunNext, MainWorks, cgroup_add, do_daemonize, do_clone, attach_cgroup,
            AttachFails, sync_wake_child, kill, waitid, destroy_cgroup, DestroyFails, LoopEnds,
            MainDies, ChildForks, ChildExits, OrphanEnds, OthersEnd, ExitAt, Step,
            OtherProcesses, OthersTouch, vars, Removes
    <2> QED
        BY <2>1, <2>3, <2>4, <2>5
\* The one removal that d itself has just made.
<1>3. CASE ~(pc[d] = "done" \/ (pc[d] = "clean" /\ i < at[d]))
    <2>1. destroy_cgroup(d)
        <3>1. ASSUME NEW r \in Runs, RunNext(r), r # d
              PROVE  UNCHANGED <<pc[d], at[d]>>
            BY <1>1, <3>1 DEF RunNext, MainWorks, cgroup_add, do_daemonize, do_clone,
                create_cgroup, attach_cgroup, AttachFails, sync_wake_child, kill, waitid,
                destroy_cgroup, DestroyFails, LoopEnds, MainDies, ChildForks, ChildExits,
                OrphanEnds, OthersEnd, Exit, ExitAt, Step
        <3>2. ASSUME OtherProcesses \/ OthersTouch \/ UNCHANGED vars
              PROVE  UNCHANGED <<pc, at>>
            BY <3>2 DEF OtherProcesses, OthersTouch, vars
        <3>3. RunNext(d)
            BY <1>3, <3>1, <3>2 DEF Next
        <3>4. pc'[d] \in {"clean", "done"}
            OBVIOUS
        <3> QED
            BY <1>1, <1>3, <3>3, <3>4 DEF RunNext, MainWorks, cgroup_add, do_daemonize,
                do_clone, create_cgroup, attach_cgroup, AttachFails, sync_wake_child, kill,
                waitid, DestroyFails, LoopEnds, MainDies, ChildForks, ChildExits, OrphanEnds,
                OthersEnd, Exit, ExitAt, Step
    <2>2. /\ pc[d] = "clean" /\ UNCHANGED <<groups, name>>
          /\ dirs' = dirs \ {Group(d, groups[d][at[d]])}
        BY <2>1 DEF destroy_cgroup, CanRemove, Removes
    <2>3. i = at[d]
        BY <1>1, <1>3, <2>1, <2>2 DEF destroy_cgroup, Exit
    <2> QED
        BY <2>2, <2>3
<1> QED
    BY <1>2, <1>3

LEMMA MadeStep == TypeOK /\ StageInv /\ MadeInv /\ [Next]_vars => MadeInv'
<1> SUFFICES ASSUME TypeOK, StageInv, MadeInv, [Next]_vars, NEW d \in Runs
             PROVE  Made(d)'
    BY DEF MadeInv
<1> USE DEF options, container, groupfs, Goes, Group, Through, Started, Kept
<1>1. UNCHANGED groups
    BY NamesStay
<1> SUFFICES ASSUME ~Shared(d)', NEW i \in DOMAIN groups[d], Kept(d, i)'
             PROVE  (Group(d, groups[d][i]) \in dirs \cup touched)'
    BY <1>1 DEF Made
<1>2. /\ pc \in [Runs -> {"start", "named", "clone", "create", "attach", "wake", "loop", "kill",
                         "wait", "clean", "done", "unclean", "dead"}]
      /\ at \in [Runs -> Nat \ {0}]
      /\ Len(groups[d]) \in Nat \ {0} /\ DOMAIN groups[d] = 1 .. Len(groups[d])
      /\ at[d] \in 1 .. Len(groups[d])
    BY GroupsType DEF TypeOK
<1>3. ASSUME Kept(d, i)
      PROVE  /\ name'[d] = name[d] /\ ~Shared(d)
             /\ Group(d, groups[d][i]) \in dirs \cup touched
    <2>1. name[d] # NoPid
        BY <1>3 DEF StageInv, Stage
    <2> QED
        BY <1>3, <2>1, NamesStay DEF MadeInv, Made
<1>4. CASE Kept(d, i) /\ dirs \cup touched \subseteq (dirs \cup touched)'
    BY <1>1, <1>3, <1>4
<1>5. ASSUME NEW r \in Runs, cgroup_add(r) \/ do_daemonize(r) \/ do_clone(r)
      PROVE  (Group(d, groups[d][i]) \in dirs \cup touched)'
    <2>1. CASE r = d
        BY <1>2, <1>5, <2>1 DEF cgroup_add, do_daemonize, do_clone, StageInv, Stage, Unstarted
    <2>2. CASE r # d
        BY <1>2, <1>4, <1>5, <2>2 DEF cgroup_add, do_daemonize, do_clone
    <2> QED
        BY <2>1, <2>2
<1>6. ASSUME NEW r \in Runs, create_cgroup(r)
      PROVE  (Group(d, groups[d][i]) \in dirs \cup touched)'
    <2>1. CASE r = d /\ i = at[d]
        BY <1>1, <1>6, <2>1 DEF create_cgroup
    <2>2. CASE r # d \/ i # at[d]
        BY <1>2, <1>4, <1>6, <2>2 DEF create_cgroup
    <2> QED
        BY <2>1, <2>2
<1>7. ASSUME NEW r \in Runs, attach_cgroup(r)
      PROVE  (Group(d, groups[d][i]) \in dirs \cup touched)'
    <2>1. CASE r = d
        BY <1>2, <1>4, <1>7, <2>1 DEF attach_cgroup
    <2>2. CASE r # d
        BY <1>2, <1>4, <1>7, <2>2 DEF attach_cgroup
    <2> QED
        BY <2>1, <2>2
<1>8. ASSUME NEW r \in Runs, sync_wake_child(r) \/ LoopEnds(r) \/ kill(r) \/ waitid(r)
      PROVE  (Group(d, groups[d][i]) \in dirs \cup touched)'
    BY <1>2, <1>4, <1>8 DEF sync_wake_child, LoopEnds, Step, kill, waitid
<1>9. ASSUME NEW r \in Runs, AttachFails(r) \/ DestroyFails(r) \/ MainDies(r)
      PROVE  (Group(d, groups[d][i]) \in dirs \cup touched)'
    BY <1>1, <1>2, <1>4, <1>9 DEF AttachFails, DestroyFails, ExitAt, Exit, MainDies
<1>10. ASSUME NEW r \in Runs, destroy_cgroup(r)
       PROVE  (Group(d, groups[d][i]) \in dirs \cup touched)'
    <2>1. /\ (dirs \cup touched)' = (dirs \cup touched) \ {Group(r, groups[r][at[r]])}
          /\ UNCHANGED name
        BY <1>10 DEF destroy_cgroup, Removes
    <2>2. CASE r = d
        <3>1. pc[d] = "clean" /\ Distinct(groups[d]) /\ i > at[d]
            BY <1>1, <1>2, <1>10, <2>2 DEF destroy_cgroup, CanRemove, Exit
        <3>2. groups[d][i] # groups[d][at[d]]
            BY <1>2, <3>1 DEF Distinct
        <3> QED
            BY <1>1, <1>2, <1>3, <2>1, <2>2, <3>1, <3>2
    <2>3. CASE r # d
        <3>1. Kept(d, i)
            BY <1>1, <1>2, <1>10, <2>3 DEF destroy_cgroup, Exit
        <3>2. name[r] # name[d]
            BY <1>3, <2>3, <3>1 DEF Shared
        <3> QED
            BY <1>1, <1>3, <2>1, <3>1, <3>2
    <2> QED
        BY <2>2, <2>3
<1>11. ASSUME NEW r \in Runs, ChildForks(r) \/ ChildExits(r) \/ OrphanEnds(r) \/ OthersEnd(r)
       PROVE  (Group(d, groups[d][i]) \in dirs \cup touched)'
    BY <1>4, <1>11 DEF ChildForks, ChildExits, OrphanEnds, OthersEnd
<1>12. CASE OtherProcesses \/ OthersTouch \/ UNCHANGED vars
    BY <1>4, <1>12 DEF OtherProcesses, OthersTouch, vars
<1> QED
    BY <1>5, <1>6, <1>7, <1>8, <1>9, <1>10, <1>11, <1>12 DEF Next, RunNext, MainWorks

\* One of the groups of run r was touched by others.
Meddled(r) == \E i \in DOMAIN groups[r] : Group(r, groups[r][i]) \in touched

Excused(r) == ~pidns[r] \/ Shared(r) \/ ~Distinct(groups[r]) \/ Meddled(r)

\* A run with its name, its pid namespace and every hierarchy to itself finds the
\* groups that nobody has touched there and empty.
LEMMA CanRemoveOwn ==
    ASSUME TypeOK, StageInv, MadeInv, NEW r \in Runs, pc[r] = "clean", ~Excused(r)
    PROVE  CanRemove(r) /\ Group(r, groups[r][at[r]]) \notin touched
<1> USE DEF Excused
<1>1. at[r] \in DOMAIN groups[r] /\ groups[r][at[r]] \in Hierarchies /\ at[r] \in Nat
    BY GroupsType
<1>2. Group(r, groups[r][at[r]]) \in dirs \cup touched
    BY <1>1 DEF MadeInv, Made, Kept
<1>3. Group(r, groups[r][at[r]]) \notin touched
    BY <1>1 DEF Meddled
<1>4. ASSUME NEW q \in Members(groups[r][at[r]], name[r])
      PROVE  FALSE
    <2>1. /\ q \in Runs /\ (Lives(q) \/ others[q])
          /\ within[q][groups[r][at[r]]] = name[r]
        BY <1>4 DEF Members
    <2>2. /\ name[r] # NoPid /\ child[r] = "gone" /\ ~others[r]
          /\ within[q][groups[r][at[r]]] \in {NoPid, name[q]}
        BY <1>1, <2>1 DEF StageInv, Stage
    <2>3. q = r
        BY <2>1, <2>2 DEF Shared
    <2> QED
        BY <2>1, <2>2, <2>3 DEF Lives
<1> QED
    BY <1>2, <1>3, <1>4 DEF CanRemove

\* A touched group stays so until a run of its name removes it.
LEMMA MeddledStays ==
    ASSUME TypeOK, StageInv, [Next]_vars, NEW d \in Runs, name[d] # NoPid, Meddled(d),
           ~destroy_cgroup(d), ~Shared(d)
    PROVE  Meddled(d)'
<1>1. UNCHANGED groups /\ name'[d] = name[d]
    BY NamesStay DEF options
<1>2. PICK i \in DOMAIN groups[d] : Group(d, groups[d][i]) \in touched
    BY DEF Meddled
<1>3. ASSUME NEW r \in Runs, destroy_cgroup(r)
      PROVE  Group(d, groups[d][i]) \in touched'
    <2>1. name[r] # name[d]
        BY <1>3 DEF Shared
    <2> QED
        BY <1>2, <1>3, <2>1 DEF destroy_cgroup, Removes, Group
<1>4. touched \subseteq touched' \/ \E r \in Runs : destroy_cgroup(r)
    BY DEF Next, RunNext, MainWorks, cgroup_add, do_daemonize, do_clone, create_cgroup,
        attach_cgroup, AttachFails, sync_wake_child, kill, waitid, DestroyFails, LoopEnds,
        MainDies, ChildForks, ChildExits, OrphanEnds, OthersEnd, ExitAt, Step,
        OtherProcesses, OthersTouch, vars, groupfs
<1> QED
    BY <1>1, <1>2, <1>3, <1>4 DEF Meddled, Group

LEMMA UncleanStep ==
    TypeOK /\ StageInv /\ MadeInv /\ CleanFailsOnlyFor /\ [Next]_vars => CleanFailsOnlyFor'
<1> SUFFICES ASSUME TypeOK, StageInv, MadeInv, CleanFailsOnlyFor, [Next]_vars,
                    NEW d \in Runs, pc'[d] = "unclean"
             PROVE  Excused(d)'
    BY DEF CleanFailsOnlyFor, Shared, Meddled, Excused
<1>1. /\ pc \in [Runs -> {"start", "named", "clone", "create", "attach", "wake", "loop", "kill",
                         "wait", "clean", "done", "unclean", "dead"}]
    BY DEF TypeOK
<1>2. pc[d] = "unclean" \/ DestroyFails(d)
    <2>1. ASSUME NEW r \in Runs, RunNext(r), ~DestroyFails(r)
          PROVE  pc[d] = "unclean"
        BY <1>1, <2>1 DEF RunNext, MainWorks, cgroup_add, do_daemonize, do_clone,
            create_cgroup, attach_cgroup, AttachFails, sync_wake_child, kill, waitid,
            destroy_cgroup, LoopEnds, MainDies, ChildForks, ChildExits, OrphanEnds, OthersEnd,
            Exit, ExitAt, Step, Goes
    <2>2. ASSUME NEW r \in Runs, DestroyFails(r), r # d
          PROVE  pc[d] = "unclean"
        BY <1>1, <2>2 DEF DestroyFails, ExitAt, Exit
    <2>3. CASE OtherProcesses \/ OthersTouch \/ UNCHANGED vars
        BY <2>3 DEF OtherProcesses, OthersTouch, vars
    <2> QED
        BY <2>1, <2>2, <2>3 DEF Next
<1>3. Excused(d)
    <2>1. CASE pc[d] = "unclean"
        BY <2>1 DEF CleanFailsOnlyFor, Shared, Meddled, Excused
    <2>2. CASE DestroyFails(d)
        BY <2>2, CanRemoveOwn DEF DestroyFails, ExitAt
    <2> QED
        BY <1>2, <2>1, <2>2
<1>4. name[d] # NoPid /\ ~destroy_cgroup(d)
    <2>1. name[d] # NoPid
        BY <1>2 DEF StageInv, Stage, DestroyFails, ExitAt
    <2>2. ~destroy_cgroup(d)
        BY <1>1, <1>2 DEF DestroyFails, ExitAt, Exit, destroy_cgroup, CanRemove
    <2> QED
        BY <2>1, <2>2
<1>5. /\ UNCHANGED <<pidns, groups>>
      /\ Shared(d) => Shared(d)'
      /\ Meddled(d) => Meddled(d)' \/ Shared(d)
    BY <1>4, NamesStay, MeddledStays DEF options
<1> QED
    BY <1>3, <1>5 DEF Excused

-----------------------------------------------------------------------------
(* The theorems.                                                           *)

LEMMA Inductive == Spec => []IInv
<1>1. Init => IInv
    BY TypeInit, PidInit, HeldInit, RemovedInit DEF IInv
<1>2. IInv /\ [Next]_vars => IInv'
    BY TypeStep, PidStep, StageStep, HeldStep, RemovedStep, MadeStep, UncleanStep DEF IInv
<1> QED
    BY <1>1, <1>2, PTL DEF Spec

\* Every variable of the host's control groups keeps its type.
THEOREM TypeCorrect == Spec => []TypeOK
<1>1. IInv => TypeOK
    BY DEF IInv
<1> QED
    BY <1>1, Inductive, PTL

\* From the moment the container may run its command until it has ended it is in
\* all of its groups, and these are there, whatever other runs create and remove
\* (cgroup.c:66-73, pflask.c:289-303).
THEOREM ContainerConfined == Spec => []Confined
<1>1. IInv => Confined
    BY DEF IInv, HeldInv, Held, Started, Through, Confined
<1> QED
    BY <1>1, Inductive, PTL

\* The pid that pflask kills is its child's, however often the host uses pids again
\* (pflask.c:312-314).
THEOREM KillAimed == Spec => []AimedAtOwnChild
<1>1. IInv => AimedAtOwnChild
    BY Aimed DEF IInv
<1> QED
    BY <1>1, Inductive, PTL

\* A run that ends well has removed all of its groups, but for those another run of
\* its name has made again (cgroup.c:75-81).
THEOREM NoGroupLeft == Spec => []NoneLeft
<1>1. IInv => NoneLeft
    BY DEF IInv, RemovedInv, Removed, Shared, NoneLeft
<1> QED
    BY <1>1, Inductive, PTL

\* The removal fails for the reasons named only: no pid namespace, a run of the same
\* name, two controllers in one hierarchy, or a group that others have touched
\* (cgroup.c:119-129).
THEOREM RemovalFailsOnlyFor == Spec => []CleanFailsOnlyFor
<1>1. IInv => CleanFailsOnlyFor
    BY DEF IInv
<1> QED
    BY <1>1, Inductive, PTL
=============================================================================
