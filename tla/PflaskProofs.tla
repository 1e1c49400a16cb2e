---------------------------- MODULE PflaskProofs ----------------------------
(***************************************************************************)
(* Safety of one run of pflask, for every set of controllers and command   *)
(* lines: the invariants that MCPflask checks on small ones.               *)
(***************************************************************************)
EXTENDS Pflask, TLAPS

-----------------------------------------------------------------------------
(* The operators of Sync keep a pair a pair.                               *)

LEMMA InitPair ==
    /\ NoPair(Procs) \in Pair(Procs)
    /\ \A p \in Procs : sync_init(Procs, p) \in Pair(Procs)
<1>1. NoPair(Procs) \in Pair(Procs)
    BY DEF NoPair, Pair
<1>2. \A p \in Procs : sync_init(Procs, p) \in Pair(Procs)
    BY <1>1 DEF sync_init, Pair
<1> QED
    BY <1>1, <1>2

LEMMA InheritPair ==
    \A s \in Pair(Procs) : \A p, q \in Procs : Inherit(s, p, q) \in Pair(Procs)
BY DEF Inherit, Pair

LEMMA ClosePair ==
    \A s \in Pair(Procs) : \A p \in Procs : sync_close(s, p) \in Pair(Procs)
BY DEF sync_close, Pair

LEMMA WakePair ==
    ASSUME NEW s \in Pair(Procs), NEW e \in End, NEW n \in SyncSeq
    PROVE  sync_wake(s, e, n) \in Pair(Procs)
<1>1. Peer(e) \in End
    BY DEF Peer, End
<1>2. Append(s.inbox[Peer(e)], n) \in Seq(SyncSeq)
    BY <1>1 DEF Pair
<1> QED
    BY <1>1, <1>2 DEF sync_wake, Pair

LEMMA ReceivedPair ==
    ASSUME NEW s \in Pair(Procs), NEW e \in End
    PROVE  Received(s, e) \in Pair(Procs)
<1>1. CASE s.inbox[e] = <<>>
    BY <1>1 DEF Received
<1>2. CASE s.inbox[e] # <<>>
    <2>1. Tail(s.inbox[e]) \in Seq(SyncSeq)
        BY <1>2 DEF Pair
    <2> QED
        BY <1>2, <2>1 DEF Received, Pair
<1> QED
    BY <1>1, <1>2

LEMMA SyncValues == SYNC_START \in SyncSeq /\ SYNC_DONE \in SyncSeq /\ 0 \in End /\ 1 \in End
BY DEF SyncSeq, End

LEMMA OptionsType ==
    opts \in Options =>
        /\ opts.cgroups \in Seq(Controllers)
        /\ \A i \in 1 .. Len(opts.cgroups) : opts.cgroups[i] \in Controllers
        /\ opts.no \subseteq Namespaces
BY OptionsAssumption DEF CommandLines, Namespaces

-----------------------------------------------------------------------------
(* What the operators of Sync change, and what they leave alone.           *)

LEMMA InitEffect ==
    /\ \A e \in End : NoPair(Procs).inbox[e] = <<>>
    /\ \A p \in Procs : sync_init(Procs, p).held[p] = End
    /\ \A p \in Procs, e \in End : sync_init(Procs, p).inbox[e] = <<>>
BY DEF NoPair, sync_init

LEMMA InheritEffect ==
    ASSUME NEW s \in Pair(Procs), NEW p \in Procs, NEW q \in Procs
    PROVE  /\ Inherit(s, p, q).inbox = s.inbox
           /\ Inherit(s, p, q).held[q] = s.held[p]
           /\ \A r \in Procs \ {q} : Inherit(s, p, q).held[r] = s.held[r]
BY DEF Inherit, Pair

LEMMA CloseEffect ==
    ASSUME NEW s \in Pair(Procs), NEW p \in Procs
    PROVE  /\ sync_close(s, p).inbox = s.inbox
           /\ \A r \in Procs \ {p} : sync_close(s, p).held[r] = s.held[r]
BY DEF sync_close, Pair

LEMMA WakeEffect ==
    ASSUME NEW s \in Pair(Procs), NEW n \in SyncSeq
    PROVE  /\ \A e \in End : sync_wake(s, e, n).held = s.held
           /\ s.inbox[0] = <<>> => sync_wake(s, 1, n).inbox[0] = <<n>>
           /\ s.inbox[1] = <<>> => sync_wake(s, 0, n).inbox[1] = <<n>>
           /\ sync_wake(s, 0, n).inbox[0] = s.inbox[0]
           /\ sync_wake(s, 1, n).inbox[1] = s.inbox[1]
BY DEF sync_wake, Pair, Peer, End

LEMMA ReceivedEffect ==
    ASSUME NEW s \in Pair(Procs), NEW n \in SyncSeq
    PROVE  /\ \A e \in End : Received(s, e).held = s.held
           /\ s.inbox[0] = <<n>> => Received(s, 0).inbox[0] = <<>>
           /\ s.inbox[1] = <<n>> => Received(s, 1).inbox[1] = <<>>
           /\ Received(s, 0).inbox[1] = s.inbox[1]
           /\ Received(s, 1).inbox[0] = s.inbox[0]
<1>1. \A e \in End : Received(s, e).held = s.held
    BY DEF Received, Pair
<1>2. ASSUME NEW e \in End, s.inbox[e] = <<n>>
      PROVE  Received(s, e).inbox[e] = <<>>
    <2>1. s.inbox[e] # <<>> /\ Tail(s.inbox[e]) = <<>>
        BY <1>2
    <2> QED
        BY <2>1 DEF Received, Pair
<1>3. Received(s, 0).inbox[1] = s.inbox[1] /\ Received(s, 1).inbox[0] = s.inbox[0]
    BY DEF Received, Pair, End
<1> QED
    BY <1>1, <1>2, <1>3 DEF End

\* A process that holds both ends keeps its pair from ever being at its end.
LEMMA NoEof ==
    ASSUME NEW s \in Pair(Procs), NEW p \in Procs, s.held[p] = End, NEW e \in End
    PROVE  Connected(s, e) /\ ~AtEof(s, e)
BY DEF Connected, AtEof, Peer, End, Pair

-----------------------------------------------------------------------------
(* Types.                                                                  *)

TypeInv == TypeOK /\ (ppc = "attach_cgroup" => MoreCgroups)

LEMMA TypeInit == Init => TypeInv
<1> SUFFICES ASSUME Init PROVE TypeInv
    OBVIOUS
<1>1. CloneFlags(opts) \subseteq Namespaces
    BY DEF CloneFlags, Namespaces
<1>2. cg \in 1 .. Len(opts.cgroups) + 1
    BY OptionsType DEF Init
<1> QED
    BY <1>1, <1>2, InitPair DEF Init, TypeInv, TypeOK

LEMMA TypeStep == TypeInv /\ [Next]_vars => TypeInv'
<1> SUFFICES ASSUME TypeInv, [Next]_vars PROVE TypeInv'
    OBVIOUS
<1> USE InitPair, InheritPair, ClosePair, SyncValues, OptionsType DEF TypeInv, TypeOK,
    MoreCgroups, Procs,
        ParentGoes, ChildGoes, HelperGoes, spaces, signals, groups, tree, tty, procs
<1>1. CASE OpenMaster
    BY <1>1 DEF OpenMaster
<1>2. CASE Daemonize
    BY <1>2 DEF Daemonize
<1>3. CASE SyncInit
    BY <1>3 DEF SyncInit
<1>4. CASE MakeEphemeralDir
    BY <1>4 DEF MakeEphemeralDir
<1>5. CASE Clone
    BY <1>5 DEF Clone, CloneWith
<1>6. CASE WaitForStart
    BY <1>6, ReceivedPair DEF WaitForStart
<1>7. CASE OwnConsole
    BY <1>7 DEF OwnConsole
<1>8. CASE ForkHelper
    BY <1>8 DEF ForkHelper
<1>9. CASE WaitForHelper
    BY <1>9, ReceivedPair DEF WaitForHelper
<1>10. CASE MapHelperUsers
    BY <1>10 DEF MapHelperUsers
<1>11. CASE WakeHelper
    BY <1>11, WakePair DEF WakeHelper
<1>12. CASE CloseHelperSync
    BY <1>12 DEF CloseHelperSync
<1>13. CASE ReapHelper
    BY <1>13 DEF ReapHelper
<1>14. CASE CreateCgroup
    BY <1>14 DEF CreateCgroup
<1>15. CASE AttachCgroup
    BY <1>15 DEF AttachCgroup
<1>16. CASE SetupNetif
    BY <1>16 DEF SetupNetif
<1>17. CASE RegisterMachine
    BY <1>17 DEF RegisterMachine
<1>18. CASE SetupUserMap
    BY <1>18 DEF SetupUserMap
<1>19. CASE WakeChild
    BY <1>19, WakePair DEF WakeChild
<1>20. CASE CloseSync
    BY <1>20 DEF CloseSync
<1>21. CASE MaskSignals
    BY <1>21 DEF MaskSignals
<1>22. CASE LoopSignal
    BY <1>22 DEF LoopSignal, LeaveLoop
<1>23. CASE LoopHangup
    BY <1>23 DEF LoopHangup, LeaveLoop
<1>24. CASE KillChild
    BY <1>24 DEF KillChild, ChildAlive
<1>25. CASE ReapChild
    BY <1>25 DEF ReapChild
<1>26. CASE DestroyCgroup
    BY <1>26 DEF DestroyCgroup
<1>27. CASE CgroupsDestroyed
    BY <1>27 DEF CgroupsDestroyed
<1>28. CASE CgroupBusy
    BY <1>28 DEF CgroupBusy, ParentEnds, ParentGone, ChildAlive
<1>29. CASE RemoveEphemeralDir
    <2>1. /\ ppc' = "exit" /\ ephDir' = FALSE
          /\ UNCHANGED <<opts, cpc, hpc, sync, csync, spaces, signals, setup, groups,
                         ephMounted, tty>>
        BY <1>29 DEF RemoveEphemeralDir
    <2>2. ephDir' \in BOOLEAN
        BY <2>1, Zenon
    <2> QED
        BY <2>1, <2>2
<1>30. CASE EphemeralDirBusy
    BY <1>30 DEF EphemeralDirBusy, ParentEnds, ParentGone, ChildAlive
<1>31. CASE Return
    BY <1>31 DEF Return, ParentEnds, ParentGone, ChildAlive
<1>32. CASE AskForDeathSignal
    BY <1>32 DEF AskForDeathSignal
<1>33. CASE SetSid
    BY <1>33 DEF SetSid
<1>34. CASE WakeParent
    BY <1>34, WakePair DEF WakeParent
<1>35. CASE WaitForDone
    BY <1>35, ReceivedPair DEF WaitForDone
<1>36. CASE ChildCloseSync
    BY <1>36 DEF ChildCloseSync
<1>37. CASE OpenSlave
    BY <1>37 DEF OpenSlave
<1>38. CASE SetupUser
    BY <1>38 DEF SetupUser
<1>39. CASE MountEphemeral
    BY <1>39 DEF MountEphemeral
<1>40. CASE SetupMount
    BY <1>40 DEF SetupMount
<1>41. CASE EnterRoot
    BY <1>41 DEF EnterRoot
<1>42. CASE Configure
    BY <1>42 DEF Configure
<1>43. CASE Exec
    BY <1>43 DEF Exec
<1>44. CASE Unshare
    BY <1>44 DEF Unshare
<1>45. CASE HelperWakeParent
    BY <1>45, WakePair DEF HelperWakeParent
<1>46. CASE HelperWaitForDone
    BY <1>46, ReceivedPair DEF HelperWaitForDone
<1>47. CASE HelperCloseSync
    BY <1>47 DEF HelperCloseSync
<1>48. CASE ChownConsole
    BY <1>48 DEF ChownConsole
<1>49. CASE ChildKilled
    BY <1>49 DEF ChildKilled, ChildEnds, ChildAlive, Masked
<1>50. CASE CloneFallback
    BY <1>50 DEF CloneFallback, CloneWith
<1>51. CASE ForkHelperFails
    BY <1>51 DEF ForkHelperFails
<1>52. CASE LoopInput
    BY <1>52 DEF LoopInput, LeaveLoop
<1>53. CASE StopArrives
    BY <1>53 DEF StopArrives
<1>54. CASE ParentFails
    BY <1>54 DEF ParentFails, ParentEnds, ParentGone, ChildAlive
<1>55. CASE ParentKilled
    BY <1>55 DEF ParentKilled, ParentEnds, ParentGone, ChildAlive
<1>56. CASE ChildEnds
    BY <1>56 DEF ChildEnds, ChildAlive, Masked
<1>57. CASE CommandForks
    BY <1>57 DEF CommandForks
<1>58. CASE KidsEnd
    <2>1. /\ kids' = FALSE /\ slave' \in {"closed", slave}
          /\ UNCHANGED <<opts, procs, sync, csync, spaces, signals, setup, groups, tree>>
        BY <1>58 DEF KidsEnd
    <2>2. kids' \in BOOLEAN
        BY <2>1, Zenon
    <2> QED
        BY <2>1, <2>2
<1>59. CASE CommandUsesTty
    BY <1>59 DEF CommandUsesTty
<1>60. CASE HelperEnds
    BY <1>60 DEF HelperEnds
<1>61. CASE UNCHANGED vars
    BY <1>61 DEF vars
<1> QED
    BY <1>1, <1>2, <1>3, <1>4, <1>5, <1>6, <1>7, <1>8, <1>9, <1>10, <1>11, <1>12, <1>13,
        <1>14, <1>15, <1>16, <1>17, <1>18, <1>19, <1>20, <1>21, <1>22, <1>23, <1>24,
        <1>25, <1>26, <1>27, <1>28, <1>29, <1>30, <1>31, <1>32, <1>33, <1>34, <1>35,
        <1>36, <1>37, <1>38, <1>39, <1>40, <1>41, <1>42, <1>43, <1>44, <1>45, <1>46,
        <1>47, <1>48, <1>49, <1>50, <1>51, <1>52, <1>53, <1>54, <1>55, <1>56, <1>57,
        <1>58, <1>59, <1>60, <1>61 DEF Next, ParentWorks, ChildWorks, HelperWorks,
        Environment

\* Every variable of a run has its type, for any controllers and command lines.
THEOREM TypeCorrect == Spec => []TypeOK
<1>1. TypeInv => TypeOK
    BY DEF TypeInv
<1> QED
    BY TypeInit, TypeStep, <1>1, PTL DEF Spec

-----------------------------------------------------------------------------
(* The inductive invariant.                                                *)

Gone      == {"exited", "failed", "killed"}
Unforked  == {"open_pty", "daemonize", "sync_init", "mkdtemp", "clone"}
WithOwner == {"helper_wait", "helper_map", "helper_wake", "helper_close", "helper_reap"}
Preparing == {"create_cgroup", "attach_cgroup", "register", "user_map", "wake"}
Early     == {"prctl", "setsid", "barrier_wake"}

\* How far each process can be, given where the parent is.
PlaceInv ==
    /\ ppc \in Unforked => cpc = "unborn"
    /\ ppc \notin Unforked \cup Gone => cpc # "unborn"
    /\ ppc \notin Unforked \cup Gone \cup {"wait_start"} => cpc \notin Early
    /\ ppc \in Unforked \cup {"wait_start", "console_owner"} => hpc = "unborn"
    /\ ppc \in {"clean", "rmdir", "exit", "exited"} => cpc = "reaped"
    /\ cpc # "unborn" => ns = flags
    /\ sync.inbox[1] # <<>> => cpc \notin Early \cup {"unborn"}

OwnerDone == Owned => IF opts.helper THEN hpc = "reaped" ELSE "console" \in setup

\* What the parent has done, given where it is.
StageInv ==
    /\ ppc \in Unforked \cup {"wait_start", "console_owner"} \cup WithOwner =>
          cg = 1 /\ attached = {}
    /\ ppc \in WithOwner => opts.helper
    /\ ppc \in Preparing => OwnerDone
    /\ ppc \in {"create_cgroup", "attach_cgroup"} =>
          attached = {opts.cgroups[i] : i \in 1 .. cg - 1}
    /\ ppc \in {"register", "user_map", "wake"} =>
          /\ "netif" \in setup
          /\ attached = {opts.cgroups[i] : i \in DOMAIN opts.cgroups}
    /\ ppc = "user_map" => "NEWUSER" \in flags
    /\ ppc = "wake" /\ "NEWUSER" \in flags => "usermap" \in setup
    /\ setup \cap {"usermap", "console"} # {} => "NEWUSER" \in flags /\ cpc # "unborn"
    /\ ppc \in {"console_owner"} \cup WithOwner => "NEWUSER" \in flags
    /\ HelperAlive => "NEWUSER" \in flags /\ cpc # "unborn"

Ready == Configured /\ (Owned /\ opts.helper => hpc = "reaped")

\* What is in the pair of the parent and the child, and who holds it.
SyncInv ==
    /\ ppc \in {"mkdtemp", "clone", "wait_start", "console_owner", "close"}
                  \cup WithOwner \cup Preparing
          => sync.held["parent"] = End
    /\ cpc \in Early \cup {"barrier_wait"} => sync.held["child"] = End
    /\ sync.inbox[0] \in {<<>>, <<SYNC_DONE>>}
    /\ sync.inbox[1] \in {<<>>, <<SYNC_START>>}
    /\ ppc \in Unforked \cup {"wait_start", "console_owner"} \cup WithOwner \cup Preparing
          => sync.inbox[0] = <<>> /\ ~Released
    /\ sync.inbox[0] # <<>> => Ready
    /\ Released => Ready

\* The same of the parent and the helper.
CsyncInv ==
    /\ ppc \in {"helper_wait", "helper_map", "helper_wake", "helper_close"}
          => csync.held["parent"] = End
    /\ hpc \in {"unshare", "barrier_wake", "barrier_wait"} => csync.held["helper"] = End
    /\ csync.inbox[0] \in {<<>>, <<SYNC_DONE>>}
    /\ csync.inbox[1] \in {<<>>, <<SYNC_START>>}
    /\ ppc \in {"helper_wait", "helper_map", "helper_wake"} => csync.inbox[0] = <<>>
    /\ hpc \in {"unshare", "barrier_wake"} => csync.inbox[1] = <<>>

\* Whether the kernel will kill the child, or has done so.
DeathInv ==
    /\ cpc \in {"setsid", "barrier_wake", "barrier_wait", "close", "open_slave", "setup_user"}
          => pdeath
    /\ Released => pdeath \/ opts.newcreds
    /\ ParentGone /\ ~killed /\ cpc \in Early \cup {"barrier_wait"} => sync.inbox[0] = <<>>
    /\ OrphanNeverRuns

\* What is left, given where the parent is.
CleanInv ==
    /\ cgdirs \subseteq {opts.cgroups[i] : i \in DOMAIN opts.cgroups}
    /\ ppc = "clean" => cgdirs \subseteq {opts.cgroups[i] : i \in cg .. Len(opts.cgroups)}
    /\ ppc = "clean" /\ cg > 1 => ~kids
    /\ ppc \in {"rmdir", "exit", "exited"} => cgdirs = {} /\ (kids => opts.cgroups = <<>>)
    /\ ~opts.ephemeral => ~ephDir /\ ppc # "mkdtemp"
    /\ ppc \in {"exit", "exited"} => ~ephDir
    /\ cpc \in {"zombie", "reaped"} /\ kids => "NEWPID" \notin ns

IInv == TypeInv /\ PlaceInv /\ StageInv /\ SyncInv /\ CsyncInv /\ DeathInv /\ CleanInv

LEMMA IInvInit == Init => IInv
<1> SUFFICES ASSUME Init PROVE IInv
    OBVIOUS
<1>1. TypeInv
    BY TypeInit
<1>2. sync.inbox[0] = <<>> /\ sync.inbox[1] = <<>> /\ csync.inbox[0] = <<>> /\ csync.inbox[1] = <<>>
    BY InitEffect DEF Init, End
<1>3. PlaceInv /\ StageInv
    BY <1>2 DEF Init, PlaceInv, StageInv, Unforked, Gone, WithOwner, Preparing, Early, HelperAlive
<1>4. SyncInv /\ CsyncInv
    BY <1>2 DEF Init, SyncInv, CsyncInv, Unforked, WithOwner, Preparing, Early, Released
<1>5. DeathInv
    BY DEF Init, DeathInv, Early, Released, ParentGone, OrphanNeverRuns
<1>6. CleanInv
    BY DEF Init, CleanInv
<1> QED
    BY <1>1, <1>3, <1>4, <1>5, <1>6 DEF IInv

\* Where the processes are.
LEMMA PlaceStep == IInv /\ [Next]_vars => PlaceInv'
<1> SUFFICES ASSUME IInv, [Next]_vars PROVE PlaceInv'
    OBVIOUS
<1> USE SyncValues DEF TypeInv, TypeOK, PlaceInv, IInv, Gone, Unforked, Early, Procs,
        ParentGoes, ChildGoes, HelperGoes, spaces, signals, groups, tree, tty, procs
<1>1. CASE OpenMaster \/ Daemonize \/ MakeEphemeralDir
    BY <1>1 DEF OpenMaster, Daemonize, MakeEphemeralDir
<1>2. CASE SyncInit
    BY <1>2, InitEffect DEF SyncInit
<1>3. CASE Clone \/ CloneFallback
    BY <1>3, InheritEffect DEF Clone, CloneWith, CloneFallback
<1>4. CASE WaitForStart
    BY <1>4, ReceivedEffect, NoEof DEF WaitForStart, WaitReturns, SyncInv, Early, End
<1>5. CASE \/ OwnConsole \/ ForkHelper \/ ForkHelperFails \/ WaitForHelper \/ MapHelperUsers
               \/ WakeHelper \/ CloseHelperSync \/ ReapHelper
    BY <1>5, InheritEffect DEF OwnConsole, ForkHelper, ForkHelperFails, WaitForHelper,
            MapHelperUsers, WakeHelper, CloseHelperSync, ReapHelper
<1>6. CASE \/ CreateCgroup \/ AttachCgroup \/ SetupNetif \/ RegisterMachine \/ SetupUserMap
               \/ WakeChild \/ CloseSync \/ MaskSignals
    BY <1>6, WakeEffect, CloseEffect DEF CreateCgroup, AttachCgroup, SetupNetif,
            RegisterMachine, SetupUserMap, WakeChild, CloseSync, MaskSignals
<1>7. CASE \/ LoopSignal \/ LoopHangup \/ LoopInput \/ KillChild \/ ReapChild
               \/ DestroyCgroup \/ CgroupsDestroyed \/ RemoveEphemeralDir
    BY <1>7 DEF LoopSignal, LeaveLoop, LoopHangup, LoopInput, KillChild, ReapChild,
            DestroyCgroup, CgroupsDestroyed, RemoveEphemeralDir
<1>8. CASE \/ CgroupBusy \/ EphemeralDirBusy \/ Return \/ ParentFails \/ ParentKilled
    BY <1>8, CloseEffect DEF CgroupBusy, ParentEnds, EphemeralDirBusy, Return,
            ParentFails, ParentGone, ParentKilled
<1>9. CASE AskForDeathSignal \/ SetSid
    BY <1>9 DEF AskForDeathSignal, SetSid
<1>10. CASE WakeParent
    BY <1>10, WakeEffect DEF WakeParent
<1>11. CASE WaitForDone
    BY <1>11, ReceivedEffect DEF WaitForDone
<1>12. CASE \/ ChildCloseSync \/ OpenSlave \/ SetupUser \/ MountEphemeral \/ SetupMount
               \/ EnterRoot \/ Configure \/ Exec
    BY <1>12, CloseEffect DEF ChildCloseSync, OpenSlave, SetupUser, MountEphemeral,
            SetupMount, EnterRoot, Configure, Exec
<1>13. CASE ChildEnds \/ ChildKilled
    BY <1>13, CloseEffect DEF ChildEnds, ChildAlive, ChildKilled
<1>14. CASE StopArrives \/ CommandForks \/ KidsEnd \/ CommandUsesTty
    BY <1>14 DEF StopArrives, CommandForks, KidsEnd, CommandUsesTty
<1>15. CASE \/ Unshare \/ HelperWakeParent \/ HelperWaitForDone \/ HelperCloseSync \/ ChownConsole
               \/ HelperEnds
    BY <1>15, CloseEffect DEF Unshare, HelperWakeParent, HelperWaitForDone,
            HelperCloseSync, ChownConsole, HelperEnds, HelperAlive
<1>16. CASE UNCHANGED vars
    BY <1>16 DEF vars
<1> QED
    BY <1>1, <1>2, <1>3, <1>4, <1>5, <1>6, <1>7, <1>8, <1>9, <1>10, <1>11, <1>12, <1>13,
            <1>14, <1>15, <1>16 DEF Next, ParentWorks, ChildWorks, HelperWorks,
            Environment

\* What the parent has done.
LEMMA StageStep == IInv /\ [Next]_vars => StageInv'
<1> SUFFICES ASSUME IInv, [Next]_vars PROVE StageInv'
    OBVIOUS
<1> USE OptionsType DEF TypeInv, TypeOK, IInv, Gone, Unforked, WithOwner, Preparing, Early,
        Procs, ParentGoes, ChildGoes, HelperGoes, spaces, signals, groups, tree, tty, procs,
        StageInv, PlaceInv, OwnerDone, Owned, HelperAlive, MoreCgroups
<1>1. CASE OpenMaster \/ Daemonize \/ MakeEphemeralDir
    BY <1>1 DEF OpenMaster, Daemonize, MakeEphemeralDir
<1>2. CASE SyncInit
    BY <1>2 DEF SyncInit
<1>3. CASE Clone \/ CloneFallback
    BY <1>3 DEF Clone, CloneWith, CloneFallback
<1>4. CASE WaitForStart
    BY <1>4 DEF WaitForStart
<1>5. CASE \/ OwnConsole \/ ForkHelper \/ ForkHelperFails \/ WaitForHelper \/ MapHelperUsers
               \/ WakeHelper \/ CloseHelperSync \/ ReapHelper
    BY <1>5 DEF OwnConsole, ForkHelper, ForkHelperFails, WaitForHelper, MapHelperUsers,
            WakeHelper, CloseHelperSync, ReapHelper
<1>6. CASE \/ CreateCgroup \/ AttachCgroup \/ SetupNetif \/ RegisterMachine \/ SetupUserMap
               \/ WakeChild \/ CloseSync \/ MaskSignals
    BY <1>6 DEF CreateCgroup, AttachCgroup, SetupNetif, RegisterMachine, SetupUserMap,
            WakeChild, CloseSync, MaskSignals
<1>7. CASE \/ LoopSignal \/ LoopHangup \/ LoopInput \/ KillChild \/ ReapChild
               \/ DestroyCgroup \/ CgroupsDestroyed \/ RemoveEphemeralDir
    BY <1>7 DEF LoopSignal, LeaveLoop, LoopHangup, LoopInput, KillChild, ReapChild,
            DestroyCgroup, CgroupsDestroyed, RemoveEphemeralDir
<1>8. CASE \/ CgroupBusy \/ EphemeralDirBusy \/ Return \/ ParentFails \/ ParentKilled
    BY <1>8 DEF CgroupBusy, ParentEnds, EphemeralDirBusy, Return, ParentFails, ParentGone,
            ParentKilled
<1>9. CASE AskForDeathSignal \/ SetSid
    BY <1>9 DEF AskForDeathSignal, SetSid
<1>10. CASE WakeParent
    BY <1>10 DEF WakeParent
<1>11. CASE WaitForDone
    BY <1>11 DEF WaitForDone
<1>12. CASE \/ ChildCloseSync \/ OpenSlave \/ SetupUser \/ MountEphemeral \/ SetupMount
               \/ EnterRoot \/ Configure \/ Exec
    BY <1>12 DEF ChildCloseSync, OpenSlave, SetupUser, MountEphemeral, SetupMount,
            EnterRoot, Configure, Exec
<1>13. CASE ChildEnds \/ ChildKilled
    BY <1>13 DEF ChildEnds, ChildKilled
<1>14. CASE StopArrives \/ CommandForks \/ KidsEnd \/ CommandUsesTty
    BY <1>14 DEF StopArrives, CommandForks, KidsEnd, CommandUsesTty
<1>15. CASE \/ Unshare \/ HelperWakeParent \/ HelperWaitForDone \/ HelperCloseSync \/ ChownConsole
               \/ HelperEnds
    BY <1>15 DEF Unshare, HelperWakeParent, HelperWaitForDone, HelperCloseSync,
            ChownConsole, HelperEnds, HelperAlive
<1>16. CASE UNCHANGED vars
    BY <1>16 DEF vars
<1> QED
    BY <1>1, <1>2, <1>3, <1>4, <1>5, <1>6, <1>7, <1>8, <1>9, <1>10, <1>11, <1>12, <1>13,
            <1>14, <1>15, <1>16 DEF Next, ParentWorks, ChildWorks, HelperWorks,
            Environment

\* The pair of the parent and the child.
LEMMA SyncStep == IInv /\ [Next]_vars => SyncInv'
<1> SUFFICES ASSUME IInv, [Next]_vars PROVE SyncInv'
    OBVIOUS
<1> USE SyncValues DEF TypeInv, TypeOK, IInv, Gone, Unforked, WithOwner, Preparing, Early,
        Procs, ParentGoes, ChildGoes, HelperGoes, spaces, signals, groups, tree, tty, procs,
        SyncInv, PlaceInv, StageInv, OwnerDone, Ready, Configured, Required, Owned, Released,
        HelperAlive
<1>1. CASE OpenMaster \/ Daemonize \/ MakeEphemeralDir
    BY <1>1 DEF OpenMaster, Daemonize, MakeEphemeralDir
<1>2. CASE SyncInit
    BY <1>2, InitEffect DEF SyncInit
<1>3. CASE Clone \/ CloneFallback
    BY <1>3, InheritEffect DEF Clone, CloneWith, CloneFallback
<1>4. CASE WaitForStart
    BY <1>4, ReceivedEffect, NoEof DEF WaitForStart, WaitReturns, End
<1>5. CASE \/ OwnConsole \/ ForkHelper \/ ForkHelperFails \/ WaitForHelper \/ MapHelperUsers
               \/ WakeHelper \/ CloseHelperSync \/ ReapHelper
    BY <1>5, InheritEffect, InitEffect, InitPair, ReceivedEffect, NoEof, WakeEffect,
            CloseEffect DEF OwnConsole, ForkHelper, ForkHelperFails, WaitForHelper,
            WaitReturns, End, MapHelperUsers, WakeHelper, CloseHelperSync, ReapHelper
<1>6. CASE \/ CreateCgroup \/ SetupNetif \/ RegisterMachine \/ SetupUserMap \/ CloseSync
               \/ MaskSignals
    BY <1>6, CloseEffect DEF CreateCgroup, SetupNetif, RegisterMachine, SetupUserMap,
            CloseSync, MaskSignals
<1>7. CASE AttachCgroup
    BY <1>7 DEF AttachCgroup
<1>8. CASE WakeChild
    <2>1. /\ sync'.held = sync.held
          /\ sync'.inbox[0] = <<SYNC_DONE>> /\ sync'.inbox[1] = sync.inbox[1]
        BY <1>8, WakeEffect DEF WakeChild
    <2>2. Ready
        BY <1>8 DEF WakeChild
    <2>3. Ready' /\ Released' = Released
        BY <1>8, <2>2 DEF WakeChild
    <2> QED
        BY <1>8, <2>1, <2>3 DEF WakeChild
<1>9. CASE \/ LoopSignal \/ LoopHangup \/ LoopInput \/ KillChild \/ ReapChild
               \/ DestroyCgroup \/ CgroupsDestroyed \/ RemoveEphemeralDir
    BY <1>9 DEF LoopSignal, LeaveLoop, LoopHangup, LoopInput, KillChild, ReapChild,
            DestroyCgroup, CgroupsDestroyed, RemoveEphemeralDir
<1>10. CASE \/ CgroupBusy \/ EphemeralDirBusy \/ Return \/ ParentFails \/ ParentKilled
    BY <1>10, CloseEffect DEF CgroupBusy, ParentEnds, EphemeralDirBusy, Return,
            ParentFails, ParentGone, ParentKilled
<1>11. CASE AskForDeathSignal \/ SetSid
    BY <1>11 DEF AskForDeathSignal, SetSid
<1>12. CASE WakeParent
    <2>1. /\ sync'.held = sync.held
          /\ sync'.inbox[1] = <<SYNC_START>> /\ sync'.inbox[0] = sync.inbox[0]
        BY <1>12, WakeEffect DEF WakeParent
    <2>2. Ready' = Ready /\ ~Released'
        BY <1>12 DEF WakeParent
    <2> QED
        BY <1>12, <2>1, <2>2 DEF WakeParent
<1>13. CASE WaitForDone
    BY <1>13, ReceivedEffect, NoEof DEF WaitForDone, WaitReturns, End
<1>14. CASE \/ ChildCloseSync \/ OpenSlave \/ SetupUser \/ MountEphemeral \/ SetupMount
               \/ EnterRoot \/ Configure \/ Exec
    BY <1>14, CloseEffect DEF ChildCloseSync, OpenSlave, SetupUser, MountEphemeral,
            SetupMount, EnterRoot, Configure, Exec
<1>15. CASE ChildEnds \/ ChildKilled
    BY <1>15, CloseEffect DEF ChildEnds, ChildAlive, ChildKilled
<1>16. CASE StopArrives \/ CommandForks \/ KidsEnd \/ CommandUsesTty
    BY <1>16 DEF StopArrives, CommandForks, KidsEnd, CommandUsesTty
<1>17. CASE \/ Unshare \/ HelperWakeParent \/ HelperWaitForDone \/ HelperCloseSync \/ ChownConsole
               \/ HelperEnds
    BY <1>17, WakeEffect, ReceivedEffect, NoEof, CloseEffect DEF Unshare,
            HelperWakeParent, HelperWaitForDone, WaitReturns, End, HelperCloseSync,
            ChownConsole, HelperEnds, HelperAlive
<1>18. CASE UNCHANGED vars
    BY <1>18 DEF vars
<1> QED
    BY <1>1, <1>2, <1>3, <1>4, <1>5, <1>6, <1>7, <1>8, <1>9, <1>10, <1>11, <1>12, <1>13,
            <1>14, <1>15, <1>16, <1>17, <1>18 DEF Next, ParentWorks, ChildWorks,
            HelperWorks, Environment

\* The pair of the parent and the helper.
LEMMA CsyncStep == IInv /\ [Next]_vars => CsyncInv'
<1> SUFFICES ASSUME IInv, [Next]_vars PROVE CsyncInv'
    OBVIOUS
<1> USE SyncValues DEF TypeInv, TypeOK, IInv, Gone, Unforked, WithOwner, Preparing, Early,
        Procs, ParentGoes, ChildGoes, HelperGoes, spaces, signals, groups, tree, tty, procs,
        CsyncInv, PlaceInv, HelperAlive
<1>1. CASE OpenMaster \/ Daemonize \/ MakeEphemeralDir
    BY <1>1 DEF OpenMaster, Daemonize, MakeEphemeralDir
<1>2. CASE SyncInit
    BY <1>2, InitEffect DEF SyncInit
<1>3. CASE Clone \/ CloneFallback
    BY <1>3, InheritEffect DEF Clone, CloneWith, CloneFallback
<1>4. CASE WaitForStart
    BY <1>4, ReceivedEffect, NoEof DEF WaitForStart, WaitReturns, End
<1>5. CASE OwnConsole
    BY <1>5 DEF OwnConsole
<1>6. CASE ForkHelper
    BY <1>6, InheritEffect, InitEffect, InitPair DEF ForkHelper
<1>7. CASE ForkHelperFails
    BY <1>7, InitEffect, InitPair DEF ForkHelperFails
<1>8. CASE WaitForHelper
    BY <1>8, ReceivedEffect, NoEof DEF WaitForHelper, WaitReturns, End
<1>9. CASE MapHelperUsers
    BY <1>9 DEF MapHelperUsers
<1>10. CASE WakeHelper
    BY <1>10, WakeEffect DEF WakeHelper
<1>11. CASE CloseHelperSync
    BY <1>11, CloseEffect DEF CloseHelperSync
<1>12. CASE ReapHelper
    BY <1>12 DEF ReapHelper
<1>13. CASE \/ CreateCgroup \/ AttachCgroup \/ SetupNetif \/ RegisterMachine \/ SetupUserMap
               \/ WakeChild \/ CloseSync \/ MaskSignals
    BY <1>13, WakeEffect, CloseEffect DEF CreateCgroup, AttachCgroup, SetupNetif,
            RegisterMachine, SetupUserMap, WakeChild, CloseSync, MaskSignals
<1>14. CASE \/ LoopSignal \/ LoopHangup \/ LoopInput \/ KillChild \/ ReapChild
               \/ DestroyCgroup \/ CgroupsDestroyed \/ RemoveEphemeralDir
    BY <1>14 DEF LoopSignal, LeaveLoop, LoopHangup, LoopInput, KillChild, ReapChild,
            DestroyCgroup, CgroupsDestroyed, RemoveEphemeralDir
<1>15. CASE \/ CgroupBusy \/ EphemeralDirBusy \/ Return \/ ParentFails \/ ParentKilled
    BY <1>15, CloseEffect DEF CgroupBusy, ParentEnds, EphemeralDirBusy, Return,
            ParentFails, ParentGone, ParentKilled
<1>16. CASE AskForDeathSignal \/ SetSid
    BY <1>16 DEF AskForDeathSignal, SetSid
<1>17. CASE WakeParent
    BY <1>17, WakeEffect DEF WakeParent
<1>18. CASE WaitForDone
    BY <1>18, ReceivedEffect, NoEof DEF WaitForDone, WaitReturns, End
<1>19. CASE \/ ChildCloseSync \/ OpenSlave \/ SetupUser \/ MountEphemeral \/ SetupMount
               \/ EnterRoot \/ Configure \/ Exec
    BY <1>19, CloseEffect DEF ChildCloseSync, OpenSlave, SetupUser, MountEphemeral,
            SetupMount, EnterRoot, Configure, Exec
<1>20. CASE ChildEnds \/ ChildKilled
    BY <1>20, CloseEffect DEF ChildEnds, ChildAlive, ChildKilled
<1>21. CASE StopArrives \/ CommandForks \/ KidsEnd \/ CommandUsesTty
    BY <1>21 DEF StopArrives, CommandForks, KidsEnd, CommandUsesTty
<1>22. CASE Unshare
    BY <1>22 DEF Unshare
<1>23. CASE HelperWakeParent
    BY <1>23, WakeEffect DEF HelperWakeParent
<1>24. CASE HelperWaitForDone
    BY <1>24, ReceivedEffect, NoEof DEF HelperWaitForDone, WaitReturns, End
<1>25. CASE HelperCloseSync
    BY <1>25, CloseEffect DEF HelperCloseSync
<1>26. CASE ChownConsole
    BY <1>26, CloseEffect DEF ChownConsole
<1>27. CASE HelperEnds
    BY <1>27, CloseEffect DEF HelperEnds, HelperAlive
<1>28. CASE UNCHANGED vars
    BY <1>28 DEF vars
<1> QED
    BY <1>1, <1>2, <1>3, <1>4, <1>5, <1>6, <1>7, <1>8, <1>9, <1>10, <1>11, <1>12, <1>13,
            <1>14, <1>15, <1>16, <1>17, <1>18, <1>19, <1>20, <1>21, <1>22, <1>23, <1>24,
            <1>25, <1>26, <1>27, <1>28 DEF Next, ParentWorks, ChildWorks, HelperWorks,
            Environment

\* The death signal.
LEMMA DeathStep == IInv /\ [Next]_vars => DeathInv'
<1> SUFFICES ASSUME IInv, [Next]_vars PROVE DeathInv'
    OBVIOUS
<1> USE SyncValues DEF TypeInv, TypeOK, IInv, Gone, Unforked, WithOwner, Preparing, Early,
        Procs, ParentGoes, ChildGoes, HelperGoes, spaces, signals, groups, tree, tty, procs,
        DeathInv, PlaceInv, SyncInv, OrphanNeverRuns, ParentGone, Released
<1>1. CASE OpenMaster \/ Daemonize \/ MakeEphemeralDir
    BY <1>1 DEF OpenMaster, Daemonize, MakeEphemeralDir
<1>2. CASE SyncInit
    BY <1>2, InitEffect DEF SyncInit
<1>3. CASE Clone \/ CloneFallback
    BY <1>3, InheritEffect DEF Clone, CloneWith, CloneFallback
<1>4. CASE WaitForStart
    BY <1>4, ReceivedEffect, NoEof DEF WaitForStart, WaitReturns, End
<1>5. CASE \/ OwnConsole \/ ForkHelper \/ ForkHelperFails \/ WaitForHelper \/ MapHelperUsers
               \/ WakeHelper \/ CloseHelperSync \/ ReapHelper
    BY <1>5, InheritEffect, InitEffect, InitPair, ReceivedEffect, NoEof, WakeEffect,
            CloseEffect DEF OwnConsole, ForkHelper, ForkHelperFails, WaitForHelper,
            WaitReturns, End, MapHelperUsers, WakeHelper, CloseHelperSync, ReapHelper
<1>6. CASE \/ CreateCgroup \/ AttachCgroup \/ SetupNetif \/ RegisterMachine \/ SetupUserMap
               \/ WakeChild \/ CloseSync \/ MaskSignals
    BY <1>6, WakeEffect, CloseEffect DEF CreateCgroup, AttachCgroup, SetupNetif,
            RegisterMachine, SetupUserMap, WakeChild, CloseSync, MaskSignals
<1>7. CASE \/ LoopSignal \/ LoopHangup \/ LoopInput \/ KillChild \/ ReapChild
               \/ DestroyCgroup \/ CgroupsDestroyed \/ RemoveEphemeralDir
    BY <1>7 DEF LoopSignal, LeaveLoop, LoopHangup, LoopInput, KillChild, ChildAlive,
            ReapChild, DestroyCgroup, CgroupsDestroyed, RemoveEphemeralDir
<1>8. CASE \/ CgroupBusy \/ EphemeralDirBusy \/ Return \/ ParentFails \/ ParentKilled
    BY <1>8, CloseEffect DEF CgroupBusy, ParentEnds, ChildAlive, EphemeralDirBusy, Return,
            ParentFails, ParentGone, ParentKilled
<1>9. CASE AskForDeathSignal \/ SetSid
    BY <1>9 DEF AskForDeathSignal, SetSid
<1>10. CASE WakeParent
    BY <1>10, WakeEffect DEF WakeParent
<1>11. CASE WaitForDone
    BY <1>11, ReceivedEffect, NoEof DEF WaitForDone, WaitReturns, End
<1>12. CASE \/ ChildCloseSync \/ OpenSlave \/ SetupUser \/ MountEphemeral \/ SetupMount
               \/ EnterRoot \/ Configure \/ Exec
    BY <1>12, CloseEffect DEF ChildCloseSync, OpenSlave, SetupUser, MountEphemeral,
            SetupMount, EnterRoot, Configure, Exec
<1>13. CASE ChildEnds \/ ChildKilled
    BY <1>13, CloseEffect DEF ChildEnds, ChildAlive, ChildKilled
<1>14. CASE StopArrives \/ CommandForks \/ KidsEnd \/ CommandUsesTty
    BY <1>14 DEF StopArrives, CommandForks, KidsEnd, CommandUsesTty
<1>15. CASE \/ Unshare \/ HelperWakeParent \/ HelperWaitForDone \/ HelperCloseSync \/ ChownConsole
               \/ HelperEnds
    BY <1>15, WakeEffect, ReceivedEffect, NoEof, CloseEffect DEF Unshare,
            HelperWakeParent, HelperWaitForDone, WaitReturns, End, HelperCloseSync,
            ChownConsole, HelperEnds, HelperAlive
<1>16. CASE UNCHANGED vars
    BY <1>16 DEF vars
<1> QED
    BY <1>1, <1>2, <1>3, <1>4, <1>5, <1>6, <1>7, <1>8, <1>9, <1>10, <1>11, <1>12, <1>13,
            <1>14, <1>15, <1>16 DEF Next, ParentWorks, ChildWorks, HelperWorks,
            Environment

\* What is left.
LEMMA CleanStep == IInv /\ [Next]_vars => CleanInv'
<1> SUFFICES ASSUME IInv, [Next]_vars PROVE CleanInv'
    OBVIOUS
<1> USE OptionsType DEF TypeInv, TypeOK, IInv, Gone, Unforked, WithOwner, Preparing, Early,
        Procs, ParentGoes, ChildGoes, HelperGoes, spaces, signals, groups, tree, tty, procs,
        CleanInv, PlaceInv, MoreCgroups
<1>1. CASE OpenMaster \/ Daemonize \/ MakeEphemeralDir
    BY <1>1 DEF OpenMaster, Daemonize, MakeEphemeralDir
<1>2. CASE SyncInit
    BY <1>2 DEF SyncInit
<1>3. CASE Clone \/ CloneFallback
    BY <1>3 DEF Clone, CloneWith, CloneFallback
<1>4. CASE WaitForStart
    BY <1>4 DEF WaitForStart
<1>5. CASE \/ OwnConsole \/ ForkHelper \/ ForkHelperFails \/ WaitForHelper \/ MapHelperUsers
               \/ WakeHelper \/ CloseHelperSync \/ ReapHelper
    BY <1>5 DEF OwnConsole, ForkHelper, ForkHelperFails, WaitForHelper, MapHelperUsers,
            WakeHelper, CloseHelperSync, ReapHelper
<1>6. CASE \/ CreateCgroup \/ AttachCgroup \/ SetupNetif \/ RegisterMachine \/ SetupUserMap
               \/ WakeChild \/ CloseSync \/ MaskSignals
    BY <1>6 DEF CreateCgroup, AttachCgroup, SetupNetif, RegisterMachine, SetupUserMap,
            WakeChild, CloseSync, MaskSignals
<1>7. CASE \/ LoopSignal \/ LoopHangup \/ LoopInput \/ KillChild \/ ReapChild
               \/ DestroyCgroup \/ CgroupsDestroyed \/ RemoveEphemeralDir
    BY <1>7 DEF LoopSignal, LeaveLoop, LoopHangup, LoopInput, KillChild, ReapChild,
            DestroyCgroup, CanDestroy, CgroupsDestroyed, RemoveEphemeralDir
<1>8. CASE \/ CgroupBusy \/ EphemeralDirBusy \/ Return \/ ParentFails \/ ParentKilled
    BY <1>8 DEF CgroupBusy, ParentEnds, EphemeralDirBusy, Return, ParentFails, ParentGone,
            ParentKilled
<1>9. CASE AskForDeathSignal \/ SetSid
    BY <1>9 DEF AskForDeathSignal, SetSid
<1>10. CASE WakeParent
    BY <1>10 DEF WakeParent
<1>11. CASE WaitForDone
    BY <1>11 DEF WaitForDone
<1>12. CASE \/ ChildCloseSync \/ OpenSlave \/ SetupUser \/ MountEphemeral \/ SetupMount
               \/ EnterRoot \/ Configure \/ Exec
    BY <1>12 DEF ChildCloseSync, OpenSlave, SetupUser, MountEphemeral, SetupMount,
            EnterRoot, Configure, Exec
<1>13. CASE ChildEnds \/ ChildKilled
    <2>1. /\ cpc \notin {"unborn", "zombie", "reaped"} /\ cpc' = "zombie"
          /\ kids' => kids /\ "NEWPID" \notin ns
          /\ UNCHANGED <<opts, ppc, spaces, groups, tree>>
        BY <1>13, Zenon DEF ChildEnds, ChildAlive, ChildKilled
    <2> QED
        BY <2>1
<1>14. CASE StopArrives \/ CommandForks \/ KidsEnd \/ CommandUsesTty
    BY <1>14 DEF StopArrives, CommandForks, KidsEnd, ChildAlive, CommandUsesTty
<1>15. CASE \/ Unshare \/ HelperWakeParent \/ HelperWaitForDone \/ HelperCloseSync \/ ChownConsole
               \/ HelperEnds
    BY <1>15 DEF Unshare, HelperWakeParent, HelperWaitForDone, HelperCloseSync,
            ChownConsole, HelperEnds
<1>16. CASE UNCHANGED vars
    BY <1>16 DEF vars
<1> QED
    BY <1>1, <1>2, <1>3, <1>4, <1>5, <1>6, <1>7, <1>8, <1>9, <1>10, <1>11, <1>12, <1>13,
            <1>14, <1>15, <1>16 DEF Next, ParentWorks, ChildWorks, HelperWorks,
            Environment

\* The relations between the places of the three processes, what is in the two
\* socket pairs and what has been set up hold in every state of every run.
THEOREM Inductive == Spec => []IInv
<1>1. IInv /\ [Next]_vars => IInv'
    BY TypeStep, PlaceStep, StageStep, SyncStep, CsyncStep, DeathStep, CleanStep DEF IInv
<1> QED
    BY IInvInit, <1>1, PTL DEF Spec

-----------------------------------------------------------------------------
(* Pflask implements Container.                                            *)

\* What the parent has not done yet, and who has a helper.
FreshInv ==
    /\ ppc \in Unforked \cup {"wait_start", "console_owner", "create_cgroup", "attach_cgroup"}
                  \cup WithOwner
          => "netif" \notin setup
    /\ hpc # "unborn" => opts.helper

LEMMA FreshInit == Init => FreshInv
BY DEF Init, FreshInv

LEMMA FreshStep == IInv /\ FreshInv /\ [Next]_vars => FreshInv'
<1> SUFFICES ASSUME IInv, FreshInv, [Next]_vars PROVE FreshInv'
    OBVIOUS
<1> USE DEF IInv, FreshInv, StageInv, Unforked, WithOwner, ParentGoes, ChildGoes, HelperGoes, procs
<1>1. CASE \/ OpenMaster \/ Daemonize \/ SyncInit \/ MakeEphemeralDir \/ Clone \/ CloneFallback
           \/ WaitForStart \/ OwnConsole \/ ForkHelper \/ ForkHelperFails
    BY <1>1 DEF OpenMaster, Daemonize, SyncInit, MakeEphemeralDir, Clone, CloneWith,
            CloneFallback, WaitForStart, OwnConsole, ForkHelper, ForkHelperFails
<1>2. CASE \/ WaitForHelper \/ MapHelperUsers \/ WakeHelper \/ CloseHelperSync \/ ReapHelper
    BY <1>2 DEF WaitForHelper, MapHelperUsers, WakeHelper, CloseHelperSync, ReapHelper
<1>3. CASE \/ CreateCgroup \/ AttachCgroup \/ SetupNetif \/ RegisterMachine \/ SetupUserMap
           \/ WakeChild \/ CloseSync \/ MaskSignals
    BY <1>3 DEF CreateCgroup, AttachCgroup, SetupNetif, RegisterMachine, SetupUserMap,
            WakeChild, CloseSync, MaskSignals
<1>4. CASE \/ LoopSignal \/ LoopHangup \/ LoopInput \/ KillChild \/ ReapChild
           \/ DestroyCgroup \/ CgroupsDestroyed \/ RemoveEphemeralDir
    BY <1>4 DEF LoopSignal, LeaveLoop, LoopHangup, LoopInput, KillChild, ReapChild,
            DestroyCgroup, CgroupsDestroyed, RemoveEphemeralDir
<1>5. CASE \/ CgroupBusy \/ EphemeralDirBusy \/ Return \/ ParentFails \/ ParentKilled
    BY <1>5 DEF CgroupBusy, ParentEnds, EphemeralDirBusy, Return, ParentFails, ParentKilled
<1>6. CASE ChildWorks
    BY <1>6 DEF ChildWorks, AskForDeathSignal, SetSid, WakeParent, WaitForDone,
            ChildCloseSync, OpenSlave, SetupUser, MountEphemeral, SetupMount, EnterRoot,
            Configure, Exec
<1>7. CASE ChildEnds \/ ChildKilled \/ StopArrives \/ CommandForks \/ KidsEnd \/ CommandUsesTty
    BY <1>7 DEF ChildEnds, ChildKilled, StopArrives, CommandForks, KidsEnd, CommandUsesTty
<1>8. CASE HelperWorks \/ HelperEnds
    BY <1>8 DEF HelperWorks, Unshare, HelperWakeParent, HelperWaitForDone, HelperCloseSync,
            ChownConsole, HelperEnds, HelperAlive
<1>9. CASE UNCHANGED vars
    BY <1>9 DEF vars
<1> QED
    BY <1>1, <1>2, <1>3, <1>4, <1>5, <1>6, <1>7, <1>8, <1>9 DEF Next, ParentWorks,
            Environment

\* What the four values depend on.
LEMMA SameCommand == cpc' = cpc => Command' = Command
BY DEF Command, ChildAlive

LEMMA SameReady == UNCHANGED <<opts, ns, setup, attached>> => Configured' = Configured
BY DEF Configured, Required, Owned

LEMMA SameResources == UNCHANGED <<cgdirs, ephDir>> => Resources' = Resources
BY DEF Resources

LEMMA SameSupervisor == ppc' = ppc => Supervisor' = Supervisor
BY DEF Supervisor, ParentGone

LEMMA Working ==
    /\ ppc \notin Gone => Supervisor = "working"
    /\ ppc' \notin Gone => Supervisor' = "working"
BY DEF Supervisor, ParentGone, Gone

LEMMA NotReady == "netif" \notin setup => ~Configured
BY DEF Configured, Required

\* Setting up more makes the container ready or leaves that as it is.
LEMMA ReadyGrows ==
    UNCHANGED <<opts, ns, attached>> /\ setup \subseteq setup' /\ Configured => Configured'
BY DEF Configured, Required, Owned

LEMMA PromiseInit == Init => Promise!Init
<1> SUFFICES ASSUME Init PROVE Promise!Init
    OBVIOUS
<1>1. Command = "none"
    BY DEF Init, Command
<1>2. Configured = FALSE
    BY DEF Init, Configured, Required
<1>3. Resources = {}
    BY DEF Init, Resources
<1>4. Supervisor = "working"
    BY DEF Init, Supervisor, ParentGone
<1> QED
    BY <1>1, <1>2, <1>3, <1>4 DEF Promise!Init

\* The actions of Container in terms of the four values.
LEMMA ByAcquire ==
    ASSUME NEW r \in {CgroupOf(c) : c \in Controllers} \cup {EphemeralDir},
           Supervisor = "working", ~Configured, Resources' = Resources \cup {r},
           UNCHANGED <<Command, Configured, Supervisor>>
    PROVE  Promise!Next
BY DEF Promise!Next, Promise!Acquire

LEMMA ByRelease ==
    ASSUME NEW r \in {CgroupOf(c) : c \in Controllers} \cup {EphemeralDir},
           Supervisor = "working", Command = "over", Resources' = Resources \ {r},
           UNCHANGED <<Command, Configured, Supervisor>>
    PROVE  Promise!Next
BY DEF Promise!Next, Promise!Release

LEMMA ByCreate ==
    ASSUME Supervisor = "working", Command = "none", Command' = "held",
           UNCHANGED <<Configured, Resources, Supervisor>>
    PROVE  Promise!Next
BY DEF Promise!Next, Promise!Create

LEMMA ByPrepare ==
    ASSUME Supervisor = "working", Command # "none", Configured' = TRUE,
           UNCHANGED <<Command, Resources, Supervisor>>
    PROVE  Promise!Next
BY DEF Promise!Next, Promise!Prepare

LEMMA ByRun ==
    ASSUME Command = "held", Configured, Command' = "running",
           UNCHANGED <<Configured, Resources, Supervisor>>
    PROVE  Promise!Next
BY DEF Promise!Next, Promise!Run

LEMMA ByEnd ==
    ASSUME Command \in {"held", "running"}, Command' = "over",
           UNCHANGED <<Configured, Resources, Supervisor>>
    PROVE  Promise!Next
BY DEF Promise!Next, Promise!End

LEMMA ByReturn ==
    ASSUME Supervisor = "working", Command = "over", Resources = {}, Supervisor' = "returned",
           UNCHANGED <<Command, Configured, Resources>>
    PROVE  Promise!Next
BY DEF Promise!Next, Promise!Return

LEMMA ByAbort ==
    ASSUME Supervisor = "working", Supervisor' = "aborted",
           UNCHANGED <<Command, Configured, Resources>>
    PROVE  Promise!Next
BY DEF Promise!Next, Promise!Abort

\* Configured is a truth value, in this state and in the next.
LEMMA ReadyOrNot == Configured \in BOOLEAN /\ Configured' \in BOOLEAN
BY DEF Configured

LEMMA PromiseStep ==
    IInv /\ FreshInv /\ IInv' /\ FreshInv' /\ [Next]_vars => [Promise!Next]_(Promise!vars)
<1> DEFINE Same == UNCHANGED <<Command, Configured, Resources, Supervisor>>
<1> SUFFICES ASSUME IInv, FreshInv, IInv', FreshInv', [Next]_vars
             PROVE  Promise!Next \/ Same
    BY DEF Promise!vars
<1> USE DEF ParentGoes, ChildGoes, HelperGoes, spaces, signals, groups, tree, tty, procs
<1>a. ASSUME UNCHANGED <<cpc, opts, ns, setup, attached, cgdirs, ephDir>>,
             ppc \notin Gone, ppc' \notin Gone
      PROVE  Same
    BY <1>a, SameCommand, SameReady, SameResources, Working
<1>b. ASSUME UNCHANGED <<cpc, ppc, opts, ns, setup, attached, cgdirs, ephDir>>
      PROVE  Same
    BY <1>b, SameCommand, SameReady, SameResources, SameSupervisor
<1>1. CASE \/ OpenMaster \/ Daemonize \/ SyncInit \/ WaitForStart
    BY <1>1, <1>a DEF OpenMaster, Daemonize, SyncInit, WaitForStart, Gone
<1>2. CASE MakeEphemeralDir
    <2>1. Supervisor = "working" /\ UNCHANGED <<Command, Configured, Supervisor>>
        BY <1>2, SameCommand, SameReady, Working DEF MakeEphemeralDir, Gone
    <2>2. ~Configured
        BY <1>2, NotReady DEF MakeEphemeralDir, FreshInv, Unforked
    <2>3. Resources' = Resources \cup {EphemeralDir}
        BY <1>2 DEF MakeEphemeralDir, Resources
    <2> QED
        BY <2>1, <2>2, <2>3, ByAcquire
<1>3. CASE Clone \/ CloneFallback
    <2>1. Supervisor = "working" /\ UNCHANGED <<Resources, Supervisor>>
        BY <1>3, SameResources, Working DEF Clone, CloneFallback, CloneWith, Gone
    <2>2. ~Configured /\ ~Configured'
        BY <1>3 DEF Clone, CloneFallback, CloneWith, FreshInv, Unforked, Configured, Required
    <2>3. cpc = "unborn" /\ cpc' = "prctl"
        BY <1>3 DEF Clone, CloneFallback, CloneWith, IInv, PlaceInv, Unforked
    <2>4. Command = "none" /\ Command' = "held"
        BY <2>3 DEF Command, ChildAlive
    <2>5. Configured' = Configured
        BY <2>2, ReadyOrNot
    <2> QED
        BY <2>1, <2>4, <2>5, ByCreate
<1>4. CASE OwnConsole
    <2>1. UNCHANGED <<Command, Resources, Supervisor>>
        BY <1>4, SameCommand, SameResources, Working DEF OwnConsole, Gone
    <2>2. ~Configured /\ ~Configured'
        BY <1>4 DEF OwnConsole, FreshInv, Configured, Required
    <2> QED
        BY <2>1, <2>2, ReadyOrNot
<1>5. CASE \/ ForkHelper \/ ForkHelperFails \/ WaitForHelper \/ MapHelperUsers \/ WakeHelper
           \/ CloseHelperSync \/ ReapHelper
    BY <1>5, <1>a DEF ForkHelper, ForkHelperFails, WaitForHelper, MapHelperUsers,
            WakeHelper, CloseHelperSync, ReapHelper, Gone
<1>6. CASE CreateCgroup
    <2>1. Supervisor = "working" /\ UNCHANGED <<Command, Configured, Supervisor>>
        BY <1>6, SameCommand, SameReady, Working DEF CreateCgroup, Gone
    <2>2. ~Configured
        BY <1>6, NotReady DEF CreateCgroup, FreshInv
    <2>3. opts.cgroups[cg] \in Controllers
        BY <1>6 DEF CreateCgroup, IInv, TypeInv, TypeOK
    <2>4. Resources' = Resources \cup {CgroupOf(opts.cgroups[cg])}
        BY <1>6 DEF CreateCgroup, Resources
    <2> QED
        BY <2>1, <2>2, <2>3, <2>4, ByAcquire
<1>7. CASE AttachCgroup
    <2>1. UNCHANGED <<Command, Resources, Supervisor>>
        BY <1>7, SameCommand, SameResources, Working DEF AttachCgroup, Gone
    <2>2. ~Configured /\ ~Configured'
        BY <1>7 DEF AttachCgroup, FreshInv, Configured, Required
    <2> QED
        BY <2>1, <2>2, ReadyOrNot
<1>8. CASE SetupNetif \/ SetupUserMap
    <2>1. Supervisor = "working" /\ UNCHANGED <<Command, Resources, Supervisor>>
        BY <1>8, SameCommand, SameResources, Working DEF SetupNetif, SetupUserMap, Gone
    <2>2. Command # "none"
        BY <1>8 DEF SetupNetif, SetupUserMap, IInv, PlaceInv, Unforked, Gone, Command
    <2>3. Configured => Configured'
        BY <1>8, ReadyGrows DEF SetupNetif, SetupUserMap
    <2>4. CASE Configured'
        BY <2>1, <2>2, <2>4, ReadyOrNot, ByPrepare
    <2>5. CASE ~Configured'
        BY <2>1, <2>3, <2>5, ReadyOrNot
    <2> QED
        BY <2>4, <2>5
<1>9. CASE RegisterMachine \/ WakeChild \/ CloseSync \/ MaskSignals
    BY <1>9, <1>a DEF RegisterMachine, WakeChild, CloseSync, MaskSignals, Gone
<1>10. CASE LoopSignal \/ LoopHangup \/ LoopInput \/ KillChild
    BY <1>10, <1>a DEF LoopSignal, LeaveLoop, LoopHangup, LoopInput, KillChild, Gone
<1>11. CASE ReapChild
    <2>1. Command' = Command
        BY <1>11 DEF ReapChild, Command, ChildAlive
    <2> QED
        BY <1>11, <2>1, SameReady, SameResources, Working DEF ReapChild, Gone
<1>12. CASE DestroyCgroup
    <2>1. Supervisor = "working" /\ UNCHANGED <<Command, Configured, Supervisor>>
        BY <1>12, SameCommand, SameReady, Working DEF DestroyCgroup, Gone
    <2>2. Command = "over"
        BY <1>12 DEF DestroyCgroup, IInv, PlaceInv, Command, ChildAlive
    <2>3. opts.cgroups[cg] \in Controllers
        BY <1>12 DEF DestroyCgroup, CanDestroy, IInv, TypeInv, TypeOK
    <2>4. Resources' = Resources \ {CgroupOf(opts.cgroups[cg])}
        BY <1>12 DEF DestroyCgroup, Resources, CgroupOf, EphemeralDir
    <2> QED
        BY <2>1, <2>2, <2>3, <2>4, ByRelease
<1>13. CASE CgroupsDestroyed
    BY <1>13, <1>a DEF CgroupsDestroyed, Gone
<1>14. CASE RemoveEphemeralDir
    <2>1. Supervisor = "working" /\ UNCHANGED <<Command, Configured, Supervisor>>
        BY <1>14, SameCommand, SameReady, Working DEF RemoveEphemeralDir, Gone
    <2>2. Command = "over"
        BY <1>14 DEF RemoveEphemeralDir, IInv, PlaceInv, Command, ChildAlive
    <2>3. Resources' = Resources \ {EphemeralDir}
        BY <1>14 DEF RemoveEphemeralDir, Resources, CgroupOf, EphemeralDir
    <2> QED
        BY <2>1, <2>2, <2>3, ByRelease
<1>15. CASE Return
    <2>1. UNCHANGED <<Command, Configured, Resources>>
        BY <1>15, SameCommand, SameReady, SameResources DEF Return, ParentEnds
    <2>2. Command = "over"
        BY <1>15 DEF Return, IInv, PlaceInv, Command, ChildAlive
    <2>3. Resources = {}
        BY <1>15 DEF Return, IInv, CleanInv, Resources
    <2>4. Supervisor = "working" /\ Supervisor' = "returned"
        BY <1>15 DEF Return, ParentEnds, Supervisor, ParentGone
    <2> QED
        BY <2>1, <2>2, <2>3, <2>4, ByReturn
<1>16. CASE \/ CgroupBusy \/ EphemeralDirBusy \/ ParentFails \/ ParentKilled
    <2>1. UNCHANGED <<Command, Configured, Resources>>
        BY <1>16, SameCommand, SameReady, SameResources DEF CgroupBusy, EphemeralDirBusy,
                ParentFails, ParentKilled, ParentEnds
    <2>2. Supervisor = "working" /\ Supervisor' = "aborted"
        BY <1>16 DEF CgroupBusy, EphemeralDirBusy, ParentFails, ParentKilled, ParentEnds,
                Supervisor, ParentGone
    <2> QED
        BY <2>1, <2>2, ByAbort
<1>17. CASE \/ AskForDeathSignal \/ SetSid \/ WakeParent \/ WaitForDone \/ ChildCloseSync
            \/ OpenSlave \/ SetupUser \/ MountEphemeral \/ SetupMount \/ EnterRoot \/ Configure
    <2>1. Command = "held" /\ Command' = "held"
        BY <1>17 DEF AskForDeathSignal, SetSid, WakeParent, WaitForDone, ChildCloseSync,
                OpenSlave, SetupUser, MountEphemeral, SetupMount, EnterRoot, Configure,
                Command, ChildAlive
    <2> QED
        BY <1>17, <2>1, SameReady, SameResources, SameSupervisor DEF AskForDeathSignal, SetSid,
                WakeParent, WaitForDone, ChildCloseSync, OpenSlave, SetupUser,
                MountEphemeral, SetupMount, EnterRoot, Configure
<1>18. CASE Exec
    <2>1. UNCHANGED <<Configured, Resources, Supervisor>>
        BY <1>18, SameReady, SameResources, SameSupervisor DEF Exec
    <2>2. Command = "held" /\ Command' = "running"
        BY <1>18 DEF Exec, Command, ChildAlive
    <2>3. Configured
        BY <1>18 DEF Exec, IInv, SyncInv, Ready, Released
    <2> QED
        BY <2>1, <2>2, <2>3, ByRun
<1>19. CASE ChildEnds \/ ChildKilled
    <2>1. UNCHANGED <<Configured, Resources, Supervisor>>
        BY <1>19, SameReady, SameResources, SameSupervisor DEF ChildEnds, ChildKilled
    <2>2. Command \in {"held", "running"} /\ Command' = "over"
        BY <1>19 DEF ChildEnds, ChildKilled, Command, ChildAlive
    <2> QED
        BY <2>1, <2>2, ByEnd
<1>20. CASE StopArrives \/ CommandForks \/ KidsEnd \/ CommandUsesTty
    BY <1>20, <1>b DEF StopArrives, CommandForks, KidsEnd, CommandUsesTty
<1>21. CASE Unshare \/ HelperWakeParent \/ HelperWaitForDone \/ HelperCloseSync \/ HelperEnds
    BY <1>21, <1>b DEF Unshare, HelperWakeParent, HelperWaitForDone, HelperCloseSync,
            HelperEnds
<1>22. CASE ChownConsole
    <2>1. UNCHANGED <<Command, Resources, Supervisor>>
        BY <1>22, SameCommand, SameResources, SameSupervisor DEF ChownConsole
    <2>2. opts.helper
        BY <1>22 DEF ChownConsole, FreshInv
    <2>3. Configured' = Configured
        BY <1>22, <2>2 DEF ChownConsole, Configured, Required, Owned
    <2> QED
        BY <2>1, <2>3
<1>23. CASE UNCHANGED vars
    BY <1>23, <1>b DEF vars
<1> QED
    BY <1>1, <1>2, <1>3, <1>4, <1>5, <1>6, <1>7, <1>8, <1>9, <1>10, <1>11, <1>12, <1>13,
            <1>14, <1>15, <1>16, <1>17, <1>18, <1>19, <1>20, <1>21, <1>22, <1>23
            DEF Next, ParentWorks, ChildWorks, HelperWorks, Environment

\* A run of pflask is a run of Container: what the processes, the sockets and the
\* signals do together keeps what Container says of the command and its resources.
THEOREM PromiseKept == Spec => ContainerSpec
<1>1. Init => FreshInv /\ Promise!Init
    BY FreshInit, PromiseInit
<1>2. IInv /\ FreshInv /\ [Next]_vars => FreshInv'
    BY FreshStep
<1>3. IInv /\ FreshInv /\ IInv' /\ FreshInv' /\ [Next]_vars => [Promise!Next]_(Promise!vars)
    BY PromiseStep
<1> QED
    BY Inductive, <1>1, <1>2, <1>3, PTL DEF Spec, ContainerSpec, Promise!Spec

-----------------------------------------------------------------------------
(* The properties that MCPflask checks.                                    *)

\* No child is let through the barrier before its container is complete.
THEOREM BarrierCorrect == Spec => []BarrierHolds
<1>1. IInv => BarrierHolds
    BY DEF IInv, SyncInv, Ready, BarrierHolds
<1> QED
    BY Inductive, <1>1, PTL

\* Who waits is answered with the number it expects, or not at all.
THEOREM ChannelsCorrect == Spec => []ChannelsAgree
<1>1. IInv => ChannelsAgree
    BY NoEof DEF IInv, TypeInv, TypeOK, PlaceInv, SyncInv, CsyncInv, ChannelsAgree, WaitFails,
        WithOwner, Preparing, Early, Procs, End, SYNC_START, SYNC_DONE
<1> QED
    BY Inductive, <1>1, PTL

\* Id maps and console owners are for children with a user namespace.
THEOREM SetupCorrect == Spec => []SetupFitsNamespaces
<1>1. IInv => SetupFitsNamespaces
    BY DEF IInv, PlaceInv, StageInv, SetupFitsNamespaces
<1> QED
    BY Inductive, <1>1, PTL

\* An orphan past the barrier is being killed, or has changed its ids.
THEOREM OrphanCorrect == Spec => []OrphanNeverRuns
<1>1. IInv => OrphanNeverRuns
    BY DEF IInv, DeathInv
<1> QED
    BY Inductive, <1>1, PTL

\* A parent that returns leaves nothing behind.
THEOREM ExitCorrect == Spec => []CleanExit
<1>1. IInv => CleanExit
    BY DEF IInv, PlaceInv, CleanInv, CleanExit
<1> QED
    BY Inductive, <1>1, PTL
=============================================================================
