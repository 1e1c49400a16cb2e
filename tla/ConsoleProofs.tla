--------------------------- MODULE ConsoleProofs ---------------------------
(***************************************************************************)
(* The terminal of a detached container, for any number of clients, any    *)
(* length of the queue and any amount of output: the invariants that are   *)
(* checked of Console on three clients, as theorems of its specification.  *)
(***************************************************************************)
EXTENDS Console, SequenceTheorems, TLAPS

\* A connection that the supervisor has still to answer: the client waits, or has
\* gone away meanwhile.
Unanswered(c) ==
    \/ cpc[c] = "receive" /\ conn[c] = "open"
    \/ cpc[c] = "abandoned" /\ conn[c] = "closed"

\* Every connection in the queue and the one in hand is unanswered, and no client
\* has two of them.
QueueInv ==
    /\ \A i \in DOMAIN queue : Unanswered(queue[i])
    /\ \A i, j \in DOMAIN queue : queue[i] = queue[j] => i = j
    /\ srv = "send" => /\ peer \in Clients /\ Unanswered(peer)
                       /\ \A i \in DOMAIN queue : queue[i] # peer

\* The master is sent to owners only.
OwnerInv ==
    \A c \in Clients : conn[c] = "fd" \/ cpc[c] \in Looped \cup {"setup", "restore"} => c \in Owners

IInv ==
    /\ TypeOK
    /\ QueueInv /\ SupervisorSurvives
    /\ OwnerInv /\ TerminalsKept

-----------------------------------------------------------------------------
(* The type invariant.                                                     *)

LEMMA TypeInit == Init => TypeOK
BY ConsoleAssumption DEF Init, TypeOK

LEMMA ServerTypeStep == TypeOK /\ (ServerWorks \/ Environment) => TypeOK'
<1> SUFFICES ASSUME TypeOK PROVE ServerWorks \/ Environment => TypeOK'
    OBVIOUS
<1> USE ConsoleAssumption DEF TypeOK, Over, Looped, server, buffers, terminals, container,
        ServerWaits
<1>1. Accept => TypeOK'
    <2> SUFFICES ASSUME Accept PROVE TypeOK'
        OBVIOUS
    <2>1. Head(queue) \in Clients /\ Tail(queue) \in Seq(Clients) /\ Len(Tail(queue)) <= Backlog
        BY HeadTailProperties DEF Accept
    <2> QED
        BY <2>1 DEF Accept
<1>2. SendMaster \/ Refuse => TypeOK'
    BY DEF SendMaster, Refuse
<1>3. \A how \in {"left", "failed", "sigpipe"} : ServerEnds(how) => TypeOK'
    BY DEF ServerEnds, Listening
<1>4. SendToNobody \/ ServerSeesDeath \/ ServerStopped \/ ServerFails => TypeOK'
    BY <1>3 DEF SendToNobody, ServerSeesDeath, ServerStopped, ServerFails
<1>5. Write => TypeOK'
    <2> SUFFICES ASSUME Write PROVE TypeOK'
        OBVIOUS
    <2>1. nout' \in 1 .. MaxOut
        BY DEF Write
    <2>2. out' \in 0 .. nout'
        BY DEF Write
    <2> QED
        BY <2>1, <2>2 DEF Write
<1>6. ReopenSlave \/ ContainerEnds => TypeOK'
    BY DEF ReopenSlave, ContainerEnds
<1> QED
    BY <1>1, <1>2, <1>4, <1>5, <1>6 DEF ServerWorks, Environment

Places == {"start", "receive", "setup", "restore"} \cup Looped \cup Over

LEMMA GoesHasType ==
    ASSUME TypeOK, NEW c \in Clients, NEW from, NEW to \in Places, ClientGoes(c, from, to)
    PROVE  cpc' \in [Clients -> Places]
BY DEF TypeOK, Places, ClientGoes

LEMMA GoOnHasType ==
    ASSUME TypeOK, NEW c \in Clients, NEW from, GoOn(c, from)
    PROVE  TypeOK'
<1>1. cpc' \in [Clients -> Places]
    BY GoesHasType DEF GoOn, Places, Looped
<1> QED
    BY <1>1 DEF GoOn, TypeOK, Places, server, buffers, terminals, container

LEMMA LeaveHasType ==
    ASSUME TypeOK, NEW c \in Clients, NEW from,
           NEW reason \in {"key", "eof", "signal", "hangup", "late"}, Leave(c, from, reason)
    PROVE  TypeOK'
<1>1. cpc' \in [Clients -> Places]
    BY GoesHasType DEF Leave, Places
<1>2. why' \in [Clients -> {"none", "key", "eof", "signal", "hangup", "late"}]
    BY DEF Leave, TypeOK
<1> QED
    BY <1>1, <1>2 DEF Leave, TypeOK, Places, server, buffers, container

LEMMA ClientTypeStep ==
    \A c \in Clients : TypeOK /\ (ClientWorks(c) \/ UserActs(c)) => TypeOK'
<1> SUFFICES ASSUME NEW c \in Clients, TypeOK
             PROVE  ClientWorks(c) \/ UserActs(c) => TypeOK'
    OBVIOUS
<1> USE ConsoleAssumption
<1>1. Connect(c) => TypeOK'
    <2> SUFFICES ASSUME Connect(c) PROVE TypeOK'
        OBVIOUS
    <2>1. queue' \in Seq(Clients) /\ Len(queue') = Len(queue) + 1 /\ Len(queue) \in Nat
        BY AppendProperties, LenProperties DEF Connect, TypeOK
    <2>2. Len(queue') <= Backlog
        BY <2>1 DEF Connect
    <2>3. conn' \in [Clients -> {"none", "open", "fd", "closed"}]
        BY DEF Connect, TypeOK
    <2>4. cpc' \in [Clients -> Places]
        BY GoesHasType DEF Connect, Places
    <2> QED
        BY <2>1, <2>2, <2>3, <2>4 DEF Connect, TypeOK, Places, buffers, terminals, container
<1>2. ConnectRefused(c) \/ ReceiveMaster(c) \/ ReceiveNothing(c) => TypeOK'
    <2> SUFFICES ASSUME ConnectRefused(c) \/ ReceiveMaster(c) \/ ReceiveNothing(c) PROVE TypeOK'
        OBVIOUS
    <2>1. cpc' \in [Clients -> Places]
        BY GoesHasType DEF ConnectRefused, ReceiveMaster, ReceiveNothing, Places, Over
    <2>2. UNCHANGED <<server, conn, buffers, terminals, out, container>>
        BY DEF ConnectRefused, ReceiveMaster, ReceiveNothing
    <2> QED
        BY <2>1, <2>2 DEF TypeOK, Places, server, buffers, terminals, container
<1>3. MakeRaw(c) \/ Restore(c) => TypeOK'
    <2> SUFFICES ASSUME MakeRaw(c) \/ Restore(c) PROVE TypeOK'
        OBVIOUS
    <2>1. cpc' \in [Clients -> Places]
        BY GoesHasType DEF MakeRaw, Restore, Places, Over, Looped
    <2>2. /\ term' \in [Clients -> {"cooked", "raw"}]
          /\ UNCHANGED <<server, conn, buffers, why, out, container>>
        BY DEF MakeRaw, Restore, TypeOK
    <2> QED
        BY <2>1, <2>2 DEF TypeOK, Places, server, buffers, container
<1>4. PollMaster(c) \/ PollUser(c) => TypeOK'
    <2> SUFFICES ASSUME NEW e \in {"stdin", "master", "signal"}, Poll(c, e) PROVE TypeOK'
        BY DEF PollMaster, PollUser
    <2>1. cpc' \in [Clients -> Places]
        BY GoesHasType DEF Poll, Places, Looped
    <2>2. event' \in [Clients -> {"none", "stdin", "master", "signal"}]
        BY DEF Poll, TypeOK
    <2> QED
        BY <2>1, <2>2 DEF Poll, TypeOK, Places, server, terminals, container
<1>5. ReadTerminal(c) => TypeOK'
    <2> SUFFICES ASSUME ReadTerminal(c) PROVE TypeOK'
        OBVIOUS
    <2>1. cpc' \in [Clients -> Places]
        BY GoesHasType DEF ReadTerminal, Places, Looped
    <2>2. inbuf' \in [Clients -> 0 .. LineMax]
        BY DEF ReadTerminal, TypeOK
    <2> QED
        BY <2>1, <2>2 DEF ReadTerminal, TypeOK, Places, server, terminals, container
<1>6. Forward(c) \/ WindowChanges(c) => TypeOK'
    BY GoOnHasType, LeaveHasType DEF Forward, WindowChanges
<1>7. TerminalEnds(c) \/ SignalEnds(c) \/ ReadHangup(c) \/ ReadTooLate(c) => TypeOK'
    BY LeaveHasType DEF TerminalEnds, SignalEnds, ReadHangup, ReadTooLate
<1>8. ReadMaster(c) => TypeOK'
    <2> SUFFICES ASSUME ReadMaster(c) PROVE TypeOK'
        OBVIOUS
    <2>1. cpc' \in [Clients -> Places]
        BY GoesHasType DEF ReadMaster, Places, Looped
    <2>2. out' \in 0 .. nout'
        BY DEF ReadMaster, TypeOK, container
    <2> QED
        BY <2>1, <2>2 DEF ReadMaster, TypeOK, Places, server, buffers, terminals, container
<1>9. Show(c) => TypeOK'
    BY GoOnHasType DEF Show
<1>10. ClientFails(c) \/ ClientKilled(c) \/ ClientAbandons(c) => TypeOK'
    <2> SUFFICES ASSUME NEW how \in Over, ClientEnds(c, how) PROVE TypeOK'
        BY DEF ClientFails, ClientKilled, ClientAbandons, Over
    <2>1. cpc' \in [Clients -> Places] /\ conn' \in [Clients -> {"none", "open", "fd", "closed"}]
        BY DEF ClientEnds, TypeOK, Places
    <2> QED
        BY <2>1 DEF ClientEnds, TypeOK, Places, server, buffers, terminals, container
<1> QED
    BY <1>1, <1>2, <1>3, <1>4, <1>5, <1>6, <1>7, <1>8, <1>9, <1>10 DEF ClientWorks, UserActs

LEMMA TypeStep == TypeOK /\ [Next]_vars => TypeOK'
<1>1. UNCHANGED vars /\ TypeOK => TypeOK'
    BY DEF TypeOK, vars, server, buffers, terminals, container
<1> QED
    BY <1>1, ServerTypeStep, ClientTypeStep DEF Next

-----------------------------------------------------------------------------
(* The connections.                                                        *)

LEMMA QueueInit == Init => QueueInv
BY DEF Init, QueueInv

\* A client that is answered, or was never in the queue, is not in it.
LEMMA QueueStep == TypeOK /\ QueueInv /\ [Next]_vars => QueueInv'
<1> SUFFICES ASSUME TypeOK, QueueInv, [Next]_vars PROVE QueueInv'
    OBVIOUS
<1> USE DEF server, buffers, terminals, container, ClientGoes
<1>1. /\ conn \in [Clients -> {"none", "open", "fd", "closed"}]
      /\ cpc \in [Clients -> {"start", "receive", "setup", "restore"} \cup Looped \cup Over]
      /\ queue \in Seq(Clients) /\ Len(queue) \in Nat /\ DOMAIN queue = 1 .. Len(queue)
      /\ \A i \in DOMAIN queue : queue[i] \in Clients
    BY ElementOfSeq, LenProperties DEF TypeOK
\* A step that takes nobody out of the queue or into it, and leaves those alone
\* whose connection is unanswered.
<1>2. ASSUME UNCHANGED queue, srv' # "send" \/ UNCHANGED <<srv, peer>>,
             \A c \in Clients : Unanswered(c) =>
                 Unanswered(c)' \/ (srv = "send" /\ srv' # "send" /\ c = peer)
      PROVE  QueueInv'
    BY <1>1, <1>2 DEF QueueInv
<1>3. CASE Accept
    <2>1. /\ Head(queue) = queue[1] /\ 1 \in DOMAIN queue
          /\ DOMAIN queue' = 1 .. Len(queue) - 1
          /\ \A i \in 1 .. Len(queue) - 1 : queue'[i] = queue[i + 1] /\ i + 1 \in DOMAIN queue
        BY <1>1, <1>3, HeadTailProperties, LenProperties DEF Accept
    <2>2. peer' = queue[1] /\ srv' = "send" /\ UNCHANGED <<conn, cpc>>
        BY <1>3, <2>1 DEF Accept
    <2>3. \A c : Unanswered(c)' <=> Unanswered(c)
        BY <2>2 DEF Unanswered
    <2>4. \A i \in DOMAIN queue' : i + 1 \in DOMAIN queue /\ i + 1 # 1 /\ queue'[i] = queue[i + 1]
        BY <1>1, <2>1
    <2>5. /\ \A i \in DOMAIN queue : Unanswered(queue[i])
          /\ \A i, j \in DOMAIN queue : queue[i] = queue[j] => i = j
        BY DEF QueueInv
    <2>6. /\ \A i \in DOMAIN queue' : Unanswered(queue[i + 1]) /\ queue[i + 1] # queue[1]
          /\ queue[1] \in Clients /\ Unanswered(queue[1])
        BY <1>1, <2>1, <2>4, <2>5
    <2>7. /\ \A i \in DOMAIN queue' : Unanswered(queue[i])'
          /\ \A i \in DOMAIN queue' : queue'[i] # peer'
          /\ peer' \in Clients /\ Unanswered(peer)'
        BY <2>2, <2>3, <2>4, <2>6 DEF Unanswered
    <2>8. \A i, j \in DOMAIN queue' : queue'[i] = queue'[j] => i = j
        <3>1. \A i, j \in DOMAIN queue' : queue'[i] = queue'[j] => i + 1 = j + 1
            BY <2>4 DEF QueueInv
        <3> QED
            BY <1>1, <2>1, <3>1
    <2> QED
        BY <2>7, <2>8 DEF QueueInv
<1>4. CASE SendMaster \/ Refuse
    BY <1>1, <1>2, <1>4 DEF SendMaster, Refuse, ServerWaits, Unanswered
<1>5. ASSUME NEW how \in {"left", "failed", "sigpipe"}, ServerEnds(how)
      PROVE  QueueInv'
    BY <1>5 DEF ServerEnds, QueueInv
<1>6. CASE SendToNobody \/ ServerSeesDeath \/ ServerStopped \/ ServerFails
    BY <1>5, <1>6 DEF SendToNobody, ServerSeesDeath, ServerStopped, ServerFails
<1>7. CASE Write \/ ReopenSlave \/ ContainerEnds
    BY <1>2, <1>7 DEF Write, ReopenSlave, ContainerEnds, Unanswered
<1>8. ASSUME NEW c \in Clients, Connect(c)
      PROVE  QueueInv'
    <2>1. /\ DOMAIN queue' = 1 .. Len(queue) + 1
          /\ \A i \in DOMAIN queue : queue'[i] = queue[i]
          /\ queue'[Len(queue) + 1] = c
        BY <1>1, <1>8, AppendProperties, LenProperties DEF Connect
    <2>2. \A d \in Clients : Unanswered(d) => d # c /\ Unanswered(d)'
        BY <1>1, <1>8 DEF Connect, Unanswered
    <2>3. Unanswered(c)' /\ UNCHANGED <<srv, peer>>
        BY <1>1, <1>8 DEF Connect, Unanswered
    <2> QED
        BY <1>1, <2>1, <2>2, <2>3 DEF QueueInv
<1>9. ASSUME NEW c \in Clients, ConnectRefused(c) \/ ReceiveMaster(c) \/ ReceiveNothing(c)
      PROVE  QueueInv'
    BY <1>1, <1>2, <1>9 DEF ConnectRefused, ReceiveMaster, ReceiveNothing, Unanswered
<1>10. ASSUME NEW c \in Clients, UNCHANGED <<server, conn>>,
              cpc[c] \in Looped \cup {"setup", "restore"},
              cpc' = [cpc EXCEPT ![c] = cpc'[c]]
       PROVE  QueueInv'
    BY <1>1, <1>2, <1>10 DEF Unanswered, Looped
<1>11. ASSUME NEW c \in Clients, MakeRaw(c) \/ PollMaster(c) \/ PollUser(c) \/ ReadTerminal(c)
      PROVE  QueueInv'
    BY <1>1, <1>10, <1>11 DEF MakeRaw, PollMaster, PollUser, Poll, ReadTerminal, Looped
<1>12. ASSUME NEW c \in Clients, Forward(c) \/ TerminalEnds(c) \/ SignalEnds(c) \/ WindowChanges(c)
      PROVE  QueueInv'
    BY <1>1, <1>10, <1>12 DEF Forward, TerminalEnds, SignalEnds, WindowChanges, Leave, GoOn, Looped
<1>13. ASSUME NEW c \in Clients,
              ReadMaster(c) \/ ReadHangup(c) \/ ReadTooLate(c) \/ Show(c) \/ Restore(c)
      PROVE  QueueInv'
    BY <1>1, <1>10, <1>13 DEF ReadMaster, ReadHangup, ReadTooLate, Leave, GoOn, Show, Restore,
        Looped
<1>14. ASSUME NEW c \in Clients, ClientFails(c) \/ ClientKilled(c) \/ ClientAbandons(c)
      PROVE  QueueInv'
    BY <1>1, <1>2, <1>14
        DEF ClientFails, ClientKilled, ClientAbandons, ClientEnds, Unanswered, Over
<1>15. CASE UNCHANGED vars
    BY <1>2, <1>15 DEF vars, Unanswered
<1> QED
    BY <1>3, <1>4, <1>6, <1>7, <1>8, <1>9, <1>11, <1>12, <1>13, <1>14, <1>15
        DEF Next, ServerWorks, Environment, ClientWorks, UserActs

-----------------------------------------------------------------------------
(* The terminals and the supervisor.                                       *)

LEMMA KeptInit == Init => OwnerInv /\ TerminalsKept /\ SupervisorSurvives
BY DEF Init, OwnerInv, TerminalsKept, SupervisorSurvives, Looped

\* What one step can do with the terminal and the connection of a client.
KeptNow(c) ==
    /\ conn[c] = "fd" \/ cpc[c] \in Looped \cup {"setup", "restore"} => c \in Owners
    /\ term[c] = "raw" => c \in Owners /\ cpc[c] \in Looped \cup {"restore", "failed", "killed"}

LEMMA KeptStep ==
    TypeOK /\ OwnerInv /\ TerminalsKept /\ [Next]_vars => (OwnerInv /\ TerminalsKept)'
<1> SUFFICES ASSUME TypeOK, OwnerInv, TerminalsKept, [Next]_vars,
                    NEW d \in Clients
             PROVE  KeptNow(d)'
    BY DEF OwnerInv, TerminalsKept, KeptNow
<1> USE DEF server, buffers, terminals, container, ClientGoes, KeptNow, Looped, Over
<1>1. /\ conn \in [Clients -> {"none", "open", "fd", "closed"}]
      /\ cpc \in [Clients -> {"start", "receive", "setup", "restore"} \cup Looped \cup Over]
      /\ term \in [Clients -> {"cooked", "raw"}]
    BY DEF TypeOK
<1>2. KeptNow(d)
    BY DEF OwnerInv, TerminalsKept
<1>3. CASE UNCHANGED <<cpc, term>> /\ UNCHANGED conn
    BY <1>2, <1>3
<1>4. CASE Accept \/ Write \/ ReopenSlave \/ ContainerEnds \/ UNCHANGED vars
    BY <1>3, <1>4 DEF Accept, Write, ReopenSlave, ContainerEnds, vars
<1>5. CASE SendMaster \/ Refuse
    BY <1>1, <1>2, <1>5 DEF SendMaster, Refuse, ServerWaits
<1>6. ASSUME NEW how, ServerEnds(how)
      PROVE  KeptNow(d)'
    BY <1>1, <1>2, <1>6 DEF ServerEnds
<1>7. CASE SendToNobody \/ ServerSeesDeath \/ ServerStopped \/ ServerFails
    BY <1>6, <1>7 DEF SendToNobody, ServerSeesDeath, ServerStopped, ServerFails
<1>8. ASSUME NEW c \in Clients,
             Connect(c) \/ ConnectRefused(c) \/ ReceiveMaster(c) \/ ReceiveNothing(c) \/ MakeRaw(c)
      PROVE  KeptNow(d)'
    BY <1>1, <1>2, <1>8 DEF Connect, ConnectRefused, ReceiveMaster, ReceiveNothing, MakeRaw
<1>9. ASSUME NEW c \in Clients, UNCHANGED <<conn, term>>, cpc[c] \in Looped,
             cpc' = [cpc EXCEPT ![c] = cpc'[c]], cpc'[c] \in Looped \cup {"restore"}
      PROVE  KeptNow(d)'
    BY <1>1, <1>2, <1>9
<1>10. ASSUME NEW c \in Clients, PollMaster(c) \/ PollUser(c) \/ ReadTerminal(c)
      PROVE  KeptNow(d)'
    BY <1>1, <1>9, <1>10 DEF PollMaster, PollUser, Poll, ReadTerminal
<1>11. ASSUME NEW c \in Clients, Forward(c) \/ TerminalEnds(c) \/ SignalEnds(c) \/ WindowChanges(c)
      PROVE  KeptNow(d)'
    BY <1>1, <1>9, <1>11 DEF Forward, TerminalEnds, SignalEnds, WindowChanges, Leave, GoOn
<1>12. ASSUME NEW c \in Clients, ReadMaster(c) \/ ReadHangup(c) \/ ReadTooLate(c) \/ Show(c)
      PROVE  KeptNow(d)'
    BY <1>1, <1>9, <1>12 DEF ReadMaster, ReadHangup, ReadTooLate, Leave, GoOn, Show
<1>13. ASSUME NEW c \in Clients, Restore(c)
      PROVE  KeptNow(d)'
    BY <1>1, <1>2, <1>13 DEF Restore
<1>14. ASSUME NEW c \in Clients, ClientFails(c) \/ ClientKilled(c) \/ ClientAbandons(c)
      PROVE  KeptNow(d)'
    BY <1>1, <1>2, <1>14 DEF ClientFails, ClientKilled, ClientAbandons, ClientEnds
<1> QED
    BY <1>4, <1>5, <1>7, <1>8, <1>10, <1>11, <1>12, <1>13, <1>14
        DEF Next, ServerWorks, Environment, ClientWorks, UserActs

\* A client that is gone stays so, and only a message to such a one ends the
\* supervisor by a signal.
LEMMA SurvivesStep ==
    TypeOK /\ QueueInv /\ SupervisorSurvives /\ [Next]_vars => SupervisorSurvives'
<1> SUFFICES ASSUME TypeOK, QueueInv, SupervisorSurvives, [Next]_vars
             PROVE  SupervisorSurvives'
    OBVIOUS
<1>1. ASSUME NEW c \in Clients, cpc[c] = "abandoned"
      PROVE  cpc'[c] = "abandoned"
    <2> USE DEF server, buffers, terminals, container, ClientGoes, Looped, Over
    <2>1. cpc \in [Clients -> {"start", "receive", "setup", "restore"} \cup Looped \cup Over]
        BY DEF TypeOK
    <2>2. CASE UNCHANGED cpc
        BY <1>1, <2>2
    <2>3. CASE ServerWorks \/ Environment \/ UNCHANGED vars
        BY <2>2, <2>3 DEF ServerWorks, Environment, Accept, SendMaster, Refuse, ServerWaits,
            SendToNobody, ServerSeesDeath, ServerEnds, ServerStopped, ServerFails, Write,
            ReopenSlave, ContainerEnds, vars
    <2>4. ASSUME NEW d \in Clients, ClientWorks(d)
          PROVE  cpc'[c] = "abandoned"
        <3>1. cpc[d] # "abandoned" /\ cpc' = [cpc EXCEPT ![d] = cpc'[d]]
            BY <2>1, <2>4 DEF ClientWorks, Connect, ConnectRefused, ReceiveMaster, ReceiveNothing,
                MakeRaw, PollMaster, Poll, ReadTerminal, Forward, TerminalEnds, SignalEnds,
                WindowChanges, Leave, GoOn, ReadMaster, ReadHangup, ReadTooLate, Show, Restore
        <3> QED
            BY <1>1, <2>1, <3>1
    <2>5. ASSUME NEW d \in Clients, UserActs(d)
          PROVE  cpc'[c] = "abandoned"
        BY <1>1, <2>1, <2>5 DEF UserActs, PollUser, Poll, ClientFails, ClientKilled,
            ClientAbandons, ClientEnds
    <2> QED
        BY <2>3, <2>4, <2>5 DEF Next
<1>2. CASE SendToNobody
    <2>1. peer \in Owners /\ cpc[peer] = "abandoned" /\ peer \in Clients
        BY <1>2 DEF SendToNobody, QueueInv, Unanswered
    <2> QED
        BY <1>1, <2>1 DEF SupervisorSurvives
<1>3. CASE srv' # "sigpipe"
    BY <1>3 DEF SupervisorSurvives
<1>4. CASE srv' = srv
    BY <1>1, <1>4, ConsoleAssumption DEF SupervisorSurvives
<1>5. SendToNobody \/ srv' # "sigpipe" \/ srv' = srv
    BY DEF Next, ServerWorks, Environment, Accept, SendMaster, Refuse, ServerWaits,
        ServerSeesDeath, ServerEnds, ServerStopped, ServerFails, Write, ReopenSlave,
        ContainerEnds, vars, server, ClientWorks, UserActs, Connect, ConnectRefused,
        ReceiveMaster, ReceiveNothing, MakeRaw, PollMaster, PollUser, Poll, ReadTerminal,
        Forward, TerminalEnds, SignalEnds, WindowChanges, Leave, GoOn, ReadMaster, ReadHangup,
        ReadTooLate, Show, Restore, ClientFails, ClientKilled, ClientAbandons, ClientEnds
<1> QED
    BY <1>2, <1>3, <1>4, <1>5

-----------------------------------------------------------------------------
(* The theorems.                                                           *)

LEMMA Inductive == Spec => []IInv
<1>1. Init => IInv
    BY TypeInit, QueueInit, KeptInit DEF IInv
<1>2. IInv /\ [Next]_vars => IInv'
    BY TypeStep, QueueStep, KeptStep, SurvivesStep DEF IInv
<1> QED
    BY <1>1, <1>2, PTL DEF Spec

\* Every variable of the console keeps its type: the queue its length, the loops
\* their places.
THEOREM TypeCorrect == Spec => []TypeOK
<1>1. IInv => TypeOK
    BY DEF IInv
<1> QED
    BY <1>1, Inductive, PTL

\* No client of another uid gets as far as its terminal, and one that comes to the
\* end of its loop has put it back; those that fail or are killed in between leave
\* it raw (pty.c:142, 231, 324).
THEOREM TerminalsAreKept == Spec => []TerminalsKept
<1>1. IInv => TerminalsKept
    BY DEF IInv
<1> QED
    BY <1>1, Inductive, PTL

\* The supervisor is ended by a signal of its own making only when a client of its
\* uid went away unanswered (pty.c:324, 414).
THEOREM SupervisorIsKept == Spec => []SupervisorSurvives
<1>1. IInv => SupervisorSurvives
    BY DEF IInv
<1> QED
    BY <1>1, Inductive, PTL
=============================================================================
