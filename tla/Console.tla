------------------------------ MODULE Console ------------------------------
(***************************************************************************)
(* The terminal of a detached container, and the `pflask --attach`         *)
(* processes that share it (src/pty.c): serve_pty(), the loop of the       *)
(* supervisor, which hands the master of the pty to those who connect;     *)
(* recv_pty(), by which a client gets it; process_pty(), the loop of the   *)
(* client, which copies between its own terminal and the master.           *)
(*                                                                         *)
(* The master is one open file description, non-blocking, in the hands of  *)
(* the supervisor and of every attached client.  epoll_wait() and the      *)
(* read() after it are two steps: another client can come between them.    *)
(*                                                                         *)
(* Of the output it is kept how much there is, of a chunk of input the     *)
(* place of ^@ in it, 0 if there is none.  SIGWINCH changes nothing that   *)
(* is kept here.                                                           *)
(***************************************************************************)
EXTENDS Naturals, FiniteSets, Sequences

CONSTANTS
    Clients,        \* processes running pflask --attach
    Owners,         \* those with the effective uid of the supervisor
    Nobody,         \* no client
    Backlog,        \* connections the kernel queues before connect() blocks
    LineMax,        \* the most one read() returns
    MaxOut          \* bound: how much the container writes

ASSUME ConsoleAssumption ==
    /\ Owners \subseteq Clients /\ Nobody \notin Clients
    /\ Backlog \in Nat \ {0} /\ LineMax \in Nat \ {0} /\ MaxOut \in Nat

VARIABLES
    srv,        \* the supervisor: loop, send, left, failed, sigpipe
    peer,       \* the client accept() returned, while srv = "send"
    queue,      \* connections not yet accepted
    conn,       \* the client's connection: none, open, fd (sent), closed
    cpc,        \* where the client is
    event,      \* what epoll_wait() has told the client
    inbuf,      \* the chunk read from the client's terminal
    term,       \* the client's terminal: cooked or raw
    why,        \* what ended the client's loop
    out,        \* how much output is in the pty
    nout,       \* how much the container has written
    slave,      \* somebody has the slave open
    alive       \* the container lives

server    == <<srv, peer, queue>>
buffers   == <<event, inbuf>>
terminals == <<term, why>>
container == <<nout, slave, alive>>
vars      == <<server, conn, cpc, buffers, terminals, out, container>>

Over   == {"exited", "failed", "killed", "abandoned"}
Looped == {"wait", "read", "forward", "show"}

\* The processes that have the master open, but for the supervisor.
Attached == {c \in Clients : cpc[c] \in {"setup", "restore"} \cup Looped}

Listening == srv \in {"loop", "send"}

Init ==
    /\ srv = "loop" /\ peer = Nobody /\ queue = <<>>
    /\ conn = [c \in Clients |-> "none"]
    /\ cpc = [c \in Clients |-> "start"]
    /\ event = [c \in Clients |-> "none"]
    /\ inbuf = [c \in Clients |-> 0]
    /\ term = [c \in Clients |-> "cooked"] /\ why = [c \in Clients |-> "none"]
    /\ out = 0 /\ nout = 0 /\ slave = "open" /\ alive = TRUE

-----------------------------------------------------------------------------
(* The supervisor: serve_pty().                                            *)

Accept ==
    /\ srv = "loop" /\ queue # <<>>
    /\ srv' = "send"
    /\ peer' = Head(queue)
    /\ queue' = Tail(queue)
    /\ UNCHANGED <<conn, cpc, buffers, terminals, out, container>>

ServerWaits ==
    /\ srv' = "loop"
    /\ peer' = Nobody
    /\ UNCHANGED <<queue, cpc, buffers, terminals, out, container>>

SendMaster ==
    /\ srv = "send" /\ peer \in Owners
    /\ conn[peer] = "open"
    /\ conn' = [conn EXCEPT ![peer] = "fd"]
    /\ ServerWaits

\* Mutant: send_sock stays open.
RefuseSilently ==
    /\ srv = "send" /\ peer \notin Owners
    /\ UNCHANGED conn
    /\ ServerWaits

\* Another uid: send_sock is closed with nothing sent.
Refuse ==
    /\ srv = "send" /\ peer \notin Owners
    /\ conn' = [conn EXCEPT ![peer] = "closed"]
    /\ ServerWaits

\* The end of serve_pty(): the listening socket is closed, and with it the
\* connections it has queued and the one in hand.
ServerEnds(how) ==
    /\ Listening
    /\ srv' = how
    /\ peer' = Nobody
    /\ queue' = <<>>
    /\ conn' = [c \in Clients |-> IF conn[c] = "open" THEN "closed" ELSE conn[c]]
    /\ UNCHANGED <<cpc, buffers, terminals, out, container>>

\* Mutant: other uids get a message, too.
SendToNobodyElse ==
    /\ srv = "send"
    /\ conn[peer] # "open"
    /\ ServerEnds("sigpipe")

\* sendmsg() to a client that is gone: SIGPIPE, which nobody blocks or ignores.
SendToNobody ==
    /\ srv = "send" /\ peer \in Owners
    /\ conn[peer] # "open"
    /\ ServerEnds("sigpipe")

ServerSeesDeath == srv = "loop" /\ ~alive /\ ServerEnds("left")

\* SIGTERM, SIGINT, SIGRTMIN + 4.
ServerStopped == srv = "loop" /\ ServerEnds("left")

ServerFails == ServerEnds("failed")

-----------------------------------------------------------------------------
(* A client: recv_pty() and process_pty().                                 *)

ClientGoes(c, from, to) ==
    /\ cpc[c] = from
    /\ cpc' = [cpc EXCEPT ![c] = to]

\* Mutant: one connection more than there is room for.
ConnectAnyway(c) ==
    /\ Listening
    /\ Len(queue) <= Backlog
    /\ ClientGoes(c, "start", "receive")
    /\ queue' = Append(queue, c)
    /\ conn' = [conn EXCEPT ![c] = "open"]
    /\ UNCHANGED <<srv, peer, buffers, terminals, out, container>>

\* connect() waits for room in the queue.
Connect(c) ==
    /\ Listening
    /\ Len(queue) < Backlog
    /\ ClientGoes(c, "start", "receive")
    /\ queue' = Append(queue, c)
    /\ conn' = [conn EXCEPT ![c] = "open"]
    /\ UNCHANGED <<srv, peer, buffers, terminals, out, container>>

ConnectRefused(c) ==
    /\ ~Listening
    /\ ClientGoes(c, "start", "failed")
    /\ UNCHANGED <<server, conn, buffers, terminals, out, container>>

ReceiveMaster(c) ==
    /\ conn[c] = "fd"
    /\ ClientGoes(c, "receive", "setup")
    /\ UNCHANGED <<server, conn, buffers, terminals, out, container>>

\* recv_fd() finds no descriptor, and main() gives up.
ReceiveNothing(c) ==
    /\ conn[c] = "closed"
    /\ ClientGoes(c, "receive", "failed")
    /\ UNCHANGED <<server, conn, buffers, terminals, out, container>>

\* process_pty() up to its loop.
MakeRaw(c) ==
    /\ ClientGoes(c, "setup", "wait")
    /\ term' = [term EXCEPT ![c] = "raw"]
    /\ UNCHANGED <<server, conn, buffers, why, out, container>>

\* What epoll_wait() can report of the master: data, or that nobody has the
\* slave open.
MasterReady == out > 0 \/ slave = "closed"

Poll(c, e) ==
    /\ ClientGoes(c, "wait", "read")
    /\ event' = [event EXCEPT ![c] = e]
    /\ UNCHANGED <<server, conn, inbuf, terminals, out, container>>

PollMaster(c) == MasterReady /\ Poll(c, "master")
PollUser(c)   == \E e \in {"stdin", "signal"} : Poll(c, e)

Sees(c, e) == cpc[c] = "read" /\ event[c] = e

ReadTerminal(c) ==
    /\ Sees(c, "stdin")
    /\ ClientGoes(c, "read", "forward")
    /\ \E at \in 0 .. LineMax : inbuf' = [inbuf EXCEPT ![c] = at]
    /\ UNCHANGED <<server, conn, event, terminals, out, container>>

Leave(c, from, reason) ==
    /\ ClientGoes(c, from, "restore")
    /\ why' = [why EXCEPT ![c] = reason]
    /\ UNCHANGED <<server, conn, buffers, term, out, container>>

GoOn(c, from) ==
    /\ ClientGoes(c, from, "wait")
    /\ UNCHANGED <<server, conn, buffers, terminals, out, container>>

\* write() takes the first n bytes only, as the master does not block; ^@ is
\* looked for in these, and the others are forgotten.
Forward(c) ==
    \E n \in 1 .. LineMax :
        IF inbuf[c] \in 1 .. n THEN Leave(c, "forward", "key") ELSE GoOn(c, "forward")

TerminalEnds(c) == Sees(c, "stdin") /\ Leave(c, "read", "eof")
SignalEnds(c)   == Sees(c, "signal") /\ Leave(c, "read", "signal")
WindowChanges(c) == Sees(c, "signal") /\ GoOn(c, "read")

ReadMaster(c) ==
    /\ Sees(c, "master") /\ out > 0
    /\ ClientGoes(c, "read", "show")
    /\ \E n \in 1 .. LineMax : n <= out /\ out' = out - n
    /\ UNCHANGED <<server, conn, buffers, terminals, container>>

\* Mutant: an error of read() is no reason to leave.
ReadHangupGoOn(c) == Sees(c, "master") /\ out = 0 /\ slave = "closed" /\ GoOn(c, "read")

\* Mutant: hangup as soon as the slave is closed, data or not.
ReadHangupEarly(c) == Sees(c, "master") /\ slave = "closed" /\ Leave(c, "read", "hangup")

\* EIO.
ReadHangup(c) == Sees(c, "master") /\ out = 0 /\ slave = "closed" /\ Leave(c, "read", "hangup")

\* EAGAIN: somebody else has read what epoll_wait() announced.
ReadTooLate(c) == Sees(c, "master") /\ out = 0 /\ slave = "open" /\ Leave(c, "read", "late")

Show(c) == GoOn(c, "show")

\* Mutant: no tcsetattr() after the loop.
RestoreNothing(c) ==
    /\ ClientGoes(c, "restore", "exited")
    /\ UNCHANGED <<server, conn, buffers, terminals, out, container>>

Restore(c) ==
    /\ ClientGoes(c, "restore", "exited")
    /\ term' = [term EXCEPT ![c] = "cooked"]
    /\ UNCHANGED <<server, conn, buffers, why, out, container>>

\* A call fails or the client is killed; its connection is closed.
ClientEnds(c, how) ==
    /\ cpc[c] \notin Over \cup {"start"}
    /\ cpc' = [cpc EXCEPT ![c] = how]
    /\ conn' = [conn EXCEPT ![c] = "closed"]
    /\ UNCHANGED <<server, buffers, terminals, out, container>>

ClientFails(c)   == cpc[c] # "receive" /\ ClientEnds(c, "failed")
ClientKilled(c)  == cpc[c] # "receive" /\ ClientEnds(c, "killed")
ClientAbandons(c) == cpc[c] = "receive" /\ ClientEnds(c, "abandoned")

-----------------------------------------------------------------------------
(* The container.                                                          *)

Write ==
    /\ alive /\ slave = "open" /\ nout < MaxOut
    /\ nout' = nout + 1
    /\ out' = out + 1
    /\ UNCHANGED <<server, conn, cpc, buffers, terminals, slave, alive>>

\* A getty comes and goes.
ReopenSlave ==
    /\ alive
    /\ slave' \in {"open", "closed"}
    /\ UNCHANGED <<server, conn, cpc, buffers, terminals, out, nout, alive>>

ContainerEnds ==
    /\ alive
    /\ alive' = FALSE
    /\ slave' = "closed"
    /\ UNCHANGED <<server, conn, cpc, buffers, terminals, out, nout>>

-----------------------------------------------------------------------------
ServerWorks == Accept \/ SendMaster \/ Refuse \/ SendToNobody \/ ServerSeesDeath

ClientWorks(c) ==
    \/ Connect(c) \/ ConnectRefused(c) \/ ReceiveMaster(c) \/ ReceiveNothing(c)
    \/ MakeRaw(c) \/ PollMaster(c) \/ ReadTerminal(c) \/ Forward(c)
    \/ TerminalEnds(c) \/ SignalEnds(c) \/ WindowChanges(c)
    \/ ReadMaster(c) \/ ReadHangup(c) \/ ReadTooLate(c) \/ Show(c) \/ Restore(c)

UserActs(c) == PollUser(c) \/ ClientFails(c) \/ ClientKilled(c) \/ ClientAbandons(c)

Environment == ServerStopped \/ ServerFails \/ Write \/ ReopenSlave \/ ContainerEnds

Next ==
    \/ ServerWorks \/ Environment
    \/ \E c \in Clients : ClientWorks(c) \/ UserActs(c)

\* The processes are scheduled; epoll_wait() does not forget the master for the
\* sake of a terminal that is always ready.
Fairness ==
    /\ WF_vars(ServerWorks)
    /\ \A c \in Clients : WF_vars(ClientWorks(c)) /\ SF_vars(PollMaster(c))

Spec     == Init /\ [][Next]_vars
FairSpec == Spec /\ Fairness

-----------------------------------------------------------------------------
(* Properties.                                                             *)

\* Every variable has its type.
TypeOK ==
    /\ srv \in {"loop", "send", "left", "failed", "sigpipe"}
    /\ peer \in Clients \cup {Nobody}
    /\ queue \in Seq(Clients) /\ Len(queue) <= Backlog
    /\ conn \in [Clients -> {"none", "open", "fd", "closed"}]
    /\ cpc \in [Clients -> {"start", "receive", "setup", "restore"} \cup Looped \cup Over]
    /\ event \in [Clients -> {"none", "stdin", "master", "signal"}]
    /\ inbuf \in [Clients -> 0 .. LineMax]
    /\ term \in [Clients -> {"cooked", "raw"}]
    /\ why \in [Clients -> {"none", "key", "eof", "signal", "hangup", "late"}]
    /\ nout \in 0 .. MaxOut /\ out \in 0 .. nout
    /\ slave \in {"open", "closed"} /\ alive \in BOOLEAN

\* Only a client of the supervisor's uid gets as far as touching its terminal, and
\* one whose loop has come to its end has put it back: raw terminals are left by
\* those only that failed or were killed (pty.c:142, 231, 324, pflask.c:187).
TerminalsKept ==
    \A c \in Clients : term[c] = "raw" =>
        c \in Owners /\ cpc[c] \in Looped \cup {"restore", "failed", "killed"}

\* What clients do does not end the supervisor, with one exception: a client of
\* its own uid that goes away before it was answered (pty.c:324, 414).
SupervisorSurvives ==
    srv = "sigpipe" => \E c \in Owners : cpc[c] = "abandoned"

\* docs/pflask.rst:88: "To detach again press `^@` (Ctrl + @)."  A client that has
\* handed on a chunk with ^@ does not wait for the next one.
DetachKeyObeyed == \A c \in Clients : cpc[c] = "wait" => inbuf[c] = 0

\* Everyone who connects is answered or turned away, whatever the other clients
\* and the supervisor do (pty.c:310-326, 345).
ConnectAnswered == \A c \in Clients : cpc[c] = "receive" ~> cpc[c] # "receive"

\* When the container is over no client stays behind, be it waiting to connect,
\* connected or attached (pty.c:193, 337).
OverEndsClients == \A c \in Clients : ~alive ~> cpc[c] \in Over

\* A client that is attached when the container ends takes what is left of the
\* output, unless something else makes it leave (pty.c:189-194).
LastWordsRead ==
    \A c \in Clients :
        ~alive /\ cpc[c] \in Looped ~>
            \/ out = 0
            \/ why[c] \notin {"none", "hangup"}
            \/ cpc[c] \in {"failed", "killed"}
=============================================================================
