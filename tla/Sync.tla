-------------------------------- MODULE Sync --------------------------------
(***************************************************************************)
(* src/sync.c: the rendezvous of a process and the one it has just         *)
(* created, over an AF_LOCAL stream socket pair fd[0], fd[1].  The created *)
(* process works on fd[0] (the "..._parent" functions: it wakes or waits   *)
(* for its parent), the creator on fd[1] (the "..._child" functions).      *)
(*                                                                         *)
(* A pair is a value, so that a module with several pairs keeps one        *)
(* variable for each: inbox[e] holds the sequence numbers written to the   *)
(* other end and not yet read from fd[e], held[p] the ends process p has   *)
(* open.  clone() and fork() copy the descriptor table, so after either    *)
(* both processes hold both ends, and nobody closes one before the wait.   *)
(***************************************************************************)
EXTENDS Naturals, Sequences

\* The sequence numbers of sync.h.
SYNC_START == 0
SYNC_DONE  == 1
SyncSeq    == {SYNC_START, SYNC_DONE}

End     == {0, 1}
Peer(e) == 1 - e

Pair(P) == [inbox : [End -> Seq(SyncSeq)], held : [P -> SUBSET End]]

\* No pair yet: nobody holds an end.
NoPair(P) == [inbox |-> [e \in End |-> <<>>], held |-> [p \in P |-> {}]]

\* socketpair() in process p.
sync_init(P, p) == [NoPair(P) EXCEPT !.held[p] = End]

\* Mutant: each process closes the end it does not use.
InheritOwnEnd(s, p, q) == [s EXCEPT !.held[p] = {1}, !.held[q] = {0}]

\* clone() or fork() of q by p: q gets a copy of p's descriptor table.
Inherit(s, p, q) == [s EXCEPT !.held[q] = s.held[p]]

\* sync_close(), and what the kernel does when p is gone.
sync_close(s, p) == [s EXCEPT !.held[p] = {}]

\* Somebody, the writer itself included, can still read what fd[e] writes.
Connected(s, e) == \E p \in DOMAIN s.held : Peer(e) \in s.held[p]

sync_wake(s, e, seq) == [s EXCEPT !.inbox[Peer(e)] = Append(@, seq)]

\* read() on fd[e] returns 0: nothing left, and no descriptor of the other end.
AtEof(s, e) == s.inbox[e] = <<>> /\ ~Connected(s, e)

(***************************************************************************)
(* sync_wait() returns to its caller on the expected number and, just the  *)
(* same, on end of file; it ends the process on any other number.          *)
(***************************************************************************)
WaitReturns(s, e, seq) ==
    \/ s.inbox[e] # <<>> /\ Head(s.inbox[e]) = seq
    \/ AtEof(s, e)

WaitFails(s, e, seq) == s.inbox[e] # <<>> /\ Head(s.inbox[e]) # seq

\* The pair after the read() of sync_wait().
Received(s, e) ==
    IF s.inbox[e] = <<>> THEN s ELSE [s EXCEPT !.inbox[e] = Tail(@)]

=============================================================================
