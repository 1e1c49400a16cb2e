------------------------------ MODULE Container ------------------------------
(***************************************************************************)
(* What pflask promises about one container, without processes, sockets or *)
(* signals: the command does not start before the host has finished        *)
(* preparing the container, what was acquired for it on the host is given  *)
(* back only when the command is over, and pflask returns its status only  *)
(* when nothing is left.  It may abort at any time, and then it cleans     *)
(* nothing up.  Pflask.tla implements this module.                         *)
(***************************************************************************)
CONSTANT Resource   \* what a container may take on the host

VARIABLES
    command,        \* none -> held (created, kept waiting) -> running -> over
    ready,          \* the host has prepared the container
    resources,      \* what the container has on the host
    supervisor      \* working, returned or aborted

vars == <<command, ready, resources, supervisor>>

TypeOK ==
    /\ command \in {"none", "held", "running", "over"}
    /\ ready \in BOOLEAN
    /\ resources \subseteq Resource
    /\ supervisor \in {"working", "returned", "aborted"}

Init ==
    /\ command = "none"
    /\ ready = FALSE
    /\ resources = {}
    /\ supervisor = "working"

Acquire(r) ==
    /\ supervisor = "working"
    /\ ~ready
    /\ resources' = resources \cup {r}
    /\ UNCHANGED <<command, ready, supervisor>>

Create ==
    /\ supervisor = "working"
    /\ command = "none"
    /\ command' = "held"
    /\ UNCHANGED <<ready, resources, supervisor>>

\* The command may be over by now: it died while it was held.
Prepare ==
    /\ supervisor = "working"
    /\ command # "none"
    /\ ready' = TRUE
    /\ UNCHANGED <<command, resources, supervisor>>

Run ==
    /\ command = "held"
    /\ ready
    /\ command' = "running"
    /\ UNCHANGED <<ready, resources, supervisor>>

End ==
    /\ command \in {"held", "running"}
    /\ command' = "over"
    /\ UNCHANGED <<ready, resources, supervisor>>

Release(r) ==
    /\ supervisor = "working"
    /\ command = "over"
    /\ resources' = resources \ {r}
    /\ UNCHANGED <<command, ready, supervisor>>

Return ==
    /\ supervisor = "working"
    /\ command = "over"
    /\ resources = {}
    /\ supervisor' = "returned"
    /\ UNCHANGED <<command, ready, resources>>

Abort ==
    /\ supervisor = "working"
    /\ supervisor' = "aborted"
    /\ UNCHANGED <<command, ready, resources>>

Next ==
    \/ \E r \in Resource : Acquire(r) \/ Release(r)
    \/ Create \/ Prepare \/ Run \/ End \/ Return \/ Abort

Spec == Init /\ [][Next]_vars
=============================================================================
