---------------------------- MODULE Capabilities ----------------------------
(***************************************************************************)
(* The --caps option: the list that capability_add() makes, the sets that  *)
(* setup_capabilities() makes of it with libcap-ng                         *)
(* (src/capabilities.c), and what exec leaves of these to the command.     *)
(*                                                                         *)
(* libcap-ng works on a copy of the process's sets: capng_update() changes *)
(* it, capng_apply() makes it the process's own, as far as the kernel lets *)
(* it.  The case of names and the prefix + mean nothing and are left out.  *)
(***************************************************************************)
EXTENDS Naturals, SequencesExt

CONSTANTS
    Caps,           \* capabilities
    setpcap,        \* the one that it takes to change the bounding set
    All, Unknown,   \* the alias, and a name that is no capability's
    MaxArgs,        \* bound: how many names there are in the option
    HeldSets        \* what the child may hold to begin with

CapabilitiesAssumption ==
    /\ setpcap \in Caps /\ Caps \cap {All, Unknown} = {} /\ All # Unknown
    /\ HeldSets \subseteq SUBSET Caps

Sets == [eff : SUBSET Caps, perm : SUBSET Caps, inh : SUBSET Caps, bound : SUBSET Caps]

VARIABLES
    args,       \* the option: [drop, name]
    root,       \* the command runs as the namespace's root
    list,       \* struct capability
    pc, i,      \* the step, and the place in args, then in list
    first,      \* the sets that the child starts with
    mine,       \* its sets
    copy        \* libcap-ng's

parameters == <<args, root, first>>
vars       == <<parameters, list, pc, i, mine, copy>>

Init ==
    /\ args \in BoundedSeq([drop : BOOLEAN, name : Caps \cup {All, Unknown}], MaxArgs)
    /\ root \in BOOLEAN
    /\ list = <<>> /\ pc = "add" /\ i = 1
    /\ \E held \in HeldSets, bound \in {Caps} \cup HeldSets :
           /\ held \subseteq bound
           /\ mine = [eff |-> held, perm |-> held, inh |-> {}, bound |-> bound]
    /\ first = mine
    /\ copy = [eff |-> {}, perm |-> {}, inh |-> {}, bound |-> {}]

Fail == pc' = "failed" /\ UNCHANGED <<parameters, list, i, mine, copy>>

-----------------------------------------------------------------------------
(* capability_add(), for every name.                                       *)

Accepted(a) == a.name # Unknown /\ (a.name = All => list = <<>>)

capability_add ==
    /\ pc = "add" /\ i <= Len(args)
    /\ IF Accepted(args[i])
       THEN /\ list' = Append(list, args[i])
            /\ i' = i + 1
            /\ UNCHANGED <<parameters, pc, mine, copy>>
       ELSE Fail

-----------------------------------------------------------------------------
(* setup_capabilities().                                                   *)

capng_get_caps_process ==
    /\ pc = "add" /\ i > Len(args)
    /\ pc' = "update" /\ i' = 1
    /\ copy' = mine
    /\ UNCHANGED <<parameters, list, mine>>

Changed(set, a) == IF a.drop THEN set \ {a.name} ELSE set \cup {a.name}

\* Mutant: without CAPNG_BOUNDING_SET.
UpdateUnbounded(a) ==
    [copy EXCEPT !.eff = Changed(@, a), !.perm = Changed(@, a), !.inh = Changed(@, a)]

Update(a) ==
    [eff |-> Changed(copy.eff, a), perm |-> Changed(copy.perm, a),
     inh |-> Changed(copy.inh, a), bound |-> Changed(copy.bound, a)]

Cleared == [eff |-> {}, perm |-> {}, inh |-> {}, bound |-> {}]

\* The alias starts with an empty set, or with what there is.
capng_update ==
    /\ pc = "update" /\ i <= Len(list)
    /\ copy' = IF list[i].name # All THEN Update(list[i])
               ELSE IF list[i].drop THEN Cleared ELSE copy
    /\ i' = i + 1
    /\ UNCHANGED <<parameters, list, pc, mine>>

\* prctl(PR_CAPBSET_DROP) for all that are not in the copy.
Bound == IF setpcap \in mine.eff THEN mine.bound \cap copy.bound ELSE mine.bound

\* What capset() lets a process take.
MayTake ==
    /\ copy.perm \subseteq mine.perm
    /\ copy.inh \subseteq mine.inh \cup Bound
    /\ setpcap \in mine.eff \/ copy.inh \subseteq mine.inh \cup mine.perm

capng_apply ==
    /\ pc = "update" /\ i > Len(list)
    /\ MayTake
    /\ pc' = "exec"
    /\ mine' = [copy EXCEPT !.bound = Bound]
    /\ UNCHANGED <<parameters, list, i, copy>>

\* Newer versions of libcap-ng report that the bounding set is out of reach.
ApplyFails ==
    /\ pc = "update" /\ i > Len(list)
    /\ ~MayTake \/ setpcap \notin mine.eff
    /\ Fail

\* execvpe() of a program without capabilities of its own.
exec ==
    /\ pc = "exec"
    /\ pc' = "running"
    /\ LET new == IF root THEN mine.inh \cup mine.bound ELSE {} IN
       mine' = [mine EXCEPT !.eff = new, !.perm = new]
    /\ UNCHANGED <<parameters, list, i, copy>>

Next ==
    \/ capability_add \/ capng_get_caps_process \/ capng_update
    \/ capng_apply \/ ApplyFails \/ exec

Spec == Init /\ [][Next]_vars

-----------------------------------------------------------------------------
(* Properties.                                                             *)

\* Every variable has its type.
TypeOK ==
    /\ pc \in {"add", "update", "exec", "running", "failed"} /\ root \in BOOLEAN
    /\ i \in 1 .. Len(args) + 1 /\ Len(list) <= Len(args)
    /\ mine \in Sets /\ copy \in Sets

Mentions(c) == {j \in DOMAIN args : args[j].name = c}
LastMention(c) == args[CHOOSE j \in Mentions(c) : \A l \in Mentions(c) : l <= j]
FromNone    == args # <<>> /\ Head(args) = [drop |-> TRUE, name |-> All]

\* What the option says of a capability: the last time it is named counts; those
\* that are not named are in a full set, and not in an empty one.
Asks(c) == IF Mentions(c) # {} THEN ~LastMention(c).drop ELSE ~FromNone

\* Where the child may change its bounding set, root's command has the capabilities
\* that the option says, of those there are for it: what was dropped does not come
\* back with exec, what was added is there (capabilities.c:44-108).
LastMentionCounts ==
    pc = "running" /\ root /\ setpcap \in first.eff =>
        mine.eff = {c \in first.bound : Asks(c)}

\* Nor does what was dropped come back later, to root or another user, with any
\* program that the command starts (capabilities.c:97-102).
DroppedForGood ==
    pc = "running" /\ setpcap \in first.eff => \A c \in Caps :
        ~Asks(c) => c \notin mine.perm \cup mine.inh \cup mine.bound
=============================================================================
