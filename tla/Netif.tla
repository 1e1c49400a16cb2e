------------------------------- MODULE Netif -------------------------------
(***************************************************************************)
(* The network interfaces of a container (src/netif.c over src/nl.c):      *)
(* what setup_netif() does on the host for the --netif options, next to    *)
(* other programs that rename or remove interfaces, as udev does with new  *)
(* ones; config_netif() in the container; and the end of the container's   *)
(* network namespace.                                                      *)
(*                                                                         *)
(* A request to the kernel and its answer are one step: pflask sends one   *)
(* at a time and waits for the acknowledgement.  if_nametoindex() is a     *)
(* step of its own.  Fields of a request that are never set hold anything. *)
(***************************************************************************)
EXTENDS Naturals, FiniteSets, Sequences

CONSTANTS
    Lists,          \* --netif options: sequences of the words of each
    Devices,        \* interfaces of the host: [name, kind]
    Temp,           \* the name pflask-<pid>, which no option can know
    OtherNames,     \* names that other programs give
    MaxMeddle       \* bound: how often they rename or remove an interface

Kinds == {"loopback", "physical", "virtual"}

NetifAssumption ==
    /\ Lists \subseteq Seq(Seq(STRING))
    /\ \A l \in Lists : \A j \in DOMAIN l : \A n \in DOMAIN l[j] : l[j][n] # Temp
    /\ \A d \in Devices : d.kind \in Kinds
    /\ \A d, e \in Devices : d.name = e.name => d = e
    /\ Temp \notin OtherNames /\ MaxMeddle \in Nat

VARIABLES
    args,       \* the options
    newnet,     \* CLONE_NEWNET, that is, without --no-netns
    list,       \* struct netif: type, dev, name
    pc, k,      \* the step, and the place in args, then in list
    if_index,   \* the one that is to be moved, or Zero
    ifs,        \* the interfaces there are
    found,      \* what if_nametoindex(i->dev) has found, by place in the list
    made,       \* what was created
    moved,      \* what was moved
    meddled     \* how often others have renamed or removed one

parameters == <<args, newnet, list>>
history    == <<found, made, moved>>
vars       == <<parameters, pc, k, if_index, ifs, history, meddled>>

\* An index that is no interface's.
Zero == <<"zero", 0>>

Interface(id, ns, name, kind, of, up) ==
    [id |-> id, ns |-> ns, name |-> name, kind |-> kind, of |-> of, up |-> up]

Named(ns, name) == {i \in ifs : i.ns = ns /\ i.name = name}
If(id)          == CHOOSE i \in ifs : i.id = id
Exists(id)      == \E i \in ifs : i.id = id
OnHost(id)      == \E i \in ifs : i.id = id /\ i.ns = "host"

if_nametoindex(name) ==
    IF Named("host", name) = {} THEN Zero ELSE (CHOOSE i \in Named("host", name) : TRUE).id

\* The container's namespace, or the host's if it has none of its own.
Target == IF newnet THEN "new" ELSE "host"

HostId(name) == <<"host", name>>

Init ==
    /\ args \in Lists /\ newnet \in BOOLEAN
    /\ list = <<>> /\ pc = "parse" /\ k = 1 /\ if_index = Zero
    /\ ifs = {Interface(HostId(d.name), "host", d.name, d.kind, Zero, TRUE) : d \in Devices}
             \cup (IF newnet
                   THEN {Interface(<<"new", 0>>, "new", "lo", "loopback", Zero, FALSE)} ELSE {})
    /\ found = [j \in DOMAIN args |-> Zero]
    /\ made = [j \in DOMAIN args |-> Zero] /\ moved = [j \in DOMAIN args |-> Zero]
    /\ meddled = 0

Fail ==
    /\ pc' = "failed"
    /\ UNCHANGED <<parameters, k, if_index, ifs, history, meddled>>

-----------------------------------------------------------------------------
(* The options.                                                            *)

Makers == {"macvlan", "ipvlan", "veth"}

Accepted(a) ==
    IF if_nametoindex(a[1]) # Zero THEN Len(a) >= 2 ELSE a[1] \in Makers /\ Len(a) >= 3

\* An interface of the host comes before the three words.
FromSpec(a) ==
    IF if_nametoindex(a[1]) # Zero
    THEN [type |-> "move", dev |-> a[1], name |-> a[2]]
    ELSE [type |-> a[1], dev |-> a[2], name |-> a[3]]

Added ==
    /\ pc' = "parse" /\ k' = k + 1
    /\ UNCHANGED <<args, newnet, if_index, ifs, history, meddled>>

\* main() for each --netif in turn: one without a value, here <<>>, adds nothing.
netif_add_from_spec ==
    /\ pc = "parse" /\ k <= Len(args)
    /\ IF args[k] = <<>> THEN Added /\ UNCHANGED list
       ELSE IF Accepted(args[k]) THEN Added /\ list' = Append(list, FromSpec(args[k]))
       ELSE Fail

OptionsRead ==
    /\ pc = "parse" /\ k > Len(args)
    /\ pc' = "find" /\ k' = 1
    /\ UNCHANGED <<parameters, if_index, ifs, history, meddled>>

-----------------------------------------------------------------------------
(* setup_netif().                                                          *)

Goes(from, to) ==
    /\ pc = from /\ k <= Len(list)
    /\ pc' = to
    /\ UNCHANGED <<parameters, k, meddled>>

\* Mutant: the index of an interface to be moved is not looked at.
FindUnchecked ==
    /\ Goes("find", IF list[k].type = "move" THEN "move" ELSE "create")
    /\ IF list[k].type = "veth" THEN UNCHANGED <<found, if_index>>
       ELSE LET i == if_nametoindex(list[k].dev) IN
            /\ list[k].type = "move" \/ i # Zero
            /\ found' = [found EXCEPT ![k] = i]
            /\ if_index' = IF list[k].type = "move" THEN i ELSE if_index
    /\ UNCHANGED <<ifs, made, moved>>

\* The interface to be moved, or the master of the new one.
FindDev ==
    /\ Goes("find", IF list[k].type = "move" THEN "move" ELSE "create")
    /\ IF list[k].type = "veth" THEN UNCHANGED <<found, if_index>>
       ELSE LET i == if_nametoindex(list[k].dev) IN
            /\ i # Zero
            /\ found' = [found EXCEPT ![k] = i]
            /\ if_index' = IF list[k].type = "move" THEN i ELSE if_index
    /\ UNCHANGED <<ifs, made, moved>>

DevMissing ==
    /\ pc = "find" /\ k <= Len(list) /\ list[k].type # "veth"
    /\ if_nametoindex(list[k].dev) = Zero
    /\ Fail

\* create_macvlan(), create_ipvlan(): the index, the flags and the mask of the
\* flags are not set, so the interface may be up from the start.
CreateOnMaster ==
    /\ Goes("create", "locate")
    /\ list[k].type \in {"macvlan", "ipvlan"}
    /\ Named("host", Temp) = {} /\ OnHost(found[k])
    /\ \E up \in BOOLEAN :
           ifs' = ifs \cup {Interface(<<"made", k>>, "host", Temp, list[k].type, found[k], up)}
    /\ made' = [made EXCEPT ![k] = <<"made", k>>]
    /\ UNCHANGED <<found, if_index, moved>>

\* create_veth_pair().
CreatePair ==
    /\ Goes("create", "locate")
    /\ list[k].type = "veth"
    /\ Named("host", Temp) = {} /\ Named("host", list[k].dev) = {}
    /\ \E up \in BOOLEAN :
           ifs' = ifs \cup {Interface(<<"made", k>>, "host", Temp, "veth", <<"peer", k>>, FALSE),
                            Interface(<<"peer", k>>, "host", list[k].dev, "veth", <<"made", k>>, up)}
    /\ made' = [made EXCEPT ![k] = <<"made", k>>]
    /\ UNCHANGED <<found, if_index, moved>>

\* The names are taken, the master is gone, or what the unset fields hold makes no
\* sense to the kernel.
CreateFails == pc = "create" /\ Fail

\* Mutant: the result is never looked at.
LocateUnchecked ==
    /\ Goes("locate", "move")
    /\ if_index' = if_nametoindex(Temp)
    /\ UNCHANGED <<ifs, history>>

\* if_nametoindex(name): the result is looked at for a veth only.
Locate ==
    /\ Goes("locate", "move")
    /\ if_index' = if_nametoindex(Temp)
    /\ list[k].type = "veth" => if_index' # Zero
    /\ UNCHANGED <<ifs, history>>

LocateFails == pc = "locate" /\ list[k].type = "veth" /\ if_nametoindex(Temp) = Zero /\ Fail

\* The interface of a move_and_rename_if() request: with index 0 the kernel goes
\* by the name in the request, which is the new one.
Subject == IF if_index = Zero THEN if_nametoindex(list[k].name) ELSE if_index

\* A loopback stays where it is; in the other namespace the name must be free.
Movable == Subject # Zero /\ OnHost(Subject) /\ If(Subject).kind # "loopback"

Renames == If(Subject).name # list[k].name

NameFree == Named(Target, list[k].name) = {}

CanRename ==
    IF newnet THEN NameFree ELSE Renames => NameFree

\* An interface is closed on its way to another namespace, but then its flags are
\* set to whatever the request holds.
Placed(name, up) ==
    (ifs \ {If(Subject)}) \cup
        {[If(Subject) EXCEPT !.ns = Target, !.name = name, !.up = up]}

\* Mutant: the answer is not looked at.
MoveUnchecked ==
    /\ pc = "move"
    /\ pc' = "find" /\ k' = k + 1 /\ if_index' = Zero
    /\ IF Movable /\ CanRename
       THEN \E up \in BOOLEAN :
                ifs' = Placed(list[k].name, up) /\ moved' = [moved EXCEPT ![k] = Subject]
       ELSE UNCHANGED <<ifs, moved>>
    /\ UNCHANGED <<parameters, found, made, meddled>>

move_and_rename_if ==
    /\ pc = "move" /\ Movable /\ CanRename
    /\ pc' = "find" /\ k' = k + 1 /\ if_index' = Zero
    /\ \E up \in BOOLEAN : ifs' = Placed(list[k].name, up)
    /\ moved' = [moved EXCEPT ![k] = Subject]
    /\ UNCHANGED <<parameters, found, made, meddled>>

\* An interface that is up may have to keep its name.
Refusable ==
    IF ~Movable THEN TRUE
    ELSE ~CanRename \/ (~newnet /\ Renames /\ If(Subject).up)

MoveFails == pc = "move" /\ Refusable /\ Fail

\* It is moved, and then its new name is taken or the flags cannot be set.
MoveThenFail ==
    /\ pc = "move" /\ newnet /\ Movable
    /\ CanRename \/ (if_index # Zero /\ Named(Target, If(Subject).name) = {})
    /\ pc' = "failed"
    /\ ifs' = Placed(IF CanRename THEN list[k].name ELSE If(Subject).name, FALSE)
    /\ moved' = [moved EXCEPT ![k] = Subject]
    /\ UNCHANGED <<parameters, k, found, if_index, made, meddled>>

AllSetUp ==
    /\ pc = "find" /\ k > Len(list)
    /\ pc' = IF newnet THEN "config" ELSE "running"
    /\ UNCHANGED <<parameters, k, if_index, ifs, history, meddled>>

-----------------------------------------------------------------------------
(* The container, its end, and other programs.                             *)

\* if_up() of index 1.
config_netif ==
    /\ pc = "config"
    /\ pc' = "running"
    /\ ifs' = {IF i.id = <<"new", 0>> THEN [i EXCEPT !.up = TRUE] ELSE i : i \in ifs}
    /\ UNCHANGED <<parameters, k, if_index, history, meddled>>

ConfigFails == pc = "config" /\ Fail

\* What goes with the namespace: all but the physical interfaces, the other ends of
\* pairs, and what is on top of these.
Doomed == {i.id : i \in {i \in ifs : i.ns = "new" /\ i.kind # "physical"}}
Taken  == Doomed \cup {i.id : i \in {i \in ifs : i.of \in Doomed}}

\* Physical interfaces come back under the names that they have, or, where these
\* are taken, under new ones.
Back(i) ==
    [i EXCEPT !.ns = "host",
              !.name = IF Named("host", i.name) = {} THEN i.name ELSE "dev" \o i.name,
              !.up = FALSE]

NamespaceEnds ==
    /\ pc \in {"running", "failed"}
    /\ pc' = "over"
    /\ ifs' = {IF i.ns = "new" THEN Back(i) ELSE i : i \in {i \in ifs : i.id \notin Taken}}
    /\ UNCHANGED <<parameters, k, if_index, history, meddled>>

Meddle(changed) ==
    /\ pc \notin {"running", "over"} /\ meddled < MaxMeddle
    /\ meddled' = meddled + 1
    /\ ifs' = changed
    /\ UNCHANGED <<parameters, pc, k, if_index, history>>

OthersRename ==
    \E i \in {i \in ifs : i.ns = "host" /\ i.kind # "loopback"}, n \in OtherNames :
        /\ Named("host", n) = {}
        /\ Meddle((ifs \ {i}) \cup {[i EXCEPT !.name = n]})

\* With one end of a pair the other one goes.
OthersRemove ==
    \E i \in {i \in ifs : i.ns = "host" /\ i.kind \notin {"loopback", "physical"}} :
        Meddle({j \in ifs : j # i /\ j.of # i.id})

Next ==
    \/ netif_add_from_spec \/ OptionsRead \/ FindDev \/ DevMissing
    \/ CreateOnMaster \/ CreatePair \/ CreateFails \/ Locate \/ LocateFails
    \/ move_and_rename_if \/ MoveFails \/ MoveThenFail \/ AllSetUp
    \/ config_netif \/ ConfigFails \/ NamespaceEnds \/ OthersRename \/ OthersRemove

Spec == Init /\ [][Next]_vars

-----------------------------------------------------------------------------
(* Properties.                                                             *)

\* Every variable has its type, and in a namespace a name is one interface's.
TypeOK ==
    /\ args \in Lists /\ newnet \in BOOLEAN
    /\ pc \in {"parse", "find", "create", "locate", "move", "config", "running", "failed", "over"}
    /\ k \in 1 .. (IF pc = "parse" THEN Len(args) ELSE Len(list)) + 1 /\ meddled \in 0 .. MaxMeddle
    /\ \A j \in DOMAIN list : list[j].type \in Makers \cup {"move"}
    /\ \A i \in ifs : i.ns \in {"host", "new"} /\ i.kind \in Kinds \cup Makers /\ i.up \in BOOLEAN
    /\ \A i, j \in ifs : i # j => i.id # j.id /\ <<i.ns, i.name>> # <<j.ns, j.name>>

IsMove(j) == list[j].type = "move"

\* Another program has taken away what the j-th option made, or its name.
Interfered(j) == list[j].type # "veth" /\ ~\E i \in ifs : i.id = made[j] /\ i.name = Temp

\* No interface gets into the container but the one that had the name in the option
\* when it was looked up, or the one that the option has made, whatever other programs
\* do meanwhile; in place of a macvlan or an ipvlan that they rename or remove the
\* kernel may take another (netif.c:126-164).
OnlyNamedMoved ==
    \A j \in DOMAIN moved : moved[j] # Zero =>
        IF IsMove(j) THEN moved[j] = found[j] ELSE moved[j] = made[j] \/ Interfered(j)

\* When the command starts each option has its interface in the container, under
\* the name it gave, unless others have removed it.  Where the container has no
\* namespace of its own all stays within their reach: there they may have renamed it,
\* too, or a later option has taken the same one (netif.c:111-166).
Delivered ==
    pc \in {"config", "running"} => \A j \in DOMAIN list :
        \/ \E i \in ifs : i.id = moved[j] /\ i.ns = Target /\ i.name = list[j].name
        \/ meddled > 0 /\ (newnet => ~Exists(moved[j]))
        \/ ~newnet /\ \E l \in DOMAIN moved : l > j /\ moved[l] = moved[j] /\ moved[l] # Zero

\* When the container is over none of the interfaces pflask made is left, but for
\* the one that it was working on when it failed, and one that another program
\* took out of its hands (netif.c:126-164, README.rst:84).
NothingLeft ==
    pc = "over" /\ newnet => \A j \in DOMAIN made : Exists(made[j]) =>
        moved[j] # made[j] /\ (j = k \/ Interfered(j))
=============================================================================
