----------------------------- MODULE MCOptions -----------------------------
(***************************************************************************)
(* What pflask makes of its options, a part at a time: the command line,   *)
(* the values of --mount and --user-map, --caps, the requests of --netif   *)
(* and what they do, --user.  The parts share no state of the program.     *)
(*                                                                         *)
(* A behaviour is one of the part that `part' names.  The variables that   *)
(* have the same name in several parts are that part's, those of the other *)
(* parts are None.  The definitions are the inputs of the parts.           *)
(***************************************************************************)
EXTENDS Naturals, FiniteSets, SequencesExt

CONSTANTS
    Multiple, Single, Integer, Flags, Comma, Backslash, Letters, Digits, CommandLines,
    MountValues, MapValues, Empty, Paths, Number, IdBits,
    Caps, setpcap, All, MaxArgs, HeldSets,
    Lengths, OtherLengths,
    Lists, Devices, Temp, OtherNames, MaxMeddle,
    Passwd, Invokers, SubIds, UserMaps, TtyGids, Groups,
    Unknown         \* no user's name, and no capability's

VARIABLES
    part,
    pc, i, args, list,                                      \* of several parts
    argv, at, rest, lists, prev, given, arg,                \* Cmdline
    option, value, entry,                                   \* Optlist
    root, first, mine, copy,                                \* Capabilities
    request, len, header, nested, answer,                   \* Netlink
    newnet, k, if_index, ifs, found, made, moved, meddled,  \* Netif
    opts, userns, users, umap, gmap, helper, console, cred, caps    \* User

lineVars    == <<argv, at, rest, lists, prev, given, arg>>
optlistVars == <<option, value, entry>>
capsVars    == <<root, first, mine, copy>>
requestVars == <<request, len, header, nested, answer>>
netifVars   == <<newnet, k, if_index, ifs, found, made, moved, meddled>>
userVars    == <<opts, userns, users, umap, gmap, helper, console, cred, caps>>

vars == <<part, pc, i, args, list, lineVars, optlistVars, capsVars, requestVars, netifVars,
          userVars>>

Line    == INSTANCE Cmdline
Fields  == INSTANCE Optlist
Cap     == INSTANCE Capabilities
Request == INSTANCE Netlink
Net     == INSTANCE Netif
Who     == INSTANCE User

ASSUME Inputs ==
    /\ Line!CmdlineAssumption /\ Fields!OptlistAssumption /\ Cap!CapabilitiesAssumption
    /\ Request!NetlinkAssumption /\ Net!NetifAssumption /\ Who!UserAssumption

-----------------------------------------------------------------------------
(* Inputs.                                                                 *)

\* Up to three options, with short values; and one option with a long value.
Chars(letters) == letters \cup {Comma, Backslash}
ShortOptions ==
    [opt : Multiple, val : BoundedSeq(Chars({"a", "9"}), 2) \cup {<<"null">>}]
    \cup [opt : {"chroot", "user", "attach"}, val : {"a", "9"}]
    \cup [opt : {"ephemeral", "invalid", "help"}, val : {<<"null">>}]
SomeLines ==
    BoundedSeq(ShortOptions, 3)
    \cup {<<o>> : o \in [opt : {"mount"}, val : BoundedSeq(Chars({"a"}), 7)]}

\* A word, or none, and up to three fields; and one field too many.
Words  == {"", "bind", "bind-ro", "bindro", "overlay", "tmp", "other", "/p", "/q", "rel"}
Mounts == {<<w>> \o s : w \in Words, s \in BoundedSeq({"", "/p", "/q", "rel"}, 4)}

\* With ids of two bits.
Numerals == [f \in {"", "0", "1", "3", "4", "5"} |->
                CASE f = "1" -> 1 [] f = "3" -> 3 [] f = "4" -> 4 [] f = "5" -> 5 [] OTHER -> 0]
Maps == BoundedSeq(DOMAIN Numerals \cup {"junk"}, 4) \ {<<>>}

\* A full set, sets that lack something, and none.
ThreeCaps == {"setpcap", "chown", "net_raw"}
SomeHeld  == {ThreeCaps, {"chown", "net_raw"}, {"setpcap", "chown"}, {}}

HostDevices == {[name |-> "lo", kind |-> "loopback"], [name |-> "eth0", kind |-> "physical"],
                [name |-> "dummy0", kind |-> "virtual"]}

\* Each type, in conflict over names and masters; options that are refused; and a
\* third option that finds another interface under the name of the first one's.
NetOptions == {<<>>, <<"eth0", "net0">>, <<"dummy0", "net1">>, <<"lo", "net0">>,
               <<"macvlan", "eth0", "eth0">>, <<"macvlan", "dummy0", "net0">>,
               <<"ipvlan", "eth0", "net1">>, <<"veth", "out", "net0">>, <<"veth", "out", "lo">>,
               <<"eth0">>, <<"veth", "out">>, <<"wlan0", "net0">>}
Swapped == <<<<"eth0", "net0">>, <<"dummy0", "eth0">>, <<"eth0", "net1">>>>
Pairs == {<<o>> : o \in NetOptions} \cup (NetOptions \X NetOptions) \cup {Swapped}

Accounts == [root |-> [uid |-> 0, gid |-> 0], bob |-> [uid |-> 2, gid |-> 1]]

\* None; a container with root; its root is the invoker; others that are the
\* invoker or nobody's; extents that overlap; none of whose ids is root.
SomeMaps ==
    {<<>>, <<<<0, 10, 6>>>>, <<<<0, 3, 1>>>>, <<<<0, 3, 1>>, <<1, 10, 5>>>>,
     <<<<0, 0, 3>>>>, <<<<0, 0, 1>>, <<1, 10, 3>>>>, <<<<0, 10, 2>>, <<1, 13, 2>>>>,
     <<<<2, 10, 1>>, <<3, 3, 1>>>>, <<<<0, 10, 0>>>>}

-----------------------------------------------------------------------------
(* The parts next to each other.                                           *)

None == "none"

NoLine ==
    /\ argv = None /\ at = None /\ rest = None /\ lists = None /\ prev = None
    /\ given = None /\ arg = None
NoOptlist == option = None /\ value = None /\ entry = None
NoCaps    == root = None /\ first = None /\ mine = None /\ copy = None
NoRequest == request = None /\ len = None /\ header = None /\ nested = None /\ answer = None
NoNetif   ==
    /\ newnet = None /\ k = None /\ if_index = None /\ ifs = None
    /\ found = None /\ made = None /\ moved = None /\ meddled = None
NoUser    ==
    /\ opts = None /\ userns = None /\ users = None /\ umap = None /\ gmap = None
    /\ helper = None /\ console = None /\ cred = None /\ caps = None
NoArgs    == args = None /\ list = None

Init ==
    \/ /\ part = "line" /\ Line!Init /\ i = None
       /\ NoArgs /\ NoOptlist /\ NoCaps /\ NoRequest /\ NoNetif /\ NoUser
    \/ /\ part = "optlist" /\ Fields!Init /\ i = None
       /\ NoArgs /\ NoLine /\ NoCaps /\ NoRequest /\ NoNetif /\ NoUser
    \/ /\ part = "caps" /\ Cap!Init
       /\ NoLine /\ NoOptlist /\ NoRequest /\ NoNetif /\ NoUser
    \/ /\ part = "request" /\ Request!Init
       /\ NoArgs /\ NoLine /\ NoOptlist /\ NoCaps /\ NoNetif /\ NoUser
    \/ /\ part = "netif" /\ Net!Init /\ i = None
       /\ NoLine /\ NoOptlist /\ NoCaps /\ NoRequest /\ NoUser
    \/ /\ part = "user" /\ Who!Init
       /\ NoArgs /\ NoLine /\ NoOptlist /\ NoCaps /\ NoRequest /\ NoNetif

LineStep ==
    /\ part = "line" /\ Line!Next
    /\ UNCHANGED <<part, i, args, list, optlistVars, capsVars, requestVars, netifVars, userVars>>
OptlistStep ==
    /\ part = "optlist" /\ Fields!Next
    /\ UNCHANGED <<part, i, args, list, lineVars, capsVars, requestVars, netifVars, userVars>>
CapsStep ==
    /\ part = "caps" /\ Cap!Next
    /\ UNCHANGED <<part, lineVars, optlistVars, requestVars, netifVars, userVars>>
RequestStep ==
    /\ part = "request" /\ Request!Next
    /\ UNCHANGED <<part, args, list, lineVars, optlistVars, capsVars, netifVars, userVars>>
NetifStep ==
    /\ part = "netif" /\ Net!Next
    /\ UNCHANGED <<part, i, lineVars, optlistVars, capsVars, requestVars, userVars>>
UserStep ==
    /\ part = "user" /\ Who!Next
    /\ UNCHANGED <<part, args, list, lineVars, optlistVars, capsVars, requestVars, netifVars>>

Next == LineStep \/ OptlistStep \/ CapsStep \/ RequestStep \/ NetifStep \/ UserStep

Spec == Init /\ [][Next]_vars

-----------------------------------------------------------------------------
(* Properties: those of the parts, stated and explained in their modules.  *)

\* A command line that is accepted means what is written: a multiple option has the
\* values of all its occurrences in order, cut at the commas that are not escaped, no
\* other option is there twice, and each of them has its value or its default
\* (cmdline.c:282, 453-530, 681-686, 724-846, 897).
OptionsAsWritten == part = "line" => Line!OrderKept /\ Line!GivenOnce

\* A value is crashed on only if it has nothing but colons, and each field of one
\* that was written in full and understood has its meaning (mount.c:94-131,
\* pflask.c:140-160).
FieldsHaveMeaning == part = "optlist" => Fields!FieldsHaveMeaning

\* Where the child may change its bounding set, the last mention of a capability
\* counts: root's command has what the option says, and nothing that was dropped
\* comes back later, to root or another user, with any program that the command
\* starts (capabilities.c:44-108).
CapsAsAsked == part = "caps" => Cap!LastMentionCounts /\ Cap!DroppedForGood

\* Every netlink request says what it is to say when the kernel reads it, for names
\* of any length (nl.c:41-64, netif.c:173-315).
ReadAsMeant == part = "request" => Request!ReadAsMeant

\* A request that the kernel refuses is never taken for one that it has carried
\* out (nl.c:112-135, netif.c:189-191).
RefusalHeard == part = "request" => Request!RefusalHeard

\* No interface gets into the container but the one that had the name in the option
\* when it was looked up, or the one that the option has made, whatever other programs
\* do meanwhile; in place of a macvlan or an ipvlan that they rename or remove the
\* kernel may take another (netif.c:126-164).
OnlyNamedMoved == part = "netif" => Net!OnlyNamedMoved

\* When the command starts each option has its interface in the container, under
\* the name it gave, unless others have removed it.  Where the container has no
\* namespace of its own all stays within their reach: there they may have renamed it,
\* too, or a later option has taken the same one (netif.c:111-166).
Delivered == part = "netif" => Net!Delivered

\* When the container is over none of the interfaces pflask made is left, but for
\* the one it was working on when it failed, and one that another program took out
\* of its hands (netif.c:126-164, README.rst:84).
NothingLeft == part = "netif" => Net!NothingLeft

\* When the command starts it runs as the user that was asked for, as the namespace
\* has it, and in none of the invoker's groups (user.c:125-141).
RunsAsUser == part = "user" => Who!RunsAsUser

\* A container with a user namespace has the ids that were asked for and no other
\* id of the host (user.c:63-114, pflask.c:116-164).
MapsAsAsked == part = "user" => Who!MapsAsAsked

\* When the command of a container with a root and ids of its own starts the console
\* is the container's root's, unless the helper has failed without anybody noticing
\* (dev.c:88-148).
ConsoleOwned == part = "user" => Who!ConsoleOwned
=============================================================================
