-------------------------------- MODULE User --------------------------------
(***************************************************************************)
(* Users and id maps: the options --user, --user-map and --no-userns       *)
(* (src/pflask.c), the maps of the container's user namespace and the      *)
(* change of the user in it (src/user.c), and the owner of the container's *)
(* console (setup_console_owner() of src/dev.c).                           *)
(*                                                                         *)
(* The parent's part comes before the child's, as the barrier between them *)
(* (module Pflask) has it.  Ids are those of the host, but for the ones in *)
(* the options.  An id map is a function from places in the list of        *)
(* entries to extents [id, host, count].                                   *)
(***************************************************************************)
EXTENDS Naturals, SequencesExt

CONSTANTS
    Passwd,         \* users of the host: name -> [uid, gid], root among them
    Unknown,        \* a name that is not there
    Invokers,       \* who runs pflask: uids, the gid is the same
    SubIds,         \* host ids that newuidmap lets anybody use
    UserMaps,       \* lists of --user-map options
    TtyGids,        \* groups that a new terminal may belong to
    Groups          \* supplementary groups of the invoker

Account == [uid : Nat, gid : Nat]

UserAssumption ==
    /\ Passwd \in [DOMAIN Passwd -> Account]
    /\ Invokers \subseteq Nat /\ TtyGids \subseteq Nat
    /\ UserMaps \subseteq Seq(Nat \X Nat \X Nat)
    /\ "root" \in DOMAIN Passwd /\ Unknown \notin DOMAIN Passwd
    /\ Passwd["root"] = [uid |-> 0, gid |-> 0]
    /\ Groups # {}

VARIABLES
    opts,       \* options, and what pflask finds: its invoker, the kernel, ...
    i,          \* the number of --user-map options that are read
    pc,
    userns,     \* CLONE_NEWUSER
    users,      \* the list of struct user
    umap, gmap, \* the maps of the child's user namespace
    helper,     \* the process that gives the console away: none, ok, failed
    console,    \* owner and group of the terminal
    cred,       \* the child's uid, gid and groups
    caps        \* it has the capabilities of its namespace

input == <<opts, i>>
maps  == <<umap, gmap>>
vars  == <<input, pc, userns, users, maps, helper, console, cred, caps>>

Entry(type, id, host, count) == [type |-> type, id |-> id, host |-> host, count |-> count]

Init ==
    /\ opts \in [user : DOMAIN Passwd \cup {Unknown}, given : BOOLEAN, map : UserMaps,
                 no_userns : BOOLEAN, chroot : BOOLEAN, euid : Invokers, have_cmd : BOOLEAN,
                 kernel : BOOLEAN]
    /\ opts.given \/ opts.user = "root"
    /\ pc = "options" /\ i = 0 /\ userns = FALSE /\ users = <<>>
    /\ umap = <<>> /\ gmap = <<>> /\ helper = "none"
    /\ \E g \in TtyGids \cup {opts.euid} : console = [uid |-> opts.euid, gid |-> g]
    /\ cred = [uid |-> opts.euid, gid |-> opts.euid, groups |-> Groups]
    /\ caps = FALSE

Known == opts.user \in DOMAIN Passwd
Uid   == Passwd[opts.user].uid
Gid   == Passwd[opts.user].gid

Fail == pc' = "failed" /\ UNCHANGED <<input, userns, users, maps, helper, console, cred, caps>>

-----------------------------------------------------------------------------
(* The options, and clone().                                               *)

EntriesFor(m) == <<Entry("u", m[1], m[2], m[3]), Entry("g", m[1], m[2], m[3])>>

\* main() for each --user-map in turn.
user_add_map ==
    /\ pc = "options" /\ i < Len(opts.map)
    /\ i' = i + 1
    /\ users' = users \o EntriesFor(opts.map[i + 1])
    /\ UNCHANGED <<opts, pc, userns, maps, helper, console, cred, caps>>

\* --user alone maps the user, if there is one of the name, to itself.
OptionsRead ==
    /\ pc = "options" /\ i = Len(opts.map)
    /\ pc' = "clone"
    /\ users' = IF opts.given /\ opts.map = <<>> /\ Known
                THEN <<Entry("u", Uid, Uid, 1), Entry("g", Gid, Gid, 1)>> ELSE users
    /\ userns' = ((opts.given \/ opts.map # <<>>) /\ ~opts.no_userns)
    /\ UNCHANGED <<input, maps, helper, console, cred, caps>>

\* do_clone(): where the kernel knows no user namespaces there will be none, and
\* the other namespaces are root's to make.
do_clone ==
    /\ pc = "clone"
    /\ LET new == userns /\ opts.kernel IN
       IF ~new /\ opts.euid # 0 THEN Fail
       ELSE /\ userns' = new
            /\ caps' = TRUE
            /\ pc' = IF ~new THEN "setgid" ELSE IF opts.chroot THEN "owner" ELSE "umap"
            /\ UNCHANGED <<input, users, maps, helper, console, cred>>

-----------------------------------------------------------------------------
(* Id maps.                                                                *)

\* Mutant: all entries, whatever their type.
RowsOfAnyType(list, type) == list

Rows(list, type) == Restrict(list, {n \in DOMAIN list : list[n].type = type})

InExtent(e, id) == e.id <= id /\ id < e.id + e.count

Mapped(map, id)  == \E n \in DOMAIN map : InExtent(map[n], id)
ToHost(map, id)  == LET e == map[CHOOSE n \in DOMAIN map : InExtent(map[n], id)]
                    IN  e.host + (id - e.id)

Apart(a, m, b, n) == a + m <= b \/ b + n <= a

\* What the kernel takes for a map.
ValidMap(map) ==
    /\ DOMAIN map # {}
    /\ \A n \in DOMAIN map : map[n].count > 0
    /\ \A m, n \in DOMAIN map : m # n =>
           /\ Apart(map[m].id, map[m].count, map[n].id, map[n].count)
           /\ Apart(map[m].host, map[m].count, map[n].host, map[n].count)

\* What newuidmap takes: ranges of subordinate ids, and the caller's own id.
CmdAllows(map) ==
    \A n \in DOMAIN map :
        \/ map[n].host .. map[n].host + map[n].count - 1 \subseteq SubIds
        \/ map[n].host = opts.euid /\ map[n].count = 1

\* setup_user_map2(): without newuidmap the file in /proc, which is for root.
CanMap(list, type) ==
    /\ ValidMap(Rows(list, type))
    /\ IF opts.have_cmd THEN CmdAllows(Rows(list, type)) ELSE opts.euid = 0

setup_user_map(type, from, to) ==
    /\ pc = from
    /\ IF CanMap(users, type)
       THEN /\ pc' = to
            /\ umap' = IF type = "u" THEN Rows(users, "u") ELSE umap
            /\ gmap' = IF type = "g" THEN Rows(users, "g") ELSE gmap
            /\ UNCHANGED <<input, userns, users, helper, console, cred, caps>>
       ELSE Fail

-----------------------------------------------------------------------------
(* The console's owner.                                                    *)

\* user_get_mapped_root(): the first entry for id 0 itself.
RootEntries(type) == {n \in DOMAIN users : users[n].type = type /\ users[n].id = 0}
MappedRoot(type)  == users[Min(RootEntries(type))].host

RootMapped == RootEntries("u") # {} /\ RootEntries("g") # {}

NoMappedRoot == pc = "owner" /\ ~RootMapped /\ Fail

Owning == pc = "owner" /\ RootMapped

Owner(new, how) ==
    /\ Owning
    /\ pc' = "umap"
    /\ console' = new
    /\ helper' = how
    /\ UNCHANGED <<input, userns, users, maps, cred, caps>>

ChownConsole ==
    /\ Owning /\ opts.euid = 0
    /\ Owner([uid |-> MappedRoot("u"), gid |-> MappedRoot("g")], "none")

\* Mutant: as soon as the container's root is mapped.
NeedlessAlways == Owning /\ opts.euid # 0 /\ Owner(console, "none")

\* It has the right owner.
OwnedAlready ==
    /\ Owning /\ opts.euid # 0 /\ MappedRoot("u") = opts.euid
    /\ Owner(console, "none")

\* The maps of the helper: its root is the container's, the invoker is itself, and
\* the terminal's first group is what it will be in the container.
HelperMap ==
    <<Entry("u", 0, MappedRoot("u"), 1), Entry("u", opts.euid, opts.euid, 1),
      Entry("g", 0, MappedRoot("g"), 1),
      Entry("g", console.gid, MappedRoot("g") + console.gid, 1),
      Entry("g", opts.euid, opts.euid, 1)>>

HelperCanMap == CanMap(HelperMap, "u") /\ CanMap(HelperMap, "g")

NeedsHelper == Owning /\ opts.euid # 0 /\ MappedRoot("u") # opts.euid

\* The helper is root in its own namespace.
HelperChowns ==
    /\ NeedsHelper /\ HelperCanMap
    /\ Owner([uid |-> ToHost(Rows(HelperMap, "u"), 0),
              gid |-> ToHost(Rows(HelperMap, "g"), console.gid)], "ok")

\* By then the terminal has the invoker's group, here and when the helper fails.
HelperMapFails ==
    /\ NeedsHelper /\ ~HelperCanMap
    /\ pc' = "failed"
    /\ console' = [console EXCEPT !.gid = opts.euid]
    /\ UNCHANGED <<input, userns, users, maps, helper, cred, caps>>

\* Its exit status is not looked at.
HelperFails ==
    /\ NeedsHelper /\ HelperCanMap
    /\ Owner([console EXCEPT !.gid = opts.euid], "failed")

-----------------------------------------------------------------------------
(* The child: setup_user().                                                *)

\* An id that the child's namespace has, on the host.
CanBe(map, id) == userns => Mapped(map, id)
HostId(map, id) == IF userns THEN ToHost(map, id) ELSE id

ChildGoes(from, to) ==
    /\ pc = from
    /\ pc' = to
    /\ UNCHANGED <<input, userns, users, maps, helper, console>>

\* The error is printed, and that is all.
InvalidUser == ~Known /\ ChildGoes("setgid", "done") /\ UNCHANGED <<cred, caps>>

setresgid ==
    /\ pc = "setgid" /\ Known /\ CanBe(gmap, Gid)
    /\ ChildGoes("setgid", "setuid")
    /\ cred' = [cred EXCEPT !.gid = HostId(gmap, Gid)]
    /\ UNCHANGED caps

\* The root of the namespace, if it has one.
IsRoot(uid) == CanBe(umap, 0) /\ uid = HostId(umap, 0)

\* Who was root and is not any more has no capabilities left.
setresuid ==
    /\ pc = "setuid" /\ CanBe(umap, Uid)
    /\ ChildGoes("setuid", "setgroups")
    /\ cred' = [cred EXCEPT !.uid = HostId(umap, Uid)]
    /\ caps' = (caps /\ (IsRoot(cred.uid) => IsRoot(cred'.uid)))

\* Mutant: the groups are not touched.
KeepGroups == ChildGoes("setgroups", "done") /\ UNCHANGED <<cred, caps>>

setgroups ==
    /\ caps
    /\ ChildGoes("setgroups", "done")
    /\ cred' = [cred EXCEPT !.groups = {}]
    /\ UNCHANGED caps

SetUserFails ==
    /\ \/ pc = "setgid" /\ Known /\ ~CanBe(gmap, Gid)
       \/ pc = "setuid" /\ ~CanBe(umap, Uid)
       \/ pc = "setgroups" /\ ~caps
    /\ Fail

Next ==
    \/ user_add_map \/ OptionsRead \/ do_clone
    \/ NoMappedRoot \/ ChownConsole \/ OwnedAlready
    \/ HelperChowns \/ HelperMapFails \/ HelperFails
    \/ setup_user_map("u", "umap", "gmap") \/ setup_user_map("g", "gmap", "setgid")
    \/ InvalidUser \/ setresgid \/ setresuid \/ setgroups \/ SetUserFails

Spec == Init /\ [][Next]_vars

-----------------------------------------------------------------------------
(* Properties.                                                             *)

\* Every variable has its type.
TypeOK ==
    /\ pc \in {"options", "clone", "owner", "umap", "gmap", "setgid", "setuid", "setgroups",
               "done", "failed"}
    /\ userns \in BOOLEAN /\ caps \in BOOLEAN /\ helper \in {"none", "ok", "failed"}
    /\ i \in 0 .. Len(opts.map)
    /\ \A list \in {users, umap, gmap} : \A n \in DOMAIN list :
           list[n] \in [type : {"u", "g"}, id : Nat, host : Nat, count : Nat]
    /\ \A n \in DOMAIN umap : umap[n].type = "u"
    /\ \A n \in DOMAIN gmap : gmap[n].type = "g"
    /\ console.uid \in Nat /\ console.gid \in Nat /\ cred.groups \subseteq Groups

\* When the command starts it runs as the user that was asked for, as the namespace
\* has it, and in none of the invoker's groups (user.c:125-141).
RunsAsUser ==
    pc = "done" /\ Known =>
        cred = [uid |-> HostId(umap, Uid), gid |-> HostId(gmap, Gid), groups |-> {}]

\* The pairs <<id in the container, id on the host>> that the options ask for.
AskedPairs(id) ==
    IF opts.map = <<>> THEN {<<id, id>>}
    ELSE UNION {{<<m[1] + n, m[2] + n>> : n \in 0 .. m[3] - 1} : m \in ToSet(opts.map)}

Pairs(map) ==
    UNION {{<<map[n].id + k, map[n].host + k>> : k \in 0 .. map[n].count - 1} : n \in DOMAIN map}

\* A container with a user namespace has the ids that were asked for and no other
\* id of the host: those of --user-map, or the user's own (user.c:63-114,
\* pflask.c:116-164).
MapsAsAsked ==
    pc = "done" /\ userns =>
        /\ Known \/ opts.map # <<>>
        /\ Pairs(umap) = AskedPairs(Uid) /\ Pairs(gmap) = AskedPairs(Gid)

\* When the command of a container with a root and ids of its own starts the console
\* is the container's root's, whoever ran pflask, unless the helper has failed
\* without anybody noticing (dev.c:88-148).
ConsoleOwned ==
    pc = "done" /\ opts.chroot /\ userns /\ helper # "failed" =>
        Mapped(umap, 0) /\ console.uid = ToHost(umap, 0)
=============================================================================
