------------------------------- MODULE Mount -------------------------------
(***************************************************************************)
(* The container's file systems: the list that mount_add_from_spec() and   *)
(* setup_mount() make (src/mount.c), the mounts it stands for, and what    *)
(* dev.c then puts into /dev.                                              *)
(*                                                                         *)
(* A path is the sequence of its components below the container's root,    *)
(* which without --chroot is the host's.  The mount table is a sequence: a *)
(* path is looked up in the latest mount at it or above it.  A mount shows *)
(* a file system from some directory on, so that a bind mount shows what   *)
(* its source shows; the host's directories are one file system.           *)
(***************************************************************************)
EXTENDS Naturals, SequencesExt

CONSTANTS
    Specs,          \* lists of --mount arguments
    HostDirs,       \* directories of the host, those of the container's root among them,
    HostFiles,      \* and its files
    RootPath,       \* the argument of --chroot, without ".", ".." and symbolic links
    Nodes           \* the names in /dev that setup_nodes() makes, in its order

Words == {"bind", "bind-ro", "overlay", "tmp", "other"}

\* valid: enough arguments, and all paths absolute; src: a path of the host.
SpecType == [word : Words, src : Seq(STRING), dst : Seq(STRING), valid : BOOLEAN]

Node(n) == <<"dev", n>>

\* The nodes are seven (dev.c:194-202), none is one of pflask's mount points or links,
\* and no directory is below a device.
ASSUME MountAssumption ==
    /\ Specs \subseteq Seq(SpecType)
    /\ RootPath \in Seq(STRING)
    /\ HostDirs \subseteq Seq(STRING) /\ HostFiles \subseteq Seq(STRING)
    /\ Nodes \in Seq(STRING)
    /\ {"pts", "shm", "ptmx"} \cap ToSet(Nodes) = {}
    /\ \A n \in ToSet(Nodes) : ~IsPrefix(Node(n), RootPath)

VARIABLES
    chroot, ephemeral,  \* options
    specs, read,        \* --mount arguments, and how many of them are read
    mounts,             \* the list of struct mount
    pc,
    tab,                \* the mount table of the child
    dirs, files,        \* what is where: <<file system, path in it>>
    made                \* those that pflask has created

options == <<chroot, ephemeral, specs>>
disk    == <<dirs, files, made>>
vars    == <<options, read, mounts, pc, tab, disk>>

Host == <<"host", 0>>

-----------------------------------------------------------------------------
(* Looking up a path.                                                      *)

\* Where the container's root is on the host.
Top == IF chroot THEN RootPath ELSE <<>>

\* A process does not see what is mounted on its own root directory until it enters that
\* again by another path: do_chroot() does, unless the new root is the old one.
Reenters == Top # <<>>

\* A mount at d is on the way to p.
Covers(d, p) == IsPrefix(d, p) /\ (d # <<>> \/ Reenters)

Visible(p) ==
    LET above == {i \in DOMAIN tab : i = 1 \/ Covers(tab[i].dst, p)}
    IN  CHOOSE i \in above : \A j \in above : j <= i

\* What is left of a path below d.
Below(p, d) == SubSeq(p, Len(d) + 1, Len(p))

\* Where what is seen at p is stored.
At(p) == LET m == tab[Visible(p)] IN <<m.fs, m.base \o Below(p, m.dst)>>

KindOf(place) == IF place \in dirs THEN "dir" ELSE IF place \in files THEN "file" ELSE "none"

Kind(p) == IF tab[Visible(p)].dst = p THEN tab[Visible(p)].kind ELSE KindOf(At(p))

\* What a bind mount of p shows: it takes over whether that is read-only.
Seen(p) == [fs |-> At(p)[1], base |-> At(p)[2], kind |-> Kind(p), ro |-> tab[Visible(p)].ro]

Inside(src) == IsPrefix(Top, src)

\* And of a path of the host: pflask mounts nothing outside the container's root.
Source(src) ==
    IF Inside(src) THEN Seen(Below(src, Top))
    ELSE [fs |-> Host, base |-> src, kind |-> KindOf(<<Host, src>>), ro |-> FALSE]

-----------------------------------------------------------------------------
Entry(how, type, src, dst, ro) ==
    [how |-> how, type |-> type, src |-> src, dst |-> dst, ro |-> ro]

New(type, dst, ro) == Entry("new", type, <<>>, dst, ro)

\* A bind mount takes no flags but by a remount.
Bind(type, src, dst)   == Entry("bind", type, src, dst, FALSE)
BindRo(type, src, dst) == <<Bind(type, src, dst), Entry("remount", type, src, dst, TRUE)>>

Init ==
    /\ chroot \in BOOLEAN
    /\ ephemeral \in BOOLEAN /\ (ephemeral => chroot)
    /\ specs \in Specs /\ read = 0
    /\ mounts = <<>>
    /\ pc = "parse"
    /\ tab = <<[type |-> "host", dst |-> <<>>, fs |-> Host, base |-> Top, ro |-> FALSE,
                kind |-> "dir"]>>
    /\ dirs = {<<Host, d>> : d \in HostDirs} /\ files = {<<Host, f>> : f \in HostFiles}
    /\ made = {}

Fail == pc' = "failed" /\ UNCHANGED <<options, read, mounts, tab, disk>>

-----------------------------------------------------------------------------
(* The list.                                                               *)

\* Mutant: one mount with MS_BIND | MS_RDONLY for bind-ro.
FromSpecOneMount(s) ==
    CASE s.word \in {"bind", "bind-ro"} -> <<Bind("user", s.src, s.dst)>>
      [] s.word = "overlay" -> <<Entry("overlay", "user", s.src, s.dst, FALSE)>>
      [] s.word = "tmp"     -> <<New("user", s.dst, FALSE)>>

FromSpec(s) ==
    CASE s.word = "bind"    -> <<Bind("user", s.src, s.dst)>>
      [] s.word = "bind-ro" -> BindRo("user", s.src, s.dst)
      [] s.word = "overlay" -> <<Entry("overlay", "user", s.src, s.dst, FALSE)>>
      [] s.word = "tmp"     -> <<New("user", s.dst, FALSE)>>

\* main() for each --mount in turn: one bad argument and pflask ends.
mount_add_from_spec ==
    /\ pc = "parse" /\ read < Len(specs)
    /\ LET s == specs[read + 1] IN
       IF s.valid /\ s.word # "other"
       THEN /\ read' = read + 1
            /\ mounts' = mounts \o FromSpec(s)
            /\ UNCHANGED <<options, pc, tab, disk>>
       ELSE Fail

\* Mutant: /dev after what is mounted in it.
SystemMountsDevLast ==
    <<New("proc", <<"proc">>, FALSE)>> \o BindRo("procsys", <<>>, <<"proc", "sys">>)
    \o <<New("sysfs", <<"sys">>, TRUE),
         New("pts", <<"dev", "pts">>, FALSE), New("shm", <<"dev", "shm">>, FALSE),
         New("dev", <<"dev">>, FALSE),
         New("run", <<"run">>, FALSE), New("cgroup", <<"sys", "fs", "cgroup">>, FALSE)>>

\* setup_mount(): the ten mounts of a container with a root of its own.
SystemMounts ==
    <<New("proc", <<"proc">>, FALSE)>> \o BindRo("procsys", <<>>, <<"proc", "sys">>)
    \o <<New("sysfs", <<"sys">>, TRUE), New("dev", <<"dev">>, FALSE),
         New("pts", <<"dev", "pts">>, FALSE), New("shm", <<"dev", "shm">>, FALSE),
         New("run", <<"run">>, FALSE), New("cgroup", <<"sys", "fs", "cgroup">>, FALSE)>>

EphemeralRoot == <<Entry("overlay", "ephemeral", <<>>, <<>>, FALSE)>>

\* Mutant: the overlay is the last of the system's mounts.
EphemeralLast == SystemMounts \o (IF ephemeral THEN EphemeralRoot ELSE <<>>) \o mounts

WholeList == (IF ephemeral THEN EphemeralRoot ELSE <<>>) \o SystemMounts \o mounts

ConcatMounts ==
    /\ pc = "parse" /\ read = Len(specs)
    /\ pc' = "mount"
    /\ mounts' = IF chroot THEN WholeList ELSE mounts
    /\ UNCHANGED <<options, read, tab, disk>>

-----------------------------------------------------------------------------
(* The mounts.                                                             *)

\* path_prefix_root(dest, dst), which leaves the root's own path alone.
MountPoint(dst) == IF chroot /\ dst = RootPath THEN <<>> ELSE dst

CanCreate(p) == p # <<>> /\ Kind(Front(p)) = "dir" /\ ~tab[Visible(p)].ro

\* mkdir() with EEXIST for directories, make_bind_dest() for bind mounts.
CanPrepare(p, kind) == Kind(p) = kind \/ (Kind(p) = "none" /\ CanCreate(p))

\* The mount point is there, or made in the file system seen at its place.
Missing(p) == IF Kind(p) = "none" THEN {At(p)} ELSE {}

\* What is mounted: /proc/sys is bound to itself, and has been made if it was missing.
From(e, p) ==
    IF e.type = "user" /\ e.how \in {"bind", "remount"} THEN Source(e.src)
    ELSE IF e.type = "procsys" THEN [Seen(p) EXCEPT !.kind = "dir"]
    ELSE [fs |-> <<e.type, Len(tab)>>, base |-> <<>>, kind |-> "dir", ro |-> e.ro]

Contents(type) ==
    CASE type = "proc"  -> {<<"sys">>}
      [] type = "sysfs" -> {<<"fs">>, <<"fs", "cgroup">>}
      [] OTHER          -> {}

\* What an overlay at p has from the file system that it covers.
Copied(places, fs, p) ==
    LET lower == {d \in places : d[1] = At(p)[1] /\ IsPrefix(At(p)[2], d[2])}
    IN  {<<fs, Below(d[2], At(p)[2])>> : d \in lower}

MountOne(e, p) ==
    LET from == From(e, p)
        new  == IF e.how = "new" THEN {<<from.fs, q>> : q \in Contents(e.type)} ELSE {}
        over == e.how = "overlay"
    IN  /\ tab' = IF e.how = "remount" THEN [tab EXCEPT ![Visible(p)].ro = e.ro]
                  ELSE Append(tab, [type |-> e.type, dst |-> p, fs |-> from.fs,
                                    base |-> from.base, ro |-> from.ro, kind |-> from.kind])
        /\ made' = made \cup Missing(p)
        /\ dirs' = dirs \cup new \cup (IF over THEN Copied(dirs, from.fs, p) ELSE {})
                        \cup (IF from.kind = "dir" THEN Missing(p) ELSE {})
        /\ files' = files \cup (IF over THEN Copied(files, from.fs, p) ELSE {})
                          \cup (IF from.kind = "file" THEN Missing(p) ELSE {})

MountNext ==
    /\ pc = "mount" /\ mounts # <<>>
    /\ LET e == Head(mounts)
           p == MountPoint(e.dst)
           kind == From(e, p).kind
       IN  IF /\ kind # "none" /\ CanPrepare(p, kind)
              /\ e.how = "remount" => tab[Visible(p)].dst = p
           THEN /\ MountOne(e, p)
                /\ mounts' = Tail(mounts)
                /\ UNCHANGED <<options, read, pc>>
           ELSE Fail

Mounted ==
    /\ pc = "mount" /\ mounts = <<>>
    /\ pc' = IF chroot THEN "nodes" ELSE "done"
    /\ UNCHANGED <<options, read, mounts, tab, disk>>

-----------------------------------------------------------------------------
(* The files in /dev.                                                      *)

\* What is seen at the path src, bound over a file in /dev.
Bound(type, n, src) ==
    [type |-> type, dst |-> Node(n), fs |-> Source(src).fs, base |-> Source(src).base,
     ro |-> Source(src).ro, kind |-> "file"]

\* setup_nodes(): a file for each, and the host's node, which is there, bound over it.
setup_nodes ==
    /\ pc = "nodes"
    /\ IF \A n \in ToSet(Nodes) : CanPrepare(Node(n), "file")
       THEN /\ pc' = "links"
            /\ LET new == UNION {Missing(Node(n)) : n \in ToSet(Nodes)}
               IN  files' = files \cup new /\ made' = made \cup new
            /\ tab' = tab \o [i \in DOMAIN Nodes |-> Bound("node", Nodes[i], Node(Nodes[i]))]
            /\ UNCHANGED <<options, read, mounts, dirs>>
       ELSE Fail

\* setup_ptmx() and setup_symlinks(): symlink() does not replace what is there.
setup_symlinks ==
    /\ pc = "links"
    /\ IF Kind(Node("ptmx")) = "none" /\ CanCreate(Node("ptmx"))
       THEN /\ pc' = "console"
            /\ files' = files \cup {At(Node("ptmx"))} /\ made' = made \cup {At(Node("ptmx"))}
            /\ UNCHANGED <<options, read, mounts, tab, dirs>>
       ELSE Fail

\* The slave that ptsname() names, in the host's /dev/pts.
Slave == <<"dev", "pts", "0">>

\* chmod() and mount() by that name, in the child's mount table.
setup_console ==
    /\ pc = "console"
    /\ IF Source(Slave).kind = "file"
       THEN /\ pc' = "done"
            /\ tab' = Append(tab, Bound("console", "console", Slave))
            /\ UNCHANGED <<options, read, mounts, disk>>
       ELSE Fail

Next ==
    \/ mount_add_from_spec \/ ConcatMounts \/ MountNext \/ Mounted
    \/ setup_nodes \/ setup_symlinks \/ setup_console

Spec == Init /\ [][Next]_vars

-----------------------------------------------------------------------------
(* Properties.                                                             *)

Uncovered(i) ==
    \A j \in DOMAIN specs :
        j > i => ~Covers(MountPoint(specs[j].dst), MountPoint(specs[i].dst))

\* At a file that pflask puts into /dev, or below it.
AtDevice(p) == chroot /\ \E n \in ToSet(Nodes) \cup {"console"} : IsPrefix(Node(n), p)

\* When the command starts, every --mount is seen at its place, unless a later one was
\* made at it or above it.  A bind-ro is read-only; no other mount is, but for a bind of
\* what is read-only itself, and that only within the container's root.  No mount of the
\* system hides it, with two exceptions: pflask's own files in /dev are always seen
\* (dev.c:204-217), and without a root of its own the container sees nothing of a mount at
\* "/", as nothing enters the root again (mount.c:99-132, 204; pflask.c:222-232).
SpecsHonoured ==
    pc = "done" => \A i \in DOMAIN specs : Uncovered(i) =>
        LET p == MountPoint(specs[i].dst)
            m == tab[Visible(p)]
            word == specs[i].word
        IN  IF AtDevice(p) THEN m.type \in {"node", "console"}
            ELSE IF ~Covers(p, p) THEN m.type = "host"
            ELSE /\ m.type = "user" /\ m.dst = p
                 /\ word = "bind-ro" => m.ro
                 /\ m.ro => word = "bind-ro" \/ (word = "bind" /\ Inside(specs[i].src))

\* The user asked for a mount at p or above it.
UserAt(p) == \E i \in DOMAIN specs : Covers(MountPoint(specs[i].dst), p)

\* When the command starts, each of the system's file systems is seen at its
\* place, unless the user put something there: none of them hides another one, and
\* /proc/sys, which is a part of the writable /proc, is not writable, nor is /sys
\* (mount.c:174-201).
SystemInPlace ==
    pc = "done" /\ chroot => \A i \in DOMAIN SystemMounts :
        LET e == SystemMounts[i]
            m == tab[Visible(e.dst)]
        IN  ~UserAt(e.dst) =>
                /\ m.dst = e.dst
                /\ m.fs[1] = IF e.type = "procsys" THEN "proc" ELSE e.type
                /\ m.ro <=> e.dst \in {<<"sys">>, <<"proc", "sys">>}

\* A --mount has a directory above the container's root for its source.
FromAbove ==
    \E i \in DOMAIN specs :
        specs[i].word # "tmp" /\ specs[i].src # RootPath /\ IsPrefix(specs[i].src, RootPath)

\* With --ephemeral nothing is ever created in the container's real root, be it the mount
\* points, the user's included, or the files in /dev (mount.c:171, 204).  Two cases are left
\* out: a --mount whose source is above the root, by which one can get at the root, and
\* --chroot=/, where the overlay is never seen (pflask.c:387).
RootUntouched ==
    ephemeral /\ RootPath # <<>> /\ ~FromAbove =>
        \A m \in made : ~(m[1] = Host /\ IsPrefix(RootPath, m[2]))

\* docs/pflask.rst:170: "Mounts a temporary in-memory filesystem on the *dest*
\* directory inside the container."  Once everything is mounted, a mount is seen
\* at the path that was given, below the root (path.c:93-96, mount.c:207).
MountsAreRelative ==
    pc \in {"nodes", "done"} =>
        \A i \in DOMAIN specs : specs[i].dst # <<>> => tab[Visible(specs[i].dst)].dst = specs[i].dst
=============================================================================
